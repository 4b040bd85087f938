SPECIFICATION Spec
CONSTANTS
  ascii = ascii
  umlaut = umlaut
  weak = weak
  strong = strong
  absurd = absurd
  Passwords <- MCPasswords
  NonAscii <- MCNonAscii
  Params <- MCParams
  Default = weak
  OutOfRange = absurd
  Old <- MCCurrent
  Initial <- MCAll
  MaxSalt = 3
INVARIANT NothingEmptied
