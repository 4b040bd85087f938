SPECIFICATION Spec
CONSTANTS
  ascii = ascii
  umlaut = umlaut
  weak = weak
  strong = strong
  absurd = absurd
  Passwords <- MCPasswords
  NonAscii <- MCNonAscii
  Params <- MCParams
  Default = weak
  OutOfRange = absurd
  Old <- MCCurrent
  Initial <- MCAll
  MaxSalt = 4
INVARIANTS
  TypeOK
  FileOpens
  CacheIsDerived
  KeyOpensFile
PROPERTIES
  LoadsOnlyWithPassword
