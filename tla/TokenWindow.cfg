SPECIFICATION Spec
CONSTANTS
  h = h
  t = t
  u = u
  a = a
  b = b
  Tokens <- MCTokens
  Hotp <- MCHotp
  Dbs <- MCDbs
  MaxCounter = 2
  MaxLen = 3
  MaxToasts = 2
SYMMETRY DbSymmetry
CONSTRAINT Followed
INVARIANTS
  TypeOK
  RowsMirrorJson
  CountersReachFile
  MemoryMatchesFile
  TokensKept
  TokensOnce
PROPERTIES
  NoCodeTwice
