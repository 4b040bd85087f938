SPECIFICATION Spec
CONSTANTS
  a = a
  b = b
  c = c
  None = None
  Paths <- MCPaths
  MaxLoads = 2
INVARIANTS
  TypeOK
  StartFindsAll
  LockedForgetsSearch
SYMMETRY Symmetry
