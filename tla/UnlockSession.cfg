SPECIFICATION FairSpec
CONSTANTS
  p1 = p1
  p2 = p2
  Paths <- MCPaths
  Primary = p1
  LastEntry = p2
  MaxPending = 2
INVARIANTS
  TypeOK
  LockedHoldsNothing
PROPERTIES
  OpensOnlyWhenAsked
  UnlocksOnlyWhenAsked
  UnlockEnds
