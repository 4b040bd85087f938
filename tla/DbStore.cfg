SPECIFICATION Spec
CONSTANTS
  h1 = h1
  h2 = h2
  t1 = t1
  bad = bad
  Handles <- MCHandles
  Tokens <- MCTokens
  Invalid <- MCInvalid
  Seeds <- MCSeeds
  MaxVersions = 3
INVARIANTS
  TypeOK
  NoSilentClobber
  CheckStillHolds
  DigestIsOwn
  SnapshotIsOneVersion
  QuarantineKept
  BackupBeforeReplace
PROPERTIES
  ImplementsStore
  UpdateEndsCommitted
SYMMETRY MCSymmetry
