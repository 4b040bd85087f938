SPECIFICATION FairSpec
CONSTANTS
  h1 = h1
  h2 = h2
  t1 = t1
  bad = bad
  Handles <- MCHandles
  Tokens <- MCOneToken
  Invalid <- MCNone
  Seeds <- MCOneSeed
  MaxVersions = 2
PROPERTIES
  SaveEnds
