SPECIFICATION FairSpec
CONSTANTS
  t = t
  u = u
  h = h
  s1 = s1
  s2 = s2
  both = both
  one = one
  Tokens <- MCTokens
  Totp <- MCTotp
  Files <- MCFiles
  Senders <- MCSenders
  Queries <- MCQueries
  Matches <- MCMatches
  Burst = 1
  MaxResults = 2
INVARIANTS
  TypeOK
  CacheFollowsFile
PROPERTIES
  OneCodePerResult
  CodeOfLabelUnlessEdited
  WipedWhenIdle
