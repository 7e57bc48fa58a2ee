SPECIFICATION FairSpec
CONSTANTS
  d1 = d1
  Delta <- OneDelta
  HalfBudget = 2
  ReplyTokens <- SmallReplies
  SeedTokens <- OneSeed
  MaxTokens = 2
  MaxSamples = 2
  OperatorSeeds = 2
  MaxRestarts = 1
  DiskMayFail = FALSE
INVARIANTS
  TypeOK
  DeepContext
  ReadyPassesOn
  DurableCheckpoint
PROPERTIES
  ReadyEnds
CHECK_DEADLOCK FALSE
