SPECIFICATION FairSpec
CONSTANTS
  d1 = d1
  Delta <- OneDelta
  HalfBudget = 2
  ReplyTokens <- SmallReplies
  SeedTokens <- EmptySeed
  MaxTokens = 2
  MaxSamples = 1
  OperatorSeeds = 0
  MaxRestarts = 0
  DiskMayFail = FALSE
PROPERTIES
  Accumulating
CHECK_DEADLOCK FALSE
