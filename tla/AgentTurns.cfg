\* Two turns of one key; two iterations; no tool, or two at once; one more
\* call of a client.
CONSTANTS
  t1 = t1
  t2 = t2
  Turn <- TwoTurns
  Steer = {steered}
  FollowUp = {followup}
  Key = {k}
  MaxIterations = 2
  ToolCounts = {0, 2}
  MaxWishes = 1
  SleepAt = 2
  None = None
SPECIFICATION FairSpecInOrder
INVARIANTS
  UsesPaired
  NothingIsLost
  AllIsAnswered
PROPERTIES
  TurnsEnd
CHECK_DEADLOCK FALSE
