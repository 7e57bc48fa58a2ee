SPECIFICATION FairSpec
CONSTANTS
  s1 = s1
  s2 = s2
  Session <- TwoSessions
  Replies <- AnyReply
  max_tool_iterations = 1
  SleepAt = 4
  MaxMessages = 2
  MaxNotices = 1
  MaxTools = 2
INVARIANTS
  AwaitedIsComing
  CallsInHand
  ConversationHolds
PROPERTIES
  AnswersLatest
  MessageHandled
  TurnEnds
CHECK_DEADLOCK FALSE
