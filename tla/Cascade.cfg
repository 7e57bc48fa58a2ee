\* Layers 1 and 2 below the cores, a channel of one change.
CONSTANTS
  Bottom = 1
  Top = 2
  SmallFile = 1
  ChannelSize = 1
  MaxMessages = 2
SPECIFICATION FairSpec
INVARIANTS
  OneTurn
  SentWholeAndOnce
PROPERTIES
  Rises
CHECK_DEADLOCK FALSE
