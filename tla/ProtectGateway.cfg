SPECIFICATION Spec
CONSTANTS
  Pattern <- Patterns
  Value <- Values
  Matches <- Globs
  Base <- BasePolicy
  Overlays <- BothOverlays
  Message <- Messages
  Channel = 1
  MaxSaid = 3
  MaxReplies = 1
  None = None
INVARIANTS EachGoesItsWay
PROPERTIES NothingWaits
CHECK_DEADLOCK FALSE
