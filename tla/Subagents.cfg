SPECIFICATION Spec
CONSTANTS
  child = child
  grandchild = grandchild
  Agent = {child, grandchild}
  Parent <- Family
  Control = {human, agent}
  MaxIterations = 2
  None = None
INVARIANTS FlagsAgree NoneLiveBelow Accounts
PROPERTIES NeverRevived
SYMMETRY Alike
CHECK_DEADLOCK FALSE
