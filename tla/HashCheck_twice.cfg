SPECIFICATION Spec
CONSTANTS
  Endpoint = {e1, e2}
  Inexact = {}
  FinalityDepth = 2
  CheckInterval = 1
  MaxReorg = 0
  MaxHeight = 5
  MaxFork = 2
  MaxTime = 3
INVARIANTS
  NeverTwiceAtAHeight
CHECK_DEADLOCK FALSE
