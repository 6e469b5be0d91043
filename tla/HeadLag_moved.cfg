SPECIFICATION Spec
CONSTANTS
  N = 3
  MaxHeight = 3
  MaxTime = 2
  Keep = 3
INVARIANTS
  SecondsSinceNetworkMoved
CHECK_DEADLOCK FALSE
