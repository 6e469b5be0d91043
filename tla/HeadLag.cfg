SPECIFICATION Spec
CONSTANTS
  N = 3
  MaxHeight = 4
  MaxTime = 3
  Keep = 1
INVARIANTS
  TypeOK
  WindowExact
  NeverOverstated
  ExactInWindow
PROPERTIES
  OnlyPruningForgets
CHECK_DEADLOCK FALSE
