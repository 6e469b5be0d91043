SPECIFICATION Spec
CONSTANTS
  N = 2
  C = 1
  MaxTime = 2
  MaxTicks = 2
  For = 1
  Cooldown = 2
  CheckInterval = 1
  DiskFails = FALSE
INVARIANTS
  LogInTimeOrder
CHECK_DEADLOCK FALSE
