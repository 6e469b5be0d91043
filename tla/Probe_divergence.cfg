SPECIFICATION Spec
CONSTANTS
  N = 2
  C = 1
  MaxTime = 4
  MaxTicks = 4
  For = 1
  Cooldown = 2
  CheckInterval = 1
  DiskFails = FALSE
INVARIANTS
  DivergenceSustained
CHECK_DEADLOCK FALSE
