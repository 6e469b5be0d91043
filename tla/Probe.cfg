SPECIFICATION Spec
CONSTANTS
  N = 2
  C = 1
  MaxTime = 4
  MaxTicks = 3
  For = 1
  Cooldown = 2
  CheckInterval = 2
  DiskFails = TRUE
INVARIANTS
  TypeOK
  LogIsPrefix
  AlertsJustified
  DivergenceRecordedFirst
  TicksAreWhole
  MetricsMatchFacts
  AlertsSpaced
CHECK_DEADLOCK FALSE
