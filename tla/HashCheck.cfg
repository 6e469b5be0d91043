SPECIFICATION Spec
CONSTANTS
  Endpoint = {e1, e2, e3}
  Inexact = {e3}
  FinalityDepth = 2
  CheckInterval = 2
  MaxReorg = 1
  MaxHeight = 4
  MaxFork = 2
  MaxTime = 3
INVARIANTS
  TypeOK
  ChecksAreSpaced
  NoFalseDivergence
  LeaderIsCanonical
CHECK_DEADLOCK FALSE
