SPECIFICATION Spec
CONSTANTS
  MaxRecords = 5
  MaxFailures = 3
INVARIANTS
  DivergencesSurvive
  LossesAreReported
CHECK_DEADLOCK FALSE
