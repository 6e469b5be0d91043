SPECIFICATION Spec
CONSTANTS
  N = 3
  C = 2
  Files <- MCFiles
  Env <- MCEnv
INVARIANTS
  TypeOK
  RequestsAreJoined
  MeasuresOnlyWhatFits
  LogOpenWhileMeasuring
  SignalsAreOrderly
PROPERTIES
  LoopSafetySpec
  StopsWhenDue
  KeepsPolling
CHECK_DEADLOCK FALSE
