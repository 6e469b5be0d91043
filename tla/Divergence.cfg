SPECIFICATION Spec
CONSTANTS
  N = 5
  Hash = {1, 2, 3}
  Spelling = {1, 2}
INVARIANTS
  EventPartitionsEndpoints
  MajorityIsStrict
  RowsShowDeviants
PROPERTIES
  DisagreementReported
CHECK_DEADLOCK FALSE
