SPECIFICATION AuditSpec
CONSTANTS
  N = 3
  ErrClass = {"timeout", "rate_limited"}
  Evidence <- MCEvidence
  ChainOf <- MCChainOf
  Divergences <- MCDivergences
  Flags <- MCFlags
INVARIANTS
  RowsAreRuns
  PercentilesAreNearestRank
  TablesAgree
  FindingsMatchIncidents
  CurrentRankedFirst
  HedgeFitsTimeout
  AlertFitsEvidence
CHECK_DEADLOCK FALSE
