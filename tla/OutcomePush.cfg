SPECIFICATION FairSpec
CONSTANTS
  None = None
  Executions = {1}
  Amounts = {1, 2}
  Workers = {w1, w2}
  Limit = 1
  AttemptsMayFail = TRUE
  Replayed <- PaidAndPulled
  MaxCrashes = 1
INVARIANTS
  OutcomeHasEvidence
  RevenueIsReal
  Inductive
PROPERTIES
  LedgerIsKept
  ReconciliationCatchesUp
CHECK_DEADLOCK FALSE
