SPECIFICATION Spec
CONSTANTS
  None = None
  Executions = {1}
  Amounts = {1}
  Workers = {w1}
  Limit = 1
  AttemptsMayFail = FALSE
  Replayed <- NoReplay
  MaxCrashes = 1
INVARIANTS
  RecoveredIsCaptured
CHECK_DEADLOCK FALSE
