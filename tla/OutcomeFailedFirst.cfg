SPECIFICATION FairSpec
CONSTANTS
  None = None
  Executions = {1}
  Amounts = {1}
  Workers = {w1}
  Limit = 1
  AttemptsMayFail = TRUE
  Replayed <- NoReplay
  MaxCrashes = 0
PROPERTIES
  PaidIsRecorded
CHECK_DEADLOCK FALSE
