SPECIFICATION FairSpec
CONSTANTS
  Never = Never
  NotAnInteger = NotAnInteger
  None = None
  a1 = a1
  a2 = a2
  Actions = {a1}
  Workers = {w1}
  ActionType <- AllLinks
  Amounts = {2}
  RuledAmount <- AllSmall
  Amended = {}
  Policies <- ChangedPolicy
  Movable = {a1}
  DayLength = 1
  MaxTime = 1
  MaxCrashes = 1
INVARIANTS
  TightenedLimitIsKept
PROPERTIES
  PendingIsResolved
CHECK_DEADLOCK FALSE
