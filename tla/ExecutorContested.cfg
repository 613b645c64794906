SPECIFICATION Spec
CONSTANTS
  Never = Never
  NotAnInteger = NotAnInteger
  None = None
  a1 = a1
  a2 = a2
  Actions = {a1, a2}
  Workers = {w1, w2}
  ActionType <- AllLinks
  Amounts = {2}
  RuledAmount <- AllSmall
  Amended = {}
  Policies <- TightPolicy
  Movable = {}
  DayLength = 1
  MaxTime = 0
  MaxCrashes = 0
INVARIANTS
  ExposureWithinCap
SYMMETRY WorkerSymmetry
CHECK_DEADLOCK FALSE
