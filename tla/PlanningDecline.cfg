SPECIFICATION Spec
CONSTANTS
  Never = Never
  NotAnInteger = NotAnInteger
  None = None
  Payments = {1, 2}
  Incidents = {i1, i2}
  AmountOf <- TwoPayments
  Answers <- AllAnswers
  Policies <- StrictAndPatient
  Movable = {1}
  DayLength = 1
  MaxTime = 1
SYMMETRY IncidentSymmetry
INVARIANT
  DeclineIsHonoured
CHECK_DEADLOCK FALSE
