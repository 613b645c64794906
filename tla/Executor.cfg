SPECIFICATION Spec
CONSTANTS
  Never = Never
  NotAnInteger = NotAnInteger
  None = None
  a1 = a1
  a2 = a2
  Actions = {a1, a2}
  Workers = {w1, w2}
  ActionType <- AllLinks
  Amounts = {2, 4}
  RuledAmount <- OneSmallOneLarge
  Amended = {2}
  Policies <- OnePolicy
  Movable = {}
  DayLength = 1
  MaxTime = 0
  MaxCrashes = 1
INVARIANTS
  OneExecutionPerAction
  LinkNeedsAuthority
  Inductive
  LargeLinkHasApproval
  LinkIsExplained
  SuccessIsReal
  SoundLinksWithinCap
  ClaimsWithinCap
  FailureIsSound
  AuditTellsTheTruth
PROPERTIES
  SuccessIsFinal
  AnswerIsFinal
  KeepsTheGate
SYMMETRY WorkerSymmetry
CHECK_DEADLOCK FALSE
