SPECIFICATION Spec
CONSTANTS
  Never = Never
  NotAnInteger = NotAnInteger
  ProposedActions <- SmallActions
  Contexts <- SmallContexts
  Configs <- SmallConfigs
INVARIANTS
  DecidesAsWritten
  StricterNeverFreer
  AutonomousLimitIsUsable
CHECK_DEADLOCK FALSE
