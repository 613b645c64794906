SPECIFICATION Spec
CONSTANTS
  None = None
  Methods = {"upi", "card"}
  LastHour = 3
  MinFailures = 3
  MinVolume = 5
  MinRate <- Rate
  MinMultiple = 3
  LostTies <- Missed
  InitialCounts <- TwoMethods
  MaxChanges = 1
INVARIANTS
  Inductive
  IncidentsAreOutages
  MoreFailuresHideNothing
  RowsAreCurrent
PROPERTIES
  RescanChangesNothing
CHECK_DEADLOCK FALSE
