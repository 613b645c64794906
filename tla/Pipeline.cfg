SPECIFICATION FairSpec
CONSTANTS
  Payments = {1, 2}
  Incidents = {"A"}
  PaymentsOf <- Alone
  Threshold <- OneIsEnough
  AmountOf <- UnitAmounts
  Rulings = {"awaiting_approval", "approved"}
  Limit = 1
  PullLimit = 1
  Trouble <- AllTrouble
  None = None
  Models = 2
  SchemaRetries = 2
  Attempts = 3
  QuickRetries = 1
  Errors <- ProviderErrors
INVARIANTS
  TypeOK
  HealthyModelIsReached
PROPERTIES
  CallEnds
  PendingSettles
  PaidIsPulled
