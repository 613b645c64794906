SPECIFICATION FairSpec
CONSTANTS
  Payments = {1, 2}
  Incidents = {"A"}
  PaymentsOf <- Together
  Threshold <- BothNeeded
  AmountOf <- UnitAmounts
  Rulings = {"awaiting_approval", "approved"}
  Limit = 1
  PullLimit = 2
  Trouble <- NoTrouble
  None = None
  Models = 2
  SchemaRetries = 2
  Attempts = 3
  QuickRetries = 1
  Errors <- ProviderErrors
PROPERTIES
  PaidIsRecorded
