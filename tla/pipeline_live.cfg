SPECIFICATION FairSpec
CONSTANTS
  Batches = {b1}
  MaxEvents = 2
  MaxRetries = 3
  BatchLimit = 1
  UrlConfigured = TRUE
  MaxWrites = 1
  MaxFaults = 1
PROPERTY
  PendingDrains
