SPECIFICATION FairSpec
CONSTANTS
  Batches = {b1}
  MaxEvents = 1
  MaxRetries = 3
  BatchLimit = 1
  UrlConfigured = TRUE
  MaxWrites = 0
  MaxFaults = 0
PROPERTY
  FailedIsRetried
