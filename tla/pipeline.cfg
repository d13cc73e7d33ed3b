SPECIFICATION Spec
CONSTANTS
  Batches = {b1, b2}
  MaxEvents = 2
  MaxRetries = 3
  BatchLimit = 2
  UrlConfigured = TRUE
  MaxWrites = 2
  MaxFaults = 1
SYMMETRY Symmetry
INVARIANTS
  FlagIsLock
  EffectBeforeProcessed
  RepeatsHaveACause
  NoRowLeftPending
PROPERTY
  OutboxSpec
