SPECIFICATION Spec
CONSTANTS
  MaxRows = 3
  Handlers = {h1, h2}
  Consumers = {c1}
  Names <- MCNames
  Ids = {"u"}
  ModuleEvents <- MCModuleEvents
  LogId = "u"
  MaxEmissions = 1
  MaxInterventions = 1
SYMMETRY Symmetry
INVARIANTS
  ChainsAreShort
  DedupHolds
CHECK_DEADLOCK FALSE
