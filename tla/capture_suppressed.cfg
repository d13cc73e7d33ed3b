SPECIFICATION Spec
CONSTANTS
  MaxRows = 1
  Handlers = {h1}
  Consumers = {c1}
  Names <- MCNames
  Ids = {"u"}
  ModuleEvents <- MCModuleEvents
  LogId = "u"
  MaxEmissions = 2
  MaxInterventions = 0
PROPERTY
  OnlySideEffectsAreSkipped
CHECK_DEADLOCK FALSE
