SPECIFICATION TasksSpec
CONSTANTS
  Pairs = {p1, p2}
  Requests = {c1}
  Sweeps = {r1, r2}
  MaxFaults = 1
  Entries = {e1, e2}
  Resolvers = {c1}
  Checks = {r1, r2}
  MaxMishaps = 1
INVARIANTS
  CancellationHolds
  SweptIsOver
  ExpiryIsAnnounced
  ResolutionHolds
  CheckedIsBreached
  BreachIsAnnounced
PROPERTIES
  EndedIsSwept
  LateIsBreached
CHECK_DEADLOCK FALSE
