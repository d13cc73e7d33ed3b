SPECIFICATION Spec
CONSTANTS
  Steps = {s1, s2}
  Named = {s1}
  Calls = {c1, c2, c3}
SYMMETRY Symmetry
INVARIANTS
  ApprovedByAll
  PendingHasWork
PROPERTY
  ResolvedChangesOnlyInRaces
CHECK_DEADLOCK FALSE
