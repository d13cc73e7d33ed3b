SPECIFICATION Spec
CONSTANTS
  Steps = {s1, s2}
  Named = {s1}
  Calls = {c1, c2}
SYMMETRY Symmetry
INVARIANT
  ApprovedIsPublished
CHECK_DEADLOCK FALSE
