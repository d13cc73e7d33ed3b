SPECIFICATION FocusSpec
CONSTANTS
  Tickets = {t1}
  Cases = {k1}
  Investigations = {v1}
  Evidence = {e1, e2, e3}
  Calls = {c1, c2}
  MaxLosses = 1
  Users = {u1}
  Actors = {a1, a2}
  MaxDrops = 1
INVARIANTS
  EndHolds
  ClosingIsPublished
  EvidenceIsKept
  StatusIsHeard
PROPERTIES
  EvidenceIsSealed
CHECK_DEADLOCK FALSE
