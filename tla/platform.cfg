SPECIFICATION PlatformSpec
CONSTANTS
  HttpRequests = {q1}
  Members = {m1}
  Roles = {r1}
  Temporaries = {t1}
  Specials = {x1}
  Guards = {g1}
  Edits = {e1}
  MaxRows = 2
  Recipients = {u1, u2}
  Dispatches = {d1}
  MaxAttempts = 2
  MaxDeliveries = 2
  MaxNoticeSlips = 3
  Shown = {"staff"}
  Readers = {g1, g2}
  Sweepers = {s1}
  MaxVersion = 2
  Persons = {u1}
  StaffCalls = {c1, c2, c3}
  Incidents = {i1}
  Services = {v1}
  WatchCalls = {c1, c2}
  MaxClicks = 1
  MoreClicks = 2
  Boards = {b1, b2, b3}
  Owners = {u1, u2}
  SomeBoard = b3
  SomeOwner = u2
  OwnerOf <- MCOwnerOf
  RecordCalls = {c1, c2}
  Updates = {p1}
  MaxSlips = 2
  MaxRestarts = 1
INVARIANTS
  PlatformTypeOK
  EndpointsAnswer
  GuardIsRight
  NoticesAddUp
  SweptViewsAreFresh
  StaffFlagsAgree
  NewsMatchesStatus
  ClicksHold
  ChosenIsDefault
  DecidedOnce
  
PROPERTY
  NoticePromise
CHECK_DEADLOCK FALSE
