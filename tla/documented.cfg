SPECIFICATION DocumentedSpec
CONSTANTS
  HttpRequests = {r}
  Updates = {p1}
  MaxSlips = 1
  MaxRestarts = 0
  Recipients = {u1}
  Dispatches = {d1}
  MaxAttempts = 3
  MaxDeliveries = 1
  MaxNoticeSlips = 3
  Staff = {s1}
  Jtis = {j1, j2}
  AuthCalls = {c1, c2}
INVARIANT
  SomeStatementHolds
CHECK_DEADLOCK FALSE
