SPECIFICATION Spec
CONSTANTS
  Accounts = {a, b}
  Calls = {c1, c2}
  Types <- MCTypes
  Amounts <- MCAmounts
  MaxCalls = 4
SYMMETRY Symmetry
INVARIANTS
  OverdraftIsExplained
  EveryBalanceIsBooked
  LedgerExplainsBalance
  FreezeHolds
CHECK_DEADLOCK FALSE
