SPECIFICATION HandOversSpec
CONSTANTS
  k1 = k1
  k2 = k2
  g1 = g1
  g2 = g2
  acct = acct
  w1 = w1
  j1 = j1
  Keys = {k1, k2}
  Gateways = {g1, g2}
  Accounts = {acct}
  AccountOf <- MCAccountOf
  Idempotent = {k2}
  MaxPending = 2
  MaxAttempts = 2
  NoItem = NoItem
  NoClaim = NoClaim
INVARIANTS
  
  OutboxInOrder
PROPERTIES
  SettledStays
  EventuallySettled
  NoCatchUpStorm
  PauseHolds
  ClaimSettles
CHECK_DEADLOCK FALSE
