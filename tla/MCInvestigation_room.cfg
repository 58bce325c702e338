SPECIFICATION Spec
CONSTANTS
  s = s
  a = a
  b = b
  m = m
  x = x
  start = start
  alice = alice
  bob = bob
  Address = {s, a, b, m, x}
  Root = s
  Objectives = {"backward"}
  Ledgers <- Chain
  InitialLabels <- PoolAndExchange
  Volatile <- NoClaims
  Busy = {}
  Custodial = {b}
  SupernodeThreshold = 3
  SupernodeFollow = 1
  MaxFollow = 2
  Depths = {2, 4}
  Operator = {alice, bob}
  Starter = start
  BudgetChoices <- TwoBudgets
  MaxCrashes = 0
INVARIANTS
  RoomOnResume
CHECK_DEADLOCK FALSE
