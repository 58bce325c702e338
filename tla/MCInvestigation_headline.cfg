SPECIFICATION Spec
CONSTANTS
  s = s
  a = a
  b = b
  m = m
  x = x
  start = start
  alice = alice
  bob = bob
  Address = {s, a, b, m, x}
  Root = s
  Objectives = {"backward"}
  Ledgers <- TwoRoutes
  InitialLabels <- PoolAndExchange
  Volatile <- NoClaims
  Busy = {}
  Custodial = {}
  SupernodeThreshold = 3
  SupernodeFollow = 1
  MaxFollow = 2
  Depths = {2, 4}
  Operator = {alice}
  Starter = start
  BudgetChoices <- OnlyAmple
  MaxCrashes = 0
INVARIANTS
  HeadlineTrue
CHECK_DEADLOCK FALSE
