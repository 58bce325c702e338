SPECIFICATION FairSpec
CONSTANTS
  s = s
  a = a
  b = b
  m = m
  x = x
  start = start
  alice = alice
  bob = bob
  Address = {s, a, b, m, x}
  Root = s
  Objectives = {"backward"}
  Ledgers <- SmallLedgers
  InitialLabels <- PoolAndExchange
  Volatile <- LateClaims
  Busy = {}
  Custodial = {b}
  SupernodeThreshold = 3
  SupernodeFollow = 1
  MaxFollow = 2
  Depths = {2, 4}
  Operator = {alice, bob}
  Starter = start
  BudgetChoices <- AllBudgets
  MaxCrashes = 1
INVARIANTS
  LoopTypeOK
  OneRun
  TrackerMirrorsRecord
  ExtensionsCapped
  CompletedAnswers
PROPERTIES
  SpendWithinGrants
  SpendNeverForgotten
  ClosedAccount
  GraphIsTraced
  EveryRunStops
CHECK_DEADLOCK FALSE
