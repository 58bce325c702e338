SPECIFICATION CaseSpec
CONSTANTS
  s = s
  a = a
  b = b
  c = c
  d = d
  m = m
  x = x
  Address = {s, a, b, m, x}
  Root = s
  Objectives = {"backward"}
  Ledgers <- PaidByExchange
  InitialLabels <- SanctionedExchange
  Volatile <- NoClaims
  Busy = {}
  Custodial = {b}
  SupernodeThreshold = 3
  SupernodeFollow = 1
  MaxFollow = 2
  Depths = {3}
CHECK_DEADLOCK FALSE
INVARIANTS
  SanctionRecorded
