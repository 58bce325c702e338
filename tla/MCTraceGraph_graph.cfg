SPECIFICATION CaseSpec
CONSTANTS
  s = s
  a = a
  b = b
  c = c
  d = d
  m = m
  x = x
  Address = {s, a, b, c, d, m, x}
  Root = s
  Objectives = {"backward", "forward"}
  Ledgers <- AllLedgers
  InitialLabels <- PoolAndExchange
  Volatile <- LateClaims
  Busy = {b}
  Custodial = {b}
  SupernodeThreshold = 2
  SupernodeFollow = 1
  MaxFollow = 2
  Depths = {2, 3}
CHECK_DEADLOCK FALSE
INVARIANTS
  TypeOK
  Provenance
  CleanFirst
  FiledOnce
  BranchesEndAtVasp
  CoverageTrue
  NearestFirst
  EvidenceHolds
PROPERTIES
  SettledNodesStand
  AnswersOnlyImprove
