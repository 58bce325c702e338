SPECIFICATION MCSpec
CONSTANTS
  one = one two = two
  tx = tx history = history balance = balance
  Provider = {1, 2}
  Request = {tx, history, balance}
  Serves <- FloorLacksBalance
  Policy <- DefaultPolicies
  Caller = {one, two}
  Healthy <- OnlyFloor
  MaxAttempts = 2
  Threshold = 3
  desk = desk tip = tip acme = acme zeta = zeta Nil = Nil
  Source = {desk, tip}
  Trusted = {"published"}
  Offers <- MCOffers
  Ingest = {"first", "second"}
  MaxClaims = 3
  MaxRollbacks = 1
INVARIANTS
  PoolTypeOK
  FailingProviderOut
  FailoverReachesTheHealthy
  EventsTellStatus
  StalenessIsSignalled
PROPERTIES
  TripsAreEarned
  OneProbePerTimeout
  NoWedge
  EveryFetchEnds
  Settles
