CONSTANTS
    t1 = t1 t2 = t2 t3 = t3 t4 = t4 t5 = t5
    u1 = u1 u2 = u2 u3 = u3
    b1 = b1 b2 = b2 b3 = b3 b4 = b4
    ann = ann bob = bob cat = cat usd = usd eth = eth pool = pool
    Transfers <- MCTransfers
    Mixer = pool
    Subject = bob
    Window = 2
    MaxFollow = 1
    ReadLimit = 3
    Focus = cat
    Movements <- MCMovements
    Verified = {eth}
    Sentinels = {}
    QueryLimit = 4
    PeelWindow = 2
    HopWindow = 2
    SweepDelay = 4
    FanMin = 2
    EqualMin = 2
    HopMin = 1
    ServiceMin = 2
    ServiceTotal = 4
    Spends <- MCSpends
    MixerInputs = {pool}
    MinInputs = 3
    MinEqual = 2
    Seeds <- MCSeeds
    Ledger <- MCLedger
    Person = {ann, bob, cat}
    Chain <- MCChain
    Serves <- MCServes
    PagesByNumber = {"ethereum"}
    Module <- MCModule
    Listing <- MCListing
    Events <- MCEvents
    SitePages = 2
    PageSize = 2
    MaxPage = 2
    Scale = 6
    CacheSize = 2
    MaxFaults = 1
    Vendors <- FloorVendors
    Limit = 4
    PageHint = 2
    Unconfirmed = {b1}
    Void = {b2}
    Origin = {"okx", "ofac"}
    Fetched = {"ofac"}
    Media <- MCMedia
    HandoffHosts <- MCHandoff
    Ledgers <- MCLedgers
    TokenTickers = {"USDT"}
    Encoded <- MCEncoded
    Canonical <- MCCanonical
    Undecided = "undecided"
    Undated <- NoDate
    Cycle = {1, 2}
    Sites <- MCSites
    AllDrops <- MCDrops
    StaleAfter <- MCStaleAfter
    Override <- NoDate
    StalledAfter = 1
    MaxClock = 1
    MaxDrops = 1
    MaxStops = 1
SPECIFICATION MCSpec
INVARIANT UnmarkedMeansRead
