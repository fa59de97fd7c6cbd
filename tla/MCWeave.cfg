SPECIFICATION FairSpec
CONSTANTS
    B = 6
    W = 1
    CoreDomain <- AllInZero
    CacheDomain = 1
    L1Lat = 1
    AccLat = 1
    NetLat = 1
    MemLat = 3
    NumMSHRs = 1
    Ways = 2
    TagLat = 1
    Cores = {1}
    Domains = {0, 1}
    Setups <- Mixed
    PhaseLength = 4
    Instrs = {2}
    MaxPhases = 2
    MaxOps = 3
INVARIANTS
    AssertsHold
    QueuesExact
    GraphExact
    MSHRsExact
PROPERTIES
    PhaseEnds
