SPECIFICATION Spec
CONSTANTS
    B = 6
    W = 1
    CoreDomain <- AllInZero
    CacheDomain = 0
    L1Lat = 1
    AccLat = 1
    NetLat = 1
    MemLat = 2
    NumMSHRs = 1
    Ways = 2
    TagLat = 1
    Cores = {1}
    Domains = {0, 1}
    Setups <- BothCross
    PhaseLength = 4
    Instrs = {2}
    MaxPhases = 2
    MaxOps = 3
INVARIANT
    WalksComplete
