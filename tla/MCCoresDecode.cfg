SPECIFICATION MCSpec
CONSTANTS
    BlockBytes = 16
    MaxPredecs = 6
    SmallDecoders = 4
    SmallBytes = 7
    H = 8
    WSZ = 3
    RobSize = 4
    LoadQueueSize = 2
    StoreQueueSize = 2
    UopQueueSize = 3
    RetireWidth = 2
    IssueWidth = 2
    RFReads = 2
    FwdEntries = 2
    IssueToDispatch = 2
    FetchToDecode = 3
    L1DLat = 1
    LoadExtra = 1
    HB = 3
    LB = 2
    Setups <- McSetups
    Tids = {t1, t2}
    LineSize = 64
    g1 = g1
    g2 = g2
    g3 = g3
    Threads = {g1, g2, g3}
    NoThread = NoThread
    numCores = 2
    mask <- TwoContexts
    schedQuantum = 2
    Pcs = {1}
    MaxSleep = 2
    parallelThreads = 2
    CleanupPeriod = 2
    Uninit = {0}
INVARIANT
    DecodeRules
CHECK_DEADLOCK FALSE
