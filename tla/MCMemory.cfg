CONSTANTS
    NumLines = 4
    Assoc = 2
    Cands = 10
    Parts = 2
    Addrs = {1, 2, 3, 4, 5}
    UMonWays = 2
    Buckets = 4
    WordBits = 12
    ScoreBits = 12
    Interval = 2
    BtsShare = 2
    MaxSharers = 1
    Setups <- McBanks
SPECIFICATION MCSpec
INVARIANTS
    LinesFound
    SizesExact
    AssertsHold
    TimingObeyed
    BuffersExact
    ProtocolObeyed
    AlarmSet
    Fair
PROPERTY
    VictimsSpared
CHECK_DEADLOCK FALSE
