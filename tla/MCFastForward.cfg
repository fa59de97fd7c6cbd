SPECIFICATION FairSpec
CONSTANTS
    p0 = p0
    p1 = p1
    Procs = {p0, p1}
    NoProc = NoProc
    Proc0 = p0
    Configs <- All
INVARIANTS
    FastForwardSound
PROPERTIES
    FastForwardCompletes
CHECK_DEADLOCK FALSE
