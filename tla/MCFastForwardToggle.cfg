SPECIFICATION FairSpec
CONSTANTS
    p0 = p0
    p1 = p1
    Procs = {p0, p1}
    NoProc = NoProc
    Proc0 = p0
    Configs <- BothToggled
PROPERTY
    SyncEventsRun
CHECK_DEADLOCK FALSE
