\* Three participants on two slots; LEFT participants dropped every third phase.
SPECIFICATION MCSpec
CONSTANTS
    Tids = {b1, b2, b3}
    parallelThreads = 2
    CleanupPeriod = 3
    Uninit = {0, 2}
    t1 = t1
    t2 = t2
    t3 = t3
    NoThread = NoThread
INVARIANTS
    BarrierSafe
PROPERTIES
    PhasesExact
    WaiterRuns
    QueuedRuns
    SleepersWake
