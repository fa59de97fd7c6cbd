SPECIFICATION HostSpec
CONSTANTS
    p1 = p1
    p2 = p2
    p3 = p3
    d1 = d1
    d2 = d2
    Procs = {p1, p2}
    FreqMHz = 1500
    PhaseLength = 3
    TimeSetups <- McBackToBack
    Binders = {p1, p2, p3}
    Domains = {d1, d2}
    domain <- McDomain
    VirtPorts = {v1, q}
    RealPorts = {r1, q}
    AnyPort = any
    MaxSockets = 3
    MapProcs = {p1, p2}
    Libs = {libc, libm}
    NumPages = 4
    SlotPages = 8
    MaxMapCalls <- McMapCalls
    Threads = {t1, t2, t3}
    Width = 64
    MaxWakes = 2
    Vals = {1, 31}
    MaxLeaked = 1
INVARIANTS
    PatchAsserts
CHECK_DEADLOCK FALSE
