SPECIFICATION MCSpec
CONSTANTS
    d0 = d0
    i0 = i0
    d1 = d1
    p0 = p0
    p1 = p1
    b0 = b0
    b1 = b1
    llc = llc
    NoAddr = NoAddr
    L2s = {p0, p1}
    L1s = {d0, i0, d1}
    parent <- Parent
    IFetch = {i0}
    Banks = {b0, b1}
    Ways <- OneWay
    Addrs = {a1, a2}
    FtmTypes = {"GETS", "GETX"}
    BankWays = {1, 2}
SYMMETRY Symmetry
INVARIANTS
    HierarchySound
    DirtyExact
    AccountingSound
PROPERTIES
    AbstractSpec
