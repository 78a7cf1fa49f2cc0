SPECIFICATION FairSpec
CONSTANTS
    n1 = n1
    s1 = s1
    e1 = e1
    p1 = p1
    d1 = d1
    d2 = d2
    Absent = Absent
    Objects = {n1, s1, e1}
    Kinds = {"ns", "svc", "ep"}
    KindOf <- MCKindOf
    NsOf <- MCNsOf
    SvcOf <- MCSvcOf
    Data = {d1}
    Significant <- MCSignificant
    FallThrough = {s1}
    SkipCleanup = FALSE
    Dnss = {"dns1"}
    MaxChanges = 1
    MaxDrops = 1
    MaxStops = 0
    MaxTime = 0
INVARIANTS
    TruthfulNameError
PROPERTIES
    Converges
