SPECIFICATION Spec
CONSTANTS
    n1 = n1
    s1 = s1
    e1 = e1
    p1 = p1
    d1 = d1
    d2 = d2
    Absent = Absent
    Objects = {s1, e1}
    Kinds = {"ns", "svc", "ep"}
    KindOf <- MCKindOf
    NsOf <- MCNsOf
    SvcOf <- MCSvcOf
    Data = {d1, d2}
    Significant <- MCSignificant
    FallThrough = {}
    SkipCleanup = FALSE
    Dnss = {}
    MaxChanges = 1
    MaxDrops = 1
    MaxStops = 1
    MaxTime = 1
INVARIANTS
    TypeOK
    CacheFollows
    ModifiedIsLatest
CHECK_DEADLOCK FALSE
