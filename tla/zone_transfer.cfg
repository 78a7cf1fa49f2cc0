SPECIFICATION FairZoneSpec
CONSTANTS
    n1 = n1
    s1 = s1
    e1 = e1
    d1 = d1
    d2 = d2
    star = star
    sec1 = sec1
    Absent = Absent
    Objects = {n1, s1, e1}
    Kinds = {"ns", "svc", "ep"}
    KindOf <- MCKindOf
    NsOf <- MCNsOf
    SvcOf <- MCSvcOf
    Data = {d1, d2}
    Significant <- MCSignificant
    FallThrough = {}
    SkipCleanup = FALSE
    Dnss = {}
    MaxChanges = 1
    MaxDrops = 0
    MaxStops = 0
    MaxTime = 1
    Clients = {sec1}
    TransferTo = {sec1}
    AnyClient = star
    ServiceType <- MCServiceType
    RRLen <- MCRRLen
    transferLength = 3
    MaxTransfers = 1
INVARIANTS
    SecondaryNotices
    EnvelopesFit
PROPERTIES
    TransferEnds
CHECK_DEADLOCK FALSE
