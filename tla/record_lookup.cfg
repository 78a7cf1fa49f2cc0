SPECIFICATION Spec
CONSTANTS
    IPs <- MCIPs
    Dash <- MCDash
    Worlds <- MCWorlds
    Names <- MCNames
    Revisions <- MCRevisions
INVARIANTS
    AncestorsExist
    WildcardIsUnion
    TransferIsServed
    ReverseLeadsBack
    ExternalIsInternal
    NameErrorForAllTypes
    ClusterIPResolves
    NameServersResolve
    EquivalentMeansSameZone
    ClientHasPodName
