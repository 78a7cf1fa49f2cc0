SPECIFICATION FairSpec
CONSTANTS
    Corefiles <- MCCorefiles
    Stanzas <- MCStanzas
    ReverseZones = {"in-addr.arpa.", "ip6.arpa."}
    Number <- MCNumber
    PodOf <- MCPodOf
    Selectors = {"a=b"}
    Targets = {"*", "10.0.0.1"}
    Experiments = {"e1"}
    MaxLoads = 4
INVARIANTS
    RefusedLeavesNothing
    CachesAccountedFor
    OptionOrder
PROPERTIES
    HotUpdatesArrive
    LoadEnds
CHECK_DEADLOCK FALSE
