SPECIFICATION AskingSpec
CONSTANTS
    p1 = p1
    p2 = p2
    ns1 = ns1
    c1 = c1
    c2 = c2
    web = web
    db = db
    pat = pat
    bad = bad
    ip1 = ip1
    ip2 = ip2
    NoIP = NoIP
    Absent = Absent
    Nil = Nil
    Pods = {p1}
    Namespaces = {ns1}
    NsOf <- MCNsOfOne
    Patterns = {pat, bad}
    BadPatterns = {bad}
    Matches <- MCMatches
    ChaosNames = {c1, c2}
    IPs = {ip1, ip2}
    QNames = {web}
    rpc1 = rpc1
    rpc2 = rpc2
    dns1 = dns1
    dns2 = dns2
    Rpcs = {rpc1}
    Dnss = {dns1}
    Requests <- MCOneRequest
    Corefile <- MCEmptyCorefile
    OverdueAfter = 0
    MaxSets = 1
    MaxMoves = 1
    MaxTime = 1
PROPERTIES
    OverdueIsUpdated
