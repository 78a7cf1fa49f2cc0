---------------------------- MODULE RecordLookup ----------------------------
(***************************************************************************)
(* How a name becomes records: parseRequest (parse.go), Records,           *)
(* findServices and findPods (kubernetes.go), the reverse lookup           *)
(* (reverse.go), the names of the external plugin (external.go), the name  *)
(* servers (ns.go), the zone transfer (xfr.go), and the choice by query    *)
(* type (Services, getRecords, ServeDNS), as functions of what the cache   *)
(* holds and of the plugin's options.  A name is the sequence of its       *)
(* labels without the zone, a name in a reverse zone apart (Reverse); a    *)
(* wildcard label is "*" ("any" is the same and left out).  Of the labels  *)
(* with an underscore _http and _tcp are known.                            *)
(*                                                                         *)
(* The cache is w, a record of                                             *)
(*   nss   the namespaces (those that match namespace_labels),             *)
(*   svcs  the services  [name, ns, type, host, ext, ports], where type is *)
(*         "cluster", "headless" or "external", host the ClusterIP or the  *)
(*         ExternalName, and ext the external addresses and host names,    *)
(*   eps   the endpoints [name, ns, subsets], a subset being [addrs, ports]*)
(*         and an address [ip, hostname, target],                          *)
(*   pods  the pods      [ns, ip],                                         *)
(*   local the addresses that CoreDNS is bound to,                         *)
(*   conf  the options   [namespaces, podMode, ignoreEmpty, podNames,      *)
(*         endpoints]; endpoints is FALSE with noendpoints.  Whatever      *)
(*         reads endpoints panics then, where there is anything to read    *)
(*         them for: lookups, PTR and NS queries, ns.dns and the external  *)
(*         plugin's name servers.                                          *)
(* A port is [name, proto, num].  Worlds are what the API server has; w is *)
(* what the conversions of package object keep of it.                      *)
(***************************************************************************)
EXTENDS Integers, Sequences

CONSTANTS
    IPs,       \* IP addresses
    Dash,      \* the label that stands for an address, its dots replaced by dashes
    Worlds,    \* the clusters and options to look names up in
    Names,     \* the names to look up
    Revisions  \* endpoints that endpoints may be updated to

\* The empty string: a part of a request or of an object that is not given.
Unset == ""

\* Names of objects are DNS labels: not empty, and no wildcards.  Port names and protocols
\* may be empty but have no underscores.
Label == STRING \ {Unset, "*"}
Ports == [name : STRING \ {"*", "_http", "_tcp"}, proto : STRING \ {"*", "_http", "_tcp"},
          num : {n \in Nat : n < 65536}]

\* What the API server takes as a service, as endpoints, and as all the objects of a
\* cluster; a service is known by its name and namespace.
ApiServices ==
    {s \in [name : Label, ns : Label, type : {"cluster", "headless", "external"}, host : STRING,
            externalIPs : SUBSET IPs, ingress : SUBSET [ip : IPs \cup {Unset}, hostname : STRING],
            ports : SUBSET Ports] :
        s.type = "cluster" => s.host \in IPs}
ApiEndpoints ==
    [name : Label, ns : Label,
     subsets : SUBSET [addrs : SUBSET [ip : IPs, hostname : STRING, target : STRING],
                       ports : SUBSET Ports]]
Clusters ==
    {c \in [nss : SUBSET STRING, svcs : SUBSET ApiServices, eps : SUBSET ApiEndpoints,
            pods : SUBSET [ns : STRING, ip : IPs], local : SUBSET IPs,
            conf : [namespaces : SUBSET STRING, podMode : {"disabled", "insecure", "verified"},
                    ignoreEmpty : BOOLEAN, podNames : BOOLEAN, endpoints : BOOLEAN]] :
        \A s, t \in c.svcs : s.name = t.name /\ s.ns = t.ns => s = t}

ASSUME AddressAssumption ==
    /\ IPs \subseteq STRING \ {Unset, "None"}
    /\ Dash \in [IPs -> Label]

ASSUME ClusterAssumption ==
    /\ \A c \in Worlds : c \in Clusters
    /\ \A n \in Names : n \in Seq(STRING)

VARIABLES
    w,         \* the cache and the options
    name,      \* the name that is looked up
    answer     \* its answer

-----------------------------------------------------------------------------
(* Conversion                                                              *)

\* Stands for the ports of a service or of a subset that has none.
Sentinel == [name |-> Unset, proto |-> Unset, num |-> -1]

\* Variant: no sentinel.
toPortsBare(ports) == ports

toPorts(ports) == IF ports = {} THEN {Sentinel} ELSE ports

\* The external addresses are those of the specification and those of the load balancers,
\* a host name where a load balancer has no address.
toService(s) ==
    [name |-> s.name, ns |-> s.ns, type |-> s.type, host |-> s.host,
     ext |-> s.externalIPs \cup {IF lb.ip # Unset THEN lb.ip ELSE lb.hostname : lb \in s.ingress},
     ports |-> toPorts(s.ports)]

toEndpoints(e) ==
    [e EXCEPT !.subsets = {[addrs |-> sub.addrs, ports |-> toPorts(sub.ports)] : sub \in @}]

ClusterIP(s) == CASE s.type = "cluster" -> s.host [] s.type = "headless" -> "None" [] OTHER -> Unset

\* The informers' caches; the endpoints may not be watched.
Cache(world) ==
    [world EXCEPT !.svcs = {toService(s) : s \in @},
                  !.eps = IF world.conf.endpoints THEN {toEndpoints(e) : e \in @} ELSE {}]

-----------------------------------------------------------------------------
(* Parsing                                                                 *)

wildcard(a) == a = "*"
match(a, b) == wildcard(a) \/ wildcard(b) \/ a = b

stripUnderscore(a) == CASE a = "_http" -> "http" [] a = "_tcp" -> "tcp" [] OTHER -> a

NoRequest == [err |-> "none", podOrSvc |-> Unset, ns |-> Unset, service |-> Unset, endpoint |-> Unset,
              port |-> "*", proto |-> "*"]

\* Variant: port and protocol are taken in the wrong order.
parseRequestSwapped(segs) ==
    LET n == Len(segs)
    IN  IF n = 0 \/ segs \in {<<"svc">>, <<"pod">>} THEN NoRequest
        ELSE IF n > 5 \/ segs[n] \notin {"svc", "pod"} THEN [NoRequest EXCEPT !.err = "invalid"]
        ELSE [err |-> "none", podOrSvc |-> segs[n],
              ns |-> IF n > 1 THEN segs[n - 1] ELSE Unset,
              service |-> IF n > 2 THEN segs[n - 2] ELSE Unset,
              endpoint |-> IF n = 4 THEN segs[1] ELSE Unset,
              proto |-> IF n = 5 THEN stripUnderscore(segs[1]) ELSE "*",
              port |-> IF n = 5 THEN stripUnderscore(segs[2]) ELSE "*"]

\* From the right: pod or svc, namespace, service, then one endpoint or port and protocol.
parseRequest(segs) ==
    LET n == Len(segs)
    IN  IF n = 0 \/ segs \in {<<"svc">>, <<"pod">>} THEN NoRequest
        ELSE IF n > 5 \/ segs[n] \notin {"svc", "pod"} THEN [NoRequest EXCEPT !.err = "invalid"]
        ELSE [err |-> "none", podOrSvc |-> segs[n],
              ns |-> IF n > 1 THEN segs[n - 1] ELSE Unset,
              service |-> IF n > 2 THEN segs[n - 2] ELSE Unset,
              endpoint |-> IF n = 4 THEN segs[1] ELSE Unset,
              port |-> IF n = 5 THEN stripUnderscore(segs[1]) ELSE "*",
              proto |-> IF n = 5 THEN stripUnderscore(segs[2]) ELSE "*"]

-----------------------------------------------------------------------------
(* Forward lookups                                                         *)

configuredNamespace(c, ns) == c.conf.namespaces # {} => ns \in c.conf.namespaces
namespaceExposed(c, ns) == configuredNamespace(c, ns) /\ ns \in c.nss

\* Variant: an address without a host name has no label.
endpointHostnameBare(c, addr) ==
    CASE addr.hostname # Unset -> addr.hostname
      [] addr.hostname = Unset /\ c.conf.podNames /\ addr.target # Unset -> addr.target
      [] OTHER -> Unset

endpointHostname(c, addr) ==
    CASE addr.hostname # Unset -> addr.hostname
      [] addr.hostname = Unset /\ c.conf.podNames /\ addr.target # Unset -> addr.target
      [] OTHER -> Dash[addr.ip]

\* An answer: the error, and the records with the name their key stands for.
NoItems == [err |-> "noitems", recs |-> {}]
NoData == [err |-> "none", recs |-> {}]

\* A method of an informer that was not made is called.
Panic == [err |-> "panic", recs |-> {}]

\* The records of a service's endpoints, and of the service as a whole.
EndpointRecords(c, r, s) ==
    UNION {UNION {
        {[host |-> addr.ip, port |-> p.num, key |-> <<endpointHostname(c, addr), s.name, s.ns>>] :
            addr \in {a \in sub.addrs : r.endpoint # Unset => match(r.endpoint, endpointHostname(c, a))},
            p \in {q \in sub.ports : match(r.port, q.name) /\ match(r.proto, q.proto)}}
        : sub \in ep.subsets} : ep \in {e \in c.eps : e.name = s.name /\ e.ns = s.ns}}

ServiceRecords(c, r, s) ==
    CASE s.type = "headless" \/ r.endpoint # Unset -> EndpointRecords(c, r, s)
      [] s.type = "external" /\ r.endpoint = Unset ->
            {[host |-> h, port |-> 0, key |-> <<s.name, s.ns>>] : h \in {s.host} \ IPs}
      [] OTHER -> {[host |-> s.host, port |-> p.num, key |-> <<s.name, s.ns>>] :
                      p \in {q \in s.ports : match(r.port, q.name) /\ match(r.proto, q.proto)}}

\* ignore empty_service counts the addresses of the endpoints that the request lists: with
\* a wildcard these are the endpoints of all services.
HiddenAsEmpty(c, r, s) ==
    /\ c.conf.ignoreEmpty /\ s.type = "cluster"
    /\ \A ep \in c.eps :
          wildcard(r.service) \/ wildcard(r.ns) \/ (ep.name = r.service /\ ep.ns = r.ns)
          => \A sub \in ep.subsets : sub.addrs = {}

\* Variant: a wildcard namespace is not held against the exposed ones.
findServicesUnfiltered(c, r) ==
    LET found == {s \in c.svcs : match(r.ns, s.ns) /\ match(r.service, s.name)}
        recs == UNION {ServiceRecords(c, r, s) : s \in {t \in found : ~HiddenAsEmpty(c, r, t)}}
    IN  IF r.service = Unset THEN NoData
        ELSE IF recs = {} /\ (wildcard(r.service) => wildcard(r.ns)) THEN NoItems
        ELSE [err |-> "none", recs |-> recs]

\* Variant: a namespace has no name of its own.
findServicesNoParent(c, r) ==
    LET found == {s \in c.svcs : /\ match(r.ns, s.ns) /\ match(r.service, s.name)
                                 /\ wildcard(r.ns) => namespaceExposed(c, s.ns)}
        recs == UNION {ServiceRecords(c, r, s) : s \in {t \in found : ~HiddenAsEmpty(c, r, t)}}
    IN  IF recs = {} /\ (wildcard(r.service) => wildcard(r.ns)) THEN NoItems
        ELSE [err |-> "none", recs |-> recs]

\* The services whose answer needs endpoints.
ReadsEndpoints(c, r, s) ==
    s.type = "headless" \/ r.endpoint # Unset \/ (c.conf.ignoreEmpty /\ s.type = "cluster")

\* The namespace of r is a wildcard or exposed.
findServices(c, r) ==
    LET found == {s \in c.svcs : /\ match(r.ns, s.ns) /\ match(r.service, s.name)
                                 /\ wildcard(r.ns) => namespaceExposed(c, s.ns)}
        recs == UNION {ServiceRecords(c, r, s) : s \in {t \in found : ~HiddenAsEmpty(c, r, t)}}
    IN  IF r.service = Unset THEN NoData
        ELSE IF ~c.conf.endpoints /\ \E s \in found : ReadsEndpoints(c, r, s) THEN Panic
        ELSE IF recs = {} /\ (wildcard(r.service) => wildcard(r.ns)) THEN NoItems
        ELSE [err |-> "none", recs |-> recs]

\* Variant: of the pods that share an address one is looked at.
findPodsFirst(c, r) ==
    LET asked == {ip \in IPs : Dash[ip] = r.service}
        First(ip) == CHOOSE p \in c.pods : p.ip = ip
        known == {ip \in {p.ip : p \in c.pods} :
                    /\ match(r.ns, First(ip).ns)
                    /\ wildcard(r.ns) => namespaceExposed(c, First(ip).ns)}
        ips == IF c.conf.podMode = "insecure" THEN asked ELSE asked \cap known
        recs == {[host |-> ip, port |-> 0, key |-> <<r.service, r.ns>>] : ip \in ips}
    IN  IF c.conf.podMode = "disabled" THEN NoItems
        ELSE IF r.service = Unset THEN NoData
        ELSE IF c.conf.podMode = "verified" /\ wildcard(r.service) /\ ~wildcard(r.ns) THEN NoData
        ELSE IF recs = {} THEN NoItems
        ELSE [err |-> "none", recs |-> recs]

\* A pod's label is its dashed address.  The mode "insecure" answers any address, the mode
\* "verified" those of the pods in the cache.
findPods(c, r) ==
    LET asked == {ip \in IPs : Dash[ip] = r.service}
        known == {p.ip : p \in {q \in c.pods : /\ match(r.ns, q.ns)
                                               /\ wildcard(r.ns) => namespaceExposed(c, q.ns)}}
        ips == IF c.conf.podMode = "insecure" THEN asked ELSE asked \cap known
        recs == {[host |-> ip, port |-> 0, key |-> <<r.service, r.ns>>] : ip \in ips}
    IN  IF c.conf.podMode = "disabled" THEN NoItems
        ELSE IF r.service = Unset THEN NoData
        ELSE IF c.conf.podMode = "verified" /\ wildcard(r.service) /\ ~wildcard(r.ns) THEN NoData
        ELSE IF recs = {} THEN NoItems
        ELSE [err |-> "none", recs |-> recs]

Records(c, segs) ==
    LET r == parseRequest(segs)
    IN  IF r.err # "none" THEN [err |-> "invalid", recs |-> {}]
        ELSE IF r.podOrSvc = Unset THEN NoData
        ELSE IF ~wildcard(r.ns) /\ ~namespaceExposed(c, r.ns) THEN [err |-> "nsnotexposed", recs |-> {}]
        ELSE IF r.podOrSvc = "pod" THEN findPods(c, r) ELSE findServices(c, r)

IsNameError(a) == a.err \in {"noitems", "nsnotexposed", "invalid"}
Hosts(a) == {x.host : x \in a.recs}

-----------------------------------------------------------------------------
(* Reverse lookups, external names and transfers                           *)

\* The namespaces are looked at only where the Corefile lists some.
ReverseExposes(c, ns) == c.conf.namespaces # {} => namespaceExposed(c, ns)

ServicesOfIP(c, ip) ==
    {s \in c.svcs : /\ ip \in {ClusterIP(s)} \cup s.ext
                    /\ ReverseExposes(c, s.ns)}

\* The endpoints with the address, by their names.
EndpointsOfIP(c, ip) ==
    UNION {UNION {
        {<<endpointHostname(c, addr), ep.name, ep.ns, "svc">> :
            addr \in {a \in sub.addrs : a.ip = ip}}
        : sub \in ep.subsets} : ep \in {e \in c.eps : ReverseExposes(c, e.ns)}}

\* One of the services with the address, else all its endpoints; a record is a name.
serviceRecordForIP(c, ip) ==
    IF ServicesOfIP(c, ip) # {}
    THEN [err |-> "none", recs |-> {<<s.name, s.ns, "svc">> : s \in ServicesOfIP(c, ip)}]
    ELSE IF ~c.conf.endpoints THEN Panic
    ELSE [err |-> "none", recs |-> EndpointsOfIP(c, ip)]

Reverse(c, ip) ==
    LET a == serviceRecordForIP(c, ip)
    IN  IF a = NoData THEN NoItems ELSE a

ExternalRecords(c, segs) ==
    LET n == Len(segs)
        port == IF n = 4 THEN stripUnderscore(segs[1]) ELSE "*"
        proto == IF n = 4 THEN stripUnderscore(segs[2]) ELSE "*"
    IN  UNION {{[host |-> ip, port |-> p.num, key |-> <<s.name, s.ns>>] :
                   ip \in s.ext,
                   p \in {q \in s.ports : match(port, q.name) /\ match(proto, q.proto)}}
               : s \in {t \in c.svcs : t.ns = segs[n] /\ t.name = segs[n - 1]}}

\* Variant: hidden namespaces are served.
ExternalUnfiltered(c, segs) ==
    IF Len(segs) \in {2, 4} /\ ExternalRecords(c, segs) # {}
    THEN [err |-> "none", recs |-> ExternalRecords(c, segs)] ELSE NoItems

\* External: service.namespace, or port, protocol, service and namespace.
External(c, segs) ==
    LET n == Len(segs)
    IN  IF n = 0 THEN [err |-> "servfail", recs |-> {}]
        ELSE IF ~namespaceExposed(c, segs[n]) THEN NoItems
        ELSE IF n = 1 THEN NoData
        ELSE IF n \in {2, 4} /\ ExternalRecords(c, segs) # {}
             THEN [err |-> "none", recs |-> ExternalRecords(c, segs)] ELSE NoItems

Underscored(p) == CASE p = "http" -> "_http" [] p = "tcp" -> "_tcp" [] OTHER -> p

\* The records of one service in a transfer: [name, type, data].
TransferOfCluster(s) ==
    LET base == <<s.name, s.ns, "svc">>
    IN  {[name |-> base, type |-> "A", data |-> s.host]}
        \cup {[name |-> base, type |-> "SRV", data |-> p.num % 65536] : p \in s.ports}
        \cup {[name |-> <<Underscored(p.name), Underscored(p.proto), s.name, s.ns, "svc">>,
               type |-> "SRV", data |-> p.num % 65536] : p \in {q \in s.ports : q.name # Unset}}

TransferOfHeadless(c, s) ==
    LET base == <<s.name, s.ns, "svc">>
        subs == UNION {e.subsets : e \in {x \in c.eps : x.name = s.name /\ x.ns = s.ns}}
    IN  UNION {{[name |-> base, type |-> "A", data |-> a.ip] : a \in sub.addrs}
               \cup {[name |-> <<endpointHostname(c, a), s.name, s.ns, "svc">>, type |-> "A",
                      data |-> a.ip] : a \in sub.addrs}
               \cup {[name |-> <<Underscored(p.name), Underscored(p.proto), s.name, s.ns, "svc">>,
                      type |-> "SRV", data |-> p.num] :
                        p \in {q \in sub.ports : q.name # Unset /\ sub.addrs # {}}}
               : sub \in subs}

\* With noendpoints the goroutine panics at the first headless service, and nobody there
\* recovers: the process ends.
TransferPanics(c) ==
    ~c.conf.endpoints /\ \E s \in c.svcs : s.type = "headless" /\ namespaceExposed(c, s.ns)

TransferOf(c, s) ==
    CASE s.type = "cluster" -> TransferOfCluster(s)
      [] s.type = "headless" -> TransferOfHeadless(c, s)
      [] s.type = "external" ->
            {[name |-> <<s.name, s.ns, "svc">>, type |-> "CNAME", data |-> h] : h \in {s.host} \ IPs}

\* The records of all services there are, the ones that ignore empty_service hides as well.
transfer(c) == UNION {TransferOf(c, s) : s \in {t \in c.svcs : namespaceExposed(c, t.ns)}}

-----------------------------------------------------------------------------
(* Name servers, and the choice by query type                              *)

\* The service and endpoints that an address of CoreDNS belongs to.
Own(c) ==
    {x \in c.svcs \X c.eps :
        /\ x[1].name = x[2].name /\ x[1].ns = x[2].ns
        /\ \E sub \in x[2].subsets : \E a \in sub.addrs : a.ip \in c.local}

\* The name servers are the services of the CoreDNS pod, else its own addresses.
OwnOr(c, found) ==
    IF found = {} THEN {[name |-> <<"ns", "dns">>, ip |-> l] : l \in c.local} ELSE found

\* nil, which Unset stands for, for anything but an address.
ParseIP(a) == IF a \in IPs THEN a ELSE Unset

\* Variant: the host names of the endpoints are not looked at.
NsAddrsOfDashed(c, s, e) ==
    IF s.type = "headless"
    THEN {[name |-> <<Dash[a.ip], s.name, s.ns, "svc">>, ip |-> a.ip] :
            a \in UNION {sub.addrs : sub \in e.subsets}}
    ELSE {[name |-> <<s.name, s.ns, "svc">>, ip |-> ParseIP(ClusterIP(s))]}

\* The names and addresses of a service and its endpoints.
NsAddrsOf(c, s, e) ==
    IF s.type = "headless"
    THEN {[name |-> <<endpointHostname(c, a), s.name, s.ns, "svc">>, ip |-> a.ip] :
            a \in UNION {sub.addrs : sub \in e.subsets}}
    ELSE {[name |-> <<s.name, s.ns, "svc">>, ip |-> ParseIP(ClusterIP(s))]}

nsAddrs(c) == OwnOr(c, UNION {NsAddrsOf(c, x[1], x[2]) : x \in Own(c)})

ExternalAddress(c) ==
    OwnOr(c, UNION {{[name |-> <<x[1].name, x[1].ns>>, ip |-> ParseIP(ip)] : ip \in x[1].ext} : x \in Own(c)})

isDefaultNS(segs) == segs = <<"ns", "dns">>

\* The name servers' addresses, which are looked for in the endpoints: an NS query of the
\* zone has them all, with their names, a query for ns.dns those of its type.  What is not
\* an IPv4 address, nil as well, becomes an AAAA record.
NameServers(c, segs, qtype) ==
    LET type(x) == IF x.ip \in IPs THEN "A" ELSE "AAAA"
    IN  IF c.local # {} /\ ~c.conf.endpoints THEN Panic
        ELSE [err |-> "none",
              recs |-> {[host |-> x.ip, port |-> 0, key |-> IF segs = <<>> THEN x.name ELSE segs] :
                            x \in {y \in nsAddrs(c) : qtype \in {"NS", type(y)}}}]

\* Variant: an SRV query that is left with no service is told that there is no such name.
ServicesSrvNoItems(c, segs, qtype) ==
    LET a == Records(c, segs)
        internal == {x \in a.recs : x.host \in IPs}
    IN  CASE qtype = "TXT" /\ segs # <<"dns-version">> -> NoData
          [] qtype = "TXT" /\ segs = <<"dns-version">> ->
                [err |-> "none", recs |-> {[host |-> "1.1.0", port |-> 0, key |-> segs]}]
          [] qtype = "NS" -> NameServers(c, <<>>, qtype)
          [] qtype \notin {"TXT", "NS"} /\ isDefaultNS(segs) -> NameServers(c, segs, qtype)
          [] qtype = "SRV" /\ ~isDefaultNS(segs) ->
                IF internal = {} /\ a.err = "none" THEN NoItems ELSE [a EXCEPT !.recs = internal]
          [] OTHER -> a

\* What a query type finds; addresses are IPv4.  SRV leaves ExternalNames out.
Services(c, segs, qtype) ==
    LET a == Records(c, segs)
    IN  CASE qtype = "TXT" /\ segs # <<"dns-version">> -> NoData
          [] qtype = "TXT" /\ segs = <<"dns-version">> ->
                [err |-> "none", recs |-> {[host |-> "1.1.0", port |-> 0, key |-> segs]}]
          [] qtype = "NS" -> NameServers(c, <<>>, qtype)
          [] qtype \notin {"TXT", "NS"} /\ isDefaultNS(segs) -> NameServers(c, segs, qtype)
          [] qtype = "SRV" /\ ~isDefaultNS(segs) ->
                [a EXCEPT !.recs = {x \in @ : x.host \in IPs}]
          [] OTHER -> a

QTypes == {"A", "AAAA", "CNAME", "MX", "SRV", "TXT", "NS", "PTR", "SOA", "other"}

\* getRecords, with what the functions of package plugin keep of the services: addresses
\* or aliases, and no SRV for a sentinel; a name server that is no address is an error.  A
\* PTR query for a name that is not in a reverse zone only asks whether the name is there;
\* so does a type that has no records here.
getRecords(c, segs, qtype) ==
    LET a == Services(c, segs, IF qtype = "NS" /\ segs # <<>> THEN "A" ELSE qtype)
        Keep(P(_)) == [a EXCEPT !.recs = {x \in @ : P(x)}]
        Aliased(x) == x.host \notin IPs
        Ported(x) == x.port # -1
        Any(x) == TRUE
        No(x) == FALSE
    IN  CASE qtype \in {"A", "TXT"} -> Keep(Any)
          [] qtype = "NS" /\ segs = <<>> ->
                IF \E x \in a.recs : Aliased(x) THEN [err |-> "notaddress", recs |-> {}] ELSE a
          [] qtype \in {"AAAA", "CNAME"} -> Keep(Aliased)
          [] qtype = "SRV" -> Keep(Ported)
          [] qtype = "SOA" -> [err |-> "none", recs |-> {[host |-> "soa", port |-> 0, key |-> <<>>]}]
          [] qtype = "PTR" -> [Records(c, segs) EXCEPT !.recs = {}]
          [] OTHER -> Keep(No)

\* ServeDNS, for a name in a zone of the plugin or in none, without fallthrough and with a
\* synced cache.  The server recovers from a panic and answers with a failure.
ServeDNS(c, inZone, segs, qtype) ==
    LET a == getRecords(c, segs, qtype)
    IN  CASE IsNameError(a) -> IF inZone THEN "nxdomain" ELSE "next"
          [] ~IsNameError(a) /\ a.err # "none" -> "servfail"
          [] a.err = "none" -> IF a.recs = {} THEN "nodata" ELSE "answer"

\* One of these is taken.  Pods are watched in mode "verified" only.
podWithIP(c, ip) ==
    IF c.conf.podMode # "verified" THEN NoData
    ELSE [err |-> "none", recs |-> {p \in c.pods : p.ip = ip}]

\* The search path for a client, without the zone and the machine's own path.
AutoPath(c, ip) ==
    IF c.conf.podMode # "verified" THEN {}
    ELSE {<<<<p.ns, "svc">>, <<"svc">>, <<>>>> : p \in podWithIP(c, ip).recs}

\* The labels that a request is given: the client's pod, and the parts of the name.
Metadata(c, segs, ip) == [client |-> podWithIP(c, ip), request |-> parseRequest(segs)]

\* subsetsEquivalent; the lists are in a canonical order, which sets stand for.
Compared(sub) ==
    [addrs |-> {[ip |-> a.ip, hostname |-> a.hostname] : a \in sub.addrs}, ports |-> sub.ports]

\* Variant: the host names are not compared.
endpointsEquivalentByIP(a, b) ==
    {<<{x.ip : x \in s.addrs}, s.ports>> : s \in a.subsets} =
    {<<{x.ip : x \in s.addrs}, s.ports>> : s \in b.subsets}

endpointsEquivalent(a, b) ==
    {Compared(s) : s \in a.subsets} = {Compared(s) : s \in b.subsets}

-----------------------------------------------------------------------------
(* The specification: look up one name after the other                     *)

vars == <<w, name, answer>>

Init == w \in {Cache(c) : c \in Worlds} /\ name = <<>> /\ answer = Records(w, <<>>)

LookUp(segs) ==
    /\ name' = segs /\ answer' = Records(w, segs)
    /\ UNCHANGED w

Next == \E segs \in Names : LookUp(segs)

Spec == Init /\ [][Next]_vars

-----------------------------------------------------------------------------
(* Properties                                                              *)

\* The part of a name from its i-th label on.
From(segs, i) == SubSeq(segs, i, Len(segs))

\* Every name above a name that has records exists, which resolvers rely on when they cut
\* off below a name error: services, namespaces, svc, pod and the zone are found or NODATA
\* wherever there is something below (kubernetes.go:353-361, :416-424).  There is one
\* exception: the name between a port and its service, _tcp.a.ns1.svc, is read as the
\* endpoint _tcp and denied (parse.go:73-88), although _http._tcp.a.ns1.svc has records.
\* An ExternalName that is an address has no record of its own.
AncestorsExist ==
    answer.recs # {} /\ (\A s \in w.svcs : s.type = "external" => s.host \notin IPs) =>
        \A i \in 2 .. Len(name) + 1 :
            ~(Len(name) = 5 /\ i = 2) => ~IsNameError(Records(w, From(name, i)))

\* The names that a name with a wildcard for its service or its namespace stands for.
Renamed(segs, s, n) == [segs EXCEPT ![Len(segs) - 1] = n, ![Len(segs) - 2] = s]
StandsFor(c, segs) ==
    LET svc == parseRequest(segs).service
        ns == parseRequest(segs).ns
    IN  {Renamed(segs, s, n) : s \in IF wildcard(svc) THEN {x.name : x \in c.svcs} ELSE {svc},
                               n \in IF wildcard(ns) THEN {x.ns : x \in c.svcs} ELSE {ns}}

\* A service that ignore empty_service hides.
EmptyService(c, s) ==
    /\ c.conf.ignoreEmpty /\ s.type = "cluster"
    /\ \A ep \in c.eps : ep.name = s.name /\ ep.ns = s.ns => \A sub \in ep.subsets : sub.addrs = {}

\* A wildcard stands for exactly the names there are: what the scan over all services
\* finds is what the lookups by index find one by one, in the exposed namespaces
\* (kubernetes.go:440-459).  With ignore empty_service it finds more, but only the records
\* of empty services, which the comment at kubernetes.go:461 says are hidden: the addresses
\* are counted over the endpoints of all services (:463-478), so that one service with
\* endpoints shows all the empty ones.  Names that panic with noendpoints are left out.
WildcardIsUnion ==
    Len(name) >= 3 /\ name[Len(name)] = "svc" /\ answer # Panic =>
        LET named == UNION {Records(w, c).recs : c \in StandsFor(w, name)}
        IN  /\ named \subseteq answer.recs
            /\ \A x \in answer.recs \ named :
                  \E s \in w.svcs : EmptyService(w, s) /\ x.key = <<s.name, s.ns>>

\* A zone transfer and the lookups agree: every address, alias and port that is sent to a
\* secondary is what the primary answers for that name (xfr.go:98-188 against
\* kubernetes.go:411-541).  Three cases in which they do not are left out: transfer never
\* looks at ignore empty_service, so a secondary gets the empty services that the primary
\* denies; a service without ports is sent with port 65535, its sentinel, which the lookup
\* hides; and with noendpoints a transfer that meets a headless service ends the process.
TransferIsServed ==
    name = <<>> /\ ~TransferPanics(w) =>
        \A s \in w.svcs :
            namespaceExposed(w, s.ns) /\ ~EmptyService(w, s) =>
                \A x \in {y \in TransferOf(w, s) : y.type = "SRV" => y.data # 65535} :
                    LET a == getRecords(w, x.name, IF x.type = "SRV" THEN "SRV" ELSE "A")
                    IN  IF x.type = "SRV" THEN \E rec \in a.recs : rec.port = x.data
                        ELSE x.data \in Hosts(a)

\* The names that a reverse lookup gives lead back to the address, where their namespace
\* is exposed, their service is known and not hidden as empty, and the address is not an
\* external one (reverse.go:14-57).
ReverseLeadsBack ==
    name = <<>> =>
        \A ip \in IPs : \A n \in Reverse(w, ip).recs :
            LET svc == IF Len(n) = 4 THEN n[2] ELSE n[1]
                ns == n[Len(n) - 1]
            IN  /\ namespaceExposed(w, ns)
                /\ \E s \in w.svcs : s.name = svc /\ s.ns = ns /\ ~EmptyService(w, s)
                /\ \A s \in w.svcs : ip \notin s.ext
                => ip \in Hosts(Records(w, n))

\* What the external plugin shows of the cluster is there inside as well: no namespace
\* that the plugin hides can be seen from outside (external.go:16-84).  Services that
\* are hidden as empty, or have external addresses and no ClusterIP, are left out.
ExternalIsInternal ==
    name # <<>> /\ name[Len(name)] = "svc" /\ ~w.conf.ignoreEmpty
    /\ (\A s \in w.svcs : s.ext # {} => s.type = "cluster") =>
        (External(w, SubSeq(name, 1, Len(name) - 1)).recs # {} => answer.recs # {})

\* Whether a name is there does not depend on the type that is asked for, since resolvers
\* keep a name error for all types; and a name outside the zones is passed on whatever the
\* type (kubernetes.go:113-180, handler.go:30-49, :63-109).  The code's exceptions are
\* spelt out: TXT and SOA are answered for any name, and a PTR query does not know ns.dns.
NameErrorForAllTypes ==
    \A inZone \in BOOLEAN : \A t \in QTypes \ {"TXT", "SOA"} :
        LET Denied(type) == ServeDNS(w, inZone, name, type) \in {"nxdomain", "next"}
        IN  ~(isDefaultNS(name) /\ t = "PTR") => (Denied(t) <=> Denied("A"))

\* A service with a ClusterIP that is not hidden as empty is found by its name whatever its
\* ports are, none included, since the loops over the ports rely on the sentinel of the
\* conversion; and with noendpoints too, which no other service's lookup survives
\* (object/service.go:55-61, kubernetes.go:463-478, :527-538).
ClusterIPResolves ==
    name = <<>> =>
        \A s \in w.svcs :
            s.type = "cluster" /\ namespaceExposed(w, s.ns) /\ ~EmptyService(w, s) =>
                s.host \in Hosts(getRecords(w, <<s.name, s.ns, "svc">>, "A"))

\* The names of the zone's name servers can be looked up in the zone and have the addresses
\* that go with them, inside and for the external plugin, where their namespace is exposed
\* (ns.go:18-88, external.go:88-96).  A nil address is left out: an ExternalName service has
\* no ClusterIP, and a load balancer may have a host name only, for which External has the
\* name and ExternalAddress a nil.
NameServersResolve ==
    name = <<>> /\ w.conf.endpoints =>
        /\ \A x \in nsAddrs(w) :
              /\ x.ip # Unset
              /\ isDefaultNS(x.name) \/ namespaceExposed(w, x.name[Len(x.name) - 1])
              => x.ip \in Hosts(getRecords(w, x.name, "A"))
        /\ \A x \in ExternalAddress(w) :
              x.ip # Unset /\ ~isDefaultNS(x.name) /\ namespaceExposed(w, x.name[2])
              => x.ip \in Hosts(External(w, x.name))

\* An update of endpoints that detectChanges finds equivalent, so that the serial stays and
\* no secondary transfers again, does not change the zone (controller.go:436, :451-508).
\* With endpoint_pod_names it may: the name of the pod is not compared.
EquivalentMeansSameZone ==
    name = <<>> /\ ~w.conf.podNames =>
        \A old \in w.eps, new \in Revisions :
            old.name = new.name /\ old.ns = new.ns /\ endpointsEquivalent(old, new) =>
                transfer([w EXCEPT !.eps = (@ \ {old}) \cup {new}]) = transfer(w)

\* A client that the plugin knows as a pod, for its search path and its metadata, has a pod
\* name that leads back to it, in its own namespace and among those of all namespaces, also
\* when pods on the host's network share an address (autopath.go:52-62, metadata.go:12-22
\* against kubernetes.go:363-408).
ClientHasPodName ==
    name = <<>> =>
        \A ip \in IPs : \A p \in Metadata(w, name, ip).client.recs :
            namespaceExposed(w, p.ns) =>
                /\ ip \in Hosts(Records(w, <<Dash[ip], p.ns, "pod">>))
                /\ ip \in Hosts(Records(w, <<Dash[ip], "*", "pod">>))
                /\ \A path \in AutoPath(w, ip) :
                      path[1] = <<p.ns, "svc">> => ~IsNameError(Records(w, path[1]))
=============================================================================
