------------------------- MODULE RecordLookupProofs -------------------------
(***************************************************************************)
(* What the lookups of RecordLookup find, proved for every cluster and     *)
(* every name.  A state is a cache and a name; the theorems say of each    *)
(* pair what the functions of parse.go, kubernetes.go, reverse.go,         *)
(* external.go, ns.go and xfr.go compute for it.                           *)
(***************************************************************************)
EXTENDS RecordLookup, TLAPS

\* Names are sequences of labels.
LEMMA Triple ==
    ASSUME NEW S, NEW x \in S, NEW y \in S, NEW z \in S PROVE <<x, y, z>> \in Seq(S)
  OBVIOUS

LEMMA Quadruple ==
    ASSUME NEW S, NEW u \in S, NEW x \in S, NEW y \in S, NEW z \in S
    PROVE  <<u, x, y, z>> \in Seq(S)
  OBVIOUS

LEMMA Quintuple ==
    ASSUME NEW S, NEW u \in S, NEW v \in S, NEW x \in S, NEW y \in S, NEW z \in S
    PROVE  <<u, v, x, y, z>> \in Seq(S)
  OBVIOUS

LEMMA UnsetFacts == Unset \notin {"svc", "pod", "*", "None"}
  BY Zenon DEF Unset

-----------------------------------------------------------------------------
(* The cache                                                               *)

\* The services in a cache: what the API server takes, with ports for those that have none.
CachedService(s) ==
    /\ s.name \in Label /\ s.ns \in Label
    /\ s.type \in {"cluster", "headless", "external"}
    /\ s.type = "cluster" => s.host \in IPs
    /\ s.ports # {} /\ s.ports \subseteq Ports \cup {Sentinel}

CachedSubset(sub) ==
    /\ \A a \in sub.addrs : a.ip \in IPs
    /\ sub.ports # {} /\ sub.ports \subseteq Ports \cup {Sentinel}

\* A cache that the conversions made.
Converted(c) ==
    /\ \A s \in c.svcs : CachedService(s)
    /\ \A s, t \in c.svcs : s.name = t.name /\ s.ns = t.ns => s = t
    /\ \A e \in c.eps : \A sub \in e.subsets : CachedSubset(sub)
    /\ c.eps # {} => c.conf.endpoints
    /\ c.local \subseteq IPs
    /\ {"nss", "svcs", "eps", "conf"} \subseteq DOMAIN c

LEMMA PortsConverted ==
    ASSUME NEW ports \in SUBSET Ports
    PROVE  toPorts(ports) # {} /\ toPorts(ports) \subseteq Ports \cup {Sentinel}
  BY DEF toPorts

LEMMA ServiceConverted ==
    ASSUME NEW s \in ApiServices
    PROVE  /\ CachedService(toService(s))
           /\ toService(s).name = s.name /\ toService(s).ns = s.ns
<1>1. /\ s.name \in Label /\ s.ns \in Label /\ s.type \in {"cluster", "headless", "external"}
      /\ s.ports \in SUBSET Ports
      /\ s.type = "cluster" => s.host \in IPs
  BY DEF ApiServices
<1>2. toPorts(s.ports) # {} /\ toPorts(s.ports) \subseteq Ports \cup {Sentinel}
  BY <1>1, PortsConverted
<1> QED
  BY <1>1, <1>2 DEF toService, CachedService

LEMMA EndpointsConverted ==
    ASSUME NEW e \in ApiEndpoints
    PROVE  \A sub \in toEndpoints(e).subsets : CachedSubset(sub)
<1>1. toEndpoints(e).subsets =
        {[addrs |-> sub.addrs, ports |-> toPorts(sub.ports)] : sub \in e.subsets}
  BY DEF toEndpoints, ApiEndpoints
<1>2. ASSUME NEW sub \in e.subsets
      PROVE  CachedSubset([addrs |-> sub.addrs, ports |-> toPorts(sub.ports)])
  <2>1. /\ sub.addrs \in SUBSET [ip : IPs, hostname : STRING, target : STRING]
        /\ sub.ports \in SUBSET Ports
    BY <1>2 DEF ApiEndpoints
  <2>2. \A a \in sub.addrs : a.ip \in IPs
    BY <2>1
  <2>3. toPorts(sub.ports) # {} /\ toPorts(sub.ports) \subseteq Ports \cup {Sentinel}
    BY <2>1, PortsConverted
  <2> QED
    BY <2>2, <2>3 DEF CachedSubset
<1> QED
  BY <1>1, <1>2

LEMMA CacheConverted ==
    ASSUME NEW world \in Worlds
    PROVE  Converted(Cache(world))
<1> DEFINE c == Cache(world)
<1>1. /\ world \in [nss : SUBSET STRING, svcs : SUBSET ApiServices, eps : SUBSET ApiEndpoints,
                    pods : SUBSET [ns : STRING, ip : IPs], local : SUBSET IPs,
                    conf : [namespaces : SUBSET STRING, podMode : {"disabled", "insecure", "verified"},
                            ignoreEmpty : BOOLEAN, podNames : BOOLEAN, endpoints : BOOLEAN]]
      /\ \A s, t \in world.svcs : s.name = t.name /\ s.ns = t.ns => s = t
  BY ClusterAssumption DEF Clusters
<1>2. /\ c.svcs = {toService(s) : s \in world.svcs}
      /\ c.eps = IF world.conf.endpoints THEN {toEndpoints(e) : e \in world.eps} ELSE {}
      /\ c.conf = world.conf /\ c.local = world.local
      /\ {"nss", "svcs", "eps", "conf"} \subseteq DOMAIN c
  BY <1>1 DEF Cache
<1> HIDE DEF c
<1>3. \A s \in c.svcs : CachedService(s)
  BY <1>1, <1>2, ServiceConverted
<1>4. ASSUME NEW s \in c.svcs, NEW t \in c.svcs, s.name = t.name, s.ns = t.ns PROVE s = t
  <2>1. PICK u \in world.svcs : s = toService(u)
    BY <1>2
  <2>2. PICK v \in world.svcs : t = toService(v)
    BY <1>2
  <2>3. u.name = v.name /\ u.ns = v.ns
    BY <1>1, <1>4, <2>1, <2>2, ServiceConverted
  <2> QED
    BY <1>1, <2>1, <2>2, <2>3
<1>5. \A e \in c.eps : \A sub \in e.subsets : CachedSubset(sub)
  BY <1>1, <1>2, EndpointsConverted
<1>6. (c.eps # {} => c.conf.endpoints) /\ c.local \subseteq IPs
  BY <1>1, <1>2
<1> QED
  BY <1>2, <1>3, <1>4, <1>5, <1>6 DEF Converted, c

\* A state: the cache is one that the conversions made, and the answer is the name's.
LookedUp == Converted(w) /\ name \in Seq(STRING) /\ answer = Records(w, name)

LEMMA LookedUpInvariant == Spec => []LookedUp
<1>1. Init => LookedUp
  BY CacheConverted DEF Init, LookedUp
<1>2. LookedUp /\ [Next]_vars => LookedUp'
  BY ClusterAssumption DEF LookedUp, Next, LookUp, vars
<1> QED
  BY <1>1, <1>2, PTL DEF Spec

-----------------------------------------------------------------------------
(* Requests                                                                *)

LEMMA ParseNothing ==
    ASSUME NEW segs, Len(segs) = 0 \/ segs \in {<<"svc">>, <<"pod">>}
    PROVE  parseRequest(segs) = NoRequest
  BY DEF parseRequest

LEMMA ParseInvalid ==
    ASSUME NEW S, NEW segs \in Seq(S),
           Len(segs) > 5 \/ (Len(segs) > 0 /\ segs[Len(segs)] \notin {"svc", "pod"})
    PROVE  parseRequest(segs).err = "invalid"
<1>1. Len(segs) # 0 /\ segs \notin {<<"svc">>, <<"pod">>}
  <2>1. Len(segs) # 0
    OBVIOUS
  <2>2. ASSUME NEW x \in {"svc", "pod"}, segs = <<x>> PROVE FALSE
    <3>1. Len(segs) = 1 /\ segs[1] = x
      BY <2>2
    <3> QED
      BY <2>2, <3>1
  <2> QED
    BY <2>1, <2>2
<1>2. parseRequest(segs) = [NoRequest EXCEPT !.err = "invalid"]
  BY <1>1 DEF parseRequest
<1> QED
  BY <1>2 DEF NoRequest

LEMMA ParseFields ==
    ASSUME NEW S, NEW segs \in Seq(S)
    PROVE  LET n == Len(segs)
               r == parseRequest(segs) IN
           n \in 2 .. 5 /\ segs[n] \in {"svc", "pod"} =>
                /\ r.err = "none" /\ r.podOrSvc = segs[n] /\ r.ns = segs[n - 1]
                /\ r.service = IF n > 2 THEN segs[n - 2] ELSE Unset
                /\ r.endpoint = IF n = 4 THEN segs[1] ELSE Unset
                /\ r.port = IF n = 5 THEN stripUnderscore(segs[1]) ELSE "*"
                /\ r.proto = IF n = 5 THEN stripUnderscore(segs[2]) ELSE "*"
<1> DEFINE n == Len(segs)
           r == parseRequest(segs)
<1>1. segs \in {<<"svc">>, <<"pod">>} => n = 1
  OBVIOUS
<1>2. ASSUME n \in 2 .. 5, segs[n] \in {"svc", "pod"}
      PROVE  /\ r.err = "none" /\ r.podOrSvc = segs[n] /\ r.ns = segs[n - 1]
             /\ r.service = IF n > 2 THEN segs[n - 2] ELSE Unset
             /\ r.endpoint = IF n = 4 THEN segs[1] ELSE Unset
             /\ r.port = IF n = 5 THEN stripUnderscore(segs[1]) ELSE "*"
             /\ r.proto = IF n = 5 THEN stripUnderscore(segs[2]) ELSE "*"
  <2>1. r = [err |-> "none", podOrSvc |-> segs[n],
             ns |-> IF n > 1 THEN segs[n - 1] ELSE Unset,
             service |-> IF n > 2 THEN segs[n - 2] ELSE Unset,
             endpoint |-> IF n = 4 THEN segs[1] ELSE Unset,
             port |-> IF n = 5 THEN stripUnderscore(segs[1]) ELSE "*",
             proto |-> IF n = 5 THEN stripUnderscore(segs[2]) ELSE "*"]
    <3>1. n # 0 /\ n # 1 /\ ~(n > 5)
      BY <1>2
    <3>2. ~(n = 0 \/ segs \in {<<"svc">>, <<"pod">>}) /\ ~(n > 5 \/ segs[n] \notin {"svc", "pod"})
      BY <1>1, <1>2, <3>1, Zenon
    <3> QED
      BY <3>2, Zenon DEF parseRequest
  <2> HIDE DEF r
  <2>2. n > 1
    BY <1>2
  <2> QED
    BY <2>1, <2>2
<1> QED
  BY <1>2

\* The services that a request is for, and what is read and told of them.
Found(c, r) ==
    {s \in c.svcs : /\ match(r.ns, s.ns) /\ match(r.service, s.name)
                    /\ wildcard(r.ns) => namespaceExposed(c, s.ns)}
Fails(c, r) == ~c.conf.endpoints /\ \E s \in Found(c, r) : ReadsEndpoints(c, r, s)
Told(c, r) == UNION {ServiceRecords(c, r, s) : s \in {t \in Found(c, r) : ~HiddenAsEmpty(c, r, t)}}

LEMMA FindServices ==
    ASSUME NEW c, NEW r
    PROVE  LET a == findServices(c, r) IN
           /\ r.service = Unset => a = NoData
           /\ r.service # Unset /\ Fails(c, r) => a = Panic
           /\ r.service # Unset /\ ~Fails(c, r) =>
                /\ a.recs = Told(c, r) /\ a.err \in {"none", "noitems"}
                /\ Told(c, r) # {} => a.err = "none"
                /\ wildcard(r.service) /\ ~wildcard(r.ns) => a.err = "none"
<1> DEFINE a == findServices(c, r)
<1>1. a = IF r.service = Unset THEN NoData
          ELSE IF Fails(c, r) THEN Panic
          ELSE IF Told(c, r) = {} /\ (wildcard(r.service) => wildcard(r.ns)) THEN NoItems
          ELSE [err |-> "none", recs |-> Told(c, r)]
  BY Zenon DEF findServices, Found, Fails, Told
<1> HIDE DEF a
<1>2. r.service # Unset /\ ~Fails(c, r) =>
        a = IF Told(c, r) = {} /\ (wildcard(r.service) => wildcard(r.ns)) THEN NoItems
            ELSE [err |-> "none", recs |-> Told(c, r)]
  BY <1>1, Zenon
<1>3. /\ r.service = Unset => a = NoData
      /\ r.service # Unset /\ Fails(c, r) => a = Panic
  BY <1>1, Zenon
<1>4. NoItems.recs = {} /\ NoItems.err = "noitems"
  BY DEF NoItems
<1>5. ASSUME r.service # Unset, ~Fails(c, r)
      PROVE  /\ a.recs = Told(c, r) /\ a.err \in {"none", "noitems"}
             /\ Told(c, r) # {} => a.err = "none"
             /\ wildcard(r.service) /\ ~wildcard(r.ns) => a.err = "none"
  BY <1>2, <1>4, <1>5 DEF wildcard
<1> QED
  BY <1>3, <1>5 DEF a

LEMMA FindPods ==
    ASSUME NEW c, NEW r
    PROVE  LET a == findPods(c, r) IN
           /\ a.err \in {"none", "noitems"} /\ a # Panic
           /\ a.recs # {} => c.conf.podMode # "disabled" /\ a.err = "none"
           /\ r.service = Unset /\ c.conf.podMode # "disabled" => a = NoData
<1> DEFINE asked == {ip \in IPs : Dash[ip] = r.service}
           known == {p.ip : p \in {q \in c.pods : /\ match(r.ns, q.ns)
                                                  /\ wildcard(r.ns) => namespaceExposed(c, q.ns)}}
           ips == IF c.conf.podMode = "insecure" THEN asked ELSE asked \cap known
           recs == {[host |-> ip, port |-> 0, key |-> <<r.service, r.ns>>] : ip \in ips}
           a == findPods(c, r)
<1>1. a = IF c.conf.podMode = "disabled" THEN NoItems
          ELSE IF r.service = Unset THEN NoData
          ELSE IF c.conf.podMode = "verified" /\ wildcard(r.service) /\ ~wildcard(r.ns) THEN NoData
          ELSE IF recs = {} THEN NoItems
          ELSE [err |-> "none", recs |-> recs]
  BY Zenon DEF findPods
<1> HIDE DEF a, recs
<1>2. \/ a = NoItems
      \/ c.conf.podMode # "disabled" /\ (a = NoData \/ a = [err |-> "none", recs |-> recs])
  BY <1>1, Zenon
<1>3. r.service = Unset /\ c.conf.podMode # "disabled" => a = NoData
  BY <1>1, Zenon
<1> QED
  BY <1>2, <1>3 DEF NoItems, NoData, Panic, a

LEMMA RecordsOf ==
    ASSUME NEW c, NEW segs
    PROVE  LET r == parseRequest(segs)
               a == Records(c, segs) IN
           /\ r.err # "none" => a = [err |-> "invalid", recs |-> {}]
           /\ r.err = "none" /\ r.podOrSvc = Unset => a = NoData
           /\ r.err = "none" /\ r.podOrSvc # Unset /\ ~wildcard(r.ns) /\ ~namespaceExposed(c, r.ns)
                => a = [err |-> "nsnotexposed", recs |-> {}]
           /\ r.err = "none" /\ r.podOrSvc # Unset /\ (wildcard(r.ns) \/ namespaceExposed(c, r.ns))
                => a = IF r.podOrSvc = "pod" THEN findPods(c, r) ELSE findServices(c, r)
  BY Zenon DEF Records, wildcard, namespaceExposed

\* A name with a service and a namespace of its own is about that service.
LEMMA OneFound ==
    ASSUME NEW c, Converted(c), NEW s \in c.svcs, NEW r, r.service = s.name, r.ns = s.ns
    PROVE  Found(c, r) = {s} /\ r.service # Unset /\ ~wildcard(r.service) /\ ~wildcard(r.ns)
<1>1. s.name \in Label /\ s.ns \in Label
  BY DEF Converted, CachedService
<1>2. r.service # Unset /\ ~wildcard(r.service) /\ ~wildcard(r.ns)
  BY <1>1 DEF Label, wildcard
<1>3. \A t \in c.svcs : t.name # "*" /\ t.ns # "*"
  BY DEF Converted, CachedService, Label
<1>4. \A t \in c.svcs : match(r.ns, t.ns) /\ match(r.service, t.name) => t = s
  BY <1>2, <1>3 DEF match, wildcard, Converted
<1>5. match(r.ns, s.ns) /\ match(r.service, s.name)
  BY DEF match
<1> QED
  BY <1>2, <1>4, <1>5 DEF Found

LEMMA FindService ==
    ASSUME NEW c, Converted(c), NEW s \in c.svcs, NEW r, r.service = s.name, r.ns = s.ns,
           c.conf.endpoints \/ ~ReadsEndpoints(c, r, s), ~HiddenAsEmpty(c, r, s)
    PROVE  LET a == findServices(c, r) IN
           /\ a.recs = ServiceRecords(c, r, s) /\ a.err \in {"none", "noitems"}
           /\ a.recs # {} => a.err = "none"
<1>1. Found(c, r) = {s} /\ r.service # Unset
  BY OneFound
<1>2. ~Fails(c, r)
  BY <1>1 DEF Fails
<1>3. Told(c, r) = ServiceRecords(c, r, s)
  BY <1>1 DEF Told
<1> QED
  BY <1>1, <1>2, <1>3, FindServices

\* The records of a service in an exposed namespace, for a name that is about it.
LEMMA ServiceAnswer ==
    ASSUME NEW c, Converted(c), NEW s \in c.svcs, namespaceExposed(c, s.ns),
           NEW S, NEW segs \in Seq(S), Len(segs) \in 3 .. 5,
           segs[Len(segs)] = "svc", segs[Len(segs) - 1] = s.ns, segs[Len(segs) - 2] = s.name,
           ~HiddenAsEmpty(c, parseRequest(segs), s),
           c.conf.endpoints \/ ~ReadsEndpoints(c, parseRequest(segs), s)
    PROVE  LET a == Records(c, segs) IN
           /\ a.recs = ServiceRecords(c, parseRequest(segs), s) /\ a.err \in {"none", "noitems"}
           /\ a.recs # {} => a.err = "none"
<1> DEFINE r == parseRequest(segs)
<1>1. Len(segs) \in 2 .. 5 /\ Len(segs) > 2
  <2> \A n : n \in 3 .. 5 => n \in 2 .. 5 /\ n > 2
    OBVIOUS
  <2> QED
    OBVIOUS
<1>2. r.err = "none" /\ r.podOrSvc = "svc" /\ r.ns = s.ns /\ r.service = s.name
  BY <1>1, ParseFields
<1> HIDE DEF r
<1>3. Records(c, segs) = findServices(c, r)
  BY <1>2, RecordsOf, UnsetFacts DEF r
<1> QED
  BY <1>2, <1>3, FindService DEF r

-----------------------------------------------------------------------------
(* Lookups                                                                 *)

\* The records of a pod in mode "verified".
LEMMA VerifiedPod ==
    ASSUME NEW c, c.conf.podMode = "verified", NEW r, NEW p \in c.pods, p.ip \in IPs,
           r.service = Dash[p.ip], r.ns = p.ns \/ (wildcard(r.ns) /\ namespaceExposed(c, p.ns)),
           wildcard(r.ns) => namespaceExposed(c, p.ns), r.service # Unset, r.service # "*"
    PROVE  p.ip \in Hosts(findPods(c, r))
<1> DEFINE asked == {ip \in IPs : Dash[ip] = r.service}
           known == {q.ip : q \in {x \in c.pods : /\ match(r.ns, x.ns)
                                                  /\ wildcard(r.ns) => namespaceExposed(c, x.ns)}}
           ips == IF c.conf.podMode = "insecure" THEN asked ELSE asked \cap known
           recs == {[host |-> ip, port |-> 0, key |-> <<r.service, r.ns>>] : ip \in ips}
<1>1. p.ip \in ips
  BY DEF match
<1>2. [host |-> p.ip, port |-> 0, key |-> <<r.service, r.ns>>] \in recs
  BY <1>1
<1>3. findPods(c, r) =
        IF c.conf.podMode = "disabled" THEN NoItems
        ELSE IF r.service = Unset THEN NoData
        ELSE IF c.conf.podMode = "verified" /\ wildcard(r.service) /\ ~wildcard(r.ns) THEN NoData
        ELSE IF recs = {} THEN NoItems
        ELSE [err |-> "none", recs |-> recs]
  BY Zenon DEF findPods
<1> HIDE DEF recs
<1>4. findPods(c, r) = [err |-> "none", recs |-> recs]
  BY <1>2, <1>3 DEF wildcard
<1> QED
  BY <1>2, <1>4 DEF Hosts

\* The name of a pod whose namespace is exposed, or that of all namespaces.
LEMMA PodNamed ==
    ASSUME NEW c, c.conf.podMode = "verified", NEW p \in c.pods, p.ip \in IPs, Dash[p.ip] # "*",
           namespaceExposed(c, p.ns), NEW n \in {p.ns, "*"}
    PROVE  p.ip \in Hosts(Records(c, <<Dash[p.ip], n, "pod">>))
<1> DEFINE segs == <<Dash[p.ip], n, "pod">>
           r == parseRequest(segs)
<1>1. Dash[p.ip] # Unset
  BY AddressAssumption DEF Label
<1>2. segs \in Seq({Dash[p.ip], n, "pod"})
  BY Triple
<1>3. r.err = "none" /\ r.podOrSvc = "pod" /\ r.ns = n /\ r.service = Dash[p.ip]
  <2>1. Len(segs) = 3 /\ segs[3] = "pod" /\ segs[2] = n /\ segs[1] = Dash[p.ip]
    OBVIOUS
  <2> HIDE DEF segs
  <2>2. /\ Len(segs) \in 2 .. 5 /\ Len(segs) > 2 /\ Len(segs) # 4 /\ Len(segs) # 5
        /\ segs[Len(segs)] = "pod" /\ segs[Len(segs) - 1] = n /\ segs[Len(segs) - 2] = Dash[p.ip]
    BY <2>1
  <2> QED
    BY <1>2, <2>2, ParseFields
<1> HIDE DEF segs, r
<1>4. wildcard(r.ns) \/ namespaceExposed(c, r.ns)
  BY <1>3 DEF wildcard
<1>5. Records(c, segs) = findPods(c, r)
  BY <1>3, <1>4, RecordsOf, UnsetFacts DEF r
<1>6. p.ip \in Hosts(findPods(c, r))
  BY <1>1, <1>3, VerifiedPod DEF wildcard
<1> QED
  BY <1>5, <1>6 DEF segs

\* A client that the plugin knows as a pod can be found under its pod name, in every cluster
\* (autopath.go:52-62, metadata.go:12-22 against kubernetes.go:363-408).
THEOREM ClientsHavePodNames == Spec => []ClientHasPodName
<1>1. LookedUp => ClientHasPodName
  <2> SUFFICES ASSUME LookedUp, NEW ip \in IPs, NEW p \in Metadata(w, name, ip).client.recs,
                      namespaceExposed(w, p.ns)
               PROVE  /\ ip \in Hosts(Records(w, <<Dash[ip], p.ns, "pod">>))
                      /\ ip \in Hosts(Records(w, <<Dash[ip], "*", "pod">>))
                      /\ \A path \in AutoPath(w, ip) :
                            path[1] = <<p.ns, "svc">> => ~IsNameError(Records(w, path[1]))
    BY DEF ClientHasPodName
  <2>1. p \in podWithIP(w, ip).recs
    BY DEF Metadata
  <2>2. w.conf.podMode = "verified" /\ p \in w.pods /\ p.ip = ip
    BY <2>1 DEF podWithIP, NoData
  <2>3. Dash[ip] # "*"
    BY AddressAssumption DEF Label
  <2>4. /\ ip \in Hosts(Records(w, <<Dash[ip], p.ns, "pod">>))
        /\ ip \in Hosts(Records(w, <<Dash[ip], "*", "pod">>))
    BY <2>2, <2>3, PodNamed
  <2>5. ~IsNameError(Records(w, <<p.ns, "svc">>))
    <3> DEFINE segs == <<p.ns, "svc">>
               r == parseRequest(segs)
    <3>1. /\ segs \in Seq({p.ns, "svc"}) /\ Len(segs) = 2 /\ segs[2] = "svc" /\ segs[1] = p.ns
      OBVIOUS
    <3>2. r.err = "none" /\ r.podOrSvc = "svc" /\ r.ns = p.ns /\ r.service = Unset
      <4> HIDE DEF segs
      <4>1. /\ Len(segs) \in 2 .. 5 /\ ~(Len(segs) > 2)
            /\ segs[Len(segs)] = "svc" /\ segs[Len(segs) - 1] = p.ns
        BY <3>1
      <4> QED
        BY <3>1, <4>1, ParseFields
    <3> HIDE DEF segs, r
    <3>3. Records(w, segs) = NoData
      BY <3>2, RecordsOf, FindServices, UnsetFacts DEF r
    <3> QED
      BY <3>3 DEF IsNameError, NoData, segs
  <2> QED
    BY <2>4, <2>5
<1> QED
  BY <1>1, LookedUpInvariant, PTL

-----------------------------------------------------------------------------
(* Queries by type                                                         *)

\* An answer has an error and records.
Shaped(a) == "err" \in DOMAIN a /\ "recs" \in DOMAIN a

LEMMA Kept ==
    ASSUME NEW a, Shaped(a), NEW S
    PROVE  LET b == [a EXCEPT !.recs = S] IN Shaped(b) /\ b.err = a.err /\ b.recs = S
  BY DEF Shaped

LEMMA RecordsShaped == ASSUME NEW c, NEW segs PROVE Shaped(Records(c, segs))
<1> DEFINE r == parseRequest(segs)
<1>1. Shaped(NoData) /\ Shaped(NoItems) /\ Shaped(Panic)
  BY DEF Shaped, NoData, NoItems, Panic
<1>2. \A e, recs : Shaped([err |-> e, recs |-> recs])
  BY DEF Shaped
<1>3. Shaped(findServices(c, r))
  BY <1>1, <1>2, Zenon DEF findServices
<1>4. Shaped(findPods(c, r))
  BY <1>1, <1>2, Zenon DEF findPods
<1> QED
  BY <1>1, <1>2, <1>3, <1>4, Zenon DEF Records

LEMMA NameServersShaped ==
    ASSUME NEW c, NEW segs, NEW some
    PROVE  LET a == NameServers(c, segs, some) IN Shaped(a) /\ a.err \in {"none", "panic"}
<1>1. Shaped(Panic) /\ Panic.err = "panic"
  BY DEF Shaped, Panic
<1>2. \A e, recs : Shaped([err |-> e, recs |-> recs]) /\ [err |-> e, recs |-> recs].err = e
  BY DEF Shaped
<1> QED
  BY <1>1, <1>2, Zenon DEF NameServers

LEMMA ServicesOf ==
    ASSUME NEW c, NEW segs
    PROVE  /\ Services(c, segs, "NS") = NameServers(c, <<>>, "NS")
           /\ \A t \in QTypes \ {"TXT", "NS"} :
                 isDefaultNS(segs) => Services(c, segs, t) = NameServers(c, segs, t)
           /\ \A t \in QTypes \ {"TXT", "NS", "SRV"} :
                 ~isDefaultNS(segs) => Services(c, segs, t) = Records(c, segs)
           /\ ~isDefaultNS(segs) =>
                 Services(c, segs, "SRV") =
                     [Records(c, segs) EXCEPT !.recs = {x \in @ : x.host \in IPs}]
<1> DEFINE a == Records(c, segs)
           some == [a EXCEPT !.recs = {x \in @ : x.host \in IPs}]
           txt == [err |-> "none", recs |-> {[host |-> "1.1.0", port |-> 0, key |-> segs]}]
<1>1. \A t : Services(c, segs, t) =
            CASE t = "TXT" /\ segs # <<"dns-version">> -> NoData
              [] t = "TXT" /\ segs = <<"dns-version">> -> txt
              [] t = "NS" -> NameServers(c, <<>>, t)
              [] t \notin {"TXT", "NS"} /\ isDefaultNS(segs) -> NameServers(c, segs, t)
              [] t = "SRV" /\ ~isDefaultNS(segs) -> some
              [] OTHER -> a
  BY Zenon DEF Services
<1>2. isDefaultNS(segs) \in BOOLEAN
  BY DEF isDefaultNS
<1> HIDE DEF a, some, txt
<1>3. Services(c, segs, "NS") = NameServers(c, <<>>, "NS")
  BY <1>1, <1>2
<1>4. ASSUME NEW t \in QTypes \ {"TXT", "NS"}, isDefaultNS(segs)
      PROVE  Services(c, segs, t) = NameServers(c, segs, t)
  BY <1>1, <1>4
<1>5. ASSUME NEW t \in QTypes \ {"TXT", "NS", "SRV"}, ~isDefaultNS(segs)
      PROVE  Services(c, segs, t) = a
  BY <1>1, <1>5
<1>6. ASSUME ~isDefaultNS(segs) PROVE Services(c, segs, "SRV") = some
  BY <1>1, <1>6
<1> QED
  BY <1>3, <1>4, <1>5, <1>6, Zenon DEF a, some

\* The type that services are looked for by: an NS query is one for the zone only.
AskedAs(segs, t) == IF t = "NS" /\ segs # <<>> THEN "A" ELSE t

NotAddress == [err |-> "notaddress", recs |-> {}]

LEMMA GetRecords ==
    ASSUME NEW c, NEW segs, NEW t \in QTypes \ {"TXT", "SOA"}
    PROVE  LET a == Services(c, segs, AskedAs(segs, t))
               b == getRecords(c, segs, t) IN
           /\ t # "PTR" => \/ \E S : b = [a EXCEPT !.recs = S]
                           \/ t = "NS" /\ segs = <<>> /\ (b = a \/ b = NotAddress)
           /\ t = "PTR" => b = [Records(c, segs) EXCEPT !.recs = {}]
           /\ t = "A" => b = [a EXCEPT !.recs = {x \in @ : TRUE}]
           /\ t = "SRV" => b = [a EXCEPT !.recs = {x \in @ : x.port # -1}]
<1> DEFINE a == Services(c, segs, AskedAs(segs, t))
           b == getRecords(c, segs, t)
           any == [a EXCEPT !.recs = {x \in @ : TRUE}]
           aliased == [a EXCEPT !.recs = {x \in @ : x.host \notin IPs}]
           ported == [a EXCEPT !.recs = {x \in @ : x.port # -1}]
           no == [a EXCEPT !.recs = {x \in @ : FALSE}]
           soa == [err |-> "none", recs |-> {[host |-> "soa", port |-> 0, key |-> <<>>]}]
           ptr == [Records(c, segs) EXCEPT !.recs = {}]
           servers == IF \E x \in a.recs : x.host \notin IPs THEN NotAddress ELSE a
<1>1. b = CASE t \in {"A", "TXT"} -> any
            [] t = "NS" /\ segs = <<>> -> servers
            [] t \in {"AAAA", "CNAME"} -> aliased
            [] t = "SRV" -> ported
            [] t = "SOA" -> soa
            [] t = "PTR" -> ptr
            [] OTHER -> no
  BY Zenon DEF getRecords, AskedAs, NotAddress
<1>2. /\ \E S : any = [a EXCEPT !.recs = S]
      /\ \E S : aliased = [a EXCEPT !.recs = S]
      /\ \E S : ported = [a EXCEPT !.recs = S]
      /\ \E S : no = [a EXCEPT !.recs = S]
  BY Zenon
<1> DEFINE Some(x) == \E S : x = [a EXCEPT !.recs = S]
<1>3. Some(any) /\ Some(aliased) /\ Some(ported) /\ Some(no)
  BY <1>2, Zenon
<1>s. servers \in {NotAddress, a}
  OBVIOUS
<1> HIDE DEF a, b, any, aliased, ported, no, soa, ptr, servers, Some
<1>4. /\ t = "A" => b = any
      /\ t = "SRV" => b = ported
      /\ t = "PTR" => b = ptr
      /\ t # "PTR" => b \in {any, aliased, ported, no} \/ (t = "NS" /\ segs = <<>> /\ b = servers)
  BY <1>1
<1>5. t # "PTR" => Some(b) \/ (t = "NS" /\ segs = <<>> /\ (b = a \/ b = NotAddress))
  BY <1>3, <1>4, <1>s
<1>6. t # "PTR" => \/ \E S : b = [a EXCEPT !.recs = S]
                   \/ t = "NS" /\ segs = <<>> /\ (b = a \/ b = NotAddress)
  BY <1>5, Zenon DEF Some
<1>7. /\ t = "PTR" => b = [Records(c, segs) EXCEPT !.recs = {}]
      /\ t = "A" => b = [a EXCEPT !.recs = {x \in @ : TRUE}]
      /\ t = "SRV" => b = [a EXCEPT !.recs = {x \in @ : x.port # -1}]
  BY <1>4, Zenon DEF any, ported, ptr
<1> QED
  BY <1>6, <1>7, Zenon DEF a, b

\* What the error of a query is taken from, whatever its type.
LEMMA ErrorOf ==
    ASSUME NEW c, NEW segs, NEW t \in QTypes \ {"TXT", "SOA"}
    PROVE  LET e == getRecords(c, segs, t).err IN
           /\ t = "PTR" => e = Records(c, segs).err
           /\ (t # "PTR" /\ isDefaultNS(segs)) \/ (t = "NS" /\ segs = <<>>) =>
                 e \in {"none", "panic", "notaddress"}
           /\ ~isDefaultNS(segs) /\ (t = "NS" => segs # <<>>) => e = Records(c, segs).err
<1> DEFINE q == AskedAs(segs, t)
           a == Services(c, segs, q)
           b == getRecords(c, segs, t)
           d == Records(c, segs)
<1>1. q \in QTypes \ {"TXT"} /\ ~isDefaultNS(<<>>)
  BY DEF QTypes, isDefaultNS, AskedAs
<1>2. /\ t # "PTR" => \/ \E S : b = [a EXCEPT !.recs = S]
                      \/ t = "NS" /\ segs = <<>> /\ (b = a \/ b = NotAddress)
      /\ t = "PTR" => b = [d EXCEPT !.recs = {}]
  <2>1. t # "PTR" => \/ \E S : b = [a EXCEPT !.recs = S]
                     \/ t = "NS" /\ segs = <<>> /\ (b = a \/ b = NotAddress)
    BY GetRecords, SMT
  <2>2. t = "PTR" => b = [d EXCEPT !.recs = {}]
    BY GetRecords, SMT
  <2> HIDE DEF a, b, d
  <2> QED
    BY <2>1, <2>2
<1>3. Shaped(d)
  BY RecordsShaped
<1>4. t = "PTR" => b.err = d.err
  <2> HIDE DEF b, d
  <2> QED
    BY <1>2, <1>3 DEF Shaped
<1>5. ASSUME t # "PTR", Shaped(a)
      PROVE  b.err = a.err \/ (t = "NS" /\ segs = <<>> /\ b.err = "notaddress")
  <2>1. CASE \E S : b = [a EXCEPT !.recs = S]
    <3>1. PICK S : b = [a EXCEPT !.recs = S]
      BY <2>1, Zenon
    <3> HIDE DEF a, b
    <3> QED
      BY <1>5, <3>1, Kept
  <2>2. CASE t = "NS" /\ segs = <<>> /\ (b = a \/ b = NotAddress)
    <3> HIDE DEF a, b
    <3> QED
      BY <2>2 DEF NotAddress
  <2> QED
    BY <1>2, <1>5, <2>1, <2>2
<1> HIDE DEF q
<1>6. ASSUME (t # "PTR" /\ isDefaultNS(segs)) \/ (t = "NS" /\ segs = <<>>)
      PROVE  b.err \in {"none", "panic", "notaddress"}
  <2>1. (q = "NS" /\ segs = <<>>) \/ (q # "NS" /\ isDefaultNS(segs))
    BY <1>1, <1>6 DEF q, AskedAs
  <2>2. \E s, some : a = NameServers(c, s, some)
    <3>1. CASE q = "NS"
      <4>1. Services(c, segs, "NS") = NameServers(c, <<>>, "NS")
        BY ServicesOf, Zenon
      <4> QED
        BY <3>1, <4>1, Zenon
    <3>2. CASE q # "NS"
      <4>1. Services(c, segs, q) = NameServers(c, segs, q)
        <5>1. q \in QTypes \ {"TXT", "NS"} /\ isDefaultNS(segs)
          BY <1>1, <2>1, <3>2
        <5> HIDE DEF a
        <5> QED
          BY <5>1, ServicesOf, Zenon
      <4> QED
        BY <4>1, Zenon
    <3> QED
      BY <3>1, <3>2
  <2>3. Shaped(a) /\ a.err \in {"none", "panic"}
    BY <2>2, NameServersShaped
  <2> HIDE DEF a, b
  <2> QED
    BY <1>5, <1>6, <2>3
<1>7. ASSUME ~isDefaultNS(segs), t = "NS" => segs # <<>>
      PROVE  b.err = Records(c, segs).err
  <2>1. q # "NS"
    BY <1>7 DEF q, AskedAs
  <2>2. Shaped(a) /\ a.err = Records(c, segs).err
    <3>1. CASE q = "SRV"
      <4>1. a = [d EXCEPT !.recs = {x \in @ : x.host \in IPs}]
        BY <1>7, <3>1, ServicesOf, Zenon
      <4> HIDE DEF a, d
      <4> QED
        BY <1>3, <4>1, Kept DEF d
    <3>2. CASE q # "SRV"
      <4>1. q \in QTypes \ {"TXT", "NS", "SRV"}
        BY <1>1, <2>1, <3>2
      <4>2. a = d
        BY <1>7, <4>1, ServicesOf, Zenon
      <4> QED
        BY <1>3, <4>2, Zenon
    <3> QED
      BY <3>1, <3>2
  <2> HIDE DEF a, b
  <2> QED
    BY <1>4, <1>5, <1>7, <2>2
<1> QED
  BY <1>4, <1>6, <1>7 DEF b

\* Whether a name is there does not depend on the type of the query, for every cluster and
\* name, besides the exceptions that the property spells out (kubernetes.go:113-180,
\* handler.go:30-49, :63-109).
THEOREM NameErrorsAreForAllTypes == Spec => []NameErrorForAllTypes
<1>1. LookedUp => NameErrorForAllTypes
  <2> SUFFICES ASSUME NEW inZone \in BOOLEAN, NEW t \in QTypes \ {"TXT", "SOA"},
                      ~(isDefaultNS(name) /\ t = "PTR")
               PROVE  LET Denied(type) == ServeDNS(w, inZone, name, type) \in {"nxdomain", "next"}
                      IN  Denied(t) <=> Denied("A")
    BY Zenon DEF NameErrorForAllTypes
  <2>1. \A type : ServeDNS(w, inZone, name, type) \in {"nxdomain", "next"} <=>
                      IsNameError(getRecords(w, name, type))
    <3> SUFFICES ASSUME NEW type
                 PROVE  ServeDNS(w, inZone, name, type) \in {"nxdomain", "next"} <=>
                            IsNameError(getRecords(w, name, type))
      OBVIOUS
    <3> DEFINE a == getRecords(w, name, type)
    <3>1. ServeDNS(w, inZone, name, type) =
            CASE IsNameError(a) -> IF inZone THEN "nxdomain" ELSE "next"
              [] ~IsNameError(a) /\ a.err # "none" -> "servfail"
              [] a.err = "none" -> IF a.recs = {} THEN "nodata" ELSE "answer"
      BY Zenon DEF ServeDNS
    <3> HIDE DEF a
    <3> QED
      BY <3>1 DEF IsNameError, a
  <2>2. IsNameError(getRecords(w, name, t)) <=> IsNameError(getRecords(w, name, "A"))
    <3>1. CASE isDefaultNS(name)
      <4>1. getRecords(w, name, t).err \in {"none", "panic", "notaddress"}
        BY <3>1, ErrorOf
      <4>2. getRecords(w, name, "A").err \in {"none", "panic", "notaddress"}
        BY <3>1, ErrorOf DEF QTypes
      <4> QED
        BY <4>1, <4>2 DEF IsNameError
    <3>2. CASE t = "NS" /\ name = <<>>
      <4>1. getRecords(w, name, t).err \in {"none", "panic", "notaddress"}
        BY <3>2, ErrorOf
      <4>2. getRecords(w, name, "A").err = Records(w, <<>>).err
        BY <3>2, ErrorOf DEF QTypes, isDefaultNS
      <4>3. Records(w, <<>>) = NoData
        <5>1. parseRequest(<<>>) = NoRequest
          BY Zenon DEF parseRequest
        <5>2. NoRequest.err = "none" /\ NoRequest.podOrSvc = Unset
          BY DEF NoRequest
        <5> QED
          BY <5>1, <5>2, RecordsOf, Zenon
      <4> QED
        BY <4>1, <4>2, <4>3 DEF IsNameError, NoData
    <3>3. CASE ~isDefaultNS(name) /\ (t = "NS" => name # <<>>)
      <4>1. getRecords(w, name, t).err = Records(w, name).err
        BY <3>3, ErrorOf
      <4>2. getRecords(w, name, "A").err = Records(w, name).err
        BY <3>3, ErrorOf DEF QTypes
      <4> QED
        BY <4>1, <4>2 DEF IsNameError
    <3> QED
      BY <3>1, <3>2, <3>3 DEF isDefaultNS
  <2> QED
    BY <2>1, <2>2
<1> QED
  BY <1>1, LookedUpInvariant, PTL

\* What an A and an SRV query find, of a name that is not ns.dns.
LEMMA QueryA ==
    ASSUME NEW c, NEW segs, ~isDefaultNS(segs)
    PROVE  getRecords(c, segs, "A").recs = Records(c, segs).recs
<1> DEFINE d == Records(c, segs)
           b == getRecords(c, segs, "A")
<1>1. "A" \in QTypes \ {"TXT", "SOA"} /\ AskedAs(segs, "A") = "A"
  BY DEF QTypes, AskedAs
<1>2. Services(c, segs, "A") = d
  <2>1. "A" \in QTypes \ {"TXT", "NS", "SRV"}
    BY DEF QTypes
  <2> QED
    BY <2>1, ServicesOf, Zenon
<1>3. b = [d EXCEPT !.recs = {x \in @ : TRUE}]
  BY <1>1, <1>2, GetRecords, SMT
<1>4. Shaped(d)
  BY RecordsShaped
<1> HIDE DEF b, d
<1>5. b.recs = {x \in d.recs : TRUE}
  BY <1>3, <1>4 DEF Shaped
<1>6. {x \in d.recs : TRUE} = d.recs
  OBVIOUS
<1> QED
  BY <1>5, <1>6 DEF b, d

LEMMA QuerySRV ==
    ASSUME NEW c, NEW segs, ~isDefaultNS(segs)
    PROVE  getRecords(c, segs, "SRV").recs =
               {x \in Records(c, segs).recs : x.host \in IPs /\ x.port # -1}
<1> DEFINE d == Records(c, segs)
           e == Services(c, segs, "SRV")
           b == getRecords(c, segs, "SRV")
<1>1. "SRV" \in QTypes \ {"TXT", "SOA"} /\ AskedAs(segs, "SRV") = "SRV"
  BY DEF QTypes, AskedAs
<1>2. e = [d EXCEPT !.recs = {x \in @ : x.host \in IPs}]
  BY ServicesOf, Zenon
<1>3. b = [e EXCEPT !.recs = {x \in @ : x.port # -1}]
  BY <1>1, GetRecords, SMT
<1>4. Shaped(d)
  BY RecordsShaped
<1> HIDE DEF b, d, e
<1>5. Shaped(e) /\ e.recs = {x \in d.recs : x.host \in IPs}
  BY <1>2, <1>4 DEF Shaped
<1>6. b.recs = {x \in e.recs : x.port # -1}
  BY <1>3, <1>5 DEF Shaped
<1> QED
  BY <1>5, <1>6 DEF b, d

EndpointsOf(c, s) == {x \in c.eps : x.name = s.name /\ x.ns = s.ns}

\* A service that its name does not hide.
Shown(c, s) ==
    \/ ~c.conf.ignoreEmpty \/ s.type # "cluster"
    \/ \E e \in EndpointsOf(c, s) : \E sub \in e.subsets : sub.addrs # {}

LEMMA ShownNotHidden ==
    ASSUME NEW c, NEW s, Shown(c, s), NEW r, r.service = s.name, r.ns = s.ns
    PROVE  ~HiddenAsEmpty(c, r, s)
  BY DEF Shown, EndpointsOf, HiddenAsEmpty

\* The records of a name that is about a service.
LEMMA Named ==
    ASSUME NEW c, Converted(c), NEW s \in c.svcs, Shown(c, s), namespaceExposed(c, s.ns),
           NEW n \in {3, 4, 5}, NEW S, NEW segs \in Seq(S), Len(segs) = n,
           segs[n] = "svc", segs[n - 1] = s.ns, segs[n - 2] = s.name,
           c.conf.endpoints \/ (s.type # "headless" /\ (c.conf.ignoreEmpty => s.type # "cluster") /\ n # 4)
    PROVE  LET r == parseRequest(segs) IN
           /\ r.endpoint = (IF n = 4 THEN segs[1] ELSE Unset)
           /\ r.port = (IF n = 5 THEN stripUnderscore(segs[1]) ELSE "*")
           /\ r.proto = (IF n = 5 THEN stripUnderscore(segs[2]) ELSE "*")
           /\ Records(c, segs).recs = ServiceRecords(c, r, s)
<1> DEFINE r == parseRequest(segs)
<1>1. Len(segs) \in 2 .. 5 /\ Len(segs) \in 3 .. 5 /\ Len(segs) > 2
  OBVIOUS
<1>2. /\ r.ns = s.ns /\ r.service = s.name
      /\ r.endpoint = (IF n = 4 THEN segs[1] ELSE Unset)
      /\ r.port = (IF n = 5 THEN stripUnderscore(segs[1]) ELSE "*")
      /\ r.proto = (IF n = 5 THEN stripUnderscore(segs[2]) ELSE "*")
  BY <1>1, ParseFields
<1> HIDE DEF r
<1>3. ~HiddenAsEmpty(c, r, s)
  BY <1>2, ShownNotHidden
<1>4. c.conf.endpoints \/ ~ReadsEndpoints(c, r, s)
  BY <1>2 DEF ReadsEndpoints
<1>5. Records(c, segs).recs = ServiceRecords(c, r, s)
  BY <1>1, <1>3, <1>4, ServiceAnswer DEF r
<1> QED
  BY <1>2, <1>5 DEF r

LEMMA NotEmpty ==
    ASSUME NEW c, Converted(c), NEW s, ~EmptyService(c, s)
    PROVE  /\ Shown(c, s)
           /\ c.conf.endpoints \/ (c.conf.ignoreEmpty => s.type # "cluster")
  BY DEF EmptyService, Shown, EndpointsOf, Converted

LEMMA ServiceByName ==
    ASSUME NEW c, Converted(c), NEW s \in c.svcs, Shown(c, s), namespaceExposed(c, s.ns),
           c.conf.endpoints \/ (s.type # "headless" /\ (c.conf.ignoreEmpty => s.type # "cluster"))
    PROVE  LET segs == <<s.name, s.ns, "svc">>
               r == parseRequest(segs) IN
           /\ ~isDefaultNS(segs)
           /\ r.endpoint = Unset /\ r.port = "*" /\ r.proto = "*"
           /\ Records(c, segs).recs = ServiceRecords(c, r, s)
<1> DEFINE S == {s.name, s.ns, "svc"}
           segs == <<s.name, s.ns, "svc">>
<1>1. segs \in Seq(S)
  BY Triple
<1>2. Len(segs) = 3 /\ segs[3] = "svc" /\ segs[2] = s.ns /\ segs[1] = s.name
  OBVIOUS
<1>3. ~isDefaultNS(segs)
  BY DEF isDefaultNS
<1> HIDE DEF segs, S
<1>4. PICK n \in {3, 4, 5} : n = 3 /\ n - 1 = 2 /\ n - 2 = 1 /\ n # 4 /\ n # 5
  OBVIOUS
<1>5. LET r == parseRequest(segs) IN
      /\ r.endpoint = (IF n = 4 THEN segs[1] ELSE Unset)
      /\ r.port = (IF n = 5 THEN stripUnderscore(segs[1]) ELSE "*")
      /\ r.proto = (IF n = 5 THEN stripUnderscore(segs[2]) ELSE "*")
      /\ Records(c, segs).recs = ServiceRecords(c, r, s)
  BY <1>1, <1>2, <1>4, Named
<1> QED
  BY <1>3, <1>4, <1>5 DEF segs

LEMMA EndpointByName ==
    ASSUME NEW c, Converted(c), NEW s \in c.svcs, Shown(c, s), namespaceExposed(c, s.ns),
           c.conf.endpoints, NEW h
    PROVE  LET segs == <<h, s.name, s.ns, "svc">>
               r == parseRequest(segs) IN
           /\ ~isDefaultNS(segs)
           /\ r.endpoint = h /\ r.port = "*" /\ r.proto = "*"
           /\ Records(c, segs).recs = ServiceRecords(c, r, s)
<1> DEFINE S == {h, s.name, s.ns, "svc"}
           segs == <<h, s.name, s.ns, "svc">>
<1>1. segs \in Seq(S)
  BY Quadruple
<1>2. Len(segs) = 4 /\ segs[4] = "svc" /\ segs[3] = s.ns /\ segs[2] = s.name /\ segs[1] = h
  OBVIOUS
<1>3. ~isDefaultNS(segs)
  BY DEF isDefaultNS
<1> HIDE DEF segs, S
<1>4. PICK n \in {3, 4, 5} : n = 4 /\ n - 1 = 3 /\ n - 2 = 2 /\ n # 5
  OBVIOUS
<1>5. LET r == parseRequest(segs) IN
      /\ r.endpoint = (IF n = 4 THEN segs[1] ELSE Unset)
      /\ r.port = (IF n = 5 THEN stripUnderscore(segs[1]) ELSE "*")
      /\ r.proto = (IF n = 5 THEN stripUnderscore(segs[2]) ELSE "*")
      /\ Records(c, segs).recs = ServiceRecords(c, r, s)
  BY <1>1, <1>2, <1>4, Named
<1> QED
  BY <1>2, <1>3, <1>4, <1>5 DEF segs

LEMMA PortByName ==
    ASSUME NEW c, Converted(c), NEW s \in c.svcs, Shown(c, s), namespaceExposed(c, s.ns),
           c.conf.endpoints \/ (s.type # "headless" /\ (c.conf.ignoreEmpty => s.type # "cluster")),
           NEW g, NEW h
    PROVE  LET segs == <<g, h, s.name, s.ns, "svc">>
               r == parseRequest(segs) IN
           /\ ~isDefaultNS(segs)
           /\ r.endpoint = Unset /\ r.port = stripUnderscore(g) /\ r.proto = stripUnderscore(h)
           /\ Records(c, segs).recs = ServiceRecords(c, r, s)
<1> DEFINE S == {g, h, s.name, s.ns, "svc"}
           segs == <<g, h, s.name, s.ns, "svc">>
<1>1. segs \in Seq(S)
  BY Quintuple
<1>2. /\ Len(segs) = 5 /\ segs[5] = "svc" /\ segs[4] = s.ns /\ segs[3] = s.name
      /\ segs[2] = h /\ segs[1] = g
  OBVIOUS
<1>3. ~isDefaultNS(segs)
  BY DEF isDefaultNS
<1> HIDE DEF segs, S
<1>4. PICK n \in {3, 4, 5} : n = 5 /\ n - 1 = 4 /\ n - 2 = 3 /\ n # 4
  OBVIOUS
<1>5. LET r == parseRequest(segs) IN
      /\ r.endpoint = (IF n = 4 THEN segs[1] ELSE Unset)
      /\ r.port = (IF n = 5 THEN stripUnderscore(segs[1]) ELSE "*")
      /\ r.proto = (IF n = 5 THEN stripUnderscore(segs[2]) ELSE "*")
      /\ Records(c, segs).recs = ServiceRecords(c, r, s)
  BY <1>1, <1>2, <1>4, Named
<1> QED
  BY <1>2, <1>3, <1>4, <1>5 DEF segs

-----------------------------------------------------------------------------
(* Transfers                                                               *)

\* What a transfer sends of one subset of a headless service's endpoints.
SubsetSent(c, s, sub) ==
    LET base == <<s.name, s.ns, "svc">>
    IN  {[name |-> base, type |-> "A", data |-> a.ip] : a \in sub.addrs}
        \cup {[name |-> <<endpointHostname(c, a), s.name, s.ns, "svc">>, type |-> "A",
               data |-> a.ip] : a \in sub.addrs}
        \cup {[name |-> <<Underscored(p.name), Underscored(p.proto), s.name, s.ns, "svc">>,
               type |-> "SRV", data |-> p.num] :
                 p \in {q \in sub.ports : q.name # Unset /\ sub.addrs # {}}}

LEMMA HeadlessSent ==
    ASSUME NEW c, NEW s, NEW x
    PROVE  x \in TransferOfHeadless(c, s) <=>
               \E e \in EndpointsOf(c, s) : \E sub \in e.subsets : x \in SubsetSent(c, s, sub)
<1> DEFINE subs == UNION {e.subsets : e \in EndpointsOf(c, s)}
<1>1. TransferOfHeadless(c, s) = UNION {SubsetSent(c, s, sub) : sub \in subs}
  BY Zenon DEF TransferOfHeadless, SubsetSent, EndpointsOf
<1> QED
  BY <1>1

\* Without pod names the label of an address is in what subsetsEquivalent compares.
LEMMA HostnameCompared ==
    ASSUME NEW c, NEW d, ~c.conf.podNames, ~d.conf.podNames,
           NEW a, NEW b, a.ip = b.ip, a.hostname = b.hostname
    PROVE  endpointHostname(c, a) = endpointHostname(d, b)
<1>1. endpointHostname(c, a) = IF a.hostname # Unset THEN a.hostname ELSE Dash[a.ip]
  BY DEF endpointHostname
<1>2. endpointHostname(d, b) = IF b.hostname # Unset THEN b.hostname ELSE Dash[b.ip]
  BY DEF endpointHostname
<1> QED
  BY <1>1, <1>2

LEMMA SameSent ==
    ASSUME NEW c, NEW d, ~c.conf.podNames, ~d.conf.podNames,
           NEW s, NEW sub, NEW tub, Compared(sub) = Compared(tub)
    PROVE  SubsetSent(c, s, sub) \subseteq SubsetSent(d, s, tub)
<1>1. /\ {[ip |-> a.ip, hostname |-> a.hostname] : a \in sub.addrs} =
            {[ip |-> a.ip, hostname |-> a.hostname] : a \in tub.addrs}
      /\ sub.ports = tub.ports
  BY DEF Compared
<1>2. ASSUME NEW a \in sub.addrs
      PROVE  \E b \in tub.addrs : b.ip = a.ip /\ b.hostname = a.hostname
  <2>1. [ip |-> a.ip, hostname |-> a.hostname] \in
            {[ip |-> b.ip, hostname |-> b.hostname] : b \in tub.addrs}
    BY <1>1
  <2>2. PICK b \in tub.addrs :
            [ip |-> a.ip, hostname |-> a.hostname] = [ip |-> b.ip, hostname |-> b.hostname]
    BY <2>1
  <2>3. b.ip = a.ip /\ b.hostname = a.hostname
    BY <2>2
  <2> QED
    BY <2>3
<1> DEFINE base == <<s.name, s.ns, "svc">>
           P(p) == [name |-> <<Underscored(p.name), Underscored(p.proto), s.name, s.ns, "svc">>,
                    type |-> "SRV", data |-> p.num]
           H(e, a) == [name |-> <<endpointHostname(e, a), s.name, s.ns, "svc">>, type |-> "A",
                       data |-> a.ip]
           B(a) == [name |-> base, type |-> "A", data |-> a.ip]
<1>3. \A e, u : SubsetSent(e, s, u) =
          {B(a) : a \in u.addrs} \cup {H(e, a) : a \in u.addrs}
          \cup {P(p) : p \in {q \in u.ports : q.name # Unset /\ u.addrs # {}}}
  BY Zenon DEF SubsetSent
<1>4. ASSUME NEW a \in sub.addrs
      PROVE  \E b \in tub.addrs : B(a) = B(b) /\ H(c, a) = H(d, b)
  <2>1. PICK b \in tub.addrs : b.ip = a.ip /\ b.hostname = a.hostname
    BY <1>2
  <2>2. endpointHostname(c, a) = endpointHostname(d, b)
    BY <2>1, HostnameCompared
  <2> QED
    BY <2>1, <2>2, Zenon
<1>5. sub.addrs # {} => tub.addrs # {}
  BY <1>2
<1> HIDE DEF B, H, P, base
<1>6. ASSUME NEW x \in SubsetSent(c, s, sub) PROVE x \in SubsetSent(d, s, tub)
  <2>1. CASE x \in {B(a) : a \in sub.addrs}
    BY <1>3, <1>4, <2>1
  <2>2. CASE x \in {H(c, a) : a \in sub.addrs}
    BY <1>3, <1>4, <2>2
  <2>3. CASE x \in {P(p) : p \in {q \in sub.ports : q.name # Unset /\ sub.addrs # {}}}
    BY <1>1, <1>3, <1>5, <2>3
  <2> QED
    BY <1>3, <1>6, <2>1, <2>2, <2>3
<1> QED
  BY <1>6

LEMMA Sent ==
    ASSUME NEW c, NEW x
    PROVE  x \in transfer(c) <=>
               \E s \in c.svcs : namespaceExposed(c, s.ns) /\ x \in TransferOf(c, s)
  BY DEF transfer

LEMMA SentMonotone ==
    ASSUME NEW c, NEW d, c.svcs = d.svcs, c.nss = d.nss, c.conf = d.conf, ~c.conf.podNames,
           \A s \in c.svcs : s.type \in {"cluster", "headless", "external"},
           \A e \in c.eps : \A sub \in e.subsets :
               \E f \in d.eps : /\ f.name = e.name /\ f.ns = e.ns
                                /\ \E tub \in f.subsets : Compared(sub) = Compared(tub)
    PROVE  transfer(c) \subseteq transfer(d)
<1> SUFFICES ASSUME NEW x \in transfer(c) PROVE x \in transfer(d)
  OBVIOUS
<1>1. PICK s \in c.svcs : namespaceExposed(c, s.ns) /\ x \in TransferOf(c, s)
  BY Sent
<1>2. namespaceExposed(d, s.ns)
  BY <1>1 DEF namespaceExposed, configuredNamespace
<1>3. CASE s.type = "headless"
  <2>1. PICK e \in EndpointsOf(c, s) : \E sub \in e.subsets : x \in SubsetSent(c, s, sub)
    BY <1>1, <1>3, HeadlessSent DEF TransferOf
  <2>2. PICK sub \in e.subsets : x \in SubsetSent(c, s, sub)
    BY <2>1
  <2>3. PICK f \in d.eps : /\ f.name = e.name /\ f.ns = e.ns
                           /\ \E tub \in f.subsets : Compared(sub) = Compared(tub)
    BY <2>1, <2>2 DEF EndpointsOf
  <2>4. PICK tub \in f.subsets : Compared(sub) = Compared(tub)
    BY <2>3
  <2>5. x \in SubsetSent(d, s, tub)
    BY <2>2, <2>4, SameSent
  <2>6. f \in EndpointsOf(d, s)
    BY <2>1, <2>3 DEF EndpointsOf
  <2>7. x \in TransferOfHeadless(d, s)
    BY <2>4, <2>5, <2>6, HeadlessSent
  <2>8. x \in TransferOf(d, s)
    BY <1>3, <2>7 DEF TransferOf
  <2> QED
    BY <1>2, <2>8, Sent
<1>4. CASE s.type # "headless"
  <2>1. TransferOf(d, s) = TransferOf(c, s)
    BY <1>1, <1>4 DEF TransferOf
  <2> QED
    BY <1>1, <1>2, <2>1, Sent
<1> QED
  BY <1>3, <1>4

\* An update of endpoints that does not move the serial does not change the zone, for every
\* cluster and every update: what endpointsEquivalent compares determines what is sent
\* (controller.go:436, :451-508 against xfr.go:98-188).
THEOREM EquivalentUpdatesKeepZone == Spec => []EquivalentMeansSameZone
<1>1. LookedUp => EquivalentMeansSameZone
  <2> SUFFICES ASSUME Converted(w), ~w.conf.podNames, NEW old \in w.eps, NEW new \in Revisions,
                      old.name = new.name, old.ns = new.ns, endpointsEquivalent(old, new)
               PROVE  transfer([w EXCEPT !.eps = (@ \ {old}) \cup {new}]) = transfer(w)
    BY DEF EquivalentMeansSameZone, LookedUp
  <2> DEFINE d == [w EXCEPT !.eps = (@ \ {old}) \cup {new}]
  <2>1. d.eps = (w.eps \ {old}) \cup {new}
    BY DEF Converted
  <2>2. d.svcs = w.svcs /\ d.nss = w.nss /\ d.conf = w.conf
    BY DEF Converted
  <2> HIDE DEF d
  <2>3. \A s \in w.svcs : s.type \in {"cluster", "headless", "external"}
    BY DEF Converted, CachedService
  <2>4. /\ \A sub \in old.subsets : \E tub \in new.subsets : Compared(sub) = Compared(tub)
        /\ \A sub \in new.subsets : \E tub \in old.subsets : Compared(sub) = Compared(tub)
    BY DEF endpointsEquivalent
  <2>5. ASSUME NEW e \in w.eps, NEW sub \in e.subsets
        PROVE  \E f \in d.eps : /\ f.name = e.name /\ f.ns = e.ns
                                /\ \E tub \in f.subsets : Compared(sub) = Compared(tub)
    <3>1. CASE e = old
      BY <2>1, <2>4, <2>5, <3>1
    <3>2. CASE e # old
      BY <2>1, <2>5, <3>2
    <3> QED
      BY <3>1, <3>2
  <2>6. ASSUME NEW e \in d.eps, NEW sub \in e.subsets
        PROVE  \E f \in w.eps : /\ f.name = e.name /\ f.ns = e.ns
                                /\ \E tub \in f.subsets : Compared(sub) = Compared(tub)
    <3>1. CASE e = new
      BY <2>4, <2>6, <3>1
    <3>2. CASE e # new
      BY <2>1, <2>6, <3>2
    <3> QED
      BY <3>1, <3>2
  <2>7. transfer(w) \subseteq transfer(d)
    BY <2>2, <2>3, <2>5, SentMonotone
  <2>8. transfer(d) \subseteq transfer(w)
    BY <2>2, <2>3, <2>6, SentMonotone
  <2> QED
    BY <2>7, <2>8 DEF d
<1> QED
  BY <1>1, LookedUpInvariant, PTL

-----------------------------------------------------------------------------
(* The records of a service                                                *)

LEMMA ClusterRecord ==
    ASSUME NEW c, NEW r, NEW s, s.type = "cluster", r.endpoint = Unset,
           NEW p \in s.ports, match(r.port, p.name), match(r.proto, p.proto)
    PROVE  [host |-> s.host, port |-> p.num, key |-> <<s.name, s.ns>>] \in ServiceRecords(c, r, s)
<1>1. ServiceRecords(c, r, s) =
          {[host |-> s.host, port |-> q.num, key |-> <<s.name, s.ns>>] :
              q \in {u \in s.ports : match(r.port, u.name) /\ match(r.proto, u.proto)}}
  BY DEF ServiceRecords
<1>2. p \in {u \in s.ports : match(r.port, u.name) /\ match(r.proto, u.proto)}
  OBVIOUS
<1> QED
  BY <1>1, <1>2, Zenon

LEMMA EndpointRecord ==
    ASSUME NEW c, NEW r, NEW s, s.type = "headless" \/ r.endpoint # Unset,
           NEW e \in EndpointsOf(c, s), NEW sub \in e.subsets, NEW a \in sub.addrs,
           r.endpoint # Unset => match(r.endpoint, endpointHostname(c, a)),
           NEW p \in sub.ports, match(r.port, p.name), match(r.proto, p.proto)
    PROVE  [host |-> a.ip, port |-> p.num, key |-> <<endpointHostname(c, a), s.name, s.ns>>]
               \in ServiceRecords(c, r, s)
<1> DEFINE As(u) == {x \in u.addrs : r.endpoint # Unset => match(r.endpoint, endpointHostname(c, x))}
           Ps(u) == {q \in u.ports : match(r.port, q.name) /\ match(r.proto, q.proto)}
           R(x, q) == [host |-> x.ip, port |-> q.num, key |-> <<endpointHostname(c, x), s.name, s.ns>>]
           Of(u) == {R(x, q) : x \in As(u), q \in Ps(u)}
<1>1. ServiceRecords(c, r, s) = EndpointRecords(c, r, s)
  BY DEF ServiceRecords
<1>2. EndpointRecords(c, r, s) = UNION {UNION {Of(u) : u \in f.subsets} : f \in EndpointsOf(c, s)}
  BY DEF EndpointRecords, EndpointsOf
<1>3. a \in As(sub) /\ p \in Ps(sub)
  OBVIOUS
<1> HIDE DEF As, Ps, R
<1>4. R(a, p) \in Of(sub)
  BY <1>3
<1> HIDE DEF Of
<1>5. R(a, p) \in EndpointRecords(c, r, s)
  BY <1>2, <1>4
<1> QED
  BY <1>1, <1>5 DEF R

\* What EndpointRecord adds is all there is.
LEMMA EndpointRecordOf ==
    ASSUME NEW c, NEW r, NEW s, s.type = "headless" \/ r.endpoint # Unset,
           NEW x \in ServiceRecords(c, r, s)
    PROVE  \E e \in EndpointsOf(c, s) : \E sub \in e.subsets : \E a \in sub.addrs : \E p \in sub.ports :
               /\ r.endpoint # Unset => match(r.endpoint, endpointHostname(c, a))
               /\ match(r.port, p.name) /\ match(r.proto, p.proto)
               /\ x = [host |-> a.ip, port |-> p.num, key |-> <<endpointHostname(c, a), s.name, s.ns>>]
<1> DEFINE As(u) == {z \in u.addrs : r.endpoint # Unset => match(r.endpoint, endpointHostname(c, z))}
           Ps(u) == {q \in u.ports : match(r.port, q.name) /\ match(r.proto, q.proto)}
           R(z, q) == [host |-> z.ip, port |-> q.num, key |-> <<endpointHostname(c, z), s.name, s.ns>>]
           Of(u) == {R(z, q) : z \in As(u), q \in Ps(u)}
<1>1. ServiceRecords(c, r, s) = EndpointRecords(c, r, s)
  BY DEF ServiceRecords
<1>2. EndpointRecords(c, r, s) = UNION {UNION {Of(u) : u \in f.subsets} : f \in EndpointsOf(c, s)}
  BY DEF EndpointRecords, EndpointsOf
<1> HIDE DEF Of
<1>3. PICK e \in EndpointsOf(c, s) : \E u \in e.subsets : x \in Of(u)
  BY <1>1, <1>2
<1>4. PICK sub \in e.subsets : x \in Of(sub)
  BY <1>3
<1> USE DEF Of
<1> HIDE DEF As, Ps, R
<1>5. PICK a \in As(sub), p \in Ps(sub) : x = R(a, p)
  BY <1>4
<1>6. /\ a \in sub.addrs /\ p \in sub.ports
      /\ r.endpoint # Unset => match(r.endpoint, endpointHostname(c, a))
      /\ match(r.port, p.name) /\ match(r.proto, p.proto)
  BY <1>5 DEF As, Ps
<1>7. x = [host |-> a.ip, port |-> p.num, key |-> <<endpointHostname(c, a), s.name, s.ns>>]
  BY <1>5 DEF R
<1> QED
  BY <1>3, <1>4, <1>6, <1>7

LEMMA AliasRecord ==
    ASSUME NEW c, NEW r, NEW s, s.type = "external", r.endpoint = Unset, s.host \notin IPs
    PROVE  [host |-> s.host, port |-> 0, key |-> <<s.name, s.ns>>] \in ServiceRecords(c, r, s)
<1>1. ServiceRecords(c, r, s) =
          {[host |-> h, port |-> 0, key |-> <<s.name, s.ns>>] : h \in {s.host} \ IPs}
  BY DEF ServiceRecords
<1>2. s.host \in {s.host} \ IPs
  OBVIOUS
<1> QED
  BY <1>1, <1>2, Zenon

LEMMA AnyPort == ASSUME NEW a PROVE match("*", a)
  BY DEF match, wildcard

LEMMA OwnLabel == ASSUME NEW a PROVE match(a, a)
  BY DEF match

\* Underscores that a transfer adds to a port are stripped when its name is looked up.
LEMMA UnderscoreStripped ==
    ASSUME NEW p \in Ports
    PROVE  /\ stripUnderscore(Underscored(p.name)) = p.name
           /\ stripUnderscore(Underscored(p.proto)) = p.proto
  BY DEF Ports, stripUnderscore, Underscored

\* Each record that a transfer sends is what the lookup of its name gives.
Served(c, x) ==
    LET a == getRecords(c, x.name, IF x.type = "SRV" THEN "SRV" ELSE "A")
    IN  IF x.type = "SRV" THEN \E rec \in a.recs : rec.port = x.data ELSE x.data \in Hosts(a)

LEMMA ServedAddress ==
    ASSUME NEW c, NEW x, x.type # "SRV", ~isDefaultNS(x.name),
           NEW rec \in Records(c, x.name).recs, rec.host = x.data
    PROVE  Served(c, x)
<1>1. getRecords(c, x.name, "A").recs = Records(c, x.name).recs
  BY QueryA
<1> QED
  BY <1>1 DEF Served, Hosts

LEMMA ServedPort ==
    ASSUME NEW c, NEW x, x.type = "SRV", ~isDefaultNS(x.name),
           NEW rec \in Records(c, x.name).recs, rec.port = x.data, rec.port # -1, rec.host \in IPs
    PROVE  Served(c, x)
<1>1. getRecords(c, x.name, "SRV").recs =
          {y \in Records(c, x.name).recs : y.host \in IPs /\ y.port # -1}
  BY QuerySRV
<1>2. rec \in getRecords(c, x.name, "SRV").recs
  BY <1>1
<1> QED
  BY <1>2, Zenon DEF Served

LEMMA ClusterServed ==
    ASSUME NEW c, Converted(c), NEW s \in c.svcs, ~EmptyService(c, s), s.type = "cluster",
           namespaceExposed(c, s.ns), NEW x \in TransferOfCluster(s),
           x.type = "SRV" => x.data # 65535
    PROVE  Served(c, x)
<1> DEFINE base == <<s.name, s.ns, "svc">>
           r == parseRequest(base)
<1>1. Shown(c, s) /\ (c.conf.endpoints \/ (s.type # "headless" /\ (c.conf.ignoreEmpty => s.type # "cluster")))
  BY NotEmpty
<1>2. /\ s.host \in IPs /\ s.ports # {} /\ s.ports \subseteq Ports \cup {Sentinel}
  BY DEF Converted, CachedService
<1>3. /\ ~isDefaultNS(base) /\ r.endpoint = Unset /\ r.port = "*" /\ r.proto = "*"
      /\ Records(c, base).recs = ServiceRecords(c, r, s)
  BY <1>1, ServiceByName
<1>4. ASSUME NEW p \in s.ports
      PROVE  [host |-> s.host, port |-> p.num, key |-> <<s.name, s.ns>>] \in Records(c, base).recs
  <2> HIDE DEF r, base
  <2>1. match(r.port, p.name) /\ match(r.proto, p.proto)
    BY <1>3 DEF match, wildcard
  <2>2. r.endpoint = Unset
    BY <1>3
  <2>3. [host |-> s.host, port |-> p.num, key |-> <<s.name, s.ns>>] \in ServiceRecords(c, r, s)
    BY <2>1, <2>2, ClusterRecord DEF match, wildcard
  <2> QED
    BY <1>3, <2>3
<1>5. ASSUME NEW p \in s.ports, p.num % 65536 # 65535
      PROVE  p \in Ports /\ p.num % 65536 = p.num /\ p.num # -1
  <2>1. p # Sentinel
    BY <1>5 DEF Sentinel
  <2>2. p \in Ports
    BY <1>2, <2>1
  <2>3. p.num \in Nat /\ p.num < 65536
    BY <2>2 DEF Ports
  <2>4. p.num % 65536 = p.num /\ p.num # -1
    BY <2>3
  <2> QED
    BY <2>2, <2>4
<1>6. CASE x = [name |-> base, type |-> "A", data |-> s.host]
  <2>1. PICK p : p \in s.ports
    BY <1>2
  <2> DEFINE rec == [host |-> s.host, port |-> p.num, key |-> <<s.name, s.ns>>]
  <2>2. rec \in Records(c, base).recs /\ rec.host = s.host
    BY <1>4, <2>1
  <2>3. x.name = base /\ x.type # "SRV" /\ x.data = s.host
    BY <1>6
  <2> HIDE DEF rec, base
  <2> QED
    BY <1>3, <2>2, <2>3, ServedAddress
<1>7. CASE x \in {[name |-> base, type |-> "SRV", data |-> p.num % 65536] : p \in s.ports}
  <2>1. PICK p \in s.ports : x = [name |-> base, type |-> "SRV", data |-> p.num % 65536]
    BY <1>7
  <2>2. x.name = base /\ x.type = "SRV" /\ x.data = p.num % 65536
    BY <2>1
  <2>3. p.num = x.data /\ p.num # -1
    BY <1>5, <2>2
  <2> DEFINE rec == [host |-> s.host, port |-> p.num, key |-> <<s.name, s.ns>>]
  <2>4. rec \in Records(c, base).recs /\ rec.host = s.host /\ rec.port = p.num
    BY <1>4
  <2> HIDE DEF rec, base
  <2> QED
    BY <1>2, <1>3, <2>2, <2>3, <2>4, ServedPort
<1>8. CASE x \in {[name |-> <<Underscored(p.name), Underscored(p.proto), s.name, s.ns, "svc">>,
                   type |-> "SRV", data |-> p.num % 65536] : p \in {q \in s.ports : q.name # Unset}}
  <2>1. PICK p \in s.ports :
            x = [name |-> <<Underscored(p.name), Underscored(p.proto), s.name, s.ns, "svc">>,
                 type |-> "SRV", data |-> p.num % 65536]
    BY <1>8
  <2> DEFINE segs == <<Underscored(p.name), Underscored(p.proto), s.name, s.ns, "svc">>
             q == parseRequest(segs)
  <2>2. x.name = segs /\ x.type = "SRV" /\ x.data = p.num % 65536
    BY <2>1
  <2>3. p \in Ports /\ p.num = x.data /\ p.num # -1
    BY <1>5, <2>2
  <2>4. /\ ~isDefaultNS(segs) /\ q.endpoint = Unset
        /\ q.port = stripUnderscore(Underscored(p.name))
        /\ q.proto = stripUnderscore(Underscored(p.proto))
        /\ Records(c, segs).recs = ServiceRecords(c, q, s)
    BY <1>1, PortByName
  <2> HIDE DEF q, segs
  <2>5. match(q.port, p.name) /\ match(q.proto, p.proto)
    BY <2>3, <2>4, UnderscoreStripped DEF match
  <2> DEFINE rec == [host |-> s.host, port |-> p.num, key |-> <<s.name, s.ns>>]
  <2>6. rec \in Records(c, segs).recs
    <3>1. q.endpoint = Unset
      BY <2>4
    <3>2. rec \in ServiceRecords(c, q, s)
      BY <2>5, <3>1, ClusterRecord DEF match, wildcard
    <3> QED
      BY <2>4, <3>2
  <2>7. rec.host = s.host /\ rec.port = p.num
    OBVIOUS
  <2> HIDE DEF rec
  <2> QED
    BY <1>2, <2>2, <2>3, <2>4, <2>6, <2>7, ServedPort
<1> QED
  BY <1>6, <1>7, <1>8 DEF TransferOfCluster

LEMMA HeadlessServed ==
    ASSUME NEW c, Converted(c), c.conf.endpoints, NEW s \in c.svcs, s.type = "headless",
           namespaceExposed(c, s.ns), NEW x \in TransferOfHeadless(c, s)
    PROVE  Served(c, x)
<1> DEFINE base == <<s.name, s.ns, "svc">>
           r == parseRequest(base)
<1>1. Shown(c, s)
  BY DEF Shown
<1>2. PICK e \in EndpointsOf(c, s) : \E u \in e.subsets : x \in SubsetSent(c, s, u)
  BY HeadlessSent
<1>3. PICK sub \in e.subsets : x \in SubsetSent(c, s, sub)
  BY <1>2
<1>4. /\ \A a \in sub.addrs : a.ip \in IPs
      /\ sub.ports # {} /\ sub.ports \subseteq Ports \cup {Sentinel}
  BY <1>2, <1>3 DEF EndpointsOf, Converted, CachedSubset
<1> DEFINE Rec(a, p) == [host |-> a.ip, port |-> p.num, key |-> <<endpointHostname(c, a), s.name, s.ns>>]
<1>5. CASE x \in {[name |-> base, type |-> "A", data |-> a.ip] : a \in sub.addrs}
  <2>1. PICK a \in sub.addrs : x = [name |-> base, type |-> "A", data |-> a.ip]
    BY <1>5
  <2>2. x.name = base /\ x.type # "SRV" /\ x.data = a.ip
    BY <2>1
  <2>3. /\ ~isDefaultNS(base) /\ r.endpoint = Unset /\ r.port = "*" /\ r.proto = "*"
        /\ Records(c, base).recs = ServiceRecords(c, r, s)
    BY <1>1, ServiceByName
  <2>4. PICK p : p \in sub.ports
    BY <1>4
  <2> HIDE DEF r, base
  <2>5. Rec(a, p) \in ServiceRecords(c, r, s)
    BY <1>2, <1>3, <2>3, <2>4, EndpointRecord DEF match, wildcard
  <2>6. Rec(a, p).host = a.ip
    OBVIOUS
  <2> HIDE DEF Rec
  <2> QED
    BY <2>2, <2>3, <2>5, <2>6, ServedAddress
<1>6. CASE x \in {[name |-> <<endpointHostname(c, a), s.name, s.ns, "svc">>, type |-> "A",
                   data |-> a.ip] : a \in sub.addrs}
  <2>1. PICK a \in sub.addrs :
            x = [name |-> <<endpointHostname(c, a), s.name, s.ns, "svc">>, type |-> "A", data |-> a.ip]
    BY <1>6
  <2> DEFINE segs == <<endpointHostname(c, a), s.name, s.ns, "svc">>
             q == parseRequest(segs)
  <2>2. x.name = segs /\ x.type # "SRV" /\ x.data = a.ip
    BY <2>1
  <2>3. /\ ~isDefaultNS(segs) /\ q.endpoint = endpointHostname(c, a)
        /\ q.port = "*" /\ q.proto = "*"
        /\ Records(c, segs).recs = ServiceRecords(c, q, s)
    BY <1>1, EndpointByName
  <2>4. PICK p : p \in sub.ports
    BY <1>4
  <2> HIDE DEF q, segs
  <2>5. Rec(a, p) \in ServiceRecords(c, q, s)
    BY <1>2, <1>3, <2>3, <2>4, EndpointRecord DEF match, wildcard
  <2>6. Rec(a, p).host = a.ip
    OBVIOUS
  <2> HIDE DEF Rec
  <2> QED
    BY <2>2, <2>3, <2>5, <2>6, ServedAddress
<1>7. CASE x \in {[name |-> <<Underscored(p.name), Underscored(p.proto), s.name, s.ns, "svc">>,
                   type |-> "SRV", data |-> p.num] :
                      p \in {q \in sub.ports : q.name # Unset /\ sub.addrs # {}}}
  <2>1. PICK p \in {q \in sub.ports : q.name # Unset /\ sub.addrs # {}} :
            x = [name |-> <<Underscored(p.name), Underscored(p.proto), s.name, s.ns, "svc">>,
                 type |-> "SRV", data |-> p.num]
    BY <1>7
  <2> DEFINE segs == <<Underscored(p.name), Underscored(p.proto), s.name, s.ns, "svc">>
             q == parseRequest(segs)
  <2>2. x.name = segs /\ x.type = "SRV" /\ x.data = p.num
    BY <2>1
  <2>3. p \in Ports
    BY <1>4, <2>1 DEF Sentinel
  <2>4. p.num # -1
    BY <2>3 DEF Ports
  <2>5. /\ ~isDefaultNS(segs) /\ q.endpoint = Unset
        /\ q.port = stripUnderscore(Underscored(p.name))
        /\ q.proto = stripUnderscore(Underscored(p.proto))
        /\ Records(c, segs).recs = ServiceRecords(c, q, s)
    BY <1>1, PortByName
  <2>6. q.port = p.name /\ q.proto = p.proto
    BY <2>3, <2>5, UnderscoreStripped
  <2>7. PICK a : a \in sub.addrs
    BY <2>1
  <2> HIDE DEF q, segs
  <2>8. Rec(a, p) \in ServiceRecords(c, q, s)
    BY <1>2, <1>3, <2>1, <2>5, <2>6, <2>7, EndpointRecord DEF match, wildcard
  <2>9. Rec(a, p).host \in IPs /\ Rec(a, p).port = p.num
    BY <1>4, <2>7
  <2> HIDE DEF Rec
  <2> QED
    BY <2>2, <2>4, <2>5, <2>8, <2>9, ServedPort
<1> QED
  BY <1>3, <1>5, <1>6, <1>7 DEF SubsetSent

\* What a secondary is sent is what the primary answers, for every cluster: each address,
\* alias and port that a transfer sends of a service is found by the lookup of its name,
\* besides the cases that the property leaves out: a service that ignore empty_service
\* hides, which is sent and not found, the port of a service that has none, and a transfer
\* that panics (xfr.go:98-188 against kubernetes.go:411-541).
THEOREM TransfersAreServed == Spec => []TransferIsServed
<1>1. LookedUp => TransferIsServed
  <2> SUFFICES ASSUME Converted(w), ~TransferPanics(w), NEW s \in w.svcs,
                      namespaceExposed(w, s.ns), ~EmptyService(w, s),
                      NEW x \in TransferOf(w, s), x.type = "SRV" => x.data # 65535
               PROVE  Served(w, x)
    <3>1. (Converted(w) /\ ~TransferPanics(w) =>
              \A s \in w.svcs : namespaceExposed(w, s.ns) /\ ~EmptyService(w, s) =>
                  \A x \in {y \in TransferOf(w, s) : y.type = "SRV" => y.data # 65535} : Served(w, x))
          => (Converted(w) => TransferIsServed)
      BY SMT DEF TransferIsServed, Served
    <3> QED
      BY <3>1 DEF LookedUp
  <2>2. s.type \in {"cluster", "headless", "external"}
    BY DEF Converted, CachedService
  <2>3. CASE s.type = "cluster"
    BY <2>3, ClusterServed DEF TransferOf
  <2>4. CASE s.type = "headless"
    <3>1. w.conf.endpoints
      BY <2>4 DEF TransferPanics
    <3> QED
      BY <2>4, <3>1, HeadlessServed DEF TransferOf
  <2>5. CASE s.type = "external"
    <3> DEFINE base == <<s.name, s.ns, "svc">>
               r == parseRequest(base)
    <3>1. x \in {[name |-> base, type |-> "CNAME", data |-> h] : h \in {s.host} \ IPs}
      BY <2>5 DEF TransferOf
    <3>2. s.host \notin IPs /\ x.name = base /\ x.type # "SRV" /\ x.data = s.host
      BY <3>1
    <3>3. /\ ~isDefaultNS(base) /\ r.endpoint = Unset
          /\ Records(w, base).recs = ServiceRecords(w, r, s)
      BY <2>5, ServiceByName DEF Shown
    <3> HIDE DEF base, r
    <3> DEFINE rec == [host |-> s.host, port |-> 0, key |-> <<s.name, s.ns>>]
    <3>4. rec \in ServiceRecords(w, r, s)
      BY <2>5, <3>2, <3>3, AliasRecord
    <3>5. rec.host = s.host
      OBVIOUS
    <3> HIDE DEF rec
    <3> QED
      BY <3>2, <3>3, <3>4, <3>5, ServedAddress
  <2> QED
    BY <2>2, <2>3, <2>4, <2>5
<1> QED
  BY <1>1, LookedUpInvariant, PTL

-----------------------------------------------------------------------------
(* Reverse lookups, name servers and external names                        *)

\* An address always has a label (kubernetes.go, endpointHostname).
LEMMA LabelGiven ==
    ASSUME NEW c, NEW a, a.ip \in IPs PROVE endpointHostname(c, a) # Unset
<1>1. Dash[a.ip] # Unset
  BY AddressAssumption DEF Label
<1> QED
  BY <1>1 DEF endpointHostname

\* The label of an address leads to its record, whatever the type of the service.
LEMMA EndpointFound ==
    ASSUME NEW c, Converted(c), NEW s \in c.svcs, Shown(c, s), namespaceExposed(c, s.ns),
           NEW e \in EndpointsOf(c, s), NEW sub \in e.subsets, NEW a \in sub.addrs
    PROVE  LET segs == <<endpointHostname(c, a), s.name, s.ns, "svc">> IN
           ~isDefaultNS(segs) /\ a.ip \in Hosts(Records(c, segs))
<1> DEFINE segs == <<endpointHostname(c, a), s.name, s.ns, "svc">>
           r == parseRequest(segs)
<1>1. c.conf.endpoints /\ a.ip \in IPs /\ sub.ports # {}
  BY DEF EndpointsOf, Converted, CachedSubset
<1>2. /\ ~isDefaultNS(segs) /\ r.endpoint = endpointHostname(c, a)
      /\ r.port = "*" /\ r.proto = "*"
      /\ Records(c, segs).recs = ServiceRecords(c, r, s)
  BY <1>1, EndpointByName
<1>3. PICK p : p \in sub.ports
  BY <1>1
<1>4. endpointHostname(c, a) # Unset
  BY <1>1, LabelGiven
<1> HIDE DEF r, segs
<1> DEFINE rec == [host |-> a.ip, port |-> p.num, key |-> <<endpointHostname(c, a), s.name, s.ns>>]
<1>5. rec \in ServiceRecords(c, r, s)
  BY <1>2, <1>3, <1>4, EndpointRecord DEF match, wildcard
<1>6. rec.host = a.ip
  OBVIOUS
<1> HIDE DEF rec
<1> QED
  BY <1>2, <1>5, <1>6 DEF Hosts, segs

\* A service with a ClusterIP that is not hidden is found by its name.
LEMMA ClusterFound ==
    ASSUME NEW c, Converted(c), NEW s \in c.svcs, Shown(c, s), namespaceExposed(c, s.ns),
           c.conf.endpoints \/ ~c.conf.ignoreEmpty, s.type = "cluster"
    PROVE  LET segs == <<s.name, s.ns, "svc">> IN
           ~isDefaultNS(segs) /\ s.host \in Hosts(Records(c, segs))
<1> DEFINE segs == <<s.name, s.ns, "svc">>
           r == parseRequest(segs)
<1>1. PICK p : p \in s.ports
  BY DEF Converted, CachedService
<1>2. /\ ~isDefaultNS(segs) /\ r.endpoint = Unset /\ r.port = "*" /\ r.proto = "*"
      /\ Records(c, segs).recs = ServiceRecords(c, r, s)
  BY ServiceByName
<1> HIDE DEF r, segs
<1> DEFINE rec == [host |-> s.host, port |-> p.num, key |-> <<s.name, s.ns>>]
<1>3. rec \in ServiceRecords(c, r, s)
  BY <1>1, <1>2, ClusterRecord DEF match, wildcard
<1>4. rec.host = s.host
  OBVIOUS
<1> HIDE DEF rec
<1> QED
  BY <1>2, <1>3, <1>4 DEF Hosts, segs

\* A service with a ClusterIP that is not hidden as empty is found by its name, for every
\* cluster, with and without the endpoints' informer: the conversion leaves no service without ports, and the wildcard of a name without ports matches each
\* (object/service.go:55-61, kubernetes.go:527-538).
THEOREM ClusterIPsResolve == Spec => []ClusterIPResolves
<1>1. LookedUp => ClusterIPResolves
  <2> SUFFICES ASSUME Converted(w), NEW s \in w.svcs, s.type = "cluster",
                      namespaceExposed(w, s.ns), ~EmptyService(w, s)
               PROVE  s.host \in Hosts(getRecords(w, <<s.name, s.ns, "svc">>, "A"))
    BY DEF ClusterIPResolves, LookedUp
  <2> DEFINE segs == <<s.name, s.ns, "svc">>
  <2>1. ~isDefaultNS(segs) /\ s.host \in Hosts(Records(w, segs))
    BY NotEmpty, ClusterFound
  <2>2. getRecords(w, segs, "A").recs = Records(w, segs).recs
    BY <2>1, QueryA
  <2> QED
    BY <2>1, <2>2 DEF Hosts
<1> QED
  BY <1>1, LookedUpInvariant, PTL

\* A reverse lookup leads back to the address, for every cluster and address: a ClusterIP
\* by the name of its service, an endpoint by its label (reverse.go:32-57).
THEOREM ReverseLookupsLeadBack == Spec => []ReverseLeadsBack
<1>1. LookedUp => ReverseLeadsBack
  <2> DEFINE svc(n) == IF Len(n) = 4 THEN n[2] ELSE n[1]
             ns(n) == n[Len(n) - 1]
  <2> SUFFICES ASSUME Converted(w), NEW ip \in IPs, NEW n \in Reverse(w, ip).recs,
                      namespaceExposed(w, ns(n)),
                      \E s \in w.svcs : s.name = svc(n) /\ s.ns = ns(n) /\ ~EmptyService(w, s),
                      \A s \in w.svcs : ip \notin s.ext
               PROVE  ip \in Hosts(Records(w, n))
    BY SMT DEF ReverseLeadsBack, LookedUp
  <2>0. n \in serviceRecordForIP(w, ip).recs
    BY DEF Reverse, NoItems
  <2>1. CASE ServicesOfIP(w, ip) # {}
    <3>1. PICK s \in ServicesOfIP(w, ip) : n = <<s.name, s.ns, "svc">>
      BY <2>0, <2>1 DEF serviceRecordForIP
    <3>2. s \in w.svcs /\ ip = ClusterIP(s)
      BY DEF ServicesOfIP
    <3>3. s.type = "cluster" /\ s.host = ip
      <4>1. ip # "None" /\ ip # Unset
        BY AddressAssumption
      <4> QED
        BY <3>2, <4>1 DEF ClusterIP
    <3>4. Len(n) = 3 /\ n[1] = s.name /\ n[2] = s.ns
      BY <3>1
    <3>5. svc(n) = s.name /\ ns(n) = s.ns
      BY <3>4
    <3> HIDE DEF svc, ns
    <3>6. ~EmptyService(w, s)
      BY <3>2, <3>5 DEF Converted
    <3> QED
      BY <3>1, <3>2, <3>3, <3>5, <3>6, NotEmpty, ClusterFound
  <2>2. CASE ServicesOfIP(w, ip) = {}
    <3>1. n \in EndpointsOfIP(w, ip)
      BY <2>0, <2>2 DEF serviceRecordForIP, Panic
    <3>2. PICK e \in w.eps : \E sub \in e.subsets : \E a \in sub.addrs :
              a.ip = ip /\ n = <<endpointHostname(w, a), e.name, e.ns, "svc">>
      BY <3>1 DEF EndpointsOfIP
    <3>3. PICK sub \in e.subsets : \E a \in sub.addrs :
              a.ip = ip /\ n = <<endpointHostname(w, a), e.name, e.ns, "svc">>
      BY <3>2
    <3>4. PICK a \in sub.addrs :
              a.ip = ip /\ n = <<endpointHostname(w, a), e.name, e.ns, "svc">>
      BY <3>3
    <3>5. Len(n) = 4 /\ n[2] = e.name /\ n[3] = e.ns
      BY <3>4
    <3>6. svc(n) = e.name /\ ns(n) = e.ns
      BY <3>5
    <3> HIDE DEF svc, ns
    <3>7. PICK s \in w.svcs : s.name = e.name /\ s.ns = e.ns /\ ~EmptyService(w, s)
      BY <3>6
    <3>8. e \in EndpointsOf(w, s) /\ namespaceExposed(w, s.ns)
      BY <3>6, <3>7 DEF EndpointsOf
    <3>9. n = <<endpointHostname(w, a), s.name, s.ns, "svc">>
      BY <3>4, <3>7
    <3> QED
      BY <3>4, <3>7, <3>8, <3>9, NotEmpty, EndpointFound
  <2> QED
    BY <2>1, <2>2
<1> QED
  BY <1>1, LookedUpInvariant, PTL

\* The records of an external name: the ports of the services it is about.
LEMMA ExternalRecord ==
    ASSUME NEW c, NEW segs, NEW x
    PROVE  LET n == Len(segs)
               port == IF n = 4 THEN stripUnderscore(segs[1]) ELSE "*"
               proto == IF n = 4 THEN stripUnderscore(segs[2]) ELSE "*" IN
           x \in ExternalRecords(c, segs) <=>
               \E s \in c.svcs : \E ip \in s.ext : \E p \in s.ports :
                   /\ s.ns = segs[n] /\ s.name = segs[n - 1]
                   /\ match(port, p.name) /\ match(proto, p.proto)
                   /\ x = [host |-> ip, port |-> p.num, key |-> <<s.name, s.ns>>]
<1> DEFINE n == Len(segs)
           port == IF n = 4 THEN stripUnderscore(segs[1]) ELSE "*"
           proto == IF n = 4 THEN stripUnderscore(segs[2]) ELSE "*"
           Ps(s) == {q \in s.ports : match(port, q.name) /\ match(proto, q.proto)}
           R(s, ip, p) == [host |-> ip, port |-> p.num, key |-> <<s.name, s.ns>>]
           Of(s) == {R(s, ip, p) : ip \in s.ext, p \in Ps(s)}
           Those == {t \in c.svcs : t.ns = segs[n] /\ t.name = segs[n - 1]}
<1>1. ExternalRecords(c, segs) = UNION {Of(s) : s \in Those}
  BY DEF ExternalRecords
<1>2. \A s, p : p \in Ps(s) <=> p \in s.ports /\ match(port, p.name) /\ match(proto, p.proto)
  OBVIOUS
<1>3. \A s : s \in Those <=> s \in c.svcs /\ s.ns = segs[n] /\ s.name = segs[n - 1]
  OBVIOUS
<1> HIDE DEF R, Ps, port, proto, n, Those
<1>4. \A s : x \in Of(s) <=> \E ip \in s.ext : \E p \in Ps(s) : x = R(s, ip, p)
  OBVIOUS
<1> HIDE DEF Of
<1>5. x \in ExternalRecords(c, segs) <=> \E s \in Those : \E ip \in s.ext : \E p \in Ps(s) : x = R(s, ip, p)
  BY <1>1, <1>4
<1>6. x \in ExternalRecords(c, segs) <=>
          \E s \in c.svcs : \E ip \in s.ext : \E p \in s.ports :
              /\ s.ns = segs[n] /\ s.name = segs[n - 1]
              /\ match(port, p.name) /\ match(proto, p.proto)
              /\ x = R(s, ip, p)
  BY <1>2, <1>3, <1>5
<1> QED
  BY <1>6 DEF R, port, proto, n

LEMMA ExternalFound ==
    ASSUME NEW c, Converted(c), NEW s \in c.svcs, namespaceExposed(c, s.ns), NEW ip \in s.ext
    PROVE  ip \in Hosts(External(c, <<s.name, s.ns>>))
<1> DEFINE segs == <<s.name, s.ns>>
<1>1. Len(segs) = 2 /\ segs[2] = s.ns /\ segs[1] = s.name
  OBVIOUS
<1>2. PICK p : p \in s.ports
  BY DEF Converted, CachedService
<1> HIDE DEF segs
<1> DEFINE rec == [host |-> ip, port |-> p.num, key |-> <<s.name, s.ns>>]
<1>3. rec \in ExternalRecords(c, segs)
  <2>1. match("*", p.name) /\ match("*", p.proto)
    BY AnyPort
  <2>2. Len(segs) # 4 /\ s.ns = segs[Len(segs)] /\ s.name = segs[Len(segs) - 1]
    BY <1>1
  <2> QED
    BY <1>2, <2>1, <2>2, ExternalRecord DEF match, wildcard
<1>4. External(c, segs) = [err |-> "none", recs |-> ExternalRecords(c, segs)]
  BY <1>1, <1>3 DEF External
<1>5. rec.host = ip /\ [err |-> "none", recs |-> ExternalRecords(c, segs)].recs = ExternalRecords(c, segs)
  OBVIOUS
<1> HIDE DEF rec
<1> QED
  BY <1>3, <1>4, <1>5 DEF Hosts, segs

\* An A query for ns.dns has the addresses of the name servers.
LEMMA DefaultNameServer ==
    ASSUME NEW c, c.conf.endpoints, NEW segs, isDefaultNS(segs), NEW x \in nsAddrs(c), x.ip \in IPs
    PROVE  x.ip \in Hosts(getRecords(c, segs, "A"))
<1> DEFINE Rec(y) == [host |-> y.ip, port |-> 0, key |-> IF segs = <<>> THEN y.name ELSE segs]
           type(y) == IF y.ip \in IPs THEN "A" ELSE "AAAA"
           a == NameServers(c, segs, "A")
           b == getRecords(c, segs, "A")
<1>1. Services(c, segs, "A") = a
  <2>1. "A" \in QTypes \ {"TXT", "NS"}
    BY DEF QTypes
  <2> QED
    BY <2>1, ServicesOf, Zenon
<1>2. a = [err |-> "none", recs |-> {Rec(y) : y \in {z \in nsAddrs(c) : "A" \in {"NS", type(z)}}}]
  BY Zenon DEF NameServers
<1>3. "A" \in QTypes \ {"TXT", "SOA"} /\ AskedAs(segs, "A") = "A"
  BY DEF QTypes, AskedAs
<1>4. b = [a EXCEPT !.recs = {y \in @ : TRUE}]
  <2> DEFINE e == Services(c, segs, "A")
  <2>1. b = [e EXCEPT !.recs = {y \in @ : TRUE}]
    BY <1>3, GetRecords, SMT
  <2> HIDE DEF a, b
  <2> QED
    BY <1>1, <2>1
<1>5. Shaped(a)
  BY NameServersShaped
<1>6. Rec(x).host = x.ip /\ type(x) = "A"
  OBVIOUS
<1> HIDE DEF a, b, Rec, type
<1>7. Rec(x) \in a.recs
  BY <1>2, <1>6
<1>8. Rec(x) \in b.recs
  BY <1>4, <1>5, <1>7 DEF Shaped
<1> QED
  BY <1>6, <1>8 DEF Hosts, b

\* The names of the zone's name servers lead to their addresses, inside and outside, for
\* every cluster: a service of the CoreDNS pod has the pod's address among its endpoints,
\* so that it is not hidden as empty; a nil address, of an ExternalName service or of a load
\* balancer with a host name, has no such name (ns.go:18-88, external.go:88-96).
THEOREM NameServerNamesResolve == Spec => []NameServersResolve
<1>1. LookedUp => NameServersResolve
  <2> SUFFICES ASSUME Converted(w), w.conf.endpoints
               PROVE  /\ \A x \in nsAddrs(w) :
                            /\ x.ip # Unset
                            /\ isDefaultNS(x.name) \/ namespaceExposed(w, x.name[Len(x.name) - 1])
                            => x.ip \in Hosts(getRecords(w, x.name, "A"))
                      /\ \A x \in ExternalAddress(w) :
                            x.ip # Unset /\ ~isDefaultNS(x.name) /\ namespaceExposed(w, x.name[2])
                            => x.ip \in Hosts(External(w, x.name))
    BY DEF NameServersResolve, LookedUp
  <2> DEFINE found == UNION {NsAddrsOf(w, y[1], y[2]) : y \in Own(w)}
             outside == UNION {{[name |-> <<y[1].name, y[1].ns>>, ip |-> ParseIP(ip)] : ip \in y[1].ext} :
                                   y \in Own(w)}
             default == {[name |-> <<"ns", "dns">>, ip |-> l] : l \in w.local}
  <2>1. ASSUME NEW x \in default PROVE isDefaultNS(x.name)
    BY <2>1 DEF isDefaultNS
  <2>2. nsAddrs(w) = default \/ nsAddrs(w) = found
    BY DEF nsAddrs, OwnOr
  <2>3. ExternalAddress(w) = default \/ ExternalAddress(w) = outside
    BY DEF ExternalAddress, OwnOr
  <2>4. ASSUME NEW x \in nsAddrs(w), isDefaultNS(x.name), x.ip \in IPs
        PROVE  x.ip \in Hosts(getRecords(w, x.name, "A"))
    BY <2>4, DefaultNameServer
  <2>5. ASSUME NEW y \in Own(w)
        PROVE  /\ y[1] \in w.svcs /\ Shown(w, y[1]) /\ y[2] \in EndpointsOf(w, y[1])
               /\ y[1].type \in {"cluster", "headless", "external"}
    <3>1. /\ y[1] \in w.svcs /\ y[2] \in w.eps /\ y[1].name = y[2].name /\ y[1].ns = y[2].ns
          /\ \E sub \in y[2].subsets : \E a \in sub.addrs : a.ip \in w.local
      BY <2>5 DEF Own
    <3>2. y[1].type \in {"cluster", "headless", "external"}
      BY <3>1 DEF Converted, CachedService
    <3>3. y[2] \in EndpointsOf(w, y[1])
      BY <3>1 DEF EndpointsOf
    <3>4. \E sub \in y[2].subsets : sub.addrs # {}
      BY <3>1
    <3> QED
      BY <2>5, <3>1, <3>2, <3>3, <3>4 DEF Shown
  <2>6. ASSUME NEW x \in found, x.ip # Unset, namespaceExposed(w, x.name[Len(x.name) - 1])
        PROVE  x.ip \in Hosts(getRecords(w, x.name, "A"))
    <3>1. PICK y \in Own(w) : x \in NsAddrsOf(w, y[1], y[2])
      BY <2>6
    <3>2. PICK s, e : s = y[1] /\ e = y[2]
      OBVIOUS
    <3>3. /\ s \in w.svcs /\ Shown(w, s) /\ e \in EndpointsOf(w, s)
          /\ s.type \in {"cluster", "headless", "external"}
      BY <2>5, <3>2
    <3>4. ASSUME ~isDefaultNS(x.name), x.ip \in Hosts(Records(w, x.name))
          PROVE  x.ip \in Hosts(getRecords(w, x.name, "A"))
      BY <3>4, QueryA DEF Hosts
    <3>5. CASE s.type = "headless"
      <4>1. PICK a \in UNION {sub.addrs : sub \in e.subsets} :
                x = [name |-> <<endpointHostname(w, a), s.name, s.ns, "svc">>, ip |-> a.ip]
        BY <3>1, <3>2, <3>5 DEF NsAddrsOf
      <4>2. PICK sub \in e.subsets : a \in sub.addrs
        BY <4>1
      <4>3. x.name = <<endpointHostname(w, a), s.name, s.ns, "svc">> /\ x.ip = a.ip
        BY <4>1
      <4>4. Len(x.name) = 4 /\ x.name[3] = s.ns
        BY <4>3
      <4>5. namespaceExposed(w, s.ns)
        BY <2>6, <4>4
      <4> QED
        BY <3>3, <3>4, <4>2, <4>3, <4>5, EndpointFound
    <3>6. CASE s.type = "cluster"
      <4>1. x = [name |-> <<s.name, s.ns, "svc">>, ip |-> s.host]
        <5>1. ParseIP(ClusterIP(s)) = s.host
          BY <3>3, <3>6 DEF ParseIP, ClusterIP, Converted, CachedService
        <5> QED
          BY <3>1, <3>2, <3>6, <5>1 DEF NsAddrsOf
      <4>2. x.name = <<s.name, s.ns, "svc">> /\ x.ip = s.host
        BY <4>1
      <4>3. Len(x.name) = 3 /\ x.name[2] = s.ns
        BY <4>2
      <4>4. namespaceExposed(w, s.ns)
        BY <2>6, <4>3
      <4> QED
        BY <3>3, <3>4, <3>6, <4>2, <4>4, ClusterFound
    <3>7. CASE s.type = "external"
      <4>1. ParseIP(ClusterIP(s)) = Unset
        BY <3>7, AddressAssumption DEF ParseIP, ClusterIP
      <4>2. x = [name |-> <<s.name, s.ns, "svc">>, ip |-> Unset]
        BY <3>1, <3>2, <3>7, <4>1 DEF NsAddrsOf
      <4> QED
        BY <2>6, <4>2
    <3> QED
      BY <3>3, <3>5, <3>6, <3>7
  <2>7. ASSUME NEW x \in outside, x.ip # Unset, namespaceExposed(w, x.name[2])
        PROVE  x.ip \in Hosts(External(w, x.name))
    <3>1. PICK y \in Own(w) : x \in {[name |-> <<y[1].name, y[1].ns>>, ip |-> ParseIP(ip)] : ip \in y[1].ext}
      BY <2>7
    <3>2. PICK s : s = y[1]
      OBVIOUS
    <3>3. s \in w.svcs
      BY <2>5, <3>2
    <3>4. PICK ip \in s.ext : x = [name |-> <<s.name, s.ns>>, ip |-> ParseIP(ip)]
      BY <3>1, <3>2
    <3>5. x.name = <<s.name, s.ns>> /\ x.ip = ip
      BY <2>7, <3>4 DEF ParseIP
    <3>6. x.name[2] = s.ns
      BY <3>5
    <3> QED
      BY <2>7, <3>3, <3>5, <3>6, ExternalFound
  <2>8. ASSUME NEW x \in nsAddrs(w), x.ip # Unset,
               isDefaultNS(x.name) \/ namespaceExposed(w, x.name[Len(x.name) - 1])
        PROVE  x.ip \in Hosts(getRecords(w, x.name, "A"))
    <3>1. CASE x \in default
      <4>1. x.ip \in IPs
        BY <3>1 DEF Converted
      <4> QED
        BY <2>1, <2>4, <2>8, <3>1, <4>1
    <3>2. CASE x \in found
      <4>1. CASE isDefaultNS(x.name)
        <5>1. x.ip \in IPs
          BY <2>5, <2>8, <3>2 DEF NsAddrsOf, ParseIP, EndpointsOf, Converted, CachedSubset
        <5> QED
          BY <2>4, <2>8, <4>1, <5>1
      <4>2. CASE ~isDefaultNS(x.name)
        BY <2>6, <2>8, <3>2, <4>2
      <4> QED
        BY <4>1, <4>2
    <3> HIDE DEF found, default
    <3> QED
      BY <2>2, <2>8, <3>1, <3>2
  <2>9. ASSUME NEW x \in ExternalAddress(w), x.ip # Unset, ~isDefaultNS(x.name), namespaceExposed(w, x.name[2])
        PROVE  x.ip \in Hosts(External(w, x.name))
    <3> HIDE DEF outside, default
    <3> QED
      BY <2>1, <2>3, <2>7, <2>9
  <2> QED
    BY <2>8, <2>9
<1> QED
  BY <1>1, LookedUpInvariant, PTL

LEMMA Part ==
    ASSUME NEW S, NEW f \in Seq(S), NEW m \in Int, NEW n \in Int, 1 <= m, m <= n + 1, n <= Len(f)
    PROVE  LET g == SubSeq(f, m, n) IN
           /\ g \in Seq(S) /\ Len(g) = n - m + 1
           /\ \A i \in 1 .. n - m + 1 : g[i] = f[m + i - 1]
<1>1. SubSeq(f, m, n) \in Seq(S)
  OBVIOUS
<1>2. Len(SubSeq(f, m, n)) = n - m + 1
  OBVIOUS
<1>3. \A i \in 1 .. n - m + 1 : SubSeq(f, m, n)[i] = f[m + i - 1]
  OBVIOUS
<1> QED
  BY <1>1, <1>2, <1>3

\* A service with a ClusterIP is found by the name of one of its ports.
LEMMA PortFound ==
    ASSUME NEW c, Converted(c), ~c.conf.ignoreEmpty, NEW s \in c.svcs, s.type = "cluster",
           namespaceExposed(c, s.ns), NEW n \in {3, 5}, NEW S, NEW segs \in Seq(S), Len(segs) = n,
           segs[n] = "svc", segs[n - 1] = s.ns, segs[n - 2] = s.name, NEW p \in s.ports,
           match(IF n = 5 THEN stripUnderscore(segs[1]) ELSE "*", p.name),
           match(IF n = 5 THEN stripUnderscore(segs[2]) ELSE "*", p.proto)
    PROVE  Records(c, segs).recs # {}
<1> DEFINE r == parseRequest(segs)
<1>1. Shown(c, s)
  BY DEF Shown
<1>2. n \in {3, 4, 5} /\ n # 4
  OBVIOUS
<1>3. /\ r.endpoint = (IF n = 4 THEN segs[1] ELSE Unset)
      /\ r.port = (IF n = 5 THEN stripUnderscore(segs[1]) ELSE "*")
      /\ r.proto = (IF n = 5 THEN stripUnderscore(segs[2]) ELSE "*")
      /\ Records(c, segs).recs = ServiceRecords(c, r, s)
  <2>1. CASE n = 3
    BY <1>1, <2>1, Named
  <2>2. CASE n = 5
    BY <1>1, <2>2, Named
  <2> QED
    BY <2>1, <2>2
<1> HIDE DEF r
<1>4. r.endpoint = Unset /\ match(r.port, p.name) /\ match(r.proto, p.proto)
  BY <1>2, <1>3 DEF match, wildcard
<1>5. [host |-> s.host, port |-> p.num, key |-> <<s.name, s.ns>>] \in ServiceRecords(c, r, s)
  BY <1>4, ClusterRecord DEF match, wildcard
<1> QED
  BY <1>3, <1>5

LEMMA Front ==
    ASSUME NEW S, NEW f \in Seq(S), f # <<>>
    PROVE  LET g == SubSeq(f, 1, Len(f) - 1) IN
           /\ Len(f) \in Nat /\ Len(f) > 0 /\ Len(g) = Len(f) - 1
           /\ \A i \in 1 .. Len(f) - 1 : g[i] = f[i]
<1> DEFINE n == Len(f) - 1
<1>1. Len(f) \in Nat /\ Len(f) > 0
  OBVIOUS
<1>2. n \in Int /\ 1 <= n + 1 /\ n <= Len(f) /\ n - 1 + 1 = n
  BY <1>1
<1> HIDE DEF n
<1>3. Len(SubSeq(f, 1, n)) = n
  BY <1>2, Part
<1>4. \A i \in 1 .. n : SubSeq(f, 1, n)[i] = f[i]
  BY <1>2, Part
<1> QED
  BY <1>1, <1>3, <1>4 DEF n

\* What is seen from outside is there inside, for every cluster and name: an external name
\* and the name inside the zone ask for the same service and ports (external.go:16-84
\* against kubernetes.go:411-541).
THEOREM ExternalNamesAreInternal == Spec => []ExternalIsInternal
<1>1. LookedUp => ExternalIsInternal
  <2> DEFINE segs == SubSeq(name, 1, Len(name) - 1)
  <2> SUFFICES ASSUME LookedUp, name # <<>>, name[Len(name)] = "svc", ~w.conf.ignoreEmpty,
                      \A s \in w.svcs : s.ext # {} => s.type = "cluster",
                      External(w, segs).recs # {}
               PROVE  answer.recs # {}
    BY DEF ExternalIsInternal
  <2>1. PICK S : Converted(w) /\ name \in Seq(S) /\ answer = Records(w, name)
    BY DEF LookedUp
  <2>2. /\ Len(name) \in Nat /\ Len(segs) = Len(name) - 1
        /\ \A i \in 1 .. Len(name) - 1 : segs[i] = name[i]
    BY <2>1, Front
  <2> HIDE DEF segs
  <2> DEFINE n == Len(segs)
  <2>3. n \in {2, 4} /\ namespaceExposed(w, segs[n]) /\ ExternalRecords(w, segs) # {}
    BY DEF External, NoItems, NoData
  <2>4. PICK x : x \in ExternalRecords(w, segs)
    BY <2>3
  <2> DEFINE port == IF n = 4 THEN stripUnderscore(segs[1]) ELSE "*"
             proto == IF n = 4 THEN stripUnderscore(segs[2]) ELSE "*"
  <2>5. PICK s \in w.svcs : \E ip \in s.ext : \E p \in s.ports :
            /\ s.ns = segs[n] /\ s.name = segs[n - 1]
            /\ match(port, p.name) /\ match(proto, p.proto)
    BY <2>4, ExternalRecord
  <2>6. PICK p \in s.ports : match(port, p.name) /\ match(proto, p.proto)
    BY <2>5
  <2>7. s.type = "cluster" /\ s.ns = segs[n] /\ s.name = segs[n - 1]
    BY <2>5
  <2>8. PICK m \in {3, 5} : m = Len(name) /\ n = m - 1
    BY <2>2, <2>3
  <2>9. name[m] = "svc" /\ name[m - 1] = s.ns /\ name[m - 2] = s.name
    BY <2>2, <2>7, <2>8
  <2>10. namespaceExposed(w, s.ns)
    BY <2>3, <2>7
  <2>11. /\ port = (IF m = 5 THEN stripUnderscore(name[1]) ELSE "*")
         /\ proto = (IF m = 5 THEN stripUnderscore(name[2]) ELSE "*")
    BY <2>2, <2>8
  <2>12. /\ match(IF m = 5 THEN stripUnderscore(name[1]) ELSE "*", p.name)
         /\ match(IF m = 5 THEN stripUnderscore(name[2]) ELSE "*", p.proto)
    BY <2>6, <2>11
  <2> HIDE DEF n, port, proto
  <2>13. CASE m = 3
    BY <2>1, <2>7, <2>8, <2>9, <2>10, <2>12, <2>13, PortFound DEF match, wildcard
  <2>14. CASE m = 5
    BY <2>1, <2>7, <2>8, <2>9, <2>10, <2>12, <2>14, PortFound DEF match, wildcard
  <2> QED
    BY <2>13, <2>14
<1> QED
  BY <1>1, LookedUpInvariant, PTL

-----------------------------------------------------------------------------
(* Ancestors and wildcards                                                 *)

\* A request that has records names a service or a pod, in an exposed namespace.
LEMMA Answered ==
    ASSUME NEW c, NEW S, NEW segs \in Seq(S), Records(c, segs).recs # {}
    PROVE  LET n == Len(segs)
               r == parseRequest(segs) IN
           /\ n \in {3, 4, 5} /\ segs[n] \in {"svc", "pod"}
           /\ r.service # Unset /\ (wildcard(r.ns) \/ namespaceExposed(c, r.ns))
           /\ Records(c, segs) = IF segs[n] = "pod" THEN findPods(c, r) ELSE findServices(c, r)
<1> DEFINE n == Len(segs)
           r == parseRequest(segs)
<1>1. NoData.recs = {} /\ Panic.recs = {} /\ NoRequest.podOrSvc = Unset
  BY DEF NoData, Panic, NoRequest
<1>2. /\ r.err = "none" /\ r.podOrSvc # Unset
      /\ wildcard(r.ns) \/ namespaceExposed(c, r.ns)
      /\ Records(c, segs) = IF r.podOrSvc = "pod" THEN findPods(c, r) ELSE findServices(c, r)
  <2> HIDE DEF r
  <2> QED
    BY <1>1, RecordsOf DEF r, wildcard, namespaceExposed, configuredNamespace
<1>3. ~(n = 0 \/ (n = 1 /\ segs[1] \in {"svc", "pod"}))
  <2>1. (n = 0 \/ (n = 1 /\ segs[1] \in {"svc", "pod"})) => r = NoRequest
    BY ParseNothing
  <2> QED
    BY <1>1, <1>2, <2>1, Zenon
<1>4. n \in 2 .. 5 /\ segs[n] \in {"svc", "pod"}
  <2>1. n > 5 \/ (n > 0 /\ segs[n] \notin {"svc", "pod"}) => r.err = "invalid"
    BY ParseInvalid
  <2> HIDE DEF r
  <2>2. ~(n > 5) /\ (n > 0 => segs[n] \in {"svc", "pod"})
    BY <1>2, <2>1
  <2>3. n \in Nat
    OBVIOUS
  <2> HIDE DEF n
  <2>4. n # 0 /\ n # 1
    BY <1>3, <2>2
  <2> QED
    BY <2>2, <2>3, <2>4
<1>5. r.podOrSvc = segs[n] /\ r.service = IF n > 2 THEN segs[n - 2] ELSE Unset
  BY <1>4, ParseFields
<1> HIDE DEF r
<1>6. r.service # Unset
  BY <1>1, <1>2, FindPods, FindServices
<1>7. n \in {3, 4, 5}
  BY <1>4, <1>5, <1>6
<1> QED
  BY <1>2, <1>4, <1>5, <1>6, <1>7 DEF r

\* A name above another is made of its last labels.
LEMMA Above ==
    ASSUME NEW S, NEW segs \in Seq(S), NEW i \in 2 .. Len(segs) + 1
    PROVE  LET up == From(segs, i)
               m == Len(segs) - i + 1 IN
           up \in Seq(S) /\ Len(up) = m /\ \A j \in 1 .. m : up[j] = segs[i + j - 1]
<1>1. i \in Int /\ Len(segs) \in Int /\ 1 <= i /\ i <= Len(segs) + 1 /\ Len(segs) <= Len(segs)
  OBVIOUS
<1> QED
  BY <1>1, Part DEF From

\* The names above a service's or pod's name leave the service and the namespace, the
\* namespace, or neither.
LEMMA AboveRequest ==
    ASSUME NEW S, NEW segs \in Seq(S), Len(segs) \in {3, 4, 5}, segs[Len(segs)] \in {"svc", "pod"},
           NEW i \in 2 .. Len(segs) + 1, ~(Len(segs) = 5 /\ i = 2)
    PROVE  LET n == Len(segs)
               r == parseRequest(segs)
               q == parseRequest(From(segs, i)) IN
           \/ q = NoRequest
           \/ /\ q.err = "none" /\ q.podOrSvc = segs[n] /\ q.ns = r.ns
              /\ q.service \in {Unset, r.service}
              /\ q.endpoint = Unset /\ q.port = "*" /\ q.proto = "*"
<1> DEFINE n == Len(segs)
           m == n - i + 1
           up == From(segs, i)
           r == parseRequest(segs)
           q == parseRequest(up)
<1>1. up \in Seq(S) /\ Len(up) = m /\ \A j \in 1 .. m : up[j] = segs[i + j - 1]
  BY Above
<1>2. m \in {0, 1, 2, 3} /\ i \in Int
  OBVIOUS
<1>3. r.ns = segs[n - 1] /\ r.service = segs[n - 2]
  <2>1. \A k : k \in {3, 4, 5} => k \in 2 .. 5 /\ k > 2
    OBVIOUS
  <2>2. n \in 2 .. 5 /\ n > 2
    BY <2>1
  <2> QED
    BY <2>2, ParseFields
<1> HIDE DEF r, up
<1>4. CASE m = 0
  <2>1. Len(up) = 0
    BY <1>1, <1>4
  <2> QED
    BY <2>1, ParseNothing DEF q, up
<1>5. CASE m = 1
  <2>1. up[1] = segs[n] /\ Len(up) = 1
    BY <1>1, <1>5
  <2>2. up \in {<<"svc">>, <<"pod">>}
    BY <1>1, <2>1
  <2> QED
    BY <2>2, ParseNothing DEF q, up
<1>6. CASE m = 2
  <2>1. Len(up) = 2 /\ up[2] = segs[n] /\ up[1] = segs[n - 1]
    BY <1>1, <1>2, <1>6
  <2>2. /\ q.err = "none" /\ q.podOrSvc = up[2] /\ q.ns = up[1] /\ q.service = Unset
        /\ q.endpoint = Unset /\ q.port = "*" /\ q.proto = "*"
    <3>1. Len(up) \in 2 .. 5 /\ ~(Len(up) > 2) /\ Len(up) # 4 /\ Len(up) # 5
      BY <2>1
    <3>2. up[Len(up)] \in {"svc", "pod"} /\ up[Len(up)] = up[2] /\ up[Len(up) - 1] = up[1]
      BY <2>1
    <3> QED
      BY <1>1, <3>1, <3>2, ParseFields
  <2> HIDE DEF q
  <2> QED
    BY <1>3, <2>1, <2>2 DEF q, r, up
<1>7. CASE m = 3
  <2>1. Len(up) = 3 /\ up[3] = segs[n] /\ up[2] = segs[n - 1] /\ up[1] = segs[n - 2]
    BY <1>1, <1>2, <1>7
  <2>2. /\ q.err = "none" /\ q.podOrSvc = up[3] /\ q.ns = up[2] /\ q.service = up[1]
        /\ q.endpoint = Unset /\ q.port = "*" /\ q.proto = "*"
    <3>1. Len(up) \in 2 .. 5 /\ Len(up) > 2 /\ Len(up) # 4 /\ Len(up) # 5
      BY <2>1
    <3>2. up[Len(up)] \in {"svc", "pod"} /\ Len(up) - 1 = 2 /\ Len(up) - 2 = 1
      BY <2>1
    <3> QED
      BY <1>1, <2>1, <3>1, <3>2, ParseFields
  <2> HIDE DEF q
  <2> QED
    BY <1>3, <2>1, <2>2 DEF q, r, up
<1> QED
  BY <1>2, <1>4, <1>5, <1>6, <1>7 DEF q, r, up

\* What findPods answers depends on the service and the namespace alone.
PodsOf(c, service, ns) ==
    LET asked == {ip \in IPs : Dash[ip] = service}
        known == {p.ip : p \in {q \in c.pods : /\ match(ns, q.ns)
                                               /\ wildcard(ns) => namespaceExposed(c, q.ns)}}
        ips == IF c.conf.podMode = "insecure" THEN asked ELSE asked \cap known
        recs == {[host |-> ip, port |-> 0, key |-> <<service, ns>>] : ip \in ips}
    IN  IF c.conf.podMode = "disabled" THEN NoItems
        ELSE IF service = Unset THEN NoData
        ELSE IF c.conf.podMode = "verified" /\ wildcard(service) /\ ~wildcard(ns) THEN NoData
        ELSE IF recs = {} THEN NoItems
        ELSE [err |-> "none", recs |-> recs]

LEMMA PodsByName ==
    ASSUME NEW c, NEW r, NEW q, q.service = r.service, q.ns = r.ns
    PROVE  findPods(c, q) = findPods(c, r)
<1>1. findPods(c, q) = PodsOf(c, q.service, q.ns)
  BY Zenon DEF findPods, PodsOf
<1>2. findPods(c, r) = PodsOf(c, r.service, r.ns)
  BY Zenon DEF findPods, PodsOf
<1> QED
  BY <1>1, <1>2

\* A service that has records for some name has records for its own.
LEMMA OwnRecords ==
    ASSUME NEW c, Converted(c), NEW s \in c.svcs, s.type = "external" => s.host \notin IPs,
           NEW r, NEW x \in ServiceRecords(c, r, s),
           NEW q, q.endpoint = Unset, q.port = "*", q.proto = "*"
    PROVE  ServiceRecords(c, q, s) # {}
<1>1. s.type \in {"cluster", "headless", "external"} /\ s.ports # {}
  BY DEF Converted, CachedService
<1>2. CASE s.type = "cluster"
  <2>1. PICK p : p \in s.ports
    BY <1>1
  <2>2. [host |-> s.host, port |-> p.num, key |-> <<s.name, s.ns>>] \in ServiceRecords(c, q, s)
    BY <1>2, <2>1, ClusterRecord DEF match, wildcard
  <2> QED
    BY <2>2
<1>3. CASE s.type = "headless"
  <2>1. PICK e \in EndpointsOf(c, s) : \E sub \in e.subsets : \E a \in sub.addrs : \E p \in sub.ports : TRUE
    BY <1>3, EndpointRecordOf
  <2>2. PICK sub \in e.subsets : \E a \in sub.addrs : \E p \in sub.ports : TRUE
    BY <2>1
  <2>3. PICK a \in sub.addrs, p \in sub.ports : TRUE
    BY <2>2
  <2>4. [host |-> a.ip, port |-> p.num, key |-> <<endpointHostname(c, a), s.name, s.ns>>]
            \in ServiceRecords(c, q, s)
    BY <1>3, <2>1, <2>2, <2>3, EndpointRecord DEF match, wildcard
  <2> QED
    BY <2>4
<1>4. CASE s.type = "external"
  <2>1. [host |-> s.host, port |-> 0, key |-> <<s.name, s.ns>>] \in ServiceRecords(c, q, s)
    BY <1>4, AliasRecord
  <2> QED
    BY <2>1
<1> QED
  BY <1>1, <1>2, <1>3, <1>4

LEMMA OwnTold ==
    ASSUME NEW c, Converted(c), \A s \in c.svcs : s.type = "external" => s.host \notin IPs,
           NEW r, NEW q, q.endpoint = Unset, q.port = "*", q.proto = "*",
           q.service = r.service, q.ns = r.ns, Told(c, r) # {}
    PROVE  Told(c, q) # {}
<1>1. PICK s \in Found(c, r) : ~HiddenAsEmpty(c, r, s) /\ ServiceRecords(c, r, s) # {}
  BY DEF Told
<1>2. s \in c.svcs /\ s \in Found(c, q)
  BY <1>1 DEF Found
<1>3. ~HiddenAsEmpty(c, q, s)
  BY <1>1 DEF HiddenAsEmpty
<1>4. PICK x : x \in ServiceRecords(c, r, s)
  BY <1>1
<1>5. ServiceRecords(c, q, s) # {}
  BY <1>2, <1>4, OwnRecords
<1> QED
  BY <1>2, <1>3, <1>5 DEF Told

\* The names above a name that has records exist, for every cluster and name, but for the
\* one between a port and its service: the lookup of such a name finds the same services,
\* asks them for less, and so finds at least as much (kubernetes.go:353-361, :416-424).
THEOREM AncestorsOfNamesExist == Spec => []AncestorsExist
<1>1. LookedUp => AncestorsExist
  <2> DEFINE r == parseRequest(name)
             n == Len(name)
  <2> SUFFICES ASSUME LookedUp, answer.recs # {},
                      \A s \in w.svcs : s.type = "external" => s.host \notin IPs,
                      NEW i \in 2 .. n + 1, ~(n = 5 /\ i = 2)
               PROVE  ~IsNameError(Records(w, From(name, i)))
    BY DEF AncestorsExist
  <2> DEFINE up == From(name, i)
             q == parseRequest(up)
  <2>1. PICK S : Converted(w) /\ name \in Seq(S) /\ answer = Records(w, name)
    BY DEF LookedUp
  <2>2. /\ n \in {3, 4, 5} /\ name[n] \in {"svc", "pod"}
        /\ r.service # Unset /\ (wildcard(r.ns) \/ namespaceExposed(w, r.ns))
        /\ answer = IF name[n] = "pod" THEN findPods(w, r) ELSE findServices(w, r)
    BY <2>1, Answered
  <2>3. \/ q = NoRequest
        \/ /\ q.err = "none" /\ q.podOrSvc = name[n] /\ q.ns = r.ns
           /\ q.service \in {Unset, r.service}
           /\ q.endpoint = Unset /\ q.port = "*" /\ q.proto = "*"
    BY <2>1, <2>2, AboveRequest
  <2> HIDE DEF r, n
  <2>4. NoData.err = "none" /\ Panic.err = "panic" /\ Panic.recs = {}
    BY DEF NoData, Panic
  <2>5. CASE q = NoRequest
    <3>1. Records(w, up) = NoData
      <4>1. q.err = "none" /\ q.podOrSvc = Unset
        BY <2>5 DEF NoRequest
      <4> HIDE DEF up
      <4> QED
        BY <4>1, RecordsOf
    <3> QED
      BY <2>4, <3>1 DEF IsNameError
  <2>6. CASE q # NoRequest
    <3>1. /\ q.err = "none" /\ q.podOrSvc = name[n] /\ q.ns = r.ns
          /\ q.service \in {Unset, r.service}
          /\ q.endpoint = Unset /\ q.port = "*" /\ q.proto = "*"
      BY <2>3, <2>6
    <3>2. Records(w, up) = IF name[n] = "pod" THEN findPods(w, q) ELSE findServices(w, q)
      <4>1. q.podOrSvc # Unset /\ (wildcard(q.ns) \/ namespaceExposed(w, q.ns))
        BY <2>2, <3>1, UnsetFacts
      <4> HIDE DEF up
      <4> QED
        BY <3>1, <4>1, RecordsOf
    <3> HIDE DEF q, up
    <3>3. CASE name[n] = "pod"
      <4>1. answer = findPods(w, r) /\ Records(w, up) = findPods(w, q)
        BY <2>2, <3>2, <3>3
      <4>2. w.conf.podMode # "disabled" /\ findPods(w, r).err = "none"
        BY <4>1, FindPods
      <4>3. CASE q.service = Unset
        <5>1. findPods(w, q) = NoData
          BY <4>2, <4>3, FindPods
        <5> QED
          BY <2>4, <4>1, <5>1 DEF IsNameError, up
      <4>4. CASE q.service = r.service
        <5>1. findPods(w, q) = findPods(w, r)
          BY <3>1, <4>4, PodsByName
        <5> QED
          BY <4>1, <4>2, <5>1 DEF IsNameError, up
      <4> QED
        BY <3>1, <4>3, <4>4
    <3>4. CASE name[n] = "svc"
      <4>1. answer = findServices(w, r) /\ Records(w, up) = findServices(w, q)
        BY <2>2, <3>2, <3>4
      <4>2. Told(w, r) # {}
        BY <2>2, <2>4, <4>1, FindServices
      <4>3. CASE q.service = Unset
        <5>1. findServices(w, q) = NoData
          BY <4>3, FindServices
        <5> QED
          BY <2>4, <4>1, <5>1 DEF IsNameError, up
      <4>4. CASE q.service = r.service
        <5>1. Told(w, q) # {}
          BY <2>1, <3>1, <4>2, <4>4, OwnTold
        <5>2. findServices(w, q).err \in {"none", "panic"}
          BY <2>2, <2>4, <4>4, <5>1, FindServices
        <5> QED
          BY <4>1, <5>2 DEF IsNameError, up
      <4> QED
        BY <3>1, <4>3, <4>4
    <3> QED
      BY <2>2, <3>3, <3>4
  <2> QED
    BY <2>5, <2>6
<1> QED
  BY <1>1, LookedUpInvariant, PTL

\* What is told of a service depends on the endpoint, port and protocol of the request.
LEMMA SameAsked ==
    ASSUME NEW c, Converted(c), NEW s \in c.svcs, NEW r, NEW q,
           q.endpoint = r.endpoint, q.port = r.port, q.proto = r.proto,
           NEW x \in ServiceRecords(c, r, s)
    PROVE  x \in ServiceRecords(c, q, s)
<1>1. s.type \in {"cluster", "headless", "external"}
  BY DEF Converted, CachedService
<1>2. CASE s.type = "headless" \/ r.endpoint # Unset
  <2> DEFINE Rec(a, p) == [host |-> a.ip, port |-> p.num, key |-> <<endpointHostname(c, a), s.name, s.ns>>]
             Wanted(a, p) == /\ r.endpoint # Unset => match(r.endpoint, endpointHostname(c, a))
                             /\ match(r.port, p.name) /\ match(r.proto, p.proto)
                             /\ x = Rec(a, p)
  <2>1. PICK e \in EndpointsOf(c, s) :
            \E sub \in e.subsets : \E a \in sub.addrs : \E p \in sub.ports : Wanted(a, p)
    BY <1>2, EndpointRecordOf DEF match, wildcard
  <2>2. PICK sub \in e.subsets : \E a \in sub.addrs : \E p \in sub.ports : Wanted(a, p)
    BY <2>1
  <2>3. PICK a \in sub.addrs, p \in sub.ports : Wanted(a, p)
    BY <2>2
  <2>4. Rec(a, p) \in ServiceRecords(c, q, s)
    BY <1>2, <2>1, <2>2, <2>3, EndpointRecord DEF match, wildcard
  <2> QED
    BY <2>3, <2>4
<1>3. CASE s.type = "external" /\ r.endpoint = Unset
  BY <1>3 DEF ServiceRecords
<1>4. CASE s.type = "cluster" /\ r.endpoint = Unset
  <2>1. ServiceRecords(c, r, s) =
            {[host |-> s.host, port |-> p.num, key |-> <<s.name, s.ns>>] :
                p \in {u \in s.ports : match(r.port, u.name) /\ match(r.proto, u.proto)}}
    BY <1>4 DEF ServiceRecords
  <2>2. PICK p \in s.ports : /\ match(r.port, p.name) /\ match(r.proto, p.proto)
                             /\ x = [host |-> s.host, port |-> p.num, key |-> <<s.name, s.ns>>]
    BY <2>1
  <2> QED
    BY <1>4, <2>2, ClusterRecord DEF match, wildcard
<1> QED
  BY <1>1, <1>2, <1>3, <1>4

\* A name with its service and namespace replaced.
IsRenamed(S, segs, s, n, f) ==
    LET l == Len(segs) IN
    /\ f \in Seq(S) /\ Len(f) = l /\ f[l - 1] = n /\ f[l - 2] = s
    /\ \A i \in 1 .. l : i # l - 1 /\ i # l - 2 => f[i] = segs[i]

LEMMA Replaced ==
    ASSUME NEW S, NEW segs \in Seq(S), Len(segs) >= 3, NEW s \in S, NEW n \in S
    PROVE  IsRenamed(S, segs, s, n, Renamed(segs, s, n))
<1> DEFINE f == Renamed(segs, s, n)
           l == Len(segs)
<1>1. l \in Nat /\ l - 1 \in 1 .. l /\ l - 2 \in 1 .. l /\ l - 1 # l - 2
  OBVIOUS
<1>2. segs \in [1 .. l -> S]
  OBVIOUS
<1>3. f = [segs EXCEPT ![l - 1] = n, ![l - 2] = s]
  BY DEF Renamed
<1> HIDE DEF f, l
<1>4. f \in [1 .. l -> S] /\ f[l - 1] = n /\ f[l - 2] = s
  BY <1>1, <1>2, <1>3
<1>5. \A i \in 1 .. l : i # l - 1 /\ i # l - 2 => f[i] = segs[i]
  BY <1>1, <1>2, <1>3
<1>6. f \in Seq(S) /\ Len(f) = l
  BY <1>1, <1>4
<1> QED
  BY <1>4, <1>5, <1>6 DEF f, l, IsRenamed

LEMMA Sizes == ASSUME NEW n, n \in {3, 4, 5} PROVE n >= 3
  OBVIOUS

LEMMA RenamedRequest ==
    ASSUME NEW S, NEW segs \in Seq(S), Len(segs) \in {3, 4, 5}, segs[Len(segs)] = "svc",
           NEW s \in S, NEW n \in S
    PROVE  LET r == parseRequest(segs)
               q == parseRequest(Renamed(segs, s, n)) IN
           /\ q.service = s /\ q.ns = n
           /\ q.endpoint = r.endpoint /\ q.port = r.port /\ q.proto = r.proto
<1> DEFINE l == Len(segs)
           f == Renamed(segs, s, n)
           r == parseRequest(segs)
           q == parseRequest(f)
<1>1. l >= 3
  BY Sizes
<1>2. /\ f \in Seq(S) /\ Len(f) = l /\ f[l - 1] = n /\ f[l - 2] = s
      /\ \A i \in 1 .. l : i # l - 1 /\ i # l - 2 => f[i] = segs[i]
  BY <1>1, Replaced DEF IsRenamed
<1>3. l \in 2 .. 5 /\ l > 2 /\ f[l] = segs[l]
  <2> HIDE DEF f
  <2> QED
    BY <1>2
<1>4. /\ r.endpoint = IF l = 4 THEN segs[1] ELSE Unset
      /\ r.port = IF l = 5 THEN stripUnderscore(segs[1]) ELSE "*"
      /\ r.proto = IF l = 5 THEN stripUnderscore(segs[2]) ELSE "*"
  BY <1>3, ParseFields
<1> HIDE DEF f
<1>5. /\ q.service = f[l - 2] /\ q.ns = f[l - 1]
      /\ q.endpoint = IF l = 4 THEN f[1] ELSE Unset
      /\ q.port = IF l = 5 THEN stripUnderscore(f[1]) ELSE "*"
      /\ q.proto = IF l = 5 THEN stripUnderscore(f[2]) ELSE "*"
  BY <1>2, <1>3, ParseFields
<1>6. (l = 4 => f[1] = segs[1]) /\ (l = 5 => f[1] = segs[1] /\ f[2] = segs[2])
  BY <1>2
<1> HIDE DEF r, q, l
<1>7. q.endpoint = r.endpoint /\ q.port = r.port /\ q.proto = r.proto
  BY <1>4, <1>5, <1>6
<1> QED
  BY <1>2, <1>5, <1>7 DEF r, q, f

\* The record of a service that its own name hides as empty.
LEMMA HiddenRecord ==
    ASSUME NEW c, Converted(c), NEW s \in c.svcs, NEW q, q.service = s.name, q.ns = s.ns,
           HiddenAsEmpty(c, q, s), NEW r, NEW x \in ServiceRecords(c, r, s)
    PROVE  EmptyService(c, s) /\ x.key = <<s.name, s.ns>>
<1>1. EmptyService(c, s) /\ s.type = "cluster"
  BY DEF EmptyService, HiddenAsEmpty
<1>2. CASE r.endpoint # Unset
  <2>1. PICK e \in EndpointsOf(c, s) : \E sub \in e.subsets : \E a \in sub.addrs : TRUE
    BY <1>2, EndpointRecordOf
  <2> QED
    BY <1>1, <2>1 DEF EmptyService, EndpointsOf
<1>3. CASE r.endpoint = Unset
  <2>1. ServiceRecords(c, r, s) =
            {[host |-> s.host, port |-> p.num, key |-> <<s.name, s.ns>>] :
                p \in {u \in s.ports : match(r.port, u.name) /\ match(r.proto, u.proto)}}
    BY <1>1, <1>3 DEF ServiceRecords
  <2>2. PICK p : x = [host |-> s.host, port |-> p.num, key |-> <<s.name, s.ns>>]
    BY <2>1
  <2> QED
    BY <1>1, <2>2
<1> QED
  BY <1>2, <1>3

\* A request for services spelt with the labels S, which cover the services' own names.
Spelled(c, S, segs) ==
    /\ Converted(c)
    /\ segs \in Seq(S) /\ Len(segs) \in {3, 4, 5} /\ segs[Len(segs)] = "svc"
    /\ \A t \in c.svcs : t.name \in S /\ t.ns \in S

\* Some service that the request matches has the record under its own name, or is hidden
\* there as empty.
ToldOfOne(c, segs, x) ==
    \E s \in c.svcs : /\ match(parseRequest(segs).service, s.name)
                      /\ match(parseRequest(segs).ns, s.ns)
                      /\ \/ x \in Records(c, Renamed(segs, s.name, s.ns)).recs
                         \/ EmptyService(c, s) /\ x.key = <<s.name, s.ns>>

\* What a wildcard request tells of a service is what the service's own name tells, or hides
\* as empty.
LEMMA WildcardTold ==
    ASSUME NEW c, NEW S, NEW segs, Spelled(c, S, segs),
           NEW x \in Records(c, segs).recs
    PROVE  ToldOfOne(c, segs, x)
<1> SUFFICES \E s \in c.svcs : /\ match(parseRequest(segs).service, s.name)
                               /\ match(parseRequest(segs).ns, s.ns)
                               /\ \/ x \in Records(c, Renamed(segs, s.name, s.ns)).recs
                                  \/ EmptyService(c, s) /\ x.key = <<s.name, s.ns>>
  BY Zenon DEF ToldOfOne
<1> DEFINE l == Len(segs)
           r == parseRequest(segs)
<1>0. /\ Converted(c) /\ segs \in Seq(S) /\ Len(segs) \in {3, 4, 5} /\ segs[Len(segs)] = "svc"
      /\ \A t \in c.svcs : t.name \in S /\ t.ns \in S
  BY Zenon DEF Spelled
<1> USE <1>0
<1>1. /\ r.service # Unset /\ (wildcard(r.ns) \/ namespaceExposed(c, r.ns))
      /\ Records(c, segs) = findServices(c, r)
  BY Answered
<1> HIDE DEF r
<1>2. ~Fails(c, r) /\ x \in Told(c, r)
  BY <1>1, FindServices DEF Panic
<1>3. PICK s \in Found(c, r) : x \in ServiceRecords(c, r, s)
  BY <1>2 DEF Told
<1>4. /\ s \in c.svcs /\ match(r.ns, s.ns) /\ match(r.service, s.name)
      /\ wildcard(r.ns) => namespaceExposed(c, s.ns)
  BY <1>3 DEF Found
<1>5. namespaceExposed(c, s.ns)
  <2>1. s.ns # "*"
    BY <1>4 DEF Converted, CachedService, Label
  <2> QED
    BY <1>1, <1>4, <2>1 DEF match, wildcard
<1> DEFINE f == Renamed(segs, s.name, s.ns)
           q == parseRequest(f)
<1>6. l >= 3 /\ s.name \in S /\ s.ns \in S
  BY <1>4, Sizes
<1>7. /\ f \in Seq(S) /\ Len(f) = l /\ f[l - 1] = s.ns /\ f[l - 2] = s.name
      /\ \A i \in 1 .. l : i # l - 1 /\ i # l - 2 => f[i] = segs[i]
  <2>1. IsRenamed(S, segs, s.name, s.ns, f)
    BY <1>6, Replaced
  <2> HIDE DEF f
  <2> QED
    BY <2>1 DEF IsRenamed
<1>8. f[l] = "svc"
  BY <1>7
<1>9. /\ q.service = s.name /\ q.ns = s.ns
      /\ q.endpoint = r.endpoint /\ q.port = r.port /\ q.proto = r.proto
  BY <1>6, RenamedRequest DEF r
<1> HIDE DEF f
<1>10. CASE HiddenAsEmpty(c, q, s)
  <2> HIDE DEF q
  <2>1. EmptyService(c, s) /\ x.key = <<s.name, s.ns>>
    BY <1>3, <1>4, <1>9, <1>10, HiddenRecord
  <2> QED
    BY <1>4, <2>1 DEF r
<1>11. c.conf.endpoints \/ ~ReadsEndpoints(c, q, s)
  BY <1>2, <1>3, <1>9 DEF Fails, ReadsEndpoints
<1>12. ASSUME ~HiddenAsEmpty(c, q, s) PROVE Records(c, f).recs = ServiceRecords(c, q, s)
  <2>1. Len(f) \in 3 .. 5 /\ f[Len(f)] = "svc" /\ f[Len(f) - 1] = s.ns /\ f[Len(f) - 2] = s.name
    BY <1>7, <1>8
  <2> HIDE DEF q
  <2> QED
    BY <1>4, <1>5, <1>7, <1>11, <1>12, <2>1, ServiceAnswer DEF q
<1> HIDE DEF q
<1>13. x \in ServiceRecords(c, q, s)
  BY <1>3, <1>4, <1>9, SameAsked
<1> QED
  BY <1>4, <1>10, <1>12, <1>13 DEF f, r, q

\* What the name of a service tells is among what a wildcard for it tells.
LEMMA ToldByWildcard ==
    ASSUME NEW c, Converted(c), NEW S, NEW segs \in Seq(S),
           Len(segs) \in {3, 4, 5}, segs[Len(segs)] = "svc",
           Records(c, segs) # Panic, NEW s \in S, NEW n \in S, s # "*", n # "*",
           match(parseRequest(segs).service, s), match(parseRequest(segs).ns, n),
           NEW x \in Records(c, Renamed(segs, s, n)).recs
    PROVE  x \in Records(c, segs).recs
<1> DEFINE l == Len(segs)
           f == Renamed(segs, s, n)
           r == parseRequest(segs)
           q == parseRequest(f)
<1>1. l >= 3
  BY Sizes
<1>2. /\ f \in Seq(S) /\ Len(f) = l
      /\ \A i \in 1 .. l : i # l - 1 /\ i # l - 2 => f[i] = segs[i]
  BY <1>1, Replaced DEF IsRenamed
<1>3. f[l] = "svc"
  BY <1>2
<1>4. /\ q.service = s /\ q.ns = n
      /\ q.endpoint = r.endpoint /\ q.port = r.port /\ q.proto = r.proto
  BY RenamedRequest
<1>5. r.err = "none" /\ r.podOrSvc = "svc"
  <2>1. l \in 2 .. 5
    OBVIOUS
  <2> QED
    BY <2>1, ParseFields
<1> HIDE DEF r, f
<1>6. /\ q.service # Unset /\ (wildcard(q.ns) \/ namespaceExposed(c, q.ns))
      /\ Records(c, f) = findServices(c, q)
  BY <1>2, <1>3, Answered DEF f
<1> HIDE DEF q
<1>7. namespaceExposed(c, n) /\ s # Unset
  BY <1>4, <1>6 DEF wildcard
<1>8. /\ r.service # Unset /\ (wildcard(r.ns) \/ namespaceExposed(c, r.ns))
  BY <1>7, UnsetFacts DEF match, wildcard, r
<1>9. Records(c, segs) = findServices(c, r)
  BY <1>5, <1>8, RecordsOf, UnsetFacts DEF r
<1>10. ~Fails(c, r) /\ Records(c, segs).recs = Told(c, r)
  BY <1>8, <1>9, FindServices
<1>11. x \in Told(c, q)
  BY <1>6, FindServices DEF Panic, f
<1>12. PICK t \in Found(c, q) : x \in ServiceRecords(c, q, t) /\ ~HiddenAsEmpty(c, q, t)
  BY <1>11 DEF Told
<1>13. t \in c.svcs /\ match(n, t.ns) /\ match(s, t.name)
  BY <1>4, <1>12 DEF Found
<1>14. t.name = s /\ t.ns = n
  <2>1. t.name # "*" /\ t.ns # "*"
    BY <1>13 DEF Converted, CachedService, Label
  <2> QED
    BY <1>13, <2>1 DEF match, wildcard
<1>15. t \in Found(c, r)
  BY <1>7, <1>13, <1>14 DEF Found, r
<1>16. x \in ServiceRecords(c, r, t)
  BY <1>4, <1>12, <1>13, SameAsked
<1>17. ~HiddenAsEmpty(c, r, t)
  <2>1. (wildcard(r.service) \/ r.service = s) /\ (wildcard(r.ns) \/ r.ns = n)
    BY DEF match, wildcard, r
  <2> QED
    BY <1>4, <1>12, <2>1 DEF HiddenAsEmpty, wildcard
<1> QED
  BY <1>10, <1>15, <1>16, <1>17 DEF Told

LEMMA LargerAlphabet ==
    ASSUME NEW T, NEW S, T \subseteq S, NEW segs \in Seq(T)
    PROVE  segs \in Seq(S)
  OBVIOUS

\* What a wildcard finds is what the names it stands for have, one by one, and besides only
\* the records of services that are hidden as empty under their names (kubernetes.go:440-478).
THEOREM WildcardsAreUnions == Spec => []WildcardIsUnion
<1>1. LookedUp => WildcardIsUnion
  <2> DEFINE svc == parseRequest(name).service
             ns == parseRequest(name).ns
             Svcs == IF wildcard(svc) THEN {x.name : x \in w.svcs} ELSE {svc}
             Nss == IF wildcard(ns) THEN {x.ns : x \in w.svcs} ELSE {ns}
             Concrete == {Renamed(name, s, n) : s \in Svcs, n \in Nss}
             l == Len(name)
             All(c) == UNION {Records(c, f).recs : f \in StandsFor(c, name)}
  <2> SUFFICES ASSUME LookedUp, l >= 3, name[l] = "svc", answer # Panic
               PROVE  /\ All(w) \subseteq answer.recs
                      /\ \A x \in answer.recs \ All(w) :
                            \E s \in w.svcs : EmptyService(w, s) /\ x.key = <<s.name, s.ns>>
    BY Zenon DEF WildcardIsUnion
  <2>0. StandsFor(w, name) = Concrete
    BY DEF StandsFor
  <2>1. PICK T : Converted(w) /\ name \in Seq(T) /\ answer = Records(w, name)
    BY DEF LookedUp
  <2> DEFINE S == T \cup {svc, ns} \cup {x.name : x \in w.svcs} \cup {x.ns : x \in w.svcs}
  <2>2. name \in Seq(S) /\ svc \in S /\ ns \in S /\ \A t \in w.svcs : t.name \in S /\ t.ns \in S
    BY <2>1, LargerAlphabet
  <2> HIDE DEF S, svc, ns
  <2>3. \A t \in w.svcs : t.name # "*" /\ t.ns # "*"
    BY <2>1 DEF Converted, CachedService, Label
  <2>4. ASSUME NEW x \in answer.recs
        PROVE  \/ \E c \in Concrete : x \in Records(w, c).recs
               \/ \E s \in w.svcs : EmptyService(w, s) /\ x.key = <<s.name, s.ns>>
    <3>1. l \in {3, 4, 5}
      BY <2>1, <2>4, Answered
    <3>2. PICK s \in w.svcs : /\ match(svc, s.name) /\ match(ns, s.ns)
                              /\ \/ x \in Records(w, Renamed(name, s.name, s.ns)).recs
                                 \/ EmptyService(w, s) /\ x.key = <<s.name, s.ns>>
      <4>1. x \in Records(w, name).recs /\ Len(name) \in {3, 4, 5} /\ name[Len(name)] = "svc"
        BY <2>1, <2>4, <3>1
      <4>2. ToldOfOne(w, name, x)
        <5>1. Spelled(w, S, name)
          BY <2>1, <2>2, <4>1, Zenon DEF Spelled
        <5> QED
          BY <4>1, <5>1, WildcardTold
      <4> QED
        BY <4>2, Zenon DEF ToldOfOne, svc, ns
    <3>3. s.name \in Svcs /\ s.ns \in Nss
      BY <2>3, <3>2 DEF match, wildcard
    <3> QED
      BY <3>2, <3>3
  <2>5. ASSUME NEW s \in Svcs, NEW n \in Nss, NEW x \in Records(w, Renamed(name, s, n)).recs
        PROVE  x \in answer.recs
    <3>1. s # "*" /\ n # "*" /\ s \in S /\ n \in S /\ match(svc, s) /\ match(ns, n)
      BY <2>2, <2>3 DEF match, wildcard
    <3> DEFINE f == Renamed(name, s, n)
    <3>2. f \in Seq(S) /\ Len(f) = l
      BY <2>2, <3>1, Replaced DEF IsRenamed
    <3> HIDE DEF f
    <3>3. l \in {3, 4, 5}
      BY <2>5, <3>2, Answered DEF f
    <3> QED
      BY <2>1, <2>2, <2>5, <3>1, <3>3, ToldByWildcard DEF svc, ns
  <2> HIDE DEF Svcs, Nss
  <2> QED
    BY <2>0, <2>4, <2>5
<1> QED
  BY <1>1, LookedUpInvariant, PTL
=============================================================================
