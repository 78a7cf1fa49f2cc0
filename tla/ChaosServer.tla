---------------------------- MODULE ChaosServer ----------------------------
(***************************************************************************)
(* The chaos rules of the k8s_dns_chaos plugin and everyone who touches    *)
(* them: the gRPC handlers SetDNSChaos and CancelDNSChaos                  *)
(* (grpc_server.go), the DNS path getChaosPod / needChaos / chaosDNS       *)
(* (chaos.go, called by ServeDNS in handler.go), and the start-up code     *)
(* that loads the rules of the Corefile (setup.go, kubernetes.go).         *)
(*                                                                         *)
(* The rules live in three Go maps (chaosMap, podMap, ipPodMap) that hold  *)
(* pointers to PodInfo objects.  Every handler runs in a goroutine of its  *)
(* own and brackets its work with Lock/Unlock, but the methods have VALUE  *)
(* receivers, func (k Kubernetes): each call locks the RWMutex of its own  *)
(* copy of the struct, while the maps in the copy are the shared ones.  So *)
(* the lock excludes nobody, and a step of this module is one access to a  *)
(* shared map (or one call of the Kubernetes API), not a critical section. *)
(* A read of a PodInfo field is part of the map access it is made for.     *)
(***************************************************************************)
EXTENDS Naturals, Sequences

CONSTANTS
    Pods,          \* pods, each a (namespace, name) pair
    Namespaces,    \* Kubernetes namespaces
    NsOf,          \* the namespace of each pod
    IPs,           \* pod IP addresses
    NoIP,          \* the empty PodIP of a pod that has none yet
    Absent,        \* the API server knows no such pod
    Nil,           \* Go's nil: no map entry, no pointer, no selector
    Patterns,      \* patterns a SetDNSChaos request may carry
    BadPatterns,   \* the patterns trieselector.Insert refuses
    Matches,       \* the queried names each pattern matches
    QNames,        \* DNS names that pods look up
    ChaosNames,    \* names of chaos experiments
    Requests,      \* SetDNSChaos requests the controller may send
    Corefile,      \* the pods of the Corefile's chaos lines, in order
    Rpcs,          \* goroutines that serve gRPC calls
    Dnss,          \* goroutines that serve DNS queries
    OverdueAfter,  \* age, in clock ticks, after which a PodInfo is overdue
    MaxSets,       \* bound: SetDNSChaos calls in one life of the process
    MaxMoves,      \* bound: changes of a pod's address
    MaxTime        \* bound: clock ticks

Addr == IPs \cup {NoIP}
Actions == {"error", "random"}
Scopes == {"inner", "outer", "all"}
QTypes == {"address", "other"}   \* A and AAAA, or any other type

\* PodInfo objects are named by the request that created them (0: the Corefile)
\* and their pod, the fields Namespace and Name, which never change.
Infos == (0 .. MaxSets) \X Pods
PodOf(i) == i[2]

\* The other fields of PodInfo; stamp is LastUpdateTime.
PodInfos == [action : Actions, scope : Scopes \cup {""},
             sel : {Nil} \cup SUBSET Patterns, ip : Addr, stamp : 0 .. MaxTime]

ASSUME BoundsAssumption ==
    /\ OverdueAfter \in Nat /\ MaxSets \in Nat
    /\ MaxMoves \in Nat /\ MaxTime \in Nat

ASSUME NamesAssumption ==
    /\ NsOf \in [Pods -> Namespaces]
    /\ Matches \in [Patterns -> SUBSET QNames]
    /\ BadPatterns \subseteq Patterns
    /\ Nil \notin Infos /\ Nil \notin PodInfos /\ Nil \notin Requests
    /\ NoIP \notin IPs /\ Absent \notin Addr
    /\ Rpcs \cap Dnss = {}

\* A request names a pod at most once.
ASSUME RequestsAssumption ==
    /\ Requests \subseteq [name : ChaosNames, pods : Seq(Pods), action : Actions,
                           scope : Scopes, patterns : SUBSET Patterns]
    /\ \A r \in Requests : \A j, k \in DOMAIN r.pods : r.pods[j] = r.pods[k] => j = k

ASSUME CorefileAssumption ==
    Corefile \in Seq([pod : Pods, action : Actions, scope : Scopes])

VARIABLES
    phase,      \* "down", "init" (setup runs), "grpc" (RPCs only) or "up" (DNS too)
    initTodo,   \* pods of the Corefile that InitKubeCache has still to look up
    chaosMap,   \* chaos name -> the last request of that name
    nsMaps,     \* the namespaces that have an inner map in podMap
    podMap,     \* pod -> its PodInfo
    ipPodMap,   \* address -> the PodInfo a query from it is judged by
    heap,       \* the PodInfo objects
    sets,       \* SetDNSChaos calls taken in this life of the process
    rpc,        \* the gRPC goroutines: program counter and locals
    dns,        \* the DNS goroutines: program counter and locals
    now,        \* the clock
    cluster,    \* the address the API server has for each pod
    moves,      \* address changes so far
    owned       \* history: every <<address, pod>> the API server ever reported

rules == <<chaosMap, nsMaps, podMap, ipPodMap, heap>>
server == <<phase, initTodo, sets>>
env == <<now, cluster, moves, owned>>
vars == <<rules, server, rpc, dns, env>>

Idle == [pc |-> "idle", name |-> Nil, req |-> Nil, n |-> 0, k |-> 0,
         ip |-> NoIP, old |-> Nil, ns |-> {}]
Quiet == [pc |-> "idle", by |-> Nil, src |-> NoIP, qname |-> Nil, qtype |-> "other",
          info |-> Nil, ip |-> NoIP, reply |-> Nil]

-----------------------------------------------------------------------------
(* Start-up and crash                                                      *)

\* The PodInfo an entry of a Corefile chaos line makes: no selector, no address yet.
CorefileInfo(e) ==
    [action |-> e.action, scope |-> e.scope, sel |-> Nil, ip |-> NoIP, stamp |-> 0]

\* The last entry of the Corefile for a pod wins.
CorefileEntry(p) ==
    Corefile[CHOOSE k \in DOMAIN Corefile :
                /\ Corefile[k].pod = p
                /\ \A j \in DOMAIN Corefile : Corefile[j].pod = p => j <= k]

CorefilePods == {Corefile[k].pod : k \in DOMAIN Corefile}

Init ==
    /\ phase = "down" /\ initTodo = {}
    /\ chaosMap = [c \in ChaosNames |-> Nil]
    /\ nsMaps = {}
    /\ podMap = [p \in Pods |-> Nil]
    /\ ipPodMap = [a \in Addr |-> Nil]
    /\ heap = [i \in Infos |-> Nil]
    /\ sets = 0
    /\ rpc = [h \in Rpcs |-> Idle]
    /\ dns = [h \in Dnss |-> Quiet]
    /\ now = 0 /\ moves = 0
    /\ cluster \in [Pods -> Addr \cup {Absent}]
    /\ \A p, q \in Pods : p # q /\ cluster[p] \in IPs => cluster[p] # cluster[q]
    /\ owned = {<<cluster[p], p>> : p \in {q \in Pods : cluster[q] # Absent}}

\* New and ParseStanza: fresh maps, and podMap filled from the chaos lines.
Boot ==
    /\ phase = "down"
    /\ phase' = "init" /\ initTodo' = CorefilePods
    /\ nsMaps' = {NsOf[p] : p \in CorefilePods}
    /\ podMap' = [p \in Pods |-> IF p \in CorefilePods THEN <<0, p>> ELSE Nil]
    /\ heap' = [i \in Infos |-> IF i[1] = 0 /\ PodOf(i) \in CorefilePods
                                THEN CorefileInfo(CorefileEntry(PodOf(i))) ELSE Nil]
    /\ UNCHANGED <<chaosMap, ipPodMap, sets, rpc, dns, env>>

\* InitKubeCache looks up the address of one chaos pod; map order is random.
InitPod(p) ==
    /\ phase = "init" /\ p \in initTodo
    /\ cluster[p] # Absent
    /\ heap' = [heap EXCEPT ![podMap[p]].ip = cluster[p], ![podMap[p]].stamp = now]
    /\ ipPodMap' = [ipPodMap EXCEPT ![cluster[p]] = podMap[p]]
    /\ initTodo' = initTodo \ {p}
    /\ UNCHANGED <<chaosMap, nsMaps, podMap, phase, sets, rpc, dns, env>>

\* The process ends and everything it held in memory with it.
Crash ==
    /\ phase' = "down" /\ initTodo' = {} /\ sets' = 0
    /\ chaosMap' = [c \in ChaosNames |-> Nil]
    /\ nsMaps' = {}
    /\ podMap' = [p \in Pods |-> Nil]
    /\ ipPodMap' = [a \in Addr |-> Nil]
    /\ heap' = [i \in Infos |-> Nil]
    /\ rpc' = [h \in Rpcs |-> Idle]
    /\ dns' = [h \in Dnss |-> Quiet]
    /\ UNCHANGED env

\* A failed lookup or listen is an error of setup and so ends the process.
InitFails == phase = "init" /\ Crash

CreateGRPCServer ==
    /\ phase = "init" /\ initTodo = {}
    /\ phase' = "grpc"
    /\ UNCHANGED <<rules, initTodo, sets, rpc, dns, env>>

\* The OnStartup functions have run and CoreDNS takes queries.
OnStartup ==
    /\ phase = "grpc"
    /\ phase' = "up"
    /\ UNCHANGED <<rules, initTodo, sets, rpc, dns, env>>

-----------------------------------------------------------------------------
(* SetDNSChaos                                                             *)

Pod(h) == rpc[h].req.pods[rpc[h].k]
Info(h) == <<rpc[h].n, Pod(h)>>

\* Variant: the loop runs one iteration too long.
LastPodOffByOne(h) == rpc[h].k > Len(rpc[h].req.pods)

\* Variant: the call returns from inside the loop.
LastPodReturnsEarly(h) == rpc[h].k <= Len(rpc[h].req.pods)

\* The loop over the request's pods: its last iteration, and the step to the next.
LastPod(h) == rpc[h].k = Len(rpc[h].req.pods)
NextPod(h, label) == rpc' = [rpc EXCEPT ![h].pc = label, ![h].k = @ + 1,
                                        ![h].ip = NoIP, ![h].old = Nil]
Goto(h, label) == rpc' = [rpc EXCEPT ![h].pc = label]
Return(h) == rpc' = [rpc EXCEPT ![h] = Idle]

\* A request without patterns is for all names, whatever its own scope says.
ScopeOf(r) == IF r.patterns = {} THEN "all" ELSE ""

NewInfo(h) ==
    [action |-> rpc[h].req.action, scope |-> ScopeOf(rpc[h].req),
     sel |-> rpc[h].req.patterns, ip |-> rpc[h].ip, stamp |-> now]

SetDNSChaos(h, r) ==
    /\ phase \in {"grpc", "up"} /\ rpc[h].pc = "idle" /\ sets < MaxSets
    /\ sets' = sets + 1
    /\ rpc' = [rpc EXCEPT ![h] = [Idle EXCEPT !.pc = "setRecord", !.req = r,
                                              !.n = sets + 1]]
    /\ UNCHANGED <<rules, phase, initTodo, dns, env>>

\* chaosMap[req.Name] = req; then the selector, whose errors end the call.
SetRecord(h) ==
    /\ rpc[h].pc = "setRecord"
    /\ chaosMap' = [chaosMap EXCEPT ![rpc[h].req.name] = rpc[h].req]
    /\ IF rpc[h].req.patterns \cap BadPatterns # {} \/ rpc[h].req.pods = <<>>
       THEN Return(h)
       ELSE rpc' = [rpc EXCEPT ![h].pc = "setGetPod", ![h].k = 1]
    /\ UNCHANGED <<nsMaps, podMap, ipPodMap, heap, server, dns, env>>

\* Variant: the pod that was fetched is kept in a variable all calls share.
SetGetPodShared(h) ==
    /\ rpc[h].pc = "setGetPod"
    /\ cluster[Pod(h)] # Absent
    /\ rpc' = [g \in Rpcs |-> [rpc[g] EXCEPT !.ip = cluster[Pod(h)],
                                             !.pc = IF g = h THEN "setCheckNs" ELSE @]]
    /\ UNCHANGED <<rules, server, dns, env>>

SetGetPod(h) ==
    /\ rpc[h].pc = "setGetPod"
    /\ cluster[Pod(h)] # Absent
    /\ rpc' = [rpc EXCEPT ![h].pc = "setCheckNs", ![h].ip = cluster[Pod(h)]]
    /\ UNCHANGED <<rules, server, dns, env>>

\* Variant: a call that fails takes its experiment out of chaosMap.
SetGetPodFailsForgets(h) ==
    /\ rpc[h].pc = "setGetPod"
    /\ chaosMap' = [chaosMap EXCEPT ![rpc[h].req.name] = Nil]
    /\ Return(h)
    /\ UNCHANGED <<nsMaps, podMap, ipPodMap, heap, server, dns, env>>

\* Variant: the error is logged, and the call goes on with an empty pod.
SetGetPodFailsGoesOn(h) ==
    /\ rpc[h].pc = "setGetPod"
    /\ Goto(h, "setCheckNs")
    /\ UNCHANGED <<rules, server, dns, env>>

\* NotFound, or the API server cannot be reached: the pods done so far stay done.
SetGetPodFails(h) ==
    /\ rpc[h].pc = "setGetPod"
    /\ Return(h)
    /\ UNCHANGED <<rules, server, dns, env>>

\* Variant: the inner map is taken to exist.
SetCheckNsMissing(h) ==
    /\ rpc[h].pc = "setCheckNs"
    /\ Goto(h, "setFindOld")
    /\ UNCHANGED <<rules, server, dns, env>>

SetCheckNs(h) ==
    /\ rpc[h].pc = "setCheckNs"
    /\ Goto(h, IF NsOf[Pod(h)] \in nsMaps THEN "setFindOld" ELSE "setMakeNs")
    /\ UNCHANGED <<rules, server, dns, env>>

\* The new inner map takes the place of one that another call made since the check.
SetMakeNs(h) ==
    /\ rpc[h].pc = "setMakeNs"
    /\ nsMaps' = nsMaps \cup {NsOf[Pod(h)]}
    /\ podMap' = [p \in Pods |-> IF NsOf[p] = NsOf[Pod(h)] THEN Nil ELSE podMap[p]]
    /\ Goto(h, "setFindOld")
    /\ UNCHANGED <<chaosMap, ipPodMap, heap, server, dns, env>>

SetFindOld(h) ==
    /\ rpc[h].pc = "setFindOld"
    /\ rpc' = [rpc EXCEPT ![h].old = podMap[Pod(h)],
                          ![h].pc = IF podMap[Pod(h)] = Nil THEN "setStorePod" ELSE "setDropPod"]
    /\ UNCHANGED <<rules, server, dns, env>>

SetDropPod(h) ==
    /\ rpc[h].pc = "setDropPod"
    /\ podMap' = [podMap EXCEPT ![Pod(h)] = Nil]
    /\ Goto(h, "setDropIP")
    /\ UNCHANGED <<chaosMap, nsMaps, ipPodMap, heap, server, dns, env>>

SetDropIP(h) ==
    /\ rpc[h].pc = "setDropIP"
    /\ ipPodMap' = [ipPodMap EXCEPT ![heap[rpc[h].old].ip] = Nil]
    /\ Goto(h, "setStorePod")
    /\ UNCHANGED <<chaosMap, nsMaps, podMap, heap, server, dns, env>>

\* Variant: the old PodInfo of the pod gets the new rule as well.
SetStorePodInPlace(h) ==
    /\ rpc[h].pc = "setStorePod"
    /\ NsOf[Pod(h)] \in nsMaps
    /\ heap' = [i \in Infos |-> IF i \in {Info(h), rpc[h].old} THEN NewInfo(h) ELSE heap[i]]
    /\ podMap' = [podMap EXCEPT ![Pod(h)] = Info(h)]
    /\ Goto(h, "setStoreIP")
    /\ UNCHANGED <<chaosMap, nsMaps, ipPodMap, server, dns, env>>

SetStorePod(h) ==
    /\ rpc[h].pc = "setStorePod"
    /\ NsOf[Pod(h)] \in nsMaps
    /\ heap' = [heap EXCEPT ![Info(h)] = NewInfo(h)]
    /\ podMap' = [podMap EXCEPT ![Pod(h)] = Info(h)]
    /\ Goto(h, "setStoreIP")
    /\ UNCHANGED <<chaosMap, nsMaps, ipPodMap, server, dns, env>>

SetStoreIP(h) ==
    /\ rpc[h].pc = "setStoreIP"
    /\ ipPodMap' = [ipPodMap EXCEPT ![rpc[h].ip] = Info(h)]
    /\ IF LastPod(h) THEN Return(h) ELSE NextPod(h, "setGetPod")
    /\ UNCHANGED <<chaosMap, nsMaps, podMap, heap, server, dns, env>>

-----------------------------------------------------------------------------
(* CancelDNSChaos                                                          *)

CancelDNSChaos(h, c) ==
    /\ phase \in {"grpc", "up"} /\ rpc[h].pc = "idle"
    /\ rpc' = [rpc EXCEPT ![h] = [Idle EXCEPT !.pc = "cancelCheck", !.name = c]]
    /\ UNCHANGED <<rules, server, dns, env>>

CancelCheck(h) ==
    /\ rpc[h].pc = "cancelCheck"
    /\ IF chaosMap[rpc[h].name] = Nil THEN Return(h) ELSE Goto(h, "cancelLoad")
    /\ UNCHANGED <<rules, server, dns, env>>

\* The map is read a second time for the pods to range over.
CancelLoad(h) ==
    /\ rpc[h].pc = "cancelLoad"
    /\ chaosMap[rpc[h].name] # Nil
    /\ rpc' = [rpc EXCEPT ![h].req = chaosMap[rpc[h].name], ![h].k = 1,
                          ![h].pc = IF chaosMap[rpc[h].name].pods = <<>>
                                    THEN "cancelScan" ELSE "cancelFind"]
    /\ UNCHANGED <<rules, server, dns, env>>

CancelFind(h) ==
    /\ rpc[h].pc = "cancelFind"
    /\ CASE podMap[Pod(h)] # Nil ->
                rpc' = [rpc EXCEPT ![h].pc = "cancelDropPod", ![h].old = podMap[Pod(h)]]
         [] podMap[Pod(h)] = Nil /\ LastPod(h) -> Goto(h, "cancelScan")
         [] podMap[Pod(h)] = Nil /\ ~LastPod(h) -> NextPod(h, "cancelFind")
    /\ UNCHANGED <<rules, server, dns, env>>

CancelDropPod(h) ==
    /\ rpc[h].pc = "cancelDropPod"
    /\ podMap' = [podMap EXCEPT ![Pod(h)] = Nil]
    /\ Goto(h, "cancelDropIP")
    /\ UNCHANGED <<chaosMap, nsMaps, ipPodMap, heap, server, dns, env>>

\* Variant: the entry of ipPodMap is forgotten.
CancelDropIPMissing(h) ==
    /\ rpc[h].pc = "cancelDropIP"
    /\ IF LastPod(h) THEN Goto(h, "cancelScan") ELSE NextPod(h, "cancelFind")
    /\ UNCHANGED <<rules, server, dns, env>>

CancelDropIP(h) ==
    /\ rpc[h].pc = "cancelDropIP"
    /\ ipPodMap' = [ipPodMap EXCEPT ![heap[rpc[h].old].ip] = Nil]
    /\ IF LastPod(h) THEN Goto(h, "cancelScan") ELSE NextPod(h, "cancelFind")
    /\ UNCHANGED <<chaosMap, nsMaps, podMap, heap, server, dns, env>>

\* shouldDeleteNs: the namespaces whose inner map is empty now.
CancelScan(h) ==
    /\ rpc[h].pc = "cancelScan"
    /\ rpc' = [rpc EXCEPT
            ![h].pc = "cancelPrune", ![h].old = Nil,
            ![h].ns = {n \in nsMaps : \A p \in Pods : NsOf[p] = n => podMap[p] = Nil}]
    /\ UNCHANGED <<rules, server, dns, env>>

\* Deleting a namespace drops its inner map with whatever it holds by then.
CancelPrune(h, n) ==
    /\ rpc[h].pc = "cancelPrune" /\ n \in rpc[h].ns
    /\ nsMaps' = nsMaps \ {n}
    /\ podMap' = [p \in Pods |-> IF NsOf[p] = n THEN Nil ELSE podMap[p]]
    /\ rpc' = [rpc EXCEPT ![h].ns = @ \ {n}]
    /\ UNCHANGED <<chaosMap, ipPodMap, heap, server, dns, env>>

CancelForget(h) ==
    /\ rpc[h].pc = "cancelPrune" /\ rpc[h].ns = {}
    /\ chaosMap' = [chaosMap EXCEPT ![rpc[h].name] = Nil]
    /\ Return(h)
    /\ UNCHANGED <<nsMaps, podMap, ipPodMap, heap, server, dns, env>>

-----------------------------------------------------------------------------
(* ServeDNS: getChaosPod, needChaos, chaosDNS                              *)

Query(h, p, qname, qtype) ==
    /\ phase = "up" /\ dns[h].pc \in {"idle", "replied"}
    /\ cluster[p] \in IPs
    /\ dns' = [dns EXCEPT ![h] = [Quiet EXCEPT !.pc = "lookup", !.by = p,
                     !.src = cluster[p], !.qname = qname, !.qtype = qtype]]
    /\ UNCHANGED <<rules, server, rpc, env>>

IsOverdue(i) == now - heap[i].stamp > OverdueAfter

Lookup(h) ==
    /\ dns[h].pc = "lookup"
    /\ LET i == ipPodMap[dns[h].src]
       IN  dns' = [dns EXCEPT ![h].info = i,
                     ![h].pc = IF i # Nil /\ IsOverdue(i) THEN "fetch" ELSE "judge"]
    /\ UNCHANGED <<rules, server, rpc, env>>

Fetch(h) ==
    /\ dns[h].pc = "fetch"
    /\ cluster[PodOf(dns[h].info)] # Absent
    /\ dns' = [dns EXCEPT ![h].pc = "compare", ![h].ip = cluster[PodOf(dns[h].info)]]
    /\ UNCHANGED <<rules, server, rpc, env>>

\* The error is only logged: the query is answered as if its pod had no chaos.
FetchFails(h) ==
    /\ dns[h].pc = "fetch"
    /\ dns' = [dns EXCEPT ![h].pc = "judge", ![h].info = Nil]
    /\ UNCHANGED <<rules, server, rpc, env>>

\* Variant: a PodInfo that is still overdue is looked up once more.
CompareRetries(h) ==
    /\ dns[h].pc = "compare"
    /\ dns' = [dns EXCEPT ![h].pc = IF dns[h].ip # heap[dns[h].info].ip
                                    THEN "assign" ELSE "lookup"]
    /\ UNCHANGED <<rules, server, rpc, env>>

Compare(h) ==
    /\ dns[h].pc = "compare"
    /\ dns' = [dns EXCEPT ![h].pc = IF dns[h].ip # heap[dns[h].info].ip
                                    THEN "assign" ELSE "judge"]
    /\ UNCHANGED <<rules, server, rpc, env>>

Assign(h) ==
    /\ dns[h].pc = "assign"
    /\ heap' = [heap EXCEPT ![dns[h].info].ip = dns[h].ip, ![dns[h].info].stamp = now]
    /\ dns' = [dns EXCEPT ![h].pc = "dropIP"]
    /\ UNCHANGED <<chaosMap, nsMaps, podMap, ipPodMap, server, rpc, env>>

\* podInfo.IP is the new address by now: the entry of the old one stays.
DropIP(h) ==
    /\ dns[h].pc = "dropIP"
    /\ ipPodMap' = [ipPodMap EXCEPT ![heap[dns[h].info].ip] = Nil]
    /\ dns' = [dns EXCEPT ![h].pc = "storeIP"]
    /\ UNCHANGED <<chaosMap, nsMaps, podMap, heap, server, rpc, env>>

StoreIP(h) ==
    /\ dns[h].pc = "storeIP"
    /\ ipPodMap' = [ipPodMap EXCEPT ![dns[h].ip] = dns[h].info]
    /\ dns' = [dns EXCEPT ![h].pc = "judge"]
    /\ UNCHANGED <<chaosMap, nsMaps, podMap, heap, server, rpc, env>>

\* chaosDNS: any action but "error" is random; random knows addresses only.
chaosDNS(info, qtype) ==
    CASE info.action = "error" -> "error"
      [] info.action # "error" /\ qtype = "address" -> "random"
      [] OTHER -> "empty"

\* needChaos: a Corefile rule has no selector to call, so any scope but "all" panics.
Verdict(info, qname, qtype) ==
    CASE info = Nil -> "normal"
      [] info # Nil /\ info.scope = "all" -> chaosDNS(info, qtype)
      [] info # Nil /\ info.scope # "all" /\ info.sel = Nil -> "panic"
      [] OTHER -> IF \E pat \in info.sel : qname \in Matches[pat]
                  THEN chaosDNS(info, qtype) ELSE "normal"

\* CoreDNS recovers a panic of ServeDNS, so the process survives it.
Judge(h) ==
    /\ dns[h].pc = "judge"
    /\ LET info == IF dns[h].info = Nil THEN Nil ELSE heap[dns[h].info]
       IN  dns' = [dns EXCEPT ![h] =
                [Quiet EXCEPT !.pc = "replied", !.by = dns[h].by, !.info = dns[h].info,
                              !.reply = Verdict(info, dns[h].qname, dns[h].qtype)]]
    /\ UNCHANGED <<rules, server, rpc, env>>


-----------------------------------------------------------------------------
(* Fatal errors                                                            *)

\* A write to the nil inner map of a namespace, or chaosMap[req.Name].Pods of an
\* entry that is gone.  The gRPC server recovers no panic.
AtNilPanic(h) ==
    \/ rpc[h].pc = "setStorePod" /\ NsOf[Pod(h)] \notin nsMaps
    \/ rpc[h].pc = "cancelLoad" /\ chaosMap[rpc[h].name] = Nil

NilPanic(h) == AtNilPanic(h) /\ Crash

\* The Go maps the next step of a goroutine writes, and those it reads: podMap's
\* outer map, its inner maps (named by their namespace), chaosMap and ipPodMap.
RpcWrites(h) ==
    CASE rpc[h].pc = "setRecord" -> {<<"chaosMap">>}
      [] rpc[h].pc = "setMakeNs" -> {<<"podMap">>}
      [] rpc[h].pc \in {"setDropPod", "setStorePod", "cancelDropPod"} ->
            {<<"podMap", NsOf[Pod(h)]>>}
      [] rpc[h].pc \in {"setDropIP", "setStoreIP", "cancelDropIP"} -> {<<"ipPodMap">>}
      [] rpc[h].pc = "cancelPrune" /\ rpc[h].ns # {} -> {<<"podMap">>}
      [] rpc[h].pc = "cancelPrune" /\ rpc[h].ns = {} -> {<<"chaosMap">>}
      [] OTHER -> {}

RpcReads(h) ==
    CASE rpc[h].pc \in {"cancelCheck", "cancelLoad"} -> {<<"chaosMap">>}
      [] rpc[h].pc \in {"setCheckNs", "setDropPod", "setStorePod", "cancelDropPod",
                        "cancelScan"} -> {<<"podMap">>}
      [] rpc[h].pc \in {"setFindOld", "cancelFind"} ->
            {<<"podMap">>, <<"podMap", NsOf[Pod(h)]>>}
      [] OTHER -> {}

DnsWrites(h) == IF dns[h].pc \in {"dropIP", "storeIP"} THEN {<<"ipPodMap">>} ELSE {}
DnsReads(h) == IF dns[h].pc = "lookup" THEN {<<"ipPodMap">>} ELSE {}

Writes(g) == IF g \in Rpcs THEN RpcWrites(g) ELSE DnsWrites(g)
Reads(g) == IF g \in Rpcs THEN RpcReads(g) ELSE DnsReads(g)

MapRace ==
    \E g, h \in Rpcs \cup Dnss :
        g # h /\ Writes(g) \cap (Writes(h) \cup Reads(h)) # {}

\* The Go runtime throws when it sees a map used while it is written; it may also
\* miss it, and then the accesses happen one after the other.
MapFault == MapRace /\ Crash

-----------------------------------------------------------------------------
(* The world outside                                                       *)

Tick ==
    /\ now < MaxTime
    /\ now' = now + 1
    /\ UNCHANGED <<rules, server, rpc, dns, cluster, moves, owned>>

\* A pod is created, gets its address, is recreated with another one, or is deleted.
PodChanges(p) ==
    /\ moves < MaxMoves
    /\ \E a \in (Addr \cup {Absent}) \ {cluster[p]} :
        /\ a \in IPs => \A q \in Pods : cluster[q] # a
        /\ cluster' = [cluster EXCEPT ![p] = a]
        /\ owned' = IF a = Absent THEN owned ELSE owned \cup {<<a, p>>}
    /\ moves' = moves + 1
    /\ UNCHANGED <<rules, server, rpc, dns, now>>

-----------------------------------------------------------------------------
(* The specification                                                       *)

SetStep(h) ==
    \/ SetRecord(h) \/ SetGetPod(h) \/ SetGetPodFails(h) \/ SetCheckNs(h)
    \/ SetMakeNs(h) \/ SetFindOld(h) \/ SetDropPod(h) \/ SetDropIP(h) \/ SetStorePod(h)
    \/ SetStoreIP(h)

CancelStep(h) ==
    \/ CancelCheck(h) \/ CancelLoad(h) \/ CancelFind(h) \/ CancelDropPod(h)
    \/ CancelDropIP(h) \/ CancelScan(h) \/ (\E n \in Namespaces : CancelPrune(h, n))
    \/ CancelForget(h)

RpcStep(h) == SetStep(h) \/ CancelStep(h) \/ NilPanic(h)

DnsStep(h) ==
    \/ Lookup(h) \/ Fetch(h) \/ FetchFails(h) \/ Compare(h)
    \/ Assign(h) \/ DropIP(h) \/ StoreIP(h) \/ Judge(h)

Setup == Boot \/ (\E p \in Pods : InitPod(p)) \/ InitFails \/ CreateGRPCServer \/ OnStartup

Next ==
    \/ Setup
    \/ \E h \in Rpcs : \/ \E r \in Requests : SetDNSChaos(h, r)
                       \/ \E c \in ChaosNames : CancelDNSChaos(h, c)
                       \/ RpcStep(h)
    \/ \E h \in Dnss : \/ \E p \in Pods, qname \in QNames, qtype \in QTypes :
                               Query(h, p, qname, qtype)
                       \/ DnsStep(h)
    \/ MapFault
    \/ Tick
    \/ \E p \in Pods : PodChanges(p)

Spec == Init /\ [][Next]_vars

\* The calls of getPodFromCluster, which have no deadline (chaos.go:189).
RpcAtApi(h) == rpc[h].pc = "setGetPod"
DnsAtApi(h) == dns[h].pc = "fetch"

\* Goroutines are scheduled.  Nothing is assumed of the API server: a handler that waits
\* for it may wait for ever.
FairSpec ==
    /\ Spec
    /\ \A h \in Rpcs : WF_vars(~RpcAtApi(h) /\ RpcStep(h))
    /\ \A h \in Dnss : WF_vars(~DnsAtApi(h) /\ DnsStep(h))

\* Besides, the server comes up, every pod with an address goes on asking and the API
\* server answers, and not always with an error.
AskingSpec ==
    /\ Spec
    /\ WF_vars(Setup)
    /\ \A h \in Rpcs : WF_vars(RpcStep(h))
    /\ \A h \in Dnss : WF_vars(DnsStep(h)) /\ SF_vars(Fetch(h))
    /\ \A p \in Pods : SF_vars(\E h \in Dnss, qname \in QNames, qtype \in QTypes :
                                Query(h, p, qname, qtype))

-----------------------------------------------------------------------------
(* Properties                                                              *)

SetLabels == {"setRecord", "setGetPod", "setCheckNs", "setMakeNs", "setFindOld",
              "setDropPod", "setDropIP", "setStorePod", "setStoreIP"}
CancelLabels == {"cancelCheck", "cancelLoad", "cancelFind", "cancelDropPod",
                 "cancelDropIP", "cancelScan", "cancelPrune"}
LoopLabels == {"setGetPod", "setCheckNs", "setMakeNs", "setFindOld", "setDropPod",
               "setDropIP", "setStorePod", "setStoreIP", "cancelFind", "cancelDropPod",
               "cancelDropIP"}
DnsLabels == {"idle", "lookup", "fetch", "compare", "assign", "dropIP", "storeIP",
              "judge", "replied"}
ChaosReplies == {"error", "random", "empty"}

RpcLocals == [pc : {"idle"} \cup SetLabels \cup CancelLabels,
              name : ChaosNames \cup {Nil}, req : Requests \cup {Nil},
              n : 0 .. MaxSets, k : Nat, ip : Addr,
              old : Infos \cup {Nil}, ns : SUBSET Namespaces]
DnsLocals == [pc : DnsLabels, by : Pods \cup {Nil}, src : Addr,
              qname : QNames \cup {Nil}, qtype : QTypes,
              info : Infos \cup {Nil}, ip : Addr,
              reply : ChaosReplies \cup {"normal", "panic", Nil}]

InLoop(h) == rpc[h].pc \in LoopLabels
InFlight(h) == rpc[h].pc # "idle"

\* Type invariant: the rule maps, the locals of the handlers (a pointer that is not nil
\* points at a PodInfo, the pod loops of grpc_server.go:74 and :122 stay inside their
\* request) and the bounds.
TypeOK ==
    /\ phase \in {"down", "init", "grpc", "up"}
    /\ initTodo \subseteq Pods
    /\ chaosMap \in [ChaosNames -> Requests \cup {Nil}]
    /\ nsMaps \subseteq Namespaces
    /\ podMap \in [Pods -> Infos \cup {Nil}]
    /\ ipPodMap \in [Addr -> Infos \cup {Nil}]
    /\ heap \in [Infos -> PodInfos \cup {Nil}]
    /\ sets \in 0 .. MaxSets
    /\ rpc \in [Rpcs -> RpcLocals]
    /\ dns \in [Dnss -> DnsLocals]
    /\ now \in 0 .. MaxTime
    /\ moves \in 0 .. MaxMoves
    /\ cluster \in [Pods -> Addr \cup {Absent}]
    /\ owned \subseteq Addr \X Pods
    /\ \A h \in Rpcs : InLoop(h) => /\ rpc[h].req # Nil
                                    /\ rpc[h].k \in DOMAIN rpc[h].req.pods

\* A pod that has had one address ever, an address no other pod ever had.
Settled(p) ==
    /\ cluster[p] \in IPs
    /\ \A o \in owned : o[2] = p <=> o[1] = cluster[p]

RpcIdle == \A h \in Rpcs : ~InFlight(h)

\* The address of every entry of ipPodMap, and every address a goroutine is about to
\* store there, is one that the API server reported for that very pod: no interleaving of
\* Set, Cancel, the refresh in getChaosPod and start-up files a rule under an address
\* its pod never had (grpc_server.go:102, chaos.go:145-149, kubernetes.go:289-291).
IPProvenance ==
    /\ \A a \in Addr : ipPodMap[a] # Nil => <<a, PodOf(ipPodMap[a])>> \in owned
    /\ \A h \in Rpcs : rpc[h].pc = "setStoreIP" => <<rpc[h].ip, Pod(h)>> \in owned
    /\ \A h \in Dnss : dns[h].pc = "storeIP" => <<dns[h].ip, PodOf(dns[h].info)>> \in owned

\* A pod whose address has only ever been its own is afflicted by a rule made for it and
\* never by another pod's, whatever ran between its query and its answer
\* (handler.go:18-28).
AfflictedWasSelected ==
    \A h \in Dnss :
        dns[h].pc = "replied" /\ dns[h].reply \in ChaosReplies /\ Settled(dns[h].by) =>
            PodOf(dns[h].info) = dns[h].by

\* getChaosPod hands out a pointer that is used after the lock is gone
\* (chaos.go:153, handler.go:26): once a PodInfo is in a map, no later call changes the
\* rule it stands for, only its address and time.
PublishedRulesImmutable ==
    [][\A i \in Infos : heap[i] # Nil /\ heap'[i] # Nil =>
            /\ heap'[i].action = heap[i].action
            /\ heap'[i].scope = heap[i].scope
            /\ heap'[i].sel = heap[i].sel]_heap

\* With one RPC at a time, podMap and ipPodMap agree about every settled pod whenever no
\* RPC is running: SetDNSChaos and CancelDNSChaos change both or, on an error, neither.
SettledPodsIndexed ==
    RpcIdle /\ phase \in {"grpc", "up"} =>
        \A p \in Pods : Settled(p) => ipPodMap[cluster[p]] = podMap[p]

\* The pods of two requests of one name are the same, as Chaos Mesh sends them.
NamesIdentifyPods ==
    \A r, q \in Requests : r.name = q.name => r.pods = q.pods

\* With one RPC at a time, a settled pod that no recorded experiment and no chaos line
\* lists is not afflicted: an experiment that failed half way is still in chaosMap, so
\* that CancelDNSChaos can undo the half that was done (grpc_server.go:48, :116-141).
CancelledMeansQuiet ==
    NamesIdentifyPods /\ RpcIdle =>
        \A p \in Pods :
            /\ Settled(p) /\ p \notin CorefilePods
            /\ \A c \in ChaosNames : chaosMap[c] # Nil =>
                   \A k \in DOMAIN chaosMap[c].pods : chaosMap[c].pods[k] # p
            => ipPodMap[cluster[p]] = Nil

\* With one RPC at a time, SetDNSChaos never writes to the inner map of a namespace that
\* is not there and CancelDNSChaos never uses an entry that is gone: the namespaces that
\* a Cancel prunes are created again by the next Set (grpc_server.go:81-83, :137-139).
NoNilPanic == \A h \in Rpcs : ~AtNilPanic(h)

\* A handler ends unless the API server keeps it: a gRPC call or a query that never
\* returns is, from some point on, inside one call of getPodFromCluster, whatever the
\* other handlers do to the maps that its loops and its retries depend on
\* (grpc_server.go:74-103, :122-139, chaos.go:126-159).
HandlersFinish ==
    /\ \A h \in Rpcs : []<>(~InFlight(h)) \/ <>[]RpcAtApi(h)
    /\ \A h \in Dnss : []<>(dns[h].pc \in {"idle", "replied"}) \/ <>[]DnsAtApi(h)

-----------------------------------------------------------------------------
(* What the documentation, a comment or a test says and the code does not do *)

\* e2e_test.go: after CancelDNSChaos names resolve again.  When no experiment and no
\* chaos line is left, no pod's address has a rule.
CancelStopsChaos ==
    RpcIdle /\ CorefilePods = {} /\ (\A c \in ChaosNames : chaosMap[c] = Nil) =>
        \A p \in Pods : cluster[p] \in IPs => ipPodMap[cluster[p]] = Nil

\* chaos.go:44: a PodInfo that was not updated for ten seconds is overdue and needs to be
\* updated.  If its pod goes on asking, a rule comes to know its pod's address.
OverdueIsUpdated ==
    \A p \in Pods :
        (/\ podMap[p] # Nil /\ IsOverdue(podMap[p])
         /\ cluster[p] \in IPs /\ heap[podMap[p]].ip # cluster[p])
        ~> (podMap[p] = Nil \/ cluster[p] \notin IPs \/ heap[podMap[p]].ip = cluster[p])

\* README.md: the scopes of a chaos line are inner, outer and all.  A query of an
\* afflicted pod is answered, under each of them.
ScopesAreServed == \A h \in Dnss : dns[h].reply # "panic"

\* README.md: the rules are updated hot, that is while queries are served.  No two
\* goroutines are in one map when one of them writes it.
HotUpdate == ~MapRace

=============================================================================
