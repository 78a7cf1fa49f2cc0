------------------------- MODULE ChaosServerProofs -------------------------
(***************************************************************************)
(* Proofs about ChaosServer, for any pods, addresses, requests, Corefile   *)
(* and number of goroutines.                                               *)
(***************************************************************************)
EXTENDS ChaosServer, SetInduction

-----------------------------------------------------------------------------
(* The inductive invariant                                                 *)

\* Nothing runs before setup is through, and a process that is down holds no PodInfo.
Lifecycle ==
    /\ phase \in {"down", "init"} => /\ \A h \in Rpcs : rpc[h] = Idle
                                     /\ \A h \in Dnss : dns[h] = Quiet
    /\ phase = "down" => /\ \A i \in Infos : heap[i] = Nil
                         /\ \A a \in Addr : ipPodMap[a] = Nil
    /\ initTodo # {} => phase = "init"
    /\ \A p \in initTodo : podMap[p] # Nil

\* A pointer that is not nil points at a PodInfo.
Pointers ==
    /\ \A p \in Pods : podMap[p] # Nil => heap[podMap[p]] # Nil
    /\ \A a \in Addr : ipPodMap[a] # Nil => heap[ipPodMap[a]] # Nil
    /\ \A h \in Rpcs : rpc[h].old # Nil => heap[rpc[h].old] # Nil
    /\ \A h \in Rpcs : rpc[h].pc = "setStoreIP" => heap[Info(h)] # Nil
    /\ \A h \in Dnss : dns[h].info # Nil => heap[dns[h].info] # Nil

RefreshLabels == {"fetch", "compare", "assign", "dropIP", "storeIP"}

\* The locals a handler uses are set where it uses them.
Locals ==
    /\ \A h \in Rpcs : rpc[h].pc \in SetLabels => rpc[h].req \in Requests
    /\ \A h \in Rpcs : rpc[h].pc \in CancelLabels => rpc[h].name \in ChaosNames
    /\ \A h \in Dnss : dns[h].pc \in RefreshLabels => dns[h].info # Nil

Shape == TypeOK /\ Lifecycle /\ Pointers /\ Locals

-----------------------------------------------------------------------------
(* Type correctness                                                        *)

USE DEF Addr, Actions, Scopes, QTypes

\* The pods of a request are pods.
LEMMA RequestPods ==
    ASSUME NEW r \in Requests
    PROVE  /\ r.pods \in Seq(Pods) /\ r.action \in Actions
           /\ r.name \in ChaosNames /\ r.patterns \in SUBSET Patterns
           /\ \A k \in DOMAIN r.pods : r.pods[k] \in Pods
           /\ DOMAIN r.pods = 1 .. Len(r.pods) /\ Len(r.pods) \in Nat
           /\ r.pods # <<>> => 1 \in DOMAIN r.pods
<1>1. r.pods \in Seq(Pods) /\ r.action \in Actions /\ r.name \in ChaosNames
        /\ r.patterns \in SUBSET Patterns
  BY RequestsAssumption
<1> QED
  BY <1>1

LEMMA IdleType ==
    /\ Idle \in RpcLocals /\ Quiet \in DnsLocals
    /\ Idle.pc = "idle" /\ Idle.old = Nil /\ Quiet.pc = "idle" /\ Quiet.info = Nil
  BY BoundsAssumption DEF Idle, Quiet, DnsLabels, RpcLocals, DnsLocals

LEMMA InitShape == Init => Shape
<1> SUFFICES ASSUME Init PROVE Shape
  OBVIOUS
<1>1. TypeOK
  BY IdleType, BoundsAssumption DEF Init, TypeOK, InLoop, LoopLabels
<1>2. Lifecycle /\ Pointers /\ Locals
  BY IdleType DEF Init, Lifecycle, Pointers, Locals, SetLabels, CancelLabels, RefreshLabels
<1> QED
  BY <1>1, <1>2 DEF Shape

LEMMA CrashShape == Shape /\ Crash => Shape'
<1> SUFFICES ASSUME Shape, Crash PROVE Shape'
  OBVIOUS
<1>1. TypeOK'
  BY IdleType, BoundsAssumption DEF Shape, Crash, env, TypeOK, InLoop, LoopLabels
<1>2. Lifecycle' /\ Pointers' /\ Locals'
  BY IdleType DEF Crash, Lifecycle, Pointers, Locals, SetLabels, CancelLabels, RefreshLabels
<1> QED
  BY <1>1, <1>2 DEF Shape

\* Every pod of the Corefile has a last chaos entry, which makes a PodInfo.
LEMMA CorefileInfoType ==
    ASSUME NEW p \in CorefilePods
    PROVE  CorefileInfo(CorefileEntry(p)) \in PodInfos
<1> DEFINE Ks == {k \in DOMAIN Corefile : Corefile[k].pod = p}
           T == {Len(Corefile) - k : k \in Ks}
<1>1. Ks # {} /\ Ks \subseteq 1 .. Len(Corefile) /\ Len(Corefile) \in Nat
  BY CorefileAssumption DEF CorefilePods
<1>2. T # {} /\ T \subseteq Nat
  BY <1>1
<1>3. PICK m \in T : \A n \in T : m <= n
  BY <1>2, Smallest
<1>4. PICK k \in Ks : m = Len(Corefile) - k
  OBVIOUS
<1>5. \A j \in Ks : j <= k
  <2> TAKE j \in Ks
  <2>1. m <= Len(Corefile) - j
    BY <1>3
  <2> QED
    BY <1>1, <1>4, <2>1
<1>6. \E l \in DOMAIN Corefile : CorefileEntry(p) = Corefile[l]
  BY <1>5 DEF CorefileEntry
<1> DEFINE E == [pod : Pods, action : Actions, scope : Scopes]
<1>7. CorefileEntry(p) \in E
  <2> HIDE DEF E, Ks
  <2>1. Corefile \in Seq(E)
    BY CorefileAssumption DEF E
  <2> QED
    BY <1>6, <2>1
<1>8. \A e \in E : CorefileInfo(e) \in PodInfos
  <2> TAKE e \in E
  <2>1. e.action \in Actions /\ e.scope \in Scopes /\ 0 \in 0 .. MaxTime
    BY BoundsAssumption
  <2> QED
    BY <2>1 DEF CorefileInfo, PodInfos
<1> QED
  BY <1>7, <1>8, Zenon

\* Where a handler is in flight the process is up, and in a pod loop it has a pod.
LEMMA InFlightFacts ==
    ASSUME Shape, NEW h \in Rpcs, rpc[h].pc # "idle"
    PROVE  /\ phase \in {"grpc", "up"} /\ rpc[h] \in RpcLocals
           /\ InLoop(h) => /\ rpc[h].req \in Requests /\ Pod(h) \in Pods
                           /\ Info(h) \in Infos /\ NsOf[Pod(h)] \in Namespaces
                           /\ rpc[h].k \in 1 .. Len(rpc[h].req.pods)
                           /\ Len(rpc[h].req.pods) \in Nat
<1>1. phase \in {"grpc", "up"} /\ rpc[h] \in RpcLocals
  BY IdleType DEF Shape, TypeOK, Lifecycle
<1>2. ASSUME InLoop(h)
      PROVE  /\ rpc[h].req \in Requests /\ Pod(h) \in Pods
             /\ rpc[h].k \in 1 .. Len(rpc[h].req.pods) /\ Len(rpc[h].req.pods) \in Nat
  <2>1. rpc[h].req \in Requests /\ rpc[h].k \in DOMAIN rpc[h].req.pods
    BY <1>1, <1>2 DEF Shape, TypeOK, RpcLocals
  <2> QED
    BY <2>1, RequestPods DEF Pod
<1>3. ASSUME InLoop(h)
      PROVE  Info(h) \in Infos /\ NsOf[Pod(h)] \in Namespaces
  BY <1>1, <1>2, <1>3, NamesAssumption DEF Info, Infos, RpcLocals
<1> QED
  BY <1>1, <1>2, <1>3

\* The locals R of a handler agree with the heap.
RpcOK(R) ==
    /\ R.pc \in LoopLabels => R.req \in Requests /\ R.k \in DOMAIN R.req.pods
    /\ R.pc \in SetLabels => R.req \in Requests
    /\ R.pc \in CancelLabels => R.name \in ChaosNames
    /\ R.old # Nil => heap[R.old] # Nil
    /\ R.pc = "setStoreIP" => heap[<<R.n, R.req.pods[R.k]>>] # Nil

\* A step of a handler that makes no PodInfo: the locals it leaves are in order, and the
\* maps hold no new dangling pointers.
LEMMA RpcMove ==
    ASSUME Shape, NEW h \in Rpcs, phase \in {"grpc", "up"},
           NEW R \in RpcLocals, RpcOK(R), rpc' = [rpc EXCEPT ![h] = R],
           chaosMap' \in [ChaosNames -> Requests \cup {Nil}], nsMaps' \subseteq Namespaces,
           podMap' \in [Pods -> Infos \cup {Nil}],
           \A p \in Pods : podMap'[p] # Nil => heap[podMap'[p]] # Nil,
           ipPodMap' \in [Addr -> Infos \cup {Nil}],
           \A a \in Addr : ipPodMap'[a] # Nil => heap[ipPodMap'[a]] # Nil,
           UNCHANGED <<heap, server, dns, env>>
    PROVE  Shape'
<1> USE DEF Shape
<1>1. rpc' \in [Rpcs -> RpcLocals] /\ rpc'[h] = R /\ \A g \in Rpcs \ {h} : rpc'[g] = rpc[g]
  BY DEF TypeOK
<1>2. TypeOK'
  BY <1>1, NamesAssumption DEF TypeOK, RpcOK, server, env, InLoop
<1>3. Lifecycle' /\ Locals'
  BY <1>1 DEF Lifecycle, Locals, RpcOK, server
<1>4. Pointers'
  BY <1>1 DEF Pointers, RpcOK, Info, Pod
<1> QED
  BY <1>2, <1>3, <1>4

\* The case in which only entries of ipPodMap change.
LEMMA LocalStep ==
    ASSUME Shape, NEW h \in Rpcs, phase \in {"grpc", "up"},
           NEW R \in RpcLocals, RpcOK(R), rpc' = [rpc EXCEPT ![h] = R],
           ipPodMap' \in [Addr -> Infos \cup {Nil}],
           \A a \in Addr : ipPodMap'[a] # Nil => heap[ipPodMap'[a]] # Nil,
           UNCHANGED <<chaosMap, nsMaps, podMap, heap, server, dns, env>>
    PROVE  Shape'
<1>1. /\ chaosMap' \in [ChaosNames -> Requests \cup {Nil}] /\ nsMaps' \subseteq Namespaces
      /\ podMap' \in [Pods -> Infos \cup {Nil}]
      /\ \A p \in Pods : podMap'[p] # Nil => heap[podMap'[p]] # Nil
  BY DEF Shape, TypeOK, Pointers
<1> QED
  BY <1>1, RpcMove

LEMMA SetShape ==
    ASSUME Shape, NEW h \in Rpcs, SetStep(h)
    PROVE  Shape'
<1> USE DEF Shape
<1>a. rpc[h].pc \in SetLabels
  BY DEF SetStep, SetLabels, SetRecord, SetGetPod, SetGetPodFails, SetCheckNs, SetMakeNs,
     SetFindOld, SetDropPod, SetDropIP, SetStorePod, SetStoreIP
<1>b. phase \in {"grpc", "up"} /\ rpc[h] \in RpcLocals /\ rpc[h].req \in Requests
  BY <1>a, InFlightFacts DEF SetLabels, Locals
<1>c. /\ chaosMap \in [ChaosNames -> Requests \cup {Nil}] /\ nsMaps \subseteq Namespaces
      /\ podMap \in [Pods -> Infos \cup {Nil}] /\ ipPodMap \in [Addr -> Infos \cup {Nil}]
      /\ rpc \in [Rpcs -> RpcLocals]
  BY DEF TypeOK
<1>d. /\ rpc[h].old # Nil => heap[rpc[h].old] # Nil
      /\ \A p \in Pods : podMap[p] # Nil => heap[podMap[p]] # Nil
      /\ \A a \in Addr : ipPodMap[a] # Nil => heap[ipPodMap[a]] # Nil
  BY DEF Pointers
<1>e. Idle \in RpcLocals /\ RpcOK(Idle)
  BY IdleType DEF RpcOK, LoopLabels, SetLabels, CancelLabels
<1> DEFINE At(l) == [rpc[h] EXCEPT !.pc = l]
           Plain == {"setMakeNs", "setFindOld", "setDropIP", "setStorePod"}
<1>f. ASSUME InLoop(h)
      PROVE  /\ Pod(h) \in Pods /\ NsOf[Pod(h)] \in Namespaces
             /\ rpc[h].k \in DOMAIN rpc[h].req.pods
  BY <1>a, <1>b, <1>f, InFlightFacts, RequestPods DEF SetLabels
<1>g. ASSUME InLoop(h), NEW l \in Plain
      PROVE  At(l) \in RpcLocals /\ RpcOK(At(l))
  <2>1. l \in SetLabels /\ l \notin CancelLabels /\ l # "setStoreIP"
    BY DEF SetLabels, CancelLabels
  <2>2. /\ At(l).pc = l /\ At(l).req = rpc[h].req /\ At(l).k = rpc[h].k
        /\ At(l).old = rpc[h].old /\ At(l) \in RpcLocals
    BY <1>b, <2>1 DEF RpcLocals
  <2> HIDE DEF At
  <2> QED
    BY <1>b, <1>d, <1>f, <1>g, <2>1, <2>2 DEF RpcOK
<1>1. CASE SetRecord(h)
  <2>1. chaosMap' \in [ChaosNames -> Requests \cup {Nil}]
    BY <1>1, <1>b, <1>c, RequestPods DEF SetRecord
  <2>2. CASE rpc' = [rpc EXCEPT ![h] = Idle]
    BY <1>1, <2>1, <2>2, <1>b, <1>c, <1>d, <1>e, RpcMove DEF SetRecord
  <2>3. CASE /\ rpc[h].req.pods # <<>>
             /\ rpc' = [rpc EXCEPT ![h].pc = "setGetPod", ![h].k = 1]
    <3> DEFINE R == [rpc[h] EXCEPT !.pc = "setGetPod", !.k = 1]
    <3>1. 1 \in DOMAIN rpc[h].req.pods /\ "setGetPod" \in SetLabels
      BY <1>b, <2>3, RequestPods DEF SetLabels
    <3>2. /\ R.pc = "setGetPod" /\ R.req = rpc[h].req /\ R.k = 1 /\ R.old = rpc[h].old
          /\ R \in RpcLocals
      BY <1>b, <3>1 DEF RpcLocals
    <3>3. rpc' = [rpc EXCEPT ![h] = R]
      BY <2>3, <1>c
    <3> HIDE DEF R
    <3>4. RpcOK(R)
      BY <1>b, <1>d, <3>1, <3>2 DEF RpcOK, CancelLabels
    <3> QED
      BY <1>1, <2>1, <3>2, <3>3, <3>4, <1>b, <1>c, <1>d, RpcMove DEF SetRecord
  <2> QED
    BY <1>1, <2>2, <2>3 DEF SetRecord, Return
<1>2. CASE SetGetPod(h)
  <2> DEFINE R == [rpc[h] EXCEPT !.pc = "setCheckNs", !.ip = cluster[Pod(h)]]
  <2>1. InLoop(h) /\ "setCheckNs" \in SetLabels
    BY <1>2 DEF SetGetPod, InLoop, LoopLabels, SetLabels
  <2>2. cluster[Pod(h)] \in Addr
    BY <1>2, <1>f, <2>1 DEF SetGetPod, TypeOK
  <2>3. /\ R.pc = "setCheckNs" /\ R.req = rpc[h].req /\ R.k = rpc[h].k
        /\ R.old = rpc[h].old /\ R \in RpcLocals
    BY <1>b, <2>1, <2>2 DEF RpcLocals
  <2>4. rpc' = [rpc EXCEPT ![h] = R]
    BY <1>2, <1>c DEF SetGetPod
  <2> HIDE DEF R
  <2>5. RpcOK(R)
    BY <1>b, <1>d, <1>f, <2>1, <2>3 DEF RpcOK, CancelLabels
  <2> QED
    BY <1>2, <2>3, <2>4, <2>5, <1>b, <1>c, <1>d, LocalStep DEF SetGetPod, rules
<1>3. CASE SetGetPodFails(h)
  BY <1>3, <1>b, <1>c, <1>d, <1>e, LocalStep DEF SetGetPodFails, Return, rules
<1>4. CASE SetCheckNs(h)
  <2> DEFINE l == IF NsOf[Pod(h)] \in nsMaps THEN "setFindOld" ELSE "setMakeNs"
  <2>1. InLoop(h) /\ l \in Plain
    BY <1>4 DEF SetCheckNs, InLoop, LoopLabels
  <2>2. rpc' = [rpc EXCEPT ![h] = At(l)]
    BY <1>4, <1>c DEF SetCheckNs, Goto
  <2> HIDE DEF l, Plain
  <2>3. At(l) \in RpcLocals /\ RpcOK(At(l))
    BY <1>g, <2>1
  <2> HIDE DEF At
  <2> QED
    BY <1>4, <2>2, <2>3, <1>b, <1>c, <1>d, LocalStep DEF SetCheckNs, rules
<1>m. CASE SetMakeNs(h)
  <2>1. InLoop(h)
    BY <1>m DEF SetMakeNs, InLoop, LoopLabels
  <2>2. nsMaps' \subseteq Namespaces
    BY <1>m, <1>c, <1>f, <2>1 DEF SetMakeNs
  <2>3. rpc' = [rpc EXCEPT ![h] = At("setFindOld")]
    BY <1>m, <1>c DEF SetMakeNs, Goto
  <2>4. At("setFindOld") \in RpcLocals /\ RpcOK(At("setFindOld"))
    BY <1>g, <2>1
  <2>5. /\ podMap' \in [Pods -> Infos \cup {Nil}]
        /\ \A p \in Pods : podMap'[p] # Nil => heap[podMap'[p]] # Nil
    BY <1>m, <1>c, <1>d DEF SetMakeNs
  <2> HIDE DEF At
  <2> QED
    BY <1>m, <2>2, <2>3, <2>4, <2>5, <1>b, <1>c, <1>d, RpcMove DEF SetMakeNs
<1>5. CASE SetFindOld(h)
  <2> DEFINE l == IF podMap[Pod(h)] = Nil THEN "setStorePod" ELSE "setDropPod"
             R == [rpc[h] EXCEPT !.old = podMap[Pod(h)], !.pc = l]
  <2>1. InLoop(h) /\ l \in {"setStorePod", "setDropPod"}
    BY <1>5 DEF SetFindOld, InLoop, LoopLabels
  <2>2. podMap[Pod(h)] \in Infos \cup {Nil} /\ (podMap[Pod(h)] # Nil => heap[podMap[Pod(h)]] # Nil)
    BY <1>c, <1>d, <1>f, <2>1
  <2>3. rpc' = [rpc EXCEPT ![h] = R]
    BY <1>5, <1>c DEF SetFindOld
  <2> HIDE DEF l
  <2>4. l \in SetLabels /\ l \notin CancelLabels /\ l # "setStoreIP"
    BY <2>1 DEF SetLabels, CancelLabels
  <2>5. /\ R.pc = l /\ R.req = rpc[h].req /\ R.k = rpc[h].k /\ R.old = podMap[Pod(h)]
        /\ R \in RpcLocals
    BY <1>b, <2>2, <2>4 DEF RpcLocals
  <2> HIDE DEF R
  <2>6. RpcOK(R)
    BY <1>b, <1>f, <2>1, <2>2, <2>4, <2>5 DEF RpcOK
  <2> QED
    BY <1>5, <2>3, <2>5, <2>6, <1>b, <1>c, <1>d, LocalStep DEF SetFindOld, rules
<1>6. CASE SetDropPod(h)
  <2>1. InLoop(h)
    BY <1>6 DEF SetDropPod, InLoop, LoopLabels
  <2>2. /\ podMap' \in [Pods -> Infos \cup {Nil}]
        /\ \A p \in Pods : podMap'[p] # Nil => heap[podMap'[p]] # Nil
    BY <1>6, <1>c, <1>d DEF SetDropPod
  <2>3. rpc' = [rpc EXCEPT ![h] = At("setDropIP")]
    BY <1>6, <1>c DEF SetDropPod, Goto
  <2>4. At("setDropIP") \in RpcLocals /\ RpcOK(At("setDropIP"))
    BY <1>g, <2>1
  <2> HIDE DEF At
  <2> QED
    BY <1>6, <2>2, <2>3, <2>4, <1>b, <1>c, <1>d, RpcMove DEF SetDropPod
<1>7. CASE SetDropIP(h)
  <2>1. InLoop(h)
    BY <1>7 DEF SetDropIP, InLoop, LoopLabels
  <2>2. /\ ipPodMap' \in [Addr -> Infos \cup {Nil}]
        /\ \A a \in Addr : ipPodMap'[a] # Nil => heap[ipPodMap'[a]] # Nil
    BY <1>7, <1>c, <1>d DEF SetDropIP
  <2>3. rpc' = [rpc EXCEPT ![h] = At("setStorePod")]
    BY <1>7, <1>c DEF SetDropIP, Goto
  <2>4. At("setStorePod") \in RpcLocals /\ RpcOK(At("setStorePod"))
    BY <1>g, <2>1
  <2> HIDE DEF At
  <2> QED
    BY <1>7, <2>2, <2>3, <2>4, <1>b, LocalStep DEF SetDropIP
<1>8. CASE SetStorePod(h)
  <2>1. NewInfo(h) \in PodInfos /\ NewInfo(h) # Nil
    <3>1. /\ rpc[h].req.action \in Actions /\ rpc[h].req.patterns \in SUBSET Patterns
          /\ rpc[h].ip \in Addr /\ now \in 0 .. MaxTime
          /\ ScopeOf(rpc[h].req) \in Scopes \cup {""}
      BY <1>b, RequestPods DEF TypeOK, RpcLocals, ScopeOf
    <3>2. NewInfo(h) \in PodInfos
      BY <3>1 DEF NewInfo, PodInfos
    <3> QED
      BY <3>2, NamesAssumption
  <2>2. Info(h) \in Infos /\ Pod(h) \in Pods
    BY <1>8, <1>b, InFlightFacts DEF SetStorePod, InLoop, LoopLabels
  <2>3. TypeOK'
    BY <1>8, <1>b, <2>1, <2>2
       DEF SetStorePod, TypeOK, RpcLocals, server, env, InLoop, LoopLabels, SetLabels, Goto
  <2>4. Pointers'
    <3>1. heap' = [heap EXCEPT ![Info(h)] = NewInfo(h)] /\ heap'[Info(h)] # Nil
      BY <1>8, <2>1, <2>2 DEF SetStorePod, TypeOK
    <3>2. \A i \in Infos : heap[i] # Nil => heap'[i] # Nil
      BY <3>1 DEF TypeOK
    <3>3. Info(h)' = Info(h)
      BY <1>8, <1>b DEF SetStorePod, Goto, TypeOK, RpcLocals, Info, Pod
    <3>4. \A g \in Rpcs : /\ rpc'[g].old = rpc[g].old
                          /\ g # h => rpc'[g] = rpc[g] /\ Info(g)' = Info(g)
      BY <1>8, <1>b DEF SetStorePod, Goto, TypeOK, RpcLocals, Info, Pod
    <3>5. \A g \in Rpcs : rpc[g].pc = "setStoreIP" => Info(g) \in Infos
      BY InFlightFacts DEF InLoop, LoopLabels
    <3>6. podMap' = [podMap EXCEPT ![Pod(h)] = Info(h)] /\ UNCHANGED <<ipPodMap, dns>>
      BY <1>8 DEF SetStorePod
    <3> QED
      BY <2>2, <3>1, <3>2, <3>3, <3>4, <3>5, <3>6 DEF Pointers, TypeOK, RpcLocals, DnsLocals
  <2>5. Lifecycle' /\ Locals'
    BY <1>8, <1>b, <2>2 DEF SetStorePod, TypeOK, RpcLocals, server, env, Lifecycle, Locals,
       SetLabels, CancelLabels, RefreshLabels, Goto
  <2> QED
    BY <2>3, <2>4, <2>5
<1>9. CASE SetStoreIP(h)
  <2>1. /\ Info(h) \in Infos /\ rpc[h].ip \in Addr
        /\ rpc[h].k \in 1 .. Len(rpc[h].req.pods) /\ Len(rpc[h].req.pods) \in Nat
    BY <1>9, <1>b, InFlightFacts DEF SetStoreIP, InLoop, LoopLabels, RpcLocals
  <2>2. /\ ipPodMap' \in [Addr -> Infos \cup {Nil}]
        /\ \A a \in Addr : ipPodMap'[a] # Nil => heap[ipPodMap'[a]] # Nil
    <3>1. ipPodMap' = [ipPodMap EXCEPT ![rpc[h].ip] = Info(h)] /\ heap[Info(h)] # Nil
      BY <1>9 DEF SetStoreIP, Pointers
    <3> QED
      BY <3>1, <2>1, <1>c, <1>d
  <2>3. CASE rpc' = [rpc EXCEPT ![h] = Idle]
    BY <1>9, <2>2, <2>3, <1>b, <1>e, LocalStep DEF SetStoreIP
  <2>4. CASE /\ rpc[h].k # Len(rpc[h].req.pods)
             /\ rpc' = [rpc EXCEPT ![h].pc = "setGetPod", ![h].k = @ + 1,
                                   ![h].ip = NoIP, ![h].old = Nil]
    <3> DEFINE Q == [rpc[h] EXCEPT !.k = rpc[h].k + 1]
               R == [Q EXCEPT !.pc = "setGetPod", !.ip = NoIP, !.old = Nil]
    <3>1. /\ rpc[h].k + 1 \in DOMAIN rpc[h].req.pods /\ rpc[h].k + 1 \in Nat
          /\ "setGetPod" \in SetLabels
      BY <1>b, <2>1, <2>4, RequestPods DEF SetLabels
    <3>2. /\ Q \in RpcLocals /\ Q.req = rpc[h].req /\ Q.k = rpc[h].k + 1
      BY <1>b, <3>1 DEF RpcLocals
    <3>3. rpc' = [rpc EXCEPT ![h] = R]
      <4>1. R = [rpc[h] EXCEPT !.pc = "setGetPod", !.k = rpc[h].k + 1, !.ip = NoIP, !.old = Nil]
        BY <1>b DEF RpcLocals
      <4> QED
        BY <2>4, <1>c, <4>1
    <3> HIDE DEF Q
    <3>4. /\ R.pc = "setGetPod" /\ R.req = Q.req /\ R.k = Q.k /\ R.old = Nil
          /\ R \in RpcLocals
      BY <3>1, <3>2 DEF RpcLocals
    <3> HIDE DEF R
    <3>5. RpcOK(R)
      BY <1>b, <3>1, <3>2, <3>4 DEF RpcOK, CancelLabels
    <3> QED
      BY <1>9, <2>2, <3>3, <3>4, <3>5, <1>b, LocalStep DEF SetStoreIP
  <2> QED
    BY <1>9, <2>3, <2>4 DEF SetStoreIP, Return, NextPod, LastPod
<1> QED
  BY <1>1, <1>2, <1>3, <1>4, <1>m, <1>5, <1>6, <1>7, <1>8, <1>9 DEF SetStep

LEMMA CancelShape ==
    ASSUME Shape, NEW h \in Rpcs, CancelStep(h)
    PROVE  Shape'
<1> USE DEF Shape
<1>a. rpc[h].pc \in CancelLabels
  BY DEF CancelStep, CancelLabels, CancelCheck, CancelLoad, CancelFind, CancelDropPod,
         CancelDropIP, CancelScan, CancelPrune, CancelForget
<1>b. phase \in {"grpc", "up"} /\ rpc[h] \in RpcLocals /\ rpc[h].name \in ChaosNames
  BY <1>a, InFlightFacts DEF CancelLabels, Locals
<1>c. rpc[h].old # Nil => heap[rpc[h].old] # Nil
  BY DEF Pointers
<1>d. /\ \A a \in Addr : ipPodMap[a] # Nil => heap[ipPodMap[a]] # Nil
      /\ \A p \in Pods : podMap[p] # Nil => heap[podMap[p]] # Nil
  BY DEF Pointers
<1>e. /\ ipPodMap \in [Addr -> Infos \cup {Nil}] /\ rpc \in [Rpcs -> RpcLocals]
      /\ chaosMap \in [ChaosNames -> Requests \cup {Nil}] /\ nsMaps \subseteq Namespaces
      /\ podMap \in [Pods -> Infos \cup {Nil}]
  BY DEF TypeOK
<1>f. Idle \in RpcLocals /\ RpcOK(Idle)
  BY IdleType DEF RpcOK, LoopLabels, SetLabels, CancelLabels
<1> DEFINE At(l) == [rpc[h] EXCEPT !.pc = l]
<1> DEFINE Nxt == [rpc[h] EXCEPT !.pc = "cancelFind", !.k = @ + 1, !.ip = NoIP, !.old = Nil]
<1>g. At("cancelLoad") \in RpcLocals /\ RpcOK(At("cancelLoad"))
  BY <1>b, <1>c DEF RpcOK, RpcLocals, LoopLabels, SetLabels, CancelLabels
<1>h. At("cancelScan") \in RpcLocals /\ RpcOK(At("cancelScan"))
  BY <1>b, <1>c DEF RpcOK, RpcLocals, LoopLabels, SetLabels, CancelLabels
<1>i. ASSUME InLoop(h), ~LastPod(h)
      PROVE  Nxt \in RpcLocals /\ RpcOK(Nxt)
  <2>1. /\ rpc[h].req \in Requests /\ rpc[h].k \in 1 .. Len(rpc[h].req.pods)
        /\ Len(rpc[h].req.pods) \in Nat
        /\ DOMAIN rpc[h].req.pods = 1 .. Len(rpc[h].req.pods)
    BY <1>a, <1>i, InFlightFacts, RequestPods DEF CancelLabels
  <2>2. rpc[h].k + 1 \in DOMAIN rpc[h].req.pods
    BY <1>i, <2>1 DEF LastPod
  <2>3. Nxt \in RpcLocals
    <3>1. rpc[h].k + 1 \in Nat /\ "cancelFind" \in CancelLabels /\ NoIP \in Addr
      BY <2>1 DEF CancelLabels
    <3>2. [rpc[h] EXCEPT !.k = rpc[h].k + 1] \in RpcLocals
      BY <1>b, <3>1 DEF RpcLocals
    <3>3. Nxt = [[rpc[h] EXCEPT !.k = rpc[h].k + 1]
                    EXCEPT !.pc = "cancelFind", !.ip = NoIP, !.old = Nil]
      BY <1>b DEF RpcLocals
    <3> QED
      BY <3>1, <3>2, <3>3 DEF RpcLocals
  <2>4. /\ Nxt.pc = "cancelFind" /\ Nxt.req = rpc[h].req /\ Nxt.k = rpc[h].k + 1
        /\ Nxt.name = rpc[h].name /\ Nxt.old = Nil
    BY <1>b DEF RpcLocals
  <2> HIDE DEF Nxt
  <2> QED
    BY <1>b, <2>1, <2>2, <2>3, <2>4 DEF RpcOK, SetLabels, CancelLabels
<1>1. CASE CancelCheck(h)
  <2>1. rpc' = [rpc EXCEPT ![h] = Idle] \/ rpc' = [rpc EXCEPT ![h] = At("cancelLoad")]
    BY <1>1, <1>e DEF CancelCheck, Return, Goto
  <2> QED
    BY <1>1, <2>1, <1>b, <1>d, <1>e, <1>f, <1>g, LocalStep DEF CancelCheck, rules
<1>2. CASE CancelLoad(h)
  <2> DEFINE r == chaosMap[rpc[h].name]
             Load(l) == [rpc[h] EXCEPT !.req = r, !.k = 1, !.pc = l]
  <2>1. r \in Requests
    BY <1>2, <1>b DEF CancelLoad, TypeOK
  <2>2. rpc' = [rpc EXCEPT ![h] = Load(IF r.pods = <<>> THEN "cancelScan" ELSE "cancelFind")]
    BY <1>2, <1>e DEF CancelLoad
  <2>3. CASE r.pods = <<>>
    <3>1. Load("cancelScan") \in RpcLocals /\ RpcOK(Load("cancelScan"))
      BY <1>b, <1>c, <2>1 DEF RpcOK, RpcLocals, LoopLabels, SetLabels, CancelLabels
    <3> QED
      BY <1>2, <2>2, <2>3, <3>1, <1>b, <1>d, <1>e, LocalStep DEF CancelLoad, rules
  <2>4. CASE r.pods # <<>>
    <3>1. Load("cancelFind") \in RpcLocals /\ RpcOK(Load("cancelFind"))
      <4>1. 1 \in DOMAIN r.pods
        BY <2>1, <2>4, RequestPods
      <4> QED
        BY <1>b, <1>c, <2>1, <4>1 DEF RpcOK, RpcLocals, SetLabels, CancelLabels
    <3> QED
      BY <1>2, <2>2, <2>4, <3>1, <1>b, <1>d, <1>e, LocalStep DEF CancelLoad, rules
  <2> QED
    BY <2>3, <2>4
<1>3. CASE CancelFind(h)
  <2>1. InLoop(h)
    BY <1>3 DEF CancelFind, InLoop, LoopLabels
  <2>2. CASE podMap[Pod(h)] # Nil
    <3> DEFINE R == [rpc[h] EXCEPT !.pc = "cancelDropPod", !.old = podMap[Pod(h)]]
    <3>1. rpc' = [rpc EXCEPT ![h] = R]
      BY <1>3, <1>e, <2>2 DEF CancelFind
    <3>2. /\ Pod(h) \in Pods /\ rpc[h].req \in Requests
          /\ rpc[h].k \in DOMAIN rpc[h].req.pods
      BY <1>a, <2>1, InFlightFacts, RequestPods DEF CancelLabels
    <3>3. podMap[Pod(h)] \in Infos /\ heap[podMap[Pod(h)]] # Nil
      BY <2>2, <3>2 DEF TypeOK, Pointers
    <3>4. R \in RpcLocals /\ RpcOK(R)
      BY <1>b, <3>2, <3>3 DEF RpcOK, RpcLocals, SetLabels, CancelLabels
    <3> QED
      BY <1>3, <3>1, <3>4, <1>b, <1>d, <1>e, LocalStep DEF CancelFind, rules
  <2>3. CASE podMap[Pod(h)] = Nil /\ LastPod(h)
    <3>1. rpc' = [rpc EXCEPT ![h] = At("cancelScan")]
      BY <1>3, <1>e, <2>3 DEF CancelFind, Goto
    <3> QED
      BY <1>3, <3>1, <1>b, <1>d, <1>e, <1>h, LocalStep DEF CancelFind, rules
  <2>4. CASE podMap[Pod(h)] = Nil /\ ~LastPod(h)
    <3>1. rpc' = [rpc EXCEPT ![h] = Nxt]
      BY <1>3, <1>e, <2>4 DEF CancelFind, NextPod
    <3> QED
      BY <1>3, <2>1, <2>4, <3>1, <1>b, <1>d, <1>e, <1>i, LocalStep DEF CancelFind, rules
  <2> QED
    BY <2>2, <2>3, <2>4
<1>4. CASE CancelDropPod(h)
  <2> DEFINE R == At("cancelDropIP")
  <2>1. InLoop(h) /\ "cancelDropIP" \in CancelLabels
    BY <1>4 DEF CancelDropPod, InLoop, LoopLabels, CancelLabels
  <2>2. /\ podMap' \in [Pods -> Infos \cup {Nil}]
        /\ \A p \in Pods : podMap'[p] # Nil => heap[podMap'[p]] # Nil
    BY <1>4, <1>d, <1>e DEF CancelDropPod
  <2>3. rpc[h].req \in Requests /\ rpc[h].k \in DOMAIN rpc[h].req.pods
    BY <1>a, <2>1, InFlightFacts, RequestPods DEF CancelLabels
  <2>4. rpc' = [rpc EXCEPT ![h] = R]
    BY <1>4, <1>e DEF CancelDropPod, Goto
  <2>5. /\ R.pc = "cancelDropIP" /\ R.req = rpc[h].req /\ R.k = rpc[h].k
        /\ R.name = rpc[h].name /\ R.old = rpc[h].old /\ R \in RpcLocals
    BY <1>b, <2>1 DEF RpcLocals
  <2> HIDE DEF R
  <2>6. RpcOK(R)
    BY <1>b, <1>c, <2>3, <2>5 DEF RpcOK, SetLabels
  <2> QED
    BY <1>4, <2>2, <2>4, <2>5, <2>6, <1>b, <1>d, <1>e, RpcMove DEF CancelDropPod
<1>5. CASE CancelDropIP(h)
  <2>1. InLoop(h)
    BY <1>5 DEF CancelDropIP, InLoop, LoopLabels
  <2>2. /\ ipPodMap' \in [Addr -> Infos \cup {Nil}]
        /\ \A a \in Addr : ipPodMap'[a] # Nil => heap[ipPodMap'[a]] # Nil
    BY <1>5, <1>d, <1>e DEF CancelDropIP
  <2>3. CASE LastPod(h)
    <3>1. rpc' = [rpc EXCEPT ![h] = At("cancelScan")]
      BY <1>5, <1>e, <2>3 DEF CancelDropIP, Goto
    <3> QED
      BY <1>5, <2>2, <3>1, <1>b, <1>h, LocalStep DEF CancelDropIP
  <2>4. CASE ~LastPod(h)
    <3>1. rpc' = [rpc EXCEPT ![h] = Nxt]
      BY <1>5, <1>e, <2>4 DEF CancelDropIP, NextPod
    <3> QED
      BY <1>5, <2>1, <2>2, <2>4, <3>1, <1>b, <1>i, LocalStep DEF CancelDropIP
  <2> QED
    BY <2>3, <2>4
<1>6. CASE CancelScan(h)
  <2> DEFINE N == {n \in nsMaps : \A p \in Pods : NsOf[p] = n => podMap[p] = Nil}
             R == [rpc[h] EXCEPT !.pc = "cancelPrune", !.old = Nil, !.ns = N]
  <2>1. N \in SUBSET Namespaces /\ "cancelPrune" \in CancelLabels
    BY <1>e DEF CancelLabels
  <2>2. rpc' = [rpc EXCEPT ![h] = R]
    BY <1>6, <1>e DEF CancelScan
  <2> HIDE DEF N
  <2>3. R.pc = "cancelPrune" /\ R.name = rpc[h].name /\ R.old = Nil /\ R \in RpcLocals
    BY <1>b, <2>1 DEF RpcLocals
  <2> HIDE DEF R
  <2>4. RpcOK(R)
    BY <1>b, <2>3 DEF RpcOK, LoopLabels, SetLabels
  <2>5. UNCHANGED <<chaosMap, nsMaps, podMap, heap, server, dns, env>> /\ ipPodMap' = ipPodMap
    BY <1>6 DEF CancelScan, rules
  <2> QED
    BY <2>2, <2>3, <2>4, <2>5, <1>b, <1>d, <1>e, LocalStep
<1>7. ASSUME NEW n \in Namespaces, CancelPrune(h, n)
      PROVE  Shape'
  <2> DEFINE R == [rpc[h] EXCEPT !.ns = @ \ {n}]
  <2>1. rpc' = [rpc EXCEPT ![h] = R]
    BY <1>7, <1>e DEF CancelPrune
  <2>2. /\ R.pc = "cancelPrune" /\ R.name = rpc[h].name /\ R.old = rpc[h].old
        /\ R \in RpcLocals
    BY <1>7, <1>b DEF CancelPrune, RpcLocals
  <2> HIDE DEF R
  <2>3. RpcOK(R)
    BY <1>b, <1>c, <2>2 DEF RpcOK, LoopLabels, SetLabels
  <2>4. /\ nsMaps' \subseteq Namespaces /\ podMap' \in [Pods -> Infos \cup {Nil}]
        /\ \A p \in Pods : podMap'[p] # Nil => heap[podMap'[p]] # Nil
    BY <1>7, <1>d, <1>e DEF CancelPrune
  <2> QED
    BY <1>7, <2>1, <2>2, <2>3, <2>4, <1>b, <1>d, <1>e, RpcMove DEF CancelPrune
<1>8. CASE CancelForget(h)
  <2>1. chaosMap' \in [ChaosNames -> Requests \cup {Nil}]
    BY <1>8, <1>b, <1>e DEF CancelForget
  <2> QED
    BY <1>8, <2>1, <1>b, <1>d, <1>e, <1>f, RpcMove DEF CancelForget, Return
<1> QED
  BY <1>1, <1>2, <1>3, <1>4, <1>5, <1>6, <1>7, <1>8 DEF CancelStep

\* What Pointers and Locals ask of the locals of one query.
DnsOK(R) ==
    /\ R.info # Nil => heap[R.info] # Nil
    /\ R.pc \in RefreshLabels => R.info # Nil

\* A step of a query that leaves every PodInfo alone keeps the shape when its new locals
\* and the pointers it puts into ipPodMap are well formed.
LEMMA DnsMove ==
    ASSUME Shape, NEW h \in Dnss, phase \in {"grpc", "up"},
           NEW R \in DnsLocals, DnsOK(R), dns' = [dns EXCEPT ![h] = R],
           ipPodMap' \in [Addr -> Infos \cup {Nil}],
           \A a \in Addr : ipPodMap'[a] # Nil => heap[ipPodMap'[a]] # Nil,
           UNCHANGED <<chaosMap, nsMaps, podMap, heap, server, rpc, env>>
    PROVE  Shape'
<1> USE DEF Shape
<1>1. dns' \in [Dnss -> DnsLocals] /\ dns'[h] = R /\ \A g \in Dnss \ {h} : dns'[g] = dns[g]
  BY DEF TypeOK
<1>2. TypeOK'
  BY <1>1 DEF TypeOK, server, env, InLoop
<1>3. Lifecycle' /\ Locals'
  BY <1>1 DEF Lifecycle, Locals, DnsOK, server
<1>4. Pointers'
  BY <1>1 DEF Pointers, DnsOK, Info, Pod
<1> QED
  BY <1>2, <1>3, <1>4

LEMMA DnsShape ==
    ASSUME Shape, NEW h \in Dnss, DnsStep(h)
    PROVE  Shape'
<1> USE DEF Shape
<1>a. dns[h].pc # "idle"
  BY DEF DnsStep, Lookup, Fetch, FetchFails, Compare, Assign, DropIP, StoreIP, Judge
<1>b. /\ phase \in {"grpc", "up"} /\ dns[h] \in DnsLocals
      /\ dns[h].pc \in RefreshLabels =>
            /\ dns[h].info \in Infos /\ heap[dns[h].info] \in PodInfos
            /\ heap[dns[h].info] # Nil /\ PodOf(dns[h].info) \in Pods
  <2>1. phase \in {"grpc", "up"} /\ dns[h] \in DnsLocals
    BY <1>a, IdleType DEF TypeOK, Lifecycle
  <2>2. ASSUME dns[h].pc \in RefreshLabels
        PROVE  dns[h].info \in Infos /\ heap[dns[h].info] # Nil
    BY <2>1, <2>2 DEF Locals, Pointers, DnsLocals
  <2> QED
    BY <2>1, <2>2 DEF TypeOK, Infos, PodOf
<1>c. /\ dns \in [Dnss -> DnsLocals] /\ ipPodMap \in [Addr -> Infos \cup {Nil}]
      /\ dns[h].info # Nil => heap[dns[h].info] # Nil
      /\ \A a \in Addr : ipPodMap[a] # Nil => heap[ipPodMap[a]] # Nil
  BY DEF TypeOK, Pointers
<1>1. CASE Lookup(h)
  <2> DEFINE i == ipPodMap[dns[h].src]
             l == IF i # Nil /\ IsOverdue(i) THEN "fetch" ELSE "judge"
             R == [dns[h] EXCEPT !.info = i, !.pc = l]
  <2>1. dns' = [dns EXCEPT ![h] = R]
    BY <1>1, <1>c DEF Lookup
  <2>2. /\ i \in Infos \cup {Nil} /\ (i # Nil => heap[i] # Nil)
        /\ l \in {"fetch", "judge"} /\ (l = "fetch" => i # Nil)
    BY <1>b, <1>c DEF DnsLocals
  <2> HIDE DEF i, l
  <2>3. R \in DnsLocals /\ R.info = i /\ R.pc = l
    BY <1>b, <2>2 DEF DnsLocals, DnsLabels
  <2> HIDE DEF R
  <2>4. DnsOK(R)
    BY <1>b, <1>c, <2>2, <2>3 DEF DnsOK, RefreshLabels
  <2> QED
    BY <1>1, <1>b, <1>c, <2>1, <2>2, <2>3, <2>4, DnsMove DEF Lookup, rules
<1>2. CASE Fetch(h)
  <2> DEFINE a == cluster[PodOf(dns[h].info)]
             R == [dns[h] EXCEPT !.pc = "compare", !.ip = a]
  <2>1. a \in Addr
    BY <1>2, <1>b DEF Fetch, TypeOK, RefreshLabels
  <2>2. dns' = [dns EXCEPT ![h] = R]
    BY <1>2, <1>c DEF Fetch
  <2> HIDE DEF a
  <2>3. R \in DnsLocals /\ R.info = dns[h].info
    BY <1>b, <2>1 DEF DnsLocals, DnsLabels
  <2>4. dns[h].info # Nil
    BY <1>2 DEF Fetch, RefreshLabels, Locals
  <2> HIDE DEF R
  <2>5. DnsOK(R)
    BY <1>c, <2>3, <2>4 DEF DnsOK
  <2> QED
    BY <1>2, <1>b, <1>c, <2>2, <2>3, <2>4, <2>5, DnsMove DEF Fetch, rules
<1>3. CASE FetchFails(h)
  <2> DEFINE R == [dns[h] EXCEPT !.pc = "judge", !.info = Nil]
  <2>1. dns' = [dns EXCEPT ![h] = R]
    BY <1>3, <1>c DEF FetchFails
  <2>2. R \in DnsLocals /\ R.info = Nil /\ R.pc = "judge"
    BY <1>b DEF DnsLocals, DnsLabels
  <2> HIDE DEF R
  <2>3. DnsOK(R)
    BY <2>2 DEF DnsOK, RefreshLabels
  <2> QED
    <3>1. UNCHANGED <<rules, server, rpc, env>>
      BY <1>3 DEF FetchFails
    <3>2. UNCHANGED <<chaosMap, nsMaps, podMap, ipPodMap, heap, server, rpc, env>>
      BY <3>1 DEF rules
    <3> QED
      BY <1>b, <1>c, <2>1, <2>2, <2>3, <3>2, DnsMove
<1>4. CASE Compare(h)
  <2> DEFINE l == IF dns[h].ip # heap[dns[h].info].ip THEN "assign" ELSE "judge"
             R == [dns[h] EXCEPT !.pc = l]
  <2>1. dns' = [dns EXCEPT ![h] = R]
    BY <1>4, <1>c DEF Compare
  <2>2. l \in {"assign", "judge"}
    OBVIOUS
  <2> HIDE DEF l
  <2>3. R \in DnsLocals /\ R.info = dns[h].info
    BY <1>b, <2>2 DEF DnsLocals, DnsLabels
  <2>4. dns[h].info # Nil
    BY <1>4 DEF Compare, RefreshLabels, Locals
  <2> HIDE DEF R
  <2>5. DnsOK(R)
    BY <1>c, <2>3, <2>4 DEF DnsOK
  <2> QED
    BY <1>4, <1>b, <1>c, <2>1, <2>3, <2>4, <2>5, DnsMove DEF Compare, rules
<1>5. CASE Assign(h)
  <2> DEFINE i == dns[h].info
             o == [heap[i] EXCEPT !.ip = dns[h].ip, !.stamp = now]
  <2>1. i \in Infos /\ heap[i] \in PodInfos
    BY <1>5, <1>b DEF Assign, RefreshLabels
  <2>2. o \in PodInfos /\ o # Nil
    <3>1. o \in PodInfos
      BY <2>1, <1>b DEF PodInfos, TypeOK, DnsLocals
    <3> QED
      BY <3>1, NamesAssumption
  <2>3. heap' = [heap EXCEPT ![i] = o]
    <3>1. heap \in [Infos -> PodInfos \cup {Nil}]
      BY DEF TypeOK
    <3>2. heap' = [heap EXCEPT ![i].ip = dns[h].ip, ![i].stamp = now]
      BY <1>5 DEF Assign
    <3> HIDE DEF i
    <3> QED
      BY <2>1, <3>1, <3>2
  <2> HIDE DEF o, i
  <2>4. TypeOK'
    <3>1. heap' \in [Infos -> PodInfos \cup {Nil}]
      BY <2>2, <2>3 DEF TypeOK
    <3>2. dns' \in [Dnss -> DnsLocals]
      BY <1>5, <1>b DEF Assign, TypeOK, DnsLocals, DnsLabels
    <3> QED
      BY <1>5, <3>1, <3>2 DEF Assign, TypeOK, server, env, InLoop
  <2>5. Lifecycle' /\ Locals'
    BY <1>5, <1>b, <2>2, <2>3 DEF Assign, TypeOK, DnsLocals, server, env, Lifecycle, Locals,
       RefreshLabels, i
  <2>6. \A j \in Infos : heap[j] # Nil => heap'[j] # Nil
    BY <2>1, <2>2, <2>3 DEF TypeOK
  <2>7. \A g \in Rpcs : rpc[g].pc = "setStoreIP" => Info(g) \in Infos
    BY InFlightFacts DEF InLoop, LoopLabels
  <2>8. Pointers'
    BY <1>5, <1>b, <2>6, <2>7 DEF Assign, TypeOK, DnsLocals, RpcLocals, server, Pointers, Info, Pod
  <2> QED
    BY <2>4, <2>5, <2>8
<1>6. CASE DropIP(h)
  <2> DEFINE R == [dns[h] EXCEPT !.pc = "storeIP"]
  <2>1. dns' = [dns EXCEPT ![h] = R]
    BY <1>6, <1>c DEF DropIP
  <2>2. R \in DnsLocals /\ R.info = dns[h].info
    BY <1>b DEF DnsLocals, DnsLabels
  <2>3. dns[h].info # Nil
    BY <1>6 DEF DropIP, RefreshLabels, Locals
  <2> HIDE DEF R
  <2>4. /\ ipPodMap' \in [Addr -> Infos \cup {Nil}]
        /\ \A a \in Addr : ipPodMap'[a] # Nil => heap[ipPodMap'[a]] # Nil
    BY <1>6, <1>c DEF DropIP
  <2>5. DnsOK(R)
    BY <1>c, <2>2, <2>3 DEF DnsOK
  <2> QED
    BY <1>6, <1>b, <1>c, <2>1, <2>2, <2>3, <2>4, <2>5, DnsMove DEF DropIP
<1>7. CASE StoreIP(h)
  <2> DEFINE R == [dns[h] EXCEPT !.pc = "judge"]
  <2>1. dns' = [dns EXCEPT ![h] = R]
    BY <1>7, <1>c DEF StoreIP
  <2>2. R \in DnsLocals /\ R.info = dns[h].info
    BY <1>b DEF DnsLocals, DnsLabels
  <2>3. dns[h].info \in Infos /\ dns[h].info # Nil
    BY <1>7, <1>b DEF StoreIP, RefreshLabels, Locals
  <2> HIDE DEF R
  <2>4. /\ ipPodMap' \in [Addr -> Infos \cup {Nil}]
        /\ \A a \in Addr : ipPodMap'[a] # Nil => heap[ipPodMap'[a]] # Nil
    BY <1>7, <1>c, <2>3 DEF StoreIP
  <2>5. DnsOK(R)
    BY <1>c, <2>2, <2>3 DEF DnsOK
  <2> QED
    BY <1>7, <1>b, <1>c, <2>1, <2>2, <2>3, <2>4, <2>5, DnsMove DEF StoreIP
<1>8. CASE Judge(h)
  <2> DEFINE info == IF dns[h].info = Nil THEN Nil ELSE heap[dns[h].info]
             v == Verdict(info, dns[h].qname, dns[h].qtype)
             R == [Quiet EXCEPT !.pc = "replied", !.by = dns[h].by,
                                !.info = dns[h].info, !.reply = v]
  <2>1. v \in ChaosReplies \cup {"normal", "panic", Nil}
    BY DEF Verdict, chaosDNS, ChaosReplies
  <2>2. dns' = [dns EXCEPT ![h] = R]
    BY <1>8 DEF Judge
  <2> HIDE DEF v, info
  <2>3. R \in DnsLocals /\ R.pc = "replied" /\ R.info = dns[h].info
    <3>1. "replied" \in DnsLabels
      BY DEF DnsLabels
    <3>2. Quiet \in DnsLocals /\ dns[h].by \in Pods \cup {Nil} /\ dns[h].info \in Infos \cup {Nil}
      BY <1>b, IdleType DEF DnsLocals
    <3> QED
      BY <2>1, <3>1, <3>2 DEF DnsLocals
  <2> HIDE DEF R
  <2>4. DnsOK(R)
    BY <1>c, <2>3 DEF DnsOK, RefreshLabels
  <2> QED
    BY <1>8, <1>b, <1>c, <2>2, <2>3, <2>4, DnsMove DEF Judge, rules
<1> QED
  BY <1>1, <1>2, <1>3, <1>4, <1>5, <1>6, <1>7, <1>8 DEF DnsStep

LEMMA SetupShape ==
    ASSUME Shape, Setup
    PROVE  Shape'
<1> USE DEF Shape
<1>1. CASE Boot
  <2>1. CorefilePods \subseteq Pods
    <3> DEFINE E == [pod : Pods, action : Actions, scope : Scopes]
    <3>1. Corefile \in Seq(E) /\ \A e \in E : e.pod \in Pods
      BY CorefileAssumption
    <3> HIDE DEF E
    <3>2. \A k \in DOMAIN Corefile : Corefile[k] \in E
      BY <3>1
    <3> QED
      BY <3>1, <3>2 DEF CorefilePods
  <2>2. \A p \in CorefilePods : <<0, p>> \in Infos /\ NsOf[p] \in Namespaces
    BY <2>1, BoundsAssumption, NamesAssumption DEF Infos
  <2>3. \A i \in Infos : /\ heap'[i] \in PodInfos \cup {Nil}
                         /\ i[1] = 0 /\ PodOf(i) \in CorefilePods => heap'[i] # Nil
    BY <1>1, CorefileInfoType, NamesAssumption DEF Boot
  <2>4. \A p \in Pods : podMap'[p] \in Infos \cup {Nil} /\ (podMap'[p] # Nil => heap'[podMap'[p]] # Nil)
    BY <1>1, <2>2, <2>3 DEF Boot, PodOf
  <2>5. TypeOK'
    <3>1. heap' \in [Infos -> PodInfos \cup {Nil}] /\ podMap' \in [Pods -> Infos \cup {Nil}]
      BY <1>1, <2>3, <2>4 DEF Boot
    <3>2. nsMaps' \subseteq Namespaces /\ initTodo' \subseteq Pods
      BY <1>1, <2>1, <2>2 DEF Boot
    <3> QED
      BY <1>1, <3>1, <3>2 DEF Boot, TypeOK, env, InLoop
  <2>6. \A p \in CorefilePods : podMap'[p] # Nil
    BY <1>1, <2>1, <2>2, NamesAssumption DEF Boot
  <2>7. Lifecycle' /\ Locals'
    BY <1>1, <2>6 DEF Boot, Lifecycle, Locals
  <2>8. Pointers'
    BY <1>1, <2>4, IdleType DEF Boot, Lifecycle, Pointers
  <2> QED
    BY <2>5, <2>7, <2>8
<1>2. ASSUME NEW p \in Pods, InitPod(p)
      PROVE  Shape'
  <2> DEFINE i == podMap[p]
             o == [heap[i] EXCEPT !.ip = cluster[p], !.stamp = now]
  <2>1. i \in Infos /\ heap[i] \in PodInfos /\ cluster[p] \in Addr
    BY <1>2 DEF InitPod, TypeOK, Lifecycle, Pointers
  <2>2. o \in PodInfos /\ o # Nil
    <3>1. o \in PodInfos
      BY <2>1 DEF PodInfos, TypeOK
    <3> QED
      BY <3>1, NamesAssumption
  <2>3. heap' = [heap EXCEPT ![i] = o] /\ ipPodMap' = [ipPodMap EXCEPT ![cluster[p]] = i]
    <3>1. heap \in [Infos -> PodInfos \cup {Nil}]
      BY DEF TypeOK
    <3>2. /\ heap' = [heap EXCEPT ![i].ip = cluster[p], ![i].stamp = now]
          /\ ipPodMap' = [ipPodMap EXCEPT ![cluster[p]] = i]
      BY <1>2 DEF InitPod
    <3> HIDE DEF i
    <3> QED
      BY <2>1, <3>1, <3>2
  <2> HIDE DEF o, i
  <2>4. TypeOK'
    <3>1. /\ heap' \in [Infos -> PodInfos \cup {Nil}]
          /\ ipPodMap' \in [Addr -> Infos \cup {Nil}]
      BY <2>1, <2>2, <2>3 DEF TypeOK
    <3> QED
      BY <1>2, <3>1 DEF InitPod, TypeOK, env, InLoop
  <2>5. Lifecycle' /\ Locals'
    BY <1>2 DEF InitPod, Lifecycle, Locals
  <2>6. \A j \in Infos : heap[j] # Nil => heap'[j] # Nil
    BY <2>2, <2>3 DEF TypeOK
  <2>7. heap'[i] # Nil
    BY <2>1, <2>2, <2>3 DEF TypeOK
  <2>8. Pointers'
    BY <1>2, <2>1, <2>3, <2>6, <2>7, IdleType DEF InitPod, TypeOK, Lifecycle, Pointers
  <2> QED
    BY <2>4, <2>5, <2>8
<1>3. CASE InitFails
  BY <1>3, CrashShape DEF InitFails
<1>4. CASE CreateGRPCServer \/ OnStartup
  BY <1>4 DEF CreateGRPCServer, OnStartup, TypeOK, Lifecycle, Pointers, Locals, Info, Pod, rules,
     env, InLoop
<1> QED
  BY <1>1, <1>2, <1>3, <1>4 DEF Setup

LEMMA EntryShape ==
    ASSUME Shape
    PROVE  /\ \A h \in Rpcs, r \in Requests : SetDNSChaos(h, r) => Shape'
           /\ \A h \in Rpcs, c \in ChaosNames : CancelDNSChaos(h, c) => Shape'
           /\ \A h \in Dnss, p \in Pods, qname \in QNames, qtype \in QTypes :
                Query(h, p, qname, qtype) => Shape'
<1> USE DEF Shape
<1>1. ASSUME NEW h \in Rpcs, NEW r \in Requests, SetDNSChaos(h, r)
      PROVE  Shape'
  <2> DEFINE R == [Idle EXCEPT !.pc = "setRecord", !.req = r, !.n = sets + 1]
  <2>1. sets + 1 \in 0 .. MaxSets /\ sets' = sets + 1
    BY <1>1, BoundsAssumption DEF SetDNSChaos, TypeOK
  <2>2. R \in RpcLocals /\ R.pc = "setRecord" /\ R.req = r /\ R.old = Nil
    BY <2>1 DEF RpcLocals, Idle, SetLabels
  <2>3. rpc' = [rpc EXCEPT ![h] = R]
    BY <1>1 DEF SetDNSChaos
  <2> HIDE DEF R
  <2>4. TypeOK'
    BY <1>1, <2>1, <2>2, <2>3 DEF SetDNSChaos, TypeOK, rules, env, InLoop, LoopLabels
  <2>5. Lifecycle' /\ Pointers' /\ Locals'
    <3>1. /\ phase' = phase /\ phase \in {"grpc", "up"} /\ initTodo' = initTodo
          /\ podMap' = podMap /\ ipPodMap' = ipPodMap /\ heap' = heap /\ dns' = dns
      BY <1>1 DEF SetDNSChaos, rules
    <3>2. rpc'[h] = R /\ \A g \in Rpcs \ {h} : rpc'[g] = rpc[g]
      BY <2>2, <2>3 DEF TypeOK
    <3>3. Lifecycle'
      BY <3>1 DEF Lifecycle
    <3>4. Pointers'
      BY <2>2, <2>3, <3>1, <3>2 DEF Pointers, Info, Pod
    <3>5. Locals'
      BY <2>2, <2>3, <3>1, <3>2 DEF Locals, CancelLabels
    <3> QED
      BY <3>3, <3>4, <3>5
  <2> QED
    BY <2>4, <2>5
<1>2. ASSUME NEW h \in Rpcs, NEW c \in ChaosNames, CancelDNSChaos(h, c)
      PROVE  Shape'
  <2> DEFINE R == [Idle EXCEPT !.pc = "cancelCheck", !.name = c]
  <2>1. R \in RpcLocals /\ R.pc = "cancelCheck" /\ R.name = c /\ R.old = Nil
    <3>1. "cancelCheck" \in CancelLabels /\ 0 \in 0 .. MaxSets
      BY BoundsAssumption DEF CancelLabels
    <3> QED
      BY <3>1 DEF RpcLocals, Idle
  <2>2. rpc' = [rpc EXCEPT ![h] = R]
    BY <1>2 DEF CancelDNSChaos
  <2> HIDE DEF R
  <2>3. TypeOK'
    BY <1>2, <2>1, <2>2 DEF CancelDNSChaos, TypeOK, rules, server, env, InLoop, LoopLabels
  <2>4. Lifecycle' /\ Pointers' /\ Locals'
    <3>1. /\ phase' = phase /\ phase \in {"grpc", "up"} /\ initTodo' = initTodo
          /\ podMap' = podMap /\ ipPodMap' = ipPodMap /\ heap' = heap /\ dns' = dns
      BY <1>2 DEF CancelDNSChaos, rules, server
    <3>2. rpc'[h] = R /\ \A g \in Rpcs \ {h} : rpc'[g] = rpc[g]
      BY <2>1, <2>2 DEF TypeOK
    <3>3. Lifecycle'
      BY <3>1 DEF Lifecycle
    <3>4. Pointers'
      BY <2>1, <2>2, <3>1, <3>2 DEF Pointers, Info, Pod
    <3>5. Locals'
      BY <2>1, <2>2, <3>1, <3>2 DEF Locals, SetLabels
    <3> QED
      BY <3>3, <3>4, <3>5
  <2> QED
    BY <2>3, <2>4
<1>3. ASSUME NEW h \in Dnss, NEW p \in Pods, NEW qname \in QNames, NEW qtype \in QTypes,
             Query(h, p, qname, qtype)
      PROVE  Shape'
  <2> DEFINE R == [Quiet EXCEPT !.pc = "lookup", !.by = p, !.src = cluster[p],
                                !.qname = qname, !.qtype = qtype]
  <2>1. R \in DnsLocals /\ R.pc = "lookup" /\ R.info = Nil
    <3>1. "lookup" \in DnsLabels /\ cluster[p] \in Addr
      BY <1>3 DEF DnsLabels, Query
    <3> QED
      BY <3>1 DEF DnsLocals, Quiet
  <2>2. dns' = [dns EXCEPT ![h] = R]
    BY <1>3 DEF Query
  <2> HIDE DEF R
  <2>3. TypeOK'
    BY <1>3, <2>1, <2>2 DEF Query, TypeOK, rules, server, env, InLoop
  <2>4. Lifecycle' /\ Pointers' /\ Locals'
    <3>1. /\ phase' = phase /\ phase = "up" /\ initTodo' = initTodo /\ podMap' = podMap
          /\ ipPodMap' = ipPodMap /\ heap' = heap /\ rpc' = rpc
      BY <1>3 DEF Query, rules, server
    <3>2. dns'[h] = R /\ \A g \in Dnss \ {h} : dns'[g] = dns[g]
      BY <2>2 DEF TypeOK
    <3>3. Lifecycle'
      BY <3>1 DEF Lifecycle
    <3>4. Pointers'
      BY <2>1, <3>1, <3>2 DEF Pointers, Info, Pod
    <3>5. Locals'
      BY <2>1, <3>1, <3>2 DEF Locals, RefreshLabels
    <3> QED
      BY <3>3, <3>4, <3>5
  <2> QED
    BY <2>3, <2>4
<1> QED
  BY <1>1, <1>2, <1>3

LEMMA EnvShape ==
    ASSUME Shape, Tick \/ \E p \in Pods : PodChanges(p)
    PROVE  Shape'
<1> USE DEF Shape
<1>1. TypeOK'
  <2>1. CASE Tick
    BY <2>1, BoundsAssumption DEF Tick, TypeOK, rules, server, InLoop
  <2>2. ASSUME NEW p \in Pods, PodChanges(p)
        PROVE  TypeOK'
    <3>1. PICK a \in (Addr \cup {Absent}) \ {cluster[p]} :
              /\ cluster' = [cluster EXCEPT ![p] = a]
              /\ owned' = IF a = Absent THEN owned ELSE owned \cup {<<a, p>>}
      BY <2>2 DEF PodChanges
    <3>2. owned' \subseteq Addr \X Pods /\ cluster' \in [Pods -> Addr \cup {Absent}]
      BY <3>1 DEF TypeOK
    <3> QED
      BY <2>2, <3>2, BoundsAssumption DEF PodChanges, TypeOK, rules, server, InLoop
  <2> QED
    BY <2>1, <2>2
<1>2. Lifecycle' /\ Pointers' /\ Locals'
  BY DEF Tick, PodChanges, rules, server, Lifecycle, Pointers, Locals, Info, Pod
<1> QED
  BY <1>1, <1>2

LEMMA StepShape == Shape /\ [Next]_vars => Shape'
<1> SUFFICES ASSUME Shape, [Next]_vars PROVE Shape'
  OBVIOUS
<1>1. CASE UNCHANGED vars
  BY <1>1 DEF vars, rules, server, env, Shape, TypeOK, Lifecycle, Pointers, Locals, Info, Pod,
     InLoop
<1>2. CASE Next
  <2>1. ASSUME NEW h \in Rpcs, NilPanic(h) PROVE Shape'
    BY <2>1, CrashShape DEF NilPanic
  <2>2. ASSUME MapFault PROVE Shape'
    BY <2>2, CrashShape DEF MapFault
  <2> QED
    BY <1>2, <2>1, <2>2, SetupShape, EntryShape, SetShape, CancelShape, DnsShape, EnvShape
       DEF Next, RpcStep
<1> QED
  BY <1>1, <1>2

\* The shape of the state is an invariant.
LEMMA ShapeInvariant == Spec => []Shape
  BY InitShape, StepShape, PTL DEF Spec

\* The rule maps and the locals of every handler keep their types, and the pod loops of
\* SetDNSChaos and CancelDNSChaos stay inside their requests, with any number of RPCs,
\* queries, crashes and restarts.
THEOREM TypeCorrect == Spec => []TypeOK
<1>1. Shape => TypeOK
  BY DEF Shape
<1> QED
  BY <1>1, ShapeInvariant, PTL

-----------------------------------------------------------------------------
(* Where the addresses in the rules come from                              *)

StoreLabels == {"setCheckNs", "setMakeNs", "setFindOld", "setDropPod", "setDropIP",
                "setStorePod", "setStoreIP"}

\* The maps name a pod by its own key and by addresses it had; owned keeps up with the
\* API server.
MapsOwn ==
    /\ \A a \in Addr : ipPodMap[a] # Nil => <<a, PodOf(ipPodMap[a])>> \in owned
    /\ \A p \in Pods : podMap[p] # Nil => PodOf(podMap[p]) = p
    /\ \A p \in Pods : cluster[p] # Absent => <<cluster[p], p>> \in owned

\* An address that was fetched for a pod is one the pod had.
FetchedOwn ==
    /\ \A h \in Rpcs : rpc[h].pc \in StoreLabels => <<rpc[h].ip, Pod(h)>> \in owned
    /\ \A h \in Dnss : dns[h].pc \in {"compare", "assign", "dropIP", "storeIP"} =>
           <<dns[h].ip, PodOf(dns[h].info)>> \in owned

\* A query and the rule it is judged by have had an address in common.
JudgedOwn ==
    \A h \in Dnss :
        /\ dns[h].pc = "lookup" => <<dns[h].src, dns[h].by>> \in owned
        /\ dns[h].info # Nil => \E a \in Addr : /\ <<a, dns[h].by>> \in owned
                                                /\ <<a, PodOf(dns[h].info)>> \in owned
        /\ dns[h].pc = "replied" /\ dns[h].reply \in ChaosReplies => dns[h].info # Nil

Provenance == MapsOwn /\ FetchedOwn /\ JudgedOwn

LEMMA InitProvenance == Init => Provenance
<1> SUFFICES ASSUME Init PROVE Provenance
  OBVIOUS
<1> QED
  BY IdleType DEF Init, Provenance, MapsOwn, FetchedOwn, JudgedOwn, StoreLabels

LEMMA CrashProvenance == Shape /\ Provenance /\ Crash => Provenance'
  BY IdleType DEF Crash, env, Shape, TypeOK, Provenance, MapsOwn, FetchedOwn, JudgedOwn,
     StoreLabels

LEMMA SetProvenance ==
    ASSUME Shape, Provenance, NEW h \in Rpcs, SetStep(h)
    PROVE  Provenance'
<1>a. rpc \in [Rpcs -> RpcLocals] /\ rpc[h] \in RpcLocals
  BY DEF Shape, TypeOK
<1>b. \A g \in Rpcs \ {h} : rpc'[g] = rpc[g] /\ Pod(g)' = Pod(g)
  <2>1. \A g \in Rpcs \ {h} : rpc'[g] = rpc[g]
    BY <1>a DEF SetStep, SetRecord, SetGetPod, SetGetPodFails, SetCheckNs, SetMakeNs, SetFindOld,
       SetDropPod, SetDropIP, SetStorePod, SetStoreIP, Return, Goto, NextPod
  <2> QED
    BY <2>1 DEF Pod
<1>c. UNCHANGED <<dns, env>>
  BY DEF SetStep, SetRecord, SetGetPod, SetGetPodFails, SetCheckNs, SetMakeNs, SetFindOld,
     SetDropPod, SetDropIP, SetStorePod, SetStoreIP
<1>d. JudgedOwn'
  BY <1>c DEF Provenance, JudgedOwn, env
<1>e. FetchedOwn'
  <2>1. ASSUME rpc'[h].pc \in StoreLabels
        PROVE  <<rpc'[h].ip, Pod(h)'>> \in owned
    <3>1. CASE SetGetPod(h)
      <4>1. Pod(h) \in Pods
        BY <3>1, InFlightFacts DEF SetGetPod, InLoop, LoopLabels
      <4>2. rpc'[h].ip = cluster[Pod(h)] /\ Pod(h)' = Pod(h)
        BY <1>a, <3>1 DEF SetGetPod, RpcLocals, Pod
      <4> QED
        BY <3>1, <4>1, <4>2 DEF SetGetPod, Provenance, MapsOwn
    <3>2. CASE \/ SetCheckNs(h) \/ SetMakeNs(h) \/ SetFindOld(h) \/ SetDropPod(h)
               \/ SetDropIP(h) \/ SetStorePod(h)
      <4>1. rpc[h].pc \in StoreLabels /\ rpc'[h].ip = rpc[h].ip /\ Pod(h)' = Pod(h)
        <5>1. rpc[h].pc \in StoreLabels
          BY <3>2 DEF SetCheckNs, SetMakeNs,
             SetFindOld, SetDropPod, SetDropIP, SetStorePod, StoreLabels
        <5>2. rpc'[h].ip = rpc[h].ip /\ rpc'[h].req = rpc[h].req /\ rpc'[h].k = rpc[h].k
          <6>1. CASE SetFindOld(h)
            BY <1>a, <6>1 DEF SetFindOld, RpcLocals
          <6>2. CASE SetCheckNs(h) \/ SetMakeNs(h) \/ SetDropPod(h) \/ SetDropIP(h) \/ SetStorePod(h)
            <7>1. \/ Goto(h, "setFindOld") \/ Goto(h, "setMakeNs") \/ Goto(h, "setDropIP")
                  \/ Goto(h, "setStorePod") \/ Goto(h, "setStoreIP")
              BY <6>2, Zenon DEF SetCheckNs, SetMakeNs, SetDropPod, SetDropIP, SetStorePod
            <7> QED
              BY <1>a, <7>1 DEF Goto, RpcLocals
          <6> QED
            BY <3>2, <6>1, <6>2
        <5> QED
          BY <5>1, <5>2 DEF Pod
      <4> QED
        BY <4>1 DEF Provenance, FetchedOwn
    <3>3. CASE SetRecord(h) \/ SetGetPodFails(h) \/ SetStoreIP(h)
      BY <1>a, <2>1, <3>3, IdleType DEF SetRecord, SetGetPodFails, SetStoreIP, Return, NextPod,
         RpcLocals, StoreLabels
    <3> QED
      BY <3>1, <3>2, <3>3 DEF SetStep
  <2> QED
    BY <1>b, <1>c, <2>1 DEF Provenance, FetchedOwn, env
<1>f. MapsOwn'
  <2>1. CASE SetRecord(h) \/ SetGetPod(h) \/ SetGetPodFails(h) \/ SetCheckNs(h) \/ SetFindOld(h)
    BY <1>c, <2>1 DEF SetRecord, SetGetPod, SetGetPodFails, SetCheckNs, SetFindOld, rules, env,
       Provenance, MapsOwn
  <2>2. CASE SetMakeNs(h) \/ SetDropPod(h) \/ SetDropIP(h)
    BY <1>c, <2>2 DEF SetMakeNs, SetDropPod, SetDropIP, env, Provenance, MapsOwn, Shape, TypeOK
  <2>3. CASE SetStorePod(h)
    <3>1. podMap' = [podMap EXCEPT ![Pod(h)] = Info(h)] /\ PodOf(Info(h)) = Pod(h)
      BY <2>3 DEF SetStorePod, Info, PodOf
    <3> QED
      BY <1>c, <2>3, <3>1 DEF SetStorePod, env, Provenance, MapsOwn, Shape, TypeOK
  <2>4. CASE SetStoreIP(h)
    <3>1. /\ ipPodMap' = [ipPodMap EXCEPT ![rpc[h].ip] = Info(h)] /\ PodOf(Info(h)) = Pod(h)
          /\ <<rpc[h].ip, Pod(h)>> \in owned
      BY <2>4 DEF SetStoreIP, Info, PodOf, Provenance, FetchedOwn, StoreLabels
    <3> QED
      BY <1>c, <2>4, <3>1 DEF SetStoreIP, env, Provenance, MapsOwn, Shape, TypeOK
  <2> QED
    BY <2>1, <2>2, <2>3, <2>4 DEF SetStep
<1> QED
  BY <1>d, <1>e, <1>f DEF Provenance

LEMMA CancelProvenance ==
    ASSUME Shape, Provenance, NEW h \in Rpcs, CancelStep(h)
    PROVE  Provenance'
<1>a. rpc \in [Rpcs -> RpcLocals] /\ rpc[h] \in RpcLocals
  BY DEF Shape, TypeOK
<1> USE DEF CancelStep, CancelCheck, CancelLoad, CancelFind, CancelDropPod, CancelDropIP,
            CancelScan, CancelPrune, CancelForget
<1>b. \A g \in Rpcs \ {h} : rpc'[g] = rpc[g] /\ Pod(g)' = Pod(g)
  <2>1. \A g \in Rpcs \ {h} : rpc'[g] = rpc[g]
    BY <1>a DEF Return, Goto, NextPod
  <2> QED
    BY <2>1 DEF Pod
<1>c. UNCHANGED <<dns, env>>
  OBVIOUS
<1>d. rpc'[h].pc \notin StoreLabels
  <2>1. CASE CancelCheck(h) \/ CancelForget(h)
    BY <1>a, <2>1, IdleType DEF Return, Goto, RpcLocals, StoreLabels
  <2>2. CASE CancelLoad(h) \/ CancelScan(h) \/ CancelDropPod(h)
    BY <1>a, <2>2 DEF Goto, RpcLocals, StoreLabels
  <2>3. CASE CancelFind(h)
    <3>1. rpc'[h].pc \in {"cancelDropPod", "cancelScan", "cancelFind"}
      <4>1. CASE podMap[Pod(h)] # Nil
        BY <1>a, <2>3, <4>1 DEF RpcLocals
      <4>2. CASE podMap[Pod(h)] = Nil /\ LastPod(h)
        BY <1>a, <2>3, <4>2 DEF Goto, RpcLocals
      <4>3. CASE podMap[Pod(h)] = Nil /\ ~LastPod(h)
        BY <1>a, <2>3, <4>3 DEF NextPod, RpcLocals
      <4> QED
        BY <4>1, <4>2, <4>3
    <3> QED
      BY <3>1 DEF StoreLabels
  <2>4. CASE CancelDropIP(h)
    BY <1>a, <2>4 DEF Goto, NextPod, RpcLocals, StoreLabels
  <2>5. ASSUME NEW n \in Namespaces, CancelPrune(h, n)
        PROVE  rpc'[h].pc \notin StoreLabels
    BY <1>a, <2>5 DEF RpcLocals, StoreLabels
  <2> QED
    BY <2>1, <2>2, <2>3, <2>4, <2>5 DEF CancelStep
<1>e. FetchedOwn' /\ JudgedOwn'
  BY <1>b, <1>c, <1>d DEF Provenance, FetchedOwn, JudgedOwn, env
<1>f. /\ \A p \in Pods : podMap'[p] \in {podMap[p], Nil}
      /\ \A a \in Addr : ipPodMap'[a] \in {ipPodMap[a], Nil}
  <2>1. podMap \in [Pods -> Infos \cup {Nil}] /\ ipPodMap \in [Addr -> Infos \cup {Nil}]
    BY DEF Shape, TypeOK
  <2>2. CASE CancelDropPod(h)
    BY <2>1, <2>2
  <2>3. CASE CancelDropIP(h)
    BY <2>1, <2>3
  <2>4. ASSUME NEW n \in Namespaces, CancelPrune(h, n)
        PROVE  /\ \A p \in Pods : podMap'[p] \in {podMap[p], Nil}
               /\ \A a \in Addr : ipPodMap'[a] \in {ipPodMap[a], Nil}
    BY <2>4
  <2>5. CASE CancelCheck(h) \/ CancelLoad(h) \/ CancelFind(h) \/ CancelScan(h) \/ CancelForget(h)
    BY <2>5 DEF rules
  <2> QED
    BY <2>2, <2>3, <2>4, <2>5 DEF CancelStep
<1>g. MapsOwn'
  <2>1. cluster' = cluster /\ owned' = owned
    BY <1>c DEF env
  <2>2. \A a \in Addr : ipPodMap'[a] # Nil => <<a, PodOf(ipPodMap'[a])>> \in owned
    BY <1>f DEF Provenance, MapsOwn
  <2>3. \A p \in Pods : podMap'[p] # Nil => PodOf(podMap'[p]) = p
    BY <1>f DEF Provenance, MapsOwn
  <2>4. \A p \in Pods : cluster[p] # Absent => <<cluster[p], p>> \in owned
    BY DEF Provenance, MapsOwn
  <2> QED
    BY <2>1, <2>2, <2>3, <2>4 DEF MapsOwn, PodOf
<1> QED
  BY <1>e, <1>g DEF Provenance

LEMMA DnsProvenance ==
    ASSUME Shape, Provenance, NEW h \in Dnss, DnsStep(h)
    PROVE  Provenance'
<1>a. dns \in [Dnss -> DnsLocals] /\ dns[h] \in DnsLocals /\ ipPodMap \in [Addr -> Infos \cup {Nil}]
  BY DEF Shape, TypeOK
<1>b. UNCHANGED <<podMap, rpc, env>> /\ \A g \in Dnss \ {h} : dns'[g] = dns[g]
  BY <1>a DEF DnsStep, Lookup, Fetch, FetchFails, Compare, Assign, DropIP, StoreIP, Judge, rules
<1>c. MapsOwn'
  <2>1. CASE StoreIP(h)
    <3>1. /\ ipPodMap' = [ipPodMap EXCEPT ![dns[h].ip] = dns[h].info]
          /\ <<dns[h].ip, PodOf(dns[h].info)>> \in owned
      BY <2>1 DEF StoreIP, Provenance, FetchedOwn
    <3> QED
      BY <1>a, <1>b, <3>1 DEF Provenance, MapsOwn, env
  <2>2. CASE ~StoreIP(h)
    <3>1. \A a \in Addr : ipPodMap'[a] \in {ipPodMap[a], Nil}
      BY <1>a, <2>2 DEF DnsStep, Lookup, Fetch, FetchFails, Compare, Assign, DropIP, Judge, rules
    <3> QED
      BY <1>b, <3>1 DEF Provenance, MapsOwn, env
  <2> QED
    BY <2>1, <2>2
<1>d. FetchedOwn'
  <2>1. ASSUME dns'[h].pc \in {"compare", "assign", "dropIP", "storeIP"}
        PROVE  <<dns'[h].ip, PodOf(dns'[h].info)>> \in owned
    <3>1. CASE Fetch(h)
      <4>1. PodOf(dns[h].info) \in Pods
        BY <1>a, <3>1 DEF Fetch, Shape, Locals, RefreshLabels, DnsLocals, Infos, PodOf
      <4>2. dns'[h].ip = cluster[PodOf(dns[h].info)] /\ dns'[h].info = dns[h].info
        BY <1>a, <3>1 DEF Fetch, DnsLocals
      <4> QED
        BY <3>1, <4>1, <4>2 DEF Fetch, Provenance, MapsOwn
    <3>2. CASE Compare(h) \/ Assign(h) \/ DropIP(h)
      <4>1. dns'[h].ip = dns[h].ip /\ dns'[h].info = dns[h].info
        BY <1>a, <3>2 DEF Compare, Assign, DropIP, DnsLocals
      <4> QED
        BY <3>2, <4>1 DEF Compare, Assign, DropIP, Provenance, FetchedOwn
    <3>3. CASE Lookup(h) \/ FetchFails(h) \/ StoreIP(h) \/ Judge(h)
      <4>1. CASE Lookup(h)
        <5>1. dns'[h].pc \in {"fetch", "judge"}
          BY <1>a, <4>1 DEF Lookup, DnsLocals
        <5> QED
          BY <2>1, <5>1
      <4>2. CASE FetchFails(h) \/ StoreIP(h)
        <5>1. dns'[h].pc = "judge"
          BY <1>a, <4>2 DEF FetchFails, StoreIP, DnsLocals
        <5> QED
          BY <2>1, <5>1
      <4>3. CASE Judge(h)
        <5>1. dns'[h].pc = "replied"
          BY <1>a, <4>3 DEF Judge, Quiet, DnsLocals
        <5> QED
          BY <2>1, <5>1
      <4> QED
        BY <3>3, <4>1, <4>2, <4>3
    <3> QED
      BY <3>1, <3>2, <3>3 DEF DnsStep
  <2> QED
    BY <1>b, <2>1 DEF Provenance, FetchedOwn, Pod, env
<1>e. JudgedOwn'
  <2>1. CASE Lookup(h)
    <3>1. /\ dns'[h].by = dns[h].by /\ dns'[h].info = ipPodMap[dns[h].src]
          /\ dns'[h].pc \in {"fetch", "judge"} /\ dns[h].src \in Addr
      BY <1>a, <2>1 DEF Lookup, DnsLocals
    <3>2. <<dns[h].src, dns[h].by>> \in owned
      BY <2>1 DEF Lookup, Provenance, JudgedOwn
    <3> QED
      BY <1>b, <3>1, <3>2 DEF Provenance, JudgedOwn, MapsOwn, env
  <2>2. CASE Fetch(h) \/ FetchFails(h) \/ Compare(h) \/ Assign(h) \/ DropIP(h) \/ StoreIP(h)
    <3>1. /\ dns'[h].by = dns[h].by /\ dns'[h].info \in {dns[h].info, Nil}
          /\ dns'[h].pc \notin {"lookup", "replied"}
      BY <1>a, <2>2 DEF Fetch, FetchFails, Compare, Assign, DropIP, StoreIP, DnsLocals
    <3> QED
      BY <1>b, <3>1 DEF Provenance, JudgedOwn, env
  <2>3. CASE Judge(h)
    <3>1. /\ dns'[h].by = dns[h].by /\ dns'[h].info = dns[h].info /\ dns'[h].pc = "replied"
      BY <1>a, <2>3 DEF Judge, Quiet
    <3>2. dns[h].info = Nil => dns'[h].reply = "normal"
      BY <1>a, <2>3 DEF Judge, Quiet, Verdict
    <3> QED
      BY <1>b, <3>1, <3>2 DEF Provenance, JudgedOwn, env, ChaosReplies
  <2> QED
    BY <2>1, <2>2, <2>3 DEF DnsStep
<1> QED
  BY <1>c, <1>d, <1>e DEF Provenance

LEMMA SetupProvenance ==
    ASSUME Shape, Provenance, Setup
    PROVE  Provenance'
<1>1. CASE Boot
  <2>1. \A p \in Pods : podMap'[p] # Nil => PodOf(podMap'[p]) = p
    BY <1>1 DEF Boot, PodOf
  <2> QED
    BY <1>1, <2>1 DEF Boot, env, Provenance, MapsOwn, FetchedOwn, JudgedOwn, Pod
<1>2. ASSUME NEW p \in Pods, InitPod(p)
      PROVE  Provenance'
  <2>1. /\ ipPodMap' = [ipPodMap EXCEPT ![cluster[p]] = podMap[p]]
        /\ PodOf(podMap[p]) = p /\ <<cluster[p], p>> \in owned
    BY <1>2 DEF InitPod, Shape, Lifecycle, Provenance, MapsOwn
  <2>2. MapsOwn'
    BY <1>2, <2>1 DEF InitPod, env, Provenance, MapsOwn, Shape, TypeOK
  <2> QED
    BY <1>2, <2>2 DEF InitPod, env, Provenance, FetchedOwn, JudgedOwn, Pod
<1>3. CASE InitFails
  BY <1>3, CrashProvenance DEF InitFails
<1>4. CASE CreateGRPCServer \/ OnStartup
  BY <1>4 DEF CreateGRPCServer, OnStartup, rules, env, Provenance, MapsOwn, FetchedOwn,
     JudgedOwn, Pod
<1> QED
  BY <1>1, <1>2, <1>3, <1>4 DEF Setup

LEMMA EntryProvenance ==
    ASSUME Shape, Provenance
    PROVE  /\ \A h \in Rpcs, r \in Requests : SetDNSChaos(h, r) => Provenance'
           /\ \A h \in Rpcs, c \in ChaosNames : CancelDNSChaos(h, c) => Provenance'
           /\ \A h \in Dnss, p \in Pods, qname \in QNames, qtype \in QTypes :
                Query(h, p, qname, qtype) => Provenance'
<1> USE DEF Provenance, MapsOwn, FetchedOwn, JudgedOwn
<1>1. ASSUME NEW h \in Rpcs, NEW r \in Requests, SetDNSChaos(h, r)
      PROVE  Provenance'
  BY <1>1 DEF SetDNSChaos, Idle, rules, env, Shape, TypeOK, Pod, StoreLabels
<1>2. ASSUME NEW h \in Rpcs, NEW c \in ChaosNames, CancelDNSChaos(h, c)
      PROVE  Provenance'
  BY <1>2 DEF CancelDNSChaos, Idle, rules, env, Shape, TypeOK, Pod, StoreLabels
<1>3. ASSUME NEW h \in Dnss, NEW p \in Pods, NEW qname \in QNames, NEW qtype \in QTypes,
             Query(h, p, qname, qtype)
      PROVE  Provenance'
  BY <1>3, NamesAssumption DEF Query, Quiet, rules, env, Shape, TypeOK, Pod
<1> QED
  BY <1>1, <1>2, <1>3

LEMMA EnvProvenance ==
    ASSUME Shape, Provenance, Tick \/ \E p \in Pods : PodChanges(p)
    PROVE  Provenance'
<1> USE DEF Provenance, MapsOwn, FetchedOwn, JudgedOwn
<1>1. CASE Tick
  BY <1>1 DEF Tick, rules, Pod
<1>2. ASSUME NEW p \in Pods, PodChanges(p)
      PROVE  Provenance'
  <2>1. PICK a \in Addr \cup {Absent} :
            /\ cluster' = [cluster EXCEPT ![p] = a]
            /\ owned' = IF a = Absent THEN owned ELSE owned \cup {<<a, p>>}
    BY <1>2 DEF PodChanges
  <2>2. owned \subseteq owned'
    BY <2>1
  <2>3. \A q \in Pods : cluster'[q] # Absent => <<cluster'[q], q>> \in owned'
    BY <2>1, <2>2 DEF Shape, TypeOK
  <2>4. UNCHANGED <<ipPodMap, podMap, rpc, dns>>
    BY <1>2 DEF PodChanges, rules
  <2>5. MapsOwn' /\ FetchedOwn'
    BY <2>2, <2>3, <2>4 DEF Pod
  <2>6. JudgedOwn'
    BY <2>2, <2>4
  <2> QED
    BY <2>5, <2>6
<1> QED
  BY <1>1, <1>2

LEMMA StepProvenance == Shape /\ Provenance /\ [Next]_vars => Provenance'
<1> SUFFICES ASSUME Shape, Provenance, [Next]_vars PROVE Provenance'
  OBVIOUS
<1>1. CASE UNCHANGED vars
  BY <1>1 DEF vars, rules, env, Provenance, MapsOwn, FetchedOwn, JudgedOwn, Pod
<1>2. CASE Next
  <2>1. ASSUME NEW h \in Rpcs, NilPanic(h) PROVE Provenance'
    BY <2>1, CrashProvenance DEF NilPanic
  <2>2. ASSUME MapFault PROVE Provenance'
    BY <2>2, CrashProvenance DEF MapFault
  <2> QED
    BY <1>2, <2>1, <2>2, SetupProvenance, EntryProvenance, SetProvenance, CancelProvenance,
       DnsProvenance, EnvProvenance DEF Next, RpcStep
<1> QED
  BY <1>1, <1>2

LEMMA ProvenanceInvariant == Spec => []Provenance
<1>1. Init => Provenance
  BY InitProvenance
<1>2. Shape /\ Provenance /\ [Next]_vars => Provenance'
  BY StepProvenance
<1> QED
  BY <1>1, <1>2, ShapeInvariant, PTL DEF Spec

\* No interleaving of RPCs, queries, address changes and restarts files a rule under an
\* address that its pod never had.
THEOREM RulesKnowTheirPods == Spec => []IPProvenance
<1>1. Provenance => IPProvenance
  BY DEF Provenance, MapsOwn, FetchedOwn, IPProvenance, StoreLabels
<1> QED
  BY <1>1, ProvenanceInvariant, PTL

\* A pod that kept an address of its own is afflicted by rules made for it only, though no
\* lock keeps the handlers apart.
THEOREM OnlySelectedPodsAfflicted == Spec => []AfflictedWasSelected
<1>1. Shape /\ Provenance => AfflictedWasSelected
  <2> SUFFICES ASSUME Shape, Provenance, NEW h \in Dnss, dns[h].pc = "replied",
                      dns[h].reply \in ChaosReplies, Settled(dns[h].by)
               PROVE  PodOf(dns[h].info) = dns[h].by
    BY DEF AfflictedWasSelected
  <2>1. PICK a \in Addr : <<a, dns[h].by>> \in owned /\ <<a, PodOf(dns[h].info)>> \in owned
    BY DEF Provenance, JudgedOwn
  <2>2. a = cluster[dns[h].by]
    BY <2>1 DEF Settled
  <2> QED
    BY <2>1, <2>2 DEF Settled
<1> QED
  BY <1>1, ShapeInvariant, ProvenanceInvariant, PTL

=============================================================================
