----------------------- MODULE ChaosRefinementProofs ------------------------
(***************************************************************************)
(* ChaosServer with one RPC at a time implements ChaosContract: every step *)
(* of the server is a step of the contract or one that it does not see.    *)
(***************************************************************************)
EXTENDS ChaosRefinement, ChaosRulesProofs

USE DEF Addr, Actions, Scopes, QTypes

-----------------------------------------------------------------------------
(* The refinement mapping                                                  *)

\* Settled pods are those with an address to themselves.
LEMMA SettledHasAddress ==
    ASSUME Shape, NEW p \in Pods
    PROVE  /\ HasSettled(p) => Address(p) \in IPs /\ Sole(p, Address(p))
           /\ \A a \in IPs : Sole(p, a) => HasSettled(p) /\ Address(p) = a
<1>1. ASSUME HasSettled(p) PROVE Address(p) \in IPs /\ Sole(p, Address(p))
  <2>1. PICK o \in owned : o[1] \in IPs /\ \A x \in owned : x[1] = o[1] <=> x[2] = p
    BY <1>1 DEF HasSettled
  <2>2. o = <<o[1], p>>
    BY <2>1 DEF Shape, TypeOK
  <2>3. \E a \in IPs : <<a, p>> \in owned
    BY <2>1, <2>2
  <2>4. Address(p) \in IPs /\ <<Address(p), p>> \in owned
    BY <2>3 DEF Address
  <2>5. Address(p) = o[1]
    <3>1. <<Address(p), p>>[1] = o[1] <=> <<Address(p), p>>[2] = p
      BY <2>1, <2>4
    <3> QED
      BY <3>1
  <2> QED
    BY <2>1, <2>4, <2>5 DEF Sole
<1>2. ASSUME NEW a \in IPs, Sole(p, a) PROVE HasSettled(p) /\ Address(p) = a
  <2>1. <<a, p>> \in owned /\ <<a, p>>[1] = a
    BY <1>2 DEF Sole
  <2>2. HasSettled(p)
    BY <1>2, <2>1 DEF HasSettled, Sole
  <2>3. <<Address(p), p>> \in owned /\ Address(p) \in Addr
    BY <1>1, <2>2 DEF Sole
  <2> QED
    BY <1>2, <2>2, <2>3, SoleFacts
<1> QED
  BY <1>1, <1>2

-----------------------------------------------------------------------------
(* The rules that start-up and the calls have made so far                  *)

BootRule(p) == RuleOf(CorefileInfo(CorefileEntry(p)))

\* While setup runs, the rules are those of the chaos lines.
BootHeap ==
    phase = "init" =>
        /\ \A p \in CorefilePods : podMap[p] # Nil
        /\ \A i \in Infos : heap[i] # Nil =>
               PodOf(i) \in CorefilePods /\ RuleOf(heap[i]) = BootRule(PodOf(i))

\* Has the call of h made the PodInfo of its j-th pod?
Made(h, j) == j < rpc[h].k \/ (j = rpc[h].k /\ rpc[h].pc = "setStoreIP")

\* The j-th pod of the request of h has the rule that the request asks for.
HasRule(h, j) ==
    LET i == <<rpc[h].n, rpc[h].req.pods[j]>>
    IN  /\ podMap[rpc[h].req.pods[j]] = i /\ heap[i] # Nil
        /\ RuleOf(heap[i]) = RequestedRule(rpc[h].req)

Imposed ==
    \A h \in Rpcs : rpc[h].pc \in SettingLabels =>
        \A j \in DOMAIN rpc[h].req.pods : Made(h, j) => HasRule(h, j)

\* A PodInfo keeps its rule as long as it is there.
LEMMA RuleKept ==
    ASSUME Shape, NumbersFresh, RoomLeft, [Next]_vars,
           NEW i \in Infos, heap[i] # Nil, heap'[i] # Nil
    PROVE  RuleOf(heap'[i]) = RuleOf(heap[i])
<1>1. /\ heap'[i].action = heap[i].action /\ heap'[i].scope = heap[i].scope
      /\ heap'[i].sel = heap[i].sel
  BY StepImmutable
<1> QED
  BY <1>1 DEF RuleOf

\* A PodInfo is there until the process ends.
LEMMA HeapKept ==
    ASSUME Shape, [Next]_vars, ~Crash, NEW i \in Infos, heap[i] # Nil
    PROVE  heap'[i] # Nil
<1>1. CASE Boot
  BY <1>1 DEF Boot, Shape, Lifecycle
<1>2. ASSUME NEW p \in Pods, InitPod(p) PROVE heap'[i] # Nil
  <2>1. /\ podMap[p] \in Infos /\ heap[podMap[p]] # Nil
        /\ cluster[p] \in Addr /\ now \in 0 .. MaxTime
        /\ heap' = [heap EXCEPT ![podMap[p]].ip = cluster[p], ![podMap[p]].stamp = now]
    BY <1>2, InitPodFacts
  <2>2. heap'[podMap[p]] # Nil /\ \A j \in Infos \ {podMap[p]} : heap'[j] = heap[j]
    BY <2>1, InPlaceFacts
  <2> QED
    BY <2>2
<1>3. ASSUME NEW h \in Dnss, DnsStep(h), ~UNCHANGED heap PROVE heap'[i] # Nil
  <2>1. /\ dns[h].info \in Infos /\ heap[dns[h].info] # Nil
        /\ dns[h].ip \in Addr /\ now \in 0 .. MaxTime
        /\ heap' = [heap EXCEPT ![dns[h].info].ip = dns[h].ip, ![dns[h].info].stamp = now]
    BY <1>3, DnsFrame
  <2>2. heap'[dns[h].info] # Nil /\ \A j \in Infos \ {dns[h].info} : heap'[j] = heap[j]
    BY <2>1, InPlaceFacts
  <2> QED
    BY <2>2
<1>4. ASSUME NEW h \in Rpcs, SetStorePod(h) PROVE heap'[i] # Nil
  <2>1. NewInfo(h) \in PodInfos /\ heap' = [heap EXCEPT ![Info(h)] = NewInfo(h)]
    <3>1. /\ rpc[h].pc # "idle" /\ InLoop(h)
          /\ heap' = [heap EXCEPT ![Info(h)] = NewInfo(h)]
      BY <1>4 DEF SetStorePod, InLoop, LoopLabels
    <3>2. rpc[h].req \in Requests /\ rpc[h] \in RpcLocals
      BY <3>1, InFlightFacts
    <3>3. /\ rpc[h].req.action \in Actions /\ rpc[h].req.patterns \in SUBSET Patterns
          /\ rpc[h].ip \in Addr /\ now \in 0 .. MaxTime /\ ScopeOf(rpc[h].req) \in Scopes \cup {""}
      BY <3>2, RequestPods DEF RpcLocals, Shape, TypeOK, ScopeOf
    <3> QED
      BY <3>1, <3>3 DEF NewInfo, PodInfos
  <2>2. NewInfo(h) # Nil /\ heap \in [Infos -> PodInfos \cup {Nil}]
    BY <2>1, NamesAssumption DEF Shape, TypeOK
  <2> QED
    BY <2>1, <2>2
<1>5. ASSUME NEW h \in Rpcs, SetStep(h) \/ CancelStep(h), ~SetStorePod(h)
      PROVE  heap' = heap
  BY <1>5 DEF SetStep, SetRecord, SetGetPod, SetGetPodFails, SetCheckNs, SetMakeNs, SetFindOld,
     SetDropPod, SetDropIP, SetStoreIP, CancelStep, CancelCheck, CancelLoad, CancelFind,
     CancelDropPod, CancelDropIP, CancelScan, CancelPrune, CancelForget, rules
<1>6. CASE \/ UNCHANGED vars \/ CreateGRPCServer \/ OnStartup \/ Tick
           \/ \E p \in Pods : PodChanges(p)
           \/ \E h \in Rpcs, r \in Requests : SetDNSChaos(h, r)
           \/ \E h \in Rpcs, c \in ChaosNames : CancelDNSChaos(h, c)
           \/ \E h \in Dnss, p \in Pods, qname \in QNames, qtype \in QTypes :
                  Query(h, p, qname, qtype)
  BY <1>6 DEF vars, rules, CreateGRPCServer, OnStartup, Tick, PodChanges, Query, SetDNSChaos,
     CancelDNSChaos
<1> QED
  BY <1>1, <1>2, <1>3, <1>4, <1>5, <1>6, StepCases

LEMMA CorefileInPods == CorefilePods \subseteq Pods
<1> DEFINE E == [pod : Pods, action : Actions, scope : Scopes]
<1>1. \A e \in E : e.pod \in Pods
  OBVIOUS
<1>2. \A k \in DOMAIN Corefile : Corefile[k] \in E
  <2> HIDE DEF E
  <2>1. Corefile \in Seq(E)
    BY CorefileAssumption DEF E
  <2> QED
    BY <2>1
<1> QED
  BY <1>1, <1>2 DEF CorefilePods

LEMMA StepBoot ==
    ASSUME Shape, NumbersFresh, RoomLeft, BootHeap, [Next]_vars
    PROVE  BootHeap'
<1> SUFFICES ASSUME phase' = "init" PROVE BootHeap'
  BY DEF BootHeap
<1>1. CASE Boot
  <2>1. \A p \in CorefilePods : podMap'[p] # Nil
    <3>1. \A p \in CorefilePods : p \in Pods
      BY CorefileInPods
    <3>2. \A p \in CorefilePods : <<0, p>> \in Infos
      BY <3>1, BoundsAssumption DEF Infos
    <3> QED
      BY <1>1, <3>1, <3>2, NamesAssumption DEF Boot
  <2>2. \A i \in Infos : heap'[i] # Nil =>
            PodOf(i) \in CorefilePods /\ RuleOf(heap'[i]) = BootRule(PodOf(i))
    BY <1>1 DEF Boot, BootRule
  <2> QED
    BY <2>1, <2>2 DEF BootHeap
<1>2. CASE ~Boot
  <2>1. ~Crash
    BY DEF Crash
  <2>2. phase = "init" /\ podMap' = podMap /\ \A i \in Infos : heap'[i] # Nil => heap[i] # Nil
    <3>1. ASSUME NEW p \in Pods, InitPod(p)
          PROVE  phase = "init" /\ podMap' = podMap /\ \A i \in Infos : heap'[i] # Nil => heap[i] # Nil
      <4>1. /\ podMap[p] \in Infos /\ heap[podMap[p]] # Nil
            /\ cluster[p] \in Addr /\ now \in 0 .. MaxTime
            /\ heap' = [heap EXCEPT ![podMap[p]].ip = cluster[p], ![podMap[p]].stamp = now]
        BY <3>1, InitPodFacts
      <4>2. \A j \in Infos \ {podMap[p]} : heap'[j] = heap[j]
        BY <4>1, InPlaceFacts
      <4> QED
        BY <3>1, <4>1, <4>2 DEF InitPod
    <3>2. ASSUME NEW h \in Rpcs, SetStep(h) \/ CancelStep(h) PROVE FALSE
      <4>1. rpc[h].pc # "idle"
        BY <3>2 DEF SetStep, SetRecord, SetGetPod, SetGetPodFails, SetCheckNs, SetMakeNs,
           SetFindOld,
           SetDropPod, SetDropIP, SetStorePod, SetStoreIP, CancelStep, CancelCheck, CancelLoad,
           CancelFind, CancelDropPod, CancelDropIP, CancelScan, CancelPrune, CancelForget
      <4> QED
        BY <3>2, <4>1, InFlightFacts, RpcFrame
    <3>3. ASSUME NEW h \in Dnss, DnsStep(h) PROVE FALSE
      <4>1. dns[h].pc # "idle"
        BY <3>3 DEF DnsStep, Lookup, Fetch, FetchFails, Compare, Assign, DropIP, StoreIP, Judge
      <4> QED
        BY <3>3, <4>1, DnsFrame, IdleType DEF Shape, Lifecycle
    <3>4. CASE \/ UNCHANGED vars \/ CreateGRPCServer \/ OnStartup \/ Tick
               \/ \E p \in Pods : PodChanges(p)
               \/ \E h \in Rpcs, r \in Requests : SetDNSChaos(h, r)
               \/ \E h \in Rpcs, c \in ChaosNames : CancelDNSChaos(h, c)
               \/ \E h \in Dnss, p \in Pods, qname \in QNames, qtype \in QTypes :
                      Query(h, p, qname, qtype)
      BY <3>4 DEF vars, rules, server, CreateGRPCServer, OnStartup, Tick, PodChanges, Query,
         SetDNSChaos, CancelDNSChaos
    <3> QED
      BY <1>2, <2>1, <3>1, <3>2, <3>3, <3>4, StepCases
  <2>3. \A i \in Infos : heap'[i] # Nil => RuleOf(heap'[i]) = RuleOf(heap[i])
    BY <2>2, RuleKept
  <2> QED
    BY <2>2, <2>3 DEF BootHeap, BootRule
<1> QED
  BY <1>1, <1>2

\* A step that is not of a call leaves what the calls made.
LEMMA ImposedFrame ==
    ASSUME Shape, NumbersFresh, RoomLeft, Imposed, [Next]_vars, ~Crash, UNCHANGED <<podMap, rpc>>
    PROVE  Imposed'
<1> SUFFICES ASSUME NEW h \in Rpcs, rpc[h].pc \in SettingLabels,
                    NEW j \in DOMAIN rpc[h].req.pods, Made(h, j)
             PROVE  HasRule(h, j)'
  BY DEF Imposed, Made
<1> DEFINE i == <<rpc[h].n, rpc[h].req.pods[j]>>
<1>1. HasRule(h, j)
  BY DEF Imposed
<1>2. i \in Infos
  <2>1. rpc[h].n \in 0 .. MaxSets /\ rpc[h].req \in Requests
    BY DEF Shape, TypeOK, RpcLocals, Locals, SettingLabels
  <2> QED
    BY <2>1, RequestPods DEF Infos
<1>3. heap'[i] # Nil /\ RuleOf(heap'[i]) = RuleOf(heap[i])
  BY <1>1, <1>2, HeapKept, RuleKept DEF HasRule
<1> QED
  BY <1>1, <1>3 DEF HasRule

\* A pod that SetDNSChaos has done stays done: its call is at another pod by then.
LEMMA SetImposed ==
    ASSUME OneRpc, Shape, NumbersFresh, RoomLeft, NothingRemoved, Filed, Imposed,
           NEW h \in Rpcs, SetStep(h)
    PROVE  Imposed'
<1>1. \A g \in Rpcs : g = h
  BY DEF OneRpc
<1>2. CASE SetRecord(h) \/ SetGetPodFails(h)
  <2>1. \/ rpc'[h].pc = "idle"
        \/ rpc'[h].pc = "setGetPod" /\ rpc'[h].k = 1 /\ rpc'[h].req = rpc[h].req
    BY <1>2, SetFacts, IdleType
  <2>2. rpc[h].req \in Requests
    BY <1>2 DEF SetRecord, SetGetPodFails, Shape, Locals, SetLabels
  <2>3. DOMAIN rpc[h].req.pods = 1 .. Len(rpc[h].req.pods) /\ Len(rpc[h].req.pods) \in Nat
    BY <2>2, RequestPods
  <2>4. rpc'[h].pc = "setGetPod" => \A j \in DOMAIN rpc'[h].req.pods : ~Made(h, j)'
    BY <2>1, <2>3 DEF Made
  <2> QED
    BY <1>1, <2>1, <2>4 DEF Imposed, SettingLabels, SetLabels
<1>3. CASE ~SetRecord(h) /\ ~SetGetPodFails(h)
  <2>1. rpc[h].pc \in SettingLabels /\ InLoop(h) /\ rpc[h].pc # "idle"
    BY <1>3 DEF SetStep, SetGetPod, SetGetPodFails, SetCheckNs, SetMakeNs,
       SetFindOld, SetDropPod, SetDropIP,
       SetStorePod, SetStoreIP, SettingLabels, SetLabels, InLoop, LoopLabels
  <2>2. /\ rpc[h].req \in Requests /\ rpc[h].k \in DOMAIN rpc[h].req.pods /\ Pod(h) \in Pods
        /\ Info(h) \in Infos /\ rpc[h].n \in 0 .. MaxSets
    <3>1. rpc[h].n \in 0 .. MaxSets
      BY DEF Shape, TypeOK, RpcLocals
    <3> QED
      BY <2>1, <3>1, InFlightFacts, RequestPods
  <2>3. DOMAIN rpc[h].req.pods \subseteq Nat
    BY <2>2, RequestPods
  <2>4. ASSUME NEW j \in DOMAIN rpc[h].req.pods, j # rpc[h].k
        PROVE  rpc[h].req.pods[j] # Pod(h) /\ <<rpc[h].n, rpc[h].req.pods[j]>> \in Infos
    <3>1. rpc[h].req.pods[j] # Pod(h)
      BY <2>2, <2>4, RequestsAssumption DEF Pod
    <3>2. rpc[h].req.pods[j] \in Pods
      BY <2>2, <2>4, RequestPods
    <3> QED
      BY <2>2, <3>1, <3>2 DEF Infos
  <2>5. /\ \A p \in Pods \ {Pod(h)} : podMap'[p] = podMap[p]
        /\ \A i \in Infos \ {Info(h)} : heap'[i] = heap[i]
    <3>1. podMap \in [Pods -> Infos \cup {Nil}] /\ heap \in [Infos -> PodInfos \cup {Nil}]
      BY DEF Shape, TypeOK
    <3>2. CASE SetMakeNs(h)
      BY <3>2, MakesEmpty DEF SetMakeNs
    <3> QED
      BY <1>3, <2>2, <3>1, <3>2 DEF SetStep, SetGetPod, SetGetPodFails, SetCheckNs, SetFindOld,
         SetDropPod, SetDropIP, SetStorePod, SetStoreIP, rules
  <2>6. ASSUME NEW j \in DOMAIN rpc[h].req.pods, j # rpc[h].k, Made(h, j), SamePod(h) \/ StepsOn(h)
        PROVE  HasRule(h, j)'
    <3>1. HasRule(h, j)
      BY <2>1, <2>6 DEF Imposed
    <3>2. rpc'[h].n = rpc[h].n /\ rpc'[h].req = rpc[h].req
      BY <2>6 DEF SamePod, StepsOn
    <3>3. rpc[h].req.pods[j] \in Pods \ {Pod(h)} /\ <<rpc[h].n, rpc[h].req.pods[j]>> \in Infos \ {Info(h)}
      BY <2>2, <2>4, <2>6, RequestPods DEF Info
    <3>4. /\ podMap'[rpc[h].req.pods[j]] = podMap[rpc[h].req.pods[j]]
          /\ heap'[<<rpc[h].n, rpc[h].req.pods[j]>>] = heap[<<rpc[h].n, rpc[h].req.pods[j]>>]
      BY <2>5, <3>3
    <3> QED
      BY <3>1, <3>2, <3>4 DEF HasRule
  <2>7. CASE SetStorePod(h)
    <3>1. SamePod(h) /\ rpc'[h].pc = "setStoreIP" /\ rpc'[h].k = rpc[h].k /\ rpc'[h].req = rpc[h].req
      BY <2>7, SetFacts DEF SamePod
    <3>2. HasRule(h, rpc[h].k)'
      <4>1. /\ podMap' = [podMap EXCEPT ![Pod(h)] = Info(h)] /\ podMap \in [Pods -> Infos \cup {Nil}]
            /\ heap' = [heap EXCEPT ![Info(h)] = NewInfo(h)] /\ heap \in [Infos -> PodInfos \cup {Nil}]
        BY <2>7 DEF SetStorePod, Shape, TypeOK
      <4>2. podMap'[Pod(h)] = Info(h) /\ heap'[Info(h)] = NewInfo(h)
        BY <2>2, <4>1
      <4>3. RuleOf(NewInfo(h)) = RequestedRule(rpc[h].req)
        BY DEF RuleOf, NewInfo, RequestedRule
      <4>4. heap'[Info(h)] # Nil
        <5>1. Info(h)' = Info(h) /\ Shape'
          BY <2>7, <3>1, SetShape DEF SamePod, SetStep
        <5> QED
          BY <3>1, <5>1 DEF Shape, Pointers
      <4> QED
        BY <3>1, <4>2, <4>3, <4>4 DEF HasRule, Info, Pod, SamePod
    <3>3. \A j \in DOMAIN rpc[h].req.pods : Made(h, j)' => j = rpc[h].k \/ (j # rpc[h].k /\ Made(h, j))
      BY <3>1 DEF Made
    <3> QED
      BY <1>1, <2>6, <3>1, <3>2, <3>3 DEF Imposed
  <2>8. CASE SetStoreIP(h)
    <3>1. CASE rpc'[h].pc = "setGetPod" /\ StepsOn(h)
      <4>1. rpc'[h].k = rpc[h].k + 1 /\ rpc'[h].req = rpc[h].req /\ rpc'[h].n = rpc[h].n
        BY <3>1 DEF StepsOn
      <4>2. rpc[h].pc = "setStoreIP" /\ UNCHANGED <<podMap, heap>>
        BY <2>8 DEF SetStoreIP
      <4>3. \A j \in DOMAIN rpc[h].req.pods : Made(h, j)' => Made(h, j)
        BY <2>2, <2>3, <3>1, <4>1, <4>2 DEF Made
      <4>4. \A j \in DOMAIN rpc[h].req.pods : HasRule(h, j) => HasRule(h, j)'
        BY <4>1, <4>2 DEF HasRule
      <4> QED
        BY <1>1, <2>1, <4>1, <4>3, <4>4 DEF Imposed
    <3>2. CASE rpc'[h].pc = "idle"
      BY <1>1, <3>2 DEF Imposed, SettingLabels, SetLabels
    <3> QED
      BY <2>8, <3>1, <3>2, SetFacts, IdleType
  <2>9. CASE \/ SetGetPod(h) \/ SetCheckNs(h) \/ SetMakeNs(h) \/ SetFindOld(h)
             \/ SetDropPod(h) \/ SetDropIP(h)
    <3>1. /\ SamePod(h) /\ rpc[h].pc # "setStoreIP" /\ rpc'[h].pc # "setStoreIP"
          /\ rpc'[h].k = rpc[h].k /\ rpc'[h].req = rpc[h].req
      BY <2>9, SetFacts DEF SamePod, SetGetPod, SetCheckNs, SetMakeNs,
         SetFindOld, SetDropPod, SetDropIP
    <3>2. \A j \in DOMAIN rpc[h].req.pods : Made(h, j)' => j # rpc[h].k /\ Made(h, j)
      BY <2>2, <2>3, <3>1 DEF Made
    <3> QED
      BY <1>1, <2>6, <3>1, <3>2 DEF Imposed
  <2> QED
    BY <1>3, <2>7, <2>8, <2>9 DEF SetStep
<1> QED
  BY <1>2, <1>3

LEMMA StepImposed ==
    ASSUME OneRpc, Shape, NumbersFresh, RoomLeft, NothingRemoved, Filed, Imposed, [Next]_vars
    PROVE  Imposed'
<1>1. ASSUME \A h \in Rpcs : rpc'[h].pc \notin SettingLabels PROVE Imposed'
  BY <1>1 DEF Imposed
<1>2. CASE Crash \/ Boot \/ \E p \in Pods : InitPod(p)
  BY <1>1, <1>2, IdleType DEF Crash, Boot, InitPod, Shape, Lifecycle, SettingLabels, SetLabels
<1>3. CASE /\ ~Crash
           /\ \/ UNCHANGED vars \/ CreateGRPCServer \/ OnStartup \/ Tick
              \/ \E p \in Pods : PodChanges(p)
              \/ \E h \in Dnss, p \in Pods, qname \in QNames, qtype \in QTypes :
                      Query(h, p, qname, qtype)
              \/ \E h \in Dnss : DnsStep(h)
  <2>1. UNCHANGED <<podMap, rpc>>
    BY <1>3, DnsFrame DEF vars, rules, CreateGRPCServer, OnStartup, Tick, Query, PodChanges
  <2> QED
    BY <1>3, <2>1, ImposedFrame
<1>4. ASSUME NEW h \in Rpcs,
             \/ \E r \in Requests : SetDNSChaos(h, r)
             \/ \E c \in ChaosNames : CancelDNSChaos(h, c)
             \/ CancelStep(h)
      PROVE  Imposed'
  <2>1. rpc'[h].pc \notin SettingLabels
    <3>1. CASE CancelStep(h)
      BY <3>1, IdleType, CancelFacts DEF CancelStep, SettingLabels, SetLabels
    <3>2. CASE ~CancelStep(h)
      <4>1. h \in DOMAIN rpc
        BY DEF Shape, TypeOK
      <4>2. ASSUME NEW r \in Requests, SetDNSChaos(h, r) PROVE rpc'[h].pc = "setRecord"
        BY <4>1, <4>2 DEF SetDNSChaos, Idle
      <4>3. ASSUME NEW c \in ChaosNames, CancelDNSChaos(h, c) PROVE rpc'[h].pc = "cancelCheck"
        BY <4>1, <4>3 DEF CancelDNSChaos, Idle
      <4> QED
        BY <1>4, <3>2, <4>2, <4>3 DEF SettingLabels, SetLabels
    <3> QED
      BY <3>1, <3>2
  <2> QED
    BY <1>1, <2>1 DEF OneRpc
<1> QED
  BY <1>2, <1>3, <1>4, SetImposed, StepCases

LEMMA RulesMadeInvariant ==
    ASSUME OneRpc
    PROVE  Spec => [](BootHeap /\ Imposed)
<1>1. Init => BootHeap /\ Imposed
  BY IdleType DEF Init, BootHeap, Imposed, SettingLabels, SetLabels
<1>2. Shape /\ (NumbersFresh /\ RoomLeft) /\ (NothingRemoved /\ Filed) /\ (BootHeap /\ Imposed)
        /\ [Next]_vars => (BootHeap /\ Imposed)'
  BY StepBoot, StepImposed
<1> QED
  BY <1>1, <1>2, ShapeInvariant, FreshInvariant, RemovedInvariant, PTL DEF Spec

-----------------------------------------------------------------------------
(* How the steps of the contract look in the server                        *)

IdleCall == [op |-> "none", name |-> Nil, req |-> Nil, replacing |-> Nil]

\* The call of the handler h, when there is one.
CallOf(h) ==
    [op |-> IF rpc[h].pc \in SetLabels THEN "set" ELSE "cancel",
     name |-> rpc[h].name,
     req |-> IF rpc[h].pc \in SetLabels THEN rpc[h].req ELSE Nil,
     replacing |-> IF rpc[h].pc \in {"setStorePod", "setStoreIP"} /\ rpc[h].old # Nil
                   THEN Pod(h) ELSE Nil]

LEMMA CallFacts ==
    ASSUME OneRpc, NEW h \in Rpcs
    PROVE  /\ Call = IF rpc[h].pc = "idle" THEN IdleCall ELSE CallOf(h)
           /\ Call' = IF rpc'[h].pc = "idle" THEN IdleCall ELSE CallOf(h)'
<1>1. \A g \in Rpcs : g = h
  BY DEF OneRpc
<1>2. ASSUME rpc[h].pc = "idle" PROVE Call = IdleCall
  <2>1. RpcIdle
    BY <1>1, <1>2 DEF RpcIdle, InFlight
  <2> QED
    BY <2>1 DEF Call, IdleCall
<1>3. ASSUME rpc[h].pc # "idle" PROVE Call = CallOf(h)
  <2> DEFINE c == CHOOSE g \in Rpcs : InFlight(g)
  <2>1. ~RpcIdle /\ c = h
    BY <1>1, <1>3 DEF RpcIdle, InFlight
  <2>2. Call = CallOf(c)
    BY <2>1, Zenon DEF Call, CallOf
  <2> QED
    BY <2>1, <2>2
<1>4. ASSUME rpc'[h].pc = "idle" PROVE Call' = IdleCall
  <2>1. RpcIdle'
    BY <1>1, <1>4 DEF RpcIdle, InFlight
  <2> QED
    BY <2>1 DEF Call, IdleCall
<1>5. ASSUME rpc'[h].pc # "idle" PROVE Call' = CallOf(h)'
  <2> DEFINE c == CHOOSE g \in Rpcs : InFlight(g)
  <2>1. ~RpcIdle' /\ c' = h
    BY <1>1, <1>5 DEF RpcIdle, InFlight
  <2>2. Call' = CallOf(c)'
    BY <2>1, Zenon DEF Call, CallOf
  <2> HIDE DEF c
  <2>3. CallOf(c)' = CallOf(h)'
    BY <2>1 DEF CallOf, Pod
  <2> QED
    BY <2>2, <2>3
<1> QED
  BY <1>2, <1>3, <1>4, <1>5

LEMMA CallIdle ==
    /\ RpcIdle => Call = IdleCall
    /\ RpcIdle' => Call' = IdleCall
  BY DEF Call, IdleCall

\* The server is up or not, and pods are settled or not, as before.
SameWorld ==
    /\ phase' \in {"grpc", "up"} <=> phase \in {"grpc", "up"}
    /\ \A p \in Pods : HasSettled(p)' <=> HasSettled(p)

LEMMA WorldFrame ==
    ASSUME owned' = owned
    PROVE  \A p \in Pods : (HasSettled(p)' <=> HasSettled(p)) /\ Address(p)' = Address(p)
  BY DEF HasSettled, Address

\* A pod's rule is the same while its entry in ipPodMap is, for PodInfos keep their rules.
LEMMA RuleFrame ==
    ASSUME Shape, owned' = owned, NEW p \in Pods,
           HasSettled(p) => ipPodMap'[Address(p)] = ipPodMap[Address(p)],
           \A i \in Infos : heap[i] # Nil => RuleOf(heap'[i]) = RuleOf(heap[i])
    PROVE  RuleInForce(p)' = RuleInForce(p)
<1>1. (HasSettled(p)' <=> HasSettled(p)) /\ Address(p)' = Address(p)
  BY WorldFrame
<1>2. ASSUME HasSettled(p), ipPodMap[Address(p)] # Nil
      PROVE  ipPodMap[Address(p)] \in Infos /\ heap[ipPodMap[Address(p)]] # Nil
  <2>1. Address(p) \in Addr
    BY <1>2, SettledHasAddress
  <2> QED
    BY <1>2, <2>1 DEF Shape, TypeOK, Pointers
<1> QED
  BY <1>1, <1>2 DEF RuleInForce

LEMMA AsStutter ==
    ASSUME SameWorld, \A p \in Pods : RuleInForce(p)' = RuleInForce(p),
           chaosMap' = chaosMap, Call' = Call
    PROVE  UNCHANGED Contract!vars
  BY DEF Contract!vars, SameWorld

LEMMA AsLift ==
    ASSUME SameWorld, NEW q \in Pods, q \in Contract!InCharge, Call.replacing = Nil,
           \A p \in Pods \ {q} : RuleInForce(p)' = RuleInForce(p),
           \A p \in {q} : RuleInForce(p)' = Nil,
           chaosMap' = chaosMap,
           Call' = IF Call.op = "set" THEN [Call EXCEPT !.replacing = q] ELSE Call
    PROVE  Contract!Next
<1>1. [p \in Pods |-> RuleInForce(p)'] = [[p \in Pods |-> RuleInForce(p)] EXCEPT ![q] = Nil]
  OBVIOUS
<1>2. Contract!Lift(q)
  BY <1>1 DEF Contract!Lift, SameWorld
<1> QED
  BY <1>2 DEF Contract!Next

LEMMA AsImpose ==
    ASSUME SameWorld, NEW q \in Pods, q \in Contract!InCharge, Call.op = "set",
           Call.replacing \in {Nil, q},
           \A p \in Pods \ {q} : RuleInForce(p)' = RuleInForce(p),
           \A p \in {q} : RuleInForce(p)' = IF HasSettled(p) THEN RequestedRule(Call.req) ELSE Nil,
           chaosMap' = chaosMap,
           \/ Call' = [Call EXCEPT !.replacing = Nil]
           \/ /\ Call' = IdleCall
              /\ \A p \in Pods : p \in Contract!Named(Call.req) /\ HasSettled(p) =>
                     RuleInForce(p)' = RequestedRule(Call.req)
    PROVE  Contract!Next
<1> DEFINE v == IF HasSettled(q) THEN RequestedRule(Call.req) ELSE Nil
<1>1. [p \in Pods |-> RuleInForce(p)'] = [[p \in Pods |-> RuleInForce(p)] EXCEPT ![q] = v]
  OBVIOUS
<1>2. Contract!Impose(q)
  BY <1>1 DEF Contract!Impose, Contract!InForce, Contract!Idle, IdleCall, SameWorld
<1> QED
  BY <1>2 DEF Contract!Next

LEMMA AsCancelled ==
    ASSUME SameWorld, Call.op = "cancel", \A p \in Pods : RuleInForce(p)' = RuleInForce(p),
           Contract!InCharge \subseteq Pods,
           \A p \in Pods : p \in Contract!InCharge => RuleInForce(p) = Nil,
           chaosMap' = [chaosMap EXCEPT ![Call.name] = Nil], Call' = IdleCall
    PROVE  Contract!Next
<1>1. Contract!Cancelled
  BY DEF Contract!Cancelled, Contract!Idle, IdleCall, SameWorld
<1> QED
  BY <1>1 DEF Contract!Next

LEMMA AsBegin ==
    ASSUME SameWorld, phase \in {"grpc", "up"}, Call = IdleCall, chaosMap' = chaosMap,
           \A p \in Pods : RuleInForce(p)' = RuleInForce(p),
           \/ \E r \in Requests : Call' = [IdleCall EXCEPT !.op = "set", !.req = r]
           \/ \E c \in ChaosNames : Call' = [IdleCall EXCEPT !.op = "cancel", !.name = c]
    PROVE  Contract!Next
<1>1. Contract!Begin
  BY DEF Contract!Begin, Contract!Idle, IdleCall, SameWorld
<1> QED
  BY <1>1 DEF Contract!Next

LEMMA AsRecord ==
    ASSUME SameWorld, Call.op = "set", \A p \in Pods : RuleInForce(p)' = RuleInForce(p),
           chaosMap' = [chaosMap EXCEPT ![Call.req.name] = Call.req],
           Call' = Call \/ Call' = IdleCall
    PROVE  Contract!Next
<1>1. Contract!Record
  BY DEF Contract!Record, Contract!Idle, IdleCall, SameWorld
<1> QED
  BY <1>1 DEF Contract!Next

LEMMA AsFail ==
    ASSUME SameWorld, Call.op = "set", \A p \in Pods : RuleInForce(p)' = RuleInForce(p),
           chaosMap' = chaosMap, chaosMap[Call.req.name] = Call.req, Call.replacing = Nil,
           Call' = IdleCall
    PROVE  Contract!Next
<1>1. Contract!Fail
  BY DEF Contract!Fail, Contract!Idle, IdleCall, SameWorld
<1> QED
  BY <1>1 DEF Contract!Next

-----------------------------------------------------------------------------
(* The steps of the server implement the contract                          *)

\* Everything that is known about the server with one RPC at a time.
ServerInv ==
    /\ Shape /\ Provenance /\ NumbersFresh /\ RoomLeft /\ RuleHistory
    /\ Indexed /\ MidCall /\ Recorded /\ BootHeap /\ Imposed

LEMMA HeapRulesKept ==
    ASSUME ServerInv, [Next]_vars, ~Crash
    PROVE  \A i \in Infos : heap[i] # Nil => RuleOf(heap'[i]) = RuleOf(heap[i])
  BY HeapKept, RuleKept DEF ServerInv

\* The address that the one handler writes in ipPodMap for its pod is the pod's, and no
\* other settled pod's.
LEMMA RpcIndexRules ==
    ASSUME ServerInv, [Next]_vars, ~Crash, owned' = owned, NEW q \in Pods, NEW b \in Addr,
           <<b, q>> \in owned, NEW v \in Infos \cup {Nil},
           ipPodMap' = [ipPodMap EXCEPT ![b] = v]
    PROVE  /\ \A p \in Pods \ {q} : RuleInForce(p)' = RuleInForce(p)
           /\ \A p \in {q} : HasSettled(p) => ipPodMap'[Address(p)'] = v
<1>1. ipPodMap \in [Addr -> Infos \cup {Nil}] /\ Shape
  BY DEF ServerInv, Shape, TypeOK
<1>2. ASSUME NEW p \in Pods \ {q} PROVE RuleInForce(p)' = RuleInForce(p)
  <2>1. HasSettled(p) => Address(p) \in Addr /\ Address(p) # b
    BY <1>1, <1>2, SettledHasAddress, SoleFacts
  <2>2. HasSettled(p) => ipPodMap'[Address(p)] = ipPodMap[Address(p)]
    BY <1>1, <2>1
  <2> QED
    BY <1>1, <2>2, HeapRulesKept, RuleFrame
<1>3. HasSettled(q) => Address(q) = b
  BY <1>1, SettledHasAddress, SoleFacts
<1>4. \A p \in Pods : Address(p)' = Address(p)
  BY WorldFrame
<1>5. \A p \in {q} : HasSettled(p) => ipPodMap'[Address(p)'] = v
  BY <1>1, <1>3, <1>4
<1> QED
  BY <1>2, <1>5

\* A step of the one handler that leaves ipPodMap alone.
LEMMA RpcSameRules ==
    ASSUME ServerInv, [Next]_vars, ~Crash, owned' = owned, ipPodMap' = ipPodMap
    PROVE  \A p \in Pods : RuleInForce(p)' = RuleInForce(p)
  BY HeapRulesKept, RuleFrame DEF ServerInv

\* A Set that is on record and a Cancel that has loaded its request may touch their pods.
LEMMA InChargeOf ==
    ASSUME OneRpc, ServerInv, NEW h \in Rpcs, InLoop(h)
    PROVE  /\ Pod(h) \in Contract!InCharge /\ Call = CallOf(h)
           /\ rpc[h].pc \in SettingLabels => chaosMap[rpc[h].req.name] = rpc[h].req
<1>1. rpc[h].pc # "idle" /\ (rpc[h].pc \in SettingLabels \/ rpc[h].pc \in CancellingLabels)
  BY DEF InLoop, LoopLabels, SettingLabels, SetLabels, CancellingLabels
<1>2. Call = CallOf(h)
  BY <1>1, CallFacts
<1>3. rpc[h].req \in Requests /\ rpc[h].k \in DOMAIN rpc[h].req.pods
  BY <1>1, InFlightFacts, RequestPods DEF ServerInv
<1>4. CASE rpc[h].pc \in SettingLabels
  <2>1. chaosMap[rpc[h].req.name] = rpc[h].req
    BY <1>4 DEF ServerInv, Recorded
  <2>2. Call.op = "set" /\ Call.req = rpc[h].req
    BY <1>2, <1>4 DEF CallOf, SettingLabels
  <2> QED
    BY <1>2, <1>3, <2>1, <2>2 DEF Contract!InCharge, Contract!Named, Pod
<1>5. CASE rpc[h].pc \in CancellingLabels
  <2>1. chaosMap[rpc[h].name] = rpc[h].req /\ rpc[h].req # Nil
    BY <1>5 DEF ServerInv, Recorded
  <2>2. Call.op = "cancel" /\ Call.name = rpc[h].name
    BY <1>2, <1>5 DEF CallOf, SetLabels, CancellingLabels
  <2>3. rpc[h].pc \notin SettingLabels
    BY <1>5 DEF CancellingLabels, SettingLabels, SetLabels
  <2> QED
    BY <1>2, <1>3, <2>1, <2>2, <2>3 DEF Contract!InCharge, Contract!Named, Pod
<1> QED
  BY <1>1, <1>4, <1>5

\* A handler neither starts the server nor settles a pod.
LEMMA RpcWorld ==
    ASSUME ServerInv, NEW h \in Rpcs, SetStep(h) \/ CancelStep(h)
    PROVE  SameWorld /\ owned' = owned
<1>1. owned' = owned /\ phase' = phase
  BY RpcFrame DEF ServerInv
<1> QED
  BY <1>1, WorldFrame DEF SameWorld

SetCall(name, req, replacing) ==
    [op |-> "set", name |-> name, req |-> req, replacing |-> replacing]

\* The pod whose rule a Set has taken away and not yet given back.
Replacing(h) ==
    IF rpc[h].pc \in {"setStorePod", "setStoreIP"} /\ rpc[h].old # Nil THEN Pod(h) ELSE Nil

LEMMA SetCalls ==
    ASSUME OneRpc, NEW h \in Rpcs
    PROVE  /\ rpc[h].pc \in SetLabels => Call = SetCall(rpc[h].name, rpc[h].req, Replacing(h))
           /\ rpc'[h].pc \in SetLabels =>
                  Call' = SetCall(rpc'[h].name, rpc'[h].req, Replacing(h)')
           /\ rpc'[h] = Idle => Call' = IdleCall
<1>1. ASSUME rpc[h].pc \in SetLabels
      PROVE  Call = SetCall(rpc[h].name, rpc[h].req, Replacing(h))
  <2>1. Call = CallOf(h)
    BY <1>1, CallFacts DEF SetLabels
  <2> QED
    BY <1>1, <2>1 DEF CallOf, SetCall, Replacing
<1>2. ASSUME rpc'[h].pc \in SetLabels
      PROVE  Call' = SetCall(rpc'[h].name, rpc'[h].req, Replacing(h)')
  <2>1. Call' = CallOf(h)'
    BY <1>2, CallFacts DEF SetLabels
  <2> QED
    BY <1>2, <2>1 DEF CallOf, SetCall, Replacing
<1>3. rpc'[h] = Idle => Call' = IdleCall
  BY CallFacts, IdleType
<1> QED
  BY <1>1, <1>2, <1>3

\* The steps of a Set that the contract does not see.
LEMMA SetUnseen ==
    ASSUME OneRpc, ServerInv, [Next]_vars, ~Crash, NEW h \in Rpcs,
           \/ SetGetPod(h) \/ SetCheckNs(h) \/ SetMakeNs(h) \/ SetFindOld(h)
           \/ SetDropPod(h) \/ SetStorePod(h)
    PROVE  UNCHANGED Contract!vars
<1>1. Shape /\ SetStep(h)
  BY DEF ServerInv, SetStep
<1>2. ipPodMap' = ipPodMap /\ chaosMap' = chaosMap /\ rpc[h].pc \in SetLabels
  BY DEF SetGetPod, SetCheckNs, SetMakeNs, SetFindOld, SetDropPod, SetStorePod, rules, SetLabels
<1>3. rpc'[h].name = rpc[h].name /\ rpc'[h].req = rpc[h].req /\ Pod(h)' = Pod(h)
  BY <1>1, SetFacts DEF SamePod
<1>4. rpc'[h].pc \in SetLabels
  BY <1>1, SetFacts DEF SetLabels
<1>5. Replacing(h)' = Replacing(h)
  <2>1. CASE SetGetPod(h) \/ SetCheckNs(h) \/ SetMakeNs(h) \/ SetDropPod(h)
    <3>1. /\ rpc[h].pc \notin {"setStorePod", "setStoreIP"}
          /\ rpc'[h].pc \notin {"setStorePod", "setStoreIP"}
      BY <1>1, <2>1, SetFacts DEF SetGetPod, SetCheckNs, SetMakeNs, SetDropPod
    <3> QED
      BY <3>1 DEF Replacing
  <2>2. CASE SetFindOld(h)
    <3>1. rpc[h].pc = "setFindOld" /\ (rpc'[h].pc = "setDropPod" \/ rpc'[h].old = Nil)
      BY <1>1, <2>2, SetFacts DEF SetFindOld
    <3> QED
      BY <3>1 DEF Replacing
  <2>3. CASE SetStorePod(h)
    <3>1. rpc[h].pc = "setStorePod" /\ rpc'[h].pc = "setStoreIP" /\ rpc'[h].old = rpc[h].old
      BY <1>1, <2>3, SetFacts DEF SetStorePod
    <3> QED
      BY <1>3, <3>1 DEF Replacing
  <2> QED
    BY <2>1, <2>2, <2>3
<1>6. Call' = Call
  BY <1>2, <1>3, <1>4, <1>5, SetCalls
<1> QED
  BY <1>1, <1>2, <1>6, RpcWorld, RpcSameRules, AsStutter

\* SetDNSChaos is recorded first, and a pod that cannot be looked up ends it.
LEMMA SetRecordRefines ==
    ASSUME OneRpc, ServerInv, [Next]_vars, ~Crash, NEW h \in Rpcs,
           SetRecord(h) \/ SetGetPodFails(h)
    PROVE  Contract!Next
<1>1. Shape /\ SetStep(h)
  BY DEF ServerInv, SetStep
<1>2. ipPodMap' = ipPodMap /\ rpc[h].pc \in SetLabels /\ Replacing(h) = Nil
  BY DEF SetRecord, SetGetPodFails, rules, SetLabels, Replacing
<1>3. Call = SetCall(rpc[h].name, rpc[h].req, Nil)
  BY <1>2, SetCalls
<1>4. Call.op = "set" /\ Call.req = rpc[h].req /\ Call.replacing = Nil
  BY <1>3 DEF SetCall
<1>5. CASE SetRecord(h)
  <2>1. chaosMap' = [chaosMap EXCEPT ![Call.req.name] = Call.req]
    BY <1>4, <1>5 DEF SetRecord
  <2>2. Call' = Call \/ Call' = IdleCall
    <3>1. CASE rpc'[h] = Idle
      BY <3>1, SetCalls
    <3>2. CASE rpc'[h] # Idle
      <4>1. rpc'[h].pc = "setGetPod" /\ rpc'[h].name = rpc[h].name /\ rpc'[h].req = rpc[h].req
        BY <1>1, <1>5, <3>2, SetFacts
      <4>2. Replacing(h)' = Nil /\ rpc'[h].pc \in SetLabels
        BY <4>1 DEF Replacing, SetLabels
      <4> QED
        BY <1>3, <4>1, <4>2, SetCalls
    <3> QED
      BY <3>1, <3>2
  <2> QED
    BY <1>1, <1>2, <1>4, <2>1, <2>2, RpcWorld, RpcSameRules, AsRecord
<1>6. CASE SetGetPodFails(h)
  <2>1. chaosMap' = chaosMap /\ Call' = IdleCall
    <3>1. rpc'[h] = Idle /\ chaosMap' = chaosMap
      BY <1>1, <1>6, SetFacts DEF SetGetPodFails, rules
    <3> QED
      BY <3>1, SetCalls
  <2>2. chaosMap[Call.req.name] = Call.req
    BY <1>4, <1>6 DEF SetGetPodFails, ServerInv, Recorded, SettingLabels, SetLabels
  <2> QED
    BY <1>1, <1>2, <1>4, <2>1, <2>2, RpcWorld, RpcSameRules, AsFail
<1> QED
  BY <1>5, <1>6

\* A Set takes the old rule of its pod away.
LEMMA SetDropRefines ==
    ASSUME OneRpc, ServerInv, [Next]_vars, ~Crash, NEW h \in Rpcs, SetDropIP(h)
    PROVE  Contract!Next
<1> DEFINE b == heap[rpc[h].old].ip
           q == Pod(h)
<1>1. Shape /\ SetStep(h) /\ rpc[h].pc = "setDropIP" /\ rpc[h].pc \in SetLabels /\ InLoop(h)
  BY DEF ServerInv, SetStep, SetDropIP, SetLabels, InLoop, LoopLabels
<1>2. q \in Pods
  BY <1>1, LoopFacts
<1>3. b \in Addr /\ <<b, q>> \in owned
  BY <1>1, DropsOwn DEF ServerInv
<1>4. SameWorld /\ owned' = owned
  BY <1>1, RpcWorld
<1>5. ipPodMap' = [ipPodMap EXCEPT ![b] = Nil] /\ chaosMap' = chaosMap
  BY DEF SetDropIP
<1>6. /\ rpc'[h].pc = "setStorePod" /\ rpc'[h].old = rpc[h].old /\ Pod(h)' = q
      /\ rpc'[h].name = rpc[h].name /\ rpc'[h].req = rpc[h].req
  BY <1>1, SetFacts DEF SamePod
<1>7. rpc[h].old # Nil
  BY <1>1 DEF ServerInv, RuleHistory, OldOwn, DropLabels
<1>8. Replacing(h) = Nil /\ Replacing(h)' = q /\ rpc'[h].pc \in SetLabels
  BY <1>1, <1>6, <1>7 DEF Replacing, SetLabels
<1>9. /\ Call = SetCall(rpc[h].name, rpc[h].req, Nil)
      /\ Call' = SetCall(rpc[h].name, rpc[h].req, q)
  BY <1>1, <1>6, <1>8, SetCalls
<1>10. q \in Contract!InCharge
  BY <1>1, InChargeOf
<1> HIDE DEF b, q
<1>11. Call.replacing = Nil /\ Call' = IF Call.op = "set" THEN [Call EXCEPT !.replacing = q] ELSE Call
  BY <1>9 DEF SetCall
<1>12. /\ \A p \in Pods \ {q} : RuleInForce(p)' = RuleInForce(p)
       /\ \A p \in {q} : HasSettled(p) => ipPodMap'[Address(p)'] = Nil
  BY <1>2, <1>3, <1>4, <1>5, RpcIndexRules
<1>13. \A p \in {q} : RuleInForce(p)' = Nil
  BY <1>2, <1>4, <1>12 DEF RuleInForce, SameWorld
<1> QED
  BY <1>2, <1>4, <1>5, <1>10, <1>11, <1>12, <1>13, AsLift

\* At the end of a Set all of its pods have the rule it asks for.
LEMMA LastImposed ==
    ASSUME OneRpc, ServerInv, [Next]_vars, ~Crash, NEW h \in Rpcs, SetStoreIP(h), LastPod(h),
           NEW p \in Pods, p \in Contract!Named(rpc[h].req), p # Pod(h), HasSettled(p)
    PROVE  RuleInForce(p) = RequestedRule(rpc[h].req)
<1>1. Shape /\ rpc[h].pc = "setStoreIP" /\ rpc[h].pc \in SettingLabels /\ InLoop(h) /\ rpc[h].pc # "idle"
  BY DEF ServerInv, SetStoreIP, SettingLabels, SetLabels, InLoop, LoopLabels
<1>2. PICK j \in DOMAIN rpc[h].req.pods : p = rpc[h].req.pods[j]
  BY DEF Contract!Named
<1>3. /\ rpc[h].req \in Requests /\ DOMAIN rpc[h].req.pods = 1 .. Len(rpc[h].req.pods)
      /\ Len(rpc[h].req.pods) \in Nat
  BY <1>1, InFlightFacts, RequestPods
<1>4. j < rpc[h].k
  BY <1>2, <1>3 DEF LastPod, Pod
<1>5. HasRule(h, j)
  BY <1>1, <1>2, <1>4 DEF ServerInv, Imposed, Made
<1>6. Address(p) \in Addr /\ Sole(p, Address(p))
  BY <1>1, SettledHasAddress
<1>7. p \notin initTodo /\ ~Between(p)
  BY <1>1, LoopFacts
<1>8. ipPodMap[Address(p)] = podMap[p]
  BY <1>6, <1>7 DEF ServerInv, Indexed
<1>9. podMap[p] # Nil /\ RuleOf(heap[podMap[p]]) = RequestedRule(rpc[h].req)
  <2>1. podMap[p] = <<rpc[h].n, p>> /\ RuleOf(heap[podMap[p]]) = RequestedRule(rpc[h].req)
    BY <1>2, <1>5 DEF HasRule
  <2>2. rpc[h].n \in 0 .. MaxSets
    BY <1>1 DEF Shape, TypeOK, RpcLocals
  <2> QED
    BY <2>1, <2>2, NamesAssumption DEF Infos
<1> QED
  BY <1>8, <1>9 DEF RuleInForce

\* A Set gives its pod the rule.
LEMMA SetStoreRefines ==
    ASSUME OneRpc, ServerInv, [Next]_vars, ~Crash, NEW h \in Rpcs, SetStoreIP(h)
    PROVE  Contract!Next
<1> DEFINE b == rpc[h].ip
           q == Pod(h)
           i == Info(h)
           r == rpc[h].req
<1>1. /\ Shape /\ SetStep(h) /\ rpc[h].pc = "setStoreIP" /\ rpc[h].pc # "idle" /\ InLoop(h)
      /\ rpc[h].pc \in SetLabels /\ rpc[h].pc \in SettingLabels
  BY DEF ServerInv, SetStep, SetStoreIP, SetLabels, SettingLabels, InLoop, LoopLabels
<1>2. q \in Pods /\ i \in Infos /\ b \in Addr /\ rpc[h].k \in DOMAIN r.pods
  BY <1>1, InFlightFacts, RequestPods DEF RpcLocals
<1>3. <<b, q>> \in owned
  BY <1>1 DEF ServerInv, Provenance, FetchedOwn, StoreLabels
<1>4. SameWorld /\ owned' = owned
  BY <1>1, RpcWorld
<1>5. ipPodMap' = [ipPodMap EXCEPT ![b] = i] /\ chaosMap' = chaosMap /\ heap' = heap
  BY DEF SetStoreIP
<1>6. HasRule(h, rpc[h].k)
  BY <1>1, <1>2 DEF ServerInv, Imposed, Made
<1>7. i # Nil /\ RuleOf(heap[i]) = RequestedRule(r)
  BY <1>2, <1>6, NamesAssumption DEF HasRule, Info, Pod
<1>8. /\ Call = SetCall(rpc[h].name, r, Replacing(h)) /\ Replacing(h) \in {Nil, q}
      /\ q \in Contract!InCharge
  BY <1>1, SetCalls, InChargeOf DEF Replacing
<1>9. \/ Call' = SetCall(rpc[h].name, r, Nil)
      \/ Call' = IdleCall /\ LastPod(h)
  <2>1. CASE rpc'[h].pc = "setGetPod" /\ StepsOn(h)
    <3>1. /\ rpc'[h].pc \in SetLabels /\ Replacing(h)' = Nil /\ rpc'[h].name = rpc[h].name
          /\ rpc'[h].req = r
      BY <2>1 DEF SetLabels, Replacing, StepsOn
    <3> QED
      BY <3>1, SetCalls
  <2>2. CASE rpc'[h] = Idle /\ LastPod(h)
    BY <2>2, SetCalls
  <2> QED
    BY <1>1, <2>1, <2>2, SetFacts
<1>10. ASSUME LastPod(h), NEW p \in Pods, p \in Contract!Named(r), p # q, HasSettled(p)
       PROVE  RuleInForce(p) = RequestedRule(r)
  BY <1>10, LastImposed
<1> HIDE DEF b, q, i, r
<1>11. /\ \A p \in Pods \ {q} : RuleInForce(p)' = RuleInForce(p)
       /\ \A p \in {q} : HasSettled(p) => ipPodMap'[Address(p)'] = i
  BY <1>2, <1>3, <1>4, <1>5, RpcIndexRules
<1>12. \A p \in {q} : RuleInForce(p)' = IF HasSettled(p) THEN RequestedRule(r) ELSE Nil
  BY <1>2, <1>4, <1>5, <1>7, <1>11 DEF RuleInForce, SameWorld
<1>13. Call.op = "set" /\ Call.replacing \in {Nil, q} /\ Call.req = r
  BY <1>8 DEF SetCall
<1>14. \/ Call' = [Call EXCEPT !.replacing = Nil]
       \/ /\ Call' = IdleCall
          /\ \A p \in Pods : p \in Contract!Named(Call.req) /\ HasSettled(p) =>
                 RuleInForce(p)' = RequestedRule(Call.req)
  <2>1. CASE Call' = SetCall(rpc[h].name, r, Nil)
    BY <1>8, <2>1 DEF SetCall
  <2>2. CASE Call' = IdleCall /\ LastPod(h)
    BY <1>10, <1>11, <1>12, <1>13, <2>2
  <2> QED
    BY <1>9, <2>1, <2>2
<1> QED
  BY <1>2, <1>4, <1>5, <1>8, <1>11, <1>12, <1>13, <1>14, AsImpose

LEMMA SetRefines ==
    ASSUME OneRpc, ServerInv, [Next]_vars, ~Crash, NEW h \in Rpcs, SetStep(h)
    PROVE  Contract!Next \/ UNCHANGED Contract!vars
  BY SetUnseen, SetRecordRefines, SetDropRefines, SetStoreRefines DEF SetStep

CancelCall(name) == [op |-> "cancel", name |-> name, req |-> Nil, replacing |-> Nil]

LEMMA CancelCalls ==
    ASSUME OneRpc, NEW h \in Rpcs
    PROVE  /\ rpc[h].pc \in CancelLabels => Call = CancelCall(rpc[h].name)
           /\ rpc'[h].pc \in CancelLabels => Call' = CancelCall(rpc'[h].name)
           /\ rpc'[h] = Idle => Call' = IdleCall
<1>1. ASSUME rpc[h].pc \in CancelLabels PROVE Call = CancelCall(rpc[h].name)
  <2>1. Call = CallOf(h) /\ rpc[h].pc \notin SetLabels
    BY <1>1, CallFacts DEF CancelLabels, SetLabels
  <2> QED
    BY <1>1, <2>1 DEF CallOf, CancelCall, CancelLabels
<1>2. ASSUME rpc'[h].pc \in CancelLabels PROVE Call' = CancelCall(rpc'[h].name)
  <2>1. Call' = CallOf(h)' /\ rpc'[h].pc \notin SetLabels
    BY <1>2, CallFacts DEF CancelLabels, SetLabels
  <2> QED
    BY <1>2, <2>1 DEF CallOf, CancelCall, CancelLabels
<1>3. rpc'[h] = Idle => Call' = IdleCall
  BY CallFacts, IdleType
<1> QED
  BY <1>1, <1>2, <1>3

\* The steps of a Cancel that the contract does not see.
LEMMA CancelUnseen ==
    ASSUME OneRpc, ServerInv, [Next]_vars, ~Crash, NEW h \in Rpcs,
           \/ CancelCheck(h) /\ rpc'[h] # Idle
           \/ CancelLoad(h) \/ CancelFind(h) \/ CancelDropPod(h) \/ CancelScan(h)
           \/ \E n \in Namespaces : CancelPrune(h, n)
    PROVE  UNCHANGED Contract!vars
<1>1. Shape /\ CancelStep(h)
  BY DEF ServerInv, CancelStep
<1>2. ipPodMap' = ipPodMap /\ chaosMap' = chaosMap /\ rpc[h].pc \in CancelLabels
  BY DEF CancelCheck, CancelLoad, CancelFind, CancelDropPod, CancelScan, CancelPrune, rules,
     CancelLabels
<1>3. rpc'[h].name = rpc[h].name /\ rpc'[h].pc \in CancelLabels
  BY <1>1, CancelFacts DEF SamePod, StepsOn, CancelLabels
<1>4. Call' = Call
  BY <1>2, <1>3, CancelCalls
<1> QED
  BY <1>1, <1>2, <1>4, RpcWorld, RpcSameRules, AsStutter

\* A Cancel takes the rule of its pod away.
LEMMA CancelDropRefines ==
    ASSUME OneRpc, ServerInv, [Next]_vars, ~Crash, NEW h \in Rpcs, CancelDropIP(h)
    PROVE  Contract!Next
<1> DEFINE b == heap[rpc[h].old].ip
           q == Pod(h)
<1>1. /\ Shape /\ CancelStep(h) /\ rpc[h].pc = "cancelDropIP" /\ rpc[h].pc \in CancelLabels
      /\ InLoop(h)
  BY DEF ServerInv, CancelStep, CancelDropIP, CancelLabels, InLoop, LoopLabels
<1>2. q \in Pods
  BY <1>1, LoopFacts
<1>3. b \in Addr /\ <<b, q>> \in owned
  BY <1>1, DropsOwn DEF ServerInv
<1>4. SameWorld /\ owned' = owned
  BY <1>1, RpcWorld
<1>5. ipPodMap' = [ipPodMap EXCEPT ![b] = Nil] /\ chaosMap' = chaosMap
  BY DEF CancelDropIP
<1>6. rpc'[h].name = rpc[h].name /\ rpc'[h].pc \in CancelLabels
  BY <1>1, CancelFacts DEF SamePod, StepsOn, CancelLabels
<1>7. Call = CancelCall(rpc[h].name) /\ Call' = Call
  BY <1>1, <1>6, CancelCalls
<1>8. q \in Contract!InCharge
  BY <1>1, InChargeOf
<1> HIDE DEF b, q
<1>9. Call.replacing = Nil /\ Call' = IF Call.op = "set" THEN [Call EXCEPT !.replacing = q] ELSE Call
  BY <1>7 DEF CancelCall
<1>10. /\ \A p \in Pods \ {q} : RuleInForce(p)' = RuleInForce(p)
       /\ \A p \in {q} : HasSettled(p) => ipPodMap'[Address(p)'] = Nil
  BY <1>2, <1>3, <1>4, <1>5, RpcIndexRules
<1>11. \A p \in {q} : RuleInForce(p)' = Nil
  BY <1>2, <1>4, <1>10 DEF RuleInForce, SameWorld
<1> QED
  BY <1>2, <1>4, <1>5, <1>8, <1>9, <1>10, <1>11, AsLift

\* A Cancel ends: there was nothing to cancel, or nothing is left of it.
LEMMA CancelEndRefines ==
    ASSUME OneRpc, ServerInv, [Next]_vars, ~Crash, NEW h \in Rpcs,
           \/ CancelCheck(h) /\ rpc'[h] = Idle
           \/ CancelForget(h)
    PROVE  Contract!Next
<1>1. /\ Shape /\ CancelStep(h) /\ rpc[h].pc \in CancelLabels /\ ipPodMap' = ipPodMap
      /\ rpc[h].pc # "idle"
  BY DEF ServerInv, CancelStep, CancelCheck, CancelForget, CancelLabels, rules
<1>2. Call = CancelCall(rpc[h].name) /\ rpc'[h] = Idle /\ Call' = IdleCall
  BY <1>1, CancelCalls, CancelFacts
<1>3. Call.op = "cancel" /\ Call.name = rpc[h].name
  BY <1>2 DEF CancelCall
<1>4. rpc[h].name \in ChaosNames /\ chaosMap \in [ChaosNames -> Requests \cup {Nil}]
  BY <1>1 DEF Shape, Locals, TypeOK
<1>5. /\ chaosMap' = [chaosMap EXCEPT ![Call.name] = Nil]
      /\ Contract!InCharge \subseteq Pods
      /\ \A p \in Pods : p \in Contract!InCharge => RuleInForce(p) = Nil
  <2>1. CASE CancelCheck(h) /\ rpc'[h] = Idle
    <3>1. chaosMap[rpc[h].name] = Nil /\ chaosMap' = chaosMap
      <4>1. chaosMap' = chaosMap
        BY <2>1 DEF CancelCheck, rules
      <4>2. Goto(h, "cancelLoad") => rpc'[h].pc = "cancelLoad"
        BY <1>1 DEF Goto, Shape, TypeOK, RpcLocals
      <4> QED
        BY <2>1, <4>1, <4>2, IdleType DEF CancelCheck
    <3>2. Contract!InCharge = {}
      BY <1>3, <3>1 DEF Contract!InCharge
    <3>3. chaosMap' = [chaosMap EXCEPT ![Call.name] = Nil]
      BY <1>3, <1>4, <3>1
    <3> QED
      BY <3>2, <3>3
  <2>2. CASE CancelForget(h)
    <3>1. /\ rpc[h].pc = "cancelPrune" /\ rpc[h].pc \in CancellingLabels
          /\ chaosMap' = [chaosMap EXCEPT ![Call.name] = Nil]
      BY <1>3, <2>2 DEF CancelForget, CancellingLabels
    <3>2. /\ rpc[h].req # Nil /\ chaosMap[rpc[h].name] = rpc[h].req
          /\ \A j \in DOMAIN rpc[h].req.pods : podMap[rpc[h].req.pods[j]] = Nil
      BY <3>1 DEF ServerInv, Recorded, Undone
    <3>3. Contract!InCharge = Contract!Named(rpc[h].req) /\ rpc[h].req \in Requests
      BY <1>3, <1>4, <3>2 DEF Contract!InCharge
    <3>4. Contract!InCharge \subseteq Pods
      BY <3>3, RequestPods DEF Contract!Named
    <3>5. ASSUME NEW p \in Pods, p \in Contract!InCharge, HasSettled(p)
          PROVE  ipPodMap[Address(p)] = Nil
      <4>1. podMap[p] = Nil
        BY <3>2, <3>3, <3>5 DEF Contract!Named
      <4>2. Address(p) \in Addr /\ Sole(p, Address(p))
        BY <1>1, <3>5, SettledHasAddress
      <4>3. p \notin initTodo /\ ~Between(p)
        <5>1. initTodo = {}
          BY <1>1, InFlightFacts DEF Shape, Lifecycle
        <5>2. \A g \in Rpcs : rpc[g].pc = "cancelPrune"
          BY <3>1 DEF OneRpc
        <5> QED
          BY <5>1, <5>2 DEF Between, BetweenLabels
      <4> QED
        BY <4>1, <4>2, <4>3 DEF ServerInv, Indexed
    <3> QED
      BY <3>1, <3>4, <3>5 DEF RuleInForce
  <2> QED
    BY <2>1, <2>2
<1> QED
  BY <1>1, <1>2, <1>3, <1>5, RpcWorld, RpcSameRules, AsCancelled

LEMMA CancelRefines ==
    ASSUME OneRpc, ServerInv, [Next]_vars, ~Crash, NEW h \in Rpcs, CancelStep(h)
    PROVE  Contract!Next \/ UNCHANGED Contract!vars
  BY CancelUnseen, CancelDropRefines, CancelEndRefines DEF CancelStep

\* A call comes in.
LEMMA EntryRefines ==
    ASSUME OneRpc, ServerInv, [Next]_vars, ~Crash, NEW h \in Rpcs,
           \/ \E r \in Requests : SetDNSChaos(h, r)
           \/ \E c \in ChaosNames : CancelDNSChaos(h, c)
    PROVE  Contract!Next
<1>0. Shape /\ rpc \in [Rpcs -> RpcLocals]
  BY DEF ServerInv, Shape, TypeOK
<1>1. /\ owned' = owned /\ phase' = phase /\ phase \in {"grpc", "up"}
      /\ ipPodMap' = ipPodMap /\ chaosMap' = chaosMap /\ rpc[h].pc = "idle"
  BY DEF SetDNSChaos, CancelDNSChaos, rules, server, env
<1>2. SameWorld /\ Call = IdleCall
  BY <1>1, WorldFrame, CallFacts DEF SameWorld
<1>3. ASSUME NEW r \in Requests, SetDNSChaos(h, r)
      PROVE  Call' = [IdleCall EXCEPT !.op = "set", !.req = r]
  <2>1. rpc'[h] = [Idle EXCEPT !.pc = "setRecord", !.req = r, !.n = sets + 1]
    BY <1>0, <1>3, Zenon DEF SetDNSChaos
  <2>2. rpc'[h].pc = "setRecord" /\ rpc'[h].req = r /\ rpc'[h].name = Nil
    BY <2>1 DEF Idle
  <2>3. Replacing(h)' = Nil /\ rpc'[h].pc \in SetLabels
    BY <2>2 DEF Replacing, SetLabels
  <2>4. Call' = SetCall(Nil, r, Nil)
    BY <2>2, <2>3, SetCalls
  <2> DEFINE c == [IdleCall EXCEPT !.op = "set"]
  <2>5. c = SetCall(Nil, Nil, Nil)
    BY DEF SetCall, IdleCall
  <2> HIDE DEF c
  <2>6. [c EXCEPT !.req = r] = SetCall(Nil, r, Nil)
    BY <2>5 DEF SetCall
  <2> QED
    BY <2>4, <2>6, Zenon DEF c
<1>4. ASSUME NEW c \in ChaosNames, CancelDNSChaos(h, c)
      PROVE  Call' = [IdleCall EXCEPT !.op = "cancel", !.name = c]
  <2>1. rpc'[h] = [Idle EXCEPT !.pc = "cancelCheck", !.name = c]
    BY <1>0, <1>4 DEF CancelDNSChaos
  <2>2. rpc'[h].pc = "cancelCheck" /\ rpc'[h].name = c
    BY <2>1 DEF Idle
  <2>3. rpc'[h].pc \in CancelLabels
    BY <2>2 DEF CancelLabels
  <2>4. Call' = CancelCall(c)
    BY <2>2, <2>3, CancelCalls
  <2> DEFINE d == [IdleCall EXCEPT !.op = "cancel"]
  <2>5. d = CancelCall(Nil)
    BY DEF CancelCall, IdleCall
  <2> HIDE DEF d
  <2>6. [d EXCEPT !.name = c] = CancelCall(c)
    BY <2>5 DEF CancelCall
  <2> QED
    BY <2>4, <2>6, Zenon DEF d
<1> QED
  BY <1>0, <1>1, <1>2, <1>3, <1>4, RpcSameRules, AsBegin

LEMMA CallFrame ==
    ASSUME rpc' = rpc
    PROVE  Call' = Call
  BY DEF Call, RpcIdle, InFlight, Pod

\* Queries, with all the refreshing they do, and the clock are not seen.
LEMMA QueryRefines ==
    ASSUME OneRpc, ServerInv, [Next]_vars, ~Crash,
           \/ UNCHANGED vars \/ OnStartup \/ Tick
           \/ \E h \in Dnss, p \in Pods, qname \in QNames, qtype \in QTypes :
                  Query(h, p, qname, qtype)
           \/ \E h \in Dnss : DnsStep(h)
    PROVE  UNCHANGED Contract!vars
<1>1. CASE \/ UNCHANGED vars \/ OnStartup \/ Tick
           \/ \E h \in Dnss, p \in Pods, qname \in QNames, qtype \in QTypes :
                  Query(h, p, qname, qtype)
  <2>1. /\ owned' = owned /\ rpc' = rpc /\ ipPodMap' = ipPodMap /\ chaosMap' = chaosMap
        /\ phase' \in {"grpc", "up"} <=> phase \in {"grpc", "up"}
    BY <1>1 DEF vars, rules, server, env, OnStartup, Tick, Query
  <2>2. SameWorld
    BY <2>1, WorldFrame DEF SameWorld
  <2> QED
    BY <2>1, <2>2, CallFrame, RpcSameRules, AsStutter
<1>2. ASSUME NEW h \in Dnss, DnsStep(h) PROVE UNCHANGED Contract!vars
  <2>1. /\ Shape /\ owned' = owned /\ rpc' = rpc /\ chaosMap' = chaosMap /\ phase' = phase
    BY <1>2, DnsFrame DEF ServerInv
  <2>2. SameWorld
    BY <2>1, WorldFrame DEF SameWorld
  <2>3. \A p \in Pods : HasSettled(p) => ipPodMap'[Address(p)] = ipPodMap[Address(p)]
    BY <1>2, <2>1, SettledHasAddress, DnsKeepsSole DEF ServerInv
  <2>4. \A p \in Pods : RuleInForce(p)' = RuleInForce(p)
    BY <2>1, <2>3, HeapRulesKept, RuleFrame
  <2> QED
    BY <2>1, <2>2, <2>4, CallFrame, AsStutter
<1> QED
  BY <1>1, <1>2

\* The process ends.
LEMMA CrashRefines ==
    ASSUME OneRpc, ServerInv, Crash
    PROVE  Contract!Next
<1>1. /\ phase' = "down" /\ owned' = owned /\ chaosMap' = [c \in ChaosNames |-> Nil]
      /\ ipPodMap' = [a \in Addr |-> Nil] /\ rpc' = [h \in Rpcs |-> Idle] /\ Shape
  BY DEF Crash, env, ServerInv
<1>2. \A p \in Pods : (HasSettled(p)' <=> HasSettled(p)) /\ Address(p)' = Address(p)
  BY <1>1, WorldFrame
<1>3. \A p \in Pods : RuleInForce(p)' = Nil
  <2>1. \A p \in Pods : HasSettled(p) => Address(p) \in Addr
    BY <1>1, SettledHasAddress
  <2> QED
    BY <1>1, <1>2, <2>1 DEF RuleInForce
<1>4. Call' = IdleCall
  <2>1. RpcIdle'
    BY <1>1, IdleType DEF RpcIdle, InFlight
  <2> QED
    BY <2>1, CallIdle
<1>5. Contract!Restart
  BY <1>1, <1>2, <1>3, <1>4 DEF Contract!Restart, Contract!Idle, IdleCall
<1> QED
  BY <1>5 DEF Contract!Next

\* New and ParseStanza put no rule into force.
LEMMA BootRefines ==
    ASSUME ServerInv, Boot
    PROVE  UNCHANGED Contract!vars
<1>1. /\ Shape /\ phase = "down" /\ phase' = "init" /\ owned' = owned /\ rpc' = rpc
      /\ chaosMap' = chaosMap /\ ipPodMap' = ipPodMap
  BY DEF ServerInv, Boot, env
<1>2. \A p \in Pods : (HasSettled(p)' <=> HasSettled(p)) /\ Address(p)' = Address(p)
  BY <1>1, WorldFrame
<1>3. \A p \in Pods : RuleInForce(p) = Nil /\ RuleInForce(p)' = Nil
  <2>1. \A p \in Pods : HasSettled(p) => ipPodMap[Address(p)] = Nil
    BY <1>1, SettledHasAddress DEF Shape, Lifecycle
  <2> QED
    BY <1>1, <1>2, <2>1 DEF RuleInForce
<1>4. Call' = Call
  BY <1>1, CallFrame
<1>5. SameWorld
  BY <1>1, <1>2 DEF SameWorld
<1> QED
  BY <1>1, <1>3, <1>4, <1>5, AsStutter

\* InitKubeCache finds a chaos pod; if the pod has settled, it has its rule from now on.
LEMMA InitPodRefines ==
    ASSUME ServerInv, [Next]_vars, ~Crash, NEW q \in Pods, InitPod(q)
    PROVE  Contract!Next \/ UNCHANGED Contract!vars
<1> DEFINE b == cluster[q]
           i == podMap[q]
<1>1. /\ Shape /\ phase = "init" /\ phase' = "init" /\ owned' = owned /\ rpc' = rpc
      /\ chaosMap' = chaosMap /\ ipPodMap' = [ipPodMap EXCEPT ![b] = i] /\ b # Absent
  BY DEF ServerInv, InitPod, env
<1>2. i \in Infos /\ heap[i] # Nil /\ b \in Addr /\ i # Nil
  BY <1>1, InitPodFacts, NamesAssumption
<1>3. <<b, q>> \in owned /\ PodOf(i) = q
  BY <1>1, <1>2 DEF ServerInv, Provenance, MapsOwn
<1>4. q \in CorefilePods /\ RuleOf(heap[i]) = BootRule(q) /\ RuleOf(heap'[i]) = BootRule(q)
  BY <1>1, <1>2, <1>3, HeapRulesKept DEF ServerInv, BootHeap
<1>5. SameWorld /\ Call' = Call
  BY <1>1, WorldFrame, CallFrame DEF SameWorld
<1> HIDE DEF b, i
<1>6. /\ \A p \in Pods \ {q} : RuleInForce(p)' = RuleInForce(p)
      /\ \A p \in {q} : HasSettled(p) => ipPodMap'[Address(p)'] = i
  BY <1>1, <1>2, <1>3, RpcIndexRules
<1>7. \A p \in {q} : RuleInForce(p)' = IF HasSettled(p) THEN BootRule(p) ELSE Nil
  BY <1>2, <1>4, <1>5, <1>6 DEF RuleInForce, SameWorld
<1>8. CASE HasSettled(q) /\ BootRule(q) # Nil
  <2>1. [p \in Pods |-> RuleInForce(p)'] = [[p \in Pods |-> RuleInForce(p)] EXCEPT ![q] = BootRule(q)]
    BY <1>6, <1>7, <1>8
  <2>2. Contract!Load(q)
    BY <1>1, <1>4, <1>5, <1>8, <2>1 DEF Contract!Load, SameWorld, BootRule
  <2> QED
    BY <2>2 DEF Contract!Next
<1>9. CASE ~(HasSettled(q) /\ BootRule(q) # Nil)
  <2>1. HasSettled(q) => ipPodMap[Address(q)] = Nil
    <3>1. q \in initTodo
      BY DEF InitPod
    <3> QED
      BY <1>1, <3>1, SettledHasAddress DEF ServerInv, Indexed
  <2>2. \A p \in Pods : RuleInForce(p)' = RuleInForce(p)
    <3>1. \A p \in {q} : RuleInForce(p)' = Nil
      BY <1>7, <1>9
    <3>2. RuleInForce(q) = Nil
      BY <2>1 DEF RuleInForce
    <3> QED
      BY <1>6, <3>1, <3>2
  <2> QED
    BY <1>1, <1>5, <2>2, AsStutter
<1> QED
  BY <1>8, <1>9

\* When setup is over, the chaos lines are in force.
LEMMA StartRefines ==
    ASSUME ServerInv, [Next]_vars, ~Crash, CreateGRPCServer
    PROVE  Contract!Next
<1>1. /\ Shape /\ phase = "init" /\ initTodo = {} /\ phase' = "grpc" /\ owned' = owned
      /\ rpc' = rpc /\ chaosMap' = chaosMap /\ ipPodMap' = ipPodMap
  BY DEF ServerInv, CreateGRPCServer, rules, env
<1>2. \A p \in Pods : HasSettled(p)' <=> HasSettled(p)
  BY <1>1, WorldFrame
<1>3. Call' = Call /\ \A p \in Pods : RuleInForce(p)' = RuleInForce(p)
  BY <1>1, CallFrame, RpcSameRules
<1>4. ASSUME NEW p \in Pods, HasSettled(p), p \in CorefilePods
      PROVE  RuleInForce(p) = BootRule(p)
  <2>1. podMap[p] # Nil
    BY <1>1, <1>4 DEF ServerInv, BootHeap
  <2>2. podMap[p] \in Infos /\ heap[podMap[p]] # Nil /\ PodOf(podMap[p]) = p
    BY <1>1, <2>1 DEF ServerInv, Shape, TypeOK, Pointers, Provenance, MapsOwn
  <2>3. RuleOf(heap[podMap[p]]) = BootRule(p)
    BY <1>1, <2>2 DEF ServerInv, BootHeap
  <2>4. ~Between(p)
    BY <1>1, IdleType DEF Shape, Lifecycle, Between, BetweenLabels
  <2>5. ipPodMap[Address(p)] = podMap[p]
    BY <1>1, <1>4, <2>4, SettledHasAddress DEF ServerInv, Indexed
  <2> QED
    BY <1>4, <2>1, <2>3, <2>5 DEF RuleInForce
<1>5. Contract!Start
  BY <1>1, <1>2, <1>3, <1>4 DEF Contract!Start, BootRule
<1> QED
  BY <1>5 DEF Contract!Next

\* A pod that settles has no rule yet, and one that stays settled keeps its rule.
LEMMA ChangeRefines ==
    ASSUME ServerInv, NEW q \in Pods, PodChanges(q)
    PROVE  Contract!Next
<1>1. /\ Shape /\ phase' = phase /\ rpc' = rpc /\ chaosMap' = chaosMap
      /\ ipPodMap' = ipPodMap /\ heap' = heap /\ owned \subseteq owned'
      /\ owned' \subseteq Addr \X Pods
  <2>1. PICK b \in Addr \cup {Absent} : owned' = IF b = Absent THEN owned ELSE owned \cup {<<b, q>>}
    BY DEF PodChanges
  <2>2. owned \subseteq Addr \X Pods /\ Shape
    BY DEF ServerInv, Shape, TypeOK
  <2>3. owned \subseteq owned' /\ owned' \subseteq Addr \X Pods
    BY <2>1, <2>2
  <2> QED
    BY <2>2, <2>3 DEF PodChanges, rules, server
<1>2. ASSUME NEW p \in Pods, HasSettled(p)'
      PROVE  /\ Address(p)' \in IPs /\ <<Address(p)', p>> \in owned'
             /\ \A c \in Addr, r \in Pods : <<c, r>> \in owned' => (r = p <=> c = Address(p)')
  <2>1. PICK o \in owned' : o[1] \in IPs /\ \A x \in owned' : x[1] = o[1] <=> x[2] = p
    BY <1>2 DEF HasSettled
  <2>2. o = <<o[1], p>>
    BY <1>1, <2>1
  <2>3. \E a \in IPs : <<a, p>> \in owned'
    BY <2>1, <2>2
  <2>4. Address(p)' \in IPs /\ <<Address(p)', p>> \in owned'
    BY <2>3 DEF Address
  <2> DEFINE a == Address(p)'
  <2> HIDE DEF a
  <2>5. a = o[1]
    <3>1. <<a, p>>[1] = o[1] <=> <<a, p>>[2] = p
      BY <2>1, <2>4 DEF a
    <3> QED
      BY <3>1
  <2>6. \A c \in Addr, r \in Pods : <<c, r>> \in owned' => (r = p <=> c = a)
    <3> SUFFICES ASSUME NEW c \in Addr, NEW r \in Pods, <<c, r>> \in owned' PROVE r = p <=> c = a
      OBVIOUS
    <3>1. <<c, r>>[1] = o[1] <=> <<c, r>>[2] = p
      BY <2>1
    <3> QED
      BY <2>5, <3>1
  <2> QED
    BY <2>4, <2>6 DEF a
<1>3. ASSUME NEW p \in Pods, HasSettled(p)', HasSettled(p)
      PROVE  Address(p)' = Address(p)
  <2>1. Address(p) \in Addr /\ <<Address(p), p>> \in owned
    BY <1>1, <1>3, SettledHasAddress DEF Sole
  <2>2. <<Address(p), p>> \in owned'
    BY <1>1, <2>1
  <2> QED
    BY <1>2, <1>3, <2>1, <2>2
<1>4. ASSUME NEW p \in Pods, HasSettled(p)', ~HasSettled(p)
      PROVE  ipPodMap[Address(p)'] = Nil
  <2> DEFINE a == Address(p)'
  <2>1. /\ a \in IPs /\ <<a, p>> \in owned'
        /\ \A c \in Addr, r \in Pods : <<c, r>> \in owned' => (r = p <=> c = a)
    BY <1>2, <1>4
  <2> HIDE DEF a
  <2>2. <<a, p>> \notin owned
    <3> SUFFICES ASSUME <<a, p>> \in owned PROVE Sole(p, a)
      BY <1>1, <1>4, <2>1, SettledHasAddress
    <3>1. \A o \in owned : o[2] = p <=> o[1] = a
      <4> SUFFICES ASSUME NEW o \in owned PROVE o[2] = p <=> o[1] = a
        OBVIOUS
      <4>1. o = <<o[1], o[2]>> /\ o[1] \in Addr /\ o[2] \in Pods /\ o \in owned'
        BY <1>1
      <4>2. <<o[1], o[2]>> \in owned'
        BY <4>1
      <4> QED
        BY <2>1, <4>1, <4>2
    <3> QED
      BY <3>1 DEF Sole
  <2>3. ipPodMap[a] # Nil => <<a, PodOf(ipPodMap[a])>> \in owned /\ PodOf(ipPodMap[a]) \in Pods
    BY <1>1, <2>1 DEF ServerInv, Provenance, MapsOwn, Shape, TypeOK, Infos, PodOf
  <2>4. ipPodMap[a] # Nil => PodOf(ipPodMap[a]) = p
    BY <1>1, <2>1, <2>3
  <2>5. ipPodMap[a] = Nil
    BY <2>2, <2>3, <2>4
  <2> QED
    BY <2>5 DEF a
<1>5. ASSUME NEW p \in Pods
      PROVE  RuleInForce(p)' = IF HasSettled(p) /\ HasSettled(p)' THEN RuleInForce(p) ELSE Nil
  BY <1>1, <1>3, <1>4 DEF RuleInForce
<1>6. Call' = Call
  BY <1>1, CallFrame
<1>7. Contract!ClusterChanges
  BY <1>1, <1>5, <1>6 DEF Contract!ClusterChanges
<1> QED
  BY <1>7 DEF Contract!Next

\* Every step of the server is one of the contract, or one it does not see.
LEMMA StepRefines ==
    ASSUME OneRpc, ServerInv, [Next]_vars
    PROVE  Contract!Next \/ UNCHANGED Contract!vars
<1>1. CASE Crash
  BY <1>1, CrashRefines
<1>2. CASE ~Crash
  <2>1. CASE Boot
    BY <2>1, BootRefines
  <2>2. ASSUME NEW p \in Pods, InitPod(p) PROVE Contract!Next \/ UNCHANGED Contract!vars
    BY <1>2, <2>2, InitPodRefines
  <2>3. CASE CreateGRPCServer
    BY <1>2, <2>3, StartRefines
  <2>4. ASSUME NEW h \in Rpcs,
               \/ \E r \in Requests : SetDNSChaos(h, r)
               \/ \E c \in ChaosNames : CancelDNSChaos(h, c)
        PROVE  Contract!Next \/ UNCHANGED Contract!vars
    BY <1>2, <2>4, EntryRefines
  <2>5. ASSUME NEW h \in Rpcs, SetStep(h) \/ CancelStep(h)
        PROVE  Contract!Next \/ UNCHANGED Contract!vars
    BY <1>2, <2>5, SetRefines, CancelRefines
  <2>6. CASE \/ UNCHANGED vars \/ OnStartup \/ Tick
             \/ \E h \in Dnss, p \in Pods, qname \in QNames, qtype \in QTypes :
                    Query(h, p, qname, qtype)
             \/ \E h \in Dnss : DnsStep(h)
    BY <1>2, <2>6, QueryRefines
  <2>7. ASSUME NEW p \in Pods, PodChanges(p) PROVE Contract!Next \/ UNCHANGED Contract!vars
    BY <2>7, ChangeRefines
  <2> QED
    BY <1>2, <2>1, <2>2, <2>3, <2>4, <2>5, <2>6, <2>7, StepCases
<1> QED
  BY <1>1, <1>2

LEMMA InitRefines == Init => Contract!Init
<1> SUFFICES ASSUME Init PROVE Contract!Init
  OBVIOUS
<1>1. Shape
  BY InitShape
<1>2. Call = IdleCall
  <2>1. RpcIdle
    BY IdleType DEF Init, RpcIdle, InFlight
  <2> QED
    BY <2>1, CallIdle
<1>3. \A p \in Pods : RuleInForce(p) = Nil
  <2>1. \A p \in Pods : HasSettled(p) => ipPodMap[Address(p)] = Nil
    BY <1>1, SettledHasAddress DEF Init
  <2> QED
    BY <2>1 DEF RuleInForce
<1> QED
  BY <1>2, <1>3 DEF Init, Contract!Init, Contract!Idle, IdleCall

\* A controller that sends one call at a time gets what ChaosContract promises, for any
\* pods, requests, Corefile, queries, moves and restarts: a rule of a settled pod changes
\* only by a call that names the pod, a Set that succeeds has given every pod its rule and
\* one that fails is on record, and a Cancel leaves none of its pods with a rule
\* (grpc_server.go:42-146, chaos.go:126-158, kubernetes.go:281-293).
THEOREM SerialServerKeepsContract ==
    ASSUME OneRpc
    PROVE  Spec => KeepsContract
<1>1. Init => Contract!Init
  BY InitRefines
<1>2. Shape /\ Provenance /\ (NumbersFresh /\ RoomLeft) /\ RuleHistory /\ (Indexed /\ MidCall)
        /\ (Recorded /\ RulesListed) /\ (BootHeap /\ Imposed) /\ [Next]_vars =>
        [Contract!Next]_(Contract!vars)
  BY StepRefines DEF ServerInv
<1> QED
  BY <1>1, <1>2, ShapeInvariant, ProvenanceInvariant, FreshInvariant, HistoryInvariant,
     IndexInvariant, ListedInvariant, RulesMadeInvariant, PTL DEF Spec, KeepsContract,
     Contract!Spec
=============================================================================
