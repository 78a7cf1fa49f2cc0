-------------------------- MODULE ChaosRulesProofs -------------------------
(***************************************************************************)
(* What holds of the chaos rules themselves.  For any number of RPCs: a    *)
(* PodInfo that is in use is never given another rule.  For a controller   *)
(* that sends one RPC at a time, which the mutex of the handlers is meant  *)
(* to ensure and does not: no handler panics, the two rule maps agree and  *)
(* a pod that is in no experiment is not afflicted.                        *)
(***************************************************************************)
EXTENDS ChaosServerProofs

USE DEF Addr, Actions, Scopes, QTypes

-----------------------------------------------------------------------------
(* What the steps of the handlers do                                       *)

\* A handler stays with its call and its pod.
SamePod(h) ==
    /\ rpc'[h].name = rpc[h].name /\ rpc'[h].req = rpc[h].req /\ rpc'[h].n = rpc[h].n
    /\ rpc'[h].k = rpc[h].k /\ Pod(h)' = Pod(h) /\ Info(h)' = Info(h)

\* A handler goes on to the next pod of its call.
StepsOn(h) ==
    /\ rpc'[h].name = rpc[h].name /\ rpc'[h].req = rpc[h].req /\ rpc'[h].n = rpc[h].n
    /\ rpc'[h].k = rpc[h].k + 1 /\ rpc[h].k # Len(rpc[h].req.pods)

\* The other handlers, the queries and the world are left alone.
LEMMA RpcFrame ==
    ASSUME Shape, NEW h \in Rpcs, SetStep(h) \/ CancelStep(h)
    PROVE  /\ \A g \in Rpcs \ {h} : rpc'[g] = rpc[g] /\ Pod(g)' = Pod(g) /\ Info(g)' = Info(g)
           /\ UNCHANGED <<phase, initTodo, sets, dns, now, cluster, moves, owned>>
<1>1. rpc \in [Rpcs -> RpcLocals]
  BY DEF Shape, TypeOK
<1>2. CASE SetStep(h)
  <2>1. \A g \in Rpcs \ {h} : rpc'[g] = rpc[g]
    BY <1>1, <1>2 DEF SetStep, SetRecord, SetGetPod, SetGetPodFails, SetCheckNs, SetMakeNs,
       SetFindOld, SetDropPod, SetDropIP, SetStorePod, SetStoreIP, Return, Goto, NextPod
  <2> QED
    BY <1>2, <2>1 DEF SetStep, SetRecord, SetGetPod, SetGetPodFails, SetCheckNs, SetMakeNs,
       SetFindOld, SetDropPod, SetDropIP, SetStorePod, SetStoreIP, server, env, Info, Pod
<1>3. CASE CancelStep(h)
  <2>1. \A g \in Rpcs \ {h} : rpc'[g] = rpc[g]
    BY <1>1, <1>3 DEF CancelStep, CancelCheck, CancelLoad, CancelFind, CancelDropPod,
       CancelDropIP, CancelScan, CancelPrune, CancelForget, Return, Goto, NextPod
  <2> QED
    BY <1>3, <2>1 DEF CancelStep, CancelCheck, CancelLoad, CancelFind, CancelDropPod,
       CancelDropIP, CancelScan, CancelPrune, CancelForget, server, env, Info, Pod
<1> QED
  BY <1>2, <1>3

\* The steps of SetDNSChaos.
LEMMA SetFacts ==
    ASSUME Shape, NEW h \in Rpcs
    PROVE  /\ SetRecord(h) =>
                \/ rpc'[h] = Idle
                \/ /\ rpc'[h].pc = "setGetPod" /\ rpc'[h].k = 1 /\ rpc'[h].req = rpc[h].req
                   /\ rpc'[h].n = rpc[h].n /\ rpc'[h].name = rpc[h].name
           /\ SetGetPod(h) =>
                rpc'[h].pc = "setCheckNs" /\ rpc'[h].ip = cluster[Pod(h)] /\ SamePod(h)
           /\ SetGetPodFails(h) => rpc'[h] = Idle
           /\ SetCheckNs(h) =>
                /\ rpc'[h].pc = IF NsOf[Pod(h)] \in nsMaps THEN "setFindOld" ELSE "setMakeNs"
                /\ SamePod(h)
           /\ SetMakeNs(h) => rpc'[h].pc = "setFindOld" /\ SamePod(h)
           /\ SetFindOld(h) =>
                /\ rpc'[h].pc = IF podMap[Pod(h)] = Nil THEN "setStorePod" ELSE "setDropPod"
                /\ rpc'[h].old = podMap[Pod(h)] /\ SamePod(h)
           /\ SetDropPod(h) => rpc'[h].pc = "setDropIP" /\ rpc'[h].old = rpc[h].old /\ SamePod(h)
           /\ SetDropIP(h) => rpc'[h].pc = "setStorePod" /\ rpc'[h].old = rpc[h].old /\ SamePod(h)
           /\ SetStorePod(h) => rpc'[h].pc = "setStoreIP" /\ rpc'[h].old = rpc[h].old /\ SamePod(h)
           /\ SetStoreIP(h) =>
                \/ LastPod(h) /\ rpc'[h] = Idle
                \/ rpc'[h].pc = "setGetPod" /\ rpc'[h].old = Nil /\ StepsOn(h)
<1>1. rpc \in [Rpcs -> RpcLocals] /\ rpc[h] \in RpcLocals
  BY DEF Shape, TypeOK
<1>2. SetRecord(h) => \/ rpc'[h] = Idle
                      \/ /\ rpc'[h].pc = "setGetPod" /\ rpc'[h].k = 1
                         /\ rpc'[h].req = rpc[h].req /\ rpc'[h].n = rpc[h].n
                         /\ rpc'[h].name = rpc[h].name
  BY <1>1 DEF SetRecord, Return, RpcLocals
<1>3. SetGetPod(h) => rpc'[h].pc = "setCheckNs" /\ rpc'[h].ip = cluster[Pod(h)] /\ SamePod(h)
  BY <1>1 DEF SetGetPod, RpcLocals, SamePod, Info, Pod
<1>4. SetGetPodFails(h) => rpc'[h] = Idle
  BY <1>1 DEF SetGetPodFails, Return
<1>n. SetCheckNs(h) =>
        /\ rpc'[h].pc = IF NsOf[Pod(h)] \in nsMaps THEN "setFindOld" ELSE "setMakeNs"
        /\ SamePod(h)
  <2> DEFINE l == IF NsOf[Pod(h)] \in nsMaps THEN "setFindOld" ELSE "setMakeNs"
  <2>1. SetCheckNs(h) => rpc' = [rpc EXCEPT ![h].pc = l]
    BY DEF SetCheckNs, Goto
  <2> HIDE DEF l
  <2>2. SetCheckNs(h) => rpc'[h].pc = l /\ SamePod(h)
    BY <1>1, <2>1 DEF RpcLocals, SamePod, Info, Pod
  <2> QED
    BY <2>2 DEF l
<1>5. /\ SetMakeNs(h) => rpc'[h].pc = "setFindOld" /\ SamePod(h)
      /\ SetDropPod(h) => rpc'[h].pc = "setDropIP" /\ rpc'[h].old = rpc[h].old /\ SamePod(h)
      /\ SetDropIP(h) => rpc'[h].pc = "setStorePod" /\ rpc'[h].old = rpc[h].old /\ SamePod(h)
      /\ SetStorePod(h) => rpc'[h].pc = "setStoreIP" /\ rpc'[h].old = rpc[h].old /\ SamePod(h)
  BY <1>1 DEF SetMakeNs, SetDropPod, SetDropIP, SetStorePod, Goto, RpcLocals, SamePod, Info, Pod
<1>6. SetFindOld(h) => /\ rpc'[h].pc = IF podMap[Pod(h)] = Nil THEN "setStorePod" ELSE "setDropPod"
                       /\ rpc'[h].old = podMap[Pod(h)] /\ SamePod(h)
  <2> SUFFICES ASSUME SetFindOld(h)
               PROVE  /\ rpc'[h].pc = IF podMap[Pod(h)] = Nil THEN "setStorePod" ELSE "setDropPod"
                      /\ rpc'[h].old = podMap[Pod(h)] /\ SamePod(h)
    OBVIOUS
  <2> DEFINE v == podMap[Pod(h)]
             l == IF v = Nil THEN "setStorePod" ELSE "setDropPod"
  <2>1. rpc' = [rpc EXCEPT ![h].old = v, ![h].pc = l]
    BY DEF SetFindOld
  <2> HIDE DEF v, l
  <2>2. /\ rpc'[h].old = v /\ rpc'[h].pc = l /\ rpc'[h].req = rpc[h].req /\ rpc'[h].k = rpc[h].k
        /\ rpc'[h].n = rpc[h].n /\ rpc'[h].name = rpc[h].name
    BY <1>1, <2>1 DEF RpcLocals
  <2> QED
    BY <2>2 DEF SamePod, Info, Pod, v, l
<1>7. SetStoreIP(h) => \/ LastPod(h) /\ rpc'[h] = Idle
                       \/ rpc'[h].pc = "setGetPod" /\ rpc'[h].old = Nil /\ StepsOn(h)
  BY <1>1 DEF SetStoreIP, Return, NextPod, LastPod, RpcLocals, StepsOn
<1> QED
  BY <1>2, <1>3, <1>4, <1>n, <1>5, <1>6, <1>7

\* The steps of CancelDNSChaos.
LEMMA CancelFacts ==
    ASSUME Shape, NEW h \in Rpcs
    PROVE  /\ CancelCheck(h) =>
                \/ rpc'[h] = Idle
                \/ /\ rpc'[h].pc = "cancelLoad" /\ rpc'[h].name = rpc[h].name
                   /\ chaosMap[rpc[h].name] # Nil
           /\ CancelLoad(h) =>
                /\ rpc'[h].pc = IF chaosMap[rpc[h].name].pods = <<>> THEN "cancelScan"
                                ELSE "cancelFind"
                /\ rpc'[h].req = chaosMap[rpc[h].name] /\ rpc'[h].k = 1
                /\ rpc'[h].name = rpc[h].name
           /\ CancelFind(h) =>
                \/ /\ podMap[Pod(h)] # Nil /\ rpc'[h].pc = "cancelDropPod"
                   /\ rpc'[h].old = podMap[Pod(h)] /\ SamePod(h)
                \/ /\ podMap[Pod(h)] = Nil /\ LastPod(h) /\ rpc'[h].pc = "cancelScan"
                   /\ SamePod(h)
                \/ podMap[Pod(h)] = Nil /\ rpc'[h].pc = "cancelFind" /\ StepsOn(h)
           /\ CancelDropPod(h) =>
                rpc'[h].pc = "cancelDropIP" /\ rpc'[h].old = rpc[h].old /\ SamePod(h)
           /\ CancelDropIP(h) =>
                \/ LastPod(h) /\ rpc'[h].pc = "cancelScan" /\ SamePod(h)
                \/ rpc'[h].pc = "cancelFind" /\ StepsOn(h)
           /\ CancelScan(h) =>
                /\ rpc'[h].pc = "cancelPrune" /\ SamePod(h)
                /\ rpc'[h].ns = {n \in nsMaps : \A p \in Pods : NsOf[p] = n => podMap[p] = Nil}
           /\ \A n \in Namespaces : CancelPrune(h, n) =>
                rpc'[h].pc = "cancelPrune" /\ rpc'[h].ns = rpc[h].ns \ {n} /\ SamePod(h)
           /\ CancelForget(h) => rpc'[h] = Idle
<1>1. rpc \in [Rpcs -> RpcLocals] /\ rpc[h] \in RpcLocals
  BY DEF Shape, TypeOK
<1>2. /\ CancelCheck(h) => \/ rpc'[h] = Idle
                           \/ /\ rpc'[h].pc = "cancelLoad" /\ rpc'[h].name = rpc[h].name
                              /\ chaosMap[rpc[h].name] # Nil
      /\ CancelForget(h) => rpc'[h] = Idle
  BY <1>1 DEF CancelCheck, CancelForget, Return, Goto, RpcLocals
<1>3. CancelLoad(h) =>
        /\ rpc'[h].pc = IF chaosMap[rpc[h].name].pods = <<>> THEN "cancelScan" ELSE "cancelFind"
        /\ rpc'[h].req = chaosMap[rpc[h].name] /\ rpc'[h].k = 1
        /\ rpc'[h].name = rpc[h].name
  BY <1>1 DEF CancelLoad, RpcLocals
<1>4. ASSUME CancelFind(h)
      PROVE  \/ /\ podMap[Pod(h)] # Nil /\ rpc'[h].pc = "cancelDropPod"
                /\ rpc'[h].old = podMap[Pod(h)] /\ SamePod(h)
             \/ podMap[Pod(h)] = Nil /\ LastPod(h) /\ rpc'[h].pc = "cancelScan" /\ SamePod(h)
             \/ podMap[Pod(h)] = Nil /\ rpc'[h].pc = "cancelFind" /\ StepsOn(h)
  <2>1. CASE podMap[Pod(h)] # Nil
    <3> DEFINE v == podMap[Pod(h)]
    <3>1. rpc' = [rpc EXCEPT ![h].pc = "cancelDropPod", ![h].old = v]
      BY <1>4, <2>1 DEF CancelFind
    <3> HIDE DEF v
    <3>2. /\ rpc'[h].old = v /\ rpc'[h].pc = "cancelDropPod" /\ rpc'[h].req = rpc[h].req
          /\ rpc'[h].k = rpc[h].k /\ rpc'[h].n = rpc[h].n /\ rpc'[h].name = rpc[h].name
      BY <1>1, <3>1 DEF RpcLocals
    <3> QED
      BY <2>1, <3>2 DEF SamePod, Info, Pod, v
  <2>2. CASE podMap[Pod(h)] = Nil /\ LastPod(h)
    BY <1>1, <1>4, <2>2 DEF CancelFind, Goto, RpcLocals, SamePod, Info, Pod
  <2>3. CASE podMap[Pod(h)] = Nil /\ ~LastPod(h)
    <3>1. NextPod(h, "cancelFind")
      BY <1>4, <2>3 DEF CancelFind
    <3> QED
      BY <1>1, <2>3, <3>1 DEF NextPod, LastPod, RpcLocals, StepsOn
  <2> QED
    BY <2>1, <2>2, <2>3
<1>5. CancelDropPod(h) => rpc'[h].pc = "cancelDropIP" /\ rpc'[h].old = rpc[h].old /\ SamePod(h)
  BY <1>1 DEF CancelDropPod, Goto, RpcLocals, SamePod, Info, Pod
<1>6. ASSUME CancelDropIP(h)
      PROVE  \/ LastPod(h) /\ rpc'[h].pc = "cancelScan" /\ SamePod(h)
             \/ rpc'[h].pc = "cancelFind" /\ StepsOn(h)
  <2>1. CASE LastPod(h)
    BY <1>1, <1>6, <2>1 DEF CancelDropIP, Goto, RpcLocals, SamePod, Info, Pod
  <2>2. CASE ~LastPod(h)
    <3>1. NextPod(h, "cancelFind")
      BY <1>6, <2>2 DEF CancelDropIP
    <3> QED
      BY <1>1, <2>2, <3>1 DEF NextPod, LastPod, RpcLocals, StepsOn
  <2> QED
    BY <2>1, <2>2
<1>7. CancelScan(h) =>
        /\ rpc'[h].pc = "cancelPrune" /\ SamePod(h)
        /\ rpc'[h].ns = {n \in nsMaps : \A p \in Pods : NsOf[p] = n => podMap[p] = Nil}
  BY <1>1 DEF CancelScan, RpcLocals, SamePod, Info, Pod
<1>8. ASSUME NEW n \in Namespaces, CancelPrune(h, n)
      PROVE  rpc'[h].pc = "cancelPrune" /\ rpc'[h].ns = rpc[h].ns \ {n} /\ SamePod(h)
  BY <1>1, <1>8 DEF CancelPrune, RpcLocals, SamePod, Info, Pod
<1> QED
  BY <1>2, <1>3, <1>4, <1>5, <1>6, <1>7, <1>8

\* An update of a PodInfo in place: InitPod, and the refresh of getChaosPod.
LEMMA InPlaceFacts ==
    ASSUME Shape, NEW i \in Infos, heap[i] # Nil, NEW a \in Addr, NEW t \in 0 .. MaxTime,
           heap' = [heap EXCEPT ![i].ip = a, ![i].stamp = t]
    PROVE  /\ \A j \in Infos \ {i} : heap'[j] = heap[j]
           /\ heap'[i] # Nil /\ heap'[i].ip = a
           /\ heap'[i].action = heap[i].action /\ heap'[i].scope = heap[i].scope
           /\ heap'[i].sel = heap[i].sel
<1>1. heap \in [Infos -> PodInfos \cup {Nil}] /\ heap[i] \in PodInfos
  BY DEF Shape, TypeOK
<1>2. /\ heap'[i] = [heap[i] EXCEPT !.ip = a, !.stamp = t]
      /\ \A j \in Infos \ {i} : heap'[j] = heap[j]
  BY <1>1 DEF PodInfos
<1>3. /\ heap'[i] \in PodInfos /\ heap'[i].ip = a
      /\ heap'[i].action = heap[i].action /\ heap'[i].scope = heap[i].scope
      /\ heap'[i].sel = heap[i].sel
  BY <1>1, <1>2 DEF PodInfos
<1> QED
  BY <1>2, <1>3, NamesAssumption

\* A query changes its own locals, entries of ipPodMap and, when it refreshes a rule, the
\* address of a PodInfo.
LEMMA DnsFrame ==
    ASSUME Shape, NEW h \in Dnss, DnsStep(h)
    PROVE  /\ UNCHANGED <<chaosMap, nsMaps, podMap, phase, initTodo, sets, rpc, now, cluster,
                          moves, owned>>
           /\ \A g \in Dnss \ {h} : dns'[g] = dns[g]
           /\ \/ UNCHANGED heap
              \/ /\ Assign(h) /\ dns[h].info \in Infos /\ heap[dns[h].info] # Nil
                 /\ dns[h].ip \in Addr /\ now \in 0 .. MaxTime
                 /\ heap' = [heap EXCEPT ![dns[h].info].ip = dns[h].ip,
                                         ![dns[h].info].stamp = now]
<1>1. dns \in [Dnss -> DnsLocals] /\ dns[h] \in DnsLocals
  BY DEF Shape, TypeOK
<1>2. UNCHANGED <<chaosMap, nsMaps, podMap, server, rpc, env>> /\ (UNCHANGED heap \/ Assign(h))
  BY DEF DnsStep, Lookup, Fetch, FetchFails, Compare, Assign, DropIP, StoreIP, Judge, rules
<1>3. \A g \in Dnss \ {h} : dns'[g] = dns[g]
  BY <1>1 DEF DnsStep, Lookup, Fetch, FetchFails, Compare, Assign, DropIP, StoreIP, Judge
<1>4. Assign(h) =>
        /\ dns[h].info \in Infos /\ heap[dns[h].info] # Nil
        /\ dns[h].ip \in Addr /\ now \in 0 .. MaxTime
        /\ heap' = [heap EXCEPT ![dns[h].info].ip = dns[h].ip, ![dns[h].info].stamp = now]
  BY <1>1 DEF Assign, Shape, Locals, Pointers, RefreshLabels, DnsLocals, TypeOK
<1> QED
  BY <1>2, <1>3, <1>4 DEF server, env

\* InitPod updates the PodInfo of a chaos line.
LEMMA InitPodFacts ==
    ASSUME Shape, NEW p \in Pods, InitPod(p)
    PROVE  /\ podMap[p] \in Infos /\ heap[podMap[p]] # Nil
           /\ cluster[p] \in Addr /\ now \in 0 .. MaxTime
           /\ heap' = [heap EXCEPT ![podMap[p]].ip = cluster[p], ![podMap[p]].stamp = now]
           /\ \A h \in Rpcs : rpc[h] = Idle
           /\ \A h \in Dnss : dns[h] = Quiet
<1>1. podMap[p] # Nil /\ p \in Pods /\ phase = "init"
  BY DEF InitPod, Shape, Lifecycle
<1> QED
  BY <1>1 DEF InitPod, Shape, TypeOK, Lifecycle, Pointers

\* Everything that may happen, apart from the end of the process and the start-up code that
\* makes no rules.
\* A call comes in.
LEMMA EntryFacts ==
    ASSUME Shape, NEW h \in Rpcs,
           \/ \E r \in Requests : SetDNSChaos(h, r)
           \/ \E c \in ChaosNames : CancelDNSChaos(h, c)
    PROVE  /\ rpc[h].pc = "idle" /\ rpc'[h].pc \in {"setRecord", "cancelCheck"}
           /\ \A g \in Rpcs \ {h} : rpc'[g] = rpc[g]
           /\ UNCHANGED <<rules, phase, initTodo, dns, env>>
<1>1. rpc \in [Rpcs -> RpcLocals]
  BY DEF Shape, TypeOK
<1>2. CASE \E r \in Requests : SetDNSChaos(h, r)
  <2>1. PICK r \in Requests : SetDNSChaos(h, r)
    BY <1>2
  <2>2. rpc'[h].pc = "setRecord" /\ \A g \in Rpcs \ {h} : rpc'[g] = rpc[g]
    BY <1>1, <2>1 DEF SetDNSChaos, Idle
  <2> QED
    BY <2>1, <2>2 DEF SetDNSChaos
<1>3. CASE \E c \in ChaosNames : CancelDNSChaos(h, c)
  <2>1. PICK c \in ChaosNames : CancelDNSChaos(h, c)
    BY <1>3
  <2>2. rpc'[h].pc = "cancelCheck" /\ \A g \in Rpcs \ {h} : rpc'[g] = rpc[g]
    BY <1>1, <2>1 DEF CancelDNSChaos, Idle
  <2> QED
    BY <2>1, <2>2 DEF CancelDNSChaos, server
<1> QED
  BY <1>2, <1>3

LEMMA StepCases ==
    ASSUME [Next]_vars
    PROVE  \/ UNCHANGED vars \/ Crash
           \/ Boot \/ (\E p \in Pods : InitPod(p)) \/ CreateGRPCServer \/ OnStartup
           \/ \E h \in Rpcs, r \in Requests : SetDNSChaos(h, r)
           \/ \E h \in Rpcs, c \in ChaosNames : CancelDNSChaos(h, c)
           \/ \E h \in Rpcs : SetStep(h) \/ CancelStep(h)
           \/ \E h \in Dnss, p \in Pods, qname \in QNames, qtype \in QTypes :
                  Query(h, p, qname, qtype)
           \/ \E h \in Dnss : DnsStep(h)
           \/ Tick \/ \E p \in Pods : PodChanges(p)
  BY DEF Next, Setup, InitFails, RpcStep, NilPanic, MapFault

-----------------------------------------------------------------------------
(* Rules that are in use are never rewritten                               *)

\* Has the call of h still to make the PodInfo of its j-th pod?
ToMake(h, j) ==
    rpc[h].pc = "setRecord" \/ j > rpc[h].k \/ (j = rpc[h].k /\ rpc[h].pc # "setStoreIP")

\* The PodInfos a call of SetDNSChaos has still to make are not there: calls have numbers of
\* their own, and a request names a pod once.
NumbersFresh ==
    /\ \A h \in Rpcs : rpc[h].pc \in SetLabels => rpc[h].n \in 1 .. sets
    /\ \A g, h \in Rpcs : g # h /\ rpc[g].pc \in SetLabels /\ rpc[h].pc \in SetLabels =>
           rpc[g].n # rpc[h].n
    /\ \A i \in Infos : i[1] > sets => heap[i] = Nil

RoomLeft ==
    \A h \in Rpcs : rpc[h].pc \in SetLabels =>
        \A j \in DOMAIN rpc[h].req.pods : ToMake(h, j) => heap[<<rpc[h].n, rpc[h].req.pods[j]>>] = Nil

\* A step that makes no PodInfo and starts no call.
LEMMA FreshFrame ==
    ASSUME Shape, NumbersFresh, RoomLeft, sets' = sets,
           \A i \in Infos : heap[i] = Nil => heap'[i] = Nil,
           \A h \in Rpcs :
               \/ rpc'[h] = rpc[h] \/ rpc'[h].pc \notin SetLabels
               \/ /\ rpc[h].pc \in SetLabels /\ rpc'[h].n = rpc[h].n /\ rpc'[h].req = rpc[h].req
                  /\ \A j \in DOMAIN rpc[h].req.pods : ToMake(h, j)' => ToMake(h, j)
    PROVE  NumbersFresh' /\ RoomLeft'
<1>1. \A h \in Rpcs : rpc'[h].pc \in SetLabels =>
        /\ rpc[h].pc \in SetLabels /\ rpc'[h].n = rpc[h].n /\ rpc'[h].req = rpc[h].req
        /\ \A j \in DOMAIN rpc[h].req.pods : ToMake(h, j)' => ToMake(h, j)
  BY DEF ToMake
<1>2. NumbersFresh'
  BY <1>1 DEF NumbersFresh
<1>3. ASSUME NEW h \in Rpcs, rpc'[h].pc \in SetLabels, NEW j \in DOMAIN rpc'[h].req.pods,
             ToMake(h, j)'
      PROVE  heap'[<<rpc'[h].n, rpc'[h].req.pods[j]>>] = Nil
  <2>1. heap[<<rpc[h].n, rpc[h].req.pods[j]>>] = Nil
    BY <1>1, <1>3 DEF RoomLeft
  <2>2. <<rpc[h].n, rpc[h].req.pods[j]>> \in Infos
    <3>1. rpc[h].n \in 0 .. MaxSets /\ rpc[h].req \in Requests
      BY <1>1, <1>3 DEF Shape, TypeOK, RpcLocals, Locals
    <3> QED
      BY <1>1, <1>3, <3>1, RequestPods DEF Infos
  <2> QED
    BY <1>1, <1>3, <2>1, <2>2
<1> QED
  BY <1>2, <1>3 DEF RoomLeft

\* The end of the process, and a fresh one.
LEMMA FreshEmpty ==
    ASSUME Shape, \A h \in Rpcs : rpc'[h] = Idle,
           sets' \in Nat, \A i \in Infos : i[1] > sets' => heap'[i] = Nil
    PROVE  NumbersFresh' /\ RoomLeft'
  BY IdleType DEF NumbersFresh, RoomLeft, SetLabels

\* SetDNSChaos takes a number of its own; no PodInfo has it.
LEMMA FreshEntry ==
    ASSUME Shape, NumbersFresh, RoomLeft, NEW h \in Rpcs, NEW r \in Requests, SetDNSChaos(h, r)
    PROVE  NumbersFresh' /\ RoomLeft'
<1>1. /\ rpc'[h].pc = "setRecord" /\ rpc'[h].req = r /\ rpc'[h].n = sets + 1
      /\ \A g \in Rpcs \ {h} : rpc'[g] = rpc[g]
      /\ sets' = sets + 1 /\ sets \in Nat /\ sets + 1 \in 0 .. MaxSets /\ heap' = heap
  <2>1. rpc \in [Rpcs -> RpcLocals] /\ sets \in Nat /\ sets + 1 \in 0 .. MaxSets
    BY BoundsAssumption DEF SetDNSChaos, Shape, TypeOK
  <2> QED
    BY <2>1 DEF SetDNSChaos, Idle, rules
<1>2. NumbersFresh'
  <2>1. \A g \in Rpcs : rpc'[g].pc \in SetLabels => rpc'[g].n \in 1 .. sets'
    BY <1>1 DEF NumbersFresh
  <2>2. \A g \in Rpcs \ {h} : rpc[g].pc \in SetLabels => rpc[g].n # sets + 1
    BY <1>1 DEF NumbersFresh
  <2>3. \A i \in Infos : i[1] > sets' => heap'[i] = Nil
    BY <1>1 DEF NumbersFresh, Infos
  <2> QED
    BY <1>1, <2>1, <2>2, <2>3 DEF NumbersFresh
<1>3. ASSUME NEW j \in DOMAIN r.pods PROVE heap[<<sets + 1, r.pods[j]>>] = Nil
  <2>1. <<sets + 1, r.pods[j]>> \in Infos
    BY <1>1, <1>3, RequestPods DEF Infos
  <2> QED
    BY <1>1, <2>1 DEF NumbersFresh
<1>4. RoomLeft'
  BY <1>1, <1>3 DEF RoomLeft, ToMake
<1> QED
  BY <1>2, <1>4

\* SetStorePod makes the PodInfo that its call has to make next.
LEMMA FreshStore ==
    ASSUME Shape, NumbersFresh, RoomLeft, NEW h \in Rpcs, SetStorePod(h)
    PROVE  /\ heap[Info(h)] = Nil /\ Info(h) \in Infos
           /\ \A i \in Infos \ {Info(h)} : heap'[i] = heap[i]
           /\ NumbersFresh' /\ RoomLeft'
<1>1. /\ rpc[h].pc = "setStorePod" /\ rpc[h].pc \in SetLabels /\ InLoop(h)
      /\ rpc[h].req \in Requests /\ Info(h) \in Infos /\ rpc[h].n \in 0 .. MaxSets
      /\ rpc[h].k \in DOMAIN rpc[h].req.pods
  <2>1. rpc[h].pc = "setStorePod" /\ rpc[h].pc \in SetLabels /\ InLoop(h)
    BY DEF SetStorePod, SetLabels, LoopLabels, InLoop
  <2> QED
    BY <2>1, InFlightFacts DEF Shape, TypeOK, RpcLocals
<1>2. heap[Info(h)] = Nil
  BY <1>1 DEF RoomLeft, ToMake, Info, Pod
<1>3. heap \in [Infos -> PodInfos \cup {Nil}] /\ heap' = [heap EXCEPT ![Info(h)] = NewInfo(h)]
  BY DEF Shape, TypeOK, SetStorePod
<1>4. \A i \in Infos \ {Info(h)} : heap'[i] = heap[i]
  BY <1>3
<1>5. /\ rpc'[h].pc = "setStoreIP" /\ rpc'[h].req = rpc[h].req /\ rpc'[h].n = rpc[h].n
      /\ rpc'[h].k = rpc[h].k /\ \A g \in Rpcs \ {h} : rpc'[g] = rpc[g]
      /\ sets' = sets
  BY SetFacts, RpcFrame DEF SamePod, SetStep
<1>6. NumbersFresh'
  <2>1. rpc[h].n \in 1 .. sets /\ sets \in Nat
    BY <1>1 DEF NumbersFresh, Shape, TypeOK
  <2>2. \A i \in Infos : i[1] > sets => i # Info(h)
    BY <2>1 DEF Info
  <2> QED
    BY <1>1, <1>4, <1>5, <2>2 DEF NumbersFresh, SetLabels
<1>7. ASSUME NEW g \in Rpcs, rpc'[g].pc \in SetLabels, NEW j \in DOMAIN rpc'[g].req.pods,
             ToMake(g, j)'
      PROVE  heap'[<<rpc'[g].n, rpc'[g].req.pods[j]>>] = Nil
  <2>1. CASE g = h
    <3>1. j \in DOMAIN rpc[h].req.pods /\ j > rpc[h].k
      BY <1>5, <1>7, <2>1 DEF ToMake
    <3>2. heap[<<rpc[h].n, rpc[h].req.pods[j]>>] = Nil
      BY <1>1, <3>1 DEF RoomLeft, ToMake
    <3>3. <<rpc[h].n, rpc[h].req.pods[j]>> \in Infos
      BY <1>1, <3>1, RequestPods DEF Infos
    <3>4. rpc[h].req.pods[j] # Pod(h)
      <4>1. j # rpc[h].k
        BY <1>1, <3>1, RequestPods
      <4> QED
        BY <1>1, <3>1, <4>1, RequestsAssumption DEF Pod
    <3> QED
      BY <1>4, <1>5, <2>1, <3>2, <3>3, <3>4 DEF Info
  <2>2. CASE g # h
    <3>1. rpc'[g] = rpc[g] /\ ToMake(g, j) /\ rpc[g].n # rpc[h].n
      BY <1>1, <1>5, <1>7, <2>2 DEF ToMake, NumbersFresh
    <3>2. heap[<<rpc[g].n, rpc[g].req.pods[j]>>] = Nil
      BY <1>7, <3>1 DEF RoomLeft
    <3>3. <<rpc[g].n, rpc[g].req.pods[j]>> \in Infos
      <4>1. rpc[g].n \in 0 .. MaxSets /\ rpc[g].req \in Requests
        BY <1>7, <3>1 DEF Shape, TypeOK, RpcLocals, Locals
      <4> QED
        BY <1>7, <3>1, <4>1, RequestPods DEF Infos
    <3> QED
      BY <1>4, <3>1, <3>2, <3>3 DEF Info
  <2> QED
    BY <2>1, <2>2
<1>8. RoomLeft'
  BY <1>7 DEF RoomLeft
<1> QED
  BY <1>1, <1>2, <1>4, <1>6, <1>8

LEMMA StepFresh ==
    ASSUME Shape, NumbersFresh, RoomLeft, [Next]_vars
    PROVE  NumbersFresh' /\ RoomLeft'
<1>1. CASE Crash
  BY <1>1, FreshEmpty DEF Crash
<1>2. CASE Boot
  <2>1. \A i \in Infos : i[1] > sets' => heap'[i] = Nil
    BY <1>2 DEF Boot, Shape, TypeOK, Infos
  <2> QED
    BY <1>2, <2>1, FreshEmpty DEF Boot, Shape, TypeOK, Lifecycle
<1>3. ASSUME NEW p \in Pods, InitPod(p) PROVE NumbersFresh' /\ RoomLeft'
  <2>1. \A i \in Infos : heap[i] = Nil => heap'[i] = Nil
    <3>1. /\ podMap[p] \in Infos /\ heap[podMap[p]] # Nil
          /\ cluster[p] \in Addr /\ now \in 0 .. MaxTime
          /\ heap' = [heap EXCEPT ![podMap[p]].ip = cluster[p], ![podMap[p]].stamp = now]
      BY <1>3, InitPodFacts
    <3>2. \A j \in Infos \ {podMap[p]} : heap'[j] = heap[j]
      BY <3>1, InPlaceFacts
    <3> QED
      BY <3>1, <3>2
  <2> QED
    BY <1>3, <2>1, FreshFrame DEF InitPod
<1>4. CASE \/ UNCHANGED vars \/ CreateGRPCServer \/ OnStartup \/ Tick
           \/ \E p \in Pods : PodChanges(p)
           \/ \E h \in Dnss, p \in Pods, qname \in QNames, qtype \in QTypes :
                  Query(h, p, qname, qtype)
  <2>1. UNCHANGED <<sets, heap, rpc>>
    BY <1>4 DEF vars, rules, server, CreateGRPCServer, OnStartup, Tick, PodChanges, Query
  <2> QED
    BY <2>1, FreshFrame
<1>5. ASSUME NEW h \in Rpcs, NEW r \in Requests, SetDNSChaos(h, r)
      PROVE  NumbersFresh' /\ RoomLeft'
  BY <1>5, FreshEntry
<1>6. ASSUME NEW h \in Rpcs, NEW c \in ChaosNames, CancelDNSChaos(h, c)
      PROVE  NumbersFresh' /\ RoomLeft'
  <2>1. rpc'[h].pc = "cancelCheck" /\ \A g \in Rpcs \ {h} : rpc'[g] = rpc[g]
    BY <1>6 DEF CancelDNSChaos, Shape, TypeOK, Idle
  <2>2. rpc'[h].pc \notin SetLabels
    BY <2>1 DEF SetLabels
  <2> QED
    BY <1>6, <2>1, <2>2, FreshFrame DEF CancelDNSChaos, rules, server
<1>7. ASSUME NEW h \in Rpcs, SetStep(h) PROVE NumbersFresh' /\ RoomLeft'
  <2>1. CASE SetStorePod(h)
    BY <2>1, FreshStore
  <2>2. CASE ~SetStorePod(h)
    <3>1. heap' = heap /\ sets' = sets /\ \A g \in Rpcs \ {h} : rpc'[g] = rpc[g]
      <4>1. heap' = heap
        BY <1>7, <2>2 DEF SetStep, SetRecord, SetGetPod, SetGetPodFails, SetCheckNs, SetMakeNs,
           SetFindOld, SetDropPod, SetDropIP, SetStoreIP, rules
      <4> QED
        BY <1>7, <4>1, RpcFrame
    <3>2. rpc'[h].pc \in SetLabels =>
            /\ rpc[h].pc \in SetLabels /\ rpc'[h].n = rpc[h].n /\ rpc'[h].req = rpc[h].req
            /\ \A j \in DOMAIN rpc[h].req.pods : ToMake(h, j)' => ToMake(h, j)
      <4>1. rpc[h].pc \in SetLabels /\ rpc[h].k \in Nat
        BY <1>7 DEF SetStep, SetRecord, SetGetPod, SetGetPodFails, SetCheckNs, SetMakeNs,
           SetFindOld,
           SetDropPod, SetDropIP, SetStorePod, SetStoreIP, SetLabels, Shape, TypeOK, RpcLocals
      <4>2. DOMAIN rpc[h].req.pods \subseteq Nat
        BY <4>1, RequestPods DEF Shape, Locals
      <4>3. CASE SetRecord(h)
        BY <4>1, <4>3, IdleType, SetFacts DEF ToMake, SetLabels, SetRecord
      <4>4. CASE SetStoreIP(h)
        BY <4>1, <4>2, <4>4, IdleType, SetFacts DEF ToMake, SetLabels, StepsOn
      <4>5. CASE SetGetPodFails(h)
        BY <4>5, IdleType, SetFacts DEF SetLabels
      <4>6. CASE \/ SetGetPod(h) \/ SetCheckNs(h) \/ SetMakeNs(h) \/ SetFindOld(h)
                 \/ SetDropPod(h) \/ SetDropIP(h)
        <5>1. SamePod(h) /\ rpc[h].pc # "setStoreIP" /\ rpc'[h].pc # "setRecord"
          BY <4>6, SetFacts DEF SetGetPod, SetCheckNs, SetMakeNs, SetFindOld, SetDropPod, SetDropIP
        <5> QED
          BY <4>1, <5>1 DEF SamePod, ToMake
      <4> QED
        BY <1>7, <2>2, <4>3, <4>4, <4>5, <4>6 DEF SetStep
    <3> QED
      BY <3>1, <3>2, FreshFrame
  <2> QED
    BY <2>1, <2>2
<1>8. ASSUME NEW h \in Rpcs, CancelStep(h) PROVE NumbersFresh' /\ RoomLeft'
  <2>1. heap' = heap /\ sets' = sets /\ \A g \in Rpcs \ {h} : rpc'[g] = rpc[g]
    <3>1. heap' = heap
      BY <1>8 DEF CancelStep, CancelCheck, CancelLoad, CancelFind, CancelDropPod, CancelDropIP,
         CancelScan, CancelPrune, CancelForget, rules
    <3> QED
      BY <1>8, <3>1, RpcFrame
  <2>2. rpc'[h].pc \notin SetLabels
    BY <1>8, IdleType, CancelFacts DEF CancelStep, SetLabels
  <2> QED
    BY <2>1, <2>2, FreshFrame
<1>9. ASSUME NEW h \in Dnss, DnsStep(h) PROVE NumbersFresh' /\ RoomLeft'
  <2>1. \A i \in Infos : heap[i] = Nil => heap'[i] = Nil
    <3>1. CASE UNCHANGED heap
      BY <3>1
    <3>2. CASE ~UNCHANGED heap
      <4>1. /\ dns[h].info \in Infos /\ heap[dns[h].info] # Nil
            /\ dns[h].ip \in Addr /\ now \in 0 .. MaxTime
            /\ heap' = [heap EXCEPT ![dns[h].info].ip = dns[h].ip, ![dns[h].info].stamp = now]
        BY <1>9, <3>2, DnsFrame
      <4>2. \A j \in Infos \ {dns[h].info} : heap'[j] = heap[j]
        BY <4>1, InPlaceFacts
      <4> QED
        BY <4>1, <4>2
    <3> QED
      BY <3>1, <3>2
  <2> QED
    BY <1>9, <2>1, DnsFrame, FreshFrame
<1> QED
  BY <1>1, <1>2, <1>3, <1>4, <1>5, <1>6, <1>7, <1>8, <1>9, StepCases

LEMMA FreshInvariant == Spec => [](NumbersFresh /\ RoomLeft)
<1>1. Init => NumbersFresh /\ RoomLeft
  BY IdleType DEF Init, NumbersFresh, RoomLeft, SetLabels
<1>2. Shape /\ (NumbersFresh /\ RoomLeft) /\ [Next]_vars => (NumbersFresh /\ RoomLeft)'
  BY StepFresh
<1> QED
  BY <1>1, <1>2, ShapeInvariant, PTL DEF Spec

\* No step gives a PodInfo another action, scope or selector.
LEMMA StepImmutable ==
    ASSUME Shape, NumbersFresh, RoomLeft, [Next]_vars,
           NEW i \in Infos, heap[i] # Nil, heap'[i] # Nil
    PROVE  /\ heap'[i].action = heap[i].action /\ heap'[i].scope = heap[i].scope
           /\ heap'[i].sel = heap[i].sel
<1>1. CASE Crash \/ Boot
  BY <1>1 DEF Crash, Boot, Shape, Lifecycle
<1>2. ASSUME NEW p \in Pods, InitPod(p)
      PROVE  /\ heap'[i].action = heap[i].action /\ heap'[i].scope = heap[i].scope
             /\ heap'[i].sel = heap[i].sel
  <2>1. /\ podMap[p] \in Infos /\ heap[podMap[p]] # Nil
        /\ cluster[p] \in Addr /\ now \in 0 .. MaxTime
        /\ heap' = [heap EXCEPT ![podMap[p]].ip = cluster[p], ![podMap[p]].stamp = now]
    BY <1>2, InitPodFacts
  <2>2. CASE i = podMap[p]
    BY <2>1, <2>2, InPlaceFacts
  <2>3. CASE i # podMap[p]
    <3>1. \A j \in Infos \ {podMap[p]} : heap'[j] = heap[j]
      BY <2>1, InPlaceFacts
    <3> QED
      BY <2>3, <3>1
  <2> QED
    BY <2>2, <2>3
<1>3. ASSUME NEW h \in Dnss, DnsStep(h)
      PROVE  /\ heap'[i].action = heap[i].action /\ heap'[i].scope = heap[i].scope
             /\ heap'[i].sel = heap[i].sel
  <2>1. CASE UNCHANGED heap
    BY <2>1
  <2>2. CASE ~UNCHANGED heap
    <3>1. /\ dns[h].info \in Infos /\ heap[dns[h].info] # Nil
          /\ dns[h].ip \in Addr /\ now \in 0 .. MaxTime
          /\ heap' = [heap EXCEPT ![dns[h].info].ip = dns[h].ip, ![dns[h].info].stamp = now]
      BY <1>3, <2>2, DnsFrame
    <3>2. CASE i = dns[h].info
      BY <3>1, <3>2, InPlaceFacts
    <3>3. CASE i # dns[h].info
      <4>1. \A j \in Infos \ {dns[h].info} : heap'[j] = heap[j]
        BY <3>1, InPlaceFacts
      <4> QED
        BY <3>3, <4>1
    <3> QED
      BY <3>2, <3>3
  <2> QED
    BY <2>1, <2>2
<1>4. ASSUME NEW h \in Rpcs, SetStorePod(h)
      PROVE  /\ heap'[i].action = heap[i].action /\ heap'[i].scope = heap[i].scope
             /\ heap'[i].sel = heap[i].sel
  BY <1>4, FreshStore
<1>5. ASSUME NEW h \in Rpcs, SetStep(h) \/ CancelStep(h), ~SetStorePod(h)
      PROVE  heap' = heap
  BY <1>5 DEF SetStep, SetRecord, SetGetPod, SetGetPodFails, SetCheckNs, SetMakeNs, SetFindOld,
     SetDropPod, SetDropIP, SetStoreIP, CancelStep, CancelCheck, CancelLoad, CancelFind,
     CancelDropPod, CancelDropIP, CancelScan, CancelPrune, CancelForget, rules
<1>6. CASE \/ UNCHANGED vars \/ CreateGRPCServer \/ OnStartup \/ Tick
           \/ \E p \in Pods : PodChanges(p)
           \/ \E h \in Rpcs, r \in Requests : SetDNSChaos(h, r)
           \/ \E h \in Rpcs, c \in ChaosNames : CancelDNSChaos(h, c)
           \/ \E h \in Dnss, p \in Pods, qname \in QNames, qtype \in QTypes :
                  Query(h, p, qname, qtype)
  <2>1. heap' = heap
    BY <1>6 DEF vars, rules, CreateGRPCServer, OnStartup, Tick, PodChanges, Query, SetDNSChaos,
       CancelDNSChaos
  <2> QED
    BY <2>1
<1> QED
  BY <1>1, <1>2, <1>3, <1>4, <1>5, <1>6, StepCases

\* A query holds its PodInfo long after getChaosPod gave up the lock, and the lock excludes
\* nobody: still no call of SetDNSChaos, no refresh and no restart changes the action, scope
\* or selector of a PodInfo that is in use (chaos.go:153, handler.go:26), however many run.
THEOREM RulesInUseImmutable == Spec => PublishedRulesImmutable
<1> DEFINE Kept == \A i \in Infos : heap[i] # Nil /\ heap'[i] # Nil =>
                       /\ heap'[i].action = heap[i].action
                       /\ heap'[i].scope = heap[i].scope
                       /\ heap'[i].sel = heap[i].sel
<1>1. Shape /\ (NumbersFresh /\ RoomLeft) /\ [Next]_vars => [Kept]_heap
  BY StepImmutable
<1>2. Spec => [][Kept]_heap
  <2> HIDE DEF Kept
  <2> QED
    BY <1>1, ShapeInvariant, FreshInvariant, PTL DEF Spec
<1> QED
  BY <1>2 DEF PublishedRulesImmutable

-----------------------------------------------------------------------------
(* One RPC at a time: no panic                                             *)

\* One RPC is served at a time.  k.Lock() at the head of both handlers is meant to see to
\* it, but locks a copy of the mutex: so this is an assumption about the controller, which
\* waits for an answer before it sends the next call.
OneRpc == \A g, h \in Rpcs : g = h

\* What a handler found out about the maps still holds when it relies on it.
NothingRemoved ==
    \A h \in Rpcs :
        /\ rpc[h].pc \in {"setFindOld", "setDropPod", "setDropIP", "setStorePod"} =>
               NsOf[Pod(h)] \in nsMaps
        /\ rpc[h].pc = "setMakeNs" => NsOf[Pod(h)] \notin nsMaps
        /\ rpc[h].pc = "cancelLoad" => chaosMap[rpc[h].name] # Nil

LEMMA StepRemoved ==
    ASSUME OneRpc, Shape, NothingRemoved, [Next]_vars
    PROVE  NothingRemoved'
<1>1. ASSUME \A h \in Rpcs : rpc'[h].pc \in {"idle", "setRecord", "cancelCheck"}
      PROVE  NothingRemoved'
  BY <1>1 DEF NothingRemoved
<1>2. CASE Crash
  BY <1>1, <1>2, IdleType DEF Crash
<1>3. CASE Boot \/ \E p \in Pods : InitPod(p)
  BY <1>1, <1>3, IdleType DEF Boot, InitPod, Shape, Lifecycle
<1>4. ASSUME UNCHANGED <<rpc, nsMaps, chaosMap>> PROVE NothingRemoved'
  BY <1>4 DEF NothingRemoved, Pod
<1>5. CASE \/ UNCHANGED vars \/ CreateGRPCServer \/ OnStartup \/ Tick
           \/ \E p \in Pods : PodChanges(p)
           \/ \E h \in Dnss, p \in Pods, qname \in QNames, qtype \in QTypes :
                  Query(h, p, qname, qtype)
  BY <1>4, <1>5 DEF vars, rules, CreateGRPCServer, OnStartup, Tick, PodChanges, Query
<1>6. ASSUME NEW h \in Dnss, DnsStep(h) PROVE NothingRemoved'
  BY <1>4, <1>6, DnsFrame
<1>7. ASSUME NEW h \in Rpcs,
             \/ \E r \in Requests : SetDNSChaos(h, r)
             \/ \E c \in ChaosNames : CancelDNSChaos(h, c)
      PROVE  NothingRemoved'
  <2>1. rpc'[h].pc \in {"setRecord", "cancelCheck"}
    BY <1>7, EntryFacts
  <2> QED
    BY <1>1, <2>1 DEF OneRpc
<1>8. ASSUME NEW h \in Rpcs, SetStep(h) PROVE NothingRemoved'
  <2>1. \A g \in Rpcs : g = h
    BY DEF OneRpc
  <2>2. CASE SetRecord(h) \/ SetGetPod(h) \/ SetGetPodFails(h) \/ SetStorePod(h) \/ SetStoreIP(h)
    <3>1. rpc'[h].pc \in {"idle", "setGetPod", "setCheckNs", "setStoreIP"}
      BY <2>2, SetFacts, IdleType
    <3> QED
      BY <2>1, <3>1 DEF NothingRemoved
  <2>n. CASE SetCheckNs(h)
    <3>1. /\ nsMaps' = nsMaps /\ Pod(h)' = Pod(h)
          /\ rpc'[h].pc = IF NsOf[Pod(h)] \in nsMaps THEN "setFindOld" ELSE "setMakeNs"
      BY <2>n, SetFacts DEF SetCheckNs, SamePod, rules
    <3> QED
      BY <2>1, <3>1 DEF NothingRemoved
  <2>3. CASE SetMakeNs(h)
    <3>1. nsMaps' = nsMaps \cup {NsOf[Pod(h)]} /\ rpc'[h].pc = "setFindOld" /\ Pod(h)' = Pod(h)
      BY <2>3, SetFacts DEF SetMakeNs, SamePod
    <3> QED
      BY <2>1, <3>1 DEF NothingRemoved
  <2>4. CASE SetFindOld(h) \/ SetDropPod(h) \/ SetDropIP(h)
    <3>1. /\ nsMaps' = nsMaps /\ Pod(h)' = Pod(h) /\ rpc'[h].pc \notin {"cancelLoad", "setMakeNs"}
          /\ rpc[h].pc \in {"setFindOld", "setDropPod", "setDropIP"}
      BY <2>4, SetFacts DEF SetFindOld, SetDropPod, SetDropIP, SamePod, rules
    <3> QED
      BY <2>1, <3>1 DEF NothingRemoved
  <2> QED
    BY <1>8, <2>2, <2>n, <2>3, <2>4 DEF SetStep
<1>9. ASSUME NEW h \in Rpcs, CancelStep(h) PROVE NothingRemoved'
  <2>1. \A g \in Rpcs : g = h
    BY DEF OneRpc
  <2>2. CASE CancelCheck(h)
    <3>1. chaosMap' = chaosMap
      BY <2>2 DEF CancelCheck, rules
    <3> QED
      BY <2>1, <2>2, <3>1, CancelFacts, IdleType DEF NothingRemoved
  <2>3. CASE ~CancelCheck(h)
    <3>1. rpc'[h].pc \in {"idle", "cancelFind", "cancelDropPod", "cancelDropIP", "cancelScan",
                          "cancelPrune"}
      BY <1>9, <2>3, CancelFacts, IdleType DEF CancelStep
    <3> QED
      BY <2>1, <3>1 DEF NothingRemoved
  <2> QED
    BY <2>2, <2>3
<1> QED
  BY <1>2, <1>3, <1>5, <1>6, <1>7, <1>8, <1>9, StepCases

\* Every entry of podMap is in the inner map of its namespace.
Filed == \A p \in Pods : podMap[p] # Nil => NsOf[p] \in nsMaps

LEMMA StepFiled ==
    ASSUME Shape, Filed, [Next]_vars
    PROVE  Filed'
<1>a. podMap \in [Pods -> Infos \cup {Nil}]
  BY DEF Shape, TypeOK
<1>1. CASE Crash
  BY <1>1 DEF Crash, Filed
<1>2. CASE Boot
  BY <1>2 DEF Boot, Filed
<1>3. ASSUME UNCHANGED <<podMap, nsMaps>> PROVE Filed'
  BY <1>3 DEF Filed
<1>4. CASE \/ UNCHANGED vars \/ CreateGRPCServer \/ OnStartup \/ Tick
           \/ \E p \in Pods : InitPod(p)
           \/ \E p \in Pods : PodChanges(p)
           \/ \E h \in Rpcs, r \in Requests : SetDNSChaos(h, r)
           \/ \E h \in Rpcs, c \in ChaosNames : CancelDNSChaos(h, c)
           \/ \E h \in Dnss, p \in Pods, qname \in QNames, qtype \in QTypes :
                  Query(h, p, qname, qtype)
  BY <1>3, <1>4 DEF vars, rules, CreateGRPCServer, OnStartup, Tick, InitPod, PodChanges, Query,
     SetDNSChaos, CancelDNSChaos
<1>5. ASSUME NEW h \in Dnss, DnsStep(h) PROVE Filed'
  BY <1>3, <1>5, DnsFrame
<1>6. ASSUME NEW h \in Rpcs, SetStep(h) PROVE Filed'
  <2>1. CASE SetMakeNs(h)
    BY <1>a, <2>1 DEF SetMakeNs, Filed
  <2>2. CASE SetDropPod(h)
    BY <1>a, <2>2 DEF SetDropPod, Filed
  <2>3. CASE SetStorePod(h)
    BY <1>a, <2>3 DEF SetStorePod, Filed
  <2>4. CASE ~SetMakeNs(h) /\ ~SetDropPod(h) /\ ~SetStorePod(h)
    <3>1. UNCHANGED <<podMap, nsMaps>>
      BY <1>6, <2>4 DEF SetStep, SetRecord, SetGetPod, SetGetPodFails, SetCheckNs, SetFindOld,
         SetDropIP, SetStoreIP, rules
    <3> QED
      BY <1>3, <3>1
  <2> QED
    BY <2>1, <2>2, <2>3, <2>4
<1>7. ASSUME NEW h \in Rpcs, CancelStep(h) PROVE Filed'
  <2>1. CASE CancelDropPod(h)
    BY <1>a, <2>1 DEF CancelDropPod, Filed
  <2>2. ASSUME NEW n \in Namespaces, CancelPrune(h, n) PROVE Filed'
    BY <1>a, <2>2 DEF CancelPrune, Filed
  <2>3. CASE ~CancelDropPod(h) /\ ~\E n \in Namespaces : CancelPrune(h, n)
    <3>1. UNCHANGED <<podMap, nsMaps>>
      BY <1>7, <2>3 DEF CancelStep, CancelCheck, CancelLoad, CancelFind, CancelDropIP, CancelScan,
         CancelForget, rules
    <3> QED
      BY <1>3, <3>1
  <2> QED
    BY <2>1, <2>2, <2>3
<1> QED
  BY <1>1, <1>2, <1>4, <1>5, <1>6, <1>7, StepCases

LEMMA RemovedInvariant ==
    ASSUME OneRpc
    PROVE  Spec => [](NothingRemoved /\ Filed)
<1>1. Init => NothingRemoved /\ Filed
  BY IdleType DEF Init, NothingRemoved, Filed
<1>2. Shape /\ (NothingRemoved /\ Filed) /\ [Next]_vars => (NothingRemoved /\ Filed)'
  BY StepRemoved, StepFiled
<1> QED
  BY <1>1, <1>2, ShapeInvariant, PTL DEF Spec

\* A Set that finds no inner map for the namespace of its pod makes one and loses nothing.
LEMMA MakesEmpty ==
    ASSUME Shape, NothingRemoved, Filed, NEW h \in Rpcs, SetMakeNs(h)
    PROVE  podMap' = podMap
<1>1. NsOf[Pod(h)] \notin nsMaps
  BY DEF SetMakeNs, NothingRemoved
<1>2. podMap \in [Pods -> Infos \cup {Nil}]
  BY DEF Shape, TypeOK
<1>3. \A p \in Pods : podMap[p] = IF NsOf[p] = NsOf[Pod(h)] THEN Nil ELSE podMap[p]
  BY <1>1 DEF Filed
<1> QED
  BY <1>2, <1>3 DEF SetMakeNs

\* With one RPC at a time the inner map that a Set writes to is there and so is the
\* experiment that a Cancel reads.
LEMMA SerialCallsDoNotPanic ==
    ASSUME OneRpc
    PROVE  Spec => []NoNilPanic
<1>1. NothingRemoved => NoNilPanic
  BY DEF NothingRemoved, NoNilPanic, AtNilPanic
<1> QED
  BY <1>1, RemovedInvariant, PTL

-----------------------------------------------------------------------------
(* One RPC at a time: the rule maps agree                                  *)

DropLabels == {"setDropPod", "setDropIP", "cancelDropPod", "cancelDropIP"}
MovingLabels == {"assign", "dropIP", "storeIP"}

\* A pod that has had two addresses.
Moved(p) == \E a, b \in Addr : a # b /\ <<a, p>> \in owned /\ <<b, p>> \in owned

\* While setup runs, the PodInfos are those of the chaos lines.
InitHeap == phase = "init" => \A i \in Infos : heap[i] # Nil => podMap[PodOf(i)] = i

\* The address in a PodInfo is one its pod had.
HeapOwn ==
    \A i \in Infos : heap[i] # Nil /\ PodOf(i) \notin initTodo => <<heap[i].ip, PodOf(i)>> \in owned

\* A handler that removes an old rule of a pod holds a rule of that pod.
OldOwn ==
    \A h \in Rpcs : rpc[h].pc \in DropLabels => rpc[h].old # Nil /\ PodOf(rpc[h].old) = Pod(h)

\* A query refreshes the rules of pods that moved only.
RefreshMoved ==
    \A h \in Dnss : dns[h].pc \in MovingLabels => Moved(PodOf(dns[h].info))

\* These hold for any number of RPCs.
RuleHistory == InitHeap /\ HeapOwn /\ OldOwn /\ RefreshMoved

\* A step after set-up, or one that makes no PodInfo.
LEMMA HistoryFrame ==
    ASSUME Shape, RuleHistory, owned \subseteq owned', initTodo' = initTodo,
           phase' = "init" => phase = "init" /\ podMap' = podMap,
           \A i \in Infos :
               \/ heap'[i] = heap[i]
               \/ /\ phase' = "init" => heap[i] # Nil
                  /\ <<heap'[i].ip, PodOf(i)>> \in owned',
           \A h \in Rpcs : rpc'[h].pc \in DropLabels =>
               \/ rpc'[h].old # Nil /\ PodOf(rpc'[h].old) = Pod(h)'
               \/ rpc[h].pc \in DropLabels /\ rpc'[h].old = rpc[h].old /\ Pod(h)' = Pod(h),
           \A h \in Dnss : dns'[h].pc \in MovingLabels =>
               /\ dns'[h].info = dns[h].info
               /\ dns[h].pc \in MovingLabels \/ Moved(PodOf(dns[h].info))
    PROVE  RuleHistory'
<1>1. InitHeap'
  BY DEF RuleHistory, InitHeap
<1>2. HeapOwn'
  BY DEF RuleHistory, HeapOwn
<1>3. OldOwn'
  BY DEF RuleHistory, OldOwn
<1>4. RefreshMoved'
  <2>1. ASSUME NEW h \in Dnss, dns'[h].pc \in MovingLabels PROVE Moved(PodOf(dns[h].info))'
    <3>1. Moved(PodOf(dns[h].info)) /\ dns'[h].info = dns[h].info
      BY <2>1 DEF RuleHistory, RefreshMoved
    <3> QED
      BY <3>1 DEF Moved, PodOf
  <2> QED
    BY <2>1 DEF RefreshMoved
<1> QED
  BY <1>1, <1>2, <1>3, <1>4 DEF RuleHistory

\* A PodInfo that SetStorePod makes has the address that was fetched for its pod.
LEMMA SetHistory ==
    ASSUME Shape, Provenance, RuleHistory, NEW h \in Rpcs, SetStep(h)
    PROVE  RuleHistory'
<1>1. phase \in {"grpc", "up"}
  <2>1. rpc[h].pc # "idle"
    BY DEF SetStep, SetRecord, SetGetPod, SetGetPodFails, SetCheckNs, SetMakeNs,
       SetFindOld, SetDropPod, SetDropIP, SetStorePod, SetStoreIP
  <2> QED
    BY <2>1, InFlightFacts
<1>2. /\ \A g \in Rpcs \ {h} : rpc'[g] = rpc[g] /\ Pod(g)' = Pod(g)
      /\ UNCHANGED <<phase, initTodo, dns, owned>>
  BY RpcFrame
<1>3. ASSUME NEW i \in Infos PROVE heap'[i] = heap[i] \/ <<heap'[i].ip, PodOf(i)>> \in owned'
  <2>1. CASE SetStorePod(h)
    <3>1. InLoop(h) /\ rpc[h].pc = "setStorePod" /\ rpc[h].pc # "idle"
      BY <2>1 DEF SetStorePod, InLoop, LoopLabels
    <3>2. Info(h) \in Infos /\ <<rpc[h].ip, Pod(h)>> \in owned
      BY <3>1, InFlightFacts DEF Provenance, FetchedOwn, StoreLabels
    <3>3. heap' = [heap EXCEPT ![Info(h)] = NewInfo(h)] /\ heap \in [Infos -> PodInfos \cup {Nil}]
      BY <2>1 DEF SetStorePod, Shape, TypeOK
    <3>4. NewInfo(h).ip = rpc[h].ip /\ PodOf(Info(h)) = Pod(h)
      BY DEF NewInfo, PodOf, Info
    <3> QED
      BY <1>2, <3>2, <3>3, <3>4
  <2>2. CASE ~SetStorePod(h)
    BY <2>2 DEF SetStep, SetRecord, SetGetPod, SetGetPodFails, SetCheckNs, SetMakeNs, SetFindOld,
       SetDropPod, SetDropIP, SetStoreIP, rules
  <2> QED
    BY <2>1, <2>2
<1>4. rpc'[h].pc \in DropLabels =>
        \/ rpc'[h].old # Nil /\ PodOf(rpc'[h].old) = Pod(h)'
        \/ rpc[h].pc \in DropLabels /\ rpc'[h].old = rpc[h].old /\ Pod(h)' = Pod(h)
  <2>1. CASE SetFindOld(h)
    <3>1. InLoop(h) /\ rpc[h].pc # "idle"
      BY <2>1 DEF SetFindOld, InLoop, LoopLabels
    <3>2. Pod(h) \in Pods
      BY <3>1, InFlightFacts
    <3> QED
      BY <2>1, <3>2, SetFacts DEF DropLabels, SamePod, Provenance, MapsOwn
  <2>2. CASE SetDropPod(h)
    BY <2>2, SetFacts DEF SamePod, SetDropPod, DropLabels
  <2>3. CASE ~SetFindOld(h) /\ ~SetDropPod(h)
    BY <2>3, SetFacts, IdleType DEF SetStep, DropLabels
  <2> QED
    BY <2>1, <2>2, <2>3
<1> QED
  BY <1>1, <1>2, <1>3, <1>4, HistoryFrame DEF OldOwn, RuleHistory

LEMMA CancelHistory ==
    ASSUME Shape, Provenance, RuleHistory, NEW h \in Rpcs, CancelStep(h)
    PROVE  RuleHistory'
<1>1. phase \in {"grpc", "up"}
  <2>1. rpc[h].pc # "idle"
    BY DEF CancelStep, CancelCheck, CancelLoad, CancelFind, CancelDropPod, CancelDropIP,
       CancelScan, CancelPrune, CancelForget
  <2> QED
    BY <2>1, InFlightFacts
<1>2. /\ \A g \in Rpcs \ {h} : rpc'[g] = rpc[g] /\ Pod(g)' = Pod(g)
      /\ UNCHANGED <<phase, initTodo, dns, owned>>
  BY RpcFrame
<1>3. heap' = heap
  BY DEF CancelStep, CancelCheck, CancelLoad, CancelFind, CancelDropPod, CancelDropIP,
     CancelScan, CancelPrune, CancelForget, rules
<1>4. rpc'[h].pc \in DropLabels =>
        \/ rpc'[h].old # Nil /\ PodOf(rpc'[h].old) = Pod(h)'
        \/ rpc[h].pc \in DropLabels /\ rpc'[h].old = rpc[h].old /\ Pod(h)' = Pod(h)
  <2>1. CASE CancelFind(h)
    <3>1. InLoop(h) /\ rpc[h].pc # "idle"
      BY <2>1 DEF CancelFind, InLoop, LoopLabels
    <3>2. Pod(h) \in Pods
      BY <3>1, InFlightFacts
    <3> QED
      BY <2>1, <3>2, CancelFacts DEF DropLabels, SamePod, Provenance, MapsOwn
  <2>2. CASE CancelDropPod(h)
    BY <2>2, CancelFacts DEF SamePod, CancelDropPod, DropLabels
  <2>3. CASE ~CancelFind(h) /\ ~CancelDropPod(h)
    BY <2>3, CancelFacts, IdleType DEF CancelStep, DropLabels
  <2> QED
    BY <2>1, <2>2, <2>3
<1> QED
  BY <1>1, <1>2, <1>3, <1>4, HistoryFrame DEF OldOwn, RuleHistory

LEMMA DnsHistory ==
    ASSUME Shape, Provenance, RuleHistory, NEW h \in Dnss, DnsStep(h)
    PROVE  RuleHistory'
<1>1. /\ UNCHANGED <<podMap, phase, initTodo, rpc, owned>>
      /\ \A g \in Dnss \ {h} : dns'[g] = dns[g]
  BY DnsFrame
<1>2. dns \in [Dnss -> DnsLocals] /\ dns[h] \in DnsLocals
  BY DEF Shape, TypeOK
<1>3. ASSUME NEW i \in Infos
      PROVE  \/ heap'[i] = heap[i]
             \/ heap[i] # Nil /\ <<heap'[i].ip, PodOf(i)>> \in owned'
  <2>1. CASE UNCHANGED heap
    BY <2>1
  <2>2. CASE ~UNCHANGED heap
    <3>1. /\ Assign(h) /\ dns[h].info \in Infos /\ heap[dns[h].info] # Nil
          /\ dns[h].ip \in Addr /\ now \in 0 .. MaxTime
          /\ heap' = [heap EXCEPT ![dns[h].info].ip = dns[h].ip, ![dns[h].info].stamp = now]
      BY <2>2, DnsFrame
    <3>2. /\ \A j \in Infos \ {dns[h].info} : heap'[j] = heap[j]
          /\ heap'[dns[h].info].ip = dns[h].ip
      BY <3>1, InPlaceFacts
    <3>3. <<dns[h].ip, PodOf(dns[h].info)>> \in owned
      BY <3>1 DEF Assign, Provenance, FetchedOwn
    <3>4. CASE i = dns[h].info
      <4>1. heap[i] # Nil
        BY <3>1, <3>4
      <4>2. <<heap'[i].ip, PodOf(i)>> \in owned
        BY <3>2, <3>3, <3>4
      <4> QED
        BY <1>1, <4>1, <4>2
    <3>5. CASE i # dns[h].info
      BY <3>2, <3>5
    <3> QED
      BY <3>4, <3>5
  <2> QED
    BY <2>1, <2>2
<1>4. dns'[h].pc \in MovingLabels =>
        /\ dns'[h].info = dns[h].info
        /\ dns[h].pc \in MovingLabels \/ Moved(PodOf(dns[h].info))
  <2>1. CASE Compare(h)
    <3>1. /\ dns'[h].info = dns[h].info
          /\ dns'[h].pc = IF dns[h].ip # heap[dns[h].info].ip THEN "assign" ELSE "judge"
      <4> DEFINE l == IF dns[h].ip # heap[dns[h].info].ip THEN "assign" ELSE "judge"
      <4>1. dns' = [dns EXCEPT ![h].pc = l]
        BY <2>1 DEF Compare
      <4> HIDE DEF l
      <4>2. dns'[h].info = dns[h].info /\ dns'[h].pc = l
        BY <1>2, <4>1 DEF DnsLocals
      <4> QED
        BY <4>2 DEF l
    <3>2. dns[h].pc = "compare" /\ dns[h].info \in Infos /\ heap[dns[h].info] \in PodInfos
      <4>1. dns[h].pc = "compare" /\ dns[h].info \in Infos /\ heap[dns[h].info] # Nil
        BY <1>2, <2>1 DEF Compare, Shape, Locals, Pointers, RefreshLabels, DnsLocals
      <4> QED
        BY <4>1 DEF Shape, TypeOK
    <3>3. initTodo = {}
      BY <3>2, IdleType DEF Shape, Lifecycle
    <3>4. /\ <<dns[h].ip, PodOf(dns[h].info)>> \in owned
          /\ <<heap[dns[h].info].ip, PodOf(dns[h].info)>> \in owned
      BY <3>2, <3>3, NamesAssumption DEF Provenance, FetchedOwn, RuleHistory, HeapOwn
    <3>5. dns[h].ip \in Addr /\ heap[dns[h].info].ip \in Addr
      BY <1>2, <3>2 DEF DnsLocals, PodInfos
    <3>6. dns[h].ip # heap[dns[h].info].ip => Moved(PodOf(dns[h].info))
      BY <3>4, <3>5 DEF Moved
    <3> QED
      BY <3>1, <3>6 DEF MovingLabels
  <2>2. CASE Assign(h) \/ DropIP(h) \/ StoreIP(h)
    BY <1>2, <2>2 DEF Assign, DropIP, StoreIP, MovingLabels, DnsLocals
  <2>3. CASE Lookup(h) \/ Fetch(h) \/ FetchFails(h) \/ Judge(h)
    <3>1. dns'[h].pc \in {"fetch", "judge", "compare", "replied"}
      <4>1. CASE Lookup(h)
        <5> DEFINE i == ipPodMap[dns[h].src]
                   l == IF i # Nil /\ IsOverdue(i) THEN "fetch" ELSE "judge"
        <5>1. dns' = [dns EXCEPT ![h].info = i, ![h].pc = l]
          BY <4>1 DEF Lookup
        <5> HIDE DEF i, l
        <5>2. dns'[h].pc = l
          BY <1>2, <5>1 DEF DnsLocals
        <5> QED
          BY <5>2 DEF l
      <4>2. CASE Fetch(h)
        BY <1>2, <4>2 DEF Fetch, DnsLocals
      <4>3. CASE FetchFails(h)
        BY <1>2, <4>3 DEF FetchFails, DnsLocals
      <4>4. CASE Judge(h)
        <5> DEFINE v == Verdict(IF dns[h].info = Nil THEN Nil ELSE heap[dns[h].info],
                                dns[h].qname, dns[h].qtype)
        <5>1. dns' = [dns EXCEPT ![h] = [Quiet EXCEPT !.pc = "replied", !.by = dns[h].by,
                                                      !.info = dns[h].info, !.reply = v]]
          BY <4>4 DEF Judge
        <5> HIDE DEF v
        <5> QED
          BY <1>2, <5>1 DEF Quiet
      <4> QED
        BY <2>3, <4>1, <4>2, <4>3, <4>4
    <3> QED
      BY <3>1 DEF MovingLabels
  <2> QED
    BY <2>1, <2>2, <2>3 DEF DnsStep
<1> QED
  BY <1>1, <1>3, <1>4, HistoryFrame DEF Pod

LEMMA SetupHistory ==
    ASSUME Shape, Provenance, RuleHistory, Crash \/ Boot \/ \E p \in Pods : InitPod(p)
    PROVE  RuleHistory'
<1>1. /\ \A h \in Rpcs : rpc'[h].pc = "idle"
      /\ \A h \in Dnss : dns'[h].pc = "idle"
  BY IdleType DEF Crash, Boot, InitPod, Shape, Lifecycle
<1>2. OldOwn' /\ RefreshMoved'
  BY <1>1 DEF OldOwn, RefreshMoved, DropLabels, MovingLabels
<1>3. CASE Crash
  BY <1>2, <1>3 DEF Crash, RuleHistory, InitHeap, HeapOwn
<1>4. CASE Boot
  <2>1. \A i \in Infos : heap'[i] # Nil => i[1] = 0 /\ PodOf(i) \in CorefilePods
    BY <1>4 DEF Boot
  <2>2. \A i \in Infos : heap'[i] # Nil => podMap'[PodOf(i)] = i
    <3>1. \A i \in Infos : i = <<i[1], i[2]>> /\ i[2] \in Pods
      BY DEF Infos
    <3> QED
      BY <1>4, <2>1, <3>1 DEF Boot, PodOf
  <2> QED
    BY <1>2, <1>4, <2>1, <2>2 DEF Boot, RuleHistory, InitHeap, HeapOwn
<1>5. ASSUME NEW p \in Pods, InitPod(p) PROVE InitHeap' /\ HeapOwn'
  <2>1. /\ podMap[p] \in Infos /\ heap[podMap[p]] # Nil
        /\ cluster[p] \in Addr /\ now \in 0 .. MaxTime
        /\ heap' = [heap EXCEPT ![podMap[p]].ip = cluster[p], ![podMap[p]].stamp = now]
    BY <1>5, InitPodFacts
  <2>2. /\ \A j \in Infos \ {podMap[p]} : heap'[j] = heap[j]
        /\ heap'[podMap[p]] # Nil /\ heap'[podMap[p]].ip = cluster[p]
    BY <2>1, InPlaceFacts
  <2>3. PodOf(podMap[p]) = p /\ <<cluster[p], p>> \in owned
    <3>1. podMap[p] # Nil /\ cluster[p] # Absent
      BY <2>1, NamesAssumption
    <3> QED
      BY <3>1 DEF Provenance, MapsOwn
  <2>4. UNCHANGED <<podMap, phase, owned>> /\ initTodo' = initTodo \ {p} /\ phase = "init"
    BY <1>5 DEF InitPod, env
  <2>5. \A i \in Infos : heap'[i] # Nil => podMap[PodOf(i)] = i
    BY <2>1, <2>2, <2>3, <2>4 DEF RuleHistory, InitHeap
  <2>6. ASSUME NEW i \in Infos, heap'[i] # Nil, PodOf(i) \notin initTodo'
        PROVE  <<heap'[i].ip, PodOf(i)>> \in owned'
    <3>1. CASE PodOf(i) = p
      BY <2>2, <2>3, <2>4, <2>5, <2>6, <3>1
    <3>2. CASE PodOf(i) # p
      BY <2>2, <2>3, <2>4, <2>6, <3>2 DEF RuleHistory, HeapOwn
    <3> QED
      BY <3>1, <3>2
  <2> QED
    BY <2>4, <2>5, <2>6 DEF InitHeap, HeapOwn
<1> QED
  BY <1>2, <1>3, <1>4, <1>5 DEF RuleHistory

LEMMA StepHistory ==
    ASSUME Shape, Provenance, RuleHistory, [Next]_vars
    PROVE  RuleHistory'
<1>1. CASE \/ UNCHANGED vars \/ CreateGRPCServer \/ OnStartup \/ Tick
  BY <1>1, HistoryFrame DEF vars, rules, server, env, CreateGRPCServer, OnStartup, Tick, Pod
<1>2. ASSUME NEW p \in Pods, PodChanges(p) PROVE RuleHistory'
  <2>1. UNCHANGED <<rules, server, rpc, dns>> /\ owned \subseteq owned'
    BY <1>2 DEF PodChanges
  <2> QED
    BY <2>1, HistoryFrame DEF rules, server, Pod
<1>3. ASSUME NEW h \in Rpcs,
             \/ \E r \in Requests : SetDNSChaos(h, r)
             \/ \E c \in ChaosNames : CancelDNSChaos(h, c)
      PROVE  RuleHistory'
  <2>1. /\ rpc'[h].pc \in {"setRecord", "cancelCheck"} /\ \A g \in Rpcs \ {h} : rpc'[g] = rpc[g]
        /\ UNCHANGED <<rules, phase, initTodo, dns, env>>
    BY <1>3, EntryFacts
  <2>2. rpc'[h].pc \notin DropLabels
    BY <2>1 DEF DropLabels
  <2> QED
    BY <2>1, <2>2, HistoryFrame DEF rules, env, Pod
<1>4. ASSUME NEW h \in Dnss, NEW p \in Pods, NEW qname \in QNames, NEW qtype \in QTypes,
             Query(h, p, qname, qtype)
      PROVE  RuleHistory'
  <2>1. /\ dns'[h].pc = "lookup" /\ \A g \in Dnss \ {h} : dns'[g] = dns[g]
        /\ UNCHANGED <<rules, server, rpc, env>>
    BY <1>4 DEF Query, Shape, TypeOK, Quiet
  <2> QED
    BY <2>1, HistoryFrame DEF rules, server, env, Pod, MovingLabels
<1> QED
  BY <1>1, <1>2, <1>3, <1>4, SetupHistory, SetHistory, CancelHistory, DnsHistory, StepCases

LEMMA HistoryInvariant == Spec => []RuleHistory
<1>1. Init => RuleHistory
  BY IdleType DEF Init, RuleHistory, InitHeap, HeapOwn, OldOwn, RefreshMoved, DropLabels,
     MovingLabels
<1>2. Shape /\ Provenance /\ RuleHistory /\ [Next]_vars => RuleHistory'
  BY StepHistory
<1> QED
  BY <1>1, <1>2, ShapeInvariant, ProvenanceInvariant, PTL DEF Spec

\* The pod p has had the one address a, and no other pod has had it.
Sole(p, a) == <<a, p>> \in owned /\ \A o \in owned : o[2] = p <=> o[1] = a

BetweenLabels == {"setDropIP", "cancelDropIP", "setStoreIP"}

\* A handler has changed podMap for the pod p and is about to change ipPodMap.
Between(p) == \E h \in Rpcs : rpc[h].pc \in BetweenLabels /\ Pod(h) = p

\* What a handler did to podMap is still so, and what it is about to prune is empty.
MidCall ==
    \A h \in Rpcs :
        /\ rpc[h].pc \in {"setDropIP", "cancelDropIP"} => podMap[Pod(h)] = Nil
        /\ rpc[h].pc = "setStoreIP" => podMap[Pod(h)] = Info(h)
        /\ rpc[h].pc = "cancelPrune" =>
               \A p \in Pods : NsOf[p] \in rpc[h].ns => podMap[p] = Nil

\* The two maps agree about a pod with an address of its own, except between the two
\* writes of a handler; a chaos pod that InitKubeCache has not looked up has no entry.
Indexed ==
    \A p \in Pods, a \in Addr : Sole(p, a) =>
        /\ p \in initTodo => ipPodMap[a] = Nil
        /\ p \notin initTodo /\ ~Between(p) => ipPodMap[a] = podMap[p]

LEMMA SoleFacts ==
    ASSUME NEW p \in Pods, NEW a \in Addr, Sole(p, a), NEW q \in Pods, NEW b \in Addr,
           <<b, q>> \in owned
    PROVE  q = p <=> b = a
<1>1. <<b, q>>[2] = p <=> <<b, q>>[1] = a
  BY DEF Sole
<1> QED
  BY <1>1

\* A step of the one handler, which is at the pod q.
LEMMA IndexRpc ==
    ASSUME Shape, Indexed, NEW q \in Pods, initTodo' = {}, initTodo = {}, owned' = owned,
           \A p \in Pods \ {q} : podMap'[p] = podMap[p],
           \A p \in Pods \ {q}, a \in Addr : Sole(p, a) => ipPodMap'[a] = ipPodMap[a],
           \A p \in Pods \ {q} : ~Between(p),
           \/ \E h \in Rpcs : rpc'[h].pc \in BetweenLabels /\ Pod(h)' = q
           \/ \A a \in Addr : Sole(q, a) => ipPodMap'[a] = podMap'[q]
    PROVE  Indexed'
<1> SUFFICES ASSUME NEW p \in Pods, NEW a \in Addr, Sole(p, a)', ~Between(p)'
             PROVE  ipPodMap'[a] = podMap'[p]
  BY DEF Indexed
<1>1. Sole(p, a)
  BY DEF Sole
<1>2. CASE p = q
  BY <1>1, <1>2 DEF Between
<1>3. CASE p # q
  BY <1>1, <1>3 DEF Indexed
<1> QED
  BY <1>2, <1>3

\* A step that leaves podMap alone, and ipPodMap at the addresses of settled pods.
LEMMA IndexFrame ==
    ASSUME Shape, Indexed, MidCall, UNCHANGED <<podMap, initTodo, owned, rpc>>,
           \A p \in Pods, a \in Addr : Sole(p, a) => ipPodMap'[a] = ipPodMap[a]
    PROVE  Indexed' /\ MidCall'
  BY DEF Indexed, MidCall, Sole, Between, Pod, Info

\* The one handler h in its loop.
LEMMA LoopFacts ==
    ASSUME OneRpc, Shape, NEW h \in Rpcs, InLoop(h)
    PROVE  /\ Pod(h) \in Pods /\ initTodo = {} /\ phase \in {"grpc", "up"}
           /\ \A g \in Rpcs : g = h
           /\ \A p \in Pods \ {Pod(h)} : ~Between(p)
           /\ Between(Pod(h)) <=> rpc[h].pc \in BetweenLabels
<1>1. rpc[h].pc # "idle"
  BY DEF InLoop, LoopLabels
<1>2. Pod(h) \in Pods /\ phase \in {"grpc", "up"}
  BY <1>1, InFlightFacts
<1>3. initTodo = {}
  BY <1>2 DEF Shape, Lifecycle
<1>4. \A g \in Rpcs : g = h
  BY DEF OneRpc
<1> QED
  BY <1>2, <1>3, <1>4 DEF Between

\* Both handlers take an address out of ipPodMap that was the old one of their pod.
LEMMA DropsOwn ==
    ASSUME Shape, Provenance, RuleHistory, OneRpc, NEW h \in Rpcs,
           rpc[h].pc \in {"setDropIP", "cancelDropIP"}
    PROVE  heap[rpc[h].old].ip \in Addr /\ <<heap[rpc[h].old].ip, Pod(h)>> \in owned
<1>1. rpc[h].old \in Infos /\ PodOf(rpc[h].old) = Pod(h) /\ heap[rpc[h].old] # Nil
  BY DEF RuleHistory, OldOwn, DropLabels, Shape, TypeOK, RpcLocals, Pointers
<1>2. initTodo = {}
  BY LoopFacts DEF InLoop, LoopLabels
<1>3. heap[rpc[h].old] \in PodInfos
  BY <1>1 DEF Shape, TypeOK
<1> QED
  BY <1>1, <1>2, <1>3 DEF RuleHistory, HeapOwn, PodInfos

LEMMA SetIndex ==
    ASSUME OneRpc, Shape, Provenance, RuleHistory, NothingRemoved, Filed, MidCall, Indexed,
           NEW h \in Rpcs, SetStep(h)
    PROVE  Indexed' /\ MidCall'
<1>1. UNCHANGED <<initTodo, owned>> /\ \A g \in Rpcs : g = h
  BY RpcFrame DEF OneRpc
<1>2. CASE SetRecord(h) \/ SetGetPodFails(h)
  <2>1. UNCHANGED <<podMap, ipPodMap>>
    BY <1>2 DEF SetRecord, SetGetPodFails, rules
  <2>2. rpc[h].pc \in {"setRecord", "setGetPod"} /\ rpc'[h].pc \in {"idle", "setGetPod"}
    BY <1>2, SetFacts, IdleType DEF SetRecord, SetGetPodFails
  <2>3. \A p \in Pods : ~Between(p)
    BY <1>1, <2>2 DEF Between, BetweenLabels
  <2>4. Indexed'
    BY <1>1, <2>1, <2>3 DEF Indexed, Sole
  <2>5. MidCall'
    BY <1>1, <2>2 DEF MidCall
  <2> QED
    BY <2>4, <2>5
<1>3. CASE SetGetPod(h) \/ SetCheckNs(h) \/ SetMakeNs(h) \/ SetFindOld(h)
  <2>1. UNCHANGED <<podMap, ipPodMap>>
    BY <1>3, MakesEmpty DEF SetGetPod, SetCheckNs, SetMakeNs, SetFindOld, rules
  <2>2. /\ rpc[h].pc \in {"setGetPod", "setCheckNs", "setMakeNs", "setFindOld"}
        /\ rpc'[h].pc \in {"setCheckNs", "setMakeNs", "setFindOld", "setStorePod", "setDropPod"}
    BY <1>3, SetFacts DEF SetGetPod, SetCheckNs, SetMakeNs, SetFindOld
  <2>3. \A p \in Pods : ~Between(p)
    BY <1>1, <2>2 DEF Between, BetweenLabels
  <2>4. Indexed'
    BY <1>1, <2>1, <2>3 DEF Indexed, Sole
  <2>5. MidCall'
    BY <1>1, <2>2 DEF MidCall
  <2> QED
    BY <2>4, <2>5
<1>4. CASE SetDropPod(h)
  <2>1. /\ rpc[h].pc = "setDropPod" /\ podMap' = [podMap EXCEPT ![Pod(h)] = Nil]
        /\ podMap \in [Pods -> Infos \cup {Nil}] /\ ipPodMap' = ipPodMap /\ InLoop(h)
    BY <1>4 DEF SetDropPod, Shape, TypeOK, InLoop, LoopLabels
  <2>2. rpc'[h].pc = "setDropIP" /\ Pod(h)' = Pod(h)
    BY <1>4, SetFacts DEF SamePod
  <2>3. rpc'[h].pc \in BetweenLabels /\ Pod(h)' = Pod(h)
    BY <2>2 DEF BetweenLabels
  <2>4. MidCall'
    BY <1>1, <2>1, <2>2, LoopFacts DEF MidCall
  <2>5. /\ Pod(h) \in Pods /\ initTodo = {}
        /\ \A p \in Pods \ {Pod(h)} : ~Between(p) /\ podMap'[p] = podMap[p]
        /\ \A a \in Addr : ipPodMap'[a] = ipPodMap[a]
    BY <2>1, LoopFacts
  <2>6. Indexed'
    BY <1>1, <2>3, <2>5, IndexRpc
  <2> QED
    BY <2>4, <2>6
<1>5. CASE SetDropIP(h)
  <2>1. /\ rpc[h].pc = "setDropIP" /\ podMap' = podMap /\ InLoop(h)
        /\ ipPodMap' = [ipPodMap EXCEPT ![heap[rpc[h].old].ip] = Nil]
        /\ ipPodMap \in [Addr -> Infos \cup {Nil}]
    BY <1>5 DEF SetDropIP, Shape, TypeOK, InLoop, LoopLabels
  <2>2. heap[rpc[h].old].ip \in Addr /\ <<heap[rpc[h].old].ip, Pod(h)>> \in owned
    BY <2>1, DropsOwn
  <2>3. \A p \in Pods \ {Pod(h)}, a \in Addr : Sole(p, a) => ipPodMap'[a] = ipPodMap[a]
    BY <2>1, <2>2, LoopFacts, SoleFacts
  <2>4. \A a \in Addr : Sole(Pod(h), a) => ipPodMap'[a] = Nil
    BY <2>1, <2>2, LoopFacts, SoleFacts
  <2>5. podMap'[Pod(h)] = Nil
    BY <2>1 DEF MidCall
  <2>6. MidCall'
    <3>1. rpc'[h].pc = "setStorePod"
      BY <1>5, SetFacts
    <3> QED
      BY <1>1, <3>1 DEF MidCall
  <2> QED
    BY <1>1, <2>1, <2>3, <2>4, <2>5, <2>6, LoopFacts, IndexRpc
<1>6. CASE SetStorePod(h)
  <2>1. /\ rpc[h].pc = "setStorePod" /\ podMap' = [podMap EXCEPT ![Pod(h)] = Info(h)]
        /\ podMap \in [Pods -> Infos \cup {Nil}] /\ ipPodMap' = ipPodMap /\ InLoop(h)
    BY <1>6 DEF SetStorePod, Shape, TypeOK, InLoop, LoopLabels
  <2>2. rpc'[h].pc = "setStoreIP" /\ Pod(h)' = Pod(h) /\ Info(h)' = Info(h)
    BY <1>6, SetFacts DEF SamePod
  <2>3. rpc'[h].pc \in BetweenLabels /\ Pod(h)' = Pod(h)
    BY <2>2 DEF BetweenLabels
  <2>4. MidCall'
    BY <1>1, <2>1, <2>2, LoopFacts DEF MidCall
  <2>5. /\ Pod(h) \in Pods /\ initTodo = {}
        /\ \A p \in Pods \ {Pod(h)} : ~Between(p) /\ podMap'[p] = podMap[p]
        /\ \A a \in Addr : ipPodMap'[a] = ipPodMap[a]
    BY <2>1, LoopFacts
  <2>6. Indexed'
    BY <1>1, <2>3, <2>5, IndexRpc
  <2> QED
    BY <2>4, <2>6
<1>7. CASE SetStoreIP(h)
  <2>1. /\ rpc[h].pc = "setStoreIP" /\ podMap' = podMap /\ InLoop(h)
        /\ ipPodMap' = [ipPodMap EXCEPT ![rpc[h].ip] = Info(h)]
        /\ ipPodMap \in [Addr -> Infos \cup {Nil}]
    BY <1>7 DEF SetStoreIP, Shape, TypeOK, InLoop, LoopLabels
  <2>2. rpc[h].ip \in Addr /\ <<rpc[h].ip, Pod(h)>> \in owned
    BY <2>1 DEF Provenance, FetchedOwn, StoreLabels, Shape, TypeOK, RpcLocals
  <2>3. \A p \in Pods \ {Pod(h)}, a \in Addr : Sole(p, a) => ipPodMap'[a] = ipPodMap[a]
    BY <2>1, <2>2, LoopFacts, SoleFacts
  <2>4. \A a \in Addr : Sole(Pod(h), a) => ipPodMap'[a] = Info(h)
    BY <2>1, <2>2, LoopFacts, SoleFacts
  <2>5. podMap'[Pod(h)] = Info(h)
    BY <2>1 DEF MidCall
  <2>6. MidCall'
    <3>1. rpc'[h].pc \in {"idle", "setGetPod"}
      BY <1>7, SetFacts, IdleType
    <3> QED
      BY <1>1, <3>1 DEF MidCall
  <2> QED
    BY <1>1, <2>1, <2>3, <2>4, <2>5, <2>6, LoopFacts, IndexRpc
<1> QED
  BY <1>2, <1>3, <1>4, <1>5, <1>6, <1>7 DEF SetStep

LEMMA CancelIndex ==
    ASSUME OneRpc, Shape, Provenance, RuleHistory, MidCall, Indexed, NEW h \in Rpcs,
           CancelStep(h)
    PROVE  Indexed' /\ MidCall'
<1>1. UNCHANGED <<initTodo, owned>> /\ \A g \in Rpcs : g = h
  BY RpcFrame DEF OneRpc
<1>2. CASE CancelCheck(h) \/ CancelLoad(h) \/ CancelFind(h) \/ CancelForget(h)
  <2>1. UNCHANGED <<podMap, ipPodMap>>
    BY <1>2 DEF CancelCheck, CancelLoad, CancelFind, CancelForget, rules
  <2>2. /\ rpc[h].pc \in {"cancelCheck", "cancelLoad", "cancelFind", "cancelPrune"}
        /\ rpc'[h].pc \in {"idle", "cancelLoad", "cancelFind", "cancelDropPod", "cancelScan"}
    <3>1. rpc[h].pc \in {"cancelCheck", "cancelLoad", "cancelFind", "cancelPrune"}
      BY <1>2 DEF CancelCheck, CancelLoad, CancelFind, CancelForget
    <3> QED
      BY <1>2, <3>1, CancelFacts, IdleType
  <2>3. \A p \in Pods : ~Between(p)
    BY <1>1, <2>2 DEF Between, BetweenLabels
  <2>4. Indexed'
    BY <1>1, <2>1, <2>3 DEF Indexed, Sole
  <2>5. MidCall'
    BY <1>1, <2>2 DEF MidCall
  <2> QED
    BY <2>4, <2>5
<1>3. CASE CancelDropPod(h)
  <2>1. /\ rpc[h].pc = "cancelDropPod" /\ podMap' = [podMap EXCEPT ![Pod(h)] = Nil]
        /\ podMap \in [Pods -> Infos \cup {Nil}] /\ ipPodMap' = ipPodMap /\ InLoop(h)
    BY <1>3 DEF CancelDropPod, Shape, TypeOK, InLoop, LoopLabels
  <2>2. rpc'[h].pc = "cancelDropIP" /\ Pod(h)' = Pod(h)
    BY <1>3, CancelFacts DEF SamePod
  <2>3. rpc'[h].pc \in BetweenLabels /\ Pod(h)' = Pod(h)
    BY <2>2 DEF BetweenLabels
  <2>4. MidCall'
    BY <1>1, <2>1, <2>2, LoopFacts DEF MidCall
  <2>5. /\ Pod(h) \in Pods /\ initTodo = {}
        /\ \A p \in Pods \ {Pod(h)} : ~Between(p) /\ podMap'[p] = podMap[p]
        /\ \A a \in Addr : ipPodMap'[a] = ipPodMap[a]
    BY <2>1, LoopFacts
  <2>6. Indexed'
    BY <1>1, <2>3, <2>5, IndexRpc
  <2> QED
    BY <2>4, <2>6
<1>4. CASE CancelDropIP(h)
  <2>1. /\ rpc[h].pc = "cancelDropIP" /\ podMap' = podMap /\ InLoop(h)
        /\ ipPodMap' = [ipPodMap EXCEPT ![heap[rpc[h].old].ip] = Nil]
        /\ ipPodMap \in [Addr -> Infos \cup {Nil}]
    BY <1>4 DEF CancelDropIP, Shape, TypeOK, InLoop, LoopLabels
  <2>2. heap[rpc[h].old].ip \in Addr /\ <<heap[rpc[h].old].ip, Pod(h)>> \in owned
    BY <2>1, DropsOwn
  <2>3. \A p \in Pods \ {Pod(h)}, a \in Addr : Sole(p, a) => ipPodMap'[a] = ipPodMap[a]
    BY <2>1, <2>2, LoopFacts, SoleFacts
  <2>4. \A a \in Addr : Sole(Pod(h), a) => ipPodMap'[a] = Nil
    BY <2>1, <2>2, LoopFacts, SoleFacts
  <2>5. podMap'[Pod(h)] = Nil
    BY <2>1 DEF MidCall
  <2>6. MidCall'
    <3>1. rpc'[h].pc \in {"cancelFind", "cancelScan"}
      BY <1>4, CancelFacts
    <3> QED
      BY <1>1, <3>1 DEF MidCall
  <2> QED
    BY <1>1, <2>1, <2>3, <2>4, <2>5, <2>6, LoopFacts, IndexRpc
<1>5. CASE CancelScan(h) \/ \E n \in Namespaces : CancelPrune(h, n)
  <2>1. rpc[h].pc \in {"cancelScan", "cancelPrune"} /\ rpc'[h].pc = "cancelPrune"
    BY <1>5, CancelFacts DEF CancelScan, CancelPrune
  <2>2. ipPodMap' = ipPodMap
    BY <1>5 DEF CancelScan, CancelPrune, rules
  <2>3. \A p \in Pods : podMap'[p] = podMap[p]
    BY <1>5 DEF CancelScan, CancelPrune, rules, MidCall
  <2>4. \A p \in Pods : NsOf[p] \in rpc'[h].ns => podMap[p] = Nil
    BY <1>5, CancelFacts DEF MidCall, CancelPrune
  <2>5. \A p \in Pods : ~Between(p)
    BY <1>1, <2>1 DEF Between, BetweenLabels
  <2>6. Indexed'
    BY <1>1, <2>2, <2>3, <2>5 DEF Indexed, Sole
  <2>7. MidCall'
    BY <1>1, <2>1, <2>3, <2>4 DEF MidCall
  <2> QED
    BY <2>6, <2>7
<1> QED
  BY <1>2, <1>3, <1>4, <1>5 DEF CancelStep

\* A query changes ipPodMap at addresses of pods that moved only.
LEMMA DnsKeepsSole ==
    ASSUME Shape, Provenance, RuleHistory, NEW h \in Dnss, DnsStep(h),
           NEW p \in Pods, NEW a \in Addr, Sole(p, a)
    PROVE  ipPodMap'[a] = ipPodMap[a]
<1>1. CASE ~DropIP(h) /\ ~StoreIP(h)
  BY <1>1 DEF DnsStep, Lookup, Fetch, FetchFails, Compare, Assign, Judge, rules
<1>2. ASSUME NEW q \in Pods, Moved(q), NEW b \in Addr, <<b, q>> \in owned PROVE a # b
  <2>1. PICK c, d \in Addr : c # d /\ <<c, q>> \in owned /\ <<d, q>> \in owned
    BY <1>2 DEF Moved
  <2> QED
    BY <1>2, <2>1, SoleFacts
<1>3. ASSUME DropIP(h) \/ StoreIP(h)
      PROVE  /\ dns[h].info \in Infos /\ heap[dns[h].info] \in PodInfos
             /\ PodOf(dns[h].info) \in Pods /\ Moved(PodOf(dns[h].info)) /\ dns[h].ip \in Addr
             /\ <<dns[h].ip, PodOf(dns[h].info)>> \in owned
             /\ <<heap[dns[h].info].ip, PodOf(dns[h].info)>> \in owned
  <2>1. dns[h].pc \in {"dropIP", "storeIP"} /\ dns[h] \in DnsLocals
    BY <1>3 DEF DropIP, StoreIP, Shape, TypeOK
  <2>2. dns[h].info # Nil /\ heap[dns[h].info] # Nil
    BY <2>1 DEF Shape, Locals, RefreshLabels, Pointers
  <2>3. /\ dns[h].info \in Infos /\ PodOf(dns[h].info) \in Pods /\ dns[h].ip \in Addr
        /\ heap[dns[h].info] \in PodInfos
    BY <2>1, <2>2 DEF DnsLocals, Infos, PodOf, Shape, TypeOK
  <2>4. initTodo = {}
    BY <2>1, IdleType DEF Shape, Lifecycle
  <2> QED
    BY <2>1, <2>2, <2>3, <2>4 DEF RuleHistory, RefreshMoved, HeapOwn, MovingLabels, Provenance,
       FetchedOwn
<1>4. CASE DropIP(h)
  <2>1. heap[dns[h].info].ip \in Addr /\ a # heap[dns[h].info].ip
    <3>1. heap[dns[h].info].ip \in Addr
      BY <1>3, <1>4 DEF PodInfos
    <3> QED
      BY <1>2, <1>3, <1>4, <3>1
  <2> QED
    BY <1>4, <2>1 DEF DropIP, Shape, TypeOK
<1>5. CASE StoreIP(h)
  <2>1. a # dns[h].ip
    BY <1>2, <1>3, <1>5
  <2> QED
    BY <1>5, <2>1 DEF StoreIP, Shape, TypeOK
<1> QED
  BY <1>1, <1>4, <1>5

LEMMA DnsIndex ==
    ASSUME Shape, Provenance, RuleHistory, MidCall, Indexed, NEW h \in Dnss, DnsStep(h)
    PROVE  Indexed' /\ MidCall'
<1>1. UNCHANGED <<podMap, initTodo, owned, rpc>>
  BY DnsFrame
<1>2. \A p \in Pods, a \in Addr : Sole(p, a) => ipPodMap'[a] = ipPodMap[a]
  BY DnsKeepsSole
<1> QED
  BY <1>1, <1>2, IndexFrame

\* A pod that is seen with its first address has no rule: a rule of a pod has an address.
LEMMA PodChangesIndex ==
    ASSUME Shape, Provenance, RuleHistory, MidCall, Indexed, NEW q \in Pods, PodChanges(q)
    PROVE  Indexed' /\ MidCall'
<1>1. UNCHANGED <<rules, server, rpc, dns>>
  BY DEF PodChanges
<1>2. MidCall'
  BY <1>1 DEF MidCall, rules, Pod, Info
<1>3. PICK b \in Addr \cup {Absent} : owned' = IF b = Absent THEN owned ELSE owned \cup {<<b, q>>}
  BY DEF PodChanges
<1>4. ASSUME NEW p \in Pods, NEW a \in Addr, Sole(p, a)'
      PROVE  /\ p \in initTodo => ipPodMap[a] = Nil
             /\ p \notin initTodo /\ ~Between(p) => ipPodMap[a] = podMap[p]
  <2>1. owned \subseteq owned' /\ \A o \in owned' : o[2] = p <=> o[1] = a
    BY <1>3, <1>4 DEF Sole
  <2>2. CASE <<a, p>> \in owned
    <3>1. Sole(p, a)
      BY <2>1, <2>2 DEF Sole
    <3> QED
      BY <3>1 DEF Indexed
  <2>3. CASE <<a, p>> \notin owned
    <3>1. \A c \in Addr, r \in Pods : <<c, r>> \in owned => r # p /\ c # a
      <4> SUFFICES ASSUME NEW c \in Addr, NEW r \in Pods, <<c, r>> \in owned PROVE r # p /\ c # a
        OBVIOUS
      <4>1. <<c, r>>[2] = p <=> <<c, r>>[1] = a
        BY <2>1
      <4> QED
        BY <2>3, <4>1
    <3>2. ipPodMap[a] = Nil
      <4>1. ipPodMap[a] # Nil => /\ <<a, PodOf(ipPodMap[a])>> \in owned
                                 /\ PodOf(ipPodMap[a]) \in Pods
        BY DEF Provenance, MapsOwn, Shape, TypeOK, Infos, PodOf
      <4> QED
        BY <3>1, <4>1
    <3>3. p \notin initTodo => podMap[p] = Nil
      <4> SUFFICES ASSUME p \notin initTodo, podMap[p] # Nil PROVE FALSE
        OBVIOUS
      <4>1. podMap[p] \in Infos /\ heap[podMap[p]] # Nil /\ PodOf(podMap[p]) = p
        BY DEF Shape, TypeOK, Pointers, Provenance, MapsOwn
      <4>2. <<heap[podMap[p]].ip, p>> \in owned
        BY <4>1 DEF RuleHistory, HeapOwn
      <4>3. heap[podMap[p]].ip \in Addr
        BY <4>1 DEF Shape, TypeOK, PodInfos
      <4> QED
        BY <3>1, <4>2, <4>3
    <3> QED
      BY <3>2, <3>3
  <2> QED
    BY <2>2, <2>3
<1>5. Indexed'
  <2>1. /\ ipPodMap' = ipPodMap /\ podMap' = podMap /\ initTodo' = initTodo
        /\ \A p \in Pods : Between(p)' <=> Between(p)
    BY <1>1 DEF rules, server, Between, Pod
  <2> QED
    BY <1>4, <2>1 DEF Indexed
<1> QED
  BY <1>2, <1>5

LEMMA SetupIndex ==
    ASSUME Shape, Provenance, RuleHistory, MidCall, Indexed,
           Crash \/ Boot \/ \E p \in Pods : InitPod(p)
    PROVE  Indexed' /\ MidCall'
<1>1. \A h \in Rpcs : rpc'[h].pc = "idle"
  BY IdleType DEF Crash, Boot, InitPod, Shape, Lifecycle
<1>2. MidCall'
  BY <1>1 DEF MidCall
<1>3. CASE Crash
  BY <1>2, <1>3 DEF Crash, Indexed
<1>4. CASE Boot
  BY <1>2, <1>4 DEF Boot, Indexed, Shape, Lifecycle
<1>5. ASSUME NEW q \in Pods, InitPod(q) PROVE Indexed'
  <2>1. /\ phase = "init" /\ cluster[q] # Absent /\ cluster[q] \in Addr
        /\ initTodo' = initTodo \ {q} /\ UNCHANGED <<podMap, rpc, owned>>
        /\ ipPodMap' = [ipPodMap EXCEPT ![cluster[q]] = podMap[q]]
        /\ ipPodMap \in [Addr -> Infos \cup {Nil}]
    BY <1>5, NamesAssumption DEF InitPod, env, Shape, TypeOK
  <2>2. <<cluster[q], q>> \in owned
    BY <2>1 DEF Provenance, MapsOwn
  <2>3. \A p \in Pods : ~Between(p)
    BY <2>1, IdleType DEF Shape, Lifecycle, Between, BetweenLabels
  <2>4. ASSUME NEW p \in Pods, NEW a \in Addr, Sole(p, a)'
        PROVE  /\ p \in initTodo' => ipPodMap'[a] = Nil
               /\ p \notin initTodo' => ipPodMap'[a] = podMap'[p]
    <3>1. Sole(p, a)
      BY <2>1, <2>4 DEF Sole
    <3>2. q = p <=> cluster[q] = a
      BY <2>1, <2>2, <3>1, SoleFacts
    <3>3. CASE p = q
      BY <2>1, <3>2, <3>3
    <3>4. CASE p # q
      BY <2>1, <2>3, <3>1, <3>2, <3>4 DEF Indexed
    <3> QED
      BY <3>3, <3>4
  <2> QED
    BY <2>4 DEF Indexed
<1> QED
  BY <1>2, <1>3, <1>4, <1>5

LEMMA StepIndex ==
    ASSUME OneRpc, Shape, Provenance, RuleHistory, NothingRemoved, Filed, MidCall, Indexed,
           [Next]_vars
    PROVE  Indexed' /\ MidCall'
<1>1. CASE \/ UNCHANGED vars \/ CreateGRPCServer \/ OnStartup \/ Tick
           \/ \E h \in Dnss, p \in Pods, qname \in QNames, qtype \in QTypes :
                  Query(h, p, qname, qtype)
  <2>1. UNCHANGED <<podMap, ipPodMap, initTodo, owned, rpc>>
    BY <1>1 DEF vars, rules, server, env, CreateGRPCServer, OnStartup, Tick, Query
  <2> QED
    BY <2>1, IndexFrame
<1>2. ASSUME NEW h \in Rpcs,
             \/ \E r \in Requests : SetDNSChaos(h, r)
             \/ \E c \in ChaosNames : CancelDNSChaos(h, c)
      PROVE  Indexed' /\ MidCall'
  <2>1. /\ rpc'[h].pc \in {"setRecord", "cancelCheck"} /\ rpc[h].pc = "idle"
        /\ UNCHANGED <<rules, initTodo, env>>
    BY <1>2, EntryFacts
  <2>2. \A g \in Rpcs : rpc'[g].pc \in {"setRecord", "cancelCheck"} /\ rpc[g].pc = "idle"
    BY <2>1 DEF OneRpc
  <2>3. MidCall'
    BY <2>2 DEF MidCall
  <2>4. \A p \in Pods : ~Between(p)
    BY <2>2 DEF Between, BetweenLabels
  <2> QED
    BY <2>1, <2>3, <2>4 DEF Indexed, Sole, rules, env
<1> QED
  BY <1>1, <1>2, SetupIndex, SetIndex, CancelIndex, DnsIndex, PodChangesIndex, StepCases

LEMMA IndexInvariant ==
    ASSUME OneRpc
    PROVE  Spec => [](Indexed /\ MidCall)
<1>1. Init => Indexed /\ MidCall
  BY IdleType DEF Init, Indexed, MidCall
<1>2. Shape /\ Provenance /\ RuleHistory /\ (NothingRemoved /\ Filed) /\ (Indexed /\ MidCall)
        /\ [Next]_vars => (Indexed /\ MidCall)'
  BY StepIndex
<1> QED
  BY <1>1, <1>2, ShapeInvariant, ProvenanceInvariant, HistoryInvariant, RemovedInvariant, PTL
     DEF Spec

\* A settled pod has its address to itself.
LEMMA SettledSole ==
    ASSUME Shape, Provenance, NEW p \in Pods, Settled(p)
    PROVE  cluster[p] \in Addr /\ Sole(p, cluster[p])
  BY NamesAssumption DEF Settled, Sole, Provenance, MapsOwn

\* When no call of a controller that waits for its answers is running, the index by address
\* and the index by pod agree about every pod that kept its address: whatever calls failed
\* half way, queries refreshed or restarts lost, a rule is in both maps or in neither
\* (grpc_server.go:86-103, :122-131, chaos.go:145-149, kubernetes.go:281-293).
THEOREM SerialMapsAgree ==
    ASSUME OneRpc
    PROVE  Spec => []SettledPodsIndexed
<1>1. Shape /\ Provenance /\ (Indexed /\ MidCall) => SettledPodsIndexed
  <2> SUFFICES ASSUME Shape, Provenance, Indexed, RpcIdle, phase \in {"grpc", "up"},
                      NEW p \in Pods, Settled(p)
               PROVE  ipPodMap[cluster[p]] = podMap[p]
    BY DEF SettledPodsIndexed
  <2>1. initTodo = {} /\ ~Between(p)
    BY DEF Shape, Lifecycle, RpcIdle, InFlight, Between, BetweenLabels
  <2> QED
    BY <2>1, SettledSole DEF Indexed
<1> QED
  BY <1>1, ShapeInvariant, ProvenanceInvariant, IndexInvariant, PTL

-----------------------------------------------------------------------------
(* One RPC at a time: a pod that is in no experiment is left alone         *)

Lists(r, p) == \E k \in DOMAIN r.pods : r.pods[k] = p

SettingLabels == SetLabels \ {"setRecord"}
CancellingLabels == {"cancelFind", "cancelDropPod", "cancelDropIP", "cancelScan", "cancelPrune"}

\* Has the call of h removed the rule of the j-th pod of its experiment?
Undone(h, j) ==
    \/ rpc[h].pc \in {"cancelScan", "cancelPrune"} \/ j < rpc[h].k
    \/ j = rpc[h].k /\ rpc[h].pc = "cancelDropIP"

\* An experiment is recorded before the first of its rules is made, and as long as one of
\* them may be there.
Recorded ==
    /\ \A c \in ChaosNames : chaosMap[c] # Nil => chaosMap[c].name = c
    /\ \A h \in Rpcs : rpc[h].pc \in SettingLabels => chaosMap[rpc[h].req.name] = rpc[h].req
    /\ \A h \in Rpcs : rpc[h].pc \in CancellingLabels =>
           /\ rpc[h].req # Nil /\ chaosMap[rpc[h].name] = rpc[h].req
           /\ \A j \in DOMAIN rpc[h].req.pods : Undone(h, j) => podMap[rpc[h].req.pods[j]] = Nil

\* A pod with a rule is a pod of the Corefile or of a recorded experiment.
RulesListed ==
    NamesIdentifyPods => \A p \in Pods : podMap[p] # Nil =>
        \/ p \in CorefilePods
        \/ \E c \in ChaosNames : chaosMap[c] # Nil /\ Lists(chaosMap[c], p)

\* A step of the one handler h, if there is one, that leaves chaosMap alone.
LEMMA ListedFrame ==
    ASSUME Shape, Recorded, RulesListed, UNCHANGED chaosMap,
           \A p \in Pods : podMap'[p] # Nil =>
               \/ podMap[p] # Nil \/ p \in CorefilePods
               \/ \E c \in ChaosNames : chaosMap[c] # Nil /\ Lists(chaosMap[c], p),
           \A h \in Rpcs :
               /\ rpc'[h].pc \in SettingLabels =>
                      rpc[h].pc \in SettingLabels /\ rpc'[h].req = rpc[h].req
               /\ rpc'[h].pc \in CancellingLabels =>
                      /\ rpc'[h].req # Nil /\ chaosMap[rpc'[h].name] = rpc'[h].req
                      /\ \A j \in DOMAIN rpc'[h].req.pods :
                             Undone(h, j)' => podMap'[rpc'[h].req.pods[j]] = Nil
    PROVE  Recorded' /\ RulesListed'
<1>1. Recorded'
  BY DEF Recorded
<1>2. RulesListed'
  BY DEF RulesListed, Lists
<1> QED
  BY <1>1, <1>2

\* Where SetDNSChaos and CancelDNSChaos are not running, or have not got to the rules yet.
LEMMA ListedOutside ==
    ASSUME Shape, Recorded, RulesListed, UNCHANGED <<chaosMap, podMap>>,
           \A h \in Rpcs : rpc'[h].pc \in {"idle", "setRecord", "cancelCheck", "cancelLoad"}
    PROVE  Recorded' /\ RulesListed'
  BY ListedFrame DEF SettingLabels, SetLabels, CancellingLabels

LEMMA SetListed ==
    ASSUME OneRpc, Shape, NothingRemoved, Filed, Recorded, RulesListed, NEW h \in Rpcs, SetStep(h)
    PROVE  Recorded' /\ RulesListed'
<1>1. \A g \in Rpcs : g = h
  BY DEF OneRpc
<1>2. chaosMap \in [ChaosNames -> Requests \cup {Nil}] /\ podMap \in [Pods -> Infos \cup {Nil}]
  BY DEF Shape, TypeOK
<1>3. CASE SetRecord(h)
  <2>1. /\ rpc[h].req \in Requests /\ rpc[h].req.name \in ChaosNames
        /\ chaosMap' = [chaosMap EXCEPT ![rpc[h].req.name] = rpc[h].req] /\ podMap' = podMap
    <3>1. rpc[h].req \in Requests
      BY <1>3 DEF SetRecord, Shape, Locals, SetLabels
    <3> QED
      BY <1>3, <3>1, RequestPods DEF SetRecord
  <2>2. \/ rpc'[h].pc = "idle"
        \/ rpc'[h].pc = "setGetPod" /\ rpc'[h].req = rpc[h].req
    BY <1>3, SetFacts, IdleType
  <2>3. /\ \A c \in ChaosNames \ {rpc[h].req.name} : chaosMap'[c] = chaosMap[c]
        /\ chaosMap'[rpc[h].req.name] = rpc[h].req /\ rpc[h].req # Nil
    BY <1>2, <2>1, NamesAssumption
  <2>4. Recorded'
    <3>1. \A c \in ChaosNames : chaosMap'[c] # Nil => chaosMap'[c].name = c
      <4> SUFFICES ASSUME NEW c \in ChaosNames, chaosMap'[c] # Nil PROVE chaosMap'[c].name = c
        OBVIOUS
      <4>1. CASE c = rpc[h].req.name
        BY <2>3, <4>1
      <4>2. CASE c # rpc[h].req.name
        BY <2>3, <4>2 DEF Recorded
      <4> QED
        BY <4>1, <4>2
    <3>2. rpc'[h].pc \in SettingLabels => chaosMap'[rpc'[h].req.name] = rpc'[h].req
      BY <2>2, <2>3 DEF SettingLabels, SetLabels
    <3>3. rpc'[h].pc \notin CancellingLabels
      BY <2>2 DEF CancellingLabels
    <3> QED
      BY <1>1, <3>1, <3>2, <3>3 DEF Recorded
  <2>5. ASSUME NamesIdentifyPods, NEW p \in Pods, NEW c \in ChaosNames, chaosMap[c] # Nil,
               Lists(chaosMap[c], p)
        PROVE  chaosMap'[c] # Nil /\ Lists(chaosMap'[c], p)
    <3>1. CASE c = rpc[h].req.name
      <4>1. chaosMap[c] \in Requests /\ chaosMap[c].name = c
        BY <1>2, <2>5 DEF Recorded
      <4>2. chaosMap[c].pods = rpc[h].req.pods
        BY <2>1, <2>5, <3>1, <4>1 DEF NamesIdentifyPods
      <4> QED
        BY <2>3, <2>5, <3>1, <4>2 DEF Lists
    <3>2. CASE c # rpc[h].req.name
      BY <2>3, <2>5, <3>2
    <3> QED
      BY <3>1, <3>2
  <2>6. RulesListed'
    <3> SUFFICES ASSUME NamesIdentifyPods, NEW p \in Pods, podMap[p] # Nil, p \notin CorefilePods
                 PROVE  \E c \in ChaosNames : chaosMap'[c] # Nil /\ Lists(chaosMap'[c], p)
      BY <2>1 DEF RulesListed, Lists
    <3>1. PICK c \in ChaosNames : chaosMap[c] # Nil /\ Lists(chaosMap[c], p)
      BY DEF RulesListed
    <3> QED
      BY <2>5, <3>1
  <2> QED
    BY <2>4, <2>6
<1>4. CASE ~SetRecord(h)
  <2>1. rpc[h].pc \in SettingLabels /\ InLoop(h) /\ rpc[h].pc # "idle"
    BY <1>4 DEF SetStep, SetGetPod, SetGetPodFails, SetCheckNs, SetMakeNs,
       SetFindOld, SetDropPod, SetDropIP,
       SetStorePod, SetStoreIP, SettingLabels, SetLabels, InLoop, LoopLabels
  <2>2. /\ rpc[h].req \in Requests /\ rpc[h].k \in DOMAIN rpc[h].req.pods /\ Pod(h) \in Pods
        /\ rpc[h].req.name \in ChaosNames /\ rpc[h].req # Nil
    BY <2>1, InFlightFacts, RequestPods, NamesAssumption
  <2>3. chaosMap' = chaosMap
    BY <1>4 DEF SetStep, SetGetPod, SetGetPodFails, SetCheckNs, SetMakeNs,
       SetFindOld, SetDropPod, SetDropIP, SetStorePod, SetStoreIP, rules
  <2>4. /\ rpc'[h].pc \in SettingLabels => rpc'[h].req = rpc[h].req
        /\ rpc'[h].pc \notin CancellingLabels
    BY <1>4, SetFacts, IdleType DEF SetStep, SamePod, StepsOn, CancellingLabels, SettingLabels,
       SetLabels
  <2>5. \A p \in Pods \ {Pod(h)} : podMap'[p] = podMap[p]
    <3>1. CASE SetMakeNs(h)
      BY <3>1, MakesEmpty
    <3> QED
      BY <1>2, <1>4, <2>2, <3>1 DEF SetStep, SetGetPod, SetGetPodFails, SetCheckNs, SetFindOld,
         SetDropPod, SetDropIP, SetStorePod, SetStoreIP, rules
  <2>6. chaosMap[rpc[h].req.name] # Nil /\ Lists(chaosMap[rpc[h].req.name], Pod(h))
    BY <2>1, <2>2 DEF Recorded, Lists, Pod
  <2> QED
    BY <1>1, <2>1, <2>2, <2>3, <2>4, <2>5, <2>6, ListedFrame
<1> QED
  BY <1>3, <1>4

LEMMA CancelListed ==
    ASSUME OneRpc, Shape, Recorded, RulesListed, NEW h \in Rpcs, CancelStep(h)
    PROVE  Recorded' /\ RulesListed'
<1>1. \A g \in Rpcs : g = h
  BY DEF OneRpc
<1>2. /\ chaosMap \in [ChaosNames -> Requests \cup {Nil}] /\ podMap \in [Pods -> Infos \cup {Nil}]
      /\ rpc[h] \in RpcLocals
  BY DEF Shape, TypeOK
<1>3. rpc[h].pc \in CancelLabels /\ rpc[h].name \in ChaosNames
  <2>1. rpc[h].pc \in CancelLabels
    BY DEF CancelStep, CancelCheck, CancelLoad, CancelFind, CancelDropPod, CancelDropIP,
       CancelScan, CancelPrune, CancelForget, CancelLabels
  <2> QED
    BY <2>1 DEF Shape, Locals
<1>4. rpc[h].pc \in CancellingLabels =>
        /\ rpc[h].req \in Requests /\ chaosMap[rpc[h].name] = rpc[h].req
        /\ rpc[h].k \in Nat /\ Len(rpc[h].req.pods) \in Nat
        /\ DOMAIN rpc[h].req.pods = 1 .. Len(rpc[h].req.pods)
        /\ \A j \in DOMAIN rpc[h].req.pods : rpc[h].req.pods[j] \in Pods
  <2>1. rpc[h].pc \in CancellingLabels =>
          rpc[h].req \in Requests /\ chaosMap[rpc[h].name] = rpc[h].req /\ rpc[h].k \in Nat
    BY <1>2 DEF Recorded, RpcLocals
  <2> QED
    BY <2>1, RequestPods
<1>5. CASE CancelCheck(h)
  <2>1. UNCHANGED <<chaosMap, podMap>> /\ rpc'[h].pc \in {"idle", "cancelLoad"}
    BY <1>5, CancelFacts, IdleType DEF CancelCheck, rules
  <2> QED
    BY <1>1, <2>1, ListedOutside
<1>6. CASE CancelLoad(h)
  <2>1. /\ UNCHANGED <<chaosMap, podMap>> /\ chaosMap[rpc[h].name] # Nil
        /\ rpc'[h].pc = IF chaosMap[rpc[h].name].pods = <<>> THEN "cancelScan" ELSE "cancelFind"
        /\ rpc'[h].req = chaosMap[rpc[h].name] /\ rpc'[h].k = 1 /\ rpc'[h].name = rpc[h].name
    BY <1>6, CancelFacts DEF CancelLoad, rules
  <2>2. chaosMap[rpc[h].name] \in Requests
    BY <1>2, <1>3, <2>1
  <2>3. /\ DOMAIN rpc'[h].req.pods = 1 .. Len(rpc'[h].req.pods) /\ Len(rpc'[h].req.pods) \in Nat
        /\ rpc'[h].req.pods = <<>> => DOMAIN rpc'[h].req.pods = {}
    BY <2>1, <2>2, RequestPods
  <2>4. \A j \in DOMAIN rpc'[h].req.pods : ~Undone(h, j)'
    BY <2>1, <2>3 DEF Undone
  <2>5. rpc'[h].pc \notin SettingLabels
    BY <2>1 DEF SettingLabels, SetLabels
  <2> QED
    BY <1>1, <2>1, <2>4, <2>5, ListedFrame
<1>7. CASE CancelFind(h) \/ CancelDropPod(h) \/ CancelDropIP(h)
  <2>1. rpc[h].pc \in CancellingLabels
    BY <1>7 DEF CancelFind, CancelDropPod, CancelDropIP, CancellingLabels
  <2>2. chaosMap' = chaosMap
    BY <1>7 DEF CancelFind, CancelDropPod, CancelDropIP, rules
  <2>3. /\ rpc'[h].pc \notin SettingLabels
        /\ rpc'[h].req = rpc[h].req /\ rpc'[h].name = rpc[h].name
    BY <1>7, CancelFacts DEF SettingLabels, SetLabels, SamePod, StepsOn
  <2>4. /\ \A p \in Pods \ {Pod(h)} : podMap'[p] = podMap[p]
        /\ podMap'[Pod(h)] # Nil => podMap[Pod(h)] # Nil
        /\ CancelDropPod(h) => podMap'[Pod(h)] = Nil
    <3>1. Pod(h) \in Pods
      <4>1. InLoop(h) /\ rpc[h].pc # "idle"
        BY <1>7 DEF CancelFind, CancelDropPod, CancelDropIP, InLoop, LoopLabels
      <4> QED
        BY <4>1, InFlightFacts
    <3> QED
      BY <1>2, <1>7, <3>1 DEF CancelFind, CancelDropPod, CancelDropIP, rules
  <2>5. ASSUME NEW j \in DOMAIN rpc[h].req.pods, Undone(h, j)'
        PROVE  podMap'[rpc[h].req.pods[j]] = Nil
    <3>1. j \in Nat /\ j <= Len(rpc[h].req.pods) /\ Len(rpc[h].req.pods) \in Nat /\ rpc[h].k \in Nat
      BY <1>4, <2>1, <2>5
    <3>2. Undone(h, j) => podMap'[rpc[h].req.pods[j]] = Nil
      <4>1. Undone(h, j) => podMap[rpc[h].req.pods[j]] = Nil /\ rpc[h].req.pods[j] \in Pods
        BY <1>4, <2>1, <2>5 DEF Recorded
      <4> QED
        BY <2>4, <4>1
    <3>3. CASE CancelFind(h)
      <4>1. \/ rpc'[h].pc = "cancelDropPod" /\ rpc'[h].k = rpc[h].k
            \/ podMap[Pod(h)] = Nil /\ rpc[h].k = Len(rpc[h].req.pods)
            \/ podMap[Pod(h)] = Nil /\ rpc'[h].k = rpc[h].k + 1 /\ rpc'[h].pc = "cancelFind"
        BY <3>3, CancelFacts DEF SamePod, StepsOn, LastPod
      <4>2. j < rpc[h].k \/ (j = rpc[h].k /\ podMap[Pod(h)] = Nil)
        <5>1. CASE rpc'[h].pc = "cancelDropPod" /\ rpc'[h].k = rpc[h].k
          BY <2>5, <5>1 DEF Undone
        <5>2. CASE podMap[Pod(h)] = Nil /\ rpc[h].k = Len(rpc[h].req.pods)
          BY <3>1, <5>2
        <5>3. CASE podMap[Pod(h)] = Nil /\ rpc'[h].k = rpc[h].k + 1 /\ rpc'[h].pc = "cancelFind"
          <6>1. j < rpc[h].k + 1
            BY <2>5, <5>3 DEF Undone
          <6> QED
            BY <3>1, <5>3, <6>1
        <5> QED
          BY <4>1, <5>1, <5>2, <5>3
      <4>3. CASE j = rpc[h].k /\ podMap[Pod(h)] = Nil
        BY <2>4, <4>3 DEF Pod
      <4> QED
        BY <3>2, <4>2, <4>3 DEF Undone
    <3>4. CASE CancelDropPod(h)
      <4>1. rpc'[h].pc = "cancelDropIP" /\ rpc'[h].k = rpc[h].k
        BY <3>4, CancelFacts DEF SamePod
      <4>2. j < rpc[h].k \/ j = rpc[h].k
        BY <2>5, <4>1 DEF Undone
      <4> QED
        BY <2>4, <3>2, <3>4, <4>2 DEF Undone, Pod
    <3>5. CASE CancelDropIP(h)
      <4>1. \/ rpc[h].k = Len(rpc[h].req.pods)
            \/ rpc'[h].k = rpc[h].k + 1 /\ rpc'[h].pc = "cancelFind"
        BY <3>5, CancelFacts DEF SamePod, StepsOn, LastPod
      <4>2. j < rpc[h].k \/ j = rpc[h].k
        BY <2>5, <3>1, <4>1 DEF Undone
      <4>3. rpc[h].pc = "cancelDropIP"
        BY <3>5 DEF CancelDropIP
      <4> QED
        BY <3>2, <4>2, <4>3 DEF Undone
    <3> QED
      BY <1>7, <3>3, <3>4, <3>5
  <2>6. \A p \in Pods : podMap'[p] # Nil => podMap[p] # Nil
    BY <2>4
  <2>7. chaosMap[rpc'[h].name] = rpc'[h].req /\ rpc'[h].req # Nil
    BY <1>4, <2>1, <2>3, NamesAssumption
  <2> QED
    BY <1>1, <2>2, <2>3, <2>5, <2>6, <2>7, ListedFrame
<1>8. CASE CancelScan(h) \/ \E n \in Namespaces : CancelPrune(h, n)
  <2>1. rpc[h].pc \in {"cancelScan", "cancelPrune"} /\ rpc[h].pc \in CancellingLabels
    BY <1>8 DEF CancelScan, CancelPrune, CancellingLabels
  <2>2. chaosMap' = chaosMap /\ \A p \in Pods : podMap'[p] # Nil => podMap[p] # Nil
    BY <1>2, <1>8 DEF CancelScan, CancelPrune, rules
  <2>3. /\ rpc'[h].pc = "cancelPrune" /\ rpc'[h].req = rpc[h].req /\ rpc'[h].name = rpc[h].name
    BY <1>8, CancelFacts DEF SamePod
  <2>4. \A j \in DOMAIN rpc[h].req.pods : podMap'[rpc[h].req.pods[j]] = Nil
    BY <1>4, <2>1, <2>2 DEF Recorded, Undone
  <2>5. rpc'[h].pc \notin SettingLabels
    BY <2>3 DEF SettingLabels, SetLabels
  <2>6. chaosMap[rpc'[h].name] = rpc'[h].req /\ rpc'[h].req # Nil
    BY <1>4, <2>1, <2>3, NamesAssumption
  <2> QED
    BY <1>1, <2>2, <2>3, <2>4, <2>5, <2>6, ListedFrame
<1>9. CASE CancelForget(h)
  <2>1. /\ rpc[h].pc = "cancelPrune" /\ rpc[h].pc \in CancellingLabels
        /\ chaosMap' = [chaosMap EXCEPT ![rpc[h].name] = Nil] /\ podMap' = podMap
    BY <1>9 DEF CancelForget, CancellingLabels
  <2>2. rpc'[h].pc = "idle"
    BY <1>9, CancelFacts, IdleType
  <2>3. \A c \in ChaosNames : chaosMap'[c] = IF c = rpc[h].name THEN Nil ELSE chaosMap[c]
    BY <1>2, <2>1
  <2>4. Recorded'
    BY <1>1, <2>2, <2>3 DEF Recorded, SettingLabels, SetLabels, CancellingLabels
  <2>5. \A p \in Pods : podMap[p] # Nil => ~Lists(chaosMap[rpc[h].name], p)
    BY <1>4, <2>1 DEF Recorded, Undone, Lists
  <2>6. RulesListed'
    <3> SUFFICES ASSUME NamesIdentifyPods, NEW p \in Pods, podMap[p] # Nil, p \notin CorefilePods
                 PROVE  \E c \in ChaosNames : chaosMap'[c] # Nil /\ Lists(chaosMap'[c], p)
      BY <2>1 DEF RulesListed, Lists
    <3>1. PICK c \in ChaosNames : chaosMap[c] # Nil /\ Lists(chaosMap[c], p)
      BY DEF RulesListed
    <3>2. c # rpc[h].name
      BY <2>5, <3>1
    <3> QED
      BY <2>3, <3>1, <3>2
  <2> QED
    BY <2>4, <2>6
<1> QED
  BY <1>5, <1>6, <1>7, <1>8, <1>9 DEF CancelStep

LEMMA StepListed ==
    ASSUME OneRpc, Shape, NothingRemoved, Filed, Recorded, RulesListed, [Next]_vars
    PROVE  Recorded' /\ RulesListed'
<1>1. CASE \/ UNCHANGED vars \/ CreateGRPCServer \/ OnStartup \/ Tick
           \/ \E h \in Dnss, p \in Pods, qname \in QNames, qtype \in QTypes :
                  Query(h, p, qname, qtype)
           \/ \E p \in Pods : PodChanges(p)
           \/ \E h \in Dnss : DnsStep(h)
  <2>1. UNCHANGED <<chaosMap, podMap, rpc>>
    BY <1>1, DnsFrame DEF vars, rules, CreateGRPCServer, OnStartup, Tick, Query, PodChanges
  <2> QED
    BY <2>1 DEF Recorded, RulesListed, Undone
<1>2. CASE Crash
  <2>1. \A h \in Rpcs : rpc'[h].pc = "idle"
    BY <1>2, IdleType DEF Crash
  <2> QED
    BY <1>2, <2>1 DEF Crash, Recorded, RulesListed, SettingLabels, SetLabels, CancellingLabels
<1>3. CASE Boot
  <2>1. \A h \in Rpcs : rpc'[h].pc = "idle"
    BY <1>3, IdleType DEF Boot, Shape, Lifecycle
  <2> QED
    BY <1>3, <2>1 DEF Boot, Recorded, RulesListed, SettingLabels, SetLabels, CancellingLabels
<1>4. ASSUME NEW p \in Pods, InitPod(p) PROVE Recorded' /\ RulesListed'
  <2>1. UNCHANGED <<chaosMap, podMap, rpc>>
    BY <1>4 DEF InitPod
  <2> QED
    BY <2>1 DEF Recorded, RulesListed, Undone
<1>5. ASSUME NEW h \in Rpcs,
             \/ \E r \in Requests : SetDNSChaos(h, r)
             \/ \E c \in ChaosNames : CancelDNSChaos(h, c)
      PROVE  Recorded' /\ RulesListed'
  <2>1. rpc'[h].pc \in {"setRecord", "cancelCheck"} /\ UNCHANGED <<chaosMap, podMap>>
    BY <1>5, EntryFacts DEF rules
  <2> QED
    BY <2>1, ListedOutside DEF OneRpc
<1> QED
  BY <1>1, <1>2, <1>3, <1>4, <1>5, SetListed, CancelListed, StepCases

LEMMA ListedInvariant ==
    ASSUME OneRpc
    PROVE  Spec => [](Recorded /\ RulesListed)
<1>1. Init => Recorded /\ RulesListed
  BY IdleType DEF Init, Recorded, RulesListed, SettingLabels, SetLabels, CancellingLabels
<1>2. Shape /\ (NothingRemoved /\ Filed) /\ (Recorded /\ RulesListed) /\ [Next]_vars =>
        (Recorded /\ RulesListed)'
  BY StepListed
<1> QED
  BY <1>1, <1>2, ShapeInvariant, RemovedInvariant, PTL DEF Spec

\* When no call of a controller that waits for its answers is running, a settled pod that is
\* in no recorded experiment and on no chaos line has no rule at its address: an experiment
\* that failed half way is recorded until a CancelDNSChaos has undone all of it, and one
\* that is set again has the same pods (grpc_server.go:48, :116-141).
THEOREM SerialCancelIsComplete ==
    ASSUME OneRpc
    PROVE  Spec => []CancelledMeansQuiet
<1>1. Shape /\ Provenance /\ (Indexed /\ MidCall) /\ (Recorded /\ RulesListed) =>
        CancelledMeansQuiet
  <2> SUFFICES ASSUME Shape, Provenance, Indexed, RulesListed, NamesIdentifyPods, RpcIdle,
                      NEW p \in Pods, Settled(p), p \notin CorefilePods,
                      \A c \in ChaosNames : chaosMap[c] # Nil =>
                          \A k \in DOMAIN chaosMap[c].pods : chaosMap[c].pods[k] # p
               PROVE  ipPodMap[cluster[p]] = Nil
    BY DEF CancelledMeansQuiet
  <2>1. podMap[p] = Nil
    BY DEF RulesListed, Lists
  <2>2. ~Between(p)
    BY DEF RpcIdle, InFlight, Between, BetweenLabels
  <2> QED
    BY <2>1, <2>2, SettledSole DEF Indexed
<1> QED
  BY <1>1, ShapeInvariant, ProvenanceInvariant, IndexInvariant, ListedInvariant, PTL
=============================================================================
