------------------------- MODULE PluginSetupProofs -------------------------
(***************************************************************************)
(* What holds of any sequence of loads, for all Corefiles and any number   *)
(* of instances.  None of the safety properties of PluginSetup is          *)
(* inductive.  SetupInv adds what they rest on: loads do not overlap, the  *)
(* instance that serves is the current one, an instance that is past its   *)
(* CreateGRPCServer owns its port, one that is not has none, and a cache   *)
(* can only be left behind while another instance serves.  The second part *)
(* is about the stanza: exchanging two options does nothing.               *)
(***************************************************************************)
EXTENDS PluginSetup, SetInduction

Busy == Setup \cup {"retiring"}

OneLoad ==
    \A i, j \in Instances : stage[i] \in Busy /\ stage[j] \in Busy => i = j

Fresh == \A i \in Instances : i > loads => stage[i] = "none"

CurrentServes == \A i \in Instances : stage[i] = "serving" <=> i = current

OwnsPort ==
    \A i \in Instances :
        stage[i] \in {"ready", "starting", "started", "serving"} => listener[grpcPort(conf[i])] = i

Unheard ==
    \A i \in Instances :
        stage[i] \in {"none", "cache", "listen", "refused"} =>
            (\A p \in Ports : listener[p] # i) /\ rules[i] = {}

CacheRuns ==
    \A i \in Instances :
        i \in running <=> stage[i] \in {"starting", "started", "serving", "retiring", "leaked"}

LeftBehind == \A i \in Instances : stage[i] \in {"retiring", "leaked"} => current # None

SetupInv ==
    /\ TypeOK /\ OneLoad /\ Fresh /\ CurrentServes /\ OwnsPort /\ Unheard /\ CacheRuns
    /\ LeftBehind

-----------------------------------------------------------------------------
\* The default port is a port, and it is the one an instance knows that has no options.
LEMMA DefaultPort == grpcPort(Refused) = 9288 /\ 9288 \in Ports
  BY DEF grpcPort, Refused, Defaults, Ports

\* Every Corefile names a port.
LEMMA CorefilePort ==
    ASSUME NEW c \in Corefiles PROVE grpcPort(kubernetesParse(c)) \in Ports
  BY DEF Ports

\* None is not an instance.
LEMMA NoneIsNoInstance == None \notin Instances /\ Instances \subseteq Nat
  BY LoadsAssumption DEF None, Instances

\* New leaves a state that satisfies the invariant.
LEMMA InitInv == Init => SetupInv
<1> SUFFICES ASSUME Init PROVE SetupInv
  OBVIOUS
<1> USE NoneIsNoInstance DEF Init
<1>1. TypeOK
  BY DefaultPort, LoadsAssumption DEF TypeOK, Stages
<1>2. OneLoad /\ Fresh /\ CurrentServes
  BY DEF OneLoad, Fresh, CurrentServes, Busy, Setup
<1>3. OwnsPort /\ Unheard /\ CacheRuns /\ LeftBehind
  BY DEF OwnsPort, Unheard, CacheRuns, LeftBehind
<1> QED
  BY <1>1, <1>2, <1>3 DEF SetupInv

\* A load that fails after it was under way leaves the invariant (Fail, as used by
\* InitKubeCacheFails, CreateGRPCServer, OtherSetupFails and OtherStartupFails).
LEMMA FailInv ==
    ASSUME SetupInv, NEW i \in Instances, NEW as \in {"refused", "abandoned", "leaked"},
           stage[i] \in Setup, Fail(i, as), UNCHANGED <<loads, conf, rules>>,
           as = "leaked" => current # None /\ i \in running,
           as # "leaked" /\ current # None => i \notin running,
           as = "refused" => (\A p \in Ports : listener[p] # i) /\ rules[i] = {}
    PROVE  SetupInv'
<1> USE NoneIsNoInstance
<1>0. /\ stage \in [Instances -> Stages] /\ listener \in [Ports -> Instances \cup {None}]
      /\ stage' = [stage EXCEPT ![i] = as] /\ stage'[i] = as
      /\ \A j \in Instances \ {i} : stage'[j] = stage[j]
      /\ current' = current
      /\ current = None => running' = {} /\ listener' = [p \in Ports |-> None]
      /\ current # None => running' = running /\ listener' = listener
  BY DEF SetupInv, TypeOK, Fail
<1>1. TypeOK'
  BY <1>0 DEF SetupInv, TypeOK, Stages
<1>2. OneLoad' /\ Fresh'
  <2>1. OneLoad'
    <3>1. as \notin Busy
      BY DEF Busy, Setup
    <3>2. OneLoad
      BY Zenon DEF SetupInv
    <3> QED
      BY <1>0, <3>1, <3>2 DEF OneLoad
  <2>2. Fresh'
    BY <1>0 DEF SetupInv, Fresh, Setup
  <2> QED
    BY <2>1, <2>2
<1>3. CurrentServes'
  BY <1>0 DEF SetupInv, CurrentServes, Setup
<1>4. OwnsPort'
  <2> SUFFICES ASSUME NEW j \in Instances,
                      stage'[j] \in {"ready", "starting", "started", "serving"}
               PROVE  listener'[grpcPort(conf'[j])] = j
    BY DEF OwnsPort
  <2>1. j # i /\ stage'[j] = stage[j]
    BY <1>0
  <2>2. current # None
    BY <2>1, <1>0 DEF SetupInv, OneLoad, CurrentServes, Busy, Setup
  <2> QED
    BY <1>0, <2>1, <2>2 DEF SetupInv, OwnsPort
<1>5. Unheard'
  <2> SUFFICES ASSUME NEW j \in Instances, stage'[j] \in {"none", "cache", "listen", "refused"}
               PROVE  (\A p \in Ports : listener'[p] # j) /\ rules'[j] = {}
    BY DEF Unheard
  <2>1. (\A p \in Ports : listener[p] # j) /\ rules[j] = {}
    <3>1. CASE j = i
      BY <1>0, <3>1
    <3>2. CASE j # i
      BY <1>0, <3>2 DEF SetupInv, Unheard
    <3> QED
      BY <3>1, <3>2
  <2> QED
    BY <1>0, <2>1
<1>6. CacheRuns'
  <2>1. CASE current # None
    BY <1>0, <2>1 DEF SetupInv, CacheRuns, Setup
  <2>2. CASE current = None
    <3>1. ASSUME NEW j \in Instances, j # i
          PROVE  stage[j] \notin {"starting", "started", "serving", "retiring", "leaked"}
      BY <2>2, <3>1 DEF SetupInv, OneLoad, CurrentServes, LeftBehind, Busy, Setup
    <3> QED
      BY <1>0, <2>2, <3>1 DEF CacheRuns
  <2> QED
    BY <2>1, <2>2
<1>7. LeftBehind'
  BY <1>0 DEF SetupInv, LeftBehind
<1> QED
  BY <1>1, <1>2, <1>3, <1>4, <1>5, <1>6, <1>7 DEF SetupInv

\* A load begins: the instance is new, so nothing is known of it.
LEMMA LoadInv ==
    ASSUME SetupInv, NEW i \in Instances, NEW c \in Corefiles, Load(i, c)
    PROVE  SetupInv'
<1> USE NoneIsNoInstance DEF Load
<1>0. /\ stage \in [Instances -> Stages] /\ listener \in [Ports -> Instances \cup {None}]
      /\ loads \in Nat /\ i = loads + 1 /\ stage[i] = "none" /\ DOMAIN conf = Instances
  BY LoadsAssumption DEF SetupInv, TypeOK, Fresh
<1>1. PICK s \in {"cache", "refused"} : stage' = [stage EXCEPT ![i] = s]
  BY DEF Fail, After
<1>2. stage'[i] = s /\ \A j \in Instances \ {i} : stage'[j] = stage[j]
  BY <1>0, <1>1
<1>3. /\ current' = current /\ rules' = rules
      /\ listener' \in {listener, [p \in Ports |-> None]} /\ running' \in {running, {}}
      /\ current # None => listener' = listener /\ running' = running
  BY DEF Fail
<1>4. TypeOK'
  BY <1>0, <1>1, <1>3, CorefilePort, LoadsAssumption DEF SetupInv, TypeOK, Stages, Setup, Instances
<1>5. OneLoad' /\ Fresh'
  BY <1>0, <1>2 DEF SetupInv, OneLoad, Fresh, Busy, Setup
<1>6. CurrentServes'
  BY <1>0, <1>2, <1>3 DEF SetupInv, CurrentServes
<1>7. OwnsPort'
  <2> SUFFICES ASSUME NEW j \in Instances,
                      stage'[j] \in {"ready", "starting", "started", "serving"}
               PROVE  listener'[grpcPort(conf'[j])] = j
    BY DEF OwnsPort
  <2>1. j # i /\ stage'[j] = stage[j] /\ conf'[j] = conf[j]
    BY <1>0, <1>2
  <2>2. stage[j] = "serving" /\ current # None
    BY <2>1 DEF SetupInv, CurrentServes, Setup
  <2> QED
    BY <2>1, <2>2, <1>3 DEF SetupInv, OwnsPort
<1>8. Unheard'
  BY <1>0, <1>2, <1>3 DEF SetupInv, Unheard
<1>9. CacheRuns'
  <2>1. CASE current # None
    BY <1>0, <1>2, <1>3, <2>1 DEF SetupInv, CacheRuns
  <2>2. CASE current = None
    <3>1. ASSUME NEW j \in Instances
          PROVE  stage[j] \notin {"starting", "started", "serving", "retiring", "leaked"}
      BY <2>2 DEF SetupInv, CurrentServes, LeftBehind, Setup
    <3>2. running = {}
      BY <3>1 DEF SetupInv, CacheRuns, TypeOK
    <3> QED
      BY <1>2, <1>3, <3>1, <3>2 DEF CacheRuns
  <2> QED
    BY <2>1, <2>2
<1>10. LeftBehind'
  BY <1>0, <1>2, <1>3 DEF SetupInv, LeftBehind
<1> QED
  BY <1>4, <1>5, <1>6, <1>7, <1>8, <1>9, <1>10 DEF SetupInv

\* The steps of setup and of OnStartup.
LEMMA SetupStepInv ==
    ASSUME SetupInv, NEW i \in Instances,
           InitKubeCache(i) \/ InitKubeCacheFails(i) \/ CreateGRPCServer(i)
               \/ CreateGRPCServerFails(i) \/ OtherSetupFails(i) \/ OnStartup(i)
    PROVE  SetupInv'
<1> USE NoneIsNoInstance
<1>0. /\ stage \in [Instances -> Stages] /\ listener \in [Ports -> Instances \cup {None}]
      /\ DOMAIN conf = Instances /\ \A j \in Instances : grpcPort(conf[j]) \in Ports
  BY DEF SetupInv, TypeOK
<1>1. CASE InitKubeCache(i)
  <2>1. /\ stage[i] = "cache" /\ stage'[i] = "listen"
        /\ \A j \in Instances \ {i} : stage'[j] = stage[j]
        /\ UNCHANGED <<loads, conf, listener, running, current, rules>>
    BY <1>0, <1>1 DEF InitKubeCache, After
  <2>2. TypeOK'
    BY <1>0, <1>1, <2>1 DEF SetupInv, TypeOK, Stages, Setup, InitKubeCache, After
  <2>3. OneLoad' /\ Fresh'
    BY <2>1 DEF SetupInv, OneLoad, Fresh, Busy, Setup
  <2>4. CurrentServes' /\ OwnsPort' /\ Unheard' /\ CacheRuns'
    BY <2>1 DEF SetupInv, CurrentServes, OwnsPort, Unheard, CacheRuns
  <2>5. LeftBehind'
    BY <2>1 DEF SetupInv, LeftBehind
  <2> QED
    BY <2>2, <2>3, <2>4, <2>5 DEF SetupInv
<1>2. CASE InitKubeCacheFails(i)
  <2>1. i \notin running /\ (\A p \in Ports : listener[p] # i) /\ rules[i] = {}
    BY <1>2 DEF InitKubeCacheFails, SetupInv, Unheard, CacheRuns
  <2> QED
    BY <1>2, <2>1, FailInv DEF InitKubeCacheFails, Setup
<1>3. CASE CreateGRPCServer(i) \/ CreateGRPCServerFails(i)
  <2> DEFINE q == grpcPort(conf[i])
             open == 0 < q /\ q <= 65535 /\ listener[q] = None
  <2>1. stage[i] = "listen" /\ i \notin running /\ (\A p \in Ports : listener[p] # i) /\ rules[i] = {}
    <3>1. stage[i] = "listen"
      BY <1>3 DEF CreateGRPCServer, CreateGRPCServerFails
    <3> QED
      BY <3>1 DEF SetupInv, Unheard, CacheRuns
  <2>2. CASE Fail(i, "refused") /\ UNCHANGED <<loads, conf, rules>>
    BY <2>1, <2>2, FailInv DEF Setup
  <2>3. CASE CreateGRPCServer(i) /\ open
    <3>0. /\ stage' = [stage EXCEPT ![i] = "ready"] /\ q \in Ports
          /\ listener' = [listener EXCEPT ![q] = i] /\ listener[q] = None
          /\ UNCHANGED <<loads, conf, running, current, rules>>
      BY <1>0, <2>3 DEF CreateGRPCServer, After
    <3> HIDE DEF q, open
    <3>1. /\ stage' = [stage EXCEPT ![i] = "ready"] /\ stage'[i] = "ready"
          /\ \A j \in Instances \ {i} : stage'[j] = stage[j]
          /\ listener' = [listener EXCEPT ![q] = i] /\ listener'[q] = i /\ q \in Ports
          /\ \A p \in Ports \ {q} : listener'[p] = listener[p]
          /\ UNCHANGED <<loads, conf, running, current, rules>>
      BY <1>0, <3>0
    <3>2. TypeOK'
      BY <1>0, <3>1 DEF SetupInv, TypeOK, Stages, Setup
    <3>3. OneLoad' /\ Fresh'
      BY <2>1, <3>1 DEF SetupInv, OneLoad, Fresh, Busy, Setup
    <3>4. CurrentServes' /\ CacheRuns' /\ LeftBehind'
      BY <2>1, <3>1 DEF SetupInv, CurrentServes, CacheRuns, LeftBehind
    <3>5. OwnsPort'
      <4> SUFFICES ASSUME NEW j \in Instances,
                          stage'[j] \in {"ready", "starting", "started", "serving"}
                   PROVE  listener'[grpcPort(conf[j])] = j
        BY <3>0 DEF OwnsPort
      <4>1. CASE j = i
        BY <3>1, <4>1 DEF q
      <4>2. CASE j # i
        <5>1. listener[grpcPort(conf[j])] = j /\ grpcPort(conf[j]) \in Ports
          BY <1>0, <3>1, <4>2 DEF SetupInv, OwnsPort
        <5> QED
          BY <3>0, <3>1, <5>1
      <4> QED
        BY <4>1, <4>2
    <3>6. Unheard'
      BY <3>1 DEF SetupInv, Unheard
    <3> QED
      BY <3>2, <3>3, <3>4, <3>5, <3>6 DEF SetupInv
  <2>4. CASE CreateGRPCServerFails(i)
    BY <2>2, <2>4 DEF CreateGRPCServerFails
  <2>5. CASE CreateGRPCServer(i) /\ ~open
    <3>1. Fail(i, "refused") /\ UNCHANGED <<loads, conf, rules>>
      BY <2>5 DEF CreateGRPCServer
    <3> QED
      BY <2>2, <3>1
  <2> QED
    BY <1>3, <2>3, <2>4, <2>5
<1>4. CASE OtherSetupFails(i)
  <2>1. i \notin running
    BY <1>4 DEF OtherSetupFails, SetupInv, CacheRuns
  <2> QED
    BY <1>4, <2>1, FailInv DEF OtherSetupFails, Setup
<1>5. CASE OnStartup(i)
  <2>1. /\ stage[i] = "ready" /\ stage' = [stage EXCEPT ![i] = "starting"]
        /\ stage'[i] = "starting" /\ running' = running \cup {i}
        /\ \A j \in Instances \ {i} : stage'[j] = stage[j]
        /\ UNCHANGED <<loads, conf, listener, current, rules>>
    BY <1>0, <1>5 DEF OnStartup
  <2>2. TypeOK'
    BY <1>0, <2>1 DEF SetupInv, TypeOK, Stages, Setup
  <2>3. OneLoad' /\ Fresh'
    BY <2>1 DEF SetupInv, OneLoad, Fresh, Busy, Setup
  <2>4. CurrentServes' /\ OwnsPort' /\ Unheard' /\ CacheRuns'
    BY <2>1 DEF SetupInv, CurrentServes, OwnsPort, Unheard, CacheRuns
  <2>5. LeftBehind'
    BY <2>1 DEF SetupInv, LeftBehind
  <2> QED
    BY <2>2, <2>3, <2>4, <2>5 DEF SetupInv
<1> QED
  BY <1>1, <1>2, <1>3, <1>4, <1>5

\* OnStartup returns; the instance takes over or fails after all, and the one before it is
\* shut down.
LEMMA TakeOverInv ==
    ASSUME SetupInv, NEW i \in Instances,
           OnStartupReturns(i) \/ OtherStartupFails(i) \/ TakeOver(i) \/ OnShutdown(i)
    PROVE  SetupInv'
<1> USE NoneIsNoInstance
<1>0. stage \in [Instances -> Stages] /\ current \in Instances \cup {None}
  BY DEF SetupInv, TypeOK
<1>1. CASE TakeOver(i)
  <2>1. /\ stage[i] = "started" /\ stage'[i] = "serving" /\ current' = i /\ current # i
        /\ \A j \in Instances \ {i, current} : stage'[j] = stage[j]
        /\ current # None => stage'[current] = "retiring" /\ stage[current] = "serving"
        /\ UNCHANGED <<loads, conf, listener, running, rules>>
    BY <1>0, <1>1 DEF TakeOver, SetupInv, CurrentServes
  <2>2. TypeOK'
    BY <1>0, <1>1, <2>1 DEF TakeOver, SetupInv, TypeOK, Stages, Setup
  <2>3. OneLoad'
    BY <1>0, <2>1 DEF SetupInv, OneLoad, Busy, Setup
  <2>4. Fresh' /\ CurrentServes'
    BY <1>0, <2>1 DEF SetupInv, Fresh, CurrentServes
  <2>5. OwnsPort' /\ Unheard' /\ CacheRuns' /\ LeftBehind'
    BY <1>0, <2>1 DEF SetupInv, OwnsPort, Unheard, CacheRuns, LeftBehind
  <2> QED
    BY <2>2, <2>3, <2>4, <2>5 DEF SetupInv
<1>3. CASE OnStartupReturns(i)
  <2>1. /\ stage[i] = "starting" /\ stage'[i] = "started"
        /\ \A j \in Instances \ {i} : stage'[j] = stage[j]
        /\ UNCHANGED <<loads, conf, listener, running, current, rules>>
    BY <1>0, <1>3 DEF OnStartupReturns
  <2>2. TypeOK'
    BY <1>0, <1>3, <2>1 DEF OnStartupReturns, SetupInv, TypeOK, Stages, Setup
  <2>3. OneLoad' /\ Fresh'
    BY <2>1 DEF SetupInv, OneLoad, Fresh, Busy, Setup
  <2>4. CurrentServes' /\ OwnsPort' /\ Unheard' /\ CacheRuns' /\ LeftBehind'
    BY <2>1 DEF SetupInv, CurrentServes, OwnsPort, Unheard, CacheRuns, LeftBehind
  <2> QED
    BY <2>2, <2>3, <2>4 DEF SetupInv
<1>4. CASE OtherStartupFails(i)
  <2>1. stage[i] = "started" /\ i \in running
    BY <1>4 DEF OtherStartupFails, SetupInv, CacheRuns
  <2> QED
    BY <1>4, <2>1, FailInv DEF OtherStartupFails, Setup
<1>2. CASE OnShutdown(i)
  <2>1. /\ stage[i] = "retiring" /\ stage'[i] = "retired" /\ running' = running \ {i}
        /\ \A j \in Instances \ {i} : stage'[j] = stage[j]
        /\ UNCHANGED <<loads, conf, listener, current, rules>>
    BY <1>0, <1>2 DEF OnShutdown
  <2>2. TypeOK'
    BY <1>0, <1>2, <2>1 DEF OnShutdown, SetupInv, TypeOK, Stages, Setup
  <2>3. OneLoad' /\ Fresh'
    BY <2>1 DEF SetupInv, OneLoad, Fresh, Busy, Setup
  <2>4. CurrentServes' /\ OwnsPort' /\ Unheard' /\ CacheRuns'
    BY <2>1 DEF SetupInv, CurrentServes, OwnsPort, Unheard, CacheRuns
  <2>5. LeftBehind'
    BY <2>1 DEF SetupInv, LeftBehind
  <2> QED
    BY <2>2, <2>3, <2>4, <2>5 DEF SetupInv
<1> QED
  BY <1>1, <1>2, <1>3, <1>4

\* A request changes the experiments of an instance that listens.
LEMMA RequestInv ==
    ASSUME SetupInv, NEW p \in Ports, NEW e \in Experiments,
           SetDNSChaos(p, e) \/ CancelDNSChaos(p, e)
    PROVE  SetupInv'
<1> USE NoneIsNoInstance DEF SetDNSChaos, CancelDNSChaos
<1>1. /\ listener[p] \in Instances /\ rules \in [Instances -> SUBSET Experiments]
      /\ UNCHANGED <<loads, stage, conf, listener, running, current>>
  BY DEF SetupInv, TypeOK
<1>2. rules' \in [Instances -> SUBSET Experiments]
  BY <1>1
<1>3. \A j \in Instances \ {listener[p]} : rules'[j] = rules[j]
  BY <1>1
<1>4. Unheard'
  BY <1>1, <1>3 DEF SetupInv, Unheard
<1> QED
  BY <1>1, <1>2, <1>4 DEF SetupInv, TypeOK, OneLoad, Fresh, CurrentServes, OwnsPort, CacheRuns,
     LeftBehind

\* Every step preserves the invariant.
LEMMA NextInv == SetupInv /\ [Next]_vars => SetupInv'
<1> SUFFICES ASSUME SetupInv, [Next]_vars PROVE SetupInv'
  OBVIOUS
<1>1. CASE UNCHANGED vars
  BY <1>1 DEF vars, SetupInv, TypeOK, OneLoad, Fresh, CurrentServes, OwnsPort, Unheard, CacheRuns,
     LeftBehind
<1>2. ASSUME NEW i \in Instances, NEW c \in Corefiles, Load(i, c) PROVE SetupInv'
  BY <1>2, LoadInv
<1>3. ASSUME NEW i \in Instances, ApiStep(i) \/ LoadStep(i) \/ Synced(i) PROVE SetupInv'
  BY <1>3, SetupStepInv, TakeOverInv DEF ApiStep, LoadStep, Synced, Timeout
<1>4. ASSUME NEW p \in Ports, NEW e \in Experiments, SetDNSChaos(p, e) \/ CancelDNSChaos(p, e)
      PROVE  SetupInv'
  BY <1>4, RequestInv
<1> QED
  BY <1>1, <1>2, <1>3, <1>4 DEF Next

\* In every behaviour of the plugin's instances the invariant holds.
LEMMA Invariance == Spec => []SetupInv
  BY InitInv, NextInv, PTL DEF Spec

-----------------------------------------------------------------------------
\* An instance whose own set-up failed holds no port, runs no cache and took no experiment:
\* CreateGRPCServer is the last step of setup (setup.go:41-67).
THEOREM RefusalIsClean == Spec => []RefusedLeavesNothing
<1>1. SetupInv => RefusedLeavesNothing
  BY DEF SetupInv, RefusedLeavesNothing, Unheard, CacheRuns
<1> QED
  BY <1>1, Invariance, PTL

\* Between loads the caches that run are that of the serving instance and those that reloads
\* left behind which failed after OnStartup, for any sequence of loads and any failures in
\* them (setup.go:73-94).
THEOREM RunningCaches == Spec => []CachesAccountedFor
<1>1. SetupInv => CachesAccountedFor
  BY NoneIsNoInstance DEF SetupInv, CachesAccountedFor, CacheRuns, CurrentServes, TypeOK
<1> QED
  BY <1>1, Invariance, PTL

\* A request to the port of the Corefile in force reaches the serving instance, after any
\* number of reloads (grpc_server.go:16-39).
THEOREM RequestsReachServing == Spec => HotUpdatesArrive
<1> DEFINE Arrives ==
        \A p \in Ports, e \in Experiments :
            SetDNSChaos(p, e) /\ current # None /\ p = grpcPort(conf[current])
                => e \in rules'[current]
<1>1. SetupInv /\ [Next]_vars => [Arrives]_vars
  <2> SUFFICES ASSUME SetupInv, NEW p \in Ports, NEW e \in Experiments, SetDNSChaos(p, e),
                      current # None, p = grpcPort(conf[current])
               PROVE  e \in rules'[current]
    OBVIOUS
  <2>1. current \in Instances /\ stage[current] = "serving" /\ rules \in [Instances -> SUBSET Experiments]
    BY DEF SetupInv, TypeOK, CurrentServes
  <2>2. listener[p] = current
    BY <2>1 DEF SetupInv, OwnsPort
  <2> QED
    BY <2>1, <2>2 DEF SetDNSChaos
<1> QED
  BY <1>1, Invariance, PTL DEF Spec, HotUpdatesArrive

-----------------------------------------------------------------------------
(* The order of the options                                                *)

\* One line of a stanza, and what the lines up to i leave.
Turn(c, line) == IF ~c.ok THEN Refused ELSE ParseOption(c, line.opt, line.args)
Left(stanza, f, i) == IF i = 0 THEN ParseZones(stanza) ELSE Turn(f[i - 1], stanza.lines[i])

IsTable(stanza, n, f) == f = [i \in 0 .. n |-> Left(stanza, f, i)]
IsParse(stanza, f) == f = [i \in Nat |-> Left(stanza, f, i)]

\* Left looks at one entry of the table only.
LEMMA LeftOf ==
    ASSUME NEW stanza, NEW f, NEW g, NEW i \in Nat, i # 0 => f[i - 1] = g[i - 1]
    PROVE  Left(stanza, f, i) = Left(stanza, g, i)
  BY DEF Left

LEMMA Tables ==
    ASSUME NEW stanza, NEW n \in Nat
    PROVE  \E f : IsTable(stanza, n, f)
<1> DEFINE T == {k \in Nat : \E f : IsTable(stanza, k, f)}
<1>1. 0 \in T
  <2> DEFINE g == [i \in 0 .. 0 |-> ParseZones(stanza)]
  <2>1. \A i \in 0 .. 0 : Left(stanza, g, i) = ParseZones(stanza)
    BY DEF Left
  <2>2. IsTable(stanza, 0, g)
    BY <2>1 DEF IsTable
  <2> QED
    BY <2>2
<1>2. ASSUME NEW k \in Nat, k \in T PROVE k + 1 \in T
  <2>1. PICK f : IsTable(stanza, k, f)
    BY <1>2
  <2> DEFINE g == [i \in 0 .. k + 1 |-> Left(stanza, f, i)]
  <2>2. \A i \in 0 .. k : g[i] = f[i]
    BY <2>1 DEF IsTable
  <2>3. \A i \in 0 .. k + 1 : g[i] = Left(stanza, f, i)
    OBVIOUS
  <2>4. g = [i \in 0 .. k + 1 |-> g[i]]
    OBVIOUS
  <2> HIDE DEF g
  <2>5. \A i \in 0 .. k + 1 : g[i] = Left(stanza, g, i)
    <3> TAKE i \in 0 .. k + 1
    <3>1. i \in Nat /\ (i # 0 => i - 1 \in 0 .. k)
      OBVIOUS
    <3>2. i # 0 => f[i - 1] = g[i - 1]
      BY <2>2, <3>1
    <3> QED
      BY <2>3, <3>1, <3>2, LeftOf
  <2>6. IsTable(stanza, k + 1, g)
    BY <2>4, <2>5 DEF IsTable
  <2> QED
    BY <2>6
<1> HIDE DEF T
<1>3. Nat \subseteq T
  BY <1>1, <1>2, Induction
<1> QED
  BY <1>3 DEF T

\* Two tables agree.
LEMMA OneTable ==
    ASSUME NEW stanza, NEW n \in Nat, NEW k \in Nat, NEW f, NEW g,
           IsTable(stanza, n, f), IsTable(stanza, k, g), NEW m \in Nat, m <= n, m <= k
    PROVE  f[m] = g[m]
<1> DEFINE T == {i \in Nat : i <= n /\ i <= k => f[i] = g[i]}
<1>1. /\ \A i \in 0 .. n : f[i] = Left(stanza, f, i)
      /\ \A i \in 0 .. k : g[i] = Left(stanza, g, i)
  BY DEF IsTable
<1>2. 0 \in T
  <2>1. f[0] = Left(stanza, f, 0) /\ g[0] = Left(stanza, g, 0)
    BY <1>1
  <2> QED
    BY <2>1 DEF Left
<1>3. ASSUME NEW i \in Nat, i \in T PROVE i + 1 \in T
  <2> SUFFICES ASSUME i + 1 <= n, i + 1 <= k PROVE f[i + 1] = g[i + 1]
    OBVIOUS
  <2>1. f[i] = g[i] /\ i + 1 \in Nat /\ (i + 1) - 1 = i
    BY <1>3
  <2>2. Left(stanza, f, i + 1) = Left(stanza, g, i + 1)
    BY <2>1, LeftOf
  <2>3. i + 1 \in 0 .. n /\ i + 1 \in 0 .. k
    OBVIOUS
  <2> QED
    BY <1>1, <2>2, <2>3
<1> HIDE DEF T
<1>4. Nat \subseteq T
  BY <1>2, <1>3, Induction
<1> QED
  BY <1>4 DEF T

LEMMA ParseExists ==
    ASSUME NEW stanza
    PROVE  \E f : IsParse(stanza, f)
<1> DEFINE t(n) == CHOOSE f : IsTable(stanza, n, f)
           F == [n \in Nat |-> t(n)[n]]
<1>1. \A n \in Nat : IsTable(stanza, n, t(n))
  BY Tables
<1> HIDE DEF t
<1>2. \A n \in Nat : F[n] = t(n)[n]
  OBVIOUS
<1>3. F = [n \in Nat |-> F[n]]
  OBVIOUS
<1> HIDE DEF F
<1>4. ASSUME NEW m \in Nat PROVE F[m] = Left(stanza, F, m)
  <2>1. t(m)[m] = Left(stanza, t(m), m)
    <3>1. IsTable(stanza, m, t(m)) /\ m \in 0 .. m
      BY <1>1
    <3> QED
      BY <3>1 DEF IsTable
  <2>2. ASSUME m # 0 PROVE t(m)[m - 1] = F[m - 1]
    <3>1. m - 1 \in Nat /\ m - 1 <= m /\ m - 1 <= m - 1
      BY <2>2
    <3>2. t(m)[m - 1] = t(m - 1)[m - 1]
      BY <1>1, <3>1, OneTable
    <3> QED
      BY <1>2, <3>1, <3>2
  <2>3. Left(stanza, t(m), m) = Left(stanza, F, m)
    BY <2>2, LeftOf
  <2> QED
    BY <1>2, <2>1, <2>3
<1>5. IsParse(stanza, F)
  BY <1>3, <1>4 DEF IsParse
<1> QED
  BY <1>5

\* What the options of a stanza leave is the last entry of the one table there is.
LEMMA ParseOf ==
    ASSUME NEW stanza, Len(stanza.lines) \in Nat
    PROVE  \E f : /\ f[0] = ParseZones(stanza)
                  /\ \A i \in Nat : f[i + 1] = Turn(f[i], stanza.lines[i + 1])
                  /\ ParseOptions(stanza) = f[Len(stanza.lines)]
<1> DEFINE f == CHOOSE f : IsParse(stanza, f)
<1>1. IsParse(stanza, f)
  BY ParseExists
<1>2. ParseOptions(stanza) = f[Len(stanza.lines)]
  BY DEF ParseOptions, IsParse, Left, Turn
<1> HIDE DEF f
<1>3. \A i \in Nat : f[i] = Left(stanza, f, i)
  BY <1>1 DEF IsParse
<1>4. f[0] = ParseZones(stanza)
  BY <1>3 DEF Left
<1>5. ASSUME NEW i \in Nat PROVE f[i + 1] = Turn(f[i], stanza.lines[i + 1])
  <2>1. f[i + 1] = Left(stanza, f, i + 1) /\ i + 1 # 0 /\ (i + 1) - 1 = i
    BY <1>3
  <2> QED
    BY <2>1 DEF Left
<1> QED
  BY <1>2, <1>4, <1>5

\* A line is refused whatever came before it, or it changes one field, that of its option,
\* to what it makes of the field.
Fields == DOMAIN Defaults

FieldOf(opt) ==
    CASE opt = "endpoint_pod_names" -> "podNames" [] opt = "pods" -> "podMode"
      [] opt = "namespaces" -> "namespaces" [] opt = "endpoint" -> "endpoint"
      [] opt = "tls" -> "tls" [] opt = "labels" -> "labels"
      [] opt = "namespace_labels" -> "namespaceLabels" [] opt = "fallthrough" -> "fall"
      [] opt = "ttl" -> "ttl" [] opt = "transfer" -> "transferTo"
      [] opt = "noendpoints" -> "endpoints" [] opt = "ignore" -> "ignoreEmpty"
      [] opt = "kubeconfig" -> "kubeconfig" [] opt = "grpcport" -> "grpcPort"
      [] opt = "chaos" -> "podMap"

Options ==
    {"endpoint_pod_names", "pods", "namespaces", "endpoint", "tls", "labels", "namespace_labels",
     "fallthrough", "ttl", "transfer", "noendpoints", "ignore", "kubeconfig", "grpcport", "chaos"}

Good(opt, args) ==
    LET n == Len(args)
    IN  CASE opt \in {"endpoint_pod_names", "noendpoints"} -> n = 0
          [] opt = "pods" -> n = 1 /\ args[1] \in {"disabled", "insecure", "verified"}
          [] opt \in {"namespaces", "endpoint"} -> n > 0
          [] opt = "tls" -> n = 3
          [] opt \in {"labels", "namespace_labels"} -> n > 0 /\ Elements(args) \subseteq Selectors
          [] opt = "fallthrough" -> TRUE
          [] opt = "ttl" -> n > 0 /\ args[1] \in DOMAIN Number /\ Number[args[1]] \in 0 .. 3600
          [] opt = "transfer" -> n > 0 /\ args[1] = "to" /\ Elements(Tail(args)) \subseteq Targets
          [] opt = "ignore" -> n # 0 => args[1] = "empty_service"
          [] opt = "kubeconfig" -> n = 2
          [] opt = "grpcport" -> n = 1 => args[1] \in DOMAIN Number
          [] opt = "chaos" -> n >= 3 /\ \A i \in 3 .. n : args[i] \in DOMAIN PodOf
          [] OTHER -> FALSE

Value(opt, args, old) ==
    LET n == Len(args)
    IN  CASE opt \in {"endpoint_pod_names", "labels", "namespace_labels"} -> TRUE
          [] opt = "pods" -> args[1]
          [] opt = "namespaces" -> old \cup Elements(args)
          [] opt \in {"endpoint", "tls", "kubeconfig"} -> args
          [] opt = "fallthrough" -> IF n = 0 THEN {"."} ELSE Elements(args)
          [] opt = "ttl" -> Number[args[1]]
          [] opt = "transfer" -> Elements(Tail(args))
          [] opt = "noendpoints" -> FALSE
          [] opt = "ignore" -> IF n = 0 THEN old ELSE TRUE
          [] opt = "grpcport" -> IF n # 1 THEN old ELSE Number[args[1]]
          [] opt = "chaos" -> ChaosLine(old, args)

IsConf(c) == c = [f \in Fields |-> c[f]]

LEMMA FieldsOfOptions ==
    /\ \A opt \in Options : FieldOf(opt) \in Fields \ {"ok"}
    /\ \A o1, o2 \in Options : FieldOf(o1) = FieldOf(o2) => o1 = o2
<1> DEFINE OptionOf ==
        [podNames |-> "endpoint_pod_names", podMode |-> "pods", namespaces |-> "namespaces",
         endpoint |-> "endpoint", tls |-> "tls", labels |-> "labels",
         namespaceLabels |-> "namespace_labels", fall |-> "fallthrough", ttl |-> "ttl",
         transferTo |-> "transfer", endpoints |-> "noendpoints", ignoreEmpty |-> "ignore",
         kubeconfig |-> "kubeconfig", grpcPort |-> "grpcport", podMap |-> "chaos"]
<1>1. \A opt \in Options : FieldOf(opt) \in Fields \ {"ok"}
  BY DEF Options, FieldOf, Fields, Defaults
<1>2. \A opt \in Options : OptionOf[FieldOf(opt)] = opt
  BY DEF Options, FieldOf
<1> QED
  BY <1>1, <1>2

LEMMA OneField ==
    ASSUME NEW c, IsConf(c), NEW opt, NEW args
    PROVE  IF opt \in Options /\ Good(opt, args)
           THEN ParseOption(c, opt, args) =
                    [c EXCEPT ![FieldOf(opt)] = Value(opt, args, c[FieldOf(opt)])]
           ELSE ParseOption(c, opt, args) = Refused
<1> DEFINE n == Len(args)
<1>1. CASE opt \notin Options
  BY <1>1 DEF Options, ParseOption
<1>2. CASE opt = "endpoint_pod_names"
  BY <1>2 DEF Options, ParseOption, Good, Value, FieldOf, Checked
<1>3. CASE opt = "pods"
  BY <1>3 DEF Options, ParseOption, Good, Value, FieldOf, Checked
<1>4. CASE opt = "namespaces"
  BY <1>4 DEF Options, ParseOption, Good, Value, FieldOf, Checked
<1>5. CASE opt = "endpoint"
  BY <1>5 DEF Options, ParseOption, Good, Value, FieldOf, Checked
<1>6. CASE opt = "tls"
  BY <1>6 DEF Options, ParseOption, Good, Value, FieldOf, Checked
<1>7. CASE opt = "labels"
  BY <1>7 DEF Options, ParseOption, Good, Value, FieldOf, Checked
<1>8. CASE opt = "namespace_labels"
  BY <1>8 DEF Options, ParseOption, Good, Value, FieldOf, Checked
<1>9. CASE opt = "fallthrough"
  BY <1>9 DEF Options, ParseOption, Good, Value, FieldOf
<1>10. CASE opt = "ttl"
  <2> DEFINE fits == n > 0 /\ args[1] \in DOMAIN Number /\ Number[args[1]] \in 0 .. 3600
  <2>1. ParseOption(c, opt, args) = Checked(fits, [c EXCEPT !.ttl = Number[args[1]]])
    BY <1>10 DEF ParseOption
  <2>2. Good(opt, args) = fits
    BY <1>10 DEF Good
  <2>3. FieldOf(opt) = "ttl" /\ Value(opt, args, c[FieldOf(opt)]) = Number[args[1]] /\ opt \in Options
    BY <1>10 DEF FieldOf, Value, Options
  <2> HIDE DEF fits
  <2> QED
    BY <2>1, <2>2, <2>3 DEF Checked
<1>11. CASE opt = "transfer"
  BY <1>11 DEF Options, ParseOption, Good, Value, FieldOf, Checked
<1>12. CASE opt = "noendpoints"
  BY <1>12 DEF Options, ParseOption, Good, Value, FieldOf, Checked
<1>13. CASE opt = "ignore"
  BY <1>13 DEF Options, ParseOption, Good, Value, FieldOf, Checked, IsConf
<1>14. CASE opt = "kubeconfig"
  BY <1>14 DEF Options, ParseOption, Good, Value, FieldOf, Checked
<1>15. CASE opt = "grpcport"
  BY <1>15 DEF Options, ParseOption, Good, Value, FieldOf, Checked, IsConf
<1>16. CASE opt = "chaos"
  BY <1>16 DEF Options, ParseOption, Good, Value, FieldOf, Checked
<1> QED
  BY <1>1, <1>2, <1>3, <1>4, <1>5, <1>6, <1>7, <1>8, <1>9, <1>10, <1>11, <1>12, <1>13, <1>14,
     <1>15, <1>16 DEF Options

LEMMA RefusedTurn == Refused.ok = FALSE /\ \A line : Turn(Refused, line) = Refused
<1>1. Refused.ok = FALSE
  BY DEF Refused, Defaults
<1> QED
  BY <1>1 DEF Turn

LEMMA ConfKept ==
    /\ \A stanza : IsConf(ParseZones(stanza))
    /\ \A c, line : IsConf(c) => IsConf(Turn(c, line))
<1>1. IsConf(Defaults) /\ IsConf(Refused)
  BY DEF IsConf, Refused, Fields, Defaults
<1>2. \A stanza : IsConf(ParseZones(stanza))
  <2> TAKE stanza
  <2>1. \A z, p : IsConf([Defaults EXCEPT !.zones = z, !.primary = p])
    BY DEF IsConf, Fields
  <2> QED
    BY <1>1, <2>1 DEF ParseZones, Checked
<1>3. ASSUME NEW c, NEW line, IsConf(c) PROVE IsConf(Turn(c, line))
  <2>1. \A f, v : IsConf([c EXCEPT ![f] = v])
    BY <1>3 DEF IsConf
  <2>2. IsConf(ParseOption(c, line.opt, line.args))
    <3>1. CASE line.opt \in Options /\ Good(line.opt, line.args)
      BY <1>3, <2>1, <3>1, OneField
    <3>2. CASE ~(line.opt \in Options /\ Good(line.opt, line.args))
      <4>1. ParseOption(c, line.opt, line.args) = Refused
        BY <1>3, <3>2, OneField
      <4> QED
        BY <1>1, <4>1
    <3> QED
      BY <3>1, <3>2
  <2> QED
    BY <1>1, <2>2 DEF Turn
<1> QED
  BY <1>2, <1>3

\* Lines of two options can be exchanged.
LEMMA TurnsCommute ==
    ASSUME NEW c, IsConf(c), NEW l, NEW m, l.opt # m.opt
    PROVE  Turn(Turn(c, l), m) = Turn(Turn(c, m), l)
<1>1. CASE ~c.ok
  BY <1>1, RefusedTurn DEF Turn
<1>2. CASE c.ok
  <2> DEFINE good(x) == x.opt \in Options /\ Good(x.opt, x.args)
             f(x) == FieldOf(x.opt)
             v(x) == Value(x.opt, x.args, c[f(x)])
  <2>1. ASSUME NEW x PROVE Turn(c, x) = IF good(x) THEN [c EXCEPT ![f(x)] = v(x)] ELSE Refused
    BY <1>2, OneField DEF Turn
  <2>2. ASSUME NEW x, NEW y, good(x), x.opt # y.opt
        PROVE  Turn(Turn(c, x), y) =
                   IF good(y) THEN [[c EXCEPT ![f(x)] = v(x)] EXCEPT ![f(y)] = v(y)] ELSE Refused
    <3> DEFINE d == [c EXCEPT ![f(x)] = v(x)]
    <3>1. Turn(c, x) = d
      BY <2>1, <2>2
    <3>2. f(x) \in Fields \ {"ok"}
      BY <2>2, FieldsOfOptions
    <3>3. IsConf(d) /\ d.ok = c.ok
      BY <3>2 DEF IsConf
    <3>4. good(y) => d[f(y)] = c[f(y)]
      <4> SUFFICES ASSUME good(y) PROVE d[f(y)] = c[f(y)]
        OBVIOUS
      <4>1. f(y) \in Fields /\ f(y) # f(x)
        BY <2>2, FieldsOfOptions
      <4> QED
        BY <4>1 DEF IsConf
    <3> HIDE DEF d
    <3>5. Turn(d, y) = ParseOption(d, y.opt, y.args)
      BY <1>2, <3>3 DEF Turn
    <3>6. IF good(y)
          THEN ParseOption(d, y.opt, y.args) = [d EXCEPT ![f(y)] = Value(y.opt, y.args, d[f(y)])]
          ELSE ParseOption(d, y.opt, y.args) = Refused
      BY <3>3, OneField
    <3>7. CASE good(y)
      BY <3>1, <3>4, <3>5, <3>6, <3>7 DEF d
    <3>8. CASE ~good(y)
      BY <3>1, <3>5, <3>6, <3>8
    <3> QED
      BY <3>7, <3>8
  <2> HIDE DEF good, v
  <2>3. CASE good(l) /\ good(m)
    <3>1. f(l) \in Fields /\ f(m) \in Fields /\ f(l) # f(m)
      BY <2>3, FieldsOfOptions DEF good
    <3> HIDE DEF f
    <3>2. [[c EXCEPT ![f(l)] = v(l)] EXCEPT ![f(m)] = v(m)] =
              [[c EXCEPT ![f(m)] = v(m)] EXCEPT ![f(l)] = v(l)]
      BY <3>1
    <3> QED
      BY <2>2, <2>3, <3>2
  <2>4. CASE good(l) /\ ~good(m)
    BY <2>1, <2>2, <2>4, RefusedTurn
  <2>5. CASE ~good(l) /\ good(m)
    BY <2>1, <2>2, <2>5, RefusedTurn
  <2>6. CASE ~good(l) /\ ~good(m)
    BY <2>1, <2>6, RefusedTurn
  <2> QED
    BY <2>3, <2>4, <2>5, <2>6
<1> QED
  BY <1>1, <1>2

LEMMA ElementOfSeq == ASSUME NEW S, NEW q \in Seq(S), NEW k \in DOMAIN q PROVE q[k] \in S
  OBVIOUS

\* Exchanging two neighbouring lines changes nothing else.
LEMMA ExchangedLines ==
    ASSUME NEW s \in Stanzas, NEW i \in 1 .. Len(s.lines) - 1
    PROVE  LET t == Exchanged(s, i)
           IN  /\ Len(s.lines) \in Nat /\ Len(t.lines) = Len(s.lines)
               /\ ParseZones(t) = ParseZones(s)
               /\ t.lines[i] = s.lines[i + 1] /\ t.lines[i + 1] = s.lines[i]
               /\ \A k \in 1 .. Len(s.lines) : k \notin {i, i + 1} => t.lines[k] = s.lines[k]
<1> DEFINE Lines == Seq([opt : STRING, args : Seq(STRING)])
           t == Exchanged(s, i)
           swapped == [[s.lines EXCEPT ![i] = s.lines[i + 1]] EXCEPT ![i + 1] = s.lines[i]]
<1>1. s \in [zones : Seq(STRING), keys : Seq(STRING), lines : Lines]
  BY StanzasAssumption
<1>2. s.lines \in Lines /\ Len(s.lines) \in Nat /\ DOMAIN s.lines = 1 .. Len(s.lines)
  BY <1>1
<1>3. i \in DOMAIN s.lines /\ i + 1 \in DOMAIN s.lines /\ i # i + 1
  BY <1>2
<1>4. /\ s.lines[i] \in [opt : STRING, args : Seq(STRING)]
      /\ s.lines[i + 1] \in [opt : STRING, args : Seq(STRING)]
  BY <1>2, <1>3, ElementOfSeq
<1>5. t.zones = s.zones /\ t.keys = s.keys /\ t.lines = swapped
  BY <1>1 DEF Exchanged
<1>6. swapped \in Lines /\ Len(swapped) = Len(s.lines)
  <2>1. DOMAIN swapped = 1 .. Len(s.lines)
    BY <1>2
  <2>2. swapped \in Lines
    BY <1>2, <1>3, <1>4
  <2> QED
    BY <1>2, <2>1, <2>2
<1>7. ParseZones(t) = ParseZones(s)
  BY <1>5 DEF ParseZones
<1> QED
  BY <1>2, <1>3, <1>5, <1>6, <1>7

LEMMA ExchangeParses ==
    ASSUME NEW s \in Stanzas, NEW i \in 1 .. Len(s.lines) - 1, s.lines[i].opt # s.lines[i + 1].opt
    PROVE  ParseOptions(Exchanged(s, i)) = ParseOptions(s)
<1> DEFINE n == Len(s.lines)
<1>1. PICK t : t = Exchanged(s, i)
  OBVIOUS
<1>2. /\ n \in Nat /\ Len(t.lines) = n
      /\ ParseZones(t) = ParseZones(s)
      /\ t.lines[i] = s.lines[i + 1] /\ t.lines[i + 1] = s.lines[i]
      /\ \A k \in 1 .. n : k \notin {i, i + 1} => t.lines[k] = s.lines[k]
  BY <1>1, ExchangedLines
<1>3. PICK f : /\ f[0] = ParseZones(s)
               /\ \A k \in Nat : f[k + 1] = Turn(f[k], s.lines[k + 1])
               /\ ParseOptions(s) = f[n]
  BY <1>2, ParseOf
<1>4. PICK g : /\ g[0] = ParseZones(t)
               /\ \A k \in Nat : g[k + 1] = Turn(g[k], t.lines[k + 1])
               /\ ParseOptions(t) = g[n]
  BY <1>2, ParseOf
<1>5. i \in Nat /\ i - 1 \in Nat /\ (i - 1) + 1 = i /\ i + 1 <= n
  BY <1>2
<1> DEFINE C == {k \in Nat : IsConf(f[k])}
           T == {k \in Nat : k <= n /\ k # i => g[k] = f[k]}
<1>6. Nat \subseteq C
  <2>1. 0 \in C
    BY <1>3, ConfKept
  <2>2. \A k \in Nat : k \in C => k + 1 \in C
    BY <1>3, ConfKept
  <2> HIDE DEF C
  <2> QED
    BY <2>1, <2>2, Induction
\* Up to the exchanged lines, and from behind them, the tables agree.  T leaves i out.
<1>7. ASSUME NEW k \in Nat, k + 1 <= n, k + 1 \notin {i, i + 1}, g[k] = f[k]
      PROVE  g[k + 1] = f[k + 1]
  <2>1. k + 1 \in 1 .. n
    BY <1>2, <1>7
  <2> QED
    BY <1>2, <1>3, <1>4, <1>7, <2>1
<1>8. ASSUME g[i - 1] = f[i - 1] PROVE g[i + 1] = f[i + 1]
  <2>1. f[i] = Turn(f[i - 1], s.lines[i]) /\ f[i + 1] = Turn(f[i], s.lines[i + 1])
    BY <1>3, <1>5
  <2>2. g[i] = Turn(g[i - 1], s.lines[i + 1]) /\ g[i + 1] = Turn(g[i], s.lines[i])
    BY <1>2, <1>4, <1>5
  <2>3. IsConf(f[i - 1])
    BY <1>5, <1>6
  <2> QED
    BY <1>8, <2>1, <2>2, <2>3, TurnsCommute
<1> DEFINE U == {k \in Nat : k \in T /\ (k # 0 => k - 1 \in T)}
<1>9. 0 \in U
  BY <1>2, <1>3, <1>4
<1>10. ASSUME NEW k \in Nat, k \in U PROVE k + 1 \in U
  <2> SUFFICES ASSUME k + 1 <= n, k + 1 # i PROVE g[k + 1] = f[k + 1]
    BY <1>10
  <2>1. CASE k = i
    <3>1. i - 1 \in T
      BY <1>5, <1>10, <2>1
    <3>2. g[i - 1] = f[i - 1]
      BY <1>2, <1>5, <3>1
    <3> QED
      BY <1>8, <2>1, <3>2
  <2>2. CASE k # i
    <3>1. g[k] = f[k]
      BY <1>2, <1>10, <2>2
    <3> QED
      BY <1>5, <1>7, <2>2, <3>1
  <2> QED
    BY <2>1, <2>2
<1> HIDE DEF U
<1>11. Nat \subseteq U
  BY <1>9, <1>10, Induction
<1>12. n \in T
  BY <1>2, <1>11 DEF U
<1>13. g[n] = f[n]
  BY <1>2, <1>5, <1>12
<1> QED
  BY <1>1, <1>3, <1>4, <1>13

\* The order of the options of a stanza does not matter, for stanzas of any length: each
\* option has a field of its own, and namespaces and namespace_labels are compared when all
\* options are read (setup.go:158-326).
THEOREM OptionsInAnyOrder == Spec => []OptionOrder
<1>1. OptionOrder
  <2> SUFFICES ASSUME NEW s \in Stanzas, NEW i \in 1 .. Len(s.lines) - 1,
                      s.lines[i].opt # s.lines[i + 1].opt
               PROVE  ParseStanza(Exchanged(s, i)) = ParseStanza(s)
    BY DEF OptionOrder
  <2> QED
    BY ExchangeParses DEF ParseStanza
<1> QED
  BY <1>1, PTL
=============================================================================
