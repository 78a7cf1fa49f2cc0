---------------------------- MODULE PluginSetup ----------------------------
(***************************************************************************)
(* How an instance of the plugin comes and goes (setup.go, InitKubeCache   *)
(* and CreateGRPCServer): the stanza of the Corefile is parsed, the client *)
(* and the cache are made, start and stop of the cache are registered, and *)
(* the gRPC port is opened.  A reload of CoreDNS does the same for another *)
(* instance in the same process, next to the one that serves.  When every  *)
(* set-up and start-up function has returned and the DNS ports are open,   *)
(* the new instance takes over and the old one is shut down; when one      *)
(* fails, the old one goes on.  Nothing closes the gRPC port of an         *)
(* instance, and nothing stops the cache of one that fails after its       *)
(* OnStartup.                                                              *)
(*                                                                         *)
(* CoreDNS and its caddy are external: they run one load at a time.  An    *)
(* instance is the plugin in one server block.  With several, the set-up   *)
(* of each comes after that of the one before, and one that is refused,    *)
(* say because the gRPC port is the same, is OtherSetupFails to those.     *)
(***************************************************************************)
EXTENDS Naturals, Sequences

CONSTANTS
    Corefiles,     \* the Corefiles that are loaded: sequences of stanzas of the plugin
    Stanzas,       \* stanzas to compare with their reorderings
    ReverseZones,  \* the zones below in-addr.arpa and ip6.arpa
    Number,        \* the arguments strconv.Atoi accepts -> their value
    PodOf,         \* the arguments of the form namespace.pod -> the pod
    Selectors,     \* the arguments that are label selectors
    Targets,       \* the arguments transfer to accepts: * and addresses
    Experiments,   \* names of experiments
    MaxLoads       \* bound: instances that are loaded

ASSUME LoadsAssumption == MaxLoads \in Nat

ASSUME StanzasAssumption ==
    \A s \in Stanzas : s \in [zones : Seq(STRING), keys : Seq(STRING),
                             lines : Seq([opt : STRING, args : Seq(STRING)])]

Instances == 1 .. MaxLoads
None == 0

-----------------------------------------------------------------------------
(* The stanza                                                              *)

\* A stanza is [zones, keys, lines]: the zones behind the plugin's name, the keys of its
\* server block, and lines [opt, args].  What New and the options of a stanza leave in
\* Kubernetes; ok: no error so far.
Defaults ==
    [ok |-> TRUE, zones |-> <<>>, primary |-> 0, podNames |-> FALSE, podMode |-> "disabled",
     namespaces |-> {}, namespaceLabels |-> FALSE, labels |-> FALSE, endpoint |-> <<>>,
     tls |-> <<>>, kubeconfig |-> <<>>, fall |-> {}, ttl |-> 5, transferTo |-> {},
     endpoints |-> TRUE, ignoreEmpty |-> FALSE, grpcPort |-> 0, podMap |-> <<>>]

Refused == [Defaults EXCEPT !.ok = FALSE]

Elements(s) == {s[i] : i \in DOMAIN s}

\* The conf if all is well, else an error.
Checked(good, conf) == IF good THEN conf ELSE Refused

\* The rules of a chaos line; a pod that has one already gets this one.
ChaosLine(podMap, args) ==
    LET pods == {PodOf[args[i]] : i \in 3 .. Len(args)}
    IN  [p \in DOMAIN podMap \cup pods |->
            IF p \in pods THEN [action |-> args[1], scope |-> args[2]] ELSE podMap[p]]

\* One turn of the loop over the options.  An ignore without arguments, and a grpcport with
\* more or fewer than one, are passed over.
ParseOption(c, opt, args) ==
    LET n == Len(args)
    IN  CASE opt = "endpoint_pod_names" -> Checked(n = 0, [c EXCEPT !.podNames = TRUE])
          [] opt = "pods" -> Checked(n = 1 /\ args[1] \in {"disabled", "insecure", "verified"},
                                     [c EXCEPT !.podMode = args[1]])
          [] opt = "namespaces" -> Checked(n > 0, [c EXCEPT !.namespaces = @ \cup Elements(args)])
          [] opt = "endpoint" -> Checked(n > 0, [c EXCEPT !.endpoint = args])
          [] opt = "tls" -> Checked(n = 3, [c EXCEPT !.tls = args])
          [] opt = "labels" -> Checked(n > 0 /\ Elements(args) \subseteq Selectors,
                                       [c EXCEPT !.labels = TRUE])
          [] opt = "namespace_labels" -> Checked(n > 0 /\ Elements(args) \subseteq Selectors,
                                                 [c EXCEPT !.namespaceLabels = TRUE])
          [] opt = "fallthrough" -> [c EXCEPT !.fall = IF n = 0 THEN {"."} ELSE Elements(args)]
          [] opt = "ttl" -> Checked(n > 0 /\ args[1] \in DOMAIN Number /\ Number[args[1]] \in 0 .. 3600,
                                    [c EXCEPT !.ttl = Number[args[1]]])
          [] opt = "transfer" -> Checked(n > 0 /\ args[1] = "to" /\ Elements(Tail(args)) \subseteq Targets,
                                         [c EXCEPT !.transferTo = Elements(Tail(args))])
          [] opt = "noendpoints" -> Checked(n = 0, [c EXCEPT !.endpoints = FALSE])
          [] opt = "ignore" -> IF n = 0 THEN c
                               ELSE Checked(args[1] = "empty_service", [c EXCEPT !.ignoreEmpty = TRUE])
          [] opt = "kubeconfig" -> Checked(n = 2, [c EXCEPT !.kubeconfig = args])
          [] opt = "grpcport" -> IF n # 1 THEN c
                                 ELSE Checked(args[1] \in DOMAIN Number, [c EXCEPT !.grpcPort = Number[args[1]]])
          [] opt = "chaos" -> Checked(n >= 3 /\ \A i \in 3 .. n : args[i] \in DOMAIN PodOf,
                                      [c EXCEPT !.podMap = ChaosLine(@, args)])
          [] OTHER -> Refused

\* The zones of the plugin, or those of the server block, and the first that is not reverse.
ParseZones(stanza) ==
    LET zones == IF stanza.zones # <<>> THEN stanza.zones ELSE stanza.keys
        forward == {i \in DOMAIN zones : zones[i] \notin ReverseZones}
    IN  Checked(forward # {},
                [Defaults EXCEPT !.zones = zones,
                                 !.primary = CHOOSE i \in forward : \A j \in forward : i <= j])

\* The options of a stanza, one after the other; the first error ends it.
ParseOptions(stanza) ==
    LET c[i \in Nat] ==
            IF i = 0 THEN ParseZones(stanza)
            ELSE IF ~c[i - 1].ok THEN Refused
            ELSE ParseOption(c[i - 1], stanza.lines[i].opt, stanza.lines[i].args)
    IN  c[Len(stanza.lines)]

\* Variant: the conflict is looked for where the options are read, when namespaces comes.
ParseStanzaAtOption(stanza) ==
    LET c == ParseOptions(stanza)
        Sees(i) == /\ stanza.lines[i].opt = "namespaces"
                   /\ \E j \in 1 .. i : stanza.lines[j].opt = "namespace_labels"
    IN  IF \E i \in DOMAIN stanza.lines : Sees(i) THEN Refused ELSE c

\* Namespaces are chosen by name or by label.
ParseStanza(stanza) ==
    LET c == ParseOptions(stanza)
    IN  Checked(c.ok /\ ~(c.namespaces # {} /\ c.namespaceLabels), c)

\* A second stanza in a server block is an error.
kubernetesParse(corefile) ==
    Checked(Len(corefile) = 1, ParseStanza(corefile[1]))

\* The port of CreateGRPCServer.
grpcPort(conf) == IF conf.grpcPort = 0 THEN 9288 ELSE conf.grpcPort

Ports == {grpcPort(kubernetesParse(c)) : c \in Corefiles} \cup {9288}

-----------------------------------------------------------------------------
(* Instances                                                               *)

VARIABLES
    loads,     \* instances that were loaded so far
    stage,     \* what is next for an instance, or what became of it
    conf,      \* the options of each instance
    listener,  \* port -> the instance that listens on it
    running,   \* the instances whose cache runs
    current,   \* the instance that answers queries
    rules      \* instance -> the experiments it was told of

vars == <<loads, stage, conf, listener, running, current, rules>>

Setup == {"cache", "listen", "ready", "starting", "started"}
Stages == Setup \cup {"none", "serving", "retiring", "retired", "refused", "abandoned", "leaked"}

Init ==
    /\ loads = 0
    /\ stage = [i \in Instances |-> "none"]
    /\ conf = [i \in Instances |-> Refused]
    /\ listener = [p \in Ports |-> None]
    /\ running = {}
    /\ current = None
    /\ rules = [i \in Instances |-> {}]

\* Variant: the port is opened before the client is made.
AfterListenFirst(step) ==
    CASE step = "parse" -> "listen" [] step = "listen" -> "cache" [] step = "cache" -> "ready"

\* The order of setup: kubernetesParse, InitKubeCache, CreateGRPCServer.
After(step) ==
    CASE step = "parse" -> "cache" [] step = "cache" -> "listen" [] step = "listen" -> "ready"

\* A load fails.  If it is a reload the serving instance goes on; otherwise CoreDNS exits,
\* and its ports and goroutines are gone when it is started again.
Fail(i, as) ==
    /\ stage' = [stage EXCEPT ![i] = as]
    /\ listener' = IF current = None THEN [p \in Ports |-> None] ELSE listener
    /\ running' = IF current = None THEN {} ELSE running
    /\ UNCHANGED current

\* CoreDNS starts or reloads, one load at a time.
Load(i, corefile) ==
    /\ i = loads + 1 /\ \A j \in Instances : stage[j] \notin Setup \cup {"retiring"}
    /\ loads' = i
    /\ LET c == kubernetesParse(corefile)
       IN  /\ conf' = [conf EXCEPT ![i] = c]
           /\ IF c.ok
              THEN /\ stage' = [stage EXCEPT ![i] = After("parse")]
                   /\ UNCHANGED <<listener, running, current>>
              ELSE Fail(i, "refused")
    /\ UNCHANGED rules

\* The client is made and the pods of the chaos lines are looked up.
InitKubeCache(i) ==
    /\ stage[i] = "cache"
    /\ stage' = [stage EXCEPT ![i] = After("cache")]
    /\ UNCHANGED <<loads, conf, listener, running, current, rules>>

\* There is no client configuration, or a pod cannot be looked up.
InitKubeCacheFails(i) ==
    /\ stage[i] = "cache"
    /\ Fail(i, "refused")
    /\ UNCHANGED <<loads, conf, rules>>

\* Variant: an error of net.Listen is not looked at.
CreateGRPCServerGoesOn(i) ==
    /\ stage[i] = "listen"
    /\ stage' = [stage EXCEPT ![i] = After("listen")]
    /\ listener' = [listener EXCEPT ![grpcPort(conf[i])] = IF @ = None THEN i ELSE @]
    /\ UNCHANGED <<loads, conf, running, current, rules>>

\* The port is opened and served at once; if there is no such port or an instance has it,
\* the set-up fails.
CreateGRPCServer(i) ==
    /\ stage[i] = "listen"
    /\ LET p == grpcPort(conf[i])
       IN  IF 0 < p /\ p <= 65535 /\ listener[p] = None
           THEN /\ stage' = [stage EXCEPT ![i] = After("listen")]
                /\ listener' = [listener EXCEPT ![p] = i]
                /\ UNCHANGED <<running, current>>
           ELSE Fail(i, "refused")
    /\ UNCHANGED <<loads, conf, rules>>

\* Another process has the port.
CreateGRPCServerFails(i) ==
    /\ stage[i] = "listen"
    /\ Fail(i, "refused")
    /\ UNCHANGED <<loads, conf, rules>>

\* A set-up after this one's fails, or a start-up function that runs before its OnStartup.
\* The port stays open.
OtherSetupFails(i) ==
    /\ stage[i] = "ready"
    /\ Fail(i, "abandoned")
    /\ UNCHANGED <<loads, conf, rules>>

\* OnStartup runs the cache and waits for it.
OnStartup(i) ==
    /\ stage[i] = "ready"
    /\ stage' = [stage EXCEPT ![i] = "starting"]
    /\ running' = running \cup {i}
    /\ UNCHANGED <<loads, conf, listener, current, rules>>

\* OnStartup returns, always without an error.
OnStartupReturns(i) ==
    /\ stage[i] = "starting"
    /\ stage' = [stage EXCEPT ![i] = "started"]
    /\ UNCHANGED <<loads, conf, listener, running, current, rules>>

\* A tick finds the cache synced, which depends on the API server.
Synced(i) == OnStartupReturns(i)

\* Variant: there is no timeout.
TimeoutNever(i) == FALSE /\ OnStartupReturns(i)

\* Five seconds are over.
Timeout(i) == OnStartupReturns(i)

\* A start-up function after this one's fails, or a DNS port cannot be opened.  OnShutdown is
\* not called for an instance that never served: in a reload its cache runs on.
OtherStartupFails(i) ==
    /\ stage[i] = "started"
    /\ Fail(i, IF current = None THEN "abandoned" ELSE "leaked")
    /\ UNCHANGED <<loads, conf, rules>>

\* CoreDNS lets the new instance take over.
TakeOver(i) ==
    /\ stage[i] = "started"
    /\ stage' = [j \in Instances |-> CASE j = i -> "serving"
                                       [] j # i /\ j = current -> "retiring"
                                       [] OTHER -> stage[j]]
    /\ current' = i
    /\ UNCHANGED <<loads, conf, listener, running, rules>>

\* Variant: the cache of the serving instance is stopped.
OnShutdownOther(i) ==
    /\ stage[i] = "retiring"
    /\ stage' = [stage EXCEPT ![i] = "retired"]
    /\ running' = running \ {current}
    /\ UNCHANGED <<loads, conf, listener, current, rules>>

\* OnShutdown stops the cache of the old instance, and not its gRPC server.
OnShutdown(i) ==
    /\ stage[i] = "retiring"
    /\ stage' = [stage EXCEPT ![i] = "retired"]
    /\ running' = running \ {i}
    /\ UNCHANGED <<loads, conf, listener, current, rules>>

-----------------------------------------------------------------------------
(* Requests                                                                *)

\* Who listens on a port serves the requests that come to it, whatever became of it.
SetDNSChaos(p, e) ==
    /\ listener[p] # None
    /\ rules' = [rules EXCEPT ![listener[p]] = @ \cup {e}]
    /\ UNCHANGED <<loads, stage, conf, listener, running, current>>

CancelDNSChaos(p, e) ==
    /\ listener[p] # None /\ e \in rules[listener[p]]
    /\ rules' = [rules EXCEPT ![listener[p]] = @ \ {e}]
    /\ UNCHANGED <<loads, stage, conf, listener, running, current>>

\* InitKubeCache may ask the API server for pods, in a call that has no deadline.
ApiStep(i) == InitKubeCache(i) \/ InitKubeCacheFails(i)

LoadStep(i) ==
    \/ CreateGRPCServer(i) \/ CreateGRPCServerFails(i) \/ OtherSetupFails(i) \/ OnStartup(i)
    \/ Timeout(i) \/ OtherStartupFails(i) \/ TakeOver(i) \/ OnShutdown(i)

Next ==
    \/ \E i \in Instances :
          (\E c \in Corefiles : Load(i, c)) \/ ApiStep(i) \/ LoadStep(i) \/ Synced(i)
    \/ \E p \in Ports, e \in Experiments : SetDNSChaos(p, e) \/ CancelDNSChaos(p, e)

Spec == Init /\ [][Next]_vars

\* A load goes on by itself once InitKubeCache has returned: the functions of CoreDNS and of
\* other plugins return or fail, and the timer fires.  Neither that the cache syncs is
\* assumed nor that the API server answers InitKubeCache.
FairSpec == Spec /\ \A i \in Instances : WF_vars(LoadStep(i))

-----------------------------------------------------------------------------
(* Properties                                                              *)

\* Type invariant: also, every instance knows a port.
TypeOK ==
    /\ loads \in 0 .. MaxLoads
    /\ stage \in [Instances -> Stages]
    /\ DOMAIN conf = Instances /\ \A i \in Instances : grpcPort(conf[i]) \in Ports
    /\ listener \in [Ports -> Instances \cup {None}]
    /\ running \subseteq Instances
    /\ current \in Instances \cup {None}
    /\ rules \in [Instances -> SUBSET Experiments]

\* An instance whose own set-up failed has left nothing in the process that goes on: it
\* holds no port, which nobody would ever close, runs no cache, and no client was told that
\* it took an experiment (setup.go:41-67: the port is opened when nothing of this plugin can
\* fail any more).  One whose set-up was done when another plugin failed keeps its port.
RefusedLeavesNothing ==
    \A i \in Instances :
        stage[i] = "refused" => /\ \A p \in Ports : listener[p] # i
                                /\ i \notin running /\ rules[i] = {}

\* A client that sends an experiment to the port of the Corefile in force reaches the
\* instance that answers queries, through any number of reloads, refused or not, although
\* the gRPC servers of the instances before are still there (grpc_server.go:16-39).
HotUpdatesArrive ==
    [][\A p \in Ports, e \in Experiments :
          SetDNSChaos(p, e) /\ current # None /\ p = grpcPort(conf[current])
              => e \in rules'[current]]_vars

\* Between loads every cache that runs is accounted for: it is that of the serving instance,
\* which nothing has stopped, or of an instance whose reload failed after its OnStartup
\* (another plugin's start-up function, a DNS port), for which OnShutdown is never called and
\* whose informers run on for as long as the process (setup.go:73-94).  Instances that were
\* replaced, refused, or abandoned before their OnStartup run none.
CachesAccountedFor ==
    (\A i \in Instances : stage[i] \notin {"starting", "started", "retiring"}) =>
        running = ({current} \ {None}) \cup {i \in Instances : stage[i] = "leaked"}

\* Once InitKubeCache has returned a load comes to an end, also when the API server never
\* answers the lists: OnStartup waits for five seconds at most (setup.go:77-88).
LoadEnds ==
    \A i \in Instances :
        stage[i] \in (Setup \ {"cache"}) \cup {"retiring"} ~>
            stage[i] \notin Setup \cup {"retiring"}

\* The order of the options does not matter: a stanza with two neighbouring options
\* exchanged means the same, or is refused like it; in particular a conflict of options is
\* found in either order (setup.go:158-326).
Exchanged(stanza, i) ==
    [stanza EXCEPT !.lines[i] = stanza.lines[i + 1], !.lines[i + 1] = stanza.lines[i]]
OptionOrder ==
    loads = 0 =>
        \A s \in Stanzas : \A i \in 1 .. Len(s.lines) - 1 :
            s.lines[i].opt # s.lines[i + 1].opt =>
                ParseStanza(Exchanged(s, i)) = ParseStanza(s)
=============================================================================
