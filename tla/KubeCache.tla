----------------------------- MODULE KubeCache -----------------------------
(***************************************************************************)
(* The plugin's cache of the cluster (controller.go, object/informer.go)   *)
(* and the query path that reads it (ServeDNS, Records, findServices and   *)
(* findPods).  Services, endpoints, pods and namespaces have an informer   *)
(* each: a reflector that lists and watches the API server and fills a     *)
(* DeltaFIFO, and a goroutine that pops the deltas of one object, converts *)
(* them, applies them to the indexer and calls the handlers that keep the  *)
(* time of the last change.  A query reads one indexer after the other     *)
(* while all that goes on, and asks HasSynced only when a read failed.     *)
(*                                                                         *)
(* The reflector, the DeltaFIFO and the API server are external.           *)
(***************************************************************************)
EXTENDS Naturals, Sequences

CONSTANTS
    Objects,       \* API objects
    Kinds,         \* the informers that newdnsController makes
    KindOf,        \* the kind of each object
    NsOf,          \* the namespace object of each object
    SvcOf,         \* the service that has the name of each endpoints object
    Data,          \* contents an object may have
    Significant,   \* the part of a content that endpointsEquivalent compares
    Absent,        \* no such object
    FallThrough,   \* objects whose names are in a zone with fallthrough
    SkipCleanup,   \* skipAPIObjectsCleanup, which only the tests set
    Dnss,          \* goroutines that serve DNS queries
    MaxChanges,    \* bound: changes of API objects
    MaxDrops,      \* bound: watches that break
    MaxStops,      \* bound: calls of Stop that close stopCh, 0 or 1
    MaxTime        \* bound: seconds

ASSUME BoundsAssumption == MaxChanges \in Nat /\ MaxDrops \in Nat /\ MaxTime \in Nat /\ MaxStops \in {0, 1}

ASSUME KindsAssumption ==
    /\ {"svc", "ns"} \subseteq Kinds /\ Kinds \subseteq {"svc", "ep", "pod", "ns"}
    /\ \A o \in Objects : KindOf[o] \in Kinds

\* A query reads the namespace and the service of an object as well.
ASSUME PathAssumption ==
    Dnss # {} => \A o \in Objects :
        /\ NsOf[o] \in Objects /\ KindOf[NsOf[o]] = "ns"
        /\ KindOf[o] = "ep" => SvcOf[o] \in Objects /\ KindOf[SvcOf[o]] = "svc"

ASSUME ValuesAssumption ==
    /\ Data # {} /\ Data \subseteq DOMAIN Significant
    /\ FallThrough \subseteq Objects /\ SkipCleanup \in BOOLEAN

\* An object of the API server; terminating: it has a DeletionTimestamp.
ApiObjects == [ver : 0 .. MaxChanges, data : Data, terminating : BOOLEAN]
\* What the indexer keeps of it.
Cached == [ver : 0 .. MaxChanges, data : Data]

ASSUME AbsentAssumption == Absent \notin ApiObjects /\ Absent \notin Cached /\ Absent \notin Objects

\* A delta is Sync, Added or Updated ("set"), Deleted with the last state ("deleted"), or
\* Deleted with DeletedFinalStateUnknown ("unknown").
Deltas == [type : {"set"}, obj : ApiObjects] \cup [type : {"deleted", "unknown"}]

VARIABLES
    store,      \* the API server: object -> its content
    changes,    \* changes so far, and the newest resource version
    steady,     \* history: the objects that were there at all times
    overlooked, \* history: the deleted objects that the last list of their kind missed
    watch,      \* each reflector: "off", "list" (about to list) or "on" (watching)
    drops,      \* watches that broke so far
    items,      \* object -> its deltas in the DeltaFIFO
    populated,  \* has the first list been put into the DeltaFIFO?
    initial,    \* the objects of the first list that are still to be processed
    proc,       \* each informer's processing goroutine
    cache,      \* the indexers: object -> what is kept of it
    modified,   \* dnsControl.modified
    latest,     \* history: when what the cache holds of a service, pod or endpoints last changed
    overlapped, \* history: have the handlers of two informers been running at one time?
    now,        \* the clock, in seconds
    phase,      \* "setup", "starting" (OnStartup waits) or "serving"
    stopped,    \* is stopCh closed, and shutdown set?
    dns         \* the DNS goroutines

api == <<store, changes, steady, overlooked>>
queue == <<watch, drops, items, populated, initial>>
serial == <<modified, latest, overlapped>>
vars == <<api, queue, proc, cache, serial, now, phase, stopped, dns>>

Resting == [pc |-> "idle", obj |-> Absent, todo |-> <<>>, stamp |-> 0]
Quiet == [pc |-> "idle", name |-> Absent, at |-> 0, synced |-> FALSE, reply |-> "none"]

Init ==
    /\ store \in [Objects -> {Absent} \cup
                    [ver : {0}, data : {CHOOSE d \in Data : TRUE}, terminating : {FALSE}]]
    /\ changes = 0
    /\ steady = {o \in Objects : store[o] # Absent} /\ overlooked = {}
    /\ watch = [k \in Kinds |-> "off"]
    /\ drops = 0
    /\ items = [o \in Objects |-> <<>>]
    /\ populated = [k \in Kinds |-> FALSE]
    /\ initial = [k \in Kinds |-> {}]
    /\ proc = [k \in Kinds |-> Resting]
    /\ cache = [o \in Objects |-> Absent]
    /\ modified = 0 /\ latest = 0 /\ now = 0
    /\ overlapped = FALSE
    /\ phase = "setup"
    /\ stopped = FALSE
    /\ dns = [h \in Dnss |-> Quiet]

-----------------------------------------------------------------------------
(* The API server, the reflectors and the queues                           *)

Of(k) == {o \in Objects : KindOf[o] = k}

IsDeletion(d) == d.type # "set"

\* A delta is queued behind those of its object; two deletions in a row become one.
Queued(deltas, d) ==
    IF deltas # <<>> /\ IsDeletion(deltas[Len(deltas)]) /\ IsDeletion(d)
    THEN deltas ELSE Append(deltas, d)

\* The API server changes o, and a reflector that watches its kind queues the event.
Change(o, new, d) ==
    /\ changes < MaxChanges
    /\ changes' = changes + 1
    /\ store' = [store EXCEPT ![o] = new]
    /\ steady' = IF new = Absent THEN steady \ {o} ELSE steady
    /\ overlooked' = overlooked \ {o}
    /\ items' = IF watch[KindOf[o]] = "on" THEN [items EXCEPT ![o] = Queued(@, d)] ELSE items
    /\ UNCHANGED <<watch, drops, populated, initial, proc, cache, serial, now, phase,
                   stopped, dns>>

\* An object is created or changed.
Write(o, data) ==
    LET new == [ver |-> changes + 1, data |-> data, terminating |-> FALSE]
    IN  /\ store[o] # Absent => ~store[o].terminating
        /\ Change(o, new, [type |-> "set", obj |-> new])

\* A pod keeps its record while it terminates, a service while it has finalizers.  For
\* the other kinds it would be like a Write of the same content.
Terminate(o) ==
    /\ KindOf[o] \in {"pod", "svc"} /\ store[o] # Absent /\ ~store[o].terminating
    /\ LET new == [store[o] EXCEPT !.ver = changes + 1, !.terminating = TRUE]
       IN  Change(o, new, [type |-> "set", obj |-> new])

Remove(o) == store[o] # Absent /\ Change(o, Absent, [type |-> "deleted"])

\* Reflector.ListAndWatch and DeltaFIFO.Replace of client-go v0.22.2: the list goes into the
\* queue, and an object that the indexer has and the list has not is queued as deleted, its
\* final state unknown.  Replace looks at the indexer alone: an object that is gone and was
\* queued but never cached is overlooked, and its deltas are applied all the same.  The
\* mutex of the DeltaFIFO is held while an object is processed.
ListAndWatch(k) ==
    /\ watch[k] = "list" /\ proc[k].pc = "idle"
    /\ LET listed == {o \in Of(k) : store[o] # Absent}
           lost == {o \in Of(k) \ listed : cache[o] # Absent}
           missed == {o \in Of(k) \ (listed \cup lost) :
                         items[o] # <<>> /\ ~IsDeletion(items[o][Len(items[o])])}
       IN  /\ items' = [o \in Objects |->
                 CASE o \in listed -> Queued(items[o], [type |-> "set", obj |-> store[o]])
                   [] o \in lost -> Queued(items[o], [type |-> "unknown"])
                   [] OTHER -> items[o]]
           /\ initial' = IF populated[k] THEN initial ELSE [initial EXCEPT ![k] = listed]
           /\ overlooked' = (overlooked \ Of(k)) \cup missed
    /\ watch' = [watch EXCEPT ![k] = "on"]
    /\ populated' = [populated EXCEPT ![k] = TRUE]
    /\ UNCHANGED <<drops, store, changes, steady, proc, cache, serial, now, phase, stopped, dns>>

\* The watch breaks: what happens until the next list is not told.  With stopCh closed
\* the reflector ends instead.
WatchBreaks(k) ==
    /\ watch[k] = "on" /\ ~stopped /\ drops < MaxDrops
    /\ watch' = [watch EXCEPT ![k] = "list"] /\ drops' = drops + 1
    /\ UNCHANGED <<items, populated, initial, api, proc, cache, serial, now, phase,
                   stopped, dns>>

\* The reflector sees stopCh closed.  Its queue is still worked off.
ReflectorStops(k) ==
    /\ stopped /\ watch[k] # "off"
    /\ watch' = [watch EXCEPT ![k] = "off"]
    /\ UNCHANGED <<drops, items, populated, initial, api, proc, cache, serial, now, phase,
                   stopped, dns>>

-----------------------------------------------------------------------------
(* The processing of an object's deltas                                    *)

\* Variant: the namespace informer is left out.
SyncedWithoutNs == \A k \in Kinds \ {"ns"} : populated[k] /\ initial[k] = {}

\* All informers have processed their first list.
HasSynced == \A k \in Kinds : populated[k] /\ initial[k] = {}

\* DeltaFIFO.Pop.  The queue is in the order of arrival; here any object is taken, and
\* those of the first list are told by name where the DeltaFIFO counts them.
Pop(k, o) ==
    /\ proc[k].pc = "idle" /\ o \in Of(k) /\ items[o] # <<>>
    /\ proc' = [proc EXCEPT ![k] = [Resting EXCEPT !.pc = "apply", !.obj = o,
                                                   !.todo = items[o]]]
    /\ items' = [items EXCEPT ![o] = <<>>]
    /\ UNCHANGED <<watch, drops, populated, initial, api, cache, serial, now, phase,
                   stopped, dns>>

\* ToService, ToPod, ToEndpoints: the fields that are kept.
Convert(obj) == [ver |-> obj.ver, data |-> obj.data]

\* ToPod looks for the DeletionTimestamp after toPod has wiped the pod, unless the
\* clean-up is off: only then does it report errPodTerminating.
ConvertFails(k, obj) == k = "pod" /\ SkipCleanup /\ obj.terminating

endpointsEquivalent(a, b) == Significant[a.data] = Significant[b.data]

\* Variant: no handler for deletions is registered.
TouchesNotDeleted(k, old, d) ==
    /\ k # "ns" /\ ~IsDeletion(d)
    /\ old # Absent => /\ old.ver # d.obj.ver
                        /\ k = "ep" => ~endpointsEquivalent(old, Convert(d.obj))

\* Do OnAdd, OnUpdate (detectChanges) and OnDelete call updateModifed?  The namespace
\* informer has no handlers.
Touches(k, old, d) ==
    /\ k # "ns"
    /\ ~IsDeletion(d) /\ old # Absent =>
           /\ old.ver # d.obj.ver
           /\ k = "ep" => ~endpointsEquivalent(old, Convert(d.obj))

\* Variant: the loop does not see that no delta is left.
AdvanceAlways(k, todo) ==
    /\ proc' = [proc EXCEPT ![k] = [@ EXCEPT !.pc = "apply", !.todo = todo]]
    /\ UNCHANGED initial

\* The processing goroutine after its current delta; when the last is done the mutex of
\* the DeltaFIFO is released and an object of the first list counts as processed.
Advance(k, todo) ==
    IF todo # <<>>
    THEN /\ proc' = [proc EXCEPT ![k] = [@ EXCEPT !.pc = "apply", !.todo = todo]]
         /\ UNCHANGED initial
    ELSE /\ proc' = [proc EXCEPT ![k] = Resting]
         /\ initial' = [initial EXCEPT ![k] = @ \ {proc[k].obj}]

\* Variant: a deletion without a final state is not applied.
ApplyUnknownIgnored(k) ==
    /\ proc[k].pc = "apply"
    /\ LET o == proc[k].obj
           d == Head(proc[k].todo)
       IN  /\ cache' = [cache EXCEPT ![o] = CASE d.type = "set" -> Convert(d.obj)
                                              [] d.type = "deleted" -> Absent
                                              [] OTHER -> cache[o]]
           /\ Advance(k, Tail(proc[k].todo))
    /\ UNCHANGED <<watch, drops, items, populated, api, serial, now, phase, stopped, dns>>

\* Is one of the informer's handlers running?
Handling(k) == proc[k].pc \in {"stamp", "store"}

\* Does a change of the cache change the records of the zone?
Visible(k, old, new) ==
    /\ k # "ns"
    /\ IF old = Absent \/ new = Absent THEN old # new
       ELSE IF k = "ep" THEN Significant[old.data] # Significant[new.data]
       ELSE old.data # new.data

\* One delta is applied to the indexer.  An error ends the whole batch: the deltas that
\* follow it are lost.
Apply(k) ==
    /\ proc[k].pc = "apply"
    /\ LET o == proc[k].obj
           d == Head(proc[k].todo)
       IN  IF ~IsDeletion(d) /\ ConvertFails(k, d.obj)
           THEN Advance(k, <<>>) /\ UNCHANGED <<cache, latest, overlapped>>
           ELSE /\ cache' = [cache EXCEPT ![o] = IF IsDeletion(d) THEN Absent ELSE Convert(d.obj)]
                /\ latest' = IF Visible(k, cache[o], cache'[o]) THEN now ELSE latest
                /\ IF Touches(k, cache[o], d)
                   THEN /\ proc' = [proc EXCEPT ![k].pc = "stamp"]
                        /\ overlapped' = (overlapped \/ \E j \in Kinds : Handling(j))
                        /\ UNCHANGED initial
                   ELSE Advance(k, Tail(proc[k].todo)) /\ UNCHANGED overlapped
    /\ UNCHANGED <<watch, drops, items, populated, modified, api, now, phase, stopped, dns>>

\* updateModifed reads the clock and then stores what it read.
Stamp(k) ==
    /\ proc[k].pc = "stamp"
    /\ proc' = [proc EXCEPT ![k].pc = "store", ![k].stamp = now]
    /\ UNCHANGED <<queue, api, cache, serial, now, phase, stopped, dns>>

StoreModified(k) ==
    /\ proc[k].pc = "store"
    /\ modified' = proc[k].stamp
    /\ Advance(k, Tail(proc[k].todo))
    /\ UNCHANGED <<watch, drops, items, populated, latest, overlapped, api, cache, now, phase,
                   stopped, dns>>

Tick ==
    /\ now < MaxTime
    /\ now' = now + 1
    /\ UNCHANGED <<queue, api, proc, cache, serial, phase, stopped, dns>>

-----------------------------------------------------------------------------
(* Start and stop                                                          *)

\* OnStartup: Run starts the reflectors.
Run ==
    /\ phase = "setup"
    /\ phase' = "starting"
    /\ watch' = [k \in Kinds |-> "list"]
    /\ UNCHANGED <<drops, items, populated, initial, api, proc, cache, serial, now,
                   stopped, dns>>

\* OnStartup returns when a tick of 100 ms finds the cache synced, and after five seconds
\* anyway.
Serve ==
    /\ phase = "starting"
    /\ phase' = "serving"
    /\ UNCHANGED <<queue, api, proc, cache, serial, now, stopped, dns>>

\* Stop, under its mutex: the first call closes stopCh, a later one is an error.
Stop ==
    /\ phase # "setup" /\ ~stopped /\ MaxStops > 0
    /\ stopped' = TRUE
    /\ UNCHANGED <<queue, api, proc, cache, serial, now, phase, dns>>

-----------------------------------------------------------------------------
(* Queries                                                                 *)

\* What a query for an object reads, in order: Records asks for the namespace, findPods
\* and findServices for the pod or the service, and for a headless service the endpoints.
Path(o) ==
    IF KindOf[o] = "ep" THEN <<NsOf[o], SvcOf[o], o>> ELSE <<NsOf[o], o>>

Ask(h, o) ==
    /\ phase = "serving" /\ dns[h].pc \in {"idle", "replied"} /\ KindOf[o] # "ns"
    /\ dns' = [dns EXCEPT ![h] = [Quiet EXCEPT !.pc = "read", !.name = o, !.at = 1]]
    /\ UNCHANGED <<queue, api, proc, cache, serial, now, phase, stopped>>

Reply(h, reply) == dns' = [dns EXCEPT ![h] = [@ EXCEPT !.pc = "replied", !.reply = reply]]

\* One read of an indexer.  A miss is a name error: it falls through, or goes on to ask
\* whether the cache has synced; synced is history.
ReadCache(h) ==
    /\ dns[h].pc = "read"
    /\ LET path == Path(dns[h].name)
           miss == cache[path[dns[h].at]] = Absent
       IN  CASE miss /\ dns[h].name \in FallThrough -> Reply(h, "next")
             [] miss /\ dns[h].name \notin FallThrough ->
                    dns' = [dns EXCEPT ![h].pc = "sync", ![h].synced = HasSynced]
             [] ~miss /\ dns[h].at = Len(path) -> Reply(h, "records")
             [] ~miss /\ dns[h].at # Len(path) -> dns' = [dns EXCEPT ![h].at = @ + 1]
    /\ UNCHANGED <<queue, api, proc, cache, serial, now, phase, stopped>>

\* HasSynced takes the mutex of each DeltaFIFO: it waits for the object being processed.
CheckSynced(h) ==
    /\ dns[h].pc = "sync"
    /\ \A k \in Kinds : proc[k].pc # "idle" => populated[k] /\ initial[k] = {}
    /\ Reply(h, IF HasSynced THEN "nxdomain" ELSE "servfail")
    /\ UNCHANGED <<queue, api, proc, cache, serial, now, phase, stopped>>

-----------------------------------------------------------------------------
(* The specification                                                       *)

ReflectorStep(k) == ListAndWatch(k) \/ ReflectorStops(k)

ProcStep(k) == (\E o \in Objects : Pop(k, o)) \/ Apply(k) \/ Stamp(k) \/ StoreModified(k)

DnsStep(h) == ReadCache(h) \/ CheckSynced(h)

Next ==
    \/ \E o \in Objects : (\E data \in Data : Write(o, data)) \/ Terminate(o) \/ Remove(o)
    \/ \E k \in Kinds : ReflectorStep(k) \/ WatchBreaks(k) \/ ProcStep(k)
    \/ Tick \/ Run \/ Serve \/ Stop
    \/ \E h \in Dnss : (\E o \in Objects : Ask(h, o)) \/ DnsStep(h)

Spec == Init /\ [][Next]_vars

\* The API server answers a list at last and the goroutines are scheduled.
FairSpec ==
    /\ Spec
    /\ WF_vars(Run \/ Serve)
    /\ \A k \in Kinds : WF_vars(ReflectorStep(k)) /\ WF_vars(ProcStep(k))
    /\ \A h \in Dnss : WF_vars(DnsStep(h))

-----------------------------------------------------------------------------
(* Properties                                                              *)

\* Type invariant: also, a goroutine that processes has a delta left and only objects of
\* its own kind, and the versions that are queued or cached are ones the API server gave.
TypeOK ==
    /\ store \in [Objects -> ApiObjects \cup {Absent}]
    /\ changes \in 0 .. MaxChanges
    /\ steady \subseteq Objects /\ overlooked \subseteq Objects
    /\ watch \in [Kinds -> {"off", "list", "on"}]
    /\ drops \in 0 .. MaxDrops
    /\ items \in [Objects -> Seq(Deltas)]
    /\ populated \in [Kinds -> BOOLEAN]
    /\ initial \in [Kinds -> SUBSET Objects]
    /\ proc \in [Kinds -> [pc : {"idle", "apply", "stamp", "store"}, obj : Objects \cup {Absent},
                           todo : Seq(Deltas), stamp : 0 .. MaxTime]]
    /\ \A k \in Kinds : proc[k].pc # "idle" => proc[k].obj \in Of(k) /\ proc[k].todo # <<>>
    /\ cache \in [Objects -> Cached \cup {Absent}]
    /\ modified \in 0 .. MaxTime /\ latest \in 0 .. MaxTime /\ now \in 0 .. MaxTime
    /\ overlapped \in BOOLEAN
    /\ phase \in {"setup", "starting", "serving"}
    /\ stopped \in BOOLEAN
    /\ dns \in [Dnss -> [pc : {"idle", "read", "sync", "replied"}, name : Objects \cup {Absent},
                         at : 0 .. 3, synced : BOOLEAN,
                         reply : {"none", "records", "next", "nxdomain", "servfail"}]]

\* The deltas of an object that are still to be applied: those of the batch that is being
\* processed (its first is applied already when the handler runs), then the queued ones.
Batch(o) ==
    LET p == proc[KindOf[o]]
    IN  CASE p.obj # o -> <<>>
          [] p.obj = o /\ p.pc = "apply" -> p.todo
          [] OTHER -> Tail(p.todo)
Pending(o) == Batch(o) \o items[o]

\* What the cache will hold of an object when its pending deltas are applied.
Outcome(o) ==
    LET d == Pending(o)[Len(Pending(o))]
    IN  CASE Pending(o) = <<>> -> cache[o]
          [] Pending(o) # <<>> /\ IsDeletion(d) -> Absent
          [] OTHER -> Convert(d.obj)

\* What the indexer keeps of what the API server has.
Snapshot(obj) == IF obj = Absent THEN Absent ELSE Convert(obj)

\* While a kind is watched its cache is a delayed copy of the API server: the deltas that
\* are on their way lead to exactly what the API server has, through broken watches,
\* relists and batches (object/informer.go:27-74).  The one exception is client-go's: an
\* object that was queued, never cached, and gone when a watch that had broken was resumed
\* by a list.  It stays behind until the next such list or until it is created again.
CacheFollows ==
    \A o \in Objects :
        watch[KindOf[o]] = "on" =>
            \/ Outcome(o) = Snapshot(store[o])
            \/ o \in overlooked /\ store[o] = Absent

\* As long as the handlers of two informers never overlap, the serial of the zone keeps up
\* with it: when none is running, Modified is not older than the last change of what the
\* cache holds of a service, a pod or endpoints, deletions and relists included, and
\* whatever detectChanges leaves out (controller.go:416-442, :510-519).  When they do
\* overlap, the handler that read the clock first may store its time last.
ModifiedIsLatest ==
    ~overlapped /\ (\A k \in Kinds : proc[k].pc = "idle") => modified >= latest

\* A query that missed an object in a synced cache is told that the name does not exist
\* only if that object was at some time not in the API server: updates, relists and
\* broken watches never hide what was there all along (handler.go:30-42,
\* controller.go:279-291).  HasSynced is asked after the reads, so that a miss in a cache
\* that had not synced yet can be told as a name error as well: such reads are left out.
TruthfulNameError ==
    \A h \in Dnss :
        dns[h].reply = "nxdomain" /\ dns[h].synced => Path(dns[h].name)[dns[h].at] \notin steady

\* The cache converges: unless the controller is stopped, once the API server stops
\* changing the cache comes to agree with it for good, and HasSynced comes to hold.  The
\* exception is that of CacheFollows: an object that the last list overlooked, which is gone
\* from the API server and answered for ever by the cache (object/informer.go:12-26 leaves
\* the detection of deletions to the DeltaFIFO).
Converges ==
    <>[](\/ stopped
         \/ /\ HasSynced
            /\ \A o \in Objects : \/ cache[o] = Snapshot(store[o])
                                  \/ o \in overlooked /\ store[o] = Absent)
=============================================================================
