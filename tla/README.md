# A TLA+ model of k8s_dns_chaos

`k8s_dns_chaos` is a CoreDNS plugin: a copy of CoreDNS's `kubernetes` plugin that can give
chosen pods wrong DNS answers. Chaos Mesh tells it over gRPC which pods to afflict. This
directory models the plugin in TLA+, checks it with TLC and proves its safety properties with
TLAPS.
`PROJECT.json` maps every definition to the source lines it models.

## The system

| Part | State | Operations |
| --- | --- | --- |
| chaos rules (`chaos.go`, `kubernetes.go`) | `chaosMap`, `podMap`, `ipPodMap`, the `PodInfo` objects they point to | changed by all of the below |
| gRPC server (`grpc_server.go`) | none of its own | `SetDNSChaos`, `CancelDNSChaos` |
| DNS chaos path (`handler.go`, `chaos.go`) | a `*PodInfo` held across calls | `getChaosPod` (look up, refresh), `needChaos`, `chaosDNS` |
| set-up (`setup.go`, `kubernetes.go`) | the rules of the Corefile | `ParseStanza`, `InitKubeCache`, `CreateGRPCServer`, `OnStartup`, `OnShutdown` |
| cluster cache (`controller.go`, `object/`) | four indexers, `modified`, `stopCh` | `Run`, `Stop`, `HasSynced`, the handlers, `DefaultProcessor` |
| query path (`handler.go`, `kubernetes.go`, `parse.go`, `namespace.go`) | none | `Records`, `findServices`, `findPods` |
| reverse and external names (`reverse.go`, `external.go`) | none | `Reverse`, `External`, `ExternalAddress` |
| zone transfer (`xfr.go`) | two goroutines and two channels for each transfer | `Transfer`, `transfer` |
| `ns.go`, `autopath.go`, `metadata.go`, `metrics.go`, `local.go` | none the answers depend on | small pure functions |

CoreDNS runs every query in a goroutine of its own, gRPC every call; each informer has a
reflector and a processing goroutine. They share the three rule maps, the indexers and
`modified`. Every query first goes through `getChaosPod`, which may call the API server and
write the rule maps; then the indexers are read, and `needChaos` decides which answer is
sent.

What is hard here:

* **The lock.** `SetDNSChaos`, `CancelDNSChaos` and `getChaosPod` have value receivers. Each
  call locks the `RWMutex` in its own copy of `Kubernetes`, and the maps in that copy are the
  shared ones. So nothing is excluded: every map access is a step of its own in the model.
* **Addresses move.** A rule is found by the source address of a query. The API server is
  asked for a pod's address at one time and the answer is stored at a later one.
* **Things fail half way.** A `SetDNSChaos` that fails at one pod has done those before it.
* **The cache lags.** Watches break, deletions are learnt from relists, and a query reads
  several indexers while all of them change.
* **Several paths to one record.** Look-up by index, wildcard scan, zone transfer, reverse
  look-up, the name servers and the external plugin each compute names on their own, and each
  query type takes its own way through them.
* **Secondaries trust the serial.** The serial is a clock reading that event handlers store;
  a transfer reads the cache many times and the serial once, afterwards.
* **A reload is two instances in one process.** The gRPC listener of an instance is never
  closed, and the cache of one that fails after its `OnStartup` is never stopped.
* **The API server may not answer.** Its calls have no deadline (`context.Background()`).

The list of hazards, with the line where each bites and the properties that cover it, is in
`PROJECT.json`.

## The modules

### ChaosServer

Each map access, API call and clock reading of the handlers is an action, in the order of the
code: `SetRecord`, `SetGetPod`/`SetGetPodFails`, `SetCheckNs`, `SetMakeNs`, `SetFindOld`,
`SetDropPod`, `SetDropIP`, `SetStorePod`, `SetStoreIP` for `SetDNSChaos`; `CancelCheck` to
`CancelForget` for `CancelDNSChaos`; `Lookup`, `Fetch`/`FetchFails`, `Compare`, `Assign`,
`DropIP`, `StoreIP`, `Judge` for a query. `rpc[h]` and `dns[h]` hold a goroutine's program
counter and locals. Reads of `PodInfo` fields are made together with the map access they
serve. That a namespace has an inner map is checked in one step and the map made in another:
two Sets may both find it missing, and the second make drops what the first has filed.

* `PodInfo` pointers: `heap` maps an object's name, `<<request number, pod>>`, to its fields;
  the maps hold names. `nsMaps` is the set of namespaces that have an inner map in `podMap`.
* The selector of a rule is the set of its patterns, `Matches` says which names a pattern
  matches, and `BadPatterns` are those the trie refuses.
* `NilPanic` is a write to a nil inner map or a use of a vanished `chaosMap` entry. gRPC
  recovers no panic, so the process ends. A panic in `needChaos` is recovered by CoreDNS and
  is a reply, `"panic"`.
* `MapFault`: two goroutines are about to use one Go map and one of them writes. The Go
  runtime may notice and end the process, or not: then the two accesses happen in some order.
* External: the clock (`Tick`), the cluster (`PodChanges`), the API server's failures.

A request names a pod at most once (`RequestsAssumption`), as Chaos Mesh sends them.

### KubeCache

One reflector, DeltaFIFO and processing goroutine for each kind of object. API server,
reflector and queue are external (client-go v0.22.2, which `go.mod` pins): `ListAndWatch`
queues what is listed, and a `DeletedFinalStateUnknown` for every object that the indexer has
and the list has not. `DeltaFIFO.Replace` looks at the indexer alone. An object that was
queued, not yet cached, and deleted while the watch was broken gets no deletion: it is cached
when its turn comes and stays there. The history variable `overlooked` holds these objects,
and `CacheFollows` and `Converges` name them as their exception. `Apply` is one turn of
`DefaultProcessor`'s loop, `Stamp` and `StoreModified` are the two halves of `updateModifed`,
`ReadCache` is one read of an indexer by a query, `CheckSynced` the call of `HasSynced`. A
content is a member of `Data`; `Significant` is the part `endpointsEquivalent` compares.

`controller.go` imports the `object` package of CoreDNS 1.7.0; `src/object` is the copy of it
kept in this repository, and is what is modelled.

### RecordLookup

Pure functions over a record `w` that holds the caches and the options: the conversion of API
objects (`toService`, `toEndpoints`, with the sentinel for missing ports and the host name of
a load balancer that has no address), `parseRequest`,
`Records`, `findServices`, `findPods`, `Reverse`, `External`, `nsAddrs` and
`ExternalAddress`, the set of records that `transfer` sends, `endpointsEquivalent`,
`podWithIP`, `AutoPath` and `Metadata`; and above them what a query type makes of it:
`Services`, `getRecords`, `ServeDNS`. A name is the sequence of its labels. The module's one
action looks a name up; the properties compare the functions with each other. With
`noendpoints` there is no informer of endpoints, and a function that uses it panics (`Panic`):
look-ups of headless services and of endpoints, `ignore empty_service`, reverse look-ups of an
address that no service has, the zone's name servers, and transfers. Names in a reverse zone
are looked up by `Reverse` and not by `Records`. Of the labels with an underscore `_http` and
`_tcp` are known. Left out: TTLs, SRV weights, IPv6, "any" (a synonym of `*`) and letter
case. What package
`plugin` of CoreDNS does with the services (addresses for A, aliases for CNAME, no SRV for a
sentinel) is taken from how `handler.go` uses it.

### ZoneTransfer

`KubeCache` composed with the transfers of secondaries. `Transfer` is the request and the list
of services, `EmitService` one turn of `transfer`'s loop (a namespace look-up and the read of
the endpoints), `ReadSerial` the SOA, `SendEnvelope` one envelope on its way from the sender
goroutine through `dns.Transfer.Out` to the client, `SendFails` a write to a client that is
gone. Any step of the cache may come in between. A secondary asks when it has no copy or sees
another serial. Records carry the content of the object they were made from, their length
decides where envelopes are cut.

### PluginSetup

The stanza: `ParseOption` is one turn of `ParseStanza`'s loop, `ParseZones` what comes before
it, `kubernetesParse` the whole. The life of instances: `Load` (parse), `InitKubeCache` or its
failure, `CreateGRPCServer` or its failure (no such port, or another process has it),
`OnStartup`, `Synced` or `Timeout`, `OnShutdown`; `stage` is the instance's place in it. CoreDNS
is external: it loads one Corefile at a time, lets the new instance take over when all start-up
functions have returned and the DNS ports are open, shuts the old one down then, and keeps the
old one when anything fails. `OtherSetupFails` is a failure of another plugin before this one's
`OnStartup`; the instance is `"abandoned"` and its gRPC port stays open. `OtherStartupFails` is
one after it, or a DNS port that cannot be opened: caddy calls no `OnShutdown` for an instance
that never served, so in a reload its cache runs on (`"leaked"`). If the first load fails the
process ends and its ports are free again. Requests go to whoever listens on a port. An
instance is the plugin in one server block; the set-up of a further block that is refused, say
because its gRPC port is the same, is an `OtherSetupFails`.

### ChaosContract and ChaosRefinement

`ChaosContract` is what the plugin promises the controller of Chaos Mesh, which sends one call
at a time: a pod has one rule at most; a `SetDNSChaos` that succeeds has given all its pods
its rule; one that fails is on record, so that a Cancel undoes it; a Cancel leaves none of its
pods with a rule; nothing else touches a rule. The promise is about settled pods (below). It
knows no maps, addresses, pointers or queries.

`ChaosRefinement` instantiates it over `ChaosServer`: the rule of a settled pod is what
`ipPodMap` leads a query from its address to, `recorded` is `chaosMap`, the call is read off the
one RPC handler that is not idle. Every step of `ChaosServer` must be a step of the contract or
leave it unchanged (`KeepsContract`).

The `MC` modules give the constants values for TLC.

## The runs

| Run | Instance | What it shows |
| --- | --- | --- |
| `chaos_serial` | 1 RPC, 1 DNS goroutine, 2 pods, 2 addresses, 3 requests (two experiments share a pod, one is refused), 2 Sets, 1 move, 1 tick | types; `podMap` and `ipPodMap` agree about settled pods; after a Cancel, or when a failed Set was never recorded, nothing is afflicted; no nil map is written |
| `chaos_concurrent` | 2 RPCs, 1 DNS goroutine, 2 Sets, no move | a settled pod is afflicted only by its own rule |
| `chaos_contract` | 1 RPC, 1 DNS goroutine, Corefile rules of two pods, one experiment on two pods and a refused one, 1 move, 1 tick, fair | the handlers implement `ChaosContract`; entries, rules and addresses in flight belong together; handed-out rules are immutable; every handler ends, unless it waits for the API server for ever |
| `kube_cache` | a service and its endpoints, three informers, 2 contents, 1 change, 1 broken watch, 1 stop, 1 tick | the cache is a delayed copy of the API server, save what a relist overlooks; the serial keeps up |
| `kube_query` | namespace, headless service, endpoints, 1 change, 1 broken watch, 1 query at a time, fair | no false name errors from a synced cache; convergence, save what a relist overlooks |
| `record_lookup` | up to 3 services of any type in 2 namespaces, with and without ports, endpoints with 0 to 2 addresses, load balancers with addresses and host names, 4 option sets, 67 names, 10 query types | the lookups agree with each other; see the list below |
| `zone_transfer` | namespace, service (headless or not), endpoints, 2 contents, 1 change, 1 tick, 1 secondary, 2 or 3 envelopes for a transfer, fair | a secondary with an old zone sees another serial; a transfer is complete and ends |
| `reload` | up to 4 loads of good and bad Corefiles with two ports and one that does not exist, 1 experiment, fair; stanzas of two or three of 25 lines, right and wrong, and their reorderings | a refused load leaves nothing; every running cache is accounted for; requests reach the serving instance; loads end; options commute |

`record_lookup` checks that no name above one with records is a name error
(`AncestorsExist`); that a wildcard is the union of what it stands for (`WildcardIsUnion`);
that a transfer sends what the server answers (`TransferIsServed`); that reverse names lead
back (`ReverseLeadsBack`); that the external plugin shows nothing hidden
(`ExternalIsInternal`); that a name error does not depend on the query type
(`NameErrorForAllTypes`); that a service with a ClusterIP is found whatever its ports
(`ClusterIPResolves`); that the name servers can be looked up (`NameServersResolve`); that an
update the serial does not show does not change the zone (`EquivalentMeansSameZone`); and that
a client the plugin knows as a pod has a pod name that leads back to it (`ClientHasPodName`).

Several of them hold with exceptions, which are what the code does:

* `AncestorsExist`: the name between a port and its service. `_http._tcp.a.ns1.svc` has
  records, and `_tcp.a.ns1.svc` is read as the endpoint `_tcp` and is a name error.
* `WildcardIsUnion`: with `ignore empty_service` a wildcard also shows empty services, as soon
  as any service has an address, because addresses are counted over all endpoints. A comment
  (`kubernetes.go:461`) says that they are hidden.
* `TransferIsServed`: `transfer` never looks at `ignore empty_service`, so that secondaries
  get services which the primary denies; the sentinel of a service without ports is sent as
  port 65535; and with `noendpoints` a transfer that meets a headless service panics in a
  goroutine of its own, which ends the process (`TransferPanics`).
* `NameServersResolve`: the address of a load balancer with a host name is nil
  (`net.ParseIP`), as is the ClusterIP of an ExternalName service.
* `EquivalentMeansSameZone`: with `endpoint_pod_names` the pods' names are not compared.

Why the bounds are enough: the interesting races need two RPCs, or an RPC and a query, or two
queries, and one address that changes hands (two pods, two addresses, one move). With
`OverdueAfter = 0` one tick makes a rule overdue. Two Sets are needed to replace a rule. For
the cache, every initial content of the API server is tried, so one change is a creation, an
update, a termination or a deletion, before, during or after a broken watch. The informer of
pods does what that of services does (only the tests, with `SkipCleanup`, make it refuse a
terminating pod), so one of the two is enough. For a transfer, one change before, between or
after its reads, in the same second or the next, and one secondary: secondaries do not
interact. For reloads, four loads are a first one, a refused one, one that takes over and one
that is loaded when the port of the first is still taken. Goroutines and addresses are
interchangeable in the safety runs (`SYMMETRY`), and no liveness run uses symmetry.
`kube_cache`, `zone_transfer` and `reload` do not check for deadlock: with no query goroutine
in the instance, a controller that is stopped or has followed the last change, a secondary
whose copy is up to date, and CoreDNS after its last load was refused have nothing left to do.

*Settled* pods are those with one address that no other pod ever had. For pods that
move, `ipPodMap` may hold what the code leaves behind; those cases are the findings below.
`ModifiedIsLatest` is stated for behaviours in which the handlers of two informers do not
overlap, because otherwise the later store may carry the earlier time.

`SecondaryNotices` spells out where the code lets a secondary keep an old zone: the cache
changed between the reads of the transfer (then old records carry the new serial), or again in
the second of the serial (both are told by the history variable `raced`); a namespace came or
went (its informer has no handlers); handlers overlapped. Without any one of the first three
exceptions TLC finds such a secondary.
`TruthfulNameError` leaves out reads of a cache that was not synced: since
`HasSynced` is asked after the reads, such a miss can be told as NXDOMAIN although
`handler.go:39` announces a server failure.

A panic with `noendpoints` in a query is recovered by CoreDNS and answered with a failure.
`HotUpdatesArrive` is about the port of the Corefile in force: a request to the port of an
earlier instance is acknowledged and has no effect, and a reload that keeps the port is refused.
`NoNilPanic` is about one RPC at a time: with two, handlers do panic.

### What a document says and the code does not do

Four runs expect a violation:

* `doc_cancel` - the refresh in `getChaosPod` sets `podInfo.IP` before it deletes the entry of
  `podInfo.IP`. The entry of the old address stays, also after the Cancel.
* `doc_overdue` - a rule is refreshed by a query from its old address only; a pod that comes
  back with another address escapes its rule for ever, even if it goes on asking.
* `doc_scope` - a chaos line with scope `inner` or `outer` has no selector; a query panics.
* `doc_hotupdate` - an RPC and a query use one Go map at a time, one of them writing.

### Fairness

`ChaosServer!FairSpec`: weak fairness of each goroutine's next step, except a call of the API
server. Go schedules runnable goroutines and no step waits for another goroutine (the locks
exclude nobody); but `getPodFromCluster` has no deadline, so nothing says that it returns.
`HandlersFinish` therefore says that a handler ends or stays for ever in that one call.
`AskingSpec`, for `doc_overdue`, adds what that comment takes for granted: set-up is done, the
API server answers, a pod with an address goes on asking and its fetch succeeds if it is tried
again and again. `KubeCache!FairSpec`: the API server answers a list at last, processing
goroutines and queries are scheduled. `ZoneTransfer!FairZoneSpec`: the goroutines of a transfer
are scheduled, and a write to a client is assumed to end, if only with an error (TCP times
out); nothing is assumed of the cache. `PluginSetup!FairSpec`: CoreDNS goes on with a load and
the timer of `OnStartup` fires; neither that the cache syncs is assumed nor that the API server
answers `InitKubeCache`.

## The proofs

Every safety property that a passing run checks is also proved, for every value of the
constants: every set of pods, addresses, requests, objects, clusters, names, clients,
Corefiles and goroutines, and every bound.

| Module | Theorems |
| --- | --- |
| `ChaosServerProofs` | `TypeCorrect`, `RulesKnowTheirPods`, `OnlySelectedPodsAfflicted` |
| `ChaosRulesProofs` | `RulesInUseImmutable`, and for one RPC at a time `SerialMapsAgree`, `SerialCancelIsComplete` (and the lemma `SerialCallsDoNotPanic`) |
| `ChaosRefinementProofs` | for one RPC at a time `SerialServerKeepsContract` |
| `KubeCacheProofs` | `TypeCorrect`, `CacheFollowsApi`, `NameErrorsAreTruthful`, `SerialKeepsUp` |
| `RecordLookupProofs` | one theorem for each of the ten invariants |
| `ZoneTransferProofs` | `SecondariesNotice`, `EnvelopesAlwaysFit` |
| `PluginSetupProofs` | `RefusalIsClean`, `RunningCaches`, `RequestsReachServing`, `OptionsInAnyOrder` |
| `SetInduction` | lemmas on numbers: smallest elements and induction |

### What they assume

* The named `ASSUME`s of the modules, which TLC evaluates on every run. They type the
  constants: what the API server takes as a service, endpoints or an address
  (`ClusterAssumption`, `AddressAssumption`), that a service has a namespace and a SOA fits an
  envelope (`TransferAssumption`), that a request names a pod once (`RequestsAssumption`).
* `OneRpc`: one RPC is served at a time. The locks at the head of the handlers are meant to
  see to it and do not, so it is an assumption about the controller, which waits for an answer
  before it sends the next call. Queries, refreshes, pod changes and crashes interleave with
  the call as they like. Without it handlers do panic (the action `NilPanic`).
* `NothingFails`: pods are not watched with `skipAPIObjectsCleanup`, the option that only the
  tests set. With it a terminating pod cannot be converted, the batch ends there and the
  deltas behind it are lost: `CacheFollows` is false.

### ChaosServer

* `TypeCorrect`: `TypeOK` says of the pod loops that they stay inside their request. It is not
  inductive: that an action writes a `PodInfo` through a pointer needs the pointer to lead to
  one. `Shape` adds `Lifecycle` (nothing runs before set-up is through; a process that is down
  holds nothing), `Pointers` (no pointer in a map or a local dangles) and `Locals` (a
  handler's locals are set where it uses them).
* `RulesKnowTheirPods` (`IPProvenance`): `Provenance` strengthens it with `MapsOwn` (each
  address in `ipPodMap` was once that of the entry's pod, each entry of `podMap` is its key's,
  and the addresses the API server reports now are recorded), `FetchedOwn` (so was each
  address a handler has fetched, from the fetch to the store) and `JudgedOwn` (a query's rule
  was filed under the query's source address).
* `OnlySelectedPodsAfflicted`, from `JudgedOwn`: if the rule was another pod's, that pod once
  had the address, and the asking pod is not settled.
* `RulesInUseImmutable`: a `SetDNSChaos` makes new objects and never writes over one. That its
  names are new is `NumbersFresh` and `RoomLeft`: running calls have different numbers, and
  the objects a call has still to make are not there, because a request names a pod once.
* `SerialCallsDoNotPanic`, a lemma: `NothingRemoved`, what a handler found in a map is there
  until it uses it. It says that what is left when calls do not overlap is in order, and is
  used by the next two.
* `SerialMapsAgree`: `Indexed` says that `podMap` and `ipPodMap` agree about a pod with an
  address of its own except `Between` two writes of a handler, and `MidCall` what the handler
  has done by then. `Filed` (a pod with an entry in `podMap` has its namespace there) is why
  `SetMakeNs`, which starts an empty inner map, drops nothing when calls do not overlap
  (`MakesEmpty`). That nobody else writes the entry is `RuleHistory`, which needs no
  `OneRpc`: the address in a `PodInfo` is one its pod had, a handler that drops a rule holds a
  rule of its own pod, and a query writes the maps only for a pod that moved, which is then
  not settled.
* `SerialCancelIsComplete`: `Recorded` (an experiment is in `chaosMap` before its first rule
  is made and until its last one is gone) and `RulesListed` (a pod with a rule is on a chaos
  line or in a recorded experiment).
* `SerialServerKeepsContract`, the refinement: `InitRefines`, and `StepRefines` with one lemma
  for each group of actions. `As...` lemmas say when a step is which step of the contract: the
  store of an entry gives the pod its rule, a drop lifts it, the deletion from `chaosMap` is
  the end of a Cancel. `Imposed` (the pods a call is through with have the rule it asks for)
  is the further invariant it needs: only with it does a Set that returns without an error
  keep its promise.

Each has one lemma per group of actions, and in it one step per action. The steps that only
move one handler on and change some map entries rest on two shared lemmas, `RpcMove` and
`DnsMove`: they ask that the handler's new locals (`RpcOK`, `DnsOK`) and the new pointers are
well formed, and give `Shape'`.

### KubeCache

* `CacheFollowsApi`: `Follows` is `CacheFollows` with the deltas of the batch in progress and
  those of the queue told apart. `After` says what the cache holds once a sequence of deltas
  is applied; the last delta decides, so that a delta may be queued behind and one taken off
  the front. For an object that is `overlooked` nothing is claimed while it is gone.
* `NameErrorsAreTruthful`: `SteadyKept`, an object that was there all along has no deletion on
  its way, and from the first list on it is cached or still counted by `HasSynced`.
* `SerialKeepsUp`: `KeepsUp` (at most one handler runs, and the time it is about to store is
  not older than the last change) needs `Identified`: a resource version identifies a content,
  which `detectChanges` relies on when it skips an update with the cached version.

### RecordLookup

The invariant, `LookedUp`, is short: the state is a converted cache, a name and the answer for
it. The theorems are about the functions. `ParseFields` says what `parseRequest` makes of a
name of three, four or five labels; `FindServices`, `ServiceByName`, `EndpointByName`,
`PortByName` what the look-up finds for a name, `ClusterRecord`, `EndpointRecord` and
`AliasRecord` that a given service or endpoint is among it. The properties compare two paths
to a record, so each is proved by giving both in these terms. `WildcardsAreUnions` goes
through `SameAsked`: two requests that differ in service and namespace only ask the same of a
service both are about, and `ToldOfOne`: what the scan tells of a service its own name tells,
unless it is hidden there as empty.

### ZoneTransfer

A step of a transfer leaves the cache alone, so what `KubeCacheProofs` shows holds here too
(`CacheInv`). `ZoneInv` says of a transfer that has not been raced that the records so far are
those of the services so far (`Emitting`), and of one that sends, and of a copy, that the
records are the zone or the zone has changed at a time later than the serial (`UpToDate`).
`ZoneChange`: a step that changes the zone for the same namespaces moves `latest` to now. With
`KeepsUp` the serial follows. `EnvelopesAlwaysFit` is about sums: `Length` is a recursive
function, and that it is what its definition says (`LengthOf`) is proved from tables of its
values up to a number, of which there is one for every number.

### PluginSetup

`RefusalIsClean`, `RunningCaches` and `RequestsReachServing` are not inductive. `SetupInv`
adds that loads do not overlap (`OneLoad`), that instances not loaded yet are untouched
(`Fresh`), that the instance that serves is the current one (`CurrentServes`), that an
instance past its `CreateGRPCServer` holds the port of its Corefile (`OwnsPort`; it is never
closed, which is why requests arrive), that one which is not past it holds no port and took no
experiment (`Unheard`), and that the running caches are those of the stages from `OnStartup`
to `OnShutdown` and of the loads that failed in between (`CacheRuns`). The argument rests on
the order of `setup`: `CreateGRPCServer` is the last of its steps that can fail.

`OptionsInAnyOrder`: a line is refused whatever came before it, or it changes one field to
what it makes of that field, and no two options have a field in common (`OneField`,
`FieldsOfOptions`). So two lines of different options commute (`TurnsCommute`), and the lines
behind them find the same configuration.

### Only model-checked

`HandlersFinish`, `Converges`, `TransferEnds` and `LoadEnds`: liveness under fairness, and
`ENABLED`, are out of the prover's reach. Induction is done over sets of numbers
(`SetInduction`), which is first-order; the library's induction rules take an operator and
cannot be used.

## Not modelled

* `metrics.go` and the call of `recordDNSProgrammingLatency`: a histogram that nothing reads.
* The generated `pb` code (the messages are the requests of `ChaosServer`), the accessors of
  `object/` that implement `metav1.Object` and hold no logic, `CopyWithoutSubsets` and
  `DeepCopyObject`.
* The Kubernetes client's configuration, `resolv.conf`, key files: I/O that succeeds or fails.
* DNS wire formats, TTLs, SRV weights, letter case, IPv6, the random address of `chaosDNS`.

## Plan

1. (done) `ChaosServer`, its runs and the proofs of its type and provenance invariants.
2. (done) `KubeCache` and `RecordLookup`, model-checked.
3. (done) `ZoneTransfer` over `KubeCache`; `PluginSetup` with reloads, proved; `ChaosContract`
   and the refinement; query types, name servers, conversion and options in `RecordLookup`.
4. (done) Proofs of all safety properties: the cache, the lookups, transfers, the rules with one
   RPC at a time, the refinement, the order of options.
5. Left: the type invariants of `ZoneTransfer` and `PluginSetup` as theorems of their own, and what
   part of `SettledPodsIndexed` survives concurrent RPCs on different pods.
