-------------------------- MODULE KubeCacheProofs --------------------------
(***************************************************************************)
(* What holds of the cache for any cluster, any number of changes, broken  *)
(* watches and queries.  A batch of deltas is told by what is left of it:  *)
(* After says what the cache holds once a sequence of deltas is applied,   *)
(* Told which contents the sequence names.                                 *)
(***************************************************************************)
EXTENDS KubeCache, TLAPS

-----------------------------------------------------------------------------
(* Sequences of deltas                                                     *)

\* What a delta makes of the cached object.
Effect(d) == IF IsDeletion(d) THEN Absent ELSE Convert(d.obj)

\* What is cached of an object once deltas are applied to old: the last one decides.
After(deltas, old) == IF deltas = <<>> THEN old ELSE Effect(deltas[Len(deltas)])

\* The contents that deltas tell of.
Told(deltas) == {Convert(deltas[i].obj) : i \in {j \in DOMAIN deltas : ~IsDeletion(deltas[j])}}

NoDeletion(deltas) == \A i \in DOMAIN deltas : ~IsDeletion(deltas[i])

\* A delta that is not a deletion carries an object of the API server.
LEMMA DeltaObject ==
    ASSUME NEW d \in Deltas
    PROVE  /\ ~IsDeletion(d) => d.obj \in ApiObjects /\ Convert(d.obj) \in Cached
           /\ Effect(d) \in Cached \cup {Absent}
           /\ ~IsDeletion(d) => Effect(d) = Convert(d.obj) /\ Effect(d) # Absent
  BY AbsentAssumption DEF Deltas, IsDeletion, Convert, ApiObjects, Cached, Effect

\* The deltas the API server and the reflector make.
LEMMA MadeDeltas ==
    /\ \A obj \in ApiObjects : [type |-> "set", obj |-> obj] \in Deltas
    /\ [type |-> "deleted"] \in Deltas /\ [type |-> "unknown"] \in Deltas
    /\ \A obj \in ApiObjects : ~IsDeletion([type |-> "set", obj |-> obj])
    /\ IsDeletion([type |-> "deleted"]) /\ IsDeletion([type |-> "unknown"])
  BY DEF Deltas, IsDeletion

\* A delta that is queued decides what the cache will hold, whether or not the queue ended
\* in a deletion that it is merged with (DeltaFIFO's dedupDeltas).
LEMMA QueuedFacts ==
    ASSUME NEW s \in Seq(Deltas), NEW d \in Deltas
    PROVE  /\ Queued(s, d) \in Seq(Deltas) /\ Queued(s, d) # <<>>
           /\ \A old : After(Queued(s, d), old) = Effect(d)
           /\ Told(Queued(s, d)) \subseteq
                  Told(s) \cup (IF IsDeletion(d) THEN {} ELSE {Convert(d.obj)})
           /\ NoDeletion(s) /\ ~IsDeletion(d) => NoDeletion(Queued(s, d))
<1>1. CASE s # <<>> /\ IsDeletion(s[Len(s)]) /\ IsDeletion(d)
  <2>1. Queued(s, d) = s
    BY <1>1 DEF Queued
  <2> QED
    BY <1>1, <2>1 DEF After, Effect
<1>2. CASE ~(s # <<>> /\ IsDeletion(s[Len(s)]) /\ IsDeletion(d))
  <2> DEFINE q == Append(s, d)
  <2>1. /\ Queued(s, d) = q /\ q \in Seq(Deltas) /\ q # <<>> /\ Len(q) = Len(s) + 1
        /\ q[Len(q)] = d /\ DOMAIN q = 1 .. Len(s) + 1 /\ DOMAIN s = 1 .. Len(s)
        /\ Len(s) \in Nat /\ \A i \in DOMAIN s : q[i] = s[i]
    BY <1>2 DEF Queued
  <2> HIDE DEF q
  <2>2. \A i \in DOMAIN q : (i \in DOMAIN s /\ q[i] = s[i]) \/ q[i] = d
    BY <2>1
  <2>3. \A old : After(q, old) = Effect(d)
    BY <2>1 DEF After
  <2>4. Told(q) \subseteq Told(s) \cup (IF IsDeletion(d) THEN {} ELSE {Convert(d.obj)})
    BY <2>2 DEF Told
  <2>5. NoDeletion(s) /\ ~IsDeletion(d) => NoDeletion(q)
    BY <2>2 DEF NoDeletion
  <2> QED
    BY <2>1, <2>3, <2>4, <2>5
<1> QED
  BY <1>1, <1>2

\* Applying the first delta and then the others is applying them all.
LEMMA TailFacts ==
    ASSUME NEW s \in Seq(Deltas), s # <<>>
    PROVE  /\ Head(s) \in Deltas /\ Tail(s) \in Seq(Deltas)
           /\ \A old : After(Tail(s), Effect(Head(s))) = After(s, old)
           /\ Told(Tail(s)) \subseteq Told(s)
           /\ ~IsDeletion(Head(s)) => Convert(Head(s).obj) \in Told(s)
           /\ NoDeletion(s) => NoDeletion(Tail(s)) /\ ~IsDeletion(Head(s))
<1> DEFINE t == Tail(s)
<1>1. /\ t \in Seq(Deltas) /\ Len(t) = Len(s) - 1 /\ Len(s) \in Nat \ {0}
      /\ DOMAIN s = 1 .. Len(s) /\ DOMAIN t = 1 .. Len(t)
      /\ Head(s) = s[1] /\ 1 \in DOMAIN s /\ s[1] \in Deltas
      /\ \A i \in DOMAIN t : t[i] = s[i + 1] /\ i + 1 \in DOMAIN s
  OBVIOUS
<1>2. \A old : After(t, Effect(Head(s))) = After(s, old)
  <2>1. CASE t = <<>>
    BY <1>1, <2>1 DEF After
  <2>2. CASE t # <<>>
    <3>1. Len(t) \in DOMAIN t /\ t[Len(t)] = s[Len(s)]
      BY <1>1, <2>2
    <3> QED
      BY <3>1, <2>2 DEF After
  <2> QED
    BY <2>1, <2>2
<1> HIDE DEF t
<1>3. Told(t) \subseteq Told(s)
  BY <1>1 DEF Told
<1>4. ~IsDeletion(Head(s)) => Convert(Head(s).obj) \in Told(s)
  BY <1>1 DEF Told
<1>5. NoDeletion(s) => NoDeletion(t) /\ ~IsDeletion(Head(s))
  BY <1>1 DEF NoDeletion
<1> QED
  BY <1>1, <1>2, <1>3, <1>4, <1>5 DEF t

\* No deltas leave the cache alone and tell of nothing.
LEMMA EmptyFacts ==
    /\ <<>> \in Seq(Deltas) /\ Told(<<>>) = {} /\ NoDeletion(<<>>)
    /\ \A old : After(<<>>, old) = old
<1>1. DOMAIN << >> = {} /\ <<>> \in Seq(Deltas)
  OBVIOUS
<1> QED
  BY <1>1 DEF Told, NoDeletion, After

\* What an object's pending deltas lead to: those of the batch first, then the queued ones.
LEMMA OutcomeIsAfter ==
    ASSUME NEW o, items[o] \in Seq(Deltas), Batch(o) \in Seq(Deltas)
    PROVE  Outcome(o) = After(items[o], After(Batch(o), cache[o]))
<1> DEFINE b == Batch(o)
           s == items[o]
           p == b \o s
<1>1. p \in Seq(Deltas) /\ Len(p) = Len(b) + Len(s) /\ Len(b) \in Nat /\ Len(s) \in Nat
  OBVIOUS
<1>2. CASE s = <<>> /\ b = <<>>
  <2>1. p = <<>>
    BY <1>2
  <2> QED
    BY <1>2, <2>1 DEF Outcome, Pending, After
<1>3. CASE s = <<>> /\ b # <<>>
  <2>1. p = b
    BY <1>3
  <2> QED
    BY <1>3, <2>1 DEF Outcome, Pending, After, Effect
<1>4. CASE s # <<>>
  <2>1. p # <<>> /\ p[Len(p)] = s[Len(s)]
    BY <1>1, <1>4
  <2> QED
    BY <1>4, <2>1 DEF Outcome, Pending, After, Effect
<1> QED
  BY <1>2, <1>3, <1>4

-----------------------------------------------------------------------------
(* Type correctness                                                        *)

ProcLocals == [pc : {"idle", "apply", "stamp", "store"}, obj : Objects \cup {Absent},
               todo : Seq(Deltas), stamp : 0 .. MaxTime]
DnsLocals == [pc : {"idle", "read", "sync", "replied"}, name : Objects \cup {Absent},
              at : 0 .. 3, synced : BOOLEAN,
              reply : {"none", "records", "next", "nxdomain", "servfail"}]

\* An informer that processes nothing holds no object.
Rested == \A k \in Kinds : proc[k].pc = "idle" => proc[k] = Resting

\* A query that has not been answered is at a place of its path, and one that still reads
\* has not missed anything.
Asking ==
    \A h \in Dnss :
        /\ dns[h].pc \in {"read", "sync"} =>
               dns[h].name \in Objects /\ dns[h].at \in 1 .. Len(Path(dns[h].name))
        /\ dns[h].pc = "read" => ~dns[h].synced

Shape == TypeOK /\ Rested /\ Asking

\* The path of a query is at most three objects long.
LEMMA PathFacts ==
    ASSUME NEW o \in Objects, Dnss # {}
    PROVE  /\ Path(o) \in Seq(Objects) /\ Len(Path(o)) \in 2 .. 3
           /\ \A i \in 1 .. Len(Path(o)) : Path(o)[i] \in Objects
<1>1. NsOf[o] \in Objects /\ (KindOf[o] = "ep" => SvcOf[o] \in Objects)
  BY PathAssumption
<1>2. Path(o) \in Seq(Objects) /\ Len(Path(o)) \in 2 .. 3
  BY <1>1 DEF Path
<1> QED
  BY <1>2

LEMMA RestingType == Resting \in ProcLocals /\ Resting.pc = "idle" /\ Resting.obj = Absent
  BY BoundsAssumption DEF Resting, ProcLocals

LEMMA QuietType == Quiet \in DnsLocals /\ Quiet.pc = "idle" /\ Quiet.synced = FALSE
  BY DEF Quiet, DnsLocals

LEMMA InitShape == Init => Shape
<1> SUFFICES ASSUME Init PROVE Shape
  OBVIOUS
<1>1. store \in [Objects -> ApiObjects \cup {Absent}]
  <2> DEFINE c == CHOOSE d \in Data : TRUE
  <2>1. c \in Data
    BY ValuesAssumption
  <2>2. store \in [Objects -> {Absent} \cup [ver : {0}, data : {c}, terminating : {FALSE}]]
    BY DEF Init
  <2> HIDE DEF c
  <2>3. ASSUME NEW x \in [ver : {0}, data : {c}, terminating : {FALSE}] PROVE x \in ApiObjects
    <3>1. x = [ver |-> x.ver, data |-> x.data, terminating |-> x.terminating]
      BY <2>3
    <3>2. x.ver \in {0} /\ x.data \in {c} /\ x.terminating \in {FALSE}
      BY <2>3, Zenon
    <3>3. x.ver \in 0 .. MaxChanges /\ x.data \in Data
      BY <2>1, <3>2, BoundsAssumption
    <3>4. x.terminating \in BOOLEAN
      BY <3>2, Zenon
    <3> QED
      BY <3>1, <3>3, <3>4 DEF ApiObjects
  <2> QED
    BY <2>2, <2>3
<1>2. items \in [Objects -> Seq(Deltas)]
  BY EmptyFacts DEF Init
<1>3. /\ proc \in [Kinds -> ProcLocals] /\ dns \in [Dnss -> DnsLocals]
      /\ \A k \in Kinds : proc[k].pc = "idle"
  BY RestingType, QuietType DEF Init
<1>4. TypeOK
  <2>1. /\ changes \in 0 .. MaxChanges /\ steady \subseteq Objects /\ drops \in 0 .. MaxDrops
        /\ overlooked \subseteq Objects
        /\ modified \in 0 .. MaxTime /\ latest \in 0 .. MaxTime /\ now \in 0 .. MaxTime
    BY BoundsAssumption DEF Init
  <2>2. /\ watch \in [Kinds -> {"off", "list", "on"}] /\ populated \in [Kinds -> BOOLEAN]
        /\ initial \in [Kinds -> SUBSET Objects] /\ cache \in [Objects -> Cached \cup {Absent}]
        /\ overlapped \in BOOLEAN /\ phase \in {"setup", "starting", "serving"}
        /\ stopped \in BOOLEAN
    BY DEF Init
  <2> QED
    BY <1>1, <1>2, <1>3, <2>1, <2>2 DEF TypeOK, ProcLocals, DnsLocals
<1>5. Rested /\ Asking
  BY QuietType DEF Init, Rested, Asking
<1> QED
  BY <1>4, <1>5 DEF Shape

\* The processing goroutine when it is through with a delta.
LEMMA AdvanceFacts ==
    ASSUME Shape, NEW k \in Kinds, NEW todo \in Seq(Deltas), proc[k].pc # "idle",
           Advance(k, todo)
    PROVE  /\ proc' \in [Kinds -> ProcLocals] /\ initial' \in [Kinds -> SUBSET Objects]
           /\ \A j \in Kinds \ {k} : proc'[j] = proc[j] /\ initial'[j] = initial[j]
           /\ todo # <<>> => /\ proc'[k] = [proc[k] EXCEPT !.pc = "apply", !.todo = todo]
                             /\ initial'[k] = initial[k]
           /\ todo = <<>> => /\ proc'[k] = Resting
                             /\ initial'[k] = initial[k] \ {proc[k].obj}
<1>1. /\ proc \in [Kinds -> ProcLocals] /\ initial \in [Kinds -> SUBSET Objects]
      /\ proc[k] \in ProcLocals
  BY DEF Shape, TypeOK, ProcLocals
<1>2. CASE todo # <<>>
  <2>1. [proc[k] EXCEPT !.pc = "apply", !.todo = todo] \in ProcLocals
    BY <1>1 DEF ProcLocals
  <2> QED
    BY <1>1, <1>2, <2>1 DEF Advance
<1>3. CASE todo = <<>>
  BY <1>1, <1>3, RestingType DEF Advance
<1> QED
  BY <1>2, <1>3

\* What every step of an informer's goroutine keeps of the others.
LEMMA ProcShape ==
    ASSUME Shape, NEW k \in Kinds, proc' \in [Kinds -> ProcLocals],
           \A j \in Kinds \ {k} : proc'[j] = proc[j],
           \/ proc'[k] = Resting
           \/ proc'[k].pc # "idle" /\ proc'[k].obj \in Of(k) /\ proc'[k].todo # <<>>
    PROVE  /\ \A j \in Kinds : proc'[j].pc # "idle" =>
                  proc'[j].obj \in Of(j) /\ proc'[j].todo # <<>>
           /\ Rested'
  BY RestingType DEF Shape, TypeOK, Rested

\* What a change of the API server leaves in the queues.
LEMMA ChangeShape ==
    ASSUME Shape, NEW o \in Objects, NEW new \in ApiObjects \cup {Absent}, NEW d \in Deltas,
           Change(o, new, d)
    PROVE  Shape'
<1>1. changes' \in 0 .. MaxChanges
  BY BoundsAssumption DEF Shape, TypeOK, Change
<1>2. items' \in [Objects -> Seq(Deltas)]
  BY QueuedFacts DEF Shape, TypeOK, Change
<1>3. TypeOK'
  BY <1>1, <1>2 DEF Shape, TypeOK, Change, serial
<1>4. Rested' /\ Asking'
  BY DEF Shape, Rested, Asking, Change
<1> QED
  BY <1>3, <1>4 DEF Shape

\* What Write, Terminate and Remove have in common: the event carries the new content, which
\* has a new version.
LEMMA ApiStep ==
    ASSUME Shape, NEW o \in Objects,
           (\E data \in Data : Write(o, data)) \/ Terminate(o) \/ Remove(o)
    PROVE  \E new \in ApiObjects \cup {Absent}, d \in Deltas :
             /\ Change(o, new, d)
             /\ new # Absent => ~IsDeletion(d) /\ d.obj = new /\ new.ver = changes + 1
             /\ new = Absent => IsDeletion(d)
<1>1. CASE \E data \in Data : Write(o, data)
  <2>1. PICK data \in Data : Write(o, data)
    BY <1>1
  <2> DEFINE new == [ver |-> changes + 1, data |-> data, terminating |-> FALSE]
             d == [type |-> "set", obj |-> new]
  <2>2. Change(o, new, d)
    BY <2>1 DEF Write
  <2>3. new \in ApiObjects /\ new.ver = changes + 1
    BY <2>2, BoundsAssumption DEF Change, Shape, TypeOK, ApiObjects
  <2>4. d \in Deltas /\ ~IsDeletion(d) /\ d.obj = new
    BY <2>3, MadeDeltas
  <2> QED
    BY <2>2, <2>3, <2>4, AbsentAssumption
<1>2. CASE Terminate(o)
  <2> DEFINE new == [store[o] EXCEPT !.ver = changes + 1, !.terminating = TRUE]
             d == [type |-> "set", obj |-> new]
  <2>1. Change(o, new, d) /\ store[o] # Absent
    BY <1>2 DEF Terminate
  <2>2. store[o] \in ApiObjects /\ changes + 1 \in 0 .. MaxChanges
    BY <2>1, BoundsAssumption DEF Change, Shape, TypeOK
  <2>3. new \in ApiObjects /\ new.ver = changes + 1
    BY <2>2 DEF ApiObjects
  <2>4. d \in Deltas /\ ~IsDeletion(d) /\ d.obj = new
    BY <2>3, MadeDeltas
  <2> QED
    BY <2>1, <2>3, <2>4, AbsentAssumption
<1>3. CASE Remove(o)
  BY <1>3, MadeDeltas DEF Remove
<1> QED
  BY <1>1, <1>2, <1>3

LEMMA ApiShape ==
    ASSUME Shape, NEW o \in Objects,
           (\E data \in Data : Write(o, data)) \/ Terminate(o) \/ Remove(o)
    PROVE  Shape'
  BY ApiStep, ChangeShape

LEMMA ListAndWatchShape ==
    ASSUME Shape, NEW k \in Kinds, ListAndWatch(k) PROVE Shape'
<1>1. items' \in [Objects -> Seq(Deltas)]
  <2>1. \A o \in Objects : items'[o] \in Seq(Deltas)
    <3> TAKE o \in Objects
    <3>1. /\ items[o] \in Seq(Deltas)
          /\ store[o] # Absent => [type |-> "set", obj |-> store[o]] \in Deltas
          /\ [type |-> "unknown"] \in Deltas
      BY MadeDeltas DEF Shape, TypeOK
    <3>2. \/ items'[o] = items[o]
          \/ store[o] # Absent /\ items'[o] = Queued(items[o], [type |-> "set", obj |-> store[o]])
          \/ items'[o] = Queued(items[o], [type |-> "unknown"])
      BY DEF ListAndWatch
    <3> QED
      BY <3>1, <3>2, QueuedFacts
  <2> QED
    BY <2>1 DEF ListAndWatch
<1>2. initial' \in [Kinds -> SUBSET Objects]
  BY DEF ListAndWatch, Shape, TypeOK, Of
<1>3. TypeOK'
  BY <1>1, <1>2 DEF Shape, TypeOK, ListAndWatch, Of, serial
<1>4. Rested' /\ Asking'
  BY DEF Shape, Rested, Asking, ListAndWatch
<1> QED
  BY <1>3, <1>4 DEF Shape

LEMMA ReflectorShape ==
    ASSUME Shape, NEW k \in Kinds, WatchBreaks(k) \/ ReflectorStops(k) PROVE Shape'
<1>1. watch' \in [Kinds -> {"off", "list", "on"}] /\ drops' \in 0 .. MaxDrops
  <2>1. watch \in [Kinds -> {"off", "list", "on"}] /\ drops \in 0 .. MaxDrops
    BY DEF Shape, TypeOK
  <2>2. CASE WatchBreaks(k)
    BY <2>1, <2>2, BoundsAssumption DEF WatchBreaks
  <2>3. CASE ReflectorStops(k)
    BY <2>1, <2>3 DEF ReflectorStops
  <2> QED
    BY <2>2, <2>3
<1>2. UNCHANGED <<items, populated, initial, api, proc, cache, serial, now, phase, stopped, dns>>
  BY DEF WatchBreaks, ReflectorStops
<1>3. TypeOK'
  BY <1>1, <1>2 DEF Shape, TypeOK, api, serial
<1>4. Rested' /\ Asking'
  BY <1>2 DEF Shape, Rested, Asking
<1> QED
  BY <1>3, <1>4 DEF Shape

LEMMA PopShape ==
    ASSUME Shape, NEW k \in Kinds, NEW o \in Objects, Pop(k, o) PROVE Shape'
<1> DEFINE p == [Resting EXCEPT !.pc = "apply", !.obj = o, !.todo = items[o]]
<1>1. /\ p \in ProcLocals /\ p.pc = "apply" /\ p.obj = o /\ o \in Of(k) /\ p.todo # <<>>
  BY RestingType DEF Shape, TypeOK, Pop, ProcLocals, Resting
<1>2. /\ proc' \in [Kinds -> ProcLocals] /\ proc'[k] = p
      /\ \A j \in Kinds \ {k} : proc'[j] = proc[j]
  BY <1>1 DEF Shape, TypeOK, Pop, ProcLocals
<1>3. items' \in [Objects -> Seq(Deltas)]
  BY EmptyFacts DEF Shape, TypeOK, Pop
<1> HIDE DEF p
<1>4. /\ \A j \in Kinds : proc'[j].pc # "idle" => proc'[j].obj \in Of(j) /\ proc'[j].todo # <<>>
      /\ Rested'
  BY <1>1, <1>2, ProcShape
<1>5. TypeOK'
  BY <1>2, <1>3, <1>4 DEF Shape, TypeOK, Pop, api, serial, ProcLocals, Of
<1>6. Asking'
  BY DEF Shape, Asking, Pop
<1> QED
  BY <1>4, <1>5, <1>6 DEF Shape

\* A step of the goroutine that goes on to the next delta.
LEMMA AdvanceShape ==
    ASSUME Shape, NEW k \in Kinds, proc[k].pc # "idle",
           NEW todo \in Seq(Deltas), Advance(k, todo)
    PROVE  /\ proc' \in [Kinds -> ProcLocals] /\ initial' \in [Kinds -> SUBSET Objects]
           /\ \A j \in Kinds : proc'[j].pc # "idle" =>
                  proc'[j].obj \in Of(j) /\ proc'[j].todo # <<>>
           /\ Rested'
<1>1. /\ proc' \in [Kinds -> ProcLocals] /\ initial' \in [Kinds -> SUBSET Objects]
      /\ \A j \in Kinds \ {k} : proc'[j] = proc[j]
      /\ todo # <<>> => proc'[k] = [proc[k] EXCEPT !.pc = "apply", !.todo = todo]
      /\ todo = <<>> => proc'[k] = Resting
  BY AdvanceFacts
<1>2. \/ proc'[k] = Resting
      \/ proc'[k].pc # "idle" /\ proc'[k].obj \in Of(k) /\ proc'[k].todo # <<>>
  <2>1. proc[k] \in ProcLocals /\ proc[k].obj \in Of(k)
    BY DEF Shape, TypeOK, ProcLocals
  <2> QED
    BY <1>1, <2>1 DEF ProcLocals
<1> QED
  BY <1>1, <1>2, ProcShape

\* The informer that applies a delta or runs a handler.
LEMMA BusyFacts ==
    ASSUME Shape, NEW k \in Kinds, proc[k].pc # "idle"
    PROVE  /\ proc[k] \in ProcLocals /\ proc[k].obj \in Of(k) /\ proc[k].obj \in Objects
           /\ KindOf[proc[k].obj] = k
           /\ proc[k].todo \in Seq(Deltas) /\ proc[k].todo # <<>>
           /\ Head(proc[k].todo) \in Deltas /\ Tail(proc[k].todo) \in Seq(Deltas)
<1>1. /\ proc[k] \in ProcLocals /\ proc[k].obj \in Of(k)
      /\ proc[k].todo \in Seq(Deltas) /\ proc[k].todo # <<>>
  BY DEF Shape, TypeOK, ProcLocals
<1> QED
  BY <1>1, TailFacts DEF Of

\* An informer's label changes from one that is busy to another.
LEMMA LabelFacts ==
    ASSUME Shape, NEW k \in Kinds, proc[k].pc # "idle", NEW pc \in {"apply", "stamp", "store"},
           NEW t \in 0 .. MaxTime,
           proc' = [proc EXCEPT ![k].pc = pc, ![k].stamp = t]
    PROVE  /\ proc' \in [Kinds -> ProcLocals]
           /\ \A j \in Kinds \ {k} : proc'[j] = proc[j]
           /\ proc'[k].pc = pc /\ proc'[k].obj = proc[k].obj /\ proc'[k].todo = proc[k].todo
           /\ proc'[k].stamp = t
           /\ \A j \in Kinds : proc'[j].pc # "idle" =>
                  proc'[j].obj \in Of(j) /\ proc'[j].todo # <<>>
           /\ Rested'
<1>1. proc \in [Kinds -> ProcLocals] /\ proc[k] \in ProcLocals
  BY DEF Shape, TypeOK, ProcLocals
<1> DEFINE p == [proc[k] EXCEPT !.pc = pc, !.stamp = t]
<1>2. /\ p \in ProcLocals /\ p.pc = pc /\ p.obj = proc[k].obj /\ p.todo = proc[k].todo
      /\ p.stamp = t
  BY <1>1 DEF ProcLocals
<1>3. proc'[k] = p /\ proc' = [proc EXCEPT ![k] = p]
  BY <1>1 DEF ProcLocals
<1> HIDE DEF p
<1>4. proc' \in [Kinds -> ProcLocals] /\ \A j \in Kinds \ {k} : proc'[j] = proc[j]
  BY <1>1, <1>2, <1>3
<1>5. proc'[k].pc # "idle" /\ proc'[k].obj \in Of(k) /\ proc'[k].todo # <<>>
  BY <1>2, <1>3, BusyFacts
<1> QED
  BY <1>2, <1>3, <1>4, <1>5, ProcShape

\* Apply: an error ends the batch; otherwise the delta is applied, and the goroutine goes on
\* with a handler or with the next delta.
LEMMA ApplyCases ==
    ASSUME Shape, NEW k \in Kinds, Apply(k)
    PROVE  LET o == proc[k].obj
               d == Head(proc[k].todo)
           IN  \/ /\ ~IsDeletion(d) /\ ConvertFails(k, d.obj) /\ Advance(k, <<>>)
                  /\ UNCHANGED <<cache, latest, overlapped>>
               \/ /\ cache' = [cache EXCEPT ![o] = Effect(d)] /\ cache'[o] = Effect(d)
                  /\ latest' = IF Visible(k, cache[o], Effect(d)) THEN now ELSE latest
                  /\ \/ /\ Touches(k, cache[o], d) /\ UNCHANGED initial
                        /\ proc' = [proc EXCEPT ![k].pc = "stamp", ![k].stamp = proc[k].stamp]
                        /\ overlapped' = (overlapped \/ \E j \in Kinds : Handling(j))
                     \/ /\ ~Touches(k, cache[o], d) /\ UNCHANGED overlapped
                        /\ Advance(k, Tail(proc[k].todo))
<1> DEFINE o == proc[k].obj
           d == Head(proc[k].todo)
<1>1. CASE ~IsDeletion(d) /\ ConvertFails(k, d.obj)
  BY <1>1 DEF Apply
<1>2. CASE ~(~IsDeletion(d) /\ ConvertFails(k, d.obj))
  <2>1. proc[k].pc = "apply" /\ o \in Objects
    BY BusyFacts DEF Apply
  <2>2. cache' = [cache EXCEPT ![o] = Effect(d)] /\ cache'[o] = Effect(d)
    BY <1>2, <2>1 DEF Apply, Effect, Shape, TypeOK
  <2>3. latest' = IF Visible(k, cache[o], Effect(d)) THEN now ELSE latest
    BY <1>2, <2>2 DEF Apply
  <2>4. CASE Touches(k, cache[o], d)
    <3>1. /\ proc' = [proc EXCEPT ![k].pc = "stamp"] /\ UNCHANGED initial
          /\ overlapped' = (overlapped \/ \E j \in Kinds : Handling(j))
      BY <1>2, <2>4 DEF Apply
    <3>2. proc[k] \in ProcLocals /\ proc \in [Kinds -> ProcLocals]
      BY DEF Shape, TypeOK, ProcLocals
    <3>3. [proc EXCEPT ![k].pc = "stamp"]
            = [proc EXCEPT ![k].pc = "stamp", ![k].stamp = proc[k].stamp]
      BY <3>2 DEF ProcLocals
    <3> QED
      BY <2>2, <2>3, <2>4, <3>1, <3>3
  <2>5. CASE ~Touches(k, cache[o], d)
    <3>1. Advance(k, Tail(proc[k].todo)) /\ UNCHANGED overlapped
      BY <1>2, <2>5 DEF Apply
    <3> QED
      BY <2>2, <2>3, <2>5, <3>1
  <2> QED
    BY <2>4, <2>5
<1> QED
  BY <1>1, <1>2

LEMMA ApplyShape ==
    ASSUME Shape, NEW k \in Kinds, Apply(k) PROVE Shape'
<1> DEFINE o == proc[k].obj
           d == Head(proc[k].todo)
<1>0. /\ proc[k].pc # "idle" /\ o \in Objects /\ d \in Deltas /\ proc[k].stamp \in 0 .. MaxTime
      /\ Tail(proc[k].todo) \in Seq(Deltas) /\ <<>> \in Seq(Deltas)
  BY BusyFacts, EmptyFacts DEF Apply, ProcLocals
<1>1. /\ proc' \in [Kinds -> ProcLocals] /\ initial' \in [Kinds -> SUBSET Objects]
      /\ \A j \in Kinds : proc'[j].pc # "idle" => proc'[j].obj \in Of(j) /\ proc'[j].todo # <<>>
      /\ Rested'
  <2>1. CASE Advance(k, <<>>) \/ Advance(k, Tail(proc[k].todo))
    BY <1>0, <2>1, AdvanceShape
  <2>2. CASE proc' = [proc EXCEPT ![k].pc = "stamp", ![k].stamp = proc[k].stamp] /\ initial' = initial
    BY <1>0, <2>2, LabelFacts DEF Shape, TypeOK
  <2> QED
    BY <2>1, <2>2, ApplyCases
<1>2. cache' \in [Objects -> Cached \cup {Absent}]
  BY <1>0, ApplyCases, DeltaObject DEF Shape, TypeOK
<1>3. latest' \in 0 .. MaxTime /\ overlapped' \in BOOLEAN
  BY ApplyCases DEF Shape, TypeOK
<1>4. UNCHANGED <<watch, drops, items, populated, modified, api, now, phase, stopped, dns>>
  BY DEF Apply
<1>5. TypeOK'
  BY <1>1, <1>2, <1>3, <1>4 DEF Shape, TypeOK, ProcLocals, api, Of
<1>6. Asking'
  BY <1>4 DEF Shape, Asking
<1> QED
  BY <1>1, <1>5, <1>6 DEF Shape

LEMMA StampShape ==
    ASSUME Shape, NEW k \in Kinds, Stamp(k) PROVE Shape'
<1>1. /\ proc' \in [Kinds -> ProcLocals]
      /\ \A j \in Kinds : proc'[j].pc # "idle" => proc'[j].obj \in Of(j) /\ proc'[j].todo # <<>>
      /\ Rested'
  BY LabelFacts DEF Stamp, Shape, TypeOK
<1>2. TypeOK'
  BY <1>1 DEF Shape, TypeOK, ProcLocals, Stamp, queue, api, serial, Of
<1>3. Asking'
  BY DEF Shape, Asking, Stamp
<1> QED
  BY <1>1, <1>2, <1>3 DEF Shape

LEMMA StoreModifiedShape ==
    ASSUME Shape, NEW k \in Kinds, StoreModified(k) PROVE Shape'
<1>1. /\ proc' \in [Kinds -> ProcLocals] /\ initial' \in [Kinds -> SUBSET Objects]
      /\ \A j \in Kinds : proc'[j].pc # "idle" => proc'[j].obj \in Of(j) /\ proc'[j].todo # <<>>
      /\ Rested'
  BY BusyFacts, AdvanceShape DEF StoreModified
<1>2. modified' \in 0 .. MaxTime
  BY BusyFacts DEF StoreModified, ProcLocals
<1>3. TypeOK'
  BY <1>1, <1>2 DEF Shape, TypeOK, ProcLocals, StoreModified, api, Of
<1>4. Asking'
  BY DEF Shape, Asking, StoreModified
<1> QED
  BY <1>1, <1>3, <1>4 DEF Shape

LEMMA LifeShape ==
    ASSUME Shape, Tick \/ Run \/ Serve \/ Stop PROVE Shape'
<1>1. /\ now' \in 0 .. MaxTime /\ watch' \in [Kinds -> {"off", "list", "on"}]
      /\ phase' \in {"setup", "starting", "serving"} /\ stopped' \in BOOLEAN
  <2>1. /\ now \in 0 .. MaxTime /\ watch \in [Kinds -> {"off", "list", "on"}]
        /\ phase \in {"setup", "starting", "serving"} /\ stopped \in BOOLEAN
    BY DEF Shape, TypeOK
  <2>2. CASE Tick
    BY <2>1, <2>2, BoundsAssumption DEF Tick, queue
  <2>3. CASE Run
    BY <2>1, <2>3 DEF Run
  <2>4. CASE Serve \/ Stop
    BY <2>1, <2>4 DEF Serve, Stop, queue
  <2> QED
    BY <2>2, <2>3, <2>4
<1>2. UNCHANGED <<drops, items, populated, initial, api, proc, cache, serial, dns>>
  BY DEF Tick, Run, Serve, Stop, queue
<1>3. TypeOK'
  BY <1>1, <1>2 DEF Shape, TypeOK, api, serial
<1>4. Rested' /\ Asking'
  BY <1>2 DEF Shape, Rested, Asking
<1> QED
  BY <1>3, <1>4 DEF Shape

\* A query changes its own locals and nothing else.
LEMMA DnsStepShape ==
    ASSUME Shape, NEW h \in Dnss, NEW q \in DnsLocals, dns' = [dns EXCEPT ![h] = q],
           UNCHANGED <<queue, api, proc, cache, serial, now, phase, stopped>>,
           q.pc \in {"read", "sync"} => q.name \in Objects /\ q.at \in 1 .. Len(Path(q.name)),
           q.pc = "read" => ~q.synced
    PROVE  Shape'
<1>1. /\ dns \in [Dnss -> DnsLocals] /\ dns' \in [Dnss -> DnsLocals] /\ dns'[h] = q
      /\ \A g \in Dnss \ {h} : dns'[g] = dns[g]
  BY DEF Shape, TypeOK, DnsLocals
<1>2. TypeOK'
  BY <1>1 DEF Shape, TypeOK, DnsLocals, queue, api, serial
<1>3. Rested'
  BY DEF Shape, Rested
<1>4. Asking'
  BY <1>1 DEF Shape, Asking
<1> QED
  BY <1>2, <1>3, <1>4 DEF Shape

LEMMA AskShape ==
    ASSUME Shape, NEW h \in Dnss, NEW o \in Objects, Ask(h, o) PROVE Shape'
<1> DEFINE q == [Quiet EXCEPT !.pc = "read", !.name = o, !.at = 1]
<1>1. q \in DnsLocals /\ q.pc = "read" /\ q.name = o /\ q.at = 1 /\ ~q.synced
  <2>1. Quiet \in DnsLocals /\ 1 \in 0 .. 3
    BY QuietType
  <2>2. q \in DnsLocals
    BY <2>1 DEF DnsLocals
  <2>3. q.pc = "read" /\ q.name = o /\ q.at = 1 /\ q.synced = Quiet.synced
    BY <2>1 DEF DnsLocals
  <2>4. ~Quiet.synced
    BY DEF Quiet
  <2> QED
    BY <2>2, <2>3, <2>4
<1>2. 1 \in 1 .. Len(Path(o))
  <2>1. Dnss # {}
    OBVIOUS
  <2>2. Len(Path(o)) \in 2 .. 3
    BY <2>1, PathFacts
  <2> QED
    BY <2>2
<1>3. /\ dns' = [dns EXCEPT ![h] = q]
      /\ UNCHANGED <<queue, api, proc, cache, serial, now, phase, stopped>>
  BY DEF Ask
<1> HIDE DEF q
<1> QED
  BY <1>1, <1>2, <1>3, DnsStepShape

\* What a read does to the locals of a query: a hit goes on or answers, a miss falls through
\* or goes on to HasSynced.
LEMMA ReadCacheCases ==
    ASSUME Shape, NEW h \in Dnss, ReadCache(h)
    PROVE  \E q \in DnsLocals :
             /\ dns' = [dns EXCEPT ![h] = q] /\ q.name = dns[h].name
             /\ dns[h].name \in Objects /\ Path(dns[h].name)[dns[h].at] \in Objects
             /\ \/ q.pc = "replied" /\ q.reply \in {"next", "records"} /\ ~q.synced
                \/ /\ q.pc = "sync" /\ q.at = dns[h].at /\ q.synced = HasSynced
                   /\ q.at \in 1 .. Len(Path(q.name))
                   /\ cache[Path(dns[h].name)[dns[h].at]] = Absent
                \/ q.pc = "read" /\ q.at \in 1 .. Len(Path(q.name)) /\ ~q.synced
<1> DEFINE name == dns[h].name
           at == dns[h].at
           miss == cache[Path(name)[at]] = Absent
<1>1. /\ dns \in [Dnss -> DnsLocals] /\ dns[h] \in DnsLocals /\ dns[h].pc = "read"
      /\ name \in Objects /\ at \in 1 .. Len(Path(name)) /\ dns[h].synced = FALSE
  BY DEF ReadCache, Shape, TypeOK, Asking, DnsLocals
<1>2. Path(name)[at] \in Objects /\ Len(Path(name)) \in 2 .. 3
  BY <1>1, PathFacts
<1>3. CASE (miss /\ name \in FallThrough) \/ (~miss /\ at = Len(Path(name)))
  <2>1. PICK r \in {"next", "records"} : Reply(h, r)
    BY <1>3 DEF ReadCache
  <2> DEFINE q == [dns[h] EXCEPT !.pc = "replied", !.reply = r]
  <2>2. /\ q \in DnsLocals /\ q.name = name /\ q.pc = "replied" /\ q.reply = r
        /\ q.synced = FALSE
    BY <1>1 DEF DnsLocals
  <2>3. dns' = [dns EXCEPT ![h] = q]
    BY <2>1 DEF Reply
  <2> HIDE DEF q
  <2> QED
    BY <1>1, <1>2, <2>2, <2>3
<1>4. CASE miss /\ name \notin FallThrough
  <2>1. dns' = [dns EXCEPT ![h].pc = "sync", ![h].synced = HasSynced]
    BY <1>4 DEF ReadCache
  <2>2. HasSynced \in BOOLEAN
    BY DEF HasSynced
  <2> HIDE DEF HasSynced
  <2> DEFINE q == [dns[h] EXCEPT !.pc = "sync", !.synced = HasSynced]
  <2>3. /\ q \in DnsLocals /\ q.name = name /\ q.pc = "sync" /\ q.at = at
        /\ q.synced = HasSynced
    BY <1>1, <2>2 DEF DnsLocals
  <2>4. dns' = [dns EXCEPT ![h] = q]
    BY <1>1, <2>1 DEF DnsLocals
  <2> HIDE DEF q
  <2> QED
    BY <1>1, <1>2, <1>4, <2>3, <2>4
<1>5. CASE ~miss /\ at # Len(Path(name))
  <2>1. dns' = [dns EXCEPT ![h].at = @ + 1]
    BY <1>5 DEF ReadCache
  <2> DEFINE q == [dns[h] EXCEPT !.at = at + 1]
  <2>2. at + 1 \in 0 .. 3 /\ at + 1 \in 1 .. Len(Path(name))
    <3> DEFINE n == Len(Path(name))
    <3>1. at \in 1 .. n /\ n \in 2 .. 3 /\ at # n
      BY <1>1, <1>2, <1>5
    <3>2. at + 1 \in 0 .. 3 /\ at + 1 \in 1 .. n
      <4> HIDE DEF n, at
      <4> QED
        BY <3>1
    <3> QED
      BY <3>2
  <2>3. /\ q \in DnsLocals /\ q.name = name /\ q.pc = "read" /\ q.at = at + 1
        /\ q.synced = FALSE
    BY <1>1, <2>2 DEF DnsLocals
  <2>4. dns' = [dns EXCEPT ![h] = q]
    BY <1>1, <2>1 DEF DnsLocals
  <2> HIDE DEF q
  <2> QED
    BY <1>1, <1>2, <2>2, <2>3, <2>4
<1>6. \/ (miss /\ name \in FallThrough) \/ (~miss /\ at = Len(Path(name)))
      \/ miss /\ name \notin FallThrough
      \/ ~miss /\ at # Len(Path(name))
  OBVIOUS
<1> QED
  BY <1>3, <1>4, <1>5, <1>6

LEMMA ReadCacheShape ==
    ASSUME Shape, NEW h \in Dnss, ReadCache(h) PROVE Shape'
<1>1. PICK q \in DnsLocals :
        /\ dns' = [dns EXCEPT ![h] = q] /\ q.name = dns[h].name /\ dns[h].name \in Objects
        /\ q.pc \in {"read", "sync"} => q.at \in 1 .. Len(Path(q.name))
        /\ q.pc = "read" => ~q.synced
  BY ReadCacheCases
<1>2. UNCHANGED <<queue, api, proc, cache, serial, now, phase, stopped>>
  BY DEF ReadCache
<1> QED
  BY <1>1, <1>2, DnsStepShape

\* The answer after HasSynced changes the label and the reply only.
LEMMA CheckSyncedCases ==
    ASSUME Shape, NEW h \in Dnss, CheckSynced(h)
    PROVE  \E q \in DnsLocals :
             /\ dns' = [dns EXCEPT ![h] = q] /\ q.pc = "replied"
             /\ q.name = dns[h].name /\ q.at = dns[h].at /\ q.synced = dns[h].synced
<1>1. dns[h] \in DnsLocals
  BY DEF Shape, TypeOK, DnsLocals
<1>2. PICK r \in {"nxdomain", "servfail"} : dns' = [dns EXCEPT ![h] = [dns[h] EXCEPT !.pc = "replied", !.reply = r]]
  BY DEF CheckSynced, Reply
<1> DEFINE q == [dns[h] EXCEPT !.pc = "replied", !.reply = r]
<1>3. /\ q \in DnsLocals /\ q.pc = "replied" /\ q.name = dns[h].name /\ q.at = dns[h].at
      /\ q.synced = dns[h].synced
  BY <1>1 DEF DnsLocals
<1> HIDE DEF q
<1> QED
  BY <1>2, <1>3 DEF q

LEMMA CheckSyncedShape ==
    ASSUME Shape, NEW h \in Dnss, CheckSynced(h) PROVE Shape'
  BY CheckSyncedCases, DnsStepShape DEF CheckSynced

\* Every step keeps the types, and a stuttering step does.
LEMMA NextShape == Shape /\ [Next]_vars => Shape'
<1> SUFFICES ASSUME Shape, [Next]_vars PROVE Shape'
  OBVIOUS
<1>1. CASE UNCHANGED vars
  <2>1. TypeOK'
    BY <1>1 DEF vars, queue, api, serial, Shape, TypeOK
  <2>2. Rested' /\ Asking'
    BY <1>1 DEF vars, Shape, Rested, Asking
  <2> QED
    BY <2>1, <2>2 DEF Shape
<1>2. CASE Next
  BY <1>2, ApiShape, ListAndWatchShape, ReflectorShape, PopShape,
     ApplyShape, StampShape, StoreModifiedShape, LifeShape, AskShape, ReadCacheShape,
     CheckSyncedShape DEF Next, ReflectorStep, ProcStep, DnsStep
<1> QED
  BY <1>1, <1>2

\* The state of the cache is well typed in every behaviour: an informer that processes has a
\* delta left and an object of its own kind, a query is at an object of its path, and no
\* version is queued or cached that the API server did not give.
THEOREM TypeCorrect == Spec => []TypeOK
<1>1. Shape => TypeOK
  BY DEF Shape
<1> QED
  BY <1>1, InitShape, NextShape, PTL DEF Spec

-----------------------------------------------------------------------------
(* The cache follows the API server                                        *)

\* No conversion fails: the pod clean-up is on, as outside the tests, or pods are not watched.
NothingFails == SkipCleanup => "pod" \notin Kinds

\* What is left to apply of the batch of goroutine p, when o is its object.
Left(p, o) ==
    IF p.obj # o THEN <<>> ELSE IF p.pc = "apply" THEN p.todo ELSE Tail(p.todo)

\* CacheFollows, with the deltas of the batch and those of the queue told apart.
Follows ==
    \A o \in Objects :
        watch[KindOf[o]] = "on" =>
            \/ After(items[o], After(Left(proc[KindOf[o]], o), cache[o])) = Snapshot(store[o])
            \/ o \in overlooked /\ store[o] = Absent

\* An object's informer.
LEMMA KindFacts ==
    ASSUME Shape, NEW o \in Objects
    PROVE  /\ KindOf[o] \in Kinds /\ proc[KindOf[o]] \in ProcLocals
           /\ items[o] \in Seq(Deltas) /\ Left(proc[KindOf[o]], o) \in Seq(Deltas)
           /\ proc[KindOf[o]].pc = "idle" => Left(proc[KindOf[o]], o) = <<>>
<1> DEFINE p == proc[KindOf[o]]
<1>1. KindOf[o] \in Kinds /\ p \in ProcLocals /\ items[o] \in Seq(Deltas)
  BY KindsAssumption DEF Shape, TypeOK, ProcLocals
<1>2. CASE p.pc = "idle"
  <2>1. p.obj = Absent /\ Absent # o
    BY <1>1, <1>2, RestingType, AbsentAssumption DEF Shape, Rested
  <2> QED
    BY <1>1, <2>1, EmptyFacts DEF Left
<1>3. CASE p.pc # "idle"
  <2>1. p.todo \in Seq(Deltas) /\ Tail(p.todo) \in Seq(Deltas)
    BY <1>1, <1>3, BusyFacts
  <2> QED
    BY <1>1, <1>3, <2>1, EmptyFacts DEF Left
<1> QED
  BY <1>2, <1>3

\* Follows is CacheFollows.
LEMMA FollowsOutcome == Shape /\ Follows => CacheFollows
<1> SUFFICES ASSUME Shape, Follows, NEW o \in Objects, watch[KindOf[o]] = "on"
             PROVE  Outcome(o) = Snapshot(store[o]) \/ (o \in overlooked /\ store[o] = Absent)
  BY DEF CacheFollows
<1>1. Batch(o) = Left(proc[KindOf[o]], o)
  BY DEF Batch, Left
<1>2. Outcome(o) = After(items[o], After(Batch(o), cache[o]))
  BY <1>1, KindFacts, OutcomeIsAfter
<1> QED
  BY <1>1, <1>2 DEF Follows

LEMMA ChangeFollows ==
    ASSUME Shape, Follows, NEW o \in Objects, NEW new, NEW d \in Deltas, Change(o, new, d),
           Effect(d) = Snapshot(new)
    PROVE  Follows'
<1> SUFFICES ASSUME NEW x \in Objects, watch'[KindOf[x]] = "on"
             PROVE  \/ After(items'[x], After(Left(proc'[KindOf[x]], x), cache'[x])) = Snapshot(store'[x])
                    \/ x \in overlooked' /\ store'[x] = Absent
  BY DEF Follows
<1>1. /\ watch' = watch /\ proc' = proc /\ cache' = cache
      /\ store' = [store EXCEPT ![o] = new] /\ overlooked' = overlooked \ {o}
      /\ watch[KindOf[o]] = "on" => items' = [items EXCEPT ![o] = Queued(@, d)]
      /\ watch[KindOf[o]] # "on" => items' = items
      /\ store \in [Objects -> ApiObjects \cup {Absent}] /\ items \in [Objects -> Seq(Deltas)]
  BY DEF Change, Shape, TypeOK
<1>2. CASE x = o
  <2>1. items'[o] = Queued(items[o], d) /\ store'[o] = new /\ items[o] \in Seq(Deltas)
    BY <1>1, <1>2
  <2> QED
    BY <1>2, <2>1, QueuedFacts
<1>3. CASE x # o
  <2>1. items'[x] = items[x] /\ store'[x] = store[x]
    BY <1>1, <1>3
  <2>2. x \in overlooked => x \in overlooked'
    BY <1>1, <1>3
  <2> QED
    BY <1>1, <2>1, <2>2 DEF Follows
<1> QED
  BY <1>2, <1>3

LEMMA ApiFollows ==
    ASSUME Shape, Follows, NEW o \in Objects,
           (\E data \in Data : Write(o, data)) \/ Terminate(o) \/ Remove(o)
    PROVE  Follows'
  BY ApiStep, ChangeFollows DEF Effect, Snapshot

\* A list brings every object of the kind up to date, but for those that it overlooks: what
\* it does not name and is not cached either is not in the cache unless a delta is queued.
LEMMA ListAndWatchFollows ==
    ASSUME Shape, Follows, NEW k \in Kinds, ListAndWatch(k) PROVE Follows'
<1> SUFFICES ASSUME NEW o \in Objects, watch'[KindOf[o]] = "on"
             PROVE  \/ After(items'[o], After(Left(proc[KindOf[o]], o), cache[o])) = Snapshot(store[o])
                    \/ o \in overlooked' /\ store[o] = Absent
  BY DEF Follows, ListAndWatch
<1>1. KindOf[o] \in Kinds /\ items[o] \in Seq(Deltas)
  BY KindFacts
<1>2. CASE KindOf[o] # k
  <2>1. o \notin Of(k) /\ watch[KindOf[o]] = "on"
    BY <1>1, <1>2 DEF ListAndWatch, Of, Shape, TypeOK
  <2>2. items'[o] = items[o] /\ (o \in overlooked => o \in overlooked')
    BY <2>1 DEF ListAndWatch
  <2> QED
    BY <2>1, <2>2 DEF Follows
<1>3. CASE KindOf[o] = k /\ store[o] # Absent
  <2>1. items'[o] = Queued(items[o], [type |-> "set", obj |-> store[o]])
    BY <1>3 DEF ListAndWatch, Of
  <2>2. store[o] \in ApiObjects
    BY <1>3 DEF Shape, TypeOK
  <2>3. Effect([type |-> "set", obj |-> store[o]]) = Snapshot(store[o])
    BY <1>3, <2>2, MadeDeltas DEF Effect, Snapshot
  <2>4. [type |-> "set", obj |-> store[o]] \in Deltas
    BY <2>2, MadeDeltas
  <2> QED
    BY <1>1, <2>1, <2>3, <2>4, QueuedFacts
<1>4. CASE KindOf[o] = k /\ store[o] = Absent /\ cache[o] # Absent
  <2>1. items'[o] = Queued(items[o], [type |-> "unknown"])
    BY <1>4 DEF ListAndWatch, Of
  <2>2. Effect([type |-> "unknown"]) = Snapshot(store[o])
    BY <1>4, MadeDeltas DEF Effect, Snapshot
  <2> QED
    BY <1>1, <2>1, <2>2, MadeDeltas, QueuedFacts
<1>5. CASE KindOf[o] = k /\ store[o] = Absent /\ cache[o] = Absent
  <2>1. items'[o] = items[o]
    BY <1>5 DEF ListAndWatch, Of
  <2>2. Left(proc[KindOf[o]], o) = <<>>
    BY <1>5, KindFacts DEF ListAndWatch
  <2>3. CASE items[o] # <<>> /\ ~IsDeletion(items[o][Len(items[o])])
    BY <1>5, <2>3 DEF ListAndWatch, Of
  <2>4. CASE items[o] = <<>> \/ IsDeletion(items[o][Len(items[o])])
    BY <1>5, <2>1, <2>2, <2>4 DEF After, Effect, Snapshot
  <2> QED
    BY <2>3, <2>4
<1> QED
  BY <1>2, <1>3, <1>4, <1>5

\* A watch that is not on promises nothing.
LEMMA UnwatchedFollows ==
    ASSUME Shape, Follows, UNCHANGED <<items, proc, cache, store, overlooked>>,
           \A k \in Kinds : watch'[k] = "on" => watch[k] = "on"
    PROVE  Follows'
  BY KindsAssumption DEF Follows

\* A batch leaves the queue as it is.
LEMMA PopFollows ==
    ASSUME Shape, Follows, NEW k \in Kinds, NEW o \in Objects, Pop(k, o) PROVE Follows'
<1> SUFFICES ASSUME NEW x \in Objects, watch[KindOf[x]] = "on"
             PROVE  \/ After(items'[x], After(Left(proc'[KindOf[x]], x), cache[x])) = Snapshot(store[x])
                    \/ x \in overlooked /\ store[x] = Absent
  BY DEF Follows, Pop, api
<1>1. \/ After(items[x], After(Left(proc[KindOf[x]], x), cache[x])) = Snapshot(store[x])
      \/ x \in overlooked /\ store[x] = Absent
  BY DEF Follows
<1>2. /\ KindOf[o] = k /\ proc[k].pc = "idle" /\ items \in [Objects -> Seq(Deltas)]
      /\ proc \in [Kinds -> ProcLocals] /\ KindOf[x] \in Kinds
  BY KindFacts DEF Pop, Of, Shape, TypeOK, ProcLocals
<1>3. /\ proc'[k].pc = "apply" /\ proc'[k].obj = o /\ proc'[k].todo = items[o]
      /\ \A j \in Kinds \ {k} : proc'[j] = proc[j]
      /\ items'[o] = <<>> /\ \A y \in Objects \ {o} : items'[y] = items[y]
  BY <1>2 DEF Pop, Resting
<1>4. CASE x = o
  <2>1. Left(proc[k], o) = <<>> /\ Left(proc'[k], o) = items[o]
    BY <1>2, <1>3, KindFacts DEF Left
  <2> QED
    BY <1>1, <1>2, <1>3, <1>4, <2>1, EmptyFacts
<1>5. CASE x # o /\ KindOf[x] = k
  <2>1. Left(proc[k], x) = <<>> /\ Left(proc'[k], x) = <<>>
    BY <1>2, <1>3, <1>5, KindFacts DEF Left
  <2> QED
    BY <1>1, <1>3, <1>5, <2>1
<1>6. CASE x # o /\ KindOf[x] # k
  BY <1>1, <1>2, <1>3, <1>6
<1> QED
  BY <1>4, <1>5, <1>6

\* What is left of a batch after Advance.
LEMMA AdvanceLeft ==
    ASSUME Shape, NEW k \in Kinds, proc[k].pc # "idle", NEW todo \in Seq(Deltas),
           Advance(k, todo)
    PROVE  /\ \A x \in Objects : x # proc[k].obj =>
                  Left(proc'[KindOf[x]], x) = Left(proc[KindOf[x]], x)
           /\ Left(proc'[k], proc[k].obj) = todo
<1>1. /\ \A j \in Kinds \ {k} : proc'[j] = proc[j]
      /\ todo # <<>> => proc'[k] = [proc[k] EXCEPT !.pc = "apply", !.todo = todo]
      /\ todo = <<>> => proc'[k] = Resting
  BY AdvanceFacts
<1>2. proc[k] \in ProcLocals /\ proc[k].obj \in Objects
  BY BusyFacts
<1>3. /\ todo # <<>> => /\ proc'[k].pc = "apply" /\ proc'[k].obj = proc[k].obj
                        /\ proc'[k].todo = todo
      /\ todo = <<>> => proc'[k].obj = Absent
  BY <1>1, <1>2, RestingType DEF ProcLocals
<1>4. Left(proc'[k], proc[k].obj) = todo
  BY <1>2, <1>3, AbsentAssumption DEF Left
<1>5. ASSUME NEW x \in Objects, x # proc[k].obj
      PROVE  Left(proc'[KindOf[x]], x) = Left(proc[KindOf[x]], x)
  <2>1. KindOf[x] \in Kinds
    BY KindsAssumption
  <2> QED
    BY <1>1, <1>3, <1>5, <2>1, AbsentAssumption DEF Left
<1> QED
  BY <1>4, <1>5

\* A delta that is applied leads where it led in the queue.
LEMMA ApplyFollows ==
    ASSUME Shape, Follows, NothingFails, NEW k \in Kinds, Apply(k) PROVE Follows'
<1> DEFINE o == proc[k].obj
           d == Head(proc[k].todo)
           rest == Tail(proc[k].todo)
<1>1. /\ proc[k].pc = "apply" /\ o \in Objects /\ KindOf[o] = k /\ d \in Deltas
      /\ rest \in Seq(Deltas) /\ proc[k].todo \in Seq(Deltas) /\ proc[k].todo # <<>>
      /\ proc[k].stamp \in 0 .. MaxTime
  BY BusyFacts DEF Apply, ProcLocals
<1>2. ~ConvertFails(k, d.obj)
  BY DEF ConvertFails, NothingFails
<1>3. /\ cache' = [cache EXCEPT ![o] = Effect(d)]
      /\ \/ proc' = [proc EXCEPT ![k].pc = "stamp", ![k].stamp = proc[k].stamp]
         \/ Advance(k, rest)
  BY <1>2, ApplyCases
<1>4. /\ \A x \in Objects : x # o => Left(proc'[KindOf[x]], x) = Left(proc[KindOf[x]], x)
      /\ Left(proc'[k], o) = rest
  <2>1. CASE Advance(k, rest)
    BY <1>1, <2>1, AdvanceLeft
  <2>2. CASE proc' = [proc EXCEPT ![k].pc = "stamp", ![k].stamp = proc[k].stamp]
    <3>1. /\ \A j \in Kinds \ {k} : proc'[j] = proc[j]
          /\ proc'[k].pc = "stamp" /\ proc'[k].obj = o /\ proc'[k].todo = proc[k].todo
      BY <1>1, <2>2, LabelFacts
    <3> QED
      BY <3>1, KindsAssumption DEF Left
  <2> QED
    BY <1>3, <2>1, <2>2
<1>5. UNCHANGED <<watch, items, store, overlooked>>
  BY DEF Apply, api
<1>6. ASSUME NEW x \in Objects, watch[KindOf[x]] = "on"
      PROVE  \/ After(items[x], After(Left(proc'[KindOf[x]], x), cache'[x])) = Snapshot(store[x])
             \/ x \in overlooked /\ store[x] = Absent
  <2>1. \/ After(items[x], After(Left(proc[KindOf[x]], x), cache[x])) = Snapshot(store[x])
        \/ x \in overlooked /\ store[x] = Absent
    BY <1>6 DEF Follows
  <2>2. CASE x # o
    <3>1. cache'[x] = cache[x]
      BY <1>3, <2>2 DEF Shape, TypeOK
    <3> QED
      BY <1>4, <2>1, <2>2, <3>1
  <2>3. CASE x = o
    <3>1. cache'[o] = Effect(d) /\ Left(proc[k], o) = proc[k].todo
      BY <1>1, <1>3 DEF Shape, TypeOK, Left
    <3>2. After(rest, Effect(d)) = After(proc[k].todo, cache[o])
      BY <1>1, TailFacts
    <3> QED
      BY <1>1, <1>4, <2>1, <2>3, <3>1, <3>2
  <2> QED
    BY <2>2, <2>3
<1> QED
  BY <1>5, <1>6 DEF Follows

\* A handler has nothing to do with the deltas that are left.
LEMMA HandlerFollows ==
    ASSUME Shape, Follows, NEW k \in Kinds, Stamp(k) \/ StoreModified(k) PROVE Follows'
<1>1. /\ proc[k].pc \in {"stamp", "store"} /\ proc[k].obj \in Objects /\ KindOf[proc[k].obj] = k
      /\ Tail(proc[k].todo) \in Seq(Deltas) /\ now \in 0 .. MaxTime
  BY BusyFacts DEF Stamp, StoreModified, Shape, TypeOK
<1>2. UNCHANGED <<watch, items, store, cache, overlooked>>
  BY DEF Stamp, StoreModified, queue, api
<1>3. \A x \in Objects : Left(proc'[KindOf[x]], x) = Left(proc[KindOf[x]], x)
  <2>1. CASE Stamp(k)
    <3>1. /\ \A j \in Kinds \ {k} : proc'[j] = proc[j]
          /\ proc'[k].pc = "store" /\ proc'[k].obj = proc[k].obj /\ proc'[k].todo = proc[k].todo
      BY <1>1, <2>1, LabelFacts DEF Stamp
    <3> QED
      BY <1>1, <3>1, KindsAssumption DEF Left
  <2>2. CASE StoreModified(k)
    <3>1. /\ \A x \in Objects : x # proc[k].obj =>
                 Left(proc'[KindOf[x]], x) = Left(proc[KindOf[x]], x)
          /\ Left(proc'[k], proc[k].obj) = Tail(proc[k].todo)
      BY <1>1, <2>2, AdvanceLeft DEF StoreModified
    <3>2. Left(proc[k], proc[k].obj) = Tail(proc[k].todo)
      BY <1>1 DEF Left
    <3> QED
      BY <1>1, <3>1, <3>2
  <2> QED
    BY <2>1, <2>2
<1> QED
  BY <1>2, <1>3 DEF Follows

LEMMA NextFollows ==
    ASSUME NothingFails PROVE Shape /\ Follows /\ [Next]_vars => Follows'
<1> SUFFICES ASSUME Shape, Follows, [Next]_vars PROVE Follows'
  OBVIOUS
<1>1. CASE \/ UNCHANGED vars
           \/ \E k \in Kinds : WatchBreaks(k) \/ ReflectorStops(k)
           \/ Tick \/ Run \/ Serve \/ Stop
           \/ \E h \in Dnss : (\E o \in Objects : Ask(h, o)) \/ DnsStep(h)
  <2>1. UNCHANGED <<items, proc, cache, store, overlooked>>
    BY <1>1 DEF vars, queue, api, WatchBreaks, ReflectorStops, Tick, Run, Serve, Stop, Ask,
       DnsStep, ReadCache, CheckSynced
  <2>2. \A k \in Kinds : watch'[k] = "on" => watch[k] = "on"
    <3>1. CASE \E k \in Kinds : WatchBreaks(k) \/ ReflectorStops(k)
      BY <3>1 DEF WatchBreaks, ReflectorStops, Shape, TypeOK
    <3>2. CASE Run
      BY <3>2 DEF Run
    <3>3. CASE watch' = watch
      BY <3>3
    <3> QED
      BY <1>1, <3>1, <3>2, <3>3 DEF vars, queue, Tick, Serve, Stop, Ask, DnsStep, ReadCache,
         CheckSynced
  <2> QED
    BY <2>1, <2>2, UnwatchedFollows
<1> QED
  BY <1>1, ApiFollows, ListAndWatchFollows, PopFollows, ApplyFollows, HandlerFollows
  DEF Next, ReflectorStep, ProcStep

\* While a kind is watched its cache is a delayed copy of the API server, whatever the
\* interleaving of changes, lists, broken watches and batches (object/informer.go:27-74), but
\* for the objects that the last list overlooked: gone from the API server, queued at that
\* list and not cached.  The hypothesis is about the option that only the tests set: with
\* skipAPIObjectsCleanup a terminating pod ends its batch and the deltas that follow it are lost.
THEOREM CacheFollowsApi == ASSUME NothingFails PROVE Spec => []CacheFollows
<1>1. Init => Follows
  BY KindsAssumption DEF Init, Follows
<1>2. Shape /\ Follows /\ [Next]_vars => Follows'
  BY NextFollows
<1> QED
  BY <1>1, <1>2, InitShape, NextShape, FollowsOutcome, PTL DEF Spec

-----------------------------------------------------------------------------
(* What was there all along is never hidden                                *)

\* No deletion of o is on its way, and from the first list on o is cached or counted as not
\* yet processed.
NotLost(o) ==
    LET k == KindOf[o]
    IN  /\ store[o] # Absent
        /\ NoDeletion(items[o])
        /\ proc[k].obj = o => NoDeletion(proc[k].todo)
        /\ proc[k].obj = o /\ proc[k].pc \in {"stamp", "store"} => cache[o] # Absent
        /\ populated[k] /\ cache[o] = Absent => o \in initial[k]

SteadyKept == \A o \in steady : NotLost(o)

\* The object that a query missed in a synced cache.
MissedGone == \A h \in Dnss : dns[h].synced => Path(dns[h].name)[dns[h].at] \notin steady

LEMMA InitSteady == Init => SteadyKept /\ MissedGone
<1> SUFFICES ASSUME Init PROVE SteadyKept /\ MissedGone
  OBVIOUS
<1>1. SteadyKept
  BY EmptyFacts, KindsAssumption, AbsentAssumption DEF Init, SteadyKept, NotLost, Resting
<1>2. MissedGone
  BY DEF Init, MissedGone, Quiet
<1> QED
  BY <1>1, <1>2

\* Only the API server changes what is steady, and it only takes objects away.
LEMMA ChangeSteady ==
    ASSUME Shape, SteadyKept, NEW o \in Objects, NEW new, NEW d \in Deltas, Change(o, new, d),
           new # Absent => ~IsDeletion(d)
    PROVE  SteadyKept' /\ steady' \subseteq steady
<1>1. /\ steady' \subseteq steady /\ steady \subseteq Objects
      /\ new = Absent => o \notin steady'
      /\ store' = [store EXCEPT ![o] = new] /\ store \in [Objects -> ApiObjects \cup {Absent}]
      /\ items' = [items EXCEPT ![o] = Queued(@, d)] \/ items' = items
      /\ items \in [Objects -> Seq(Deltas)]
      /\ UNCHANGED <<proc, cache, populated, initial>>
  BY DEF Change, Shape, TypeOK
<1>2. ASSUME NEW x \in steady' PROVE NotLost(x)'
  <2>1. NotLost(x) /\ x \in Objects
    BY <1>1, <1>2 DEF SteadyKept
  <2>2. store'[x] # Absent
    BY <1>1, <1>2, <2>1 DEF NotLost
  <2>3. NoDeletion(items'[x])
    <3>1. CASE x = o /\ items'[x] = Queued(items[x], d)
      <4>1. ~IsDeletion(d) /\ items[x] \in Seq(Deltas) /\ NoDeletion(items[x])
        BY <1>1, <1>2, <2>1, <3>1 DEF NotLost
      <4> QED
        BY <3>1, <4>1, QueuedFacts
    <3>2. CASE items'[x] = items[x]
      BY <2>1, <3>2 DEF NotLost
    <3> QED
      BY <1>1, <2>1, <3>1, <3>2
  <2> QED
    BY <1>1, <2>1, <2>2, <2>3 DEF NotLost
<1> QED
  BY <1>1, <1>2 DEF SteadyKept

LEMMA ApiSteady ==
    ASSUME Shape, SteadyKept, MissedGone, NEW o \in Objects,
           (\E data \in Data : Write(o, data)) \/ Terminate(o) \/ Remove(o)
    PROVE  SteadyKept' /\ MissedGone'
<1>1. PICK new \in ApiObjects \cup {Absent}, d \in Deltas :
        Change(o, new, d) /\ (new # Absent => ~IsDeletion(d))
  BY ApiStep
<1>2. SteadyKept' /\ steady' \subseteq steady
  BY <1>1, ChangeSteady
<1>3. MissedGone'
  BY <1>1, <1>2 DEF MissedGone, Change
<1> QED
  BY <1>2, <1>3

\* The first list names what is there; a later one makes no deletion of it.
LEMMA ListAndWatchSteady ==
    ASSUME Shape, SteadyKept, NEW k \in Kinds, ListAndWatch(k) PROVE SteadyKept'
<1>1. UNCHANGED <<steady, store, proc, cache>>
  BY DEF ListAndWatch
<1>2. ASSUME NEW o \in steady PROVE NotLost(o)'
  <2>1. /\ NotLost(o) /\ o \in Objects /\ store[o] # Absent /\ store[o] \in ApiObjects
        /\ items[o] \in Seq(Deltas)
    BY <1>2 DEF SteadyKept, NotLost, Shape, TypeOK
  <2>2. NoDeletion(items'[o])
    <3>1. CASE o \in Of(k)
      <4>1. items'[o] = Queued(items[o], [type |-> "set", obj |-> store[o]])
        BY <2>1, <3>1 DEF ListAndWatch
      <4>2. /\ [type |-> "set", obj |-> store[o]] \in Deltas
            /\ ~IsDeletion([type |-> "set", obj |-> store[o]])
        BY <2>1, MadeDeltas
      <4> QED
        BY <2>1, <4>1, <4>2, QueuedFacts DEF NotLost
    <3>2. CASE o \notin Of(k)
      <4>1. items'[o] = items[o]
        BY <2>1, <3>2 DEF ListAndWatch
      <4> QED
        BY <2>1, <4>1 DEF NotLost
    <3> QED
      BY <3>1, <3>2
  <2>3. populated'[KindOf[o]] /\ cache[o] = Absent => o \in initial'[KindOf[o]]
    <3>1. KindOf[o] \in Kinds /\ initial \in [Kinds -> SUBSET Objects] /\ populated \in [Kinds -> BOOLEAN]
      BY <2>1, KindFacts DEF Shape, TypeOK
    <3>2. CASE KindOf[o] = k /\ ~populated[k]
      BY <2>1, <3>1, <3>2 DEF ListAndWatch, Of
    <3>3. CASE KindOf[o] # k \/ populated[k]
      <4>1. initial'[KindOf[o]] = initial[KindOf[o]]
        BY <3>1, <3>3 DEF ListAndWatch
      <4>2. populated'[KindOf[o]] => populated[KindOf[o]]
        BY <3>1, <3>3 DEF ListAndWatch
      <4> QED
        BY <2>1, <4>1, <4>2 DEF NotLost
    <3> QED
      BY <3>2, <3>3
  <2> QED
    BY <1>1, <2>1, <2>2, <2>3 DEF NotLost
<1> QED
  BY <1>1, <1>2 DEF SteadyKept

LEMMA PopSteady ==
    ASSUME Shape, SteadyKept, NEW k \in Kinds, NEW o \in Objects, Pop(k, o) PROVE SteadyKept'
<1>1. /\ UNCHANGED <<steady, store, cache, populated, initial>> /\ steady \subseteq Objects
      /\ items \in [Objects -> Seq(Deltas)] /\ proc \in [Kinds -> ProcLocals]
      /\ \A x \in Objects : KindOf[x] \in Kinds
  BY KindsAssumption DEF Pop, api, Shape, TypeOK, ProcLocals
<1>2. /\ proc'[k].pc = "apply" /\ proc'[k].obj = o /\ proc'[k].todo = items[o]
      /\ \A j \in Kinds \ {k} : proc'[j] = proc[j]
      /\ items'[o] = <<>> /\ \A y \in Objects \ {o} : items'[y] = items[y]
  BY <1>1 DEF Pop, Resting
<1>3. ASSUME NEW x \in steady PROVE NotLost(x)'
  <2>1. NotLost(x) /\ x \in Objects /\ KindOf[x] \in Kinds
    BY <1>1, <1>3 DEF SteadyKept
  <2>2. NoDeletion(items'[x])
    BY <1>2, <2>1, EmptyFacts DEF NotLost
  <2>3. proc'[KindOf[x]].obj = x =>
          NoDeletion(proc'[KindOf[x]].todo) /\
          (proc'[KindOf[x]].pc \in {"stamp", "store"} => cache[x] # Absent)
    BY <1>2, <2>1 DEF NotLost
  <2> QED
    BY <1>1, <2>1, <2>2, <2>3 DEF NotLost
<1> QED
  BY <1>1, <1>3 DEF SteadyKept

\* A step that ends the processing of a delta: its object is cached by then.
LEMMA AdvanceSteady ==
    ASSUME Shape, SteadyKept, NEW k \in Kinds, proc[k].pc # "idle",
           Advance(k, Tail(proc[k].todo)),
           UNCHANGED <<steady, store, items, populated>>,
           \A x \in Objects \ {proc[k].obj} : cache'[x] = cache[x],
           proc[k].obj \in steady => cache'[proc[k].obj] # Absent
    PROVE  SteadyKept'
<1> DEFINE rest == Tail(proc[k].todo)
<1>1. /\ \A j \in Kinds \ {k} : proc'[j] = proc[j] /\ initial'[j] = initial[j]
      /\ rest # <<>> => /\ proc'[k] = [proc[k] EXCEPT !.pc = "apply", !.todo = rest]
                        /\ initial'[k] = initial[k]
      /\ rest = <<>> => proc'[k] = Resting /\ initial'[k] = initial[k] \ {proc[k].obj}
      /\ proc[k] \in ProcLocals /\ proc[k].todo \in Seq(Deltas) /\ proc[k].todo # <<>>
      /\ proc[k].obj \in Objects /\ KindOf[proc[k].obj] = k
  BY BusyFacts, AdvanceFacts
<1>2. /\ rest # <<>> => proc'[k].pc = "apply" /\ proc'[k].obj = proc[k].obj /\ proc'[k].todo = rest
      /\ rest = <<>> => proc'[k].obj = Absent
  BY <1>1, RestingType DEF ProcLocals
<1>3. ASSUME NEW x \in steady PROVE NotLost(x)'
  <2>1. NotLost(x) /\ x \in Objects /\ KindOf[x] \in Kinds /\ x # Absent
    BY <1>3, KindsAssumption, AbsentAssumption DEF SteadyKept, Shape, TypeOK
  <2>2. CASE x = proc[k].obj
    <3>1. NoDeletion(rest) /\ cache'[x] # Absent /\ KindOf[x] = k
      BY <1>1, <1>3, <2>1, <2>2, TailFacts DEF NotLost
    <3> QED
      BY <1>2, <2>1, <2>2, <3>1 DEF NotLost
  <2>3. CASE x # proc[k].obj /\ KindOf[x] = k
    <3>1. proc'[k].obj # x /\ cache'[x] = cache[x] /\ (x \in initial[k] => x \in initial'[k])
      BY <1>1, <1>2, <2>1, <2>3
    <3> QED
      BY <2>1, <2>3, <3>1 DEF NotLost
  <2>4. CASE KindOf[x] # k
    <3>1. /\ proc'[KindOf[x]] = proc[KindOf[x]] /\ initial'[KindOf[x]] = initial[KindOf[x]]
          /\ cache'[x] = cache[x]
      BY <1>1, <2>1, <2>4
    <3> QED
      BY <2>1, <3>1 DEF NotLost
  <2> QED
    BY <2>2, <2>3, <2>4
<1> QED
  BY <1>3 DEF SteadyKept

LEMMA ApplySteady ==
    ASSUME Shape, SteadyKept, NothingFails, NEW k \in Kinds, Apply(k) PROVE SteadyKept'
<1> DEFINE o == proc[k].obj
           d == Head(proc[k].todo)
<1>1. /\ proc[k].pc = "apply" /\ o \in Objects /\ KindOf[o] = k /\ d \in Deltas
      /\ proc[k].todo \in Seq(Deltas) /\ proc[k].todo # <<>> /\ proc[k].stamp \in 0 .. MaxTime
  BY BusyFacts DEF Apply, ProcLocals
<1>2. ~ConvertFails(k, d.obj)
  BY DEF ConvertFails, NothingFails
<1>3. /\ cache' = [cache EXCEPT ![o] = Effect(d)]
      /\ \/ /\ proc' = [proc EXCEPT ![k].pc = "stamp", ![k].stamp = proc[k].stamp]
            /\ UNCHANGED initial
         \/ Advance(k, Tail(proc[k].todo))
  BY <1>2, ApplyCases
<1>4. UNCHANGED <<steady, store, items, populated>>
  BY DEF Apply, api
<1>5. /\ \A x \in Objects \ {o} : cache'[x] = cache[x]
      /\ cache'[o] = Effect(d)
  BY <1>1, <1>3 DEF Shape, TypeOK
<1>6. o \in steady => cache'[o] # Absent
  <2>1. o \in steady => ~IsDeletion(d)
    BY <1>1, TailFacts DEF SteadyKept, NotLost
  <2> QED
    BY <1>1, <1>5, <2>1, DeltaObject
<1>7. CASE Advance(k, Tail(proc[k].todo))
  BY <1>1, <1>4, <1>5, <1>6, <1>7, AdvanceSteady
<1>8. CASE /\ proc' = [proc EXCEPT ![k].pc = "stamp", ![k].stamp = proc[k].stamp]
           /\ UNCHANGED initial
  <2>1. /\ \A j \in Kinds \ {k} : proc'[j] = proc[j]
        /\ proc'[k].obj = o /\ proc'[k].todo = proc[k].todo
    BY <1>1, <1>8, LabelFacts
  <2>2. ASSUME NEW x \in steady PROVE NotLost(x)'
    <3>1. NotLost(x) /\ x \in Objects /\ KindOf[x] \in Kinds
      BY <2>2, KindsAssumption DEF SteadyKept, Shape, TypeOK
    <3>2. CASE x = o
      BY <1>1, <1>4, <1>6, <1>8, <2>1, <2>2, <3>1, <3>2 DEF NotLost
    <3>3. CASE x # o
      BY <1>1, <1>4, <1>5, <1>8, <2>1, <3>1, <3>3 DEF NotLost
    <3> QED
      BY <3>2, <3>3
  <2> QED
    BY <1>4, <2>2 DEF SteadyKept
<1> QED
  BY <1>3, <1>7, <1>8

LEMMA HandlerSteady ==
    ASSUME Shape, SteadyKept, NEW k \in Kinds, Stamp(k) \/ StoreModified(k) PROVE SteadyKept'
<1>1. /\ proc[k].pc \in {"stamp", "store"} /\ proc[k].obj \in Objects /\ KindOf[proc[k].obj] = k
      /\ now \in 0 .. MaxTime
  BY BusyFacts DEF Stamp, StoreModified, Shape, TypeOK
<1>2. UNCHANGED <<steady, store, items, populated, cache>>
  BY DEF Stamp, StoreModified, queue, api
<1>3. CASE Stamp(k)
  <2>1. /\ \A j \in Kinds \ {k} : proc'[j] = proc[j]
        /\ proc'[k].obj = proc[k].obj /\ proc'[k].todo = proc[k].todo
    BY <1>1, <1>3, LabelFacts DEF Stamp
  <2>2. ASSUME NEW x \in steady PROVE NotLost(x)'
    <3>1. NotLost(x) /\ x \in Objects /\ KindOf[x] \in Kinds
      BY <2>2, KindsAssumption DEF SteadyKept, Shape, TypeOK
    <3> QED
      BY <1>1, <1>2, <1>3, <2>1, <3>1 DEF NotLost, Stamp, queue
  <2> QED
    BY <1>2, <2>2 DEF SteadyKept
<1>4. CASE StoreModified(k)
  <2>1. proc[k].obj \in steady => cache'[proc[k].obj] # Absent
    BY <1>1, <1>2 DEF SteadyKept, NotLost
  <2> QED
    BY <1>1, <1>2, <1>4, <2>1, AdvanceSteady DEF StoreModified
<1> QED
  BY <1>3, <1>4

\* A miss in a synced cache is a miss of something that was not there all along.
LEMMA ReadCacheMissed ==
    ASSUME Shape, SteadyKept, MissedGone, NEW h \in Dnss, ReadCache(h) PROVE MissedGone'
<1>1. PICK q \in DnsLocals :
        /\ dns' = [dns EXCEPT ![h] = q] /\ q.name = dns[h].name
        /\ Path(dns[h].name)[dns[h].at] \in Objects
        /\ \/ ~q.synced
           \/ /\ q.at = dns[h].at /\ q.synced = HasSynced
              /\ cache[Path(dns[h].name)[dns[h].at]] = Absent
  BY ReadCacheCases
<1>2. q.synced => Path(q.name)[q.at] \notin steady
  <2> SUFFICES ASSUME q.synced PROVE Path(q.name)[q.at] \notin steady
    OBVIOUS
  <2> DEFINE x == Path(q.name)[q.at]
  <2>1. HasSynced /\ x \in Objects /\ cache[x] = Absent /\ KindOf[x] \in Kinds
    BY <1>1, KindsAssumption
  <2>2. populated[KindOf[x]] /\ initial[KindOf[x]] = {}
    BY <2>1 DEF HasSynced
  <2>3. x \in steady => x \in initial[KindOf[x]]
    BY <2>1, <2>2 DEF SteadyKept, NotLost
  <2> QED
    BY <2>2, <2>3
<1>3. steady' = steady /\ dns'[h] = q /\ \A g \in Dnss \ {h} : dns'[g] = dns[g]
  BY <1>1 DEF ReadCache, api, Shape, TypeOK
<1> QED
  BY <1>2, <1>3 DEF MissedGone

LEMMA NextSteady ==
    ASSUME NothingFails
    PROVE  Shape /\ SteadyKept /\ MissedGone /\ [Next]_vars => SteadyKept' /\ MissedGone'
<1> SUFFICES ASSUME Shape, SteadyKept, MissedGone, [Next]_vars PROVE SteadyKept' /\ MissedGone'
  OBVIOUS
<1>1. CASE \/ UNCHANGED vars \/ \E k \in Kinds : WatchBreaks(k) \/ ReflectorStops(k)
           \/ Tick \/ Run \/ Serve \/ Stop
  <2>1. UNCHANGED <<steady, store, items, proc, cache, populated, initial, dns>>
    BY <1>1 DEF vars, queue, api, WatchBreaks, ReflectorStops, Tick, Run, Serve, Stop
  <2> QED
    BY <2>1 DEF SteadyKept, NotLost, MissedGone
<1>2. CASE \E k \in Kinds : ListAndWatch(k) \/ ProcStep(k)
  <2>1. SteadyKept'
    BY <1>2, ListAndWatchSteady, PopSteady, ApplySteady, HandlerSteady DEF ProcStep
  <2>2. UNCHANGED <<steady, dns>>
    BY <1>2 DEF ListAndWatch, ProcStep, Pop, Apply, Stamp, StoreModified, api
  <2> QED
    BY <2>1, <2>2 DEF MissedGone
<1>3. CASE \E h \in Dnss : (\E o \in Objects : Ask(h, o)) \/ DnsStep(h)
  <2>1. UNCHANGED <<steady, store, items, proc, cache, populated, initial>>
    BY <1>3 DEF queue, api, Ask, DnsStep, ReadCache, CheckSynced
  <2>2. SteadyKept'
    BY <2>1 DEF SteadyKept, NotLost
  <2>3. PICK h \in Dnss : (\E o \in Objects : Ask(h, o)) \/ DnsStep(h)
    BY <1>3
  <2>4. CASE \E o \in Objects : Ask(h, o)
    <3>1. PICK o \in Objects : dns' = [dns EXCEPT ![h] = [Quiet EXCEPT !.pc = "read", !.name = o, !.at = 1]]
      BY <2>4 DEF Ask
    <3>2. ~[Quiet EXCEPT !.pc = "read", !.name = o, !.at = 1].synced
      BY DEF Quiet
    <3>3. ~dns'[h].synced /\ \A g \in Dnss \ {h} : dns'[g] = dns[g]
      BY <3>1, <3>2 DEF Shape, TypeOK
    <3> QED
      BY <2>1, <2>2, <3>3 DEF MissedGone
  <2>5. CASE ReadCache(h)
    BY <2>2, <2>5, ReadCacheMissed
  <2>6. CASE CheckSynced(h)
    <3>1. PICK q \in DnsLocals : /\ dns' = [dns EXCEPT ![h] = q] /\ q.name = dns[h].name
                                 /\ q.at = dns[h].at /\ q.synced = dns[h].synced
      BY <2>6, CheckSyncedCases
    <3>2. dns'[h] = q /\ \A g \in Dnss \ {h} : dns'[g] = dns[g]
      BY <3>1 DEF Shape, TypeOK
    <3> QED
      BY <2>1, <2>2, <3>1, <3>2 DEF MissedGone
  <2> QED
    BY <2>3, <2>4, <2>5, <2>6 DEF DnsStep
<1> QED
  BY <1>1, <1>2, <1>3, ApiSteady DEF Next, ReflectorStep

\* A name error out of a synced cache is about something that was not in the API server at
\* some time: no update, relist or broken watch hides what was there all along
\* (handler.go:30-42, controller.go:279-291), however the reads of the query and the work of
\* the informers interleave.
THEOREM NameErrorsAreTruthful == ASSUME NothingFails PROVE Spec => []TruthfulNameError
<1>1. MissedGone => TruthfulNameError
  BY DEF MissedGone, TruthfulNameError
<1>2. Shape /\ SteadyKept /\ MissedGone /\ [Next]_vars => SteadyKept' /\ MissedGone'
  BY NextSteady
<1> QED
  BY <1>1, <1>2, InitShape, NextShape, InitSteady, PTL DEF Spec

-----------------------------------------------------------------------------
(* The time of the last change                                             *)

\* The contents of o that the API server, the queue, the batch and the cache hold.
Known(o) ==
    Told(items[o]) \cup (IF proc[KindOf[o]].obj = o THEN Told(proc[KindOf[o]].todo) ELSE {})
        \cup ({cache[o], Snapshot(store[o])} \ {Absent})

\* A resource version identifies a content: what detectChanges relies on when it skips an
\* update whose version is the cached one.
Identified ==
    \A o \in Objects : \A a, b \in Known(o) :
        /\ a.ver <= changes
        /\ a.ver = b.ver => a.data = b.data

\* What is known of an object is of the type that the cache keeps.
LEMMA KnownType ==
    ASSUME Shape, NEW o \in Objects PROVE Known(o) \subseteq Cached
<1>1. /\ items[o] \in Seq(Deltas) /\ proc[KindOf[o]].todo \in Seq(Deltas)
      /\ cache[o] \in Cached \cup {Absent} /\ store[o] \in ApiObjects \cup {Absent}
  BY KindFacts DEF ProcLocals, Shape, TypeOK
<1>2. ASSUME NEW s \in Seq(Deltas) PROVE Told(s) \subseteq Cached
  BY <1>2, DeltaObject DEF Told
<1>3. {cache[o], Snapshot(store[o])} \ {Absent} \subseteq Cached
  BY <1>1 DEF Snapshot, Convert, ApiObjects, Cached
<1> QED
  BY <1>1, <1>2, <1>3 DEF Known

\* A step that makes nothing known keeps Identified.
LEMMA KnownShrinks ==
    ASSUME Identified, UNCHANGED changes, \A o \in Objects : Known(o)' \subseteq Known(o)
    PROVE  Identified'
  BY DEF Identified

LEMMA ApiIdentified ==
    ASSUME Shape, Identified, NEW o \in Objects,
           (\E data \in Data : Write(o, data)) \/ Terminate(o) \/ Remove(o)
    PROVE  Identified'
<1>1. PICK new \in ApiObjects \cup {Absent}, d \in Deltas :
             /\ Change(o, new, d)
             /\ new # Absent => ~IsDeletion(d) /\ d.obj = new /\ new.ver = changes + 1
             /\ new = Absent => IsDeletion(d)
  BY ApiStep
<1>2. /\ changes' = changes + 1 /\ changes \in Nat
      /\ store' = [store EXCEPT ![o] = new] /\ store \in [Objects -> ApiObjects \cup {Absent}]
      /\ items' = [items EXCEPT ![o] = Queued(@, d)] \/ items' = items
      /\ items \in [Objects -> Seq(Deltas)]
      /\ UNCHANGED <<proc, cache>>
  BY <1>1, BoundsAssumption DEF Change, Shape, TypeOK
<1>3. \A x \in Objects : Known(x) \subseteq Cached
  BY KnownType
<1>4. ASSUME NEW x \in Objects
      PROVE  \A c \in Known(x)' : c \in Known(x) \/ (new # Absent /\ c = Convert(new) /\ x = o)
  <2>1. CASE x # o
    BY <1>2, <2>1 DEF Known
  <2>2. CASE x = o
    <3>1. Told(items'[o]) \subseteq
            Told(items[o]) \cup (IF IsDeletion(d) THEN {} ELSE {Convert(d.obj)})
      BY <1>2, QueuedFacts
    <3>2. Snapshot(store'[o]) # Absent => new # Absent /\ Snapshot(store'[o]) = Convert(new)
      BY <1>2 DEF Snapshot
    <3> QED
      BY <1>1, <1>2, <2>2, <3>1, <3>2 DEF Known
  <2> QED
    BY <2>1, <2>2
<1>5. new # Absent => Convert(new).ver = changes + 1
  BY <1>1 DEF Convert
<1>6. ASSUME NEW x \in Objects, NEW a \in Known(x)', NEW b \in Known(x)'
      PROVE  a.ver <= changes' /\ (a.ver = b.ver => a.data = b.data)
  <2>1. \A c \in Known(x) : c.ver \in Nat /\ c.ver <= changes
    BY <1>3, BoundsAssumption DEF Cached, Identified
  <2>2. CASE a \in Known(x) /\ b \in Known(x)
    BY <1>2, <2>1, <2>2 DEF Identified
  <2>3. CASE new # Absent /\ (a = Convert(new) \/ b = Convert(new))
    BY <1>2, <1>4, <1>5, <2>1, <2>3
  <2> QED
    BY <1>4, <1>6, <2>2, <2>3
<1> QED
  BY <1>6 DEF Identified

LEMMA ListAndWatchIdentified ==
    ASSUME Shape, Identified, NEW k \in Kinds, ListAndWatch(k) PROVE Identified'
<1>1. UNCHANGED <<changes, store, proc, cache>>
  BY DEF ListAndWatch
<1>2. ASSUME NEW o \in Objects PROVE Known(o)' \subseteq Known(o)
  <2>1. /\ items[o] \in Seq(Deltas) /\ [type |-> "unknown"] \in Deltas
        /\ IsDeletion([type |-> "unknown"])
        /\ store[o] # Absent => /\ [type |-> "set", obj |-> store[o]] \in Deltas
                                /\ ~IsDeletion([type |-> "set", obj |-> store[o]])
                                /\ [type |-> "set", obj |-> store[o]].obj = store[o]
    BY MadeDeltas DEF Shape, TypeOK
  <2>2. \/ items'[o] = items[o]
        \/ store[o] # Absent /\ items'[o] = Queued(items[o], [type |-> "set", obj |-> store[o]])
        \/ items'[o] = Queued(items[o], [type |-> "unknown"])
    BY DEF ListAndWatch
  <2>3. store[o] # Absent => Convert(store[o]) \in Known(o)
    <3>1. store[o] # Absent => Convert(store[o]) # Absent
      BY AbsentAssumption DEF Shape, TypeOK, Convert, ApiObjects, Cached
    <3> QED
      BY <3>1 DEF Known, Snapshot
  <2>4. Told(items'[o]) \subseteq Known(o)
    <3>1. CASE items'[o] = items[o]
      BY <3>1 DEF Known
    <3>2. CASE store[o] # Absent /\ items'[o] = Queued(items[o], [type |-> "set", obj |-> store[o]])
      <4>1. Told(items'[o]) \subseteq Told(items[o]) \cup {Convert(store[o])}
        BY <2>1, <3>2, QueuedFacts
      <4> QED
        BY <2>3, <3>2, <4>1 DEF Known
    <3>3. CASE items'[o] = Queued(items[o], [type |-> "unknown"])
      <4>1. Told(items'[o]) \subseteq Told(items[o])
        BY <2>1, <3>3, QueuedFacts
      <4> QED
        BY <4>1 DEF Known
    <3> QED
      BY <2>2, <3>1, <3>2, <3>3
  <2> QED
    BY <1>1, <2>4 DEF Known
<1> QED
  BY <1>1, <1>2, KnownShrinks

LEMMA PopIdentified ==
    ASSUME Shape, Identified, NEW k \in Kinds, NEW o \in Objects, Pop(k, o) PROVE Identified'
<1>1. /\ UNCHANGED <<changes, store, cache>> /\ KindOf[o] = k
      /\ items \in [Objects -> Seq(Deltas)] /\ proc \in [Kinds -> ProcLocals]
  BY DEF Pop, api, Of, Shape, TypeOK, ProcLocals
<1>2. /\ proc'[k].obj = o /\ proc'[k].todo = items[o]
      /\ \A j \in Kinds \ {k} : proc'[j] = proc[j]
      /\ items'[o] = <<>> /\ \A y \in Objects \ {o} : items'[y] = items[y]
  BY <1>1 DEF Pop, Resting
<1>3. ASSUME NEW x \in Objects PROVE Known(x)' \subseteq Known(x)
  <2>1. KindOf[x] \in Kinds
    BY KindsAssumption
  <2>2. CASE x = o
    BY <1>1, <1>2, <2>2, EmptyFacts DEF Known
  <2>3. CASE x # o
    BY <1>1, <1>2, <2>1, <2>3 DEF Known
  <2> QED
    BY <2>2, <2>3
<1> QED
  BY <1>1, <1>3, KnownShrinks

\* Advance makes nothing known.
LEMMA AdvanceKnown ==
    ASSUME Shape, NEW k \in Kinds, proc[k].pc # "idle", NEW todo \in Seq(Deltas),
           Advance(k, todo), Told(todo) \subseteq Told(proc[k].todo), NEW x \in Objects
    PROVE  (IF proc'[KindOf[x]].obj = x THEN Told(proc'[KindOf[x]].todo) ELSE {})
               \subseteq (IF proc[KindOf[x]].obj = x THEN Told(proc[KindOf[x]].todo) ELSE {})
<1>1. /\ \A j \in Kinds \ {k} : proc'[j] = proc[j]
      /\ todo # <<>> => proc'[k] = [proc[k] EXCEPT !.pc = "apply", !.todo = todo]
      /\ todo = <<>> => proc'[k] = Resting
      /\ proc[k] \in ProcLocals /\ KindOf[x] \in Kinds
  BY AdvanceFacts, BusyFacts, KindsAssumption
<1>2. /\ todo # <<>> => proc'[k].obj = proc[k].obj /\ proc'[k].todo = todo
      /\ todo = <<>> => proc'[k].obj = Absent
  BY <1>1, RestingType DEF ProcLocals
<1> QED
  BY <1>1, <1>2, AbsentAssumption

LEMMA ApplyIdentified ==
    ASSUME Shape, Identified, NEW k \in Kinds, Apply(k) PROVE Identified'
<1> DEFINE o == proc[k].obj
           d == Head(proc[k].todo)
           batch(p, x) == IF p[KindOf[x]].obj = x THEN Told(p[KindOf[x]].todo) ELSE {}
<1>1. /\ proc[k].pc = "apply" /\ o \in Objects /\ KindOf[o] = k /\ d \in Deltas
      /\ proc[k].todo \in Seq(Deltas) /\ proc[k].todo # <<>> /\ proc[k].stamp \in 0 .. MaxTime
      /\ Tail(proc[k].todo) \in Seq(Deltas)
  BY BusyFacts DEF Apply, ProcLocals
<1>2. UNCHANGED <<changes, store, items>>
  BY DEF Apply, api
<1>3. \A x \in Objects : batch(proc', x) \subseteq batch(proc, x)
  <2>1. CASE Advance(k, <<>>)
    BY <1>1, <2>1, AdvanceKnown, EmptyFacts
  <2>2. CASE Advance(k, Tail(proc[k].todo))
    BY <1>1, <2>2, AdvanceKnown, TailFacts
  <2>3. CASE proc' = [proc EXCEPT ![k].pc = "stamp", ![k].stamp = proc[k].stamp]
    <3>1. /\ \A j \in Kinds \ {k} : proc'[j] = proc[j]
          /\ proc'[k].obj = o /\ proc'[k].todo = proc[k].todo
      BY <1>1, <2>3, LabelFacts
    <3> QED
      BY <3>1, KindsAssumption
  <2> QED
    BY <2>1, <2>2, <2>3, ApplyCases
<1>4. ASSUME NEW x \in Objects PROVE cache'[x] # Absent => cache'[x] \in Known(x)
  <2>1. \/ cache'[x] = cache[x]
        \/ x = o /\ cache'[x] = Effect(d)
    BY <1>1, ApplyCases DEF Shape, TypeOK
  <2>2. x = o /\ Effect(d) # Absent => Effect(d) \in Known(x)
    <3>1. Effect(d) # Absent => Effect(d) \in Told(proc[k].todo)
      BY <1>1, TailFacts DEF Effect
    <3> QED
      BY <1>1, <3>1 DEF Known
  <2> QED
    BY <2>1, <2>2 DEF Known
<1>5. ASSUME NEW x \in Objects PROVE Known(x)' \subseteq Known(x)
  BY <1>2, <1>3, <1>4, <1>5 DEF Known
<1> QED
  BY <1>2, <1>5, KnownShrinks

LEMMA HandlerIdentified ==
    ASSUME Shape, Identified, NEW k \in Kinds, Stamp(k) \/ StoreModified(k) PROVE Identified'
<1> DEFINE batch(p, x) == IF p[KindOf[x]].obj = x THEN Told(p[KindOf[x]].todo) ELSE {}
<1>1. /\ proc[k].pc \in {"stamp", "store"} /\ now \in 0 .. MaxTime
      /\ proc[k].todo \in Seq(Deltas) /\ proc[k].todo # <<>>
      /\ Tail(proc[k].todo) \in Seq(Deltas)
  BY BusyFacts DEF Stamp, StoreModified, Shape, TypeOK
<1>2. UNCHANGED <<changes, store, items, cache>>
  BY DEF Stamp, StoreModified, api, queue
<1>3. \A x \in Objects : batch(proc', x) \subseteq batch(proc, x)
  <2>1. CASE StoreModified(k)
    BY <1>1, <2>1, AdvanceKnown, TailFacts DEF StoreModified
  <2>2. CASE Stamp(k)
    <3>1. /\ \A j \in Kinds \ {k} : proc'[j] = proc[j]
          /\ proc'[k].obj = proc[k].obj /\ proc'[k].todo = proc[k].todo
      BY <1>1, <2>2, LabelFacts DEF Stamp
    <3> QED
      BY <3>1, KindsAssumption
  <2> QED
    BY <2>1, <2>2
<1>4. ASSUME NEW x \in Objects PROVE Known(x)' \subseteq Known(x)
  BY <1>2, <1>3 DEF Known
<1> QED
  BY <1>2, <1>4, KnownShrinks

LEMMA NextIdentified == Shape /\ Identified /\ [Next]_vars => Identified'
<1> SUFFICES ASSUME Shape, Identified, [Next]_vars PROVE Identified'
  OBVIOUS
<1>1. CASE \/ UNCHANGED vars
           \/ \E k \in Kinds : WatchBreaks(k) \/ ReflectorStops(k)
           \/ Tick \/ Run \/ Serve \/ Stop
           \/ \E h \in Dnss : (\E o \in Objects : Ask(h, o)) \/ DnsStep(h)
  <2>1. UNCHANGED <<changes, items, proc, cache, store>>
    BY <1>1 DEF vars, queue, api, WatchBreaks, ReflectorStops, Tick, Run, Serve, Stop, Ask,
       DnsStep, ReadCache, CheckSynced
  <2> QED
    BY <2>1 DEF Identified, Known
<1> QED
  BY <1>1, ApiIdentified, ListAndWatchIdentified, PopIdentified, ApplyIdentified,
     HandlerIdentified DEF Next, ReflectorStep, ProcStep

\* A change of the records calls a handler: detectChanges leaves out no such update.
LEMMA VisibleTouches ==
    ASSUME Shape, Identified, NEW k \in Kinds, proc[k].pc = "apply",
           Visible(k, cache[proc[k].obj], Effect(Head(proc[k].todo)))
    PROVE  Touches(k, cache[proc[k].obj], Head(proc[k].todo))
<1> DEFINE o == proc[k].obj
           d == Head(proc[k].todo)
<1>1. /\ o \in Objects /\ KindOf[o] = k /\ d \in Deltas
      /\ proc[k].todo \in Seq(Deltas) /\ proc[k].todo # <<>>
  BY BusyFacts
<1>2. k # "ns"
  BY DEF Visible
<1>3. ASSUME ~IsDeletion(d), cache[o] # Absent
      PROVE  /\ cache[o].ver # d.obj.ver
             /\ k = "ep" => ~endpointsEquivalent(cache[o], Convert(d.obj))
  <2>1. Effect(d) = Convert(d.obj) /\ Effect(d) # Absent /\ Effect(d).ver = d.obj.ver
    BY <1>1, <1>3, DeltaObject DEF Convert
  <2>2. Effect(d) \in Known(o) /\ cache[o] \in Known(o)
    <3>1. Effect(d) \in Told(proc[k].todo)
      BY <1>1, <1>3, <2>1, TailFacts
    <3> QED
      BY <1>1, <1>3, <3>1 DEF Known
  <2>3. cache[o].ver = d.obj.ver => cache[o].data = Effect(d).data
    BY <1>1, <2>1, <2>2 DEF Identified
  <2>4. cache[o].data # Effect(d).data
    BY <1>3, <2>1 DEF Visible
  <2>5. k = "ep" => Significant[cache[o].data] # Significant[Effect(d).data]
    BY <1>3, <2>1 DEF Visible
  <2> QED
    BY <2>1, <2>3, <2>4, <2>5 DEF endpointsEquivalent
<1> QED
  BY <1>2, <1>3 DEF Touches

\* As long as handlers do not overlap there is at most one, it stores a time that is not
\* older than the last change, and when there is none this has been done.
KeepsUp ==
    /\ latest <= now
    /\ ~overlapped =>
         /\ \A j, k \in Kinds : Handling(j) /\ Handling(k) => j = k
         /\ \A k \in Kinds : proc[k].pc = "store" => proc[k].stamp >= latest
         /\ (\A k \in Kinds : ~Handling(k)) => modified >= latest

\* Advance leaves no handler running.
LEMMA AdvanceLabel ==
    ASSUME Shape, NEW k \in Kinds, proc[k].pc # "idle", NEW todo \in Seq(Deltas),
           Advance(k, todo)
    PROVE  /\ \A j \in Kinds \ {k} : proc'[j] = proc[j]
           /\ proc'[k].pc \in {"idle", "apply"}
<1>1. /\ \A j \in Kinds \ {k} : proc'[j] = proc[j]
      /\ todo # <<>> => proc'[k] = [proc[k] EXCEPT !.pc = "apply", !.todo = todo]
      /\ todo = <<>> => proc'[k] = Resting
      /\ proc[k] \in ProcLocals
  BY AdvanceFacts, BusyFacts
<1> QED
  BY <1>1, RestingType DEF ProcLocals

LEMMA ApplyKeepsUp ==
    ASSUME Shape, Identified, KeepsUp, NEW k \in Kinds, Apply(k) PROVE KeepsUp'
<1> DEFINE o == proc[k].obj
           d == Head(proc[k].todo)
<1>1. /\ proc[k].pc = "apply" /\ proc[k].stamp \in 0 .. MaxTime
      /\ Tail(proc[k].todo) \in Seq(Deltas) /\ <<>> \in Seq(Deltas)
      /\ now \in Nat /\ latest \in Nat
  BY BusyFacts, EmptyFacts, BoundsAssumption DEF Apply, ProcLocals, Shape, TypeOK
<1>2. UNCHANGED <<modified, now>>
  BY DEF Apply
<1>3. CASE /\ UNCHANGED <<latest, overlapped>>
           /\ Advance(k, <<>>) \/ Advance(k, Tail(proc[k].todo))
  <2>1. /\ \A j \in Kinds \ {k} : proc'[j] = proc[j] /\ (Handling(j)' <=> Handling(j))
        /\ proc'[k].pc \in {"idle", "apply"}
    <3>1. /\ \A j \in Kinds \ {k} : proc'[j] = proc[j]
          /\ proc'[k].pc \in {"idle", "apply"}
      BY <1>1, <1>3, AdvanceLabel
    <3> QED
      BY <3>1 DEF Handling
  <2>2. ~Handling(k) /\ ~Handling(k)'
    BY <1>1, <2>1 DEF Handling
  <2> QED
    BY <1>1, <1>2, <1>3, <2>1, <2>2 DEF KeepsUp
<1>4. CASE /\ proc' = [proc EXCEPT ![k].pc = "stamp", ![k].stamp = proc[k].stamp]
           /\ latest' \in {latest, now}
           /\ overlapped' = (overlapped \/ \E j \in Kinds : Handling(j))
  <2>1. proc'[k].pc = "stamp" /\ \A j \in Kinds \ {k} : proc'[j] = proc[j]
    BY <1>1, <1>4, LabelFacts
  <2>2. ~overlapped' => ~overlapped /\ \A j \in Kinds \ {k} : ~Handling(j)'
    BY <1>4, <2>1 DEF Handling
  <2>3. latest' <= now'
    BY <1>1, <1>2, <1>4 DEF KeepsUp
  <2>4. Handling(k)' /\ \A j \in Kinds : proc'[j].pc = "store" => Handling(j)' /\ j # k
    BY <2>1 DEF Handling
  <2> QED
    BY <2>2, <2>3, <2>4 DEF KeepsUp
<1>5. latest' \in {latest, now} /\ (Touches(k, cache[o], d) \/ latest' = latest)
  BY <1>1, ApplyCases, VisibleTouches
<1> QED
  BY <1>3, <1>4, <1>5, ApplyCases

LEMMA HandlerKeepsUp ==
    ASSUME Shape, KeepsUp, NEW k \in Kinds, Stamp(k) \/ StoreModified(k) PROVE KeepsUp'
<1>1. /\ proc[k].pc \in {"stamp", "store"} /\ now \in 0 .. MaxTime /\ latest \in 0 .. MaxTime
      /\ Tail(proc[k].todo) \in Seq(Deltas)
  BY BusyFacts DEF Stamp, StoreModified, Shape, TypeOK
<1>2. UNCHANGED <<now, latest, overlapped>>
  BY DEF Stamp, StoreModified, serial
<1>3. CASE Stamp(k)
  <2>1. /\ \A j \in Kinds \ {k} : proc'[j] = proc[j]
        /\ proc'[k].pc = "store" /\ proc'[k].stamp = now
    BY <1>1, <1>3, LabelFacts DEF Stamp
  <2> QED
    BY <1>1, <1>2, <2>1 DEF KeepsUp, Handling
<1>4. CASE StoreModified(k)
  <2>1. /\ \A j \in Kinds \ {k} : proc'[j] = proc[j]
        /\ proc'[k].pc \in {"idle", "apply"}
    BY <1>1, <1>4, AdvanceLabel DEF StoreModified
  <2>2. ~overlapped => modified' >= latest
    BY <1>1, <1>4 DEF StoreModified, KeepsUp
  <2> QED
    BY <1>1, <1>2, <2>1, <2>2 DEF KeepsUp, Handling
<1> QED
  BY <1>3, <1>4

LEMMA NextKeepsUp == Shape /\ Identified /\ KeepsUp /\ [Next]_vars => KeepsUp'
<1> SUFFICES ASSUME Shape, Identified, KeepsUp, [Next]_vars PROVE KeepsUp'
  OBVIOUS
<1>1. now \in Nat /\ latest \in Nat
  BY BoundsAssumption DEF Shape, TypeOK
<1>2. CASE \E k \in Kinds : \E o \in Objects : Pop(k, o)
  <2>1. PICK k \in Kinds : \E o \in Objects : Pop(k, o)
    BY <1>2
  <2>2. /\ \A j \in Kinds \ {k} : proc'[j] = proc[j]
        /\ proc[k].pc = "idle" /\ proc'[k].pc = "apply"
        /\ UNCHANGED <<now, latest, overlapped, modified>>
    BY <2>1 DEF Pop, Resting, serial, Shape, TypeOK
  <2> QED
    BY <2>2 DEF KeepsUp, Handling
<1>3. CASE UNCHANGED <<proc, modified, latest, overlapped>> /\ (now' = now \/ now' = now + 1)
  <2>1. latest' <= now'
    BY <1>1, <1>3 DEF KeepsUp
  <2> QED
    BY <1>3, <2>1, Zenon DEF KeepsUp, Handling
<1>4. \/ \E k \in Kinds : \E o \in Objects : Pop(k, o)
      \/ \E k \in Kinds : Apply(k) \/ Stamp(k) \/ StoreModified(k)
      \/ UNCHANGED <<proc, modified, latest, overlapped>> /\ (now' = now \/ now' = now + 1)
  BY DEF Next, vars, serial, Write, Terminate, Remove, Change, ReflectorStep, ListAndWatch,
     ReflectorStops, WatchBreaks, ProcStep, Tick, Run, Serve, Stop, Ask, DnsStep, ReadCache,
     CheckSynced
<1> QED
  BY <1>2, <1>3, <1>4, ApplyKeepsUp, HandlerKeepsUp

LEMMA InitSerial == Init => Identified /\ KeepsUp
<1>1. Init => Identified
  <2> SUFFICES ASSUME Init PROVE Identified
    OBVIOUS
  <2>1. /\ Shape /\ changes = 0
        /\ \A o \in Objects : items[o] = <<>> /\ cache[o] = Absent /\ proc[KindOf[o]].obj = Absent
    BY InitShape, KindsAssumption DEF Init, Resting
  <2>2. ASSUME NEW o \in Objects, NEW a \in Known(o) PROVE a = Convert(store[o]) /\ store[o] # Absent
    BY <2>1, <2>2, EmptyFacts, AbsentAssumption DEF Known, Snapshot
  <2>3. \A o \in Objects : store[o] # Absent => store[o].ver = 0
    BY DEF Init
  <2> QED
    BY <2>1, <2>2, <2>3 DEF Identified, Convert
<1>2. Init => KeepsUp
  BY DEF Init, KeepsUp, Handling, Resting
<1> QED
  BY <1>1, <1>2

\* As long as the handlers of two informers never overlap, Modified is not older than the
\* last change of the records once they have returned (controller.go:416-442, :510-519): no
\* order of updates, relists and deletions makes detectChanges leave out a change.
THEOREM SerialKeepsUp == Spec => []ModifiedIsLatest
<1>1. Shape /\ KeepsUp => ModifiedIsLatest
  BY DEF KeepsUp, ModifiedIsLatest, Handling
<1> QED
  BY <1>1, InitShape, InitSerial, NextShape, NextIdentified, NextKeepsUp, PTL DEF Spec
=============================================================================
