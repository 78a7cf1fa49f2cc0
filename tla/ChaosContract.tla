--------------------------- MODULE ChaosContract ---------------------------
(***************************************************************************)
(* What the plugin promises the controller of Chaos Mesh, which sends one  *)
(* call at a time: a pod has one rule at most, a SetDNSChaos gives its     *)
(* rule to the pods it names, a CancelDNSChaos takes the rules away from   *)
(* the pods of its experiment, nothing else ever touches a rule, and what  *)
(* a call may have done is on record before it is done, so that a Cancel   *)
(* can undo a call that failed half way.                                   *)
(*                                                                         *)
(* The promise is about settled pods.  Maps, addresses, namespaces,        *)
(* PodInfo objects, queries and the refresh of overdue rules are not       *)
(* visible here: ChaosRefinement says how they implement this.             *)
(***************************************************************************)
EXTENDS Sequences

CONSTANTS
    Pods,          \* pods
    ChaosNames,    \* names of chaos experiments
    Requests,      \* SetDNSChaos requests
    Rule(_),       \* the rule that a request asks for
    BootRules,     \* the rules of the Corefile: pod -> rule, or Nil
    Nil            \* no rule, no request, no call

VARIABLES
    ready,      \* does the server take calls?
    settled,    \* the pods whose one address was never another pod's
    rule,       \* settled pod -> the rule its queries are answered by
    recorded,   \* name of an experiment -> its request
    call        \* the call that is being served

vars == <<ready, settled, rule, recorded, call>>

Idle == [op |-> "none", name |-> Nil, req |-> Nil, replacing |-> Nil]
Named(r) == {r.pods[k] : k \in DOMAIN r.pods}

\* The pods that the call in progress may touch; a Set must be on record first.
InCharge ==
    CASE call.op = "set" /\ recorded[call.req.name] = call.req -> Named(call.req)
      [] call.op = "cancel" /\ recorded[call.name] # Nil -> Named(recorded[call.name])
      [] OTHER -> {}

Init ==
    /\ ready = FALSE /\ call = Idle
    /\ settled \subseteq Pods
    /\ rule = [p \in Pods |-> Nil]
    /\ recorded = [c \in ChaosNames |-> Nil]

\* Start-up gives the Corefile's pods their rules.
Load(p) ==
    /\ ~ready /\ p \in settled /\ BootRules[p] # Nil
    /\ rule' = [rule EXCEPT ![p] = BootRules[p]]
    /\ UNCHANGED <<ready, settled, recorded, call>>

Start ==
    /\ ~ready /\ \A p \in settled : BootRules[p] # Nil => rule[p] = BootRules[p]
    /\ ready' = TRUE
    /\ UNCHANGED <<settled, rule, recorded, call>>

\* The process ends, and no pod is afflicted any more.
Restart ==
    /\ ready' = FALSE /\ call' = Idle
    /\ rule' = [p \in Pods |-> Nil]
    /\ recorded' = [c \in ChaosNames |-> Nil]
    /\ UNCHANGED settled

Begin ==
    /\ ready /\ call = Idle
    /\ \/ \E r \in Requests : call' = [Idle EXCEPT !.op = "set", !.req = r]
       \/ \E c \in ChaosNames : call' = [Idle EXCEPT !.op = "cancel", !.name = c]
    /\ UNCHANGED <<ready, settled, rule, recorded>>

\* A Set is recorded; it may be refused, or have nothing to do.
Record ==
    /\ call.op = "set"
    /\ recorded' = [recorded EXCEPT ![call.req.name] = call.req]
    /\ call' \in {call, Idle}
    /\ UNCHANGED <<ready, settled, rule>>

\* The rule of a pod that the call names is taken away.  A Set does so only to replace it.
Lift(p) ==
    /\ p \in InCharge /\ call.replacing = Nil
    /\ rule' = [rule EXCEPT ![p] = Nil]
    /\ call' = IF call.op = "set" THEN [call EXCEPT !.replacing = p] ELSE call
    /\ UNCHANGED <<ready, settled, recorded>>

InForce(r, rules) == \A p \in Named(r) \cap settled : rules[p] = Rule(r)

\* A Set gives a pod its rule; if that is the end of the call, all pods have theirs.
Impose(p) ==
    /\ call.op = "set" /\ p \in InCharge /\ call.replacing \in {Nil, p}
    /\ rule' = [rule EXCEPT ![p] = IF p \in settled THEN Rule(call.req) ELSE Nil]
    /\ \/ call' = [call EXCEPT !.replacing = Nil]
       \/ call' = Idle /\ InForce(call.req, rule')
    /\ UNCHANGED <<ready, settled, recorded>>

\* A Set fails: it is on record, and no pod is without a rule because of it.
Fail ==
    /\ call.op = "set" /\ recorded[call.req.name] = call.req /\ call.replacing = Nil
    /\ call' = Idle
    /\ UNCHANGED <<ready, settled, rule, recorded>>

\* A Cancel is through: its pods have no rule, and the record goes with them.
Cancelled ==
    /\ call.op = "cancel" /\ \A p \in InCharge : rule[p] = Nil
    /\ recorded' = [recorded EXCEPT ![call.name] = Nil]
    /\ call' = Idle
    /\ UNCHANGED <<ready, settled, rule>>

\* Pods get their first address and settle, without a rule; others move and are no longer
\* in this contract.
ClusterChanges ==
    /\ UNCHANGED <<ready, recorded, call>>
    /\ settled' \subseteq Pods
    /\ LET stay == settled \cap settled'
       IN  rule' = [p \in Pods |-> IF p \in stay THEN rule[p] ELSE Nil]

Next ==
    \/ ClusterChanges
    \/ Start \/ Restart \/ Begin \/ Record \/ Fail \/ Cancelled
    \/ \E p \in Pods : Load(p) \/ Lift(p) \/ Impose(p)

Spec == Init /\ [][Next]_vars
=============================================================================
