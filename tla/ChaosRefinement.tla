-------------------------- MODULE ChaosRefinement --------------------------
(***************************************************************************)
(* ChaosServer with one RPC at a time implements ChaosContract.            *)
(*                                                                         *)
(* The rule of a settled pod is what ipPodMap leads a query from its one   *)
(* address to; the namespace maps, podMap, the PodInfo objects that are no *)
(* longer reachable, the clock and all queries are steps the contract does *)
(* not see.                                                                *)
(***************************************************************************)
EXTENDS ChaosServer

\* A pod has settled if it ever had one address only, and that was never another pod's.
HasSettled(p) ==
    \E o \in owned : o[1] \in IPs /\ \A x \in owned : x[1] = o[1] <=> x[2] = p
Address(p) == CHOOSE a \in IPs : <<a, p>> \in owned

RuleOf(info) == [action |-> info.action, scope |-> info.scope, sel |-> info.sel]
RequestedRule(r) == [action |-> r.action, scope |-> ScopeOf(r), sel |-> r.patterns]

\* The rule that judges the queries of a settled pod.
RuleInForce(p) ==
    IF HasSettled(p) /\ ipPodMap[Address(p)] # Nil THEN RuleOf(heap[ipPodMap[Address(p)]]) ELSE Nil

\* The call that is served; replacing: its old entry is gone and the new one not yet there.
Call ==
    IF RpcIdle THEN [op |-> "none", name |-> Nil, req |-> Nil, replacing |-> Nil]
    ELSE LET h == CHOOSE g \in Rpcs : InFlight(g)
             set == rpc[h].pc \in SetLabels
         IN  [op |-> IF set THEN "set" ELSE "cancel",
              name |-> rpc[h].name,
              req |-> IF set THEN rpc[h].req ELSE Nil,
              replacing |-> IF rpc[h].pc \in {"setStorePod", "setStoreIP"} /\ rpc[h].old # Nil
                            THEN Pod(h) ELSE Nil]

Contract == INSTANCE ChaosContract WITH
    Rule <- RequestedRule,
    BootRules <- [p \in Pods |-> IF p \in CorefilePods
                                 THEN RuleOf(CorefileInfo(CorefileEntry(p))) ELSE Nil],
    ready <- phase \in {"grpc", "up"},
    settled <- {p \in Pods : HasSettled(p)},
    rule <- [p \in Pods |-> RuleInForce(p)],
    recorded <- chaosMap,
    call <- Call

\* With one RPC at a time the handlers keep the contract: a rule of a settled pod changes
\* only by a call that names it, and never by a query, a refresh, another pod's move or a
\* failed look-up; a Set that succeeds has given all its pods their rule, one that fails
\* is on record; a Cancel leaves none of its pods with a rule
\* (grpc_server.go:42-146, chaos.go:126-158, kubernetes.go:281-293).
KeepsContract == Contract!Spec
=============================================================================
