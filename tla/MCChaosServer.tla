--------------------------- MODULE MCChaosServer ---------------------------
(***************************************************************************)
(* Instances of ChaosServer for TLC: two pods of one namespace, so that    *)
(* the inner map of podMap is shared, and two experiments that overlap.    *)
(***************************************************************************)
EXTENDS ChaosRefinement, TLC

CONSTANTS p1, p2, ns1, c1, c2, web, db, pat, bad, ip1, ip2, rpc1, rpc2, dns1, dns2

MCNsOf == (p1 :> ns1) @@ (p2 :> ns1)
MCNsOfOne == (p1 :> ns1)
MCMatches == (pat :> {web}) @@ (bad :> {})

Request(c, pods, action, scope, patterns) ==
    [name |-> c, pods |-> pods, action |-> action, scope |-> scope, patterns |-> patterns]

\* One experiment on both pods, one on the second with a pattern, one that is refused.
MCRequests ==
    {Request(c1, <<p1, p2>>, "error", "all", {}),
     Request(c2, <<p2>>, "random", "inner", {pat}),
     Request(c2, <<p2>>, "random", "inner", {pat, bad})}

\* The goroutines and the addresses are interchangeable.
Symmetry == Permutations({rpc1, rpc2}) \cup Permutations({ip1, ip2})

\* The experiments that no request is refused of, for two RPCs at a time.
MCShortRequests ==
    {Request(c1, <<p1>>, "error", "all", {}),
     Request(c2, <<p2>>, "random", "inner", {pat})}

MCOneRequest == {Request(c1, <<p1>>, "error", "all", {})}

\* One experiment on both pods, and one that is refused.
MCContractRequests ==
    {Request(c1, <<p1, p2>>, "random", "inner", {pat}),
     Request(c2, <<p2>>, "error", "all", {bad})}

MCEmptyCorefile == <<>>

\* Two chaos lines for one pod, of which the second wins, and one for another pod.
MCCorefile ==
    <<[pod |-> p1, action |-> "random", scope |-> "all"],
      [pod |-> p2, action |-> "error", scope |-> "all"],
      [pod |-> p1, action |-> "error", scope |-> "inner"]>>
=============================================================================
