---------------------------- MODULE MCKubeCache ----------------------------
(***************************************************************************)
(* Instances of KubeCache for TLC: one object of each kind.                *)
(***************************************************************************)
EXTENDS KubeCache, TLC

CONSTANTS n1, s1, e1, p1, d1, d2

MCKindOf == (n1 :> "ns") @@ (s1 :> "svc") @@ (e1 :> "ep") @@ (p1 :> "pod")
MCNsOf == (n1 :> n1) @@ (s1 :> n1) @@ (e1 :> n1) @@ (p1 :> n1)
MCSvcOf == (e1 :> s1)

\* Endpoints with d1 and with d2 have other addresses or ports; two versions with the
\* same content differ in what endpointsEquivalent does not look at.
MCSignificant == (d1 :> 1) @@ (d2 :> 2)
=============================================================================
