-------------------------- MODULE MCZoneTransfer --------------------------
(***************************************************************************)
(* Instances of ZoneTransfer for TLC: one service, headless or with a      *)
(* ClusterIP, its endpoints, their namespace, and one secondary.           *)
(***************************************************************************)
EXTENDS ZoneTransfer, TLC

CONSTANTS n1, s1, e1, d1, d2, star, sec1

MCKindOf == (n1 :> "ns") @@ (s1 :> "svc") @@ (e1 :> "ep")
MCNsOf == (n1 :> n1) @@ (s1 :> n1) @@ (e1 :> n1)
MCSvcOf == (e1 :> s1)
MCSignificant == (d1 :> 1) @@ (d2 :> 2)
MCServiceType == (d1 :> "headless") @@ (d2 :> "cluster")

\* With at most three units in an envelope a transfer has two or three envelopes.
MCRRLen == ("SOA" :> 2) @@ ("A" :> 1) @@ ("hostA" :> 2) @@ ("SRV" :> 2) @@
           ("portSRV" :> 2) @@ ("CNAME" :> 1)
=============================================================================
