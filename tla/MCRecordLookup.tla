-------------------------- MODULE MCRecordLookup --------------------------
(***************************************************************************)
(* Small clusters for RecordLookup: services a and b in ns1 and a in ns2,  *)
(* each of any type or absent, with and without endpoints, seen through    *)
(* the options that change what is found.                                  *)
(***************************************************************************)
EXTENDS RecordLookup, TLC

MCIPs == {"10.0.0.1", "10.0.0.2", "172.0.0.1", "172.0.0.2", "8.8.8.8"}
MCDash == ("10.0.0.1" :> "10-0-0-1") @@ ("10.0.0.2" :> "10-0-0-2") @@
          ("172.0.0.1" :> "172-0-0-1") @@ ("172.0.0.2" :> "172-0-0-2") @@ ("8.8.8.8" :> "8-8-8-8")

http == [name |-> "http", proto |-> "tcp", num |-> 80]
unnamed == [name |-> "", proto |-> "tcp", num |-> 81]

Service(n, ns, type, ip) ==
    [name |-> n, ns |-> ns, type |-> type, ports |-> IF n = "a" THEN {http, unnamed} ELSE {},
     host |-> CASE type = "cluster" -> ip [] type = "headless" -> "None" [] OTHER -> "web.example",
     externalIPs |-> IF type = "cluster" THEN {"8.8.8.8"} ELSE {},
     ingress |-> IF type = "headless" \/ n = "b" THEN {}
                 ELSE {[ip |-> "", hostname |-> "lb.example"], [ip |-> "8.8.8.8", hostname |-> "lb.example"]}]

\* A service of any type, or none.
AnyService(n, ns, ip) ==
    {{}} \cup {{Service(n, ns, type, ip)} : type \in {"cluster", "headless", "external"}}

Endpoints(n, ns, addrs) ==
    [name |-> n, ns |-> ns, subsets |-> {[addrs |-> addrs, ports |-> {http}]}]

host1 == [ip |-> "10.0.0.1", hostname |-> "h1", target |-> "pod-1"]
host2 == [ip |-> "10.0.0.2", hostname |-> "", target |-> "pod-2"]

\* What the endpoints of a in ns1 may become: another pod, another host name, no ports.
MCRevisions ==
    {Endpoints("a", "ns1", {host1}), Endpoints("a", "ns1", {[host1 EXCEPT !.target = "pod-3"]}),
     Endpoints("a", "ns1", {[host1 EXCEPT !.hostname = "h3"]}),
     Endpoints("a", "ns1", {host1, [host2 EXCEPT !.target = ""]})}

Conf(namespaces, mode, ignore, names, endpoints) ==
    [namespaces |-> namespaces, podMode |-> mode, ignoreEmpty |-> ignore, podNames |-> names,
     endpoints |-> endpoints]

\* Two pods on the network of the same host.
SharedPods == {[ns |-> "ns1", ip |-> "10.0.0.1"], [ns |-> "ns2", ip |-> "10.0.0.1"]}

MCWorlds ==
    {[nss |-> nss, svcs |-> a1 \cup b1 \cup a2, eps |-> e1 \cup e2, pods |-> SharedPods,
      local |-> {"10.0.0.1"},
      conf |-> conf] :
        nss \in {{"ns1"}, {"ns1", "ns2"}},
        a1 \in AnyService("a", "ns1", "172.0.0.1"), b1 \in AnyService("b", "ns1", "172.0.0.2"),
        a2 \in {{}} \cup {{Service("a", "ns2", type, "172.0.0.2")} : type \in {"cluster", "headless"}},
        e1 \in {{}} \cup {{Endpoints("a", "ns1", addrs)} : addrs \in {{}, {host1}, {host1, host2}}},
        e2 \in {{}, {Endpoints("a", "ns2", {host2})}},
        conf \in {Conf({}, "verified", FALSE, FALSE, TRUE), Conf({"ns1"}, "insecure", FALSE, TRUE, TRUE),
                  Conf({}, "disabled", TRUE, FALSE, TRUE), Conf({"ns1"}, "verified", FALSE, FALSE, FALSE)}}

Spaces == {"ns1", "ns2", "*"}
MCNames ==
    {<<"svc">>, <<"pod">>, <<"x">>, <<"ns", "dns">>, <<"dns-version">>, <<"h1", "h1", "h1", "a", "ns1", "svc">>}
    \cup {<<n, t>> : n \in Spaces, t \in {"svc", "pod"}}
    \cup {<<s, n, "svc">> : s \in {"a", "b", "*"}, n \in Spaces}
    \cup {<<e, s, n, "svc">> : e \in {"h1", "10-0-0-2", "pod-2", "*"}, s \in {"a", "*"}, n \in Spaces}
    \cup {<<p, "_tcp", s, n, "svc">> : p \in {"_http", "_dns"}, s \in {"a", "*"}, n \in Spaces}
    \cup {<<p, n, "pod">> : p \in {"10-0-0-1", "10-0-0-2", "*"}, n \in Spaces}
=============================================================================
