--------------------------- MODULE MCPluginSetup ---------------------------
(***************************************************************************)
(* Instances of PluginSetup for TLC: reloads among Corefiles with the same *)
(* gRPC port, with another one and with mistakes, and the stanzas that are *)
(* made of up to three lines of which some are wrong.                      *)
(***************************************************************************)
EXTENDS PluginSetup, TLC

Line(opt, args) == [opt |-> opt, args |-> args]
Stanza(zones, lines) == [zones |-> zones, keys |-> <<"example.">>, lines |-> lines]

MCNumber == ("30" :> 30) @@ ("9999" :> 9999) @@ ("70000" :> 70000)
MCPodOf == ("busybox.busybox-0" :> <<"busybox", "busybox-0">>)

MCLines ==
    {Line("endpoint_pod_names", <<>>), Line("pods", <<"verified">>), Line("pods", <<"some">>),
     Line("namespaces", <<"ns1">>), Line("namespaces", <<"ns2">>), Line("endpoint", <<"api">>),
     Line("tls", <<"cert", "key", "ca">>), Line("tls", <<"cert">>), Line("labels", <<"a=b">>),
     Line("namespace_labels", <<"a=b">>), Line("namespace_labels", <<"a">>),
     Line("fallthrough", <<>>), Line("ttl", <<"30">>), Line("ttl", <<"9999">>),
     Line("transfer", <<"to", "*">>), Line("transfer", <<"to", "host">>),
     Line("transfer", <<"from", "*">>), Line("noendpoints", <<>>),
     Line("ignore", <<>>), Line("ignore", <<"empty_service">>), Line("kubeconfig", <<"file", "ctx">>),
     Line("grpcport", <<"9999">>), Line("grpcport", <<"30", "9999">>),
     Line("chaos", <<"error", "all", "busybox.busybox-0">>),
     Line("chaos", <<"random", "inner", "busybox.busybox-0">>), Line("chaos", <<"error", "all">>)}

MCStanzas ==
    {Stanza(z, <<a, b>>) : z \in {<<>>, <<"in-addr.arpa.">>}, a \in MCLines, b \in MCLines}
    \cup {Stanza(<<>>, <<a, b, c>>) :
             a \in {Line("namespaces", <<"ns1">>), Line("noendpoints", <<>>)}, b \in MCLines,
             c \in {Line("namespace_labels", <<"a=b">>), Line("grpcport", <<"9999">>)}}

plain == Stanza(<<"in-addr.arpa.", "cluster.local.">>, <<Line("pods", <<"verified">>)>>)
moved == Stanza(<<"cluster.local.">>, <<Line("grpcport", <<"9999">>)>>)
far == Stanza(<<"cluster.local.">>, <<Line("grpcport", <<"70000">>)>>)
wrong == Stanza(<<"in-addr.arpa.">>, <<>>)
MCCorefiles == {<<plain>>, <<moved>>, <<far>>, <<wrong>>, <<plain, plain>>}
=============================================================================
