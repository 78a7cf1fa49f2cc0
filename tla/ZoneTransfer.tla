---------------------------- MODULE ZoneTransfer ----------------------------
(***************************************************************************)
(* Zone transfers (xfr.go) over the cache of KubeCache.  ServeDNS hands an *)
(* AXFR to Transfer.  A goroutine, transfer, lists the services and reads  *)
(* the endpoints of the headless ones, one read after the other, while the *)
(* informers go on; then the serial is read for the SOA; then a second     *)
(* goroutine cuts the records into envelopes and hands them over an        *)
(* unbuffered channel to dns.Transfer.Out, which writes them to the        *)
(* client.  A secondary keeps what it received and transfers again when it *)
(* sees another serial.  The endpoints are watched: without them (option   *)
(* noendpoints) transfer panics at the first headless service, which is a  *)
(* case of RecordLookup.                                                   *)
(***************************************************************************)
EXTENDS KubeCache

CONSTANTS
    Clients,         \* the addresses that ask for transfers
    TransferTo,      \* the addresses of the transfer option
    AnyClient,       \* the value * of the transfer option
    ServiceType,     \* content of a service -> "cluster", "headless" or "external"
    RRLen,           \* type of a record -> its length on the wire
    transferLength,  \* length after which an envelope is cut
    MaxTransfers     \* bound: transfers that are asked for

\* The records: the SOA, the addresses of a service and of one of its hosts, its port 0
\* and its named ports, its alias.
RRTypes == {"SOA", "A", "hostA", "SRV", "portSRV", "CNAME"}

ASSUME TransferAssumption ==
    /\ "ep" \in Kinds
    /\ \A o \in Of("svc") : NsOf[o] \in Of("ns")
    /\ \A d \in Data : ServiceType[d] \in {"cluster", "headless", "external"}
    /\ transferLength \in Nat /\ MaxTransfers \in Nat
    /\ RRLen \in [RRTypes -> Nat] /\ RRLen["SOA"] <= transferLength

VARIABLES
    xfr,        \* the transfer a client asked for: program counter and locals
    copy,       \* each client's copy of the zone, and the serial it has for it
    transfers,  \* transfers so far
    blocked     \* sender goroutines that no one receives from any more

zoneVars == <<xfr, copy, transfers, blocked>>
allVars == <<vars, zoneVars>>

NoTransfer == [pc |-> "idle", todo |-> {}, rrs |-> <<>>, next |-> 1, got |-> <<>>,
               spaces |-> {}, raced |-> FALSE]

-----------------------------------------------------------------------------
(* The records of the zone                                                 *)

rr(type, o, content) == [type |-> type, of |-> o, content |-> content]
SOA(n) == rr("SOA", Absent, n)

namespaceExposed(o) == cache[NsOf[o]] # Absent

\* EpIndex, and the records of what it finds: addresses of the service and of each host,
\* and the named ports.
EndpointsRRs(s) ==
    LET eps == {e \in Of("ep") : SvcOf[e] = s /\ cache[e] # Absent}
    IN  IF eps = {} THEN <<>>
        ELSE LET e == CHOOSE x \in eps : TRUE
                 d == Significant[cache[e].data]
             IN  <<rr("A", e, d), rr("hostA", e, d), rr("SRV", e, d)>>

\* The records of a service that ServiceList returned with content d.
ServiceRRs(s, d) ==
    CASE ~namespaceExposed(s) -> <<>>
      [] namespaceExposed(s) /\ ServiceType[d] = "cluster" ->
            <<rr("A", s, d), rr("SRV", s, d), rr("portSRV", s, d)>>
      [] namespaceExposed(s) /\ ServiceType[d] = "headless" -> EndpointsRRs(s)
      [] namespaceExposed(s) /\ ServiceType[d] = "external" -> <<rr("CNAME", s, d)>>

Elements(seq) == {seq[k] : k \in DOMAIN seq}

\* The services in the indexer, with their content.
ServiceList == {<<s, cache[s].data>> : s \in {o \in Of("svc") : cache[o] # Absent}}

\* The records and the namespaces that a transfer with no change during it finds.
ZoneRRs == UNION {Elements(ServiceRRs(sd[1], sd[2])) : sd \in ServiceList}
Spaces == {o \in Of("ns") : cache[o] # Absent}

-----------------------------------------------------------------------------
(* Transfer                                                                *)

transferAllowed(c) == AnyClient \in TransferTo \/ c \in TransferTo

ZoneInit ==
    /\ Init
    /\ xfr = [c \in Clients |-> NoTransfer]
    /\ copy = [c \in Clients |-> Absent]
    /\ transfers = 0 /\ blocked = 0

\* A client that has no copy of the zone, or sees another serial, asks.  If it is allowed
\* to, transfer starts with the list of services.  The result of Transfer is not used: at
\* its end, and when it is refused, ServeDNS goes on with no records and no error and sends
\* one more message, NODATA.
Transfer(c) ==
    /\ phase = "serving" /\ xfr[c].pc = "idle" /\ transfers < MaxTransfers
    /\ copy[c] # Absent => copy[c].serial # modified
    /\ transfers' = transfers + 1
    /\ xfr' = IF transferAllowed(c)
              THEN [xfr EXCEPT ![c].pc = "emit", ![c].todo = ServiceList, ![c].spaces = Spaces]
              ELSE xfr
    /\ UNCHANGED <<vars, copy, blocked>>

\* One turn of the loop over the services, in any order.  Its reads of the namespace and of
\* the endpoints are one step.
EmitService(c, sd) ==
    /\ xfr[c].pc = "emit" /\ sd \in xfr[c].todo
    /\ xfr' = [xfr EXCEPT ![c].todo = @ \ {sd}, ![c].rrs = @ \o ServiceRRs(sd[1], sd[2])]
    /\ UNCHANGED <<vars, copy, transfers, blocked>>

\* Variant: the serial is put in front of the records only.
ReadSerialOnce(c) ==
    /\ xfr[c].pc = "emit" /\ xfr[c].todo = {} /\ xfr[c].rrs # <<>>
    /\ xfr' = [xfr EXCEPT ![c].pc = "send", ![c].rrs = <<SOA(modified)>> \o @]
    /\ UNCHANGED <<vars, copy, transfers, blocked>>

\* The SOA, with the serial of now, goes in front of the records and behind them.
ReadSerial(c) ==
    /\ xfr[c].pc = "emit" /\ xfr[c].todo = {} /\ xfr[c].rrs # <<>>
    /\ xfr' = [xfr EXCEPT ![c].pc = "send",
                          ![c].rrs = <<SOA(modified)>> \o @ \o <<SOA(modified)>>]
    /\ UNCHANGED <<vars, copy, transfers, blocked>>

\* No records: a server failure, which is not told either.
NothingToSend(c) ==
    /\ xfr[c].pc = "emit" /\ xfr[c].todo = {} /\ xfr[c].rrs = <<>>
    /\ xfr' = [xfr EXCEPT ![c] = NoTransfer]
    /\ UNCHANGED <<vars, copy, transfers, blocked>>

-----------------------------------------------------------------------------
(* The sender goroutine, Out and the client                                *)

\* The length of records i to k.
Length(rrs, i, k) ==
    LET sum[n \in Nat] == IF n < i THEN 0 ELSE sum[n - 1] + RRLen[rrs[n].type]
    IN  sum[k]

\* Where an envelope that starts at record i is cut: in front of the record with which the
\* count exceeds transferLength.  The record an envelope starts with is counted in the
\* first envelope only, since l is set to 0 after it was added.
Cuts(rrs, i) ==
    {k \in i .. Len(rrs) : Length(rrs, IF i = 1 THEN 1 ELSE i + 1, k) > transferLength}
Cut(rrs, i) ==
    IF Cuts(rrs, i) = {} THEN Len(rrs) + 1
    ELSE CHOOSE k \in Cuts(rrs, i) : \A n \in Cuts(rrs, i) : k <= n

Envelope(c) == SubSeq(xfr[c].rrs, xfr[c].next, Cut(xfr[c].rrs, xfr[c].next) - 1)
IsLast(c) == Cut(xfr[c].rrs, xfr[c].next) > Len(xfr[c].rrs)

\* The client appends the records of an envelope to those it has.
Received(c) == xfr[c].got \o Envelope(c)

\* What a client keeps of a transfer: the records between the first SOA and the next.
Kept(c) ==
    LET all == Received(c)
        zone == SubSeq(all, 2, Len(all) - 1)
    IN  [serial |-> Head(all).content, rrs |-> Elements(zone), last |-> all[Len(all)],
         spaces |-> xfr[c].spaces, raced |-> xfr[c].raced]

\* Variant: the sender goroutine does not close the channel, so that Out goes on waiting.
SendEnvelopeNoClose(c) ==
    /\ xfr[c].pc = "send" /\ xfr[c].next <= Len(xfr[c].rrs)
    /\ xfr' = [xfr EXCEPT ![c].got = Received(c), ![c].next = Cut(xfr[c].rrs, xfr[c].next)]
    /\ copy' = IF IsLast(c) THEN [copy EXCEPT ![c] = Kept(c)] ELSE copy
    /\ UNCHANGED <<vars, transfers, blocked>>

\* An envelope goes from the sender to Out and to the client.  After the last one the
\* channel is closed, Out returns and the client has its copy.
SendEnvelope(c) ==
    /\ xfr[c].pc = "send" /\ xfr[c].next <= Len(xfr[c].rrs)
    /\ IF IsLast(c)
       THEN /\ copy' = [copy EXCEPT ![c] = Kept(c)]
            /\ xfr' = [xfr EXCEPT ![c] = NoTransfer]
       ELSE /\ xfr' = [xfr EXCEPT ![c].got = Received(c),
                                  ![c].next = Cut(xfr[c].rrs, xfr[c].next)]
            /\ UNCHANGED copy
    /\ UNCHANGED <<vars, transfers, blocked>>

\* The client is gone when an envelope is written: Out returns with an error that is not
\* looked at.  If the sender has another envelope it waits for a receiver for ever.
SendFails(c) ==
    /\ xfr[c].pc = "send" /\ xfr[c].next <= Len(xfr[c].rrs)
    /\ blocked' = IF IsLast(c) THEN blocked ELSE blocked + 1
    /\ xfr' = [xfr EXCEPT ![c] = NoTransfer]
    /\ UNCHANGED <<vars, copy, transfers>>

-----------------------------------------------------------------------------
(* The specification                                                       *)

TransferStep(c) ==
    \/ (\E sd \in xfr[c].todo : EmitService(c, sd)) \/ ReadSerial(c)
    \/ NothingToSend(c) \/ SendEnvelope(c) \/ SendFails(c)

\* A step of the cache.  raced is history: has the cache changed while a transfer was
\* reading it, or, after that, in the very second that is the serial of the copy?
RacedBy(c) ==
    /\ cache' # cache
    /\ xfr[c].pc = "emit" \/ (xfr[c].pc = "send" /\ Head(xfr[c].rrs).content = now)
CacheStep ==
    /\ Next
    /\ xfr' = [c \in Clients |-> [xfr[c] EXCEPT !.raced = @ \/ RacedBy(c)]]
    /\ copy' = [c \in Clients |->
                  IF copy[c] = Absent THEN Absent
                  ELSE [copy[c] EXCEPT !.raced = @ \/ (cache' # cache /\ copy[c].serial = now)]]
    /\ UNCHANGED <<transfers, blocked>>

ZoneNext == CacheStep \/ \E c \in Clients : Transfer(c) \/ TransferStep(c)

ZoneSpec == ZoneInit /\ [][ZoneNext]_allVars

\* Goroutines are scheduled, and a write to a client ends, if only with an error.
FairZoneSpec == ZoneSpec /\ \A c \in Clients : WF_allVars(TransferStep(c))

-----------------------------------------------------------------------------
(* Properties                                                              *)

Quiescent == \A k \in Kinds : proc[k].pc = "idle"

\* A secondary whose copy is not the zone any more sees another serial when it looks, and
\* so transfers again: the records that crossed two channels in envelopes, the serial that
\* was read after them and the handlers that keep the serial fit together
\* (xfr.go:34-72, controller.go:416-442, :510-519).  The cases where the code lets a
\* secondary keep an old zone are spelt out: the cache changed between the reads of the
\* transfer, or later in the second that is the serial; a namespace, whose informer has no
\* handlers, came or went; handlers of two informers overlapped.
SecondaryNotices ==
    \A c \in Clients :
        /\ copy[c] # Absent /\ Quiescent /\ ~overlapped
        /\ ~copy[c].raced /\ copy[c].spaces = Spaces
        => copy[c].rrs = ZoneRRs \/ copy[c].serial # modified

\* A transfer ends with the SOA it began with, which is how a client knows that it is
\* complete; up to then the client has the records in front of the next envelope, none
\* twice and none left out, and that envelope is neither empty nor longer than
\* transferLength and one record (xfr.go:53-68).
EnvelopesFit ==
    \A c \in Clients :
        /\ copy[c] # Absent => copy[c].last = SOA(copy[c].serial)
        /\ xfr[c].pc = "send" =>
              LET e == Envelope(c)
              IN  /\ xfr[c].got = SubSeq(xfr[c].rrs, 1, xfr[c].next - 1)
                  /\ e # <<>> /\ Length(e, 2, Len(e)) <= transferLength

\* ServeDNS of a transfer ends when every write to the client ends, done or failed: the
\* handler waits for the sender's channel to be closed, or for a write that fails with
\* envelopes left, and for nothing else (xfr.go:36-39, :70).  The sender's goroutine may not
\* end: it is counted in blocked.
TransferEnds == \A c \in Clients : xfr[c].pc # "idle" ~> xfr[c].pc = "idle"
=============================================================================
