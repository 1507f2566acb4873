------------------------------ MODULE UdpOrder ------------------------------
(***************************************************************************)
(* The reliable UDP order session of crates/match-udp-order: a             *)
(* ClientSession, a ServerSession inside the gateway loop that feeds the   *)
(* engine, and a network that loses, duplicates and reorders datagrams.    *)
(*                                                                         *)
(* Orders carry a sequence number per session and, here, an identity that  *)
(* stands for the payload, so that a new client session that starts again  *)
(* at 1 sends different orders under old numbers.  A report's payload is   *)
(* its sequence number.  CANCEL and REPLACE go through the same code as    *)
(* ORDER.  HELLO, which changes no session state, is in UdpGateway;        *)
(* HEARTBEAT only reports an event and is left out.                        *)
(***************************************************************************)
EXTENDS Naturals, SequencesExt, Functions, FiniteSets

CONSTANTS
  MaxOrders,     \* bound: orders the client sends
  MaxReports,    \* bound: reports the server issues
  PerOrder,      \* numbers of reports one order may cause
  StoreCap,      \* store_cap, the retransmission window
  Window,        \* orders the client has in flight at most
  MaxRestarts    \* bound: new client sessions on the same server

ASSUME UdpConstants ==
  /\ {MaxOrders, MaxReports, MaxRestarts} \subseteq Nat /\ PerOrder \subseteq Nat \ {0}
  /\ StoreCap \in Nat \ {0} /\ Window \in Nat \ {0}

VARIABLES
  net,         \* datagrams under way
  nextOrder,   \* ClientSession.next_order_seq
  expReport,   \* ClientSession.expected_report_seq
  pending,     \* ClientSession.pending: seq -> order identity
  sent,        \* orders sent so far; the last one has this identity
  restarts,    \* client sessions begun after the first
  got,         \* reports this client session delivered, in order
  okd,         \* orders acknowledged with ACK_OK to the client
  expOrder,    \* ServerSession.expected_client_seq
  nextReport,  \* ServerSession.next_report_seq
  store,       \* ServerSession.store
  storeStart,  \* ServerSession.store_start
  lastNak,     \* ServerSession.last_nak_start (option)
  accepted,    \* orders given to the engine, in order
  rejected     \* orders the gateway could not parse

client == <<nextOrder, expReport, pending, sent, restarts, got, okd>>
server == <<expOrder, nextReport, store, storeStart, lastNak, accepted, rejected>>
vars == <<net, client, server>>

Order(seq, id) == [type |-> "order", seq |-> seq, id |-> id]
Ack(seq, res) == [type |-> "ack", seq |-> seq, res |-> res]
Report(seq) == [type |-> "report", seq |-> seq]
NakRequest(from, count) == [type |-> "nak", from |-> from, count |-> count]
ServerNak(from, count) == [type |-> "server_nak", from |-> from, count |-> count]
NakResponse(seqs) == [type |-> "nak_response", seqs |-> seqs]

Init ==
  /\ net = {}
  /\ nextOrder = 1 /\ expReport = 1 /\ pending = <<>>
  /\ sent = 0 /\ restarts = 0 /\ got = <<>> /\ okd = {}
  /\ expOrder = 1 /\ nextReport = 1 /\ store = <<>> /\ storeStart = 1 /\ lastNak = {}
  /\ accepted = <<>> /\ rejected = {}

\* Datagram m is taken from the network, or a copy of it is, and `out' is sent.
Exchange(m, out) == net' \in {net \cup out, (net \ {m}) \cup out}
----------------------------------------------------------------------------
(* ClientSession *)

SendOrder ==
  /\ sent < MaxOrders /\ Cardinality(DOMAIN pending) < Window
  /\ sent' = sent + 1
  /\ nextOrder' = nextOrder + 1
  /\ pending' = [s \in DOMAIN pending \cup {nextOrder} |->
                   IF s = nextOrder THEN sent' ELSE pending[s]]
  /\ net' = net \cup {Order(nextOrder, sent')}
  /\ UNCHANGED <<expReport, restarts, got, okd, server>>

\* retransmit_due: any order still pending may be due.
Retransmit(seq) ==
  /\ seq \in DOMAIN pending
  /\ net' = net \cup {Order(seq, pending[seq])}
  /\ UNCHANGED <<client, server>>

\* A report in order is delivered; one ahead asks for the gap, an old one is
\* ignored.
TakeReport(m) ==
  /\ m.type = "report"
  /\ IF m.seq = expReport
       THEN expReport' = m.seq + 1 /\ got' = Append(got, m.seq)
       ELSE UNCHANGED <<expReport, got>>

ReportGap(m) == IF m.seq > expReport THEN {NakRequest(expReport, m.seq - expReport)} ELSE {}

OnReport(m) ==
  /\ TakeReport(m)
  /\ Exchange(m, ReportGap(m))
  /\ UNCHANGED <<nextOrder, pending, sent, restarts, okd, server>>

\* The reports of a NAK_RESPONSE that are new, gaps between them skipped.
OnNakResponse(m) ==
  /\ m.type = "nak_response"
  /\ LET new == SelectSeq(m.seqs, LAMBDA s : s >= expReport)
     IN /\ got' = got \o new
        /\ expReport' = IF new = <<>> THEN expReport ELSE Last(new) + 1
  /\ Exchange(m, {})
  /\ UNCHANGED <<nextOrder, pending, sent, restarts, okd, server>>

\* ORDER_ACK: the order leaves pending, whatever the result; the gateway's
\* client does nothing on ACK_RETRY.
OnAck(m) ==
  /\ m.type = "ack"
  /\ okd' = IF m.res = "ok" /\ m.seq \in DOMAIN pending THEN okd \cup {pending[m.seq]} ELSE okd
  /\ pending' = Restrict(pending, DOMAIN pending \ {m.seq})
  /\ Exchange(m, {})
  /\ UNCHANGED <<nextOrder, expReport, sent, restarts, got, server>>

\* on_datagram has no arm for the server's NAK_REQUEST.
OnServerNak(m) == m.type = "server_nak" /\ Exchange(m, {}) /\ UNCHANGED <<client, server>>

\* The client process starts again with a new ClientSession.
Restart ==
  /\ restarts < MaxRestarts
  /\ restarts' = restarts + 1
  /\ nextOrder' = 1 /\ expReport' = 1 /\ pending' = <<>> /\ got' = <<>>
  /\ UNCHANGED <<net, sent, okd, server>>
----------------------------------------------------------------------------
(* ServerSession and the gateway loop *)

\* ack_and_report n times: the reports, each behind an ORDER_ACK(OK), go to
\* the client and into the store, which keeps the newest StoreCap.
IssueReports(n) ==
  LET all == store \o [i \in 1..n |-> nextReport + i - 1]
      excess == IF Len(all) > StoreCap THEN Len(all) - StoreCap ELSE 0
  IN /\ nextReport' = nextReport + n
     /\ store' = SubSeq(all, excess + 1, Len(all))
     /\ storeStart' = IF excess = 0 THEN storeStart ELSE all[excess] + 1

IsNext(m) == m.seq = expOrder

\* The expected order: ACK_OK at once, then the engine and its reports.
AcceptOrder(m, n) ==
  /\ m.type = "order" /\ IsNext(m)
  /\ nextReport + n - 1 <= MaxReports
  /\ expOrder' = m.seq + 1
  /\ accepted' = Append(accepted, m.id)
  /\ IssueReports(n)
  /\ Exchange(m, {Ack(m.seq, "ok")} \cup {Report(nextReport + i - 1) : i \in 1..n})
  /\ UNCHANGED <<lastNak, rejected, client>>

\* The expected order, which the gateway cannot parse: ACK_OK from
\* on_datagram, then ACK_REJECT from reject_order.
RejectOrder(m) ==
  /\ m.type = "order" /\ IsNext(m)
  /\ expOrder' = m.seq + 1
  /\ rejected' = rejected \cup {m.id}
  /\ Exchange(m, {Ack(m.seq, "ok"), Ack(m.seq, "reject")})
  /\ UNCHANGED <<nextReport, store, storeStart, lastNak, accepted, client>>

\* (faulty form of RepeatedOrder) a repeated order is handled again
RepeatedOrderTwice(m) ==
  /\ m.type = "order" /\ m.seq < expOrder
  /\ accepted' = IF Len(accepted) <= MaxOrders THEN Append(accepted, m.id) ELSE accepted
  /\ Exchange(m, {Ack(m.seq, "ok")})
  /\ UNCHANGED <<expOrder, nextReport, store, storeStart, lastNak, rejected, client>>

\* An order below the expected one is taken for a retransmission.
RepeatedOrder(m) ==
  /\ m.type = "order" /\ m.seq < expOrder
  /\ Exchange(m, {Ack(m.seq, "ok")})
  /\ UNCHANGED <<client, server>>

\* (faulty form of EarlyOrder) it is acknowledged as if it had been taken
EarlyOrderOk(m) ==
  /\ m.type = "order" /\ m.seq > expOrder
  /\ Exchange(m, {Ack(m.seq, "ok")})
  /\ UNCHANGED <<client, server>>

\* An order above it: ACK_RETRY, and one NAK_REQUEST per gap start.
EarlyOrder(m) ==
  /\ m.type = "order" /\ m.seq > expOrder
  /\ lastNak' = {expOrder}
  /\ Exchange(m, {Ack(m.seq, "retry")} \cup
                 IF lastNak = {expOrder} THEN {} ELSE {ServerNak(expOrder, m.seq - expOrder)})
  /\ UNCHANGED <<expOrder, nextReport, store, storeStart, accepted, rejected, client>>

HighWater == nextReport - 1

\* (faulty form of InResponse) the first report asked for is left out
InResponseAfter(s, from, to) == s > from /\ s <= to

InResponse(s, from, to) == s >= from /\ s < to

\* NAK_REQUEST: what the store still has, from store_start if the start is gone.
OnNakRequest(m) ==
  /\ m.type = "nak"
  /\ LET from == IF m.from > storeStart THEN m.from ELSE storeStart
         to == IF from + m.count < HighWater + 1 THEN from + m.count ELSE HighWater + 1
     IN Exchange(m, {NakResponse(SelectSeq(store, LAMBDA s : InResponse(s, from, to)))})
  /\ UNCHANGED <<client, server>>

\* The network loses a datagram.
Lose(m) == net' = net \ {m} /\ UNCHANGED <<client, server>>

OnDatagram(m) ==
  \/ OnReport(m) \/ OnNakResponse(m) \/ OnAck(m) \/ OnServerNak(m)
  \/ (\E n \in PerOrder : AcceptOrder(m, n)) \/ RejectOrder(m) \/ RepeatedOrder(m)
  \/ EarlyOrder(m) \/ OnNakRequest(m)

Next ==
  \/ SendOrder \/ Restart
  \/ \E seq \in 1..MaxOrders : Retransmit(seq)
  \/ \E m \in net : OnDatagram(m) \/ Lose(m)

Spec == Init /\ [][Next]_vars

\* The client keeps calling retransmit_due, and a datagram that is sent again
\* and again gets through: nothing more is assumed of the network.
OrderDatagrams == {Order(s, i) : s \in 1..MaxOrders, i \in 1..MaxOrders}
AckDatagrams == {Ack(s, r) : s \in 1..MaxOrders, r \in {"ok", "retry", "reject"}}
FairSpec ==
  /\ Spec
  /\ \A seq \in 1..MaxOrders : WF_vars(Retransmit(seq))
  /\ \A m \in OrderDatagrams \cup AckDatagrams : SF_vars(m \in net /\ OnDatagram(m))
----------------------------------------------------------------------------
(* Correctness *)

Pending == Range(pending)
Decided == Range(accepted) \cup rejected

TypeOK ==
  /\ {nextOrder, expOrder, expReport, nextReport, storeStart} \subseteq Nat \ {0}
  /\ DOMAIN pending \subseteq 1..(nextOrder - 1) /\ Pending \subseteq 1..sent
  /\ okd \subseteq 1..sent /\ Decided \subseteq 1..sent
  /\ expReport <= nextReport /\ storeStart <= nextReport
  /\ store = [i \in 1..(nextReport - storeStart) |-> storeStart + i - 1]
  /\ Len(store) <= StoreCap

\* The engine gets each order at most once, and until the client restarts in
\* the order sent, whatever is retransmitted, duplicated or overtaken.  (A
\* late order of the old session fits between two orders of the new one,
\* which uses the same numbers.)
AcceptedInOrder ==
  \A i, j \in DOMAIN accepted : i < j =>
     accepted[i] # accepted[j] /\ (restarts = 0 => accepted[i] < accepted[j])

\* The client delivers reports in order, none twice, and until it restarts
\* passes one over only if it has left the server's retransmission window.
\* (After a restart the answer to a request of the old session does that too.)
ReportsInOrder ==
  /\ \A i, j \in DOMAIN got : i < j => got[i] < got[j]
  /\ restarts = 0 => \A s \in 1..(expReport - 1) : s \in Range(got) \/ s < storeStart

\* Orders reach the engine, and reports the client, once and in order.
SessionSound == TypeOK /\ AcceptedInOrder /\ ReportsInOrder

\* An order that was acknowledged with ACK_OK has been handled by the gateway.
\* (Not so after a restart of the client: its new orders carry old numbers,
\* and the server acknowledges them as repetitions.)
OkMeansHandled == restarts = 0 => okd \subseteq Decided

\* Every order sent is in the end handled by the gateway: retransmission makes
\* up for any loss of orders and acknowledgements.
EveryOrderHandled == \A id \in 1..MaxOrders : (sent >= id) ~> (id \in Decided)
=============================================================================
