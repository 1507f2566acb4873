----------------------------- MODULE UdpGateway -----------------------------
(***************************************************************************)
(* The demonstration gateway udp_order_gw of crates/match-udp-order:       *)
(* client_main and server_main around a ClientSession and a ServerSession  *)
(* (module UdpOrder), over a network that loses and reorders datagrams;    *)
(* they are repeated by the retransmissions of both sides.                 *)
(*                                                                         *)
(* The client encodes all its orders before it sends the first one: order  *)
(* i has sequence number i, odd ones buy at 100.00 and even ones sell at   *)
(* 99.99, one lot each.  A report's payload is a first byte and the fields *)
(* of the text after it.  The ping mode is left out.                       *)
(***************************************************************************)
EXTENDS Naturals, SequencesExt, FiniteSets

CONSTANTS
  Target,    \* orders, which is also target_reports and orders_target
  Frames,    \* frames the client sends per round (128)
  NakCount,  \* reports the stall NAK asks for (512)
  Spare      \* room of the store beyond the orders (8192)

VARIABLES
  net, nextOrder, expReport, pending, sent, restarts, got, okd,
  expOrder, nextReport, store, storeStart, lastNak, accepted, rejected,
  outBuf,     \* the client's out_buf from `next' on
  clientPc,   \* "send", "stall", "receive", "due", "done", "timeout"
  dropFirst,  \* dropped_seq1: --nak-test, report 1 not dropped yet
  executed,   \* EXECUTED reports counted
  timed,      \* orders whose round trip was taken, in order
  serverPc,   \* "run", "closing", "closed"
  resting,    \* the engine's book: resting orders of one side, oldest first
  fills,      \* fills the server counted
  texts       \* payloads of the reports issued, by sequence number

Session == INSTANCE UdpOrder
  WITH MaxOrders <- Target, MaxReports <- Target, PerOrder <- {1},
       StoreCap <- Target + Spare, Window <- Target, MaxRestarts <- 0

sessionVars == <<nextOrder, expReport, pending, sent, restarts, got, okd,
                 expOrder, nextReport, store, storeStart, lastNak, accepted, rejected>>
client == <<outBuf, clientPc, dropFirst, executed, timed>>
server == <<serverPc, resting, fills, texts>>
gwVars == <<net, sessionVars, client, server>>

Hello(last) == [type |-> "hello", last |-> last]
HelloAck(last, start, flags) == [type |-> "hello_ack", last |-> last, start |-> start, flags |-> flags]

Reports == Len(got)

Init ==
  /\ net = {}
  /\ nextOrder = Target + 1 /\ expReport = 1 /\ pending = [i \in 1..Target |-> i]
  /\ sent = Target /\ restarts = 0 /\ got = <<>> /\ okd = {}
  /\ expOrder = 1 /\ nextReport = 1 /\ store = <<>> /\ storeStart = 1 /\ lastNak = {}
  /\ accepted = <<>> /\ rejected = {}
  /\ outBuf = <<Hello(0)>> \o [i \in 1..Target |-> Session!Order(i, i)]
  /\ clientPc = "send" /\ dropFirst \in BOOLEAN /\ executed = 0 /\ timed = <<>>
  /\ serverPc = "run" /\ resting = <<>> /\ fills = 0 /\ texts = <<>>
----------------------------------------------------------------------------
(* client_main, one round of the loop *)

ClientSends ==
  /\ clientPc = "send" /\ Reports < Target
  /\ LET n == IF Len(outBuf) < Frames THEN Len(outBuf) ELSE Frames
     IN /\ net' = net \cup {outBuf[i] : i \in 1..n}
        /\ outBuf' = SubSeq(outBuf, n + 1, Len(outBuf))
  /\ clientPc' = "stall"
  /\ UNCHANGED <<sessionVars, dropFirst, executed, timed, server>>

\* No report for 100 ms, but some before: ask for what follows.
StallNak ==
  /\ clientPc = "stall" /\ Reports > 0
  /\ net' = net \cup {Session!NakRequest(expReport, NakCount)}
  /\ clientPc' = "receive"
  /\ UNCHANGED <<sessionVars, outBuf, dropFirst, executed, timed, server>>

NoStall ==
  /\ clientPc = "stall" /\ clientPc' = "receive"
  /\ UNCHANGED <<net, sessionVars, outBuf, dropFirst, executed, timed, server>>

\* The handler of ClientEvent::Report, for each report just delivered: the
\* first byte tells an execution, the second field of the text the order.
CountReports ==
  LET new == SubSeq(got', Len(got) + 1, Len(got'))
      nos == [i \in DOMAIN new |-> texts[new[i]].text[2]]
      Take(seen, no) == IF Contains(seen, no) THEN seen ELSE Append(seen, no)
  IN /\ executed' = executed + Cardinality({i \in DOMAIN new : texts[new[i]].first = "executed"})
     /\ timed' = FoldLeft(Take, timed, nos)

\* --nak-test: report 1 is dropped once before the session sees it.
DropFirstReport(m) ==
  /\ m.type = "report" /\ m.seq = 1 /\ dropFirst
  /\ dropFirst' = FALSE
  /\ net' = net \ {m}
  /\ UNCHANGED <<sessionVars, outBuf, clientPc, executed, timed, server>>

\* What the session wants sent waits behind the orders in out_buf.
ReceiveReport(m) ==
  /\ m.type = "report" /\ ~(m.seq = 1 /\ dropFirst)
  /\ Session!TakeReport(m)
  /\ outBuf' = outBuf \o SetToSeq(Session!ReportGap(m))
  /\ net' = net \ {m}
  /\ CountReports
  /\ UNCHANGED <<nextOrder, pending, sent, restarts, okd, expOrder, nextReport, store, storeStart,
                 lastNak, accepted, rejected, clientPc, dropFirst, server>>

ReceiveResponse(m) ==
  /\ Session!OnNakResponse(m) /\ CountReports
  /\ UNCHANGED <<outBuf, clientPc, dropFirst, server>>

\* Acknowledgements change the session only; nothing is done on ACK_RETRY.
ReceiveOther(m) ==
  /\ Session!OnAck(m) \/ Session!OnServerNak(m)
  /\ UNCHANGED <<client, server>>

ReceiveHelloAck(m) ==
  /\ m.type = "hello_ack" /\ net' = net \ {m}
  /\ UNCHANGED <<sessionVars, client, server>>

\* The socket is empty, or the 50 ms are over.
ReceiveEnds ==
  /\ clientPc = "receive" /\ clientPc' = "due"
  /\ UNCHANGED <<net, sessionVars, outBuf, dropFirst, executed, timed, server>>

\* retransmit_due: orders pending for 2 s, sent yet or not.
RetransmitDue ==
  /\ clientPc = "due"
  /\ \E due \in {{}, DOMAIN pending} : net' = net \cup {Session!Order(s, pending[s]) : s \in due}
  /\ clientPc' \in {"send", "timeout"}
  /\ UNCHANGED <<sessionVars, outBuf, dropFirst, executed, timed, server>>

ClientDone ==
  /\ clientPc = "send" /\ Reports >= Target
  /\ clientPc' = "done"
  /\ UNCHANGED <<net, sessionVars, outBuf, dropFirst, executed, timed, server>>
----------------------------------------------------------------------------
(* server_main *)

Side(i) == IF i % 2 = 1 THEN "B" ELSE "S"

\* The engine on orders that all cross: an order meets the oldest resting one
\* of the other side.
Makers(id) == IF resting # <<>> /\ Side(Head(resting)) # Side(id) THEN <<Head(resting)>> ELSE <<>>

\* (faulty form of ReportText) the maker is named first
ReportTextMaker(id, makers) ==
  IF makers = <<>> THEN [first |-> "A", text |-> <<"", id, "btcusdt">>]
                   ELSE [first |-> "executed", text |-> <<"E", makers[1], id>>]

\* A fill has its type byte before the text; "A|no|btcusdt" for an order that
\* rests has none, so the client takes the letter for the type.
ReportText(id, makers) ==
  IF makers = <<>> THEN [first |-> "A", text |-> <<"", id, "btcusdt">>]
                   ELSE [first |-> "executed", text |-> <<"E", id, makers[1]>>]

ServeOrder(m) ==
  /\ Session!AcceptOrder(m, 1)
  /\ LET makers == Makers(m.id)
     IN /\ resting' = IF makers = <<>> THEN Append(resting, m.id) ELSE Tail(resting)
        /\ fills' = fills + Len(makers)
        /\ texts' = Append(texts, ReportText(m.id, makers))
  /\ UNCHANGED <<client, serverPc>>

\* Orders out of sequence and NAK_REQUESTs, which the session answers itself.
ServeSession(m) ==
  /\ Session!RepeatedOrder(m) \/ Session!EarlyOrder(m) \/ Session!OnNakRequest(m)
  /\ UNCHANGED <<client, server>>

\* HELLO: the high water, the start of the store, and whether the client's
\* last report is older than the store.
ServeHello(m) ==
  /\ m.type = "hello"
  /\ Session!Exchange(m, {HelloAck(nextReport - 1, storeStart, IF m.last + 1 < storeStart THEN "gap_too_old" ELSE "none")})
  /\ UNCHANGED <<sessionVars, client, server>>

\* All orders are processed: 15 s more for late retransmissions and NAKs.
ServerCloses ==
  /\ \/ serverPc = "run" /\ Len(accepted) >= Target /\ serverPc' = "closing"
     \/ serverPc = "closing" /\ serverPc' = "closed"
  /\ UNCHANGED <<net, sessionVars, client, resting, fills, texts>>

Lost(m) == net' = net \ {m} /\ UNCHANGED <<sessionVars, client, server>>

Next ==
  \/ ClientSends \/ StallNak \/ NoStall \/ ReceiveEnds \/ RetransmitDue \/ ClientDone
  \/ \E m \in net :
       /\ \/ clientPc = "receive" /\ \/ DropFirstReport(m) \/ ReceiveReport(m) \/ ReceiveResponse(m)
                                     \/ ReceiveOther(m) \/ ReceiveHelloAck(m)
          \/ serverPc # "closed" /\ (ServeOrder(m) \/ ServeSession(m) \/ ServeHello(m))
          \/ Lost(m)
       /\ m \notin net'
  \/ ServerCloses

Spec == Init /\ [][Next]_gwVars
----------------------------------------------------------------------------
(* Correctness *)

\* The client counts each order's report once and in the order sent, although
\* reports are numbered by the server and orders by the client: after k
\* reports it has timed orders 1..k and counted an execution for every second
\* one; what it counted the server did, and the server has matched every pair.
\* So a client that ends without timing out has seen exactly one report for
\* each order ("each order has exactly one report").
GatewayExact ==
  /\ timed = [i \in 1..Reports |-> i]
  /\ executed = Reports \div 2 /\ fills = Len(accepted) \div 2
  /\ Reports <= Len(accepted) /\ accepted = [i \in 1..Len(accepted) |-> i]
  /\ clientPc = "done" => Reports = Target
=============================================================================
