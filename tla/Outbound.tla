------------------------------ MODULE Outbound ------------------------------
(***************************************************************************)
(* Symbol workers and the outbound path of match-spot and match-contract:  *)
(* an order is matched, its results are pushed to the message queue topics *)
(* and, not more often than once per interval, the depth of the book.      *)
(* What the queue does not take goes to an error queue in redis.           *)
(*                                                                         *)
(* The workers of different symbols share only internally locked objects,  *)
(* so one order's handling is one step.  The engine is match-core or       *)
(* match-core-hp on unit quantities at one price: enough to produce fills, *)
(* several fills, rests and revokes; its matching is the subject of        *)
(* MatchCore and HpEngine.                                                 *)
(***************************************************************************)
EXTENDS Naturals, SequencesExt, FiniteSetsExt

CONSTANTS
  Symbols,
  Shapes,       \* orders that may come in: [form, side, kind, qty]; limit orders have one lot
  MmMarkets,    \* symbols whose market is in topic_coin_markets (all of them: topic_enable)
  Interval,     \* depth_push_interval_ms
  MaxOrders,    \* bound: orders per behaviour
  MaxClock,     \* bound: the clock
  MaxFaults     \* bound: sends that fail

VARIABLES
  flavour,      \* which service: "spot", "contract", "hp" (contract with hp-engine)
  book,         \* per symbol: the resting orders
  orders,       \* orders handled so far, with their symbol
  lastAt,       \* history: per symbol, when its last order was handled, option
  hist,         \* history: every event with its taker, in the order produced
  out,          \* per topic, all symbols together: what the queue has taken
  errq,         \* what the error queue in redis was given, in order
  lost,         \* history: bodies that went nowhere
  faults,       \* sends that failed so far
  clock,        \* SystemTime in milliseconds
  lastPush,     \* last_depth_push_ms: symbol -> time, option
  pushed,       \* history: time and book of the last depth attempt, option
  steppedBack   \* history: the clock was set back

vars == <<flavour, book, orders, lastAt, hist, out, errq, lost, faults, clock, lastPush, pushed, steppedBack>>

Flavours == {"spot", "contract", "hp"}
Topics == {"market", "market_mm", "order", "order_mm", "no_deal", "deeps", "mold"}

Init ==
  /\ flavour \in Flavours
  /\ book = [s \in Symbols |-> {}] /\ orders = <<>> /\ lastAt = [s \in Symbols |-> {}] /\ hist = <<>>
  /\ out = [t \in Topics |-> <<>>] /\ errq = <<>> /\ lost = <<>> /\ faults = 0
  /\ clock = 0 /\ lastPush = [s \in Symbols |-> {}] /\ pushed = [s \in Symbols |-> {}]
  /\ steppedBack = FALSE
----------------------------------------------------------------------------
(* The engine *)

Opp(side) == IF side = "buy" THEN "sell" ELSE "buy"

Fill(o, m) == [type |-> "fill", taker |-> o, maker |-> m]
Revoke(o) == [type |-> "revoke", taker |-> o]
Rest(o) == [type |-> "rest", taker |-> o]

\* The makers an order takes, first come first served.
Makers(o, b) ==
  LET opp == SetToSortSeq({m \in b : m.side = Opp(o.side)}, LAMBDA x, y : x.no < y.no)
  IN SubSeq(opp, 1, Min({o.qty, Len(opp)}))

\* on_order: the events of order o and the book it leaves.
OnOrder(o, b) ==
  LET makers == Makers(o, b)
      fills == [i \in DOMAIN makers |-> Fill(o, makers[i])]
      done == Len(makers) = o.qty
  IN IF o.form = "revoke"
       THEN LET found == {x \in b : x.no = o.no}
            IN [events |-> IF found = {} THEN <<>> ELSE <<Revoke(o)>>, book |-> b \ found]
     ELSE IF o.form = "limit" /\ ~done
       THEN [events |-> fills \o (IF flavour = "hp" THEN <<Rest(o)>> ELSE <<>>),
             book |-> (b \ ToSet(makers)) \cup {o}]
     ELSE [events |-> fills \o (IF done THEN <<>> ELSE <<Revoke(o)>>), book |-> b \ ToSet(makers)]
----------------------------------------------------------------------------
(* What is pushed *)

To(topic, body) == [topic |-> topic, body |-> body]
EventBody(s, i) == [kind |-> "events", sym |-> s, ixs |-> <<i>>]

\* In a split market an event no user takes part in has topics of its own.
UsesMmSuffix(s, e) ==
  e.taker.kind # "user" /\ (e.type = "fill" => e.maker.kind # "user") /\ s \in MmMarkets

\* (faulty form of ShouldSendOrderPush) one robot in a fill is enough to leave it out
ShouldSendEither(e) ==
  IF e.type = "fill" THEN e.taker.kind # "robot" /\ e.maker.kind # "robot"
  ELSE e.taker.kind # "robot"

\* The order module is not told what robots do among themselves.
ShouldSendOrderPush(e) ==
  IF e.type = "fill" THEN ~(e.taker.kind = "robot" /\ e.maker.kind = "robot")
  ELSE e.taker.kind # "robot"

\* send_one_event of match-spot; the event has number i in the history.
SendOneEvent(s, e, i) ==
  LET body == EventBody(s, i)
      mm == UsesMmSuffix(s, e)
  IN <<To(IF mm THEN "market_mm" ELSE "market", body), To("mold", body)>> \o
     (IF ShouldSendOrderPush(e) THEN <<To(IF mm THEN "order_mm" ELSE "order", body)>> ELSE <<>>)

\* handle_order_result of match-spot: the order itself, then each event.
SpotPushes(s, o, es, first) ==
  (IF o.form \in {"revoke", "market"} THEN <<>>
   ELSE <<To("market", [kind |-> "entrust", sym |-> s, no |-> o.no])>>) \o
  FlattenSeq([i \in DOMAIN es |-> SendOneEvent(s, es[i], first + i - 1)])

\* send_push_orders of match-contract: one batch to the order topic, then to
\* the market topic.
SendPushOrders(s, ixs) ==
  LET body == [kind |-> "events", sym |-> s, ixs |-> ixs]
  IN IF ixs = <<>> THEN <<>> ELSE <<To("order", body), To("market", body)>>

\* handle_events, and handle_hp_events, which leaves rests out.
ContractPushes(s, es, first) == SendPushOrders(s, [i \in DOMAIN es |-> first + i - 1])
HpPushes(s, es, first) ==
  SendPushOrders(s, SelectSeq([i \in DOMAIN es |-> first + i - 1],
                              LAMBDA i : es[i - first + 1].type # "rest"))

Pushes(s, o, es, first) ==
  CASE flavour = "spot" -> SpotPushes(s, o, es, first)
    [] flavour = "contract" -> ContractPushes(s, es, first)
    [] flavour = "hp" -> HpPushes(s, es, first)

\* The depth snapshot; match-spot puts it on the feed, too.
ContractDepth(s) ==
  LET body == [kind |-> "depth", sym |-> s] IN <<To("no_deal", body), To("deeps", body)>>
SpotDepth(s) == Append(ContractDepth(s), To("mold", [kind |-> "depth", sym |-> s]))
DepthPushes(s) == IF flavour = "spot" THEN SpotDepth(s) ELSE ContractDepth(s)

\* The throttle: saturating_sub makes an earlier clock count as no time.
Elapsed(t) == IF clock > t THEN clock - t ELSE 0
DepthDue(s) == Interval = 0 \/ \A t \in lastPush[s] : Elapsed(t) >= Interval
----------------------------------------------------------------------------
(* Sending *)

BodiesAt(ps, ixs) == LET at == SetToSortSeq(ixs, <) IN [i \in DOMAIN at |-> ps[at[i]].body]

\* on_send_fail: a failed push goes to the error queue if redis takes it; a
\* failed publication on the mold feed goes nowhere.
Kept(ps, failed, stored) == {f \in failed : ps[f].topic # "mold" /\ stored}

\* Every push is tried, those in `failed' without success.
Deliver(ps, failed, stored) ==
  LET kept == Kept(ps, failed, stored)
  IN /\ out' = [t \in Topics |-> out[t] \o BodiesAt(ps, {i \in DOMAIN ps \ failed : ps[i].topic = t})]
     /\ errq' = errq \o BodiesAt(ps, kept)
     /\ lost' = lost \o BodiesAt(ps, failed \ kept)

\* (faulty form of NoteDepth) a throttled order starts the interval again
NoteDepthAlways(s, b) ==
  /\ lastPush' = IF Interval > 0 THEN [lastPush EXCEPT ![s] = {clock}] ELSE lastPush
  /\ pushed' = IF DepthDue(s) THEN [pushed EXCEPT ![s] = {[at |-> clock, book |-> b]}] ELSE pushed

\* The throttle's note of the push, made before anything is sent.
NoteDepth(s, b) ==
  IF DepthDue(s)
    THEN /\ lastPush' = IF Interval > 0 THEN [lastPush EXCEPT ![s] = {clock}] ELSE lastPush
         /\ pushed' = [pushed EXCEPT ![s] = {[at |-> clock, book |-> b]}]
    ELSE UNCHANGED <<lastPush, pushed>>

\* One order through spawn_symbol_worker's loop.
HandleOrder(s, o) ==
  LET r == OnOrder(o, book[s])
      ps == Pushes(s, o, r.events, Len(hist) + 1) \o
            (IF DepthDue(s) THEN DepthPushes(s) ELSE <<>>)
  IN /\ Len(orders) < MaxOrders
     /\ orders' = Append(orders, [sym |-> s, order |-> o])
     /\ lastAt' = [lastAt EXCEPT ![s] = {clock}]
     /\ book' = [book EXCEPT ![s] = r.book]
     /\ hist' = hist \o r.events
     /\ NoteDepth(s, r.book)
     /\ \E failed \in {f \in SUBSET (DOMAIN ps) : Cardinality(f) <= MaxFaults - faults}, stored \in BOOLEAN :
          /\ Deliver(ps, failed, stored)
          /\ faults' = faults + Cardinality(failed)
     /\ UNCHANGED <<flavour, clock, steppedBack>>

\* A new order, or a revoke of one that came before, of the same kind.
Arrivals(s) ==
  {[no |-> Len(orders) + 1] @@ shape : shape \in Shapes} \cup
  {[orders[i].order EXCEPT !.form = "revoke"] :
     i \in {j \in DOMAIN orders : orders[j].sym = s /\ orders[j].order.form = "limit"}}

Tick == clock < MaxClock /\ clock' = clock + 1
        /\ UNCHANGED <<flavour, book, orders, lastAt, hist, out, errq, lost, faults, lastPush, pushed, steppedBack>>

\* The system clock is set back.
SetBack == clock > 0 /\ ~steppedBack /\ clock' = clock - 1 /\ steppedBack' = TRUE
           /\ UNCHANGED <<flavour, book, orders, lastAt, hist, out, errq, lost, faults, lastPush, pushed>>

Next == (\E s \in Symbols : \E o \in Arrivals(s) : HandleOrder(s, o)) \/ Tick \/ SetBack

Spec == Init /\ [][Next]_vars
----------------------------------------------------------------------------
(* Correctness *)

TypeOK ==
  /\ flavour \in Flavours /\ clock \in 0..MaxClock /\ faults \in 0..MaxFaults
  /\ \A s \in Symbols : /\ book[s] \subseteq {orders[i].order : i \in DOMAIN orders}
                         /\ lastPush[s] \subseteq 0..MaxClock /\ Cardinality(lastPush[s]) <= 1
  /\ \A t \in Topics : \A i \in DOMAIN out[t] : out[t][i].kind \in {"events", "entrust", "depth"}

\* The numbers of the events of symbol s that topic t has, in its order.
EventsOf(s, t) == SelectSeq(out[t], LAMBDA b : b.kind = "events" /\ b.sym = s)
Numbers(s, t) == FlattenSeq([i \in DOMAIN EventsOf(s, t) |-> EventsOf(s, t)[i].ixs])

\* Times event i was put into a sequence of bodies.
Times(i, bs) == Len(SelectSeq(bs, LAMBDA b : b.kind = "events" /\ i \in ToSet(b.ixs)))

\* Times it is due: once for the market, once for the owners unless they are
\* all robots (match-spot), once for the feed (match-spot).
Robots(e) == IF e.type = "fill" THEN {e.taker.kind, e.maker.kind} = {"robot"} ELSE e.taker.kind = "robot"
Due(e) ==
  IF flavour = "spot" THEN 2 + (IF Robots(e) THEN 0 ELSE 1)
  ELSE IF e.type = "rest" THEN 0 ELSE 2

\* Every event reaches everyone it is for: the market and, unless only
\* robots take part, the owners' order topic; a push is in its topic, in the
\* error queue, or lost with the store or the feed failing, and never twice.
EventsAccounted ==
  \A i \in DOMAIN hist :
    /\ Due(hist[i]) = Times(i, errq) + Times(i, lost)
                      + Times(i, out["market"]) + Times(i, out["market_mm"])
                      + Times(i, out["order"]) + Times(i, out["order_mm"]) + Times(i, out["mold"])
    /\ faults = 0 /\ ~Robots(hist[i]) /\ hist[i].type # "rest" =>
         Times(i, out["order"]) + Times(i, out["order_mm"]) = 1

\* Within a topic the events of a symbol come in the order its engine made them.
TopicsInOrder ==
  \A s \in Symbols, t \in Topics :
    LET ns == Numbers(s, t) IN \A i, j \in DOMAIN ns : i < j => ns[i] < ns[j]

\* Both of the above: what subscribers of the order and market topics get.
EventsReported == TypeOK /\ EventsAccounted /\ TopicsInOrder

\* Depth lags the book by less than the interval: whenever an order has been
\* handled, the last depth sent shows the book, or was sent less than an
\* interval before that order (unless the clock was set back meanwhile).
DepthLag ==
  \A s \in Symbols : \A at \in lastAt[s] :
    steppedBack \/ \E p \in pushed[s] : p.book = book[s] \/ at < p.at + Interval
=============================================================================
