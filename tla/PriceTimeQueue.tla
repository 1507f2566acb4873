--------------------------- MODULE PriceTimeQueue ---------------------------
(***************************************************************************)
(* What the high-performance engine promises, with no levels, slots, free  *)
(* list, cached best ticks or client map: each side is one queue of orders *)
(* in price-time priority; a command trades with the head of the other     *)
(* queue while the price allows, a limit remainder is queued behind every  *)
(* order of its tick or a better one, and a cancel takes out one order or  *)
(* all orders of one client.  An id is unique among the orders of the      *)
(* book and may be used again.                                             *)
(***************************************************************************)
EXTENDS Integers, Sequences

CONSTANTS Ticks, Lots, Clients, MaxFills, Ids

VARIABLES
  queue,    \* side -> sequence of orders, best first
  taker,    \* the order being matched, {} between commands
  evs       \* the events of the current or last command

vars == <<queue, taker, evs>>

Sides == {"buy", "sell"}
Opp(s) == IF s = "buy" THEN "sell" ELSE "buy"
Better(s, t, u) == IF s = "buy" THEN t > u ELSE t < u

InBook == UNION {LET q == queue[s] IN {q[i] : i \in DOMAIN q} : s \in Sides}
Used == {o.id : o \in InBook}

Insert(q, s, o) ==
  LET Ahead(p) == ~Better(s, o.tick, p.tick)
      Behind(p) == ~Ahead(p)
  IN SelectSeq(q, Ahead) \o <<o>> \o SelectSeq(q, Behind)

Without(Out(_)) == [s \in Sides |-> SelectSeq(queue[s], LAMBDA o : ~Out(o))]

Init == queue = [s \in Sides |-> <<>>] /\ taker = {} /\ evs = <<>>

Ignore == taker = {} /\ evs' = <<>> /\ UNCHANGED <<queue, taker>>

Start ==
  /\ taker = {}
  /\ evs' = <<>>
  /\ \E k \in taker' :
       /\ taker' = {k}
       /\ k.id \in Ids \ Used /\ k.side \in Sides /\ k.client \in Clients
       /\ k.open \in {q \in Lots : q > 0}
       /\ \/ k.tick \in Ticks /\ k.limit = {k.tick} /\ k.fills = {}
          \/ k.tick = 0 /\ k.limit = {} /\ k.fills \in MaxFills
  /\ UNCHANGED queue

CanFill(k) ==
  /\ k.open > 0
  /\ \A m \in k.fills : m > 0
  /\ queue[Opp(k.side)] # <<>>
  /\ \A lim \in k.limit : ~Better(Opp(k.side), lim, Head(queue[Opp(k.side)]).tick)

Fill ==
  \E k \in taker :
    LET q == queue[Opp(k.side)]
        m == Head(q)
        lots == IF m.open < k.open THEN m.open ELSE k.open
        left == IF m.open = lots THEN <<>> ELSE <<[m EXCEPT !.open = @ - lots]>>
    IN /\ CanFill(k)
       /\ queue' = [queue EXCEPT ![Opp(k.side)] = left \o Tail(q)]
       /\ taker' = {[k EXCEPT !.open = @ - lots, !.fills = {n - 1 : n \in @}]}
       /\ evs' = Append(evs,
            [type |-> "fill", maker |-> m.id, taker |-> k.id,
             makerClient |-> m.client, takerClient |-> k.client, tick |-> m.tick, qty |-> lots,
             makerOpen |-> m.open - lots, takerOpen |-> k.open - lots])

Finish ==
  \E k \in taker :
    LET o == [id |-> k.id, tick |-> k.tick, client |-> k.client, open |-> k.open]
    IN /\ taker' = {}
       /\ ~CanFill(k)
       /\ \/ /\ k.open = 0
             /\ UNCHANGED <<queue, evs>>
          \/ /\ k.open > 0 /\ k.limit # {}
             /\ queue' = [queue EXCEPT ![k.side] = Insert(@, k.side, o)]
             /\ evs' = Append(evs, [type |-> "rest", id |-> k.id, client |-> k.client,
                                    side |-> k.side, tick |-> k.tick, qty |-> k.open])
          \/ /\ k.open > 0 /\ k.limit = {}
             /\ evs' = Append(evs, [type |-> "revoke", id |-> k.id, client |-> k.client, reason |-> 1])
             /\ UNCHANGED queue

CancelOne ==
  /\ taker = {} /\ UNCHANGED taker
  /\ \E o \in InBook :
       /\ evs' = <<[type |-> "revoke", id |-> o.id, client |-> o.client, reason |-> 0]>>
       /\ queue' = Without(LAMBDA p : p.id = o.id)

\* Every order of client c, each reported once, in any order.
CancelClient ==
  /\ taker = {} /\ UNCHANGED taker
  /\ \E c \in Clients :
       /\ queue' = Without(LAMBDA p : p.client = c)
       /\ Len(evs') = Len(queue["buy"]) + Len(queue["sell"]) - Len(queue'["buy"]) - Len(queue'["sell"])
       /\ {evs'[i] : i \in 1..Len(evs')} =
            {[type |-> "revoke", id |-> o.id, client |-> c, reason |-> 0] : o \in {p \in InBook : p.client = c}}

Next == Ignore \/ Start \/ Fill \/ Finish \/ CancelOne \/ CancelClient

Spec == Init /\ [][Next]_vars
=============================================================================
