------------------------------ MODULE HpEngine ------------------------------
(***************************************************************************)
(* The high-performance engine of crates/match-core-hp: HpEngine over a    *)
(* Book of tick-indexed FIFO levels, a slot store with a free list, cached *)
(* best ticks, a pool of recycled levels and the client_id -> orders map.  *)
(*                                                                         *)
(* Commands run one at a time (single writer).  A limit or market command  *)
(* is one step per iteration of match_buy / match_sell; `taker' holds the  *)
(* loop's locals, and is {} between commands.  match_buy and match_sell    *)
(* are mirror images, so one definition with the side as a parameter       *)
(* stands for both.  Options are sets of at most one element.              *)
(***************************************************************************)
EXTENDS Integers, SequencesExt, Functions, FiniteSetsExt

CONSTANTS
  Ticks,          \* price_tick values
  Lots,           \* qty_lot values a command may carry, 0 included
  Clients,        \* client_id values
  MaxFills,       \* max_fills values of a market command (options)
  MaxOrders,      \* bound: orders in the store at once
  LevelPoolCap    \* LEVEL_POOL_CAP, 256 in the code

\* What the constants have to be.
HpConstants ==
  /\ Ticks \subseteq Int /\ Lots \subseteq Int /\ Clients \subseteq Nat
  /\ MaxFills \subseteq SUBSET Nat
  /\ MaxOrders \in Nat /\ LevelPoolCap \in Nat

VARIABLES
  book,        \* Book: store (slots, size, free), levels, best, pool
  clientToId,  \* client_to_id: client_id -> sequence of slot ids
  taker,       \* locals of the running match loop, {} between commands
  evs          \* the events of the current or last command

vars == <<book, clientToId, taker, evs>>

Sides == {"buy", "sell"}
Opp(s) == IF s = "buy" THEN "sell" ELSE "buy"
Better(s, t, u) == IF s = "buy" THEN t > u ELSE t < u
----------------------------------------------------------------------------
(* OrderStore: slots and the LIFO free list.  Ids are 1-based slots. *)

Live(b) == DOMAIN b.slots

NewId(b) == IF b.free = <<>> THEN b.size + 1 ELSE Last(b.free)

StoreInsert(b, o) ==
  [b EXCEPT !.slots = (NewId(b) :> o) @@ @,
            !.size = IF b.free = <<>> THEN @ + 1 ELSE @,
            !.free = IF @ = <<>> THEN @ ELSE Front(@)]

StoreRemove(b, id) ==
  [b EXCEPT !.slots = Restrict(@, DOMAIN @ \ {id}), !.free = Append(@, id)]
----------------------------------------------------------------------------
(* Levels: total_lot and FIFO ids per tick, recycled through level_pool. *)

EmptyLevel == [total |-> 0, ids |-> <<>>]

\* LevelIndex::best_tick of side s.
BestTick(b, s) ==
  {t \in DOMAIN b.levels[s] : \A u \in DOMAIN b.levels[s] : u # t => Better(s, t, u)}

NoteInsert(b, s, t) ==
  IF \A c \in b.best[s] : Better(s, t, c) THEN [b EXCEPT !.best[s] = {t}] ELSE b

\* (faulty form of Push) the order jumps its level's queue
PushFront(lvl, id, lot) == [total |-> lvl.total + lot, ids |-> <<id>> \o lvl.ids]

Push(lvl, id, lot) == [total |-> lvl.total + lot, ids |-> Append(lvl.ids, id)]

\* Book::rest with level_mut and take_level: the order joins the back of its
\* level, which comes from the pool when the tick has none.
Rest(b, id) ==
  LET o == b.slots[id]
      present == o.tick \in DOMAIN b.levels[o.side]
      lvl == IF present THEN b.levels[o.side][o.tick]
             ELSE IF b.pool = <<>> THEN EmptyLevel ELSE Last(b.pool)
  IN NoteInsert([b EXCEPT !.levels[o.side] = (o.tick :> Push(lvl, id, o.open)) @@ @,
                          !.pool = IF present \/ @ = <<>> THEN @ ELSE Front(@)],
                o.side, o.tick)

\* recycle_level: the level is cleared; a full pool drops it.
Recycle(b) ==
  IF Len(b.pool) < LevelPoolCap THEN [b EXCEPT !.pool = Append(@, EmptyLevel)] ELSE b

\* (faulty form of NoteRemoveLevel) the next best tick is not looked up
NoteRemoveLevelForgets(b, s, t) ==
  IF b.best[s] = {t} THEN [b EXCEPT !.best[s] = {}] ELSE b

NoteRemoveLevel(b, s, t) ==
  IF b.best[s] = {t} THEN [b EXCEPT !.best[s] = BestTick(b, s)] ELSE b

\* The level of (s, t) gives up `lots'; `gone' are the ids that leave it.
\* An empty level is removed, cleared into the pool, and the best tick follows.
Debit(b, s, t, lots, gone) ==
  LET lvl == b.levels[s][t]
      left == [total |-> Max({lvl.total - lots, 0}),
               ids |-> SelectSeq(lvl.ids, LAMBDA i : i \notin gone)]
      emptied == [b EXCEPT !.levels[s] = Restrict(@, DOMAIN @ \ {t})]
  IN IF left.ids = <<>> THEN NoteRemoveLevel(Recycle(emptied), s, t)
                        ELSE [b EXCEPT !.levels[s][t] = left]

\* Book::cancel; nothing happens to an id that is not in the store.
BookCancel(b, id) ==
  IF id \notin Live(b) THEN b
  ELSE LET o == b.slots[id]
       IN Debit(StoreRemove(b, id), o.side, o.tick, o.open, {id})

\* Book::fill_order by qty lots of the order at the front of its level.
FillOrder(b, id, qty) ==
  LET o == b.slots[id]
  IN IF o.open > qty
       THEN [Debit(b, o.side, o.tick, qty, {}) EXCEPT !.slots[id].open = @ - qty]
       ELSE StoreRemove(Debit(b, o.side, o.tick, qty, {id}), id)
----------------------------------------------------------------------------
(* HpEngine: client_to_id *)

Forget(m, c, id) ==
  IF c \notin DOMAIN m THEN m
  ELSE LET left == SelectSeq(m[c], LAMBDA i : i # id)
       IN IF left = <<>> THEN Restrict(m, DOMAIN m \ {c}) ELSE [m EXCEPT ![c] = left]

Remember(m, c, id) ==
  (c :> Append(IF c \in DOMAIN m THEN m[c] ELSE <<>>, id)) @@ m
----------------------------------------------------------------------------
(* HpEngine: the commands *)

RestEvent(id, o) ==
  [type |-> "rest", id |-> id, client |-> o.client, side |-> o.side, tick |-> o.tick, qty |-> o.open]
RevokeEvent(id, c, reason) == [type |-> "revoke", id |-> id, client |-> c, reason |-> reason]

Init ==
  /\ \E n \in 0..LevelPoolCap :
       book = [slots |-> <<>>, size |-> 0, free |-> <<>>,
               levels |-> [s \in Sides |-> <<>>], best |-> [s \in Sides |-> {}],
               pool |-> [i \in 1..n |-> EmptyLevel]]
  /\ clientToId = <<>>
  /\ taker = {}
  /\ evs = <<>>

Idle == taker = {}

\* on_limit / on_market with qty_lot <= 0: the event buffer is cleared, nothing else.
OnIgnored(q) ==
  /\ Idle /\ q <= 0
  /\ evs' = <<>>
  /\ UNCHANGED <<book, clientToId, taker>>

\* The incoming order takes a slot and the match loop starts.
StartMatch(o, limit, max) ==
  /\ Idle /\ o.open > 0
  /\ Cardinality(Live(book)) < MaxOrders
  /\ book' = StoreInsert(book, o)
  /\ taker' = {[id |-> NewId(book), limit |-> limit, max |-> max, open |-> o.open, count |-> 0]}
  /\ evs' = <<>>
  /\ UNCHANGED clientToId

OnLimit(s, t, q, c) ==
  StartMatch([side |-> s, tick |-> t, open |-> q, client |-> c], {t}, {})

OnMarket(s, q, max, c) ==
  StartMatch([side |-> s, tick |-> 0, open |-> q, client |-> c], {}, max)

\* The tick the loop may trade at: best of the other side, within limit_tick,
\* while max_fills is not used up and the taker is open.
MatchTick(k, s) ==
  {t \in book.best[Opp(s)] :
     /\ \A m \in k.max : k.count < m
     /\ k.open > 0
     /\ \A lim \in k.limit : ~Better(Opp(s), lim, t)}

\* (faulty form of MakerGone) the client map is not told
MakerGoneKeeps(m, maker, id, gone) == m

\* The client map after a fill: a used-up maker leaves its client's list,
\* unless the client is 0.
MakerGone(m, maker, id, gone) ==
  IF gone /\ maker.client # 0 THEN Forget(m, maker.client, id) ELSE m

\* One iteration of match_buy / match_sell.
MatchFill ==
  \E k \in taker :
    LET tk == book.slots[k.id]
    IN \E t \in MatchTick(k, tk.side) :
         LET makerId == Head(book.levels[Opp(tk.side)][t].ids)
             maker == book.slots[makerId]
             qty == Min({maker.open, k.open})
         IN /\ book' = FillOrder(book, makerId, qty)
            /\ taker' = {[k EXCEPT !.open = @ - qty, !.count = @ + 1]}
            /\ evs' = Append(evs,
                 [type |-> "fill", maker |-> makerId, taker |-> k.id,
                  makerClient |-> maker.client, takerClient |-> tk.client, tick |-> t, qty |-> qty,
                  makerOpen |-> maker.open - qty, takerOpen |-> k.open - qty])
            /\ clientToId' = MakerGone(clientToId, maker, makerId, maker.open = qty)

\* The loop ends: set_taker_open, then what on_limit or on_market does with
\* the rest.  A market order has no limit and never rests.
MatchEnd(k) == k \in taker /\ MatchTick(k, book.slots[k.id].side) = {} /\ taker' = {}

EndRest ==
  \E k \in taker :
    LET o == [book.slots[k.id] EXCEPT !.open = k.open]
    IN /\ MatchEnd(k) /\ k.open > 0 /\ k.limit # {}
       /\ clientToId' = Remember(clientToId, o.client, k.id)
       /\ book' = Rest([book EXCEPT !.slots[k.id] = o], k.id)
       /\ evs' = Append(evs, RestEvent(k.id, o))

EndFilled ==
  \E k \in taker :
    /\ MatchEnd(k) /\ k.open <= 0
    /\ book' = StoreRemove(book, k.id)
    /\ UNCHANGED <<clientToId, evs>>

EndMarketRemainder ==
  \E k \in taker :
    /\ MatchEnd(k) /\ k.open > 0 /\ k.limit = {}
    /\ book' = StoreRemove(book, k.id)
    /\ evs' = Append(evs, RevokeEvent(k.id, book.slots[k.id].client, 1))
    /\ UNCHANGED clientToId

\* on_cancel, id names an occupied slot: that order.
OnCancelSlot(id) ==
  /\ Idle /\ id \in Live(book)
  /\ LET c == book.slots[id].client
     IN /\ clientToId' = Forget(clientToId, c, id)
        /\ evs' = <<RevokeEvent(id, c, 0)>>
  /\ book' = BookCancel(book, id)
  /\ UNCHANGED taker

\* on_cancel, id is otherwise taken as a client_id: all orders the map lists,
\* each if its slot is occupied.  The loop's state is the pair (book, events).
CancelListed(c) ==
  FoldLeft(LAMBDA acc, slot :
             [book |-> BookCancel(acc.book, slot),
              evs |-> IF slot \in Live(acc.book) THEN Append(acc.evs, RevokeEvent(slot, c, 0)) ELSE acc.evs],
           [book |-> book, evs |-> <<>>],
           IF c \in DOMAIN clientToId THEN clientToId[c] ELSE <<>>)

OnCancelClient(id) ==
  /\ Idle /\ id \notin Live(book)
  /\ book' = CancelListed(id).book
  /\ evs' = CancelListed(id).evs
  /\ clientToId' = Restrict(clientToId, DOMAIN clientToId \ {id})
  /\ UNCHANGED taker

Command ==
  \/ \E q \in Lots : OnIgnored(q)
  \/ \E s \in Sides, t \in Ticks, q \in Lots, c \in Clients : OnLimit(s, t, q, c)
  \/ \E s \in Sides, q \in Lots, m \in MaxFills, c \in Clients : OnMarket(s, q, m, c)
  \/ \E id \in (1..MaxOrders) \cup Clients : OnCancelSlot(id)
  \/ \E id \in (1..MaxOrders) \cup Clients : OnCancelClient(id)

Match == MatchFill \/ EndRest \/ EndFilled \/ EndMarketRemainder

Next == Command \/ Match

Spec == Init /\ [][Next]_vars
----------------------------------------------------------------------------
(* Correctness *)

Orders == [side: Sides, tick: Ticks \cup {0}, open: Nat, client: Clients]
Slots == 1..MaxOrders

TypeOK ==
  /\ book.size \in 0..MaxOrders
  /\ Live(book) \subseteq 1..book.size /\ Range(book.slots) \subseteq Orders
  /\ Range(book.free) \subseteq Slots
  /\ \A s \in Sides :
       /\ DOMAIN book.levels[s] \subseteq Ticks
       /\ \A t \in DOMAIN book.levels[s] : book.levels[s][t].total \in Nat
       /\ book.best[s] \subseteq Ticks
  /\ Len(book.pool) <= LevelPoolCap
  /\ DOMAIN clientToId \subseteq Clients
  /\ Cardinality(taker) <= 1

\* The ids of the orders in the book: all that are stored but the taker.
Resting == Live(book) \ {k.id : k \in taker}

\* OrderStore never hands out a slot that is occupied and loses none: the free
\* list holds each unoccupied slot exactly once (insert, remove and the slots
\* that fills, cancels and market remainders give back).
FreeListExact ==
  /\ IsInjective(book.free)
  /\ Range(book.free) = (1..book.size) \ Live(book)

\* A level's FIFO holds exactly the resting orders of its side and tick, each
\* once, its total_lot is the sum of their open lots (what depth() publishes),
\* and no level stays in the index without an order, whatever partial fills,
\* cancels from the middle and recycled levels came before.
LevelsMatchStore ==
  \A s \in Sides :
    /\ \A t \in DOMAIN book.levels[s] :
         LET lvl == book.levels[s][t]
         IN /\ lvl.ids # <<>> /\ IsInjective(lvl.ids)
            /\ Range(lvl.ids) = {id \in Resting : book.slots[id].side = s /\ book.slots[id].tick = t}
            /\ lvl.total = MapThenSumSet(LAMBDA id : book.slots[id].open, Range(lvl.ids))
    /\ {book.slots[id].tick : id \in {i \in Resting : book.slots[i].side = s}} = DOMAIN book.levels[s]

\* best_bid_tick and best_ask_tick are the best ticks of the indexes: the
\* debug_assert_eq! of best_ask and best_bid, which a release build skips.
BestTickCached == \A s \in Sides : book.best[s] = BestTick(book, s)

\* Between commands the book is not crossed or locked: the match loop left no
\* bid at or above an ask.
Uncrossed ==
  Idle => \A b \in book.best["buy"], a \in book.best["sell"] : b < a

\* client_to_id lists, for each client, exactly its resting orders, once each,
\* and has no entry for a client without any ("maintained only while the
\* order rests; removed when it is filled, cancelled or eaten by a taker").
ClientMapExact ==
  /\ \A c \in DOMAIN clientToId :
       /\ IsInjective(clientToId[c])
       /\ Range(clientToId[c]) = {id \in Resting : book.slots[id].client = c}
  /\ {book.slots[id].client : id \in Resting} = DOMAIN clientToId

\* Store, free list, levels, cached best ticks and client map describe the same
\* orders after every step of every command, and the book is uncrossed between
\* commands.
StructuresAgree ==
  /\ TypeOK /\ FreeListExact /\ LevelsMatchStore /\ BestTickCached
  /\ Uncrossed /\ ClientMapExact

\* A Revoke event names the client whose order was taken out of the book:
\* cancelling a client's orders takes out no order of anyone else, though
\* slots are used again for other clients' orders.
RevokeNamesOwner ==
  [][\A e \in Range(evs') :
       e.type = "revoke" => e.id \in Live(book) /\ book.slots[e.id].client = e.client]_vars
----------------------------------------------------------------------------
(* The engine implements one price-time queue per side. *)

Queued(id) == [id |-> id, tick |-> book.slots[id].tick, client |-> book.slots[id].client,
               open |-> book.slots[id].open]
SortedTicks(s) == SetToSortSeq(DOMAIN book.levels[s], LAMBDA t, u : Better(s, t, u))
QueueOf(s) ==
  LET ticks == SortedTicks(s)
      Level(t) == [j \in DOMAIN book.levels[s][t].ids |-> Queued(book.levels[s][t].ids[j])]
  IN FlattenSeq([i \in DOMAIN ticks |-> Level(ticks[i])])

Abstract == INSTANCE PriceTimeQueue WITH
  Ids <- Slots,
  queue <- [s \in Sides |-> QueueOf(s)],
  taker <- {[id |-> k.id, side |-> book.slots[k.id].side, tick |-> book.slots[k.id].tick,
             client |-> book.slots[k.id].client, open |-> k.open, limit |-> k.limit,
             fills |-> {m - k.count : m \in k.max}] : k \in taker}

\* Levels walked best tick first, FIFO within a tick, are a price-time queue:
\* every command fills, rests and cancels what one queue per side would, and
\* reports the same events in the same order.
ImplementsQueue == Abstract!Spec
=============================================================================
