----------------------------- MODULE MatchCore -----------------------------
(***************************************************************************)
(* The equivalence engine of crates/match-core: one order book and the     *)
(* handlers that Engine::on_order dispatches to (revoke, limit, market     *)
(* with gear, PostOnly, IOC, FOK).  An Engine keeps one book per symbol    *)
(* and never touches two of them in one call, so one book is modelled.     *)
(*                                                                         *)
(* on_order runs to completion before the next order is taken.  A call is  *)
(* split into one step per loop iteration: `pc' names the loop the call is *)
(* in, "idle" between calls.  Buy and sell handlers are mirror images; one *)
(* definition stands for both, with the incoming order's side as its       *)
(* parameter.  Quantities and prices are BigDecimals that are only added,  *)
(* subtracted and compared: integers.  remaining_number always equals      *)
(* trust_number - consumer_all_number for an order in the book and is not  *)
(* a field of its own.                                                     *)
(***************************************************************************)
EXTENDS Integers, Sequences, FiniteSets

CONSTANTS
  OrderNos,             \* trust_order_no values (ordered like the strings are)
  Prices,               \* trust_price values an order may carry
  Qtys,                 \* trust_number values
  Times,                \* create_time values
  Gears,                \* gear values of market orders
  MarketBuyTrustPrice   \* MARKET_BUY_TRUST_PRICE, i32::MAX in the code

ASSUME ConstantsOK ==
  /\ OrderNos \subseteq Int
  /\ Prices \subseteq Nat
  /\ Qtys \subseteq Nat \ {0}
  /\ Times \subseteq Int
  /\ Gears \subseteq Nat
  /\ MarketBuyTrustPrice \in Nat

VARIABLES
  book,     \* the resting orders of both sides (OrderBook: two BTreeSets)
  pc,       \* the loop the current on_order call is in, "idle" between calls
  cur,      \* the order the last call accepted, as it was inserted
  fills,    \* fill_count of the market loops
  firstBb,  \* first_bb of the FOK walk: the order found best when it began
  saved,    \* sell_order_list / buy_order_list of the FOK walk
  evs,      \* the MatchEvents of the last call, in order
  before    \* history: the book when the last call began

vars == <<book, pc, cur, fills, firstBb, saved, evs, before>>

Sides == {"buy", "sell"}
Forms == {"limit", "market", "post_only", "ioc", "fok"}
Opp(s) == IF s = "buy" THEN "sell" ELSE "buy"

\* consumed is consumer_all_number; type_convert sets it to 0.  A market buy is
\* kept at the market buy price, every other order at its own.
Orders == {o \in [no: OrderNos, side: Sides, form: Forms, price: Prices \cup {MarketBuyTrustPrice},
                  time: Times, number: Qtys, consumed: Nat, gear: Gears] :
             IF o.form = "market" /\ o.side = "buy" THEN o.price = MarketBuyTrustPrice
                                                   ELSE o.price \in Prices}
NoOrder == [no |-> 0, side |-> "buy", form |-> "none", price |-> 0,
            time |-> 0, number |-> 0, consumed |-> 0, gear |-> 0]

\* What reaches the engine.  Only market orders look at gear.
Incoming == {o \in [no: OrderNos, side: Sides, form: Forms, price: Prices,
                    time: Times, number: Qtys, consumed: {0}, gear: Gears] :
               o.form # "market" => \A g \in Gears : o.gear <= g}
----------------------------------------------------------------------------
(* The book: price-time priority on each side. *)

remaining(o) == o.number - o.consumed

SideOf(b, s) == {o \in b : o.side = s}
Nos(b) == {o.no : o \in b}

\* compare_buy / compare_sell / compare_same_price, as "sorts before".
Precedes(o, p) ==
  \/ o.side = "buy" /\ o.price > p.price
  \/ o.side = "sell" /\ o.price < p.price
  \/ /\ o.price = p.price
     /\ \/ o.time < p.time
        \/ o.time = p.time /\ o.no < p.no

\* (faulty form of IsFirst) price decides, a tie is anybody's
IsFirstByPrice(b, o) ==
  /\ o \in b
  /\ \A p \in SideOf(b, o.side) : p.price # o.price => Precedes(o, p)

\* OrderBook::first / best: o is the first order of its side in b.
IsFirst(b, o) ==
  /\ o \in b
  /\ \A p \in SideOf(b, o.side) : p.no # o.no => Precedes(o, p)

\* (faulty form of Crosses) equal prices do not meet
CrossesStrictly(t, m) == IF t.side = "buy" THEN t.price > m.price ELSE t.price < m.price

\* The taker's price reaches the maker's: buy_px >= sell_px.
Crosses(t, m) == IF t.side = "buy" THEN t.price >= m.price ELSE t.price <= m.price
----------------------------------------------------------------------------
(* Events and the steps the handlers share. *)

FillEvent(t, m, q) ==
  [type |-> "fill", taker |-> t.no, maker |-> m.no, price |-> m.price, qty |-> q,
   takerRemaining |-> remaining(t) - q, makerRemaining |-> remaining(m) - q]
RevokeEvent(o, r) ==
  [type |-> "revoke", no |-> o.no, remaining |-> remaining(o), reason |-> r]

Consume(o, q) == [o EXCEPT !.consumed = @ + q]
DealQty(t, m) == IF remaining(t) <= remaining(m) THEN remaining(t) ELSE remaining(m)

\* (faulty form of AfterFill) an order that is used up stays in the book
AfterFillKeepsEmpty(b, t, m) ==
  LET q == DealQty(t, m)
  IN (b \ {t, m}) \cup {Consume(o, q) : o \in {x \in {t, m} : remaining(x) >= q}}

\* rather_than_*, less_than_*, equals_* and one step of the FOK walks: both
\* orders leave the book and the one that is not used up goes back in.
\* (rather_than_sell also revokes a FOK taker; no FOK order reaches it,
\* because FOK orders never rest and their own handler does not call it.)
AfterFill(b, t, m) ==
  LET q == DealQty(t, m)
  IN (b \ {t, m}) \cup {Consume(o, q) : o \in {x \in {t, m} : remaining(x) > q}}

Fill(t, m) ==
  /\ book' = AfterFill(book, t, m)
  /\ evs' = Append(evs, FillEvent(t, m, DealQty(t, m)))

\* remove_by_order_no on the order's side: what revoke_order_with_reason removes.
Found(b, n, s) == {o \in b : o.side = s /\ o.no = n}
RevokeEvents(os, r) ==
  IF os = {} THEN <<>> ELSE <<RevokeEvent(CHOOSE o \in os : TRUE, r)>>

\* revoke_by_no + push_revoke_if_present on the incoming order, on book b
\* with events e so far; nothing when the order is gone.
RevokeCur(b, e, r) ==
  LET os == Found(b, cur.no, cur.side)
  IN /\ book' = b \ os
     /\ evs' = e \o RevokeEvents(os, r)

Break == pc' = "idle" /\ UNCHANGED <<cur, fills, firstBb, saved, before>>
BreakUnchanged == Break /\ UNCHANGED <<book, evs>>
Again == UNCHANGED <<pc, cur, fills, firstBb, saved, before>>

OwnEmpty == SideOf(book, cur.side) = {}
OppEmpty == SideOf(book, Opp(cur.side)) = {}

\* t and m are the best orders of the incoming order's side and of the other.
Tops(t, m) ==
  /\ t.side = cur.side /\ IsFirst(book, t)
  /\ m.side = Opp(cur.side) /\ IsFirst(book, m)
----------------------------------------------------------------------------
(* Engine::on_order up to the handler's loop. *)

HandlerOf(form) ==
  CASE form \in {"post_only", "ioc", "fok"} -> "height"
    [] form = "market" -> "market"
    [] OTHER -> "limit"

\* handle_market_buy overwrites the price; every other order keeps its own.
AsInserted(o) ==
  IF o.form = "market" /\ o.side = "buy" THEN [o EXCEPT !.price = MarketBuyTrustPrice] ELSE o

StartCall == pc = "idle" /\ before' = book /\ fills' = 0 /\ firstBb' = NoOrder /\ saved' = {}

\* order_status = REVOKE: remove the order from the side the message names.
OnRevoke(n, s) ==
  /\ StartCall
  /\ LET os == Found(book, n, s)
     IN book' = book \ os /\ evs' = RevokeEvents(os, "user")
  /\ cur' = NoOrder
  /\ UNCHANGED pc

RejectDuplicate(n) ==
  /\ StartCall
  /\ n \in Nos(book)
  /\ cur' = NoOrder /\ evs' = <<>>
  /\ UNCHANGED <<book, pc>>

Accept(o) ==
  /\ StartCall
  /\ o.no \notin Nos(book)
  /\ cur' = AsInserted(o)
  /\ book' = book \cup {AsInserted(o)}
  /\ pc' = HandlerOf(o.form)
  /\ evs' = <<>>
----------------------------------------------------------------------------
(* handle_limit_buy / handle_limit_sell. *)

LimitStop ==
  /\ pc = "limit"
  /\ \/ OwnEmpty \/ OppEmpty
     \/ \E t, m \in book : Tops(t, m) /\ ~Crosses(t, m)
  /\ BreakUnchanged

LimitFill ==
  /\ pc = "limit"
  /\ \E t, m \in book : Tops(t, m) /\ Crosses(t, m) /\ Fill(t, m)
  /\ Again
----------------------------------------------------------------------------
(* handle_market_buy / handle_market_sell. *)

gear_of(o) == IF o.gear >= 1 THEN o.gear ELSE 1

MarketOwnEmpty == pc = "market" /\ OwnEmpty /\ BreakUnchanged

MarketEmpty ==
  /\ pc = "market" /\ ~OwnEmpty /\ OppEmpty
  /\ RevokeCur(book, evs, "market_empty") /\ Break

\* The best order of the incoming order's side is not a market order.
MarketNotBest ==
  /\ pc = "market"
  /\ \E t, m \in book : Tops(t, m) /\ t.form # "market"
  /\ BreakUnchanged

\* The best order is another market order, or a market buy meets one: revoke.
MarketBlocked ==
  /\ pc = "market"
  /\ \E t, m \in book :
       /\ Tops(t, m) /\ t.form = "market"
       /\ t.no # cur.no \/ (cur.side = "buy" /\ m.form = "market")
  /\ RevokeCur(book, evs, "market_blocked") /\ Break

\* (faulty form of MayMarketFill) not_our_order is forgotten
MayMarketFillAny(t, m) ==
  /\ pc = "market" /\ Tops(t, m)
  /\ t.form = "market"
  /\ ~(cur.side = "buy" /\ m.form = "market")

MayMarketFill(t, m) ==
  /\ pc = "market" /\ Tops(t, m)
  /\ t.form = "market" /\ t.no = cur.no
  /\ ~(cur.side = "buy" /\ m.form = "market")

MarketFill ==
  /\ \E t, m \in book :
       MayMarketFill(t, m) /\ fills + 1 < gear_of(cur) /\ Fill(t, m)
  /\ fills' = fills + 1
  /\ UNCHANGED <<pc, cur, firstBb, saved, before>>

\* The fill that reaches the gear: market_gear_stop revokes what is left.
MarketFillGear ==
  /\ \E t, m \in book :
       /\ MayMarketFill(t, m) /\ fills + 1 >= gear_of(cur)
       /\ RevokeCur(AfterFill(book, t, m), Append(evs, FillEvent(t, m, DealQty(t, m))), "market_gear")
  /\ fills' = fills + 1 /\ pc' = "idle"
  /\ UNCHANGED <<cur, firstBb, saved, before>>
----------------------------------------------------------------------------
(* height_buy_loop / height_sell_loop: PostOnly, IOC and the FOK entry. *)

PostOnlyRevoke ==
  /\ pc = "height" /\ cur.form = "post_only"
  /\ \E m \in book : m.side = Opp(cur.side) /\ IsFirst(book, m) /\ Crosses(cur, m)
  /\ RevokeCur(book, evs, "post_only") /\ Break

PostOnlyRest ==
  /\ pc = "height" /\ cur.form = "post_only"
  /\ \/ OppEmpty
     \/ \E m \in book : m.side = Opp(cur.side) /\ IsFirst(book, m) /\ ~Crosses(cur, m)
  /\ BreakUnchanged

IocOrFokReason == IF cur.form = "ioc" THEN "ioc_remainder" ELSE "fok_fail"

HeightOppEmpty ==
  /\ pc = "height" /\ cur.form \in {"ioc", "fok"} /\ OppEmpty
  /\ RevokeCur(book, evs, IocOrFokReason) /\ Break

\* Nothing left on the own side, or the IOC order is gone: fully filled.
IocFilled ==
  /\ pc = "height" /\ cur.form \in {"ioc", "fok"} /\ ~OppEmpty
  /\ OwnEmpty \/ (cur.form = "ioc" /\ cur.no \notin Nos(book))
  /\ BreakUnchanged

\* (faulty form of HeightRevoke) breaks without the revoke
HeightBreak ==
  /\ pc = "height" /\ cur.form \in {"ioc", "fok"}
  /\ cur.form = "ioc" => cur.no \in Nos(book)
  /\ \E t, m \in book :
       Tops(t, m) /\ ((cur.form = "ioc" /\ t.no # cur.no) \/ ~Crosses(t, m))
  /\ BreakUnchanged

HeightRevoke ==
  /\ pc = "height" /\ cur.form \in {"ioc", "fok"}
  /\ cur.form = "ioc" => cur.no \in Nos(book)
  /\ \E t, m \in book :
       Tops(t, m) /\ ((cur.form = "ioc" /\ t.no # cur.no) \/ ~Crosses(t, m))
  /\ RevokeCur(book, evs, IocOrFokReason) /\ Break

IocFill ==
  /\ pc = "height" /\ cur.form = "ioc" /\ cur.no \in Nos(book)
  /\ \E t, m \in book :
       Tops(t, m) /\ t.no = cur.no /\ Crosses(t, m) /\ Fill(t, m)
  /\ Again

\* fok_*_handle: the best order of the side is the one that is walked.
FokStart ==
  /\ pc = "height" /\ cur.form = "fok"
  /\ \E t, m \in book : Tops(t, m) /\ Crosses(t, m) /\ firstBb' = t
  /\ pc' = "fok"
  /\ UNCHANGED <<book, cur, fills, saved, evs, before>>
----------------------------------------------------------------------------
(* fok_*_handle and fok_*_walk, one level per step.  The two shortcuts of   *)
(* fok_*_handle (equal, or less than the first maker) do what the walk's    *)
(* first step does.                                                         *)

\* The walked order as it stands in the book, and the best opposite order.
WalkTops(t, m) ==
  /\ pc = "fok"
  /\ t.no = firstBb.no /\ t.side = firstBb.side
  /\ m.side = Opp(firstBb.side) /\ IsFirst(book, m)

\* (faulty form of Restored) the makers are not put back
NotRestored(b, s) == b

\* The makers of the walk so far as they were before it.
Restored(b, s) == {o \in b : o.no \notin Nos(s)} \cup s

\* (faulty form of FokRollback) the fills of the walk stay in the output
FokRollbackKeepsFills(b, s) ==
  LET r == Restored(b, s)
      os == Found(r, firstBb.no, firstBb.side)
  IN /\ book' = r \ os
     /\ evs' = evs \o RevokeEvents(os, "fok_fail")
     /\ pc' = "idle"

\* rollback_fok_*: put the makers back, drop the fills, revoke the order.
FokRollback(b, s) ==
  LET r == Restored(b, s)
      os == Found(r, firstBb.no, firstBb.side)
  IN /\ book' = r \ os
     /\ evs' = RevokeEvents(os, "fok_fail")
     /\ pc' = "idle"

FokFill ==
  /\ \E t, m \in book :
       /\ WalkTops(t, m) /\ Crosses(t, m)
       /\ LET b == AfterFill(book, t, m)
              more == remaining(t) > DealQty(t, m)
          IN \/ /\ more /\ SideOf(b, m.side) = {}
                /\ FokRollback(b, saved \cup {m})
             \/ /\ ~(more /\ SideOf(b, m.side) = {})
                /\ Fill(t, m)
                /\ pc' = IF more THEN "fok" ELSE "idle"
       /\ saved' = saved \cup {m}
  /\ UNCHANGED <<cur, fills, firstBb, before>>

\* The next maker is out of reach: fok_price_gap_after_fills.  (The walk is only
\* entered with a first maker within reach, so saved is not empty here.)
FokPriceGap ==
  /\ saved # {}
  /\ \E t, m \in book : WalkTops(t, m) /\ ~Crosses(t, m)
  /\ FokRollback(book, saved)
  /\ UNCHANGED <<cur, fills, firstBb, saved, before>>
----------------------------------------------------------------------------
Init ==
  /\ book = {} /\ before = {}
  /\ pc = "idle" /\ cur = NoOrder
  /\ fills = 0 /\ firstBb = NoOrder /\ saved = {}
  /\ evs = <<>>

OnOrder ==
  \/ \E n \in OrderNos, s \in Sides : OnRevoke(n, s)
  \/ \E n \in OrderNos : RejectDuplicate(n)
  \/ \E o \in Incoming : Accept(o)

Step ==
  \/ LimitStop \/ LimitFill
  \/ MarketOwnEmpty \/ MarketEmpty \/ MarketNotBest \/ MarketBlocked
  \/ MarketFill \/ MarketFillGear
  \/ PostOnlyRevoke \/ PostOnlyRest \/ HeightOppEmpty \/ IocFilled
  \/ HeightRevoke \/ IocFill \/ FokStart
  \/ FokFill \/ FokPriceGap

Next == OnOrder \/ Step

Spec == Init /\ [][Next]_vars
----------------------------------------------------------------------------
(* What the last call reported, and what it found. *)

FillIdx == {i \in DOMAIN evs : evs[i].type = "fill"}
RevokedNos == {evs[i].no : i \in DOMAIN evs \ FillIdx}

\* What the fills among the events es traded of order n.
Traded(ev, n) == IF ev.type = "fill" /\ n \in {ev.taker, ev.maker} THEN ev.qty ELSE 0
Filled(es, n) ==
  LET sum[i \in 0..Len(es)] == IF i = 0 THEN 0 ELSE sum[i - 1] + Traded(es[i], n)
  IN sum[Len(es)]
FilledQty(n) == Filled(evs, n)

\* The orders the last call could touch, as they were when it had inserted its own.
Involved == before \cup (IF cur = NoOrder THEN {} ELSE {cur})

\* An incoming buy at price b can trade with a sell at price s.
Reach(side, own, other) == IF side = "buy" THEN own >= other ELSE own <= other

\* What remains of the orders os of one side, added up best order first.
Total(os) ==
  LET sum[s \in SUBSET os] ==
        IF s = {} THEN 0
        ELSE LET o == CHOOSE x \in s : IsFirst(s, x) IN remaining(o) + sum[s \ {o}]
  IN sum[os]

\* The orders of b that an order like o could trade with.
WithinReach(b, o) == {m \in SideOf(b, Opp(o.side)) : Reach(o.side, o.price, m.price)}

\* What a FOK order could take from the book it met.
Available == Total(WithinReach(before, cur))
----------------------------------------------------------------------------
(* Properties. *)

EventsType ==
  [type: {"fill"}, taker: OrderNos, maker: OrderNos, price: Prices \cup {MarketBuyTrustPrice},
   qty: Nat, takerRemaining: Nat, makerRemaining: Nat]
  \cup [type: {"revoke"}, no: OrderNos, remaining: Nat,
        reason: {"user", "market_empty", "market_blocked", "market_gear",
                 "post_only", "ioc_remainder", "fok_fail"}]

\* Every variable has its type, an order in the book always has something
\* left to trade, and no two orders of the book share an order number
\* (contains_order_no in Engine::on_order).
TypeOK ==
  /\ book \subseteq Orders /\ before \subseteq Orders /\ saved \subseteq Orders
  /\ \A o \in book : remaining(o) > 0
  /\ \A o, p \in book : o.no = p.no => o = p
  /\ pc \in {"idle", "limit", "market", "height", "fok"}
  /\ cur \in Orders \cup {NoOrder} /\ firstBb \in Orders \cup {NoOrder}
  /\ fills \in Nat
  /\ evs \in Seq(EventsType)

\* Between calls no resting buy reaches a resting sell.  Every handler relies
\* on it: the loops match the best order of the side, not the incoming one,
\* and the FOK entry does not check whose order it walks.
Uncrossed ==
  pc = "idle" => \A b \in SideOf(book, "buy"), s \in SideOf(book, "sell") : b.price < s.price

\* Although the handlers match best against best, the taker of every fill
\* reported by a call is the order the call brought in, the maker was resting
\* before it, the deal is at the maker's own price, and the taker gets at
\* least its limit (market orders have none).
TakerIsIncoming ==
  \A i \in FillIdx :
    /\ evs[i].taker = cur.no
    /\ \E m \in before :
         /\ m.no = evs[i].maker /\ m.price = evs[i].price /\ m.side = Opp(cur.side)
         /\ cur.form # "market" => Reach(cur.side, cur.price, m.price)

\* The events of a call are the whole truth about the book: applying the
\* reported fills and revokes to the book before the call gives the book
\* after it (fills dropped by the FOK rollback leave no trace), and a revoke
\* reports what the fills ever reported have left of its order (except for a
\* failed FOK order: the code revokes what its discarded fills left of it).
EventsExplainBook ==
  /\ TypeOK
  /\ pc = "idle" =>
       book = {Consume(o, FilledQty(o.no)) :
                 o \in {x \in Involved : x.no \notin RevokedNos /\ FilledQty(x.no) < remaining(x)}}
  /\ \A i \in DOMAIN evs \ FillIdx : \A o \in Involved :
       (evs[i].no = o.no /\ o.form # "fok") => evs[i].remaining = remaining(o) - FilledQty(o.no)

\* No fill trades through a better-placed order: when a maker was hit, every
\* order that preceded it on its side is gone by the end of the call.
NoTradeThrough ==
  pc = "idle" =>
    \A i \in FillIdx : \A m, o \in before :
      (m.no = evs[i].maker /\ o.side = m.side /\ Precedes(o, m)) => o.no \notin Nos(book)

\* IOC and FOK orders, and market buys while every price is below the market
\* buy price, are never left in the book by the call that brought them.
ImmediateNeverRests ==
  pc = "idle" =>
    \A o \in book : /\ o.form \notin {"ioc", "fok"}
                    /\ ~(o.form = "market" /\ o.side = "buy")

\* A FOK order trades in full when the book it met holds enough within its
\* limit; otherwise nothing is reported as traded and the book is as before.
FokAllOrNothing ==
  (pc = "idle" /\ cur.form = "fok") =>
    IF Available >= cur.number
    THEN FilledQty(cur.no) = cur.number /\ cur.no \notin RevokedNos
    ELSE FillIdx = {} /\ book = before /\ cur.no \in RevokedNos

\* An IOC order is revoked only when nothing within its limit is left.
IocTakesAll ==
  (pc = "idle" /\ cur.form = "ioc" /\ cur.no \in RevokedNos) =>
    ~\E m \in SideOf(book, Opp(cur.side)) : Reach(cur.side, cur.price, m.price)

\* What the handlers of FOK and IOC orders promise of the book they met.
ImmediatePromises == FokAllOrNothing /\ IocTakesAll

\* What an order is promised when it trades: no better-placed resting order
\* is passed over, a FOK trades in full or not at all, an IOC takes all it can.
TradesAsPromised == NoTradeThrough /\ ImmediatePromises

\* Every on_order call returns: an iteration that does not end its call takes an
\* order out of the book, or enters the FOK walk, which is never left for
\* another loop.  (A call always has a next iteration: no state is a deadlock.)
LoopsAdvance ==
  [][ (pc # "idle" /\ pc' # "idle") =>
        \/ pc' = pc /\ Cardinality(book') < Cardinality(book)
        \/ pc = "height" /\ pc' = "fok" ]_vars
=============================================================================
