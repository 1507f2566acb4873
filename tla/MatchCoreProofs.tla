-------------------------- MODULE MatchCoreProofs --------------------------
(***************************************************************************)
(* Proofs about MatchCore for every set of order numbers, prices,          *)
(* quantities, times and gears.                                            *)
(*                                                                         *)
(* One inductive invariant, IInv, carries all theorems.  Its heart is      *)
(* RestUncrossed: while a call runs, the orders other than the incoming    *)
(* one (the makers a FOK walk has taken out of the book included) do not   *)
(* cross.  From it follows that whenever a best buy reaches a best sell    *)
(* one of the two is the incoming order, so the handlers' best-against-    *)
(* best matching always has the incoming order as its taker.               *)
(*                                                                         *)
(* The second half is about operators, for the invariants of               *)
(* MatchCoreEvents: Filled and Total are recursive functions.  That the    *)
(* functions exist, that there is only one of each, and what one more      *)
(* event or one order less does to it, is proved by induction over the     *)
(* length of the event list and over the size of the side of the book.     *)
(***************************************************************************)
EXTENDS MatchCore, FiniteSetTheorems, TLAPS

\* The makers the FOK walk keeps for its rollback.
Held == IF pc = "fok" THEN saved ELSE {}

\* o is not the order the running call brought in.
Other(o) == pc = "idle" \/ o.no # cur.no

CallInv ==
  pc # "idle" =>
    /\ cur \in Orders
    /\ pc = "limit" => cur.form = "limit"
    /\ pc = "market" => cur.form = "market"
    /\ pc = "height" => cur.form \in {"post_only", "ioc", "fok"}
    /\ pc = "fok" => cur.form = "fok"

\* What is in the book under the incoming order's number is that order.
EntryInv ==
  pc # "idle" =>
    \A o \in book : o.no = cur.no => o.side = cur.side /\ o.price = cur.price /\ o.form = cur.form

\* The walk is about the incoming order; the makers it holds have left the book.
WalkInv ==
  pc = "fok" =>
    /\ firstBb.no = cur.no /\ firstBb.side = cur.side
    /\ \A o \in saved : /\ o.side = Opp(cur.side) /\ remaining(o) > 0
                        /\ o.no # cur.no
                        /\ o.no \notin Nos(book)
    /\ \A o, p \in saved : o.no = p.no => o = p

NotWalking == pc \in {"limit", "market", "height"} => saved = {}

\* Every price an order can name is below the price market buys are given.
PricesBelow == \A p \in Prices : p < MarketBuyTrustPrice

\* o is not an order that must have left the book when its call returns.
MayRest(o) ==
  /\ o.form \notin {"ioc", "fok"}
  /\ PricesBelow => ~(o.form = "market" /\ o.side = "buy")

RestUncrossed ==
  \A b, s \in book \cup Held :
    (b.side = "buy" /\ s.side = "sell" /\ Other(b) /\ Other(s)) => b.price < s.price

NoImmediate ==
  \A o \in book \cup Held : Other(o) => MayRest(o)

\* Every other order was in the book when the call began.
FromBefore ==
  pc # "idle" =>
    \A o \in book \cup Held : o.no # cur.no =>
      \E b \in before : b.no = o.no /\ b.price = o.price /\ b.side = o.side

IInv ==
  /\ TypeOK /\ CallInv /\ EntryInv /\ WalkInv /\ NotWalking
  /\ RestUncrossed /\ NoImmediate /\ FromBefore /\ TakerIsIncoming
----------------------------------------------------------------------------
(* What one fill does to a book. *)

\* A set of orders that can be a book.
GoodBook(b) ==
  /\ b \subseteq Orders
  /\ \A o \in b : remaining(o) > 0
  /\ \A o, p \in b : o.no = p.no => o = p

\* p is o, perhaps with more of it consumed.
Same(o, p) == o.no = p.no /\ o.side = p.side /\ o.price = p.price /\ o.form = p.form

\* Consuming less than what remains leaves a live order that differs from the
\* old one in consumer_all_number only.
LEMMA ConsumeLemma ==
  ASSUME NEW o \in Orders, NEW q \in Nat, remaining(o) > q
  PROVE  /\ Consume(o, q) \in Orders
         /\ Same(o, Consume(o, q))
         /\ remaining(Consume(o, q)) > 0
<1>1. o.consumed \in Nat /\ o.number \in Nat
  BY ConstantsOK, Zenon DEF ConstantsOK, Orders
<1>2. Consume(o, q) = [no |-> o.no, side |-> o.side, form |-> o.form, price |-> o.price,
                       time |-> o.time, number |-> o.number, consumed |-> o.consumed + q,
                       gear |-> o.gear]
  BY DEF Consume, Orders
<1> QED
  BY <1>1, <1>2 DEF Orders, Same, remaining

\* The quantity of a deal is positive and neither side trades more than it has.
LEMMA DealLemma ==
  ASSUME NEW t \in Orders, NEW m \in Orders, remaining(t) > 0, remaining(m) > 0
  PROVE  /\ DealQty(t, m) \in Nat
         /\ DealQty(t, m) > 0
         /\ remaining(t) \in Nat /\ remaining(m) \in Nat
         /\ DealQty(t, m) <= remaining(t) /\ DealQty(t, m) <= remaining(m)
         /\ DealQty(t, m) = remaining(t) \/ DealQty(t, m) = remaining(m)
<1>1. /\ t.consumed \in Nat /\ t.number \in Nat
      /\ m.consumed \in Nat /\ m.number \in Nat
  BY ConstantsOK, Zenon DEF ConstantsOK, Orders
<1> QED
  BY <1>1 DEF DealQty, remaining

\* rather_than_* and the FOK walk's step turn a book into a book.  Nothing but
\* the two orders changes, and each of them either leaves or keeps its place
\* (what is left of it is less than before).
LEMMA FillLemma ==
  ASSUME NEW b, GoodBook(b), NEW t \in b, NEW m \in b, t.no # m.no
  PROVE  /\ GoodBook(AfterFill(b, t, m))
         /\ \A o \in AfterFill(b, t, m) : \E p \in b : Same(p, o)
         /\ \A o \in AfterFill(b, t, m) : o.no \notin {t.no, m.no} => o \in b
         /\ remaining(t) <= DealQty(t, m) => t.no \notin Nos(AfterFill(b, t, m))
         /\ remaining(m) <= DealQty(t, m) => m.no \notin Nos(AfterFill(b, t, m))
<1> DEFINE q == DealQty(t, m)
           B == AfterFill(b, t, m)
<1>1. t \in Orders /\ m \in Orders /\ remaining(t) > 0 /\ remaining(m) > 0
  BY DEF GoodBook
<1>2. q \in Nat /\ q > 0 /\ remaining(t) \in Nat /\ remaining(m) \in Nat
  BY <1>1, DealLemma
<1>3. \A o \in B : \/ o \in b /\ o # t /\ o # m
                   \/ o = Consume(t, q) /\ remaining(t) > q
                   \/ o = Consume(m, q) /\ remaining(m) > q
  BY DEF AfterFill
<1>4. remaining(t) > q => Consume(t, q) \in Orders /\ Same(t, Consume(t, q)) /\ remaining(Consume(t, q)) > 0
  BY <1>1, <1>2, ConsumeLemma
<1>5. remaining(m) > q => Consume(m, q) \in Orders /\ Same(m, Consume(m, q)) /\ remaining(Consume(m, q)) > 0
  BY <1>1, <1>2, ConsumeLemma
<1> HIDE DEF q, B
<1>6. \A o \in B : o \in Orders /\ remaining(o) > 0
  BY <1>3, <1>4, <1>5 DEF GoodBook
<1>7. \A o \in B : o.no = t.no => o = Consume(t, q) /\ remaining(t) > q
  BY <1>3, <1>4, <1>5 DEF GoodBook, Same
<1>8. \A o \in B : o.no = m.no => o = Consume(m, q) /\ remaining(m) > q
  BY <1>3, <1>4, <1>5 DEF GoodBook, Same
<1>9. \A o \in B : o.no \notin {t.no, m.no} => o \in b
  BY <1>3, <1>4, <1>5 DEF Same
<1>10. \A o, p \in B : o.no = p.no => o = p
  BY <1>7, <1>8, <1>9 DEF GoodBook
<1>11. \A o \in B : \E p \in b : Same(p, o)
  BY <1>3, <1>4, <1>5 DEF Same
<1>12. remaining(t) <= q => t.no \notin Nos(B)
  BY <1>7, <1>2 DEF Nos
<1>13. remaining(m) <= q => m.no \notin Nos(B)
  BY <1>8, <1>2 DEF Nos
<1> QED
  BY <1>6, <1>9, <1>10, <1>11, <1>12, <1>13 DEF GoodBook, q, B
----------------------------------------------------------------------------
(* What the events of a step are. *)

\* TypeOK says that the book is one.
LEMMA TypeGood == TypeOK => GoodBook(book)
BY DEF TypeOK, GoodBook

\* A deal between two live orders is reported as a well-formed Fill event.
LEMMA FillEventLemma ==
  ASSUME NEW t \in Orders, NEW m \in Orders, remaining(t) > 0, remaining(m) > 0
  PROVE  FillEvent(t, m, DealQty(t, m)) \in EventsType
<1>1. /\ DealQty(t, m) \in Nat
      /\ remaining(t) - DealQty(t, m) \in Nat
      /\ remaining(m) - DealQty(t, m) \in Nat
  BY DealLemma
<1>2. t.no \in OrderNos /\ m.no \in OrderNos /\ m.price \in Prices \cup {MarketBuyTrustPrice}
  BY DEF Orders
<1> QED
  BY <1>1, <1>2 DEF FillEvent, EventsType

\* Reasons of the revokes the handlers make.
Reasons == {"user", "market_empty", "market_blocked", "market_gear",
            "post_only", "ioc_remainder", "fok_fail"}

\* Revoking adds nothing or one well-formed Revoke event.
LEMMA RevokeEventsLemma ==
  ASSUME NEW os, os \subseteq Orders, \A o \in os : remaining(o) > 0,
         NEW r \in Reasons, NEW e \in Seq(EventsType)
  PROVE  \/ e \o RevokeEvents(os, r) = e
         \/ \E x \in EventsType : x.type = "revoke" /\ e \o RevokeEvents(os, r) = Append(e, x)
<1>1. CASE os = {}
  <2>1. e \o <<>> = e
    OBVIOUS
  <2> QED BY <1>1, <2>1 DEF RevokeEvents
<1>2. CASE os # {}
  <2> DEFINE o == CHOOSE p \in os : TRUE
  <2>1. o \in os
    BY <1>2
  <2> HIDE DEF o
  <2>2. o \in Orders /\ remaining(o) > 0
    BY <2>1
  <2>3. remaining(o) \in Nat
    BY <2>2, DealLemma
  <2>4. o.no \in OrderNos
    BY <2>2 DEF Orders
  <2>5. RevokeEvent(o, r) \in EventsType /\ RevokeEvent(o, r).type = "revoke"
    BY <2>3, <2>4 DEF RevokeEvent, EventsType, Reasons
  <2>6. RevokeEvents(os, r) = <<RevokeEvent(o, r)>>
    BY <1>2 DEF RevokeEvents, o
  <2>7. \A x \in EventsType : e \o <<x>> = Append(e, x)
    OBVIOUS
  <2> QED BY <2>5, <2>6, <2>7
<1> QED BY <1>1, <1>2

\* The sequence of events e says of every fill what TakerIsIncoming says.
FillsOK(e) ==
  \A i \in DOMAIN e : e[i].type = "fill" =>
    /\ e[i].taker = cur.no
    /\ \E m \in before :
         /\ m.no = e[i].maker /\ m.price = e[i].price /\ m.side = Opp(cur.side)
         /\ cur.form # "market" => Reach(cur.side, cur.price, m.price)

\* FillsOK holds of an extended sequence if it holds of the new event.
LEMMA FillsAppend ==
  ASSUME NEW e \in Seq(EventsType), FillsOK(e), NEW x \in EventsType,
         x.type = "fill" =>
           /\ x.taker = cur.no
           /\ \E m \in before :
                /\ m.no = x.maker /\ m.price = x.price /\ m.side = Opp(cur.side)
                /\ cur.form # "market" => Reach(cur.side, cur.price, m.price)
  PROVE  FillsOK(Append(e, x)) /\ Append(e, x) \in Seq(EventsType)
<1>1. Append(e, x) \in Seq(EventsType) /\ Len(Append(e, x)) = Len(e) + 1
  OBVIOUS
<1>2. \A i \in DOMAIN Append(e, x) : (i \in DOMAIN e /\ Append(e, x)[i] = e[i]) \/ Append(e, x)[i] = x
  OBVIOUS
<1> QED BY <1>1, <1>2 DEF FillsOK

\* Revoking after e keeps its type and FillsOK.
LEMMA FillsRevoke ==
  ASSUME NEW os, os \subseteq Orders, \A o \in os : remaining(o) > 0,
         NEW r \in Reasons, NEW e \in Seq(EventsType), FillsOK(e)
  PROVE  /\ FillsOK(e \o RevokeEvents(os, r))
         /\ e \o RevokeEvents(os, r) \in Seq(EventsType)
<1>1. CASE e \o RevokeEvents(os, r) = e
  BY <1>1
<1>2. CASE \E x \in EventsType : x.type = "revoke" /\ e \o RevokeEvents(os, r) = Append(e, x)
  <2>1. PICK x \in EventsType : x.type = "revoke" /\ e \o RevokeEvents(os, r) = Append(e, x)
    BY <1>2
  <2>2. FillsOK(Append(e, x)) /\ Append(e, x) \in Seq(EventsType)
    BY <2>1, FillsAppend
  <2> QED BY <2>1, <2>2
<1> QED BY <1>1, <1>2, RevokeEventsLemma, Zenon
----------------------------------------------------------------------------
(* Which orders meet. *)

\* The order of the other side that a handler looks at is not the incoming one.
LEMMA MakerIsOther ==
  ASSUME IInv, pc # "idle", NEW m \in book, m.side = Opp(cur.side)
  PROVE  m.no # cur.no
<1>1. cur.side \in Sides
  BY DEF IInv, CallInv, Orders
<1> QED BY <1>1 DEF IInv, EntryInv, Opp, Sides

\* Best against best: when the best orders of the two sides reach each other,
\* the one on the incoming order's side is the incoming order.
LEMMA TakerLemma ==
  ASSUME IInv, pc # "idle", NEW t \in book, NEW m \in book, Tops(t, m), Crosses(t, m)
  PROVE  t.no = cur.no /\ t.side = cur.side /\ t.price = cur.price /\ t.form = cur.form
<1>1. cur.side \in Sides /\ m.no # cur.no
  BY MakerIsOther DEF IInv, CallInv, Orders, Tops
<1>2. t.price \in Nat /\ m.price \in Nat
  BY ConstantsOK, Zenon DEF ConstantsOK, IInv, TypeOK, Orders
<1>3. t.no = cur.no
  <2> SUFFICES ASSUME t.no # cur.no PROVE FALSE
    OBVIOUS
  <2>1. CASE cur.side = "buy"
    BY <1>1, <1>2, <2>1 DEF IInv, RestUncrossed, Other, Tops, Opp, Crosses
  <2>2. CASE cur.side = "sell"
    BY <1>1, <1>2, <2>2 DEF IInv, RestUncrossed, Other, Tops, Opp, Crosses
  <2> QED BY <1>1, <2>1, <2>2 DEF Sides
<1> QED BY <1>3 DEF IInv, EntryInv

\* A fill of the incoming order against a resting one, from the book to
\* AfterFill: the properties every continuation needs.
LEMMA FillStep ==
  ASSUME IInv, pc # "idle", NEW t \in book, NEW m \in book,
         t.no = cur.no, m.side = Opp(cur.side),
         cur.form # "market" => Reach(cur.side, cur.price, m.price)
  PROVE  /\ GoodBook(AfterFill(book, t, m))
         /\ \A o \in AfterFill(book, t, m) : \E p \in book : Same(p, o)
         /\ FillsOK(Append(evs, FillEvent(t, m, DealQty(t, m))))
         /\ Append(evs, FillEvent(t, m, DealQty(t, m))) \in Seq(EventsType)
         /\ t.no # m.no
<1>1. m.no # cur.no
  BY MakerIsOther
<1>2. GoodBook(book) /\ evs \in Seq(EventsType) /\ FillsOK(evs)
  BY TypeGood DEF IInv, TypeOK, TakerIsIncoming, FillsOK, FillIdx
<1>3. t \in Orders /\ m \in Orders /\ remaining(t) > 0 /\ remaining(m) > 0
  BY <1>2 DEF GoodBook
<1>4. FillEvent(t, m, DealQty(t, m)) \in EventsType
  BY <1>3, FillEventLemma
<1>5. \E b \in before : b.no = m.no /\ b.price = m.price /\ b.side = m.side
  BY <1>1 DEF IInv, FromBefore
<1>6. FillsOK(Append(evs, FillEvent(t, m, DealQty(t, m))))
      /\ Append(evs, FillEvent(t, m, DealQty(t, m))) \in Seq(EventsType)
  <2> DEFINE x == FillEvent(t, m, DealQty(t, m))
  <2>1. x.taker = cur.no /\ x.maker = m.no /\ x.price = m.price
    BY DEF FillEvent
  <2>2. \E b \in before :
          /\ b.no = x.maker /\ b.price = x.price /\ b.side = Opp(cur.side)
          /\ cur.form # "market" => Reach(cur.side, cur.price, b.price)
    BY <1>5, <2>1, Zenon
  <2> HIDE DEF x
  <2>3. FillsOK(Append(evs, x)) /\ Append(evs, x) \in Seq(EventsType)
    BY <1>2, <1>4, <2>1, <2>2, FillsAppend, Zenon DEF x
  <2> QED BY <2>3 DEF x
<1>7. /\ GoodBook(AfterFill(book, t, m))
      /\ \A o \in AfterFill(book, t, m) : \E p \in book : Same(p, o)
  BY <1>1, <1>2, FillLemma, Zenon
<1> QED BY <1>1, <1>6, <1>7
----------------------------------------------------------------------------
(* The ways a step can end. *)

\* The call goes on in the same loop after a fill.
LEMMA ContinueLemma ==
  ASSUME IInv, pc \in {"limit", "market", "height"}, NEW t \in book, NEW m \in book,
         t.no = cur.no, m.side = Opp(cur.side),
         cur.form # "market" => Reach(cur.side, cur.price, m.price),
         Fill(t, m), fills' \in Nat, UNCHANGED <<pc, cur, firstBb, saved, before>>
  PROVE  IInv'
<1> DEFINE B == AfterFill(book, t, m)
<1>1. /\ book' = B /\ GoodBook(B)
      /\ \A o \in B : \E p \in book : Same(p, o)
      /\ FillsOK(evs') /\ evs' \in Seq(EventsType)
  BY FillStep DEF Fill
<1> HIDE DEF B
<1>2. TypeOK'
  BY <1>1 DEF IInv, TypeOK, GoodBook
<1>3. CallInv' /\ WalkInv' /\ NotWalking'
  BY Zenon DEF IInv, CallInv, WalkInv, NotWalking
<1>4. EntryInv'
  BY <1>1 DEF IInv, EntryInv, Same
<1>5. RestUncrossed'
  BY <1>1 DEF IInv, RestUncrossed, Other, Held, Same
<1>6. NoImmediate'
  BY <1>1 DEF IInv, NoImmediate, MayRest, Other, Held, Same
<1>7. FromBefore'
  BY <1>1 DEF IInv, FromBefore, Held, Same
<1>8. TakerIsIncoming'
  BY <1>1, Zenon DEF TakerIsIncoming, FillsOK, FillIdx
<1> QED BY <1>2, <1>3, <1>4, <1>5, <1>6, <1>7, <1>8, Zenon DEF IInv

\* The call ends with book B, events E.
LEMMA ExitLemma ==
  ASSUME IInv, pc' = "idle", cur' = cur, before' = before,
         firstBb' = firstBb, saved' \subseteq Orders, fills' \in Nat,
         GoodBook(book'), evs' \in Seq(EventsType), FillsOK(evs'),
         \A b, s \in book' : (b.side = "buy" /\ s.side = "sell") => b.price < s.price,
         \A o \in book' : MayRest(o)
  PROVE  IInv'
<1>1. TypeOK'
  BY DEF IInv, TypeOK, GoodBook
<1>2. TakerIsIncoming'
  BY DEF TakerIsIncoming, FillsOK, FillIdx
<1> QED
  BY <1>1, <1>2, Zenon DEF IInv, CallInv, EntryInv, WalkInv, NotWalking, RestUncrossed, NoImmediate, FromBefore, Held

\* The call ends by revoking what is left of the incoming order in book B.
LEMMA RevokeExitLemma ==
  ASSUME IInv, pc # "idle", NEW B, NEW e \in Seq(EventsType), NEW r \in Reasons,
         GoodBook(B), FillsOK(e), \A o \in B : \E p \in book : Same(p, o),
         RevokeCur(B, e, r), pc' = "idle", fills' \in Nat,
         UNCHANGED <<cur, firstBb, saved, before>>
  PROVE  IInv'
<1> DEFINE os == Found(B, cur.no, cur.side)
<1>1. book' = B \ os /\ evs' = e \o RevokeEvents(os, r)
  BY DEF RevokeCur
<1>2. os \subseteq Orders /\ \A o \in os : remaining(o) > 0
  BY Zenon DEF GoodBook, Found
<1>3. \A o \in book' : o \in B /\ o.no # cur.no
  BY <1>1 DEF Found, IInv, EntryInv, Same
<1> HIDE DEF os
<1>4. FillsOK(evs') /\ evs' \in Seq(EventsType)
  BY <1>1, <1>2, FillsRevoke, Zenon
<1>5. GoodBook(book')
  BY <1>3, Zenon DEF GoodBook
<1>6. \A b, s \in book' : (b.side = "buy" /\ s.side = "sell") => b.price < s.price
  BY <1>3 DEF IInv, RestUncrossed, Other, Same
<1>7. \A o \in book' : MayRest(o)
  BY <1>3 DEF IInv, NoImmediate, MayRest, Other, Same
<1>8. saved' \subseteq Orders
  BY DEF IInv, TypeOK
<1> QED BY <1>4, <1>5, <1>6, <1>7, <1>8, ExitLemma, Zenon
----------------------------------------------------------------------------
(* The actions outside the FOK walk. *)

\* Between two orders that meet, Crosses is Reach.
LEMMA CrossesReach ==
  ASSUME NEW t, NEW m, t.side = cur.side, t.price = cur.price, Crosses(t, m)
  PROVE  Reach(cur.side, cur.price, m.price)
BY Zenon DEF Crosses, Reach

\* The engine starts with an empty book.
LEMMA InitInv == Init => IInv
<1> SUFFICES ASSUME Init PROVE IInv
  OBVIOUS
<1>1. evs \in Seq(EventsType) /\ DOMAIN evs = {}
  BY DEF Init
<1> QED
  BY <1>1 DEF Init, IInv, TypeOK, CallInv, EntryInv, WalkInv, NotWalking, RestUncrossed, NoImmediate, FromBefore,
              TakerIsIncoming, FillIdx, Held

\* A call that only removes orders (a revoke, or nothing at all) keeps IInv.
LEMMA OnRevokeInv ==
  ASSUME IInv, NEW n \in OrderNos, NEW s \in Sides, OnRevoke(n, s)
  PROVE  IInv'
<1> DEFINE os == Found(book, n, s)
<1>1. book' = book \ os /\ evs' = RevokeEvents(os, "user") /\ pc = "idle" /\ pc' = "idle"
  BY DEF OnRevoke, StartCall
<1>2. os \subseteq Orders /\ \A o \in os : remaining(o) > 0
  BY DEF IInv, TypeOK, Found
<1> HIDE DEF os
<1>3. evs' \in Seq(EventsType) /\ \A i \in DOMAIN evs' : evs'[i].type # "fill"
  <2> DEFINE e == << >>
  <2>1. e \in Seq(EventsType) /\ e \o RevokeEvents(os, "user") = RevokeEvents(os, "user")
    BY DEF RevokeEvents
  <2>3. \A x \in EventsType : /\ Append(e, x) \in Seq(EventsType)
                              /\ \A i \in DOMAIN Append(e, x) : Append(e, x)[i] = x
    OBVIOUS
  <2>4. DOMAIN e = {}
    OBVIOUS
  <2> HIDE DEF e
  <2>5. "user" \in Reasons
    BY DEF Reasons
  <2>2. \/ RevokeEvents(os, "user") = e
        \/ \E x \in EventsType : x.type = "revoke" /\ RevokeEvents(os, "user") = Append(e, x)
    BY <1>2, <2>1, <2>5, RevokeEventsLemma, Zenon
  <2> QED BY <1>1, <2>1, <2>2, <2>3, <2>4, Zenon
<1>4. TypeOK'
  BY <1>1, <1>3 DEF IInv, TypeOK, OnRevoke, StartCall
<1>5. TakerIsIncoming'
  BY <1>3, Zenon DEF TakerIsIncoming, FillIdx
<1> QED
  BY <1>1, <1>4, <1>5, Zenon DEF IInv, CallInv, EntryInv, WalkInv, NotWalking, RestUncrossed, NoImmediate, FromBefore,
                          Held, Other

\* A duplicate order number changes nothing but the record of the call.
LEMMA RejectInv ==
  ASSUME IInv, NEW n \in OrderNos, RejectDuplicate(n)
  PROVE  IInv'
<1>1. evs' \in Seq(EventsType) /\ DOMAIN evs' = {}
  BY DEF RejectDuplicate
<1> QED
  BY <1>1 DEF IInv, TypeOK, CallInv, EntryInv, WalkInv, NotWalking, RestUncrossed, NoImmediate, FromBefore,
              TakerIsIncoming, FillIdx, Held, Other, RejectDuplicate, StartCall

\* Inserting an order with a new number keeps the other orders as they were.
LEMMA AcceptInv ==
  ASSUME IInv, NEW o \in Incoming, Accept(o)
  PROVE  IInv'
<1> DEFINE a == AsInserted(o)
<1>1. /\ a \in Orders /\ a.no = o.no /\ a.form = o.form /\ remaining(a) > 0
      /\ a.form = "market" => HandlerOf(o.form) = "market"
      /\ a.form = "limit" => HandlerOf(o.form) = "limit"
      /\ a.form \in {"post_only", "ioc", "fok"} => HandlerOf(o.form) = "height"
      /\ a.form \in Forms
  <2>1. /\ o \in [no: OrderNos, side: Sides, form: Forms, price: Prices,
                  time: Times, number: Qtys, consumed: {0}, gear: Gears]
    BY DEF Incoming
  <2>2. a \in Orders /\ a.no = o.no /\ a.form = o.form /\ a.number = o.number /\ a.consumed = 0
    BY <2>1 DEF AsInserted, Orders
  <2>3. o.number \in Qtys
    BY <2>1
  <2>4. o.number \in Nat /\ o.number > 0
    <3>1. o.number \in Nat /\ o.number # 0
      BY <2>3, ConstantsOK, Zenon DEF ConstantsOK
    <3> QED BY <3>1
  <2> QED BY <2>1, <2>2, <2>4 DEF remaining, HandlerOf, Forms
<1>2. /\ pc = "idle" /\ cur' = a /\ book' = book \cup {a} /\ before' = book
      /\ pc' = HandlerOf(o.form) /\ a.no \notin Nos(book) /\ evs' = <<>>
      /\ fills' = 0 /\ firstBb' = NoOrder /\ saved' = {}
  BY <1>1, Zenon DEF Accept, StartCall
<1> HIDE DEF a
<1>3. pc' \in {"limit", "market", "height"}
  BY <1>1, <1>2 DEF Forms
<1>4. evs' \in Seq(EventsType) /\ DOMAIN evs' = {}
  BY <1>2
<1>5. TypeOK'
  BY <1>1, <1>2, <1>3, <1>4, Zenon DEF IInv, TypeOK, Nos
<1>6. CallInv' /\ EntryInv' /\ WalkInv' /\ NotWalking'
  BY <1>1, <1>2, <1>3, Zenon DEF CallInv, EntryInv, WalkInv, NotWalking, Nos, Forms
<1>7. RestUncrossed' /\ NoImmediate' /\ FromBefore'
  BY <1>1, <1>2, <1>3, Zenon DEF IInv, RestUncrossed, NoImmediate, FromBefore, Held, Other, Nos
<1>8. TakerIsIncoming'
  BY <1>4 DEF TakerIsIncoming, FillIdx
<1> QED BY <1>5, <1>6, <1>7, <1>8, Zenon DEF IInv

\* The limit loop: it stops only on an uncrossed book, and its fills are the
\* incoming order's.
LEMMA LimitInv ==
  ASSUME IInv, LimitStop \/ LimitFill
  PROVE  IInv'
<1>1. pc = "limit" /\ cur \in Orders /\ cur.form = "limit" /\ cur.side \in Sides
  BY DEF LimitStop, LimitFill, IInv, CallInv, Orders
<1>2. \A o \in book : o.price \in Nat
  BY ConstantsOK, Zenon DEF ConstantsOK, IInv, TypeOK, Orders
<1>3. CASE LimitStop
  <2>1. \A b, s \in book : (b.side = "buy" /\ s.side = "sell") => b.price < s.price
    <3>1. CASE OwnEmpty \/ OppEmpty
      BY <1>1, <3>1 DEF OwnEmpty, OppEmpty, SideOf, Opp, Sides
    <3>2. CASE \E t, m \in book : Tops(t, m) /\ ~Crosses(t, m)
      <4> SUFFICES ASSUME NEW b \in book, NEW s \in book, b.side = "buy", s.side = "sell"
                   PROVE  b.price < s.price
        OBVIOUS
      <4>1. PICK t \in book, m \in book : Tops(t, m) /\ ~Crosses(t, m)
        BY <3>2, Zenon
      <4>2. /\ \A p \in book : p.side = t.side => p = t \/ Precedes(t, p)
            /\ \A p \in book : p.side = m.side => p = m \/ Precedes(m, p)
        BY <4>1 DEF Tops, IsFirst, SideOf, IInv, TypeOK
      <4>3. CASE cur.side = "buy"
        <5>1. t.side = "buy" /\ m.side = "sell" /\ t.price < m.price
          BY <4>1, <4>3, <1>2 DEF Tops, Crosses, Opp
        <5>2. b.price <= t.price /\ m.price <= s.price
          BY <4>2, <5>1, <1>2 DEF Precedes
        <5> QED BY <5>1, <5>2, <1>2
      <4>4. CASE cur.side = "sell"
        <5>1. t.side = "sell" /\ m.side = "buy" /\ m.price < t.price
          BY <4>1, <4>4, <1>2 DEF Tops, Crosses, Opp
        <5>2. b.price <= m.price /\ t.price <= s.price
          BY <4>2, <5>1, <1>2 DEF Precedes
        <5> QED BY <5>1, <5>2, <1>2
      <4> QED BY <1>1, <4>3, <4>4 DEF Sides
    <3> QED BY <1>3, <3>1, <3>2, Zenon DEF LimitStop
  <2>2. \A o \in book : MayRest(o)
    BY <1>1, Zenon DEF IInv, NoImmediate, MayRest, EntryInv, Other
  <2>3. GoodBook(book) /\ evs \in Seq(EventsType) /\ FillsOK(evs) /\ saved \subseteq Orders /\ fills \in Nat
    BY TypeGood, Zenon DEF IInv, TypeOK, TakerIsIncoming, FillsOK, FillIdx
  <2> QED BY <1>3, <2>1, <2>2, <2>3, ExitLemma, Zenon DEF LimitStop, BreakUnchanged, Break
<1>4. CASE LimitFill
  <2>1. PICK t \in book, m \in book : Tops(t, m) /\ Crosses(t, m) /\ Fill(t, m)
    BY <1>4, Zenon DEF LimitFill
  <2>2. t.no = cur.no /\ t.side = cur.side /\ t.price = cur.price
    BY <1>1, <2>1, TakerLemma, Zenon
  <2>3. Reach(cur.side, cur.price, m.price)
    BY <2>1, <2>2, CrossesReach, Zenon
  <2>4. m.side = Opp(cur.side) /\ fills' \in Nat /\ UNCHANGED <<pc, cur, firstBb, saved, before>>
    BY <1>4, <2>1, Zenon DEF LimitFill, Again, Tops, IInv, TypeOK
  <2> QED BY <1>1, <2>1, <2>2, <2>3, <2>4, ContinueLemma, Zenon
<1> QED BY <1>3, <1>4, Zenon

\* The book as it is is good to end a call with, apart from what it is about.
LEMMA SameBook ==
  ASSUME IInv
  PROVE  /\ GoodBook(book) /\ evs \in Seq(EventsType) /\ FillsOK(evs)
         /\ saved \subseteq Orders /\ fills \in Nat
         /\ \A o \in book : \E p \in book : Same(p, o)
BY TypeGood, Zenon DEF IInv, TypeOK, TakerIsIncoming, FillsOK, FillIdx, Same

\* A call that ends with the incoming order still in the book leaves it
\* uncrossed when that order does not reach past a better-placed one of its side.
LEMMA BehindBest ==
  ASSUME IInv, pc # "idle", NEW t \in book, NEW m \in book, Tops(t, m), t.no # cur.no
  PROVE  \A b, s \in book : (b.side = "buy" /\ s.side = "sell") => b.price < s.price
<1>1. cur.side \in Sides
  BY DEF IInv, CallInv, Orders
<1>2. \A o \in book : o.price \in Nat
  BY ConstantsOK, Zenon DEF ConstantsOK, IInv, TypeOK, Orders
<1>3. \A p \in book : p.side = t.side => p = t \/ Precedes(t, p)
  BY DEF Tops, IsFirst, SideOf, IInv, TypeOK
<1> SUFFICES ASSUME NEW b \in book, NEW s \in book, b.side = "buy", s.side = "sell"
             PROVE  b.price < s.price
  OBVIOUS
<1>4. CASE cur.side = "buy"
  <2>1. s.no # cur.no
    BY <1>4, MakerIsOther, Zenon DEF Opp
  <2>2. t.side = "buy" /\ t.price < s.price
    BY <1>4, <2>1, Zenon DEF Tops, IInv, RestUncrossed, Other
  <2>3. b.price <= t.price
    BY <1>2, <1>3, <2>2 DEF Precedes
  <2> QED BY <1>2, <2>2, <2>3
<1>5. CASE cur.side = "sell"
  <2>1. b.no # cur.no
    BY <1>5, MakerIsOther, Zenon DEF Opp
  <2>2. t.side = "sell" /\ b.price < t.price
    BY <1>5, <2>1 DEF Tops, IInv, RestUncrossed, Other
  <2>3. t.price <= s.price
    BY <1>2, <1>3, <2>2 DEF Precedes
  <2> QED BY <1>2, <2>2, <2>3
<1> QED BY <1>1, <1>4, <1>5, Zenon DEF Sides

\* The own side of the book is empty: what is left does not cross.
LEMMA OwnSideEmpty ==
  ASSUME IInv, pc # "idle", OwnEmpty \/ cur.no \notin Nos(book)
  PROVE  /\ \A b, s \in book : (b.side = "buy" /\ s.side = "sell") => b.price < s.price
         /\ \A o \in book : MayRest(o)
<1>1. \A o \in book : o.no # cur.no
  BY DEF OwnEmpty, SideOf, Nos, IInv, EntryInv
<1> QED BY <1>1 DEF IInv, RestUncrossed, NoImmediate, Other

\* The market loops: every exit revokes the incoming order, finds it gone or
\* leaves it behind a better order of its side.
LEMMA MarketInv ==
  ASSUME IInv,
         \/ MarketOwnEmpty \/ MarketEmpty \/ MarketNotBest \/ MarketBlocked
         \/ MarketFill \/ MarketFillGear
  PROVE  IInv'
<1>1. pc = "market" /\ cur \in Orders /\ cur.form = "market"
  BY DEF MarketOwnEmpty, MarketEmpty, MarketNotBest, MarketBlocked, MarketFill, MarketFillGear,
         MayMarketFill, IInv, CallInv
<1>2. CASE MarketOwnEmpty
  BY <1>1, <1>2, OwnSideEmpty, SameBook, ExitLemma, Zenon DEF MarketOwnEmpty, BreakUnchanged, Break
<1>3. CASE MarketNotBest
  <2>1. PICK t \in book, m \in book : Tops(t, m) /\ t.form # "market"
    BY <1>3 DEF MarketNotBest
  <2>2. t.no # cur.no
    BY <1>1, <2>1, Zenon DEF IInv, EntryInv
  <2>3. \A b, s \in book : (b.side = "buy" /\ s.side = "sell") => b.price < s.price
    BY <1>1, <2>1, <2>2, BehindBest, Zenon
  <2>4. \A o \in book : MayRest(o)
    <3> SUFFICES ASSUME NEW o \in book, o.no = cur.no, PricesBelow, o.side = "buy"
                 PROVE  FALSE
      BY <1>1, Zenon DEF IInv, NoImmediate, MayRest, EntryInv, Other
    <3>1. o.form = "market" /\ t.side = "buy"
      BY <1>1, <2>1 DEF IInv, EntryInv, Tops
    <3>2. o.price = MarketBuyTrustPrice /\ t.price \in Prices /\ t.price \in Nat
      BY <2>1, <3>1, ConstantsOK, Zenon DEF ConstantsOK, IInv, TypeOK, Orders
    <3>3. Precedes(t, o)
      BY <2>1, <2>2, <3>1, Zenon DEF Tops, IsFirst, SideOf
    <3> QED BY <3>1, <3>2, <3>3, ConstantsOK DEF ConstantsOK, Precedes, PricesBelow
  <2> QED BY <1>3, <2>3, <2>4, SameBook, ExitLemma, Zenon DEF MarketNotBest, BreakUnchanged, Break
<1>4. "market_empty" \in Reasons /\ "market_blocked" \in Reasons /\ "market_gear" \in Reasons
  BY Zenon DEF Reasons
<1>5. CASE MarketEmpty
  BY <1>1, <1>4, <1>5, SameBook, RevokeExitLemma, Zenon DEF MarketEmpty, Break
<1>6. CASE MarketBlocked
  BY <1>1, <1>4, <1>6, SameBook, RevokeExitLemma, Zenon DEF MarketBlocked, Break
<1>7. CASE MarketFill
  <2>1. PICK t \in book, m \in book : MayMarketFill(t, m) /\ Fill(t, m)
    BY <1>7, Zenon DEF MarketFill
  <2>2. t.no = cur.no /\ m.side = Opp(cur.side)
    BY <2>1, Zenon DEF MayMarketFill, Tops
  <2>3. fills' \in Nat /\ UNCHANGED <<pc, cur, firstBb, saved, before>>
    BY <1>7 DEF MarketFill, IInv, TypeOK
  <2> QED BY <1>1, <2>1, <2>2, <2>3, ContinueLemma, Zenon
<1>8. CASE MarketFillGear
  <2>1. PICK t \in book, m \in book :
          /\ MayMarketFill(t, m)
          /\ RevokeCur(AfterFill(book, t, m), Append(evs, FillEvent(t, m, DealQty(t, m))), "market_gear")
    BY <1>8, Zenon DEF MarketFillGear
  <2>2. t.no = cur.no /\ m.side = Opp(cur.side)
    BY <2>1, Zenon DEF MayMarketFill, Tops
  <2>3. fills' \in Nat /\ pc' = "idle" /\ UNCHANGED <<cur, firstBb, saved, before>>
    BY <1>8 DEF MarketFillGear, IInv, TypeOK
  <2> DEFINE B == AfterFill(book, t, m)
             e == Append(evs, FillEvent(t, m, DealQty(t, m)))
  <2>4. /\ GoodBook(B) /\ \A o \in B : \E p \in book : Same(p, o)
        /\ FillsOK(e) /\ e \in Seq(EventsType)
    BY <1>1, <2>2, FillStep, Zenon
  <2>5. RevokeCur(B, e, "market_gear")
    BY <2>1
  <2> HIDE DEF B, e
  <2> QED BY <1>1, <1>4, <2>3, <2>4, <2>5, RevokeExitLemma, Zenon
<1> QED BY <1>2, <1>3, <1>5, <1>6, <1>7, <1>8, Zenon

\* PostOnly, IOC and the entry of FOK.
LEMMA HeightInv ==
  ASSUME IInv,
         \/ PostOnlyRevoke \/ PostOnlyRest \/ HeightOppEmpty \/ IocFilled
         \/ HeightRevoke \/ IocFill \/ FokStart
  PROVE  IInv'
<1>1. pc = "height" /\ cur \in Orders /\ cur.side \in Sides
  BY DEF PostOnlyRevoke, PostOnlyRest, HeightOppEmpty, IocFilled, HeightRevoke, IocFill, FokStart,
         IInv, CallInv, Orders
<1>2. "post_only" \in Reasons /\ IocOrFokReason \in Reasons
  BY Zenon DEF Reasons, IocOrFokReason
<1>3. CASE PostOnlyRevoke
  BY <1>1, <1>2, <1>3, SameBook, RevokeExitLemma, Zenon DEF PostOnlyRevoke, Break
<1>4. CASE HeightOppEmpty
  BY <1>1, <1>2, <1>4, SameBook, RevokeExitLemma, Zenon DEF HeightOppEmpty, Break
<1>5. CASE HeightRevoke
  BY <1>1, <1>2, <1>5, SameBook, RevokeExitLemma, Zenon DEF HeightRevoke, Break
<1>6. CASE IocFilled
  BY <1>1, <1>6, OwnSideEmpty, SameBook, ExitLemma, Zenon DEF IocFilled, BreakUnchanged, Break
<1>7. CASE PostOnlyRest
  <2>1. \A b, s \in book : (b.side = "buy" /\ s.side = "sell") => b.price < s.price
    <3> SUFFICES ASSUME NEW b \in book, NEW s \in book, b.side = "buy", s.side = "sell"
                 PROVE  b.price < s.price
      OBVIOUS
    <3>1. PICK m \in book : m.side = Opp(cur.side) /\ IsFirst(book, m) /\ ~Crosses(cur, m)
      BY <1>1, <1>7, Zenon DEF PostOnlyRest, OppEmpty, SideOf, Opp, Sides
    <3>2. \A p \in book : p.side = m.side => p = m \/ Precedes(m, p)
      BY <3>1 DEF IsFirst, SideOf, IInv, TypeOK
    <3>3. \A o \in book : o.price \in Nat
      BY ConstantsOK, Zenon DEF ConstantsOK, IInv, TypeOK, Orders
    <3>4. cur.price \in Nat
      BY <1>1, ConstantsOK, Zenon DEF ConstantsOK, Orders
    <3>5. CASE cur.side = "buy"
      <4>1. m.side = "sell" /\ cur.price < m.price /\ m.price <= s.price
        BY <3>1, <3>2, <3>3, <3>4, <3>5 DEF Crosses, Opp, Precedes
      <4>2. b.no = cur.no => b.price = cur.price
        BY <1>1 DEF IInv, EntryInv
      <4>3. s.no # cur.no
        BY <1>1, <3>5, MakerIsOther, Zenon DEF Opp
      <4>4. b.no # cur.no => b.price < s.price
        BY <4>3, Zenon DEF IInv, RestUncrossed, Other
      <4> QED BY <3>3, <3>4, <4>1, <4>2, <4>4
    <3>6. CASE cur.side = "sell"
      <4>1. m.side = "buy" /\ m.price < cur.price /\ b.price <= m.price
        BY <3>1, <3>2, <3>3, <3>4, <3>6 DEF Crosses, Opp, Precedes
      <4>2. s.no = cur.no => s.price = cur.price
        BY <1>1, Zenon DEF IInv, EntryInv
      <4>3. b.no # cur.no
        BY <1>1, <3>6, MakerIsOther, Zenon DEF Opp
      <4>4. s.no # cur.no => b.price < s.price
        BY <4>3, Zenon DEF IInv, RestUncrossed, Other
      <4> QED BY <3>3, <3>4, <4>1, <4>2, <4>4
    <3> QED BY <1>1, <3>5, <3>6 DEF Sides
  <2>2. \A o \in book : MayRest(o)
    BY <1>1, <1>7, Zenon DEF PostOnlyRest, IInv, NoImmediate, MayRest, EntryInv, Other
  <2> QED BY <1>7, <2>1, <2>2, SameBook, ExitLemma, Zenon DEF PostOnlyRest, BreakUnchanged, Break
<1>8. CASE IocFill
  <2>1. PICK t \in book, m \in book : Tops(t, m) /\ Crosses(t, m) /\ Fill(t, m)
    BY <1>8, Zenon DEF IocFill
  <2>2. t.no = cur.no /\ t.side = cur.side /\ t.price = cur.price
    BY <1>1, <2>1, TakerLemma, Zenon
  <2>3. Reach(cur.side, cur.price, m.price)
    BY <2>1, <2>2, CrossesReach, Zenon
  <2>4. m.side = Opp(cur.side) /\ fills' \in Nat /\ UNCHANGED <<pc, cur, firstBb, saved, before>>
    BY <1>8, <2>1, Zenon DEF IocFill, Again, Tops, IInv, TypeOK
  <2> QED BY <1>1, <2>1, <2>2, <2>3, <2>4, ContinueLemma, Zenon
<1>9. CASE FokStart
  <2>1. PICK t \in book, m \in book : Tops(t, m) /\ Crosses(t, m) /\ firstBb' = t
    BY <1>9, Zenon DEF FokStart
  <2>2. t.no = cur.no /\ t.side = cur.side
    BY <1>1, <2>1, TakerLemma, Zenon
  <2>3. /\ saved = {} /\ pc' = "fok" /\ cur.form = "fok"
        /\ UNCHANGED <<book, cur, fills, saved, evs, before>>
    BY <1>1, <1>9, Zenon DEF FokStart, IInv, NotWalking
  <2>4. TypeOK'
    BY <2>1, <2>3, Zenon DEF IInv, TypeOK
  <2>5. CallInv' /\ EntryInv' /\ WalkInv' /\ NotWalking'
    BY <1>1, <2>1, <2>2, <2>3, Zenon DEF IInv, CallInv, EntryInv, WalkInv, NotWalking
  <2>6. RestUncrossed' /\ NoImmediate' /\ FromBefore'
    BY <1>1, <2>3, Zenon DEF IInv, RestUncrossed, NoImmediate, FromBefore, Held, Other, MayRest, PricesBelow
  <2>7. TakerIsIncoming'
    BY <2>3, Zenon DEF IInv, TakerIsIncoming, FillIdx
  <2> QED BY <2>4, <2>5, <2>6, <2>7, Zenon DEF IInv
<1> QED BY <1>3, <1>4, <1>5, <1>6, <1>7, <1>8, <1>9, Zenon
----------------------------------------------------------------------------
(* The FOK walk. *)

\* rollback_fok_*: the makers the walk took go back next to the orders it did
\* not touch, and the walked order leaves, so nothing crosses.
LEMMA RollbackLemma ==
  ASSUME IInv, pc = "fok", NEW B, NEW S, GoodBook(B), S \subseteq book \cup saved,
         \A o \in S : o.side = Opp(cur.side) /\ remaining(o) > 0 /\ o.no # cur.no,
         \A o, p \in S : o.no = p.no => o = p,
         \A o \in B : \E p \in book : Same(p, o),
         FokRollback(B, S), saved' \subseteq Orders,
         UNCHANGED <<cur, fills, firstBb, before>>
  PROVE  IInv'
<1> DEFINE r == Restored(B, S)
           os == Found(r, cur.no, cur.side)
           e == << >>
<1>1. book' = r \ os /\ evs' = e \o RevokeEvents(os, "fok_fail") /\ pc' = "idle"
  <2>1. firstBb.no = cur.no /\ firstBb.side = cur.side
    BY Zenon DEF IInv, WalkInv
  <2>2. book' = r \ os /\ evs' = RevokeEvents(os, "fok_fail") /\ pc' = "idle"
    BY <2>1 DEF FokRollback
  <2> HIDE DEF os
  <2>3. e \o RevokeEvents(os, "fok_fail") = RevokeEvents(os, "fok_fail")
    <3> DEFINE x == RevokeEvent(CHOOSE o \in os : TRUE, "fok_fail")
    <3>1. RevokeEvents(os, "fok_fail") \in {<< >>, <<x>>}
      BY Zenon DEF RevokeEvents
    <3> HIDE DEF x
    <3>2. << >> \o << >> = << >> /\ << >> \o <<x>> = <<x>>
      OBVIOUS
    <3> QED BY <3>1, <3>2, Zenon
  <2> QED BY <2>2, <2>3, Zenon
<1>2. e \in Seq(EventsType) /\ FillsOK(e)
  BY DEF FillsOK
<1>3. S \subseteq Orders
  BY Zenon DEF IInv, TypeOK
<1>4. GoodBook(r)
  BY <1>3, Zenon DEF GoodBook, Restored, Nos
<1>5. os \subseteq Orders /\ \A o \in os : remaining(o) > 0
  BY <1>4, Zenon DEF GoodBook, Found
<1>6. \A o \in r : \E p \in book \cup saved : Same(p, o)
  BY Zenon DEF Restored, Same
<1>7. \A o \in book' : o \in r /\ o.no # cur.no
  <2> SUFFICES ASSUME NEW o \in book', o.no = cur.no PROVE FALSE
    BY <1>1, Zenon
  <2>1. o \in B /\ o \in r /\ o \notin os
    BY <1>1, Zenon DEF Restored
  <2>2. o.side = cur.side
    <3>1. PICK p \in book : Same(p, o)
      BY <2>1, Zenon
    <3>2. p.side = cur.side
      BY <3>1, Zenon DEF IInv, EntryInv, Same
    <3> QED BY <3>1, <3>2, Zenon DEF Same
  <2> QED BY <2>1, <2>2, Zenon DEF Found
<1> HIDE DEF r, os, e
<1>8. "fok_fail" \in Reasons
  BY Zenon DEF Reasons
<1>9. FillsOK(evs') /\ evs' \in Seq(EventsType)
  BY <1>1, <1>2, <1>5, <1>8, FillsRevoke, Zenon
<1>10. GoodBook(book')
  BY <1>4, <1>7, Zenon DEF GoodBook
<1>11. \A b, s \in book' : (b.side = "buy" /\ s.side = "sell") => b.price < s.price
  BY <1>6, <1>7 DEF IInv, RestUncrossed, Held, Other, Same
<1>12. \A o \in book' : MayRest(o)
  BY <1>6, <1>7 DEF IInv, NoImmediate, Held, Other, Same, MayRest
<1>13. fills' \in Nat
  BY DEF IInv, TypeOK
<1> QED BY <1>1, <1>9, <1>10, <1>11, <1>12, <1>13, ExitLemma, Zenon

\* One step of the walk: it ends in a rollback, in a full fill, or goes on with
\* one more maker held.
LEMMA FokInv ==
  ASSUME IInv, FokFill \/ FokPriceGap
  PROVE  IInv'
<1>1. pc = "fok" /\ cur \in Orders /\ cur.form = "fok" /\ cur.side \in Sides
  BY Zenon DEF FokFill, FokPriceGap, WalkTops, IInv, CallInv, Orders
<1>2. CASE FokPriceGap
  BY <1>1, <1>2, SameBook, RollbackLemma, ZenonT(30) DEF FokPriceGap, IInv, WalkInv
<1>3. CASE FokFill
  <2> DEFINE B(t, m) == AfterFill(book, t, m)
             More(t, m) == remaining(t) > DealQty(t, m)
  <2>1. PICK t \in book, m \in book :
          /\ WalkTops(t, m) /\ Crosses(t, m)
          /\ \/ More(t, m) /\ SideOf(B(t, m), m.side) = {} /\ FokRollback(B(t, m), saved \cup {m})
             \/ ~(More(t, m) /\ SideOf(B(t, m), m.side) = {}) /\ Fill(t, m)
                /\ pc' = IF More(t, m) THEN "fok" ELSE "idle"
          /\ saved' = saved \cup {m}
    BY <1>3, ZenonT(30) DEF FokFill
  <2> DEFINE b == AfterFill(book, t, m)
             S == saved \cup {m}
  <2>2. UNCHANGED <<cur, fills, firstBb, before>> /\ saved' = S
    BY <1>3, <2>1, Zenon DEF FokFill
  <2>3. t.no = cur.no /\ t.side = cur.side /\ m.side = Opp(cur.side) /\ t.price = cur.price
    BY <1>1, <2>1, Zenon DEF WalkTops, IInv, WalkInv, EntryInv
  <2>4. Reach(cur.side, cur.price, m.price) /\ m.no # cur.no
    BY <1>1, <2>1, <2>3, CrossesReach, MakerIsOther, ZenonT(30)
  <2>5. /\ GoodBook(b) /\ \A o \in b : \E p \in book : Same(p, o)
        /\ FillsOK(Append(evs, FillEvent(t, m, DealQty(t, m))))
        /\ Append(evs, FillEvent(t, m, DealQty(t, m))) \in Seq(EventsType)
    BY <1>1, <2>3, <2>4, FillStep, ZenonT(30)
  <2>6. /\ remaining(t) <= DealQty(t, m) => t.no \notin Nos(b)
        /\ remaining(m) <= DealQty(t, m) => m.no \notin Nos(b)
    BY <2>3, <2>4, FillLemma, TypeGood, Zenon DEF IInv
  <2>7. t \in Orders /\ m \in Orders /\ remaining(t) > 0 /\ remaining(m) > 0
    BY Zenon DEF IInv, TypeOK
  <2>8. /\ DealQty(t, m) \in Nat /\ remaining(t) \in Nat /\ remaining(m) \in Nat
        /\ DealQty(t, m) = remaining(t) \/ DealQty(t, m) = remaining(m)
    BY <2>7, DealLemma, Zenon
  <2>9. /\ S \subseteq book \cup saved /\ S \subseteq Orders
        /\ \A o \in S : o.side = Opp(cur.side) /\ remaining(o) > 0 /\ o.no # cur.no
        /\ \A o, p \in S : o.no = p.no => o = p
    <3>1. \A o \in saved : /\ o.side = Opp(cur.side) /\ remaining(o) > 0 /\ o.no # cur.no
                           /\ o.no # m.no
      BY <1>1 DEF IInv, WalkInv, Nos
    <3>2. \A o, p \in saved : o.no = p.no => o = p
      BY <1>1, Zenon DEF IInv, WalkInv
    <3>3. saved \subseteq Orders
      BY Zenon DEF IInv, TypeOK
    <3>4. \A o \in S : o.side = Opp(cur.side) /\ remaining(o) > 0 /\ o.no # cur.no
      BY <2>3, <2>4, <2>7, <3>1, Zenon
    <3>5. \A o, p \in S : o.no = p.no => o = p
      BY <3>1, <3>2, Zenon
    <3> QED BY <2>7, <3>3, <3>4, <3>5, Zenon
  <2>10. \/ FokRollback(b, S)
         \/ book' = b /\ evs' = Append(evs, FillEvent(t, m, DealQty(t, m))) /\ More(t, m) /\ pc' = "fok"
         \/ book' = b /\ evs' = Append(evs, FillEvent(t, m, DealQty(t, m))) /\ ~More(t, m) /\ pc' = "idle"
    BY <2>1, Zenon DEF Fill
  <2> HIDE DEF b, S
  <2>11. CASE FokRollback(b, S)
    BY <1>1, <2>2, <2>5, <2>9, <2>11, RollbackLemma, SMTT(30)
  <2>12. CASE /\ book' = b /\ evs' = Append(evs, FillEvent(t, m, DealQty(t, m)))
              /\ ~More(t, m) /\ pc' = "idle"
    <3>1. \A o \in b : o.no # cur.no
      BY <2>3, <2>6, <2>8, <2>12 DEF Nos
    <3>2. \A x, y \in b : (x.side = "buy" /\ y.side = "sell") => x.price < y.price
      BY <2>5, <3>1 DEF IInv, RestUncrossed, Other, Same
    <3>3. \A o \in b : MayRest(o)
      BY <2>5, <3>1 DEF IInv, NoImmediate, Other, Same, MayRest
    <3>4. fills' \in Nat
      BY <2>2, Zenon DEF IInv, TypeOK
    <3> QED BY <2>2, <2>5, <2>9, <2>12, <3>2, <3>3, <3>4, ExitLemma, ZenonT(30)
  <2>13. CASE /\ book' = b /\ evs' = Append(evs, FillEvent(t, m, DealQty(t, m)))
              /\ More(t, m) /\ pc' = "fok"
    <3>1. m.no \notin Nos(b)
      BY <2>6, <2>8, <2>13
    <3>2. TypeOK'
      BY <2>2, <2>5, <2>9, <2>13, Zenon DEF IInv, TypeOK, GoodBook
    <3>3. CallInv' /\ EntryInv' /\ NotWalking'
      <4>1. CallInv' /\ NotWalking'
        BY <1>1, <2>2, <2>13, Zenon DEF CallInv, NotWalking
      <4>2. EntryInv
        BY Zenon DEF IInv
      <4>3. EntryInv'
        <5>1. ASSUME NEW o \in b, o.no = cur.no
              PROVE  o.side = cur.side /\ o.price = cur.price /\ o.form = cur.form
          <6>1. PICK p \in book : Same(p, o)
            BY <2>5, Zenon
          <6> QED BY <1>1, <4>2, <5>1, <6>1, Zenon DEF EntryInv, Same
        <5> QED BY <2>2, <2>13, <5>1, Zenon DEF EntryInv
      <4> QED BY <4>1, <4>3, Zenon
    <3>4. \A o \in S : o.no \notin Nos(b)
      <4> SUFFICES ASSUME NEW o \in S, NEW q \in b, q.no = o.no PROVE FALSE
        BY Zenon DEF Nos
      <4>1. PICK p \in book : Same(p, q)
        BY <2>5, Zenon
      <4>2. CASE o = m
        BY <3>1, <4>2, Zenon DEF Nos
      <4>3. CASE o \in saved
        BY <1>1, <4>1, <4>3 DEF IInv, WalkInv, Nos, Same
      <4> QED BY <4>2, <4>3 DEF S
    <3>5. WalkInv'
      BY <1>1, <2>2, <2>9, <2>13, <3>4, Zenon DEF IInv, WalkInv
    <3>6. \A o \in (book \cup Held)' : \E p \in book \cup Held : Same(p, o)
      <4>1. (book \cup Held)' = b \cup S /\ book \cup Held = book \cup saved
        BY <1>1, <2>2, <2>13, Zenon DEF Held
      <4>2. ASSUME NEW o \in S PROVE \E p \in book \cup saved : Same(p, o)
        BY <2>9 DEF Same
      <4>3. ASSUME NEW o \in b PROVE \E p \in book \cup saved : Same(p, o)
        BY <2>5, Zenon
      <4> QED BY <4>1, <4>2, <4>3, Zenon
    <3>7. RestUncrossed'
      BY <1>1, <2>2, <2>13, <3>6 DEF IInv, RestUncrossed, Other, Same
    <3>8. NoImmediate'
      BY <1>1, <2>2, <2>13, <3>6 DEF IInv, NoImmediate, Other, Same, MayRest, PricesBelow
    <3>9. FromBefore'
      BY <1>1, <2>2, <2>13, <3>6 DEF IInv, FromBefore, Same
    <3>10. TakerIsIncoming'
      BY <2>2, <2>5, <2>13, Zenon DEF TakerIsIncoming, FillsOK, FillIdx
    <3> QED BY <3>2, <3>3, <3>5, <3>7, <3>8, <3>9, <3>10, Zenon DEF IInv
  <2> QED BY <2>10, <2>11, <2>12, <2>13, Zenon
<1> QED BY <1>2, <1>3
----------------------------------------------------------------------------
(* The theorems. *)

\* Every step of the engine keeps the inductive invariant.
LEMMA NextInv == IInv /\ [Next]_vars => IInv'
<1> SUFFICES ASSUME IInv, [Next]_vars PROVE IInv'
  OBVIOUS
<1>1. CASE OnOrder
  BY <1>1, OnRevokeInv, RejectInv, AcceptInv, Zenon DEF OnOrder
<1>2. CASE Step
  BY <1>2, LimitInv, MarketInv, HeightInv, FokInv, Zenon DEF Step
<1>3. CASE UNCHANGED vars
  <2>1. TypeOK' /\ CallInv' /\ EntryInv'
    <3>1. TypeOK'
      BY <1>3, Zenon DEF vars, IInv, TypeOK
    <3>2. CallInv'
      BY <1>3, Zenon DEF vars, IInv, CallInv
    <3>3. EntryInv'
      BY <1>3, Zenon DEF vars, IInv, EntryInv
    <3> QED BY <3>1, <3>2, <3>3
  <2>2. WalkInv' /\ NotWalking'
    BY <1>3, Zenon DEF vars, IInv, WalkInv, NotWalking
  <2>3. Held' = Held /\ \A o : Other(o)' <=> Other(o)
    BY <1>3, Zenon DEF vars, Held, Other
  <2>4. RestUncrossed' /\ FromBefore'
    BY <1>3, <2>3, Zenon DEF vars, IInv, RestUncrossed, FromBefore
  <2>5. NoImmediate'
    BY <1>3, <2>3, Zenon DEF vars, IInv, NoImmediate, MayRest, PricesBelow
  <2>6. TakerIsIncoming'
    BY <1>3 DEF vars, IInv, TakerIsIncoming, FillIdx
  <2> QED BY <2>1, <2>2, <2>4, <2>5, <2>6, Zenon DEF IInv
<1> QED BY <1>1, <1>2, <1>3, Zenon DEF Next

\* The inductive invariant holds in every state of every behaviour.
THEOREM Invariant == Spec => []IInv
BY InitInv, NextInv, PTL DEF Spec

\* on_order keeps the book well-formed: every resting order has a positive
\* remainder and its order number is its own; the events are well-formed.
THEOREM TypeCorrect == Spec => []TypeOK
<1>1. IInv => TypeOK
  BY Zenon DEF IInv
<1> QED BY <1>1, Invariant, PTL

\* Between two on_order calls the book is uncrossed, whatever mix of limit,
\* market, PostOnly, IOC and FOK orders and revokes came before.
THEOREM UncrossedAlways == Spec => []Uncrossed
<1>1. IInv => Uncrossed
  BY Zenon DEF IInv, RestUncrossed, Uncrossed, Other, SideOf
<1> QED BY <1>1, Invariant, PTL

\* Although the loops match best against best, every fill of a call has the
\* order of that call as its taker, a maker that rested before it, and the
\* maker's price, within the taker's limit.
THEOREM TakerIsAlwaysIncoming == Spec => []TakerIsIncoming
<1>1. IInv => TakerIsIncoming
  BY DEF IInv
<1> QED BY <1>1, Invariant, PTL

\* No IOC or FOK order, and no market buy as long as order prices stay below
\* MARKET_BUY_TRUST_PRICE, is in the book between calls.
THEOREM ImmediateNeverRestsAlways ==
  ASSUME PricesBelow
  PROVE  Spec => []ImmediateNeverRests
<1>1. IInv => ImmediateNeverRests
  BY DEF IInv, NoImmediate, MayRest, ImmediateNeverRests, Other
<1> QED BY <1>1, Invariant, PTL
----------------------------------------------------------------------------
(* How much of an order the reported fills traded. *)

\* A set of numbers has a least one.
LEMMA NatMin ==
  ASSUME NEW T \in SUBSET Nat, T # {}
  PROVE  \E n \in T : \A m \in T : n <= m
<1>1. PICK n \in T : \A m \in T : ~(<<m, n>> \in OpToRel(<, Nat))
  BY NatLessThanWellFounded, WFMin, Zenon
<1>2. \A m \in T : ~(m < n)
  BY <1>1, Zenon DEF OpToRel
<1> QED BY <1>2

\* Induction, for sets of numbers.
LEMMA SetInduction ==
  ASSUME NEW S \in SUBSET Nat, 0 \in S, \A n \in S : n + 1 \in S
  PROVE  S = Nat
<1> SUFFICES ASSUME Nat \ S # {} PROVE FALSE
  BY Zenon
<1>1. PICK n \in Nat \ S : \A m \in Nat \ S : n <= m
  BY NatMin, Zenon
<1>2. n # 0 /\ n - 1 \in Nat /\ n - 1 \in S
  BY <1>1
<1> QED BY <1>1, <1>2

\* g holds the running totals of d up to n.
IsTotal(g, n, d) == g = [i \in 0..n |-> IF i = 0 THEN 0 ELSE g[i - 1] + d[i]]

\* Running totals exist.
LEMMA TotalExists ==
  ASSUME NEW d \in [Nat -> Nat]
  PROVE  \A n \in Nat : \E g \in [0..n -> Nat] : IsTotal(g, n, d)
<1> DEFINE S == {n \in Nat : \E g \in [0..n -> Nat] : IsTotal(g, n, d)}
<1>1. 0 \in S
  <2> DEFINE z == [i \in 0..0 |-> 0]
  <2>1. z \in [0..0 -> Nat]
    OBVIOUS
  <2>2. \A i \in 0..0 : i = 0
    OBVIOUS
  <2>3. z = [i \in 0..0 |-> IF i = 0 THEN 0 ELSE z[i - 1] + d[i]]
    BY <2>2
  <2> HIDE DEF z
  <2>4. IsTotal(z, 0, d)
    BY <2>3 DEF IsTotal
  <2> QED BY <2>1, <2>4, Zenon
<1>2. ASSUME NEW n \in S PROVE n + 1 \in S
  <2>1. PICK g \in [0..n -> Nat] : IsTotal(g, n, d)
    BY Zenon
  <2>2. n \in Nat /\ n \in 0..n
    OBVIOUS
  <2> HIDE DEF S
  <2> DEFINE h == [i \in 0..(n + 1) |-> IF i = n + 1 THEN g[n] + d[n + 1] ELSE g[i]]
  <2>3. h \in [0..(n + 1) -> Nat]
    <3>1. g[n] \in Nat
      BY <2>1, <2>2, Zenon
    <3>6. n + 1 \in Nat
      BY ONLY <2>2
    <3>4. d[n + 1] \in Nat
      BY <3>6, Zenon
    <3>5. \A a, b \in Nat : a + b \in Nat
      OBVIOUS
    <3>3. g[n] + d[n + 1] \in Nat
      BY <3>1, <3>4, <3>5, Zenon
    <3>2. \A i \in 0..(n + 1) : i # n + 1 => i \in 0..n
      BY <2>2
    <3> QED BY <2>1, <3>2, <3>3, Zenon
  <2>4. \A i \in 0..n : h[i] = g[i]
    BY <2>2
  <2>5. h[n + 1] = g[n] + d[n + 1]
    BY <2>2
  <2>6. ASSUME NEW i \in 0..(n + 1) PROVE h[i] = IF i = 0 THEN 0 ELSE h[i - 1] + d[i]
    <3>1. CASE i = n + 1
      <4>1. i # 0 /\ i - 1 = n /\ n \in 0..n
        BY <2>2, <3>1
      <4>2. h[n] = g[n]
        BY <2>4, <4>1, Zenon
      <4> HIDE DEF h
      <4> QED BY <2>5, <3>1, <4>1, <4>2, Zenon
    <3>2. CASE i = 0
      <4>1. i \in 0..n
        BY <2>2, <3>2
      <4>2. g[i] = 0
        BY <2>1, <3>2, <4>1, Zenon DEF IsTotal
      <4> HIDE DEF h
      <4> QED BY <2>4, <3>2, <4>1, <4>2, Zenon
    <3>3. CASE i # n + 1 /\ i # 0
      <4>1. i \in 0..n /\ i - 1 \in 0..n
        BY <2>2, <3>3
      <4>2. g[i] = g[i - 1] + d[i]
        BY <2>1, <3>3, <4>1, Zenon DEF IsTotal
      <4> HIDE DEF h
      <4> QED BY <2>4, <3>3, <4>1, <4>2, Zenon
    <3> QED BY <3>1, <3>2, <3>3, Zenon
  <2>7. h = [i \in 0..(n + 1) |-> h[i]]
    BY <2>3
  <2> HIDE DEF h
  <2>8. IsTotal(h, n + 1, d)
    <3>1. h = [i \in 0..(n + 1) |-> IF i = 0 THEN 0 ELSE h[i - 1] + d[i]]
      BY <2>6, <2>7, Zenon
    <3> QED BY <3>1, Zenon DEF IsTotal
  <2>9. n + 1 \in Nat
    BY <2>2
  <2> QED BY <2>3, <2>8, <2>9, Zenon DEF S
<1>3. S = Nat
  <2> HIDE DEF S
  <2>1. S \in SUBSET Nat
    BY Zenon DEF S
  <2> QED BY <1>1, <1>2, <2>1, SetInduction
<1> QED BY <1>3, Zenon

\* There is only one.
LEMMA TotalUnique ==
  ASSUME NEW d \in [Nat -> Nat]
  PROVE  \A m, n \in Nat : \A g, h :
           (m <= n /\ IsTotal(g, m, d) /\ IsTotal(h, n, d)) => g[m] = h[m]
<1> SUFFICES ASSUME NEW m \in Nat, NEW n \in Nat, NEW g, NEW h,
                    m <= n, IsTotal(g, m, d), IsTotal(h, n, d)
             PROVE  g[m] = h[m]
  BY Zenon
<1> DEFINE S == {k \in Nat : k <= m => g[k] = h[k]}
<1>1. 0 \in S
  BY DEF IsTotal
<1>2. ASSUME NEW k \in S PROVE k + 1 \in S
  <2> SUFFICES ASSUME k + 1 <= m PROVE g[k + 1] = h[k + 1]
    OBVIOUS
  <2>1. k \in Nat /\ k + 1 \in 0..m /\ k + 1 \in 0..n /\ k + 1 # 0 /\ (k + 1) - 1 = k /\ k <= m
    OBVIOUS
  <2>2. g[k + 1] = g[k] + d[k + 1] /\ h[k + 1] = h[k] + d[k + 1]
    BY <2>1, Zenon DEF IsTotal
  <2> QED BY <2>1, <2>2, Zenon
<1>3. S = Nat
  <2> HIDE DEF S
  <2>1. S \in SUBSET Nat
    BY Zenon DEF S
  <2> QED BY <1>1, <1>2, <2>1, SetInduction, Zenon
<1> QED BY <1>3

\* What each event traded of n, as a function on the numbers.
TradedAt(e, n) == [i \in Nat |-> IF i \in 1..Len(e) THEN Traded(e[i], n) ELSE 0]

\* An event trades a natural number.
LEMMA TradedNat ==
  ASSUME NEW x \in EventsType, NEW n
  PROVE  Traded(x, n) \in Nat
BY DEF EventsType, Traded

\* What every event of a list traded of an order is a natural number.
LEMMA TradedAtType ==
  ASSUME NEW e \in Seq(EventsType), NEW n
  PROVE  TradedAt(e, n) \in [Nat -> Nat]
<1>1. \A i \in 1..Len(e) : e[i] \in EventsType
  OBVIOUS
<1>2. \A i \in 1..Len(e) : Traded(e[i], n) \in Nat
  BY <1>1, TradedNat
<1> QED BY <1>2, Zenon DEF TradedAt

\* Filled is the last running total.
LEMMA FilledIsTotal ==
  ASSUME NEW e \in Seq(EventsType), NEW n
  PROVE  \E g \in [0..Len(e) -> Nat] : IsTotal(g, Len(e), TradedAt(e, n)) /\ Filled(e, n) = g[Len(e)]
<1> DEFINE d == TradedAt(e, n)
           F(f) == [i \in 0..Len(e) |-> IF i = 0 THEN 0 ELSE f[i - 1] + Traded(e[i], n)]
           sum == CHOOSE f : f = F(f)
<1>0. d \in [Nat -> Nat] /\ Len(e) \in Nat
  BY TradedAtType
<1>1. PICK g \in [0..Len(e) -> Nat] : IsTotal(g, Len(e), d)
  <2> HIDE DEF d
  <2> QED BY <1>0, TotalExists, Zenon
<1>2. ASSUME NEW f PROVE f = F(f) <=> IsTotal(f, Len(e), d)
  <2>1. \A i \in 0..Len(e) : i # 0 => d[i] = Traded(e[i], n)
    BY <1>0 DEF TradedAt
  <2> HIDE DEF d
  <2>2. F(f) = [i \in 0..Len(e) |-> IF i = 0 THEN 0 ELSE f[i - 1] + d[i]]
    BY <2>1, Zenon
  <2> HIDE DEF F
  <2> QED BY <2>2, Zenon DEF IsTotal
<1>3. g = F(g)
  BY <1>1, <1>2, Zenon
<1>4. sum = F(sum)
  <2> HIDE DEF F
  <2> QED BY <1>3, Zenon
<1>5. IsTotal(sum, Len(e), d)
  <2> HIDE DEF sum, F
  <2> QED BY <1>2, <1>4, Zenon
<1>6. Filled(e, n) = sum[Len(e)]
  BY DEF Filled
<1>7. sum[Len(e)] = g[Len(e)]
  <2> HIDE DEF sum, F, d
  <2>1. Len(e) <= Len(e)
    BY <1>0
  <2>2. PICK k : k = Len(e)
    OBVIOUS
  <2>3. k \in Nat /\ k <= k
    BY <1>0, <2>2
  <2>4. IsTotal(g, k, d) /\ IsTotal(sum, k, d)
    BY <1>1, <1>5, <2>2, Zenon
  <2>5. d \in [Nat -> Nat]
    BY <1>0, Zenon
  <2>6. \A m, q \in Nat : \A u, v : (m <= q /\ IsTotal(u, m, d) /\ IsTotal(v, q, d)) => u[m] = v[m]
    BY <2>5, TotalUnique, Zenon
  <2>7. sum[k] = g[k]
    BY <2>3, <2>4, <2>6, Zenon
  <2> QED BY <2>2, <2>7, Zenon
<1> QED BY <1>1, <1>6, <1>7, Zenon

\* What fills traded is a natural number.
LEMMA FilledNat ==
  ASSUME NEW e \in Seq(EventsType), NEW n
  PROVE  Filled(e, n) \in Nat
<1>1. PICK g \in [0..Len(e) -> Nat] : Filled(e, n) = g[Len(e)]
  BY FilledIsTotal, Zenon
<1>2. Len(e) \in Nat
  OBVIOUS
<1> QED BY <1>1, <1>2

\* Nothing is traded by no event.
LEMMA FilledNone == \A n : Filled(<<>>, n) = 0
<1> SUFFICES ASSUME NEW n PROVE Filled(<<>>, n) = 0
  OBVIOUS
<1>1. <<>> \in Seq(EventsType) /\ Len(<<>>) = 0
  OBVIOUS
<1>2. PICK g \in [0..0 -> Nat] : IsTotal(g, 0, TradedAt(<<>>, n)) /\ Filled(<<>>, n) = g[0]
  BY <1>1, FilledIsTotal, Zenon
<1>3. 0 \in 0..0
  OBVIOUS
<1> QED BY <1>2, <1>3, Zenon DEF IsTotal

\* One more event adds what it traded.
LEMMA FilledAppend ==
  ASSUME NEW e \in Seq(EventsType), NEW x \in EventsType, NEW n
  PROVE  Filled(Append(e, x), n) = Filled(e, n) + Traded(x, n)
<1> DEFINE a == Append(e, x)
           L == Len(e)
<1>1. a \in Seq(EventsType) /\ Len(a) = L + 1 /\ L \in Nat /\ a[L + 1] = x /\ \A i \in 1..L : a[i] = e[i]
  OBVIOUS
<1>2. PICK g \in [0..L -> Nat] : IsTotal(g, L, TradedAt(e, n)) /\ Filled(e, n) = g[L]
  BY FilledIsTotal, Zenon
<1> HIDE DEF a
<1>3. PICK h \in [0..(L + 1) -> Nat] : IsTotal(h, L + 1, TradedAt(a, n)) /\ Filled(a, n) = h[L + 1]
  BY <1>1, FilledIsTotal, Zenon
<1> DEFINE d == TradedAt(a, n)
<1>4. d \in [Nat -> Nat]
  BY <1>1, TradedAtType, Zenon
<1>5. \A i \in 1..L : TradedAt(e, n)[i] = d[i]
  BY <1>1 DEF TradedAt
<1>6. d[L + 1] = Traded(x, n)
  BY <1>1 DEF TradedAt
<1> HIDE DEF d, L
<1>7. IsTotal(g, L, d)
  <2>1. [i \in 0..L |-> IF i = 0 THEN 0 ELSE g[i - 1] + TradedAt(e, n)[i]]
        = [i \in 0..L |-> IF i = 0 THEN 0 ELSE g[i - 1] + d[i]]
    BY <1>1, <1>5
  <2> QED BY <1>2, <2>1, Zenon DEF IsTotal
<1>8. g[L] = h[L]
  <2>1. L <= L + 1 /\ L + 1 \in Nat
    BY <1>1
  <2>2. PICK k : k = L + 1
    BY Zenon
  <2>3. IsTotal(h, k, d)
    BY <1>3, <2>2, Zenon DEF d
  <2>4. L \in Nat /\ k \in Nat /\ L <= k
    BY <1>1, <2>1, <2>2, Zenon
  <2>5. PICK l : l = L
    BY Zenon
  <2>6. l \in Nat /\ k \in Nat /\ l <= k /\ IsTotal(g, l, d)
    BY <1>7, <2>4, <2>5, Zenon
  <2>7. PICK f : f = d
    OBVIOUS
  <2>8. f \in [Nat -> Nat] /\ IsTotal(g, l, f) /\ IsTotal(h, k, f)
    BY <1>4, <2>3, <2>6, <2>7, Zenon
  <2>9. \A m, q \in Nat : \A u, v :
          (m <= q /\ IsTotal(u, m, f) /\ IsTotal(v, q, f)) => u[m] = v[m]
    BY <2>8, TotalUnique, Zenon
  <2>10. g[l] = h[l]
    BY <2>6, <2>8, <2>9, Zenon
  <2> QED BY <2>5, <2>10, Zenon
<1>9. h[L + 1] = h[L] + d[L + 1]
  <2>1. L + 1 \in 0..(L + 1) /\ L + 1 # 0 /\ (L + 1) - 1 = L
    BY <1>1
  <2> QED BY <1>3, <2>1, Zenon DEF IsTotal, d
<1> QED BY <1>2, <1>3, <1>6, <1>8, <1>9, Zenon DEF a, L
----------------------------------------------------------------------------
(* What a list of events leaves of the orders a call could touch. *)

\* The orders the events of e revoke.
RevokedIn(e) == {e[i].no : i \in {j \in DOMAIN e : e[j].type # "fill"}}

\* What the fills and revokes among e leave of the orders os.
LeftOf(os, e) ==
  {Consume(o, Filled(e, o.no)) :
     o \in {x \in os : x.no \notin RevokedIn(e) /\ Filled(e, x.no) < remaining(x)}}

\* A revoke reports what the fills left of its order.
RevokesTrue(os, e) ==
  \A i \in DOMAIN e : e[i].type # "fill" => \A o \in os :
    (e[i].no = o.no /\ o.form # "fok") => e[i].remaining = remaining(o) - Filled(e, o.no)

\* What Consume changes: consumer_all_number, and so what remains.
LEMMA ConsumeFields ==
  ASSUME NEW o \in Orders, NEW q \in Nat
  PROVE  /\ Consume(o, q).no = o.no /\ Consume(o, q).side = o.side
         /\ Consume(o, q).form = o.form /\ Consume(o, q).price = o.price
         /\ Consume(o, q).time = o.time /\ Consume(o, q).number = o.number
         /\ remaining(o) \in Int
         /\ remaining(Consume(o, q)) = remaining(o) - q
         /\ Consume(o, 0) = o
         /\ \A p \in Nat : Consume(Consume(o, q), p) = Consume(o, q + p)
<1>1. o.consumed \in Nat /\ o.number \in Nat
  BY ConstantsOK, Zenon DEF ConstantsOK, Orders
<1>2. o \in [no: OrderNos, side: Sides, form: Forms, price: Prices \cup {MarketBuyTrustPrice},
             time: Times, number: Qtys, consumed: Nat, gear: Gears]
  BY DEF Orders
<1>3. \A p \in Nat : Consume(o, p) =
        [no |-> o.no, side |-> o.side, form |-> o.form, price |-> o.price,
         time |-> o.time, number |-> o.number, consumed |-> o.consumed + p, gear |-> o.gear]
  BY <1>2 DEF Consume
<1>4. Consume(o, 0) = o
  BY <1>1, <1>2 DEF Consume
<1>5. ASSUME NEW p \in Nat PROVE Consume(Consume(o, q), p) = Consume(o, q + p)
  <2>1. q + p \in Nat /\ (o.consumed + q) + p = o.consumed + (q + p)
    BY <1>1
  <2>2. PICK x : x = Consume(o, q)
    BY Zenon
  <2>3. x = [no |-> o.no, side |-> o.side, form |-> o.form, price |-> o.price,
             time |-> o.time, number |-> o.number, consumed |-> o.consumed + q, gear |-> o.gear]
    BY <1>3, <2>2, Zenon
  <2>4. Consume(x, p) = [no |-> o.no, side |-> o.side, form |-> o.form, price |-> o.price,
             time |-> o.time, number |-> o.number, consumed |-> (o.consumed + q) + p, gear |-> o.gear]
    BY <2>3 DEF Consume
  <2>5. Consume(o, q + p) = [no |-> o.no, side |-> o.side, form |-> o.form, price |-> o.price,
             time |-> o.time, number |-> o.number, consumed |-> o.consumed + (q + p), gear |-> o.gear]
    BY <1>3, <2>1, Zenon
  <2> QED BY <2>1, <2>2, <2>4, <2>5, Zenon
<1>6. /\ Consume(o, q).no = o.no /\ Consume(o, q).side = o.side
      /\ Consume(o, q).form = o.form /\ Consume(o, q).price = o.price
      /\ Consume(o, q).time = o.time /\ Consume(o, q).number = o.number
      /\ Consume(o, q).consumed = o.consumed + q
  BY <1>3
<1>7. remaining(o) \in Int /\ remaining(Consume(o, q)) = remaining(o) - q
  BY <1>1, <1>6 DEF remaining
<1> QED BY <1>4, <1>5, <1>6, <1>7, Zenon

\* Where an order of the book comes from.
LEMMA LeftElement ==
  ASSUME NEW I, GoodBook(I), NEW e \in Seq(EventsType), NEW t \in LeftOf(I, e)
  PROVE  \E u \in I : /\ t = Consume(u, Filled(e, u.no)) /\ u.no \notin RevokedIn(e)
                      /\ Filled(e, u.no) < remaining(u) /\ Filled(e, u.no) \in Nat
                      /\ u \in Orders /\ u.no = t.no /\ u.side = t.side /\ u.price = t.price
                      /\ u.time = t.time /\ u.form = t.form
                      /\ remaining(u) \in Int /\ remaining(t) = remaining(u) - Filled(e, u.no)
<1>1. PICK u \in I : /\ t = Consume(u, Filled(e, u.no)) /\ u.no \notin RevokedIn(e)
                     /\ Filled(e, u.no) < remaining(u)
  BY Zenon DEF LeftOf
<1>2. u \in Orders /\ Filled(e, u.no) \in Nat
  BY FilledNat, Zenon DEF GoodBook
<1>3. PICK f \in Nat : f = Filled(e, u.no)
  BY <1>2, Zenon
<1>4. t = Consume(u, f)
  BY <1>1, <1>3, Zenon
<1>5. /\ u.no = t.no /\ u.side = t.side /\ u.price = t.price /\ u.time = t.time /\ u.form = t.form
      /\ remaining(u) \in Int /\ remaining(t) = remaining(u) - f
  BY <1>2, <1>4, ConsumeFields, Zenon
<1> QED BY <1>1, <1>2, <1>3, <1>5, Zenon

\* What a book keeps of an order.
LEMMA LeftMember ==
  ASSUME NEW I, NEW e, NEW u \in I, u.no \notin RevokedIn(e), Filled(e, u.no) < remaining(u)
  PROVE  Consume(u, Filled(e, u.no)) \in LeftOf(I, e)
BY Zenon DEF LeftOf

\* One more event: what it revokes.
LEMMA RevokedAppend ==
  ASSUME NEW e \in Seq(EventsType), NEW x \in EventsType
  PROVE  RevokedIn(Append(e, x)) = RevokedIn(e) \cup (IF x.type = "fill" THEN {} ELSE {x.no})
<1> DEFINE a == Append(e, x)
<1>1. Len(e) \in Nat /\ DOMAIN a = 1..(Len(e) + 1) /\ DOMAIN e = 1..Len(e)
  OBVIOUS
<1>2. a[Len(e) + 1] = x /\ \A i \in 1..Len(e) : a[i] = e[i]
  OBVIOUS
<1> HIDE DEF a
<1>3. \A i \in 1..(Len(e) + 1) : i \in 1..Len(e) \/ i = Len(e) + 1
  BY <1>1
<1>4. Len(e) + 1 \in 1..(Len(e) + 1) /\ \A i \in 1..Len(e) : i \in 1..(Len(e) + 1)
  BY <1>1
<1>5. RevokedIn(a) \subseteq RevokedIn(e) \cup (IF x.type = "fill" THEN {} ELSE {x.no})
  BY <1>1, <1>2, <1>3, Zenon DEF RevokedIn
<1>6. RevokedIn(e) \subseteq RevokedIn(a)
  BY <1>1, <1>2, <1>4, Zenon DEF RevokedIn
<1>7. x.type # "fill" => x.no \in RevokedIn(a)
  BY <1>1, <1>2, <1>4, Zenon DEF RevokedIn
<1> QED BY <1>5, <1>6, <1>7, Zenon DEF a

\* A fill reported is a fill made: AfterFill of what the events left is what
\* the events with that fill leave.
LEMMA LeftFill ==
  ASSUME NEW I, GoodBook(I), NEW e \in Seq(EventsType), NEW b, b = LeftOf(I, e), GoodBook(b),
         NEW t \in b, NEW m \in b, t.no # m.no
  PROVE  /\ AfterFill(b, t, m) = LeftOf(I, Append(e, FillEvent(t, m, DealQty(t, m))))
         /\ \A n : Filled(Append(e, FillEvent(t, m, DealQty(t, m))), n)
                   = Filled(e, n) + (IF n \in {t.no, m.no} THEN DealQty(t, m) ELSE 0)
         /\ RevokedIn(Append(e, FillEvent(t, m, DealQty(t, m)))) = RevokedIn(e)
<1>1. /\ t \in Orders /\ m \in Orders /\ remaining(t) > 0 /\ remaining(m) > 0
  BY Zenon DEF GoodBook
<1>2. PICK x \in EventsType : x = FillEvent(t, m, DealQty(t, m))
  BY <1>1, FillEventLemma, Zenon
<1>3. PICK q \in Nat : q = DealQty(t, m) /\ q > 0
  BY <1>1, DealLemma, Zenon
<1>4. x.type = "fill" /\ \A n : Traded(x, n) = IF n \in {t.no, m.no} THEN q ELSE 0
  BY <1>2, <1>3 DEF FillEvent, Traded
<1>5. PICK a \in Seq(EventsType) : a = Append(e, x)
  <2>1. Append(e, x) \in Seq(EventsType)
    OBVIOUS
  <2> QED BY <2>1, Zenon
<1>6. \A n : Filled(a, n) = Filled(e, n) + (IF n \in {t.no, m.no} THEN q ELSE 0)
  <2> SUFFICES ASSUME NEW n PROVE Filled(a, n) = Filled(e, n) + (IF n \in {t.no, m.no} THEN q ELSE 0)
    OBVIOUS
  <2>1. Filled(a, n) = Filled(e, n) + Traded(x, n)
    BY <1>2, <1>5, FilledAppend, Zenon
  <2> QED BY <1>4, <2>1, Zenon
<1>7. RevokedIn(a) = RevokedIn(e)
  <2>1. RevokedIn(Append(e, x)) = RevokedIn(e) \cup (IF x.type = "fill" THEN {} ELSE {x.no})
    BY RevokedAppend, Zenon
  <2> QED BY <1>4, <1>5, <2>1, Zenon
<1>8. PICK u \in I : /\ t = Consume(u, Filled(e, u.no)) /\ u.no \notin RevokedIn(e)
                     /\ Filled(e, u.no) \in Nat /\ u \in Orders /\ u.no = t.no
                     /\ remaining(u) \in Int /\ remaining(t) = remaining(u) - Filled(e, u.no)
  BY LeftElement
<1>9. PICK w \in I : /\ m = Consume(w, Filled(e, w.no)) /\ w.no \notin RevokedIn(e)
                     /\ Filled(e, w.no) \in Nat /\ w \in Orders /\ w.no = m.no
                     /\ remaining(w) \in Int /\ remaining(m) = remaining(w) - Filled(e, w.no)
  BY LeftElement
<1>10. Filled(a, u.no) = Filled(e, u.no) + q /\ Filled(a, w.no) = Filled(e, w.no) + q
  BY <1>6, <1>8, <1>9, Zenon
<1>11. Consume(t, q) = Consume(u, Filled(a, u.no)) /\ Consume(m, q) = Consume(w, Filled(a, w.no))
  <2>1. PICK fu \in Nat, fw \in Nat : fu = Filled(e, u.no) /\ fw = Filled(e, w.no)
    BY <1>8, <1>9, Zenon
  <2>2. Consume(Consume(u, fu), q) = Consume(u, fu + q)
    BY <1>8, ConsumeFields, Zenon
  <2>3. Consume(Consume(w, fw), q) = Consume(w, fw + q)
    BY <1>9, ConsumeFields, Zenon
  <2> QED BY <1>8, <1>9, <1>10, <2>1, <2>2, <2>3, Zenon
<1>12. /\ remaining(t) > q <=> Filled(a, u.no) < remaining(u)
       /\ remaining(m) > q <=> Filled(a, w.no) < remaining(w)
  <2>1. PICK fu \in Nat, fw \in Nat : fu = Filled(e, u.no) /\ fw = Filled(e, w.no)
    BY <1>8, <1>9
  <2>2. PICK ru \in Int, rw \in Int : ru = remaining(u) /\ rw = remaining(w)
    BY <1>8, <1>9, Zenon
  <2>3. /\ remaining(t) = ru - fu /\ remaining(m) = rw - fw
        /\ Filled(a, u.no) = fu + q /\ Filled(a, w.no) = fw + q
    BY <1>8, <1>9, <1>10, <2>1, <2>2, Zenon
  <2> QED BY <2>2, <2>3
<1>13. ASSUME NEW o \in I, o.no \notin {t.no, m.no}
       PROVE  Filled(a, o.no) = Filled(e, o.no)
  <2>1. Filled(e, o.no) \in Nat
    BY FilledNat, Zenon
  <2> QED BY <1>6, <1>13, <2>1
<1> DEFINE B == AfterFill(b, t, m)
<1>14. \A y : y \in B <=> \/ y \in b /\ y # t /\ y # m
                          \/ y = Consume(t, q) /\ remaining(t) > q
                          \/ y = Consume(m, q) /\ remaining(m) > q
  BY <1>3, Zenon DEF AfterFill
<1> HIDE DEF B
<1>15. ASSUME NEW y \in B PROVE y \in LeftOf(I, a)
  <2>1. CASE y \in b /\ y # t /\ y # m
    <3>1. PICK o \in I : /\ y = Consume(o, Filled(e, o.no)) /\ o.no \notin RevokedIn(e)
                         /\ Filled(e, o.no) < remaining(o) /\ o.no = y.no
      BY <2>1, LeftElement
    <3>2. o.no \notin {t.no, m.no}
      BY <2>1, <3>1, Zenon DEF GoodBook
    <3>3. Filled(a, o.no) = Filled(e, o.no)
      BY <1>13, <3>2, Zenon
    <3> QED BY <1>7, <3>1, <3>3, LeftMember, Zenon
  <2>2. CASE y = Consume(t, q) /\ remaining(t) > q
    BY <1>7, <1>8, <1>11, <1>12, <2>2, LeftMember, Zenon
  <2>3. CASE y = Consume(m, q) /\ remaining(m) > q
    BY <1>7, <1>9, <1>11, <1>12, <2>3, LeftMember, Zenon
  <2> QED BY <1>14, <2>1, <2>2, <2>3, Zenon
<1>16. ASSUME NEW y \in LeftOf(I, a) PROVE y \in B
  <2>1. PICK o \in I : /\ y = Consume(o, Filled(a, o.no)) /\ o.no \notin RevokedIn(a)
                       /\ Filled(a, o.no) < remaining(o) /\ o.no = y.no
    BY LeftElement
  <2>2. CASE o.no = t.no
    <3>1. o = u
      BY <1>8, <2>2, Zenon DEF GoodBook
    <3> QED BY <1>11, <1>12, <1>14, <2>1, <3>1, Zenon
  <2>3. CASE o.no = m.no
    <3>1. o = w
      BY <1>9, <2>3, Zenon DEF GoodBook
    <3> QED BY <1>11, <1>12, <1>14, <2>1, <3>1, Zenon
  <2>4. CASE o.no \notin {t.no, m.no}
    <3>1. Filled(a, o.no) = Filled(e, o.no)
      BY <1>13, <2>4, Zenon
    <3>2. y \in b
      BY <1>7, <2>1, <3>1, LeftMember, Zenon
    <3>3. y # t /\ y # m
      BY <2>1, <2>4, Zenon
    <3> QED BY <1>14, <3>2, <3>3, Zenon
  <2> QED BY <2>2, <2>3, <2>4, Zenon
<1>17. B = LeftOf(I, a)
  BY <1>15, <1>16, Zenon
<1> QED BY <1>2, <1>3, <1>5, <1>6, <1>7, <1>17, Zenon DEF B

\* After the events e, which left b of the orders I, those of a revoke the order
\* that remove_by_order_no finds in b, and change nothing else.
RevokeMade(I, b, n, s, e, a) ==
  /\ b \ Found(b, n, s) = LeftOf(I, a)
  /\ RevokesTrue(I, a)
  /\ \A k : Filled(a, k) = Filled(e, k)
  /\ RevokedIn(a) = RevokedIn(e) \cup Nos(Found(b, n, s))
  /\ \A i \in DOMAIN a : a[i].type = "fill" => i \in DOMAIN e /\ a[i] = e[i]

\* A revoke reported is a revoke made: what is left without the order that
\* remove_by_order_no found is what the events with its revoke leave.
LEMMA LeftRevoke ==
  ASSUME NEW I, NEW e \in Seq(EventsType), NEW b, NEW n, NEW s, NEW r \in Reasons, NEW a,
         GoodBook(I), b = LeftOf(I, e), GoodBook(b), RevokesTrue(I, e),
         a = e \o RevokeEvents(Found(b, n, s), r)
  PROVE  RevokeMade(I, b, n, s, e, a)
<1> USE DEF RevokeMade
<1> DEFINE os == Found(b, n, s)
<1>1. os \subseteq b /\ \A o, p \in os : o = p
  BY Zenon DEF Found, GoodBook
<1>2. CASE os = {}
  <2>1. a = e
    <3>1. e \o <<>> = e
      BY ONLY e \in Seq(EventsType)
    <3> QED BY <1>2, <3>1, Zenon DEF RevokeEvents
  <2> HIDE DEF os
  <2>2. b \ os = b /\ Nos(os) = {}
    BY <1>2, Zenon DEF Nos
  <2> QED BY <2>1, <2>2, Zenon DEF os
<1>3. CASE os # {}
  <2>1. PICK o \in b : os = {o}
    BY <1>1, <1>3
  <2>2. o \in Orders /\ remaining(o) > 0
    BY Zenon DEF GoodBook
  <2>3. PICK x : x = RevokeEvent(o, r)
    BY Zenon
  <2>4. /\ x \in EventsType /\ x.type = "revoke" /\ x.no = o.no /\ x.remaining = remaining(o)
    <3>1. remaining(o) \in Nat
      BY <2>2, DealLemma, Zenon
    <3>2. o.no \in OrderNos
      BY <2>2, Zenon DEF Orders
    <3> QED BY <2>3, <3>1, <3>2, Zenon DEF RevokeEvent, EventsType, Reasons
  <2>5. a = Append(e, x)
    <3>1. RevokeEvents(os, r) = <<x>>
      <4> HIDE DEF os
      <4>1. (CHOOSE p \in os : TRUE) = o
        BY <2>1, Zenon
      <4> QED BY <1>3, <2>3, <4>1, Zenon DEF RevokeEvents
    <3>2. e \o <<x>> = Append(e, x)
      BY <2>4
    <3> QED BY <3>1, <3>2, Zenon
  <2> HIDE DEF os
  <2>6. a \in Seq(EventsType) /\ Len(e) \in Nat /\ DOMAIN e = 1..Len(e) /\ DOMAIN a = 1..(Len(e) + 1)
        /\ a[Len(e) + 1] = x /\ \A i \in 1..Len(e) : a[i] = e[i]
    BY <2>4, <2>5
  <2>7. \A k : Filled(a, k) = Filled(e, k)
    <3> SUFFICES ASSUME NEW k PROVE Filled(a, k) = Filled(e, k)
      BY Zenon
    <3>1. Filled(a, k) = Filled(e, k) + Traded(x, k)
      BY <2>4, <2>5, FilledAppend, Zenon
    <3>2. Traded(x, k) = 0 /\ Filled(e, k) \in Nat
      BY <2>4, FilledNat, Zenon DEF Traded
    <3> QED BY <3>1, <3>2
  <2>8. RevokedIn(a) = RevokedIn(e) \cup {o.no}
    BY <2>4, <2>5, RevokedAppend, Zenon
  <2>9. PICK u \in I : /\ o = Consume(u, Filled(e, u.no)) /\ u.no \notin RevokedIn(e)
                       /\ u.no = o.no /\ remaining(o) = remaining(u) - Filled(e, u.no)
    BY LeftElement
  <2>10. RevokesTrue(I, a)
    <3> SUFFICES ASSUME NEW i \in DOMAIN a, a[i].type # "fill", NEW p \in I,
                        a[i].no = p.no, p.form # "fok"
                 PROVE  a[i].remaining = remaining(p) - Filled(a, p.no)
      BY Zenon DEF RevokesTrue
    <3>1. CASE i \in 1..Len(e)
      BY <2>6, <2>7, <3>1 DEF RevokesTrue
    <3>2. CASE i = Len(e) + 1
      <4>0. p.no = u.no
        BY <2>4, <2>6, <2>9, <3>2, Zenon
      <4>1. p = u
        BY <4>0, Zenon DEF GoodBook
      <4> QED BY <2>4, <2>6, <2>7, <2>9, <3>2, <4>1, Zenon
    <3>3. i \in 1..Len(e) \/ i = Len(e) + 1
      BY ONLY <2>6, i \in DOMAIN a
    <3> QED BY <3>1, <3>2, <3>3, Zenon
  <2>11. ASSUME NEW y \in b \ {o} PROVE y \in LeftOf(I, a)
    <3>1. PICK p \in I : /\ y = Consume(p, Filled(e, p.no)) /\ p.no \notin RevokedIn(e)
                         /\ Filled(e, p.no) < remaining(p) /\ p.no = y.no
      BY LeftElement
    <3>2. p.no # o.no
      BY <3>1 DEF GoodBook
    <3> QED BY <2>7, <2>8, <3>1, <3>2, LeftMember, Zenon
  <2>12. ASSUME NEW y \in LeftOf(I, a) PROVE y \in b \ {o}
    <3>1. PICK p \in I : /\ y = Consume(p, Filled(a, p.no)) /\ p.no \notin RevokedIn(a)
                         /\ Filled(a, p.no) < remaining(p) /\ p.no = y.no
      <4>1. PICK c \in Seq(EventsType) : c = a
        BY <2>6, Zenon
      <4>2. y \in LeftOf(I, c)
        BY <4>1, Zenon
      <4>3. \E p \in I : /\ y = Consume(p, Filled(c, p.no)) /\ p.no \notin RevokedIn(c)
                         /\ Filled(c, p.no) < remaining(p) /\ p.no = y.no
        BY <4>2, LeftElement
      <4> QED BY <4>1, <4>3, Zenon
    <3>2. y # o
      BY <2>8, <3>1, Zenon
    <3> QED BY <2>7, <2>8, <3>1, <3>2, LeftMember, Zenon
  <2>13. b \ os = LeftOf(I, a)
    BY <2>1, <2>11, <2>12, Zenon
  <2>14. Nos(os) = {o.no}
    BY <2>1, Zenon DEF Nos
  <2>15. \A i \in DOMAIN a : a[i].type = "fill" => i \in DOMAIN e /\ a[i] = e[i]
    BY <2>4, <2>6
  <2> QED BY <2>7, <2>8, <2>10, <2>13, <2>14, <2>15, Zenon DEF os
<1> QED BY <1>2, <1>3, Zenon
----------------------------------------------------------------------------
(* What a FOK order could take: Total over a finite side of a book. *)

\* A finite set of orders of one side that can be in a book together.
OneSide(os) ==
  /\ GoodBook(os) /\ IsFiniteSet(os)
  /\ \A o, p \in os : o.side = p.side

\* The order of s that sorts before all others.
FirstOf(s) == CHOOSE x \in s : IsFirst(s, x)

\* f adds up what remains of the orders of every set in D, best order first.
IsSum(f, D) ==
  f = [s \in D |-> IF s = {} THEN 0 ELSE remaining(FirstOf(s)) + f[s \ {FirstOf(s)}]]

\* Part of a side is a side.
LEMMA OneSidePart ==
  ASSUME NEW os, OneSide(os), NEW s \in SUBSET os
  PROVE  OneSide(s) /\ Cardinality(s) \in Nat /\ Cardinality(s) <= Cardinality(os)
<1>1. IsFiniteSet(s) /\ Cardinality(s) <= Cardinality(os)
  BY FS_Subset, Zenon DEF OneSide
<1>2. Cardinality(s) \in Nat
  BY <1>1, FS_CardinalityType, Zenon
<1> QED BY <1>1, <1>2, Zenon DEF OneSide, GoodBook

\* Precedes is a strict order.
LEMMA PrecedesOneWay ==
  ASSUME NEW o \in Orders, NEW p \in Orders, o.side = p.side, Precedes(o, p)
  PROVE  ~Precedes(p, o) /\ o # p
<1>1. o.price \in Nat /\ p.price \in Nat /\ o.time \in Int /\ p.time \in Int /\ o.no \in Int /\ p.no \in Int
  BY ConstantsOK, Zenon DEF ConstantsOK, Orders
<1>2. o.side \in Sides
  BY Zenon DEF Orders
<1> QED BY <1>1, <1>2 DEF Precedes, Sides

\* Precedes orders the orders of a side totally.
LEMMA PrecedesTotal ==
  ASSUME NEW o \in Orders, NEW p \in Orders, o.side = p.side, o.no # p.no
  PROVE  /\ Precedes(o, p) \/ Precedes(p, o)
         /\ \A w \in Orders : (w.side = p.side /\ Precedes(o, p) /\ Precedes(p, w)) => Precedes(o, w)
<1>1. \A x \in Orders : x.price \in Nat /\ x.time \in Int /\ x.no \in Int /\ x.side \in Sides
  BY ConstantsOK, Zenon DEF ConstantsOK, Orders
<1>2. Precedes(o, p) \/ Precedes(p, o)
  BY <1>1 DEF Precedes, Sides
<1>3. ASSUME NEW w \in Orders, w.side = p.side, Precedes(o, p), Precedes(p, w)
      PROVE  Precedes(o, w)
  BY <1>1, <1>3 DEF Precedes, Sides
<1> QED BY <1>2, <1>3, Zenon

\* OrderBook::first finds an order on a side that is not empty.
LEMMA FirstExists ==
  ASSUME NEW os, OneSide(os), os # {}
  PROVE  \E x \in os : IsFirst(os, x)
<1> DEFINE Bad == {s \in SUBSET os : s # {} /\ ~\E x \in s : IsFirst(s, x)}
           T == {Cardinality(s) : s \in Bad}
<1> SUFFICES ASSUME os \in Bad PROVE FALSE
  BY Zenon
<1>1. T \in SUBSET Nat
  BY OneSidePart, Zenon
<1>2. T # {}
  BY Zenon
<1> HIDE DEF T
<1>3. PICK n \in T : \A k \in T : n <= k
  BY <1>1, <1>2, NatMin, Zenon
<1>4. PICK s \in Bad : n = Cardinality(s)
  BY <1>3, Zenon DEF T
<1>5. OneSide(s) /\ s # {} /\ IsFiniteSet(s) /\ Cardinality(s) \in Nat
  BY <1>4, OneSidePart, Zenon DEF OneSide
<1>6. PICK x \in s : TRUE
  BY <1>5
<1>7. PICK r : r = s \ {x}
  BY Zenon
<1>8. r \in SUBSET os /\ IsFiniteSet(r) /\ Cardinality(r) = Cardinality(s) - 1
  BY <1>4, <1>5, <1>6, <1>7, FS_RemoveElement, Zenon
<1>9. r \notin Bad
  <2> SUFFICES ASSUME r \in Bad PROVE FALSE
    BY Zenon
  <2>1. Cardinality(r) \in T
    BY Zenon DEF T
  <2> QED BY <1>3, <1>4, <1>5, <1>8, <2>1
<1>10. \A o, p \in s : o \in Orders /\ o.side = p.side /\ (o.no = p.no => o = p)
  BY <1>5, Zenon DEF OneSide, GoodBook
<1>11. CASE r = {}
  <2>1. \A p \in s : p = x
    BY <1>7, <1>11, Zenon
  <2>2. IsFirst(s, x)
    BY <1>6, <2>1, Zenon DEF IsFirst, SideOf
  <2> QED BY <1>4, <1>6, <2>2, Zenon
<1>12. CASE r # {}
  <2>1. PICK y \in r : IsFirst(r, y)
    BY <1>8, <1>9, <1>12, Zenon
  <2>2. y \in s /\ y # x /\ y.no # x.no /\ y.side = x.side /\ x \in Orders /\ y \in Orders
    BY <1>6, <1>7, <1>10, <2>1, Zenon
  <2>3. \A p \in s : p = x \/ (p \in r /\ (p.no # y.no => Precedes(y, p)))
    BY <1>7, <1>10, <2>1, <2>2, Zenon DEF IsFirst, SideOf
  <2>4. CASE Precedes(y, x)
    <3>1. IsFirst(s, y)
      BY <2>2, <2>3, <2>4, Zenon DEF IsFirst, SideOf
    <3> QED BY <1>4, <2>2, <3>1, Zenon
  <2>5. CASE Precedes(x, y)
    <3>1. ASSUME NEW p \in s, p.no # x.no PROVE Precedes(x, p)
      <4>1. CASE p.no = y.no
        BY <1>10, <2>2, <2>5, <4>1, Zenon
      <4>2. CASE p.no # y.no
        <5>1. Precedes(y, p) /\ p.side = y.side /\ p \in Orders
          BY <1>10, <2>2, <2>3, <3>1, <4>2, Zenon
        <5> QED BY <2>2, <2>5, <5>1, PrecedesTotal, Zenon
      <4> QED BY <4>1, <4>2, Zenon
    <3>2. IsFirst(s, x)
      BY <1>6, <3>1, Zenon DEF IsFirst, SideOf
    <3> QED BY <1>4, <1>6, <3>2, Zenon
  <2> QED BY <2>2, <2>4, <2>5, PrecedesTotal, Zenon
<1> QED BY <1>11, <1>12, Zenon

\* A side has one first order.
LEMMA FirstUnique ==
  ASSUME NEW os, OneSide(os), NEW m, IsFirst(os, m)
  PROVE  FirstOf(os) = m
<1>1. m \in os
  BY Zenon DEF IsFirst
<1>2. ASSUME NEW x \in os, IsFirst(os, x) PROVE x = m
  <2>1. x \in Orders /\ m \in Orders /\ x.side = m.side /\ (x.no = m.no => x = m)
    BY <1>1, Zenon DEF OneSide, GoodBook
  <2>2. x.no # m.no => Precedes(x, m) /\ Precedes(m, x)
    BY <1>1, <1>2, <2>1 DEF IsFirst, SideOf
  <2> QED BY <2>1, <2>2, PrecedesOneWay, Zenon
<1>3. FirstOf(os) \in os /\ IsFirst(os, FirstOf(os))
  BY <1>1, Zenon DEF FirstOf
<1> QED BY <1>2, <1>3, Zenon

\* The first order of a side is one of it, has something left, and without it
\* the side is one order smaller.
LEMMA FirstTaken ==
  ASSUME NEW os, OneSide(os), NEW s \in SUBSET os, s # {}
  PROVE  /\ FirstOf(s) \in s /\ remaining(FirstOf(s)) \in Nat
         /\ s \ {FirstOf(s)} \in SUBSET os
         /\ Cardinality(s) \in Nat /\ Cardinality(s \ {FirstOf(s)}) = Cardinality(s) - 1
<1>1. OneSide(s) /\ Cardinality(s) \in Nat
  BY OneSidePart, Zenon
<1>2. \E x \in s : IsFirst(s, x)
  BY <1>1, FirstExists, Zenon
<1>3. FirstOf(s) \in s
  BY <1>2, Zenon DEF FirstOf
<1>4. PICK x \in s : x = FirstOf(s)
  BY <1>3, Zenon
<1>5. remaining(x) \in Nat
  <2>1. x \in Orders /\ remaining(x) > 0
    BY <1>1 DEF OneSide, GoodBook
  <2> QED BY <2>1, DealLemma, Zenon
<1>6. Cardinality(s \ {x}) = Cardinality(s) - 1
  BY <1>1, FS_RemoveElement, Zenon DEF OneSide
<1>7. s \ {x} \in SUBSET os
  OBVIOUS
<1> QED BY <1>1, <1>4, <1>5, <1>6, <1>7, Zenon

\* The sums of the parts of a side exist.
LEMMA SumExists ==
  ASSUME NEW os, OneSide(os)
  PROVE  \E f : IsSum(f, SUBSET os)
<1> DEFINE D(n) == {s \in SUBSET os : Cardinality(s) <= n}
           S == {n \in Nat : \E f : IsSum(f, D(n))}
<1>0. \A s \in SUBSET os : Cardinality(s) \in Nat
  BY OneSidePart, Zenon
<1>1. 0 \in S
  <2>1. \A s \in D(0) : s = {}
    <3> SUFFICES ASSUME NEW s \in SUBSET os, Cardinality(s) <= 0 PROVE s = {}
      BY Zenon
    <3>1. Cardinality(s) = 0 /\ IsFiniteSet(s)
      BY <1>0, OneSidePart DEF OneSide
    <3> QED BY <3>1, FS_EmptySet, Zenon
  <2> DEFINE f == [s \in D(0) |-> 0]
  <2>2. f = [s \in D(0) |-> IF s = {} THEN 0 ELSE remaining(FirstOf(s)) + f[s \ {FirstOf(s)}]]
    <3> HIDE DEF D
    <3> QED BY <2>1
  <2> HIDE DEF f, D
  <2>3. IsSum(f, D(0))
    BY <2>2, Zenon DEF IsSum
  <2> QED BY <2>3, Zenon
<1>2. ASSUME NEW n \in S PROVE n + 1 \in S
  <2>1. PICK f : IsSum(f, D(n))
    BY Zenon
  <2> DEFINE Val(g, s) == IF s = {} THEN 0 ELSE remaining(FirstOf(s)) + g[s \ {FirstOf(s)}]
             h == [s \in D(n + 1) |-> Val(f, s)]
  <2>2. n \in Nat /\ n + 1 \in Nat
    OBVIOUS
  <2>3. ASSUME NEW s \in D(n) PROVE s \in D(n + 1)
    BY <1>0, <2>2
  <2>4. ASSUME NEW s \in D(n + 1), s # {} PROVE s \ {FirstOf(s)} \in D(n)
    <3>1. s \in SUBSET os /\ Cardinality(s) <= n + 1
      BY Zenon
    <3>2. /\ s \ {FirstOf(s)} \in SUBSET os
          /\ Cardinality(s) \in Nat /\ Cardinality(s \ {FirstOf(s)}) = Cardinality(s) - 1
      BY <2>4, <3>1, FirstTaken, Zenon
    <3>3. Cardinality(s \ {FirstOf(s)}) <= n
      BY <2>2, <3>1, <3>2
    <3> QED BY <3>2, <3>3, Zenon
  <2> HIDE DEF D
  <2>5. ASSUME NEW s \in D(n) PROVE f[s] = Val(f, s)
    BY <2>1, Zenon DEF IsSum
  <2>6. ASSUME NEW s \in D(n) PROVE h[s] = f[s]
    BY <2>3, <2>5, Zenon
  <2>7. ASSUME NEW s \in D(n + 1) PROVE Val(f, s) = Val(h, s)
    <3>1. CASE s = {}
      BY <3>1, Zenon
    <3>2. CASE s # {}
      <4> HIDE DEF h
      <4> QED BY <2>4, <2>6, <3>2, Zenon
    <3> QED BY <3>1, <3>2, Zenon
  <2>8. h = [s \in D(n + 1) |-> Val(h, s)]
    <3>1. h = [s \in D(n + 1) |-> Val(f, s)]
      OBVIOUS
    <3> HIDE DEF h, Val
    <3> QED BY <2>7, <3>1, Zenon
  <2> HIDE DEF h
  <2>9. IsSum(h, D(n + 1))
    BY <2>8, Zenon DEF IsSum
  <2> QED BY <2>2, <2>9, Zenon
<1>3. S = Nat
  <2> HIDE DEF S
  <2>1. S \in SUBSET Nat
    BY DEF S
  <2> QED BY <1>1, <1>2, <2>1, SetInduction, Zenon
<1>4. PICK n \in Nat : n = Cardinality(os)
  BY <1>0, Zenon
<1>5. D(n) = SUBSET os
  BY <1>4, OneSidePart, Zenon
<1> HIDE DEF D
<1> QED BY <1>3, <1>5, Zenon

\* They agree wherever both are defined.
LEMMA SumUnique ==
  ASSUME NEW os, OneSide(os), NEW u \in SUBSET os, NEW f, NEW g,
         IsSum(f, SUBSET os), IsSum(g, SUBSET u)
  PROVE  f[u] = g[u]
<1> DEFINE Bad == {s \in SUBSET u : f[s] # g[s]}
           T == {Cardinality(s) : s \in Bad}
<1> SUFFICES ASSUME u \in Bad PROVE FALSE
  BY Zenon
<1>1. T \in SUBSET Nat
  BY OneSidePart, Zenon
<1>2. T # {}
  BY Zenon
<1> HIDE DEF T
<1>3. PICK n \in T : \A k \in T : n <= k
  BY <1>1, <1>2, NatMin, Zenon
<1>4. PICK s \in Bad : n = Cardinality(s)
  BY <1>3, Zenon DEF T
<1>5. s \in SUBSET u /\ s \in SUBSET os /\ f[s] # g[s]
  BY <1>4, Zenon
<1>6. CASE s = {}
  <2>1. f[s] = 0 /\ g[s] = 0
    BY <1>5, <1>6, Zenon DEF IsSum
  <2> QED BY <1>5, <2>1, Zenon
<1>7. CASE s # {}
  <2>1. PICK x \in s : x = FirstOf(s)
    BY <1>5, <1>7, FirstTaken, Zenon
  <2>2. PICK r : r = s \ {x}
    BY Zenon
  <2>3. r \in SUBSET u /\ Cardinality(s) \in Nat /\ Cardinality(r) = Cardinality(s) - 1
    BY <1>5, <1>7, <2>1, <2>2, FirstTaken, Zenon
  <2>4. f[s] = remaining(x) + f[r] /\ g[s] = remaining(x) + g[r]
    BY <1>5, <1>7, <2>1, <2>2, Zenon DEF IsSum
  <2>5. r \in Bad
    BY <1>5, <2>3, <2>4, Zenon
  <2>6. Cardinality(r) \in T
    BY <2>5, Zenon DEF T
  <2> QED BY <1>3, <1>4, <2>3, <2>6
<1> QED BY <1>6, <1>7, Zenon

\* They are natural numbers.
LEMMA SumNat ==
  ASSUME NEW os, OneSide(os), NEW f, IsSum(f, SUBSET os)
  PROVE  f[os] \in Nat
<1> DEFINE Bad == {s \in SUBSET os : f[s] \notin Nat}
           T == {Cardinality(s) : s \in Bad}
<1> SUFFICES ASSUME os \in Bad PROVE FALSE
  BY Zenon
<1>1. T \in SUBSET Nat
  BY OneSidePart, Zenon
<1>2. T # {}
  BY Zenon
<1> HIDE DEF T
<1>3. PICK n \in T : \A k \in T : n <= k
  BY <1>1, <1>2, NatMin, Zenon
<1>4. PICK s \in Bad : n = Cardinality(s)
  BY <1>3, Zenon DEF T
<1>5. s \in SUBSET os /\ f[s] \notin Nat
  BY <1>4, Zenon
<1>6. s # {}
  BY <1>5 DEF IsSum
<1>7. PICK x \in s : x = FirstOf(s) /\ remaining(x) \in Nat
  BY <1>5, <1>6, FirstTaken, Zenon
<1>8. PICK r : r = s \ {x}
  BY Zenon
<1>9. r \in SUBSET os /\ Cardinality(s) \in Nat /\ Cardinality(r) = Cardinality(s) - 1
  BY <1>5, <1>6, <1>7, <1>8, FirstTaken, Zenon
<1>10. f[s] = remaining(x) + f[r]
  BY <1>5, <1>6, <1>7, <1>8, Zenon DEF IsSum
<1>11. r \notin Bad
  <2> SUFFICES ASSUME r \in Bad PROVE FALSE
    BY Zenon
  <2>1. Cardinality(r) \in T
    BY Zenon DEF T
  <2> QED BY <1>3, <1>4, <1>9, <2>1
<1>12. f[r] \in Nat
  BY <1>9, <1>11, Zenon
<1> QED BY <1>5, <1>7, <1>10, <1>12

\* Total is such a sum.
LEMMA TotalIsSum ==
  ASSUME NEW os, OneSide(os)
  PROVE  \E f : IsSum(f, SUBSET os) /\ Total(os) = f[os]
<1> DEFINE F(f) == [s \in SUBSET os |-> IF s = {} THEN 0
                                       ELSE LET o == CHOOSE x \in s : IsFirst(s, x) IN remaining(o) + f[s \ {o}]]
           sum == CHOOSE f : f = F(f)
<1>1. \A f : f = F(f) <=> IsSum(f, SUBSET os)
  BY Zenon DEF IsSum, FirstOf
<1>2. Total(os) = sum[os]
  BY DEF Total
<1>3. \E f : f = F(f)
  BY <1>1, SumExists, Zenon
<1>4. sum = F(sum)
  <2> HIDE DEF F
  <2> QED BY <1>3, Zenon
<1> HIDE DEF sum, F
<1>5. IsSum(sum, SUBSET os)
  BY <1>1, <1>4, Zenon
<1> QED BY <1>2, <1>5, Zenon

\* What nobody has left is nothing; what a side has left is a natural number.
LEMMA TotalNat ==
  ASSUME NEW os, OneSide(os)
  PROVE  Total(os) \in Nat /\ (os = {} => Total(os) = 0)
<1>1. PICK f : IsSum(f, SUBSET os) /\ Total(os) = f[os]
  BY TotalIsSum, Zenon
<1>2. Total(os) \in Nat
  BY <1>1, SumNat, Zenon
<1>3. os = {} => Total(os) = 0
  BY <1>1, Zenon DEF IsSum
<1> QED BY <1>2, <1>3, Zenon

\* What a side has left is what its first order has left and what the others have.
LEMMA TotalFirst ==
  ASSUME NEW os, OneSide(os), NEW m, IsFirst(os, m)
  PROVE  /\ remaining(m) \in Nat /\ Total(os \ {m}) \in Nat
         /\ Total(os) = remaining(m) + Total(os \ {m})
<1>1. PICK r : r = os \ {m}
  BY Zenon
<1>2. m \in os /\ FirstOf(os) = m /\ os # {} /\ r \in SUBSET os /\ os \in SUBSET os
  BY <1>1, FirstUnique, Zenon DEF IsFirst
<1>3. OneSide(r)
  BY <1>2, OneSidePart, Zenon
<1>4. PICK f : IsSum(f, SUBSET os) /\ Total(os) = f[os]
  BY TotalIsSum, Zenon
<1>5. PICK g : IsSum(g, SUBSET r) /\ Total(r) = g[r]
  BY <1>3, TotalIsSum, Zenon
<1>6. f[r] = g[r]
  BY <1>2, <1>4, <1>5, SumUnique
<1>7. f[os] = remaining(m) + f[r]
  BY <1>1, <1>2, <1>4, Zenon DEF IsSum
<1>8. Total(r) \in Nat
  BY <1>3, TotalNat, Zenon
<1>9. remaining(m) \in Nat
  BY <1>2, FirstTaken, Zenon
<1> QED BY <1>1, <1>4, <1>5, <1>6, <1>7, <1>8, <1>9, Zenon
=============================================================================
