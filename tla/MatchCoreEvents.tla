-------------------------- MODULE MatchCoreEvents --------------------------
(***************************************************************************)
(* Proofs about what a call of MatchCore reports and promises, for every   *)
(* set of order numbers, prices, quantities, times and gears.              *)
(*                                                                         *)
(* Two more inductive invariants stand on IInv of MatchCoreProofs.  EInv   *)
(* says, at every step of a call and not only between calls, that the book *)
(* is what the events so far leave of the orders the call could touch.     *)
(* FInv counts what a FOK order has taken and can still take against what  *)
(* the book it met had within its limit.                                   *)
(***************************************************************************)
EXTENDS MatchCoreProofs
----------------------------------------------------------------------------
(* The second inductive invariant: what the events say of the book. *)

\* The fills among e passed over nobody who is still in b.
Passed(e, b) ==
  \A i \in DOMAIN e : e[i].type = "fill" => \A m, o \in before :
    (m.no = e[i].maker /\ o.side = m.side /\ Precedes(o, m)) => o.no \notin Nos(b)

\* The orders a call can touch could be a book together, and its own is new.
CallOrders ==
  /\ GoodBook(Involved)
  /\ cur # NoOrder => cur \in Orders /\ cur.consumed = 0 /\ cur.no \notin Nos(before)

\* The walk holds every maker it traded with, as the maker was before it.
WalkHolds ==
  pc = "fok" => saved \subseteq before /\ \A x \in before : Filled(evs, x.no) = 0 \/ x \in saved

\* A call for a FOK order reports the whole order traded, or only its revoke.
FokOutcome ==
  (pc = "idle" /\ cur.form = "fok") =>
    \/ Filled(evs, cur.no) = cur.number /\ cur.no \notin RevokedIn(evs)
    \/ FillIdx = {} /\ book = before /\ cur.no \in RevokedIn(evs)

\* The book is what the events so far leave of the orders the call can touch.
EInv ==
  /\ CallOrders
  /\ book = LeftOf(Involved, evs)
  /\ RevokesTrue(Involved, evs)
  /\ pc # "idle" => RevokedIn(evs) = {}
  /\ (pc = "height" /\ cur.form = "fok") => evs = <<>>
  /\ WalkHolds
  /\ Passed(evs, book)
  /\ IocTakesAll
  /\ FokOutcome

\* A step within a call, from what it makes of the book and the events.
LEMMA EInvStep ==
  ASSUME EInv, UNCHANGED <<cur, before>>,
         book' = LeftOf(Involved, evs'), RevokesTrue(Involved, evs'), Passed(evs', book'),
         pc' # "idle" => RevokedIn(evs') = {},
         (pc' = "height" /\ cur.form = "fok") => evs' = <<>>,
         WalkHolds', IocTakesAll', FokOutcome'
  PROVE  EInv'
<1>1. Involved' = Involved
  BY DEF Involved
<1>2. CallOrders'
  BY <1>1 DEF EInv, CallOrders, GoodBook, Nos
<1>3. book' = LeftOf(Involved', evs') /\ RevokesTrue(Involved', evs')
  BY <1>1
<1>4. Passed(evs, book)'
  BY DEF Passed
<1> QED BY <1>2, <1>3, <1>4, Zenon DEF EInv

\* What is in the book under a number is the order the call found or brought
\* under it.
LEMMA BookEntry ==
  ASSUME IInv, EInv, NEW p \in book, NEW o \in Involved, p.no = o.no
  PROVE  /\ p = Consume(o, Filled(evs, o.no)) /\ Filled(evs, o.no) \in Nat
         /\ p.side = o.side /\ p.price = o.price /\ p.time = o.time /\ p.form = o.form
         /\ remaining(o) \in Int /\ remaining(p) = remaining(o) - Filled(evs, o.no)
<1>1. GoodBook(Involved) /\ evs \in Seq(EventsType) /\ p \in LeftOf(Involved, evs)
  BY DEF EInv, CallOrders, IInv, TypeOK
<1>2. PICK u \in Involved : /\ p = Consume(u, Filled(evs, u.no)) /\ Filled(evs, u.no) \in Nat
                            /\ u.no = p.no /\ u.side = p.side /\ u.price = p.price
                            /\ u.time = p.time /\ u.form = p.form
                            /\ remaining(u) \in Int /\ remaining(p) = remaining(u) - Filled(evs, u.no)
  BY <1>1, LeftElement
<1>3. u = o
  BY <1>1, <1>2, Zenon DEF GoodBook
<1> QED BY <1>2, <1>3, Zenon

\* The events a, one fill of t and m later, explain the book B.
HitMade(t, m, B, a) ==
  /\ B = LeftOf(Involved, a) /\ RevokedIn(a) = {} /\ RevokesTrue(Involved, a)
  /\ Passed(a, B)
  /\ \A n : Filled(a, n) = Filled(evs, n) + (IF n \in {t.no, m.no} THEN DealQty(t, m) ELSE 0)

\* A fill of the incoming order against the best order of the other side: the
\* events with it explain the book after it, and nobody is passed over.
LEMMA HitLemma ==
  ASSUME NEW t \in book, NEW m \in book, NEW B, NEW a,
         IInv, EInv, pc # "idle", t.no # m.no, IsFirst(book, m),
         B = AfterFill(book, t, m), a = Append(evs, FillEvent(t, m, DealQty(t, m)))
  PROVE  HitMade(t, m, B, a)
<1> USE DEF HitMade
<1>1. /\ GoodBook(Involved) /\ evs \in Seq(EventsType) /\ book = LeftOf(Involved, evs)
      /\ GoodBook(book) /\ RevokedIn(evs) = {} /\ Passed(evs, book)
  BY TypeGood, Zenon DEF EInv, CallOrders, IInv, TypeOK
<1>2. /\ B = LeftOf(Involved, a) /\ RevokedIn(a) = {}
      /\ \A n : Filled(a, n) = Filled(evs, n) + (IF n \in {t.no, m.no} THEN DealQty(t, m) ELSE 0)
  BY <1>1, LeftFill
<1>3. RevokesTrue(Involved, a)
  BY <1>2, Zenon DEF RevokesTrue, RevokedIn
<1>4. \A o \in B : \E p \in book : p.no = o.no
  BY <1>1, FillLemma, Zenon DEF Same
<1>5. Passed(a, B)
  <2> SUFFICES ASSUME NEW i \in DOMAIN a, a[i].type = "fill", NEW w \in before, NEW o \in before,
                      w.no = a[i].maker, o.side = w.side, Precedes(o, w), o.no \in Nos(B)
               PROVE  FALSE
    BY DEF Passed
  <2>1. PICK p \in book : p.no = o.no
    BY <1>4 DEF Nos
  <2>2. PICK x : x = FillEvent(t, m, DealQty(t, m))
    BY Zenon
  <2>3. x \in EventsType /\ x.maker = m.no
    <3>1. t \in Orders /\ m \in Orders /\ remaining(t) > 0 /\ remaining(m) > 0
      BY <1>1 DEF GoodBook
    <3> QED BY <2>2, <3>1, FillEventLemma, Zenon DEF FillEvent
  <2>4. a = Append(evs, x)
    BY <2>2, Zenon
  <2>5. (i \in DOMAIN evs /\ a[i] = evs[i]) \/ a[i] = x
    BY <1>1, <2>3, <2>4
  <2>6. CASE i \in DOMAIN evs /\ a[i] = evs[i]
    <3>1. p.no \in Nos(book)
      BY DEF Nos
    <3> QED BY <1>1, <2>1, <2>6, <3>1, Zenon DEF Passed
  <2>7. CASE a[i] = x
    <3>1. w \in Involved /\ o \in Involved /\ w.no = m.no
      BY <2>3, <2>7, Zenon DEF Involved
    <3>2. /\ p.side = o.side /\ p.price = o.price /\ p.time = o.time
          /\ m.side = w.side /\ m.price = w.price /\ m.time = w.time
      BY <2>1, <3>1, BookEntry, Zenon
    <3>3. o \in Orders /\ w \in Orders
      BY <1>1, <3>1, Zenon DEF GoodBook
    <3>4. ~Precedes(w, o) /\ o # w
      BY <3>3, PrecedesOneWay, Zenon
    <3>5. p.no # m.no
      BY <1>1, <2>1, <3>1, <3>4, Zenon DEF GoodBook
    <3>6. Precedes(m, p)
      BY <3>2, <3>5, Zenon DEF IsFirst, SideOf
    <3>7. Precedes(w, o)
      BY <2>1, <3>1, <3>2, <3>6, Zenon DEF Precedes
    <3> QED BY <3>4, <3>7, Zenon
  <2> QED BY <2>5, <2>6, <2>7, Zenon
<1> QED BY <1>2, <1>3, <1>5, Zenon

\* Before the first event everything is left.
LEMMA LeftNone ==
  ASSUME NEW I, GoodBook(I)
  PROVE  /\ <<>> \in Seq(EventsType) /\ RevokedIn(<<>>) = {} /\ RevokesTrue(I, <<>>)
         /\ LeftOf(I, <<>>) = I
<1>1. <<>> \in Seq(EventsType) /\ DOMAIN <<>> = {}
  OBVIOUS
<1>2. RevokedIn(<<>>) = {} /\ RevokesTrue(I, <<>>)
  <2>1. PICK e : e = <<>>
    OBVIOUS
  <2>2. \A j : j \notin DOMAIN e
    BY <1>1, <2>1, Zenon
  <2>3. RevokedIn(e) = {} /\ RevokesTrue(I, e)
    BY <2>2 DEF RevokedIn, RevokesTrue
  <2> QED BY <2>1, <2>3, Zenon
<1>3. \A o \in I : Filled(<<>>, o.no) = 0 /\ 0 < remaining(o) /\ Consume(o, 0) = o
  <2> SUFFICES ASSUME NEW o \in I PROVE Filled(<<>>, o.no) = 0 /\ 0 < remaining(o) /\ Consume(o, 0) = o
    OBVIOUS
  <2>1. o \in Orders /\ remaining(o) > 0
    BY DEF GoodBook
  <2>2. remaining(o) \in Int /\ Consume(o, 0) = o
    BY <2>1, ConsumeFields, Zenon
  <2> QED BY <2>1, <2>2, FilledNone, Zenon
<1>4. LeftOf(I, <<>>) \subseteq I
  BY <1>3 DEF LeftOf
<1>5. I \subseteq LeftOf(I, <<>>)
  <2> SUFFICES ASSUME NEW o \in I PROVE o \in LeftOf(I, <<>>)
    OBVIOUS
  <2>1. o = Consume(o, Filled(<<>>, o.no)) /\ Filled(<<>>, o.no) < remaining(o) /\ o.no \notin RevokedIn(<<>>)
    BY <1>2, <1>3, Zenon
  <2> QED BY <2>1 DEF LeftOf
<1> QED BY <1>1, <1>2, <1>4, <1>5, Zenon

\* A call that begins: the events so far are the calls' own.
LEMMA OnRevokeEInv ==
  ASSUME IInv, EInv, NEW n \in OrderNos, NEW s \in Sides, OnRevoke(n, s)
  PROVE  EInv'
<1> DEFINE os == Found(book, n, s)
<1>1. /\ book' = book \ os /\ evs' = RevokeEvents(os, "user") /\ pc' = "idle"
      /\ cur' = NoOrder /\ before' = book
  BY DEF OnRevoke, StartCall
<1>2. GoodBook(book) /\ "user" \in Reasons
  BY TypeGood DEF IInv, Reasons
<1>3. PICK e : e = <<>>
  OBVIOUS
<1>4. evs' = e \o RevokeEvents(os, "user")
  <2> DEFINE x == RevokeEvent(CHOOSE o \in os : TRUE, "user")
  <2> HIDE DEF os
  <2>1. RevokeEvents(os, "user") \in {<< >>, <<x>>}
    BY Zenon DEF RevokeEvents
  <2> HIDE DEF x
  <2>2. << >> \o << >> = << >> /\ << >> \o <<x>> = <<x>>
    OBVIOUS
  <2> QED BY <1>1, <1>3, <2>1, <2>2, Zenon
<1>5. e \in Seq(EventsType) /\ book = LeftOf(book, e) /\ RevokesTrue(book, e) /\ DOMAIN e = {}
  BY <1>2, <1>3, LeftNone
<1>6. /\ book \ os = LeftOf(book, evs') /\ RevokesTrue(book, evs')
      /\ \A i \in DOMAIN evs' : evs'[i].type = "fill" => i \in DOMAIN e /\ evs'[i] = e[i]
  <2>1. PICK c : c = evs'
    OBVIOUS
  <2>2. c = e \o RevokeEvents(Found(book, n, s), "user")
    BY <1>4, <2>1, Zenon
  <2>3. /\ book \ Found(book, n, s) = LeftOf(book, c) /\ RevokesTrue(book, c)
        /\ \A i \in DOMAIN c : c[i].type = "fill" => i \in DOMAIN e /\ c[i] = e[i]
    <3>1. RevokeMade(book, book, n, s, e, c)
      BY <1>2, <1>5, <2>2, LeftRevoke, Zenon
    <3> QED BY <3>1 DEF RevokeMade
  <2> QED BY <2>1, <2>3, Zenon
<1> HIDE DEF os
<1>7. Involved' = book
  BY <1>1, Zenon DEF Involved
<1>8. CallOrders'
  BY <1>1, <1>2, <1>7, Zenon DEF CallOrders, GoodBook
<1>9. book' = LeftOf(Involved', evs') /\ RevokesTrue(Involved', evs')
  BY <1>1, <1>6, <1>7, Zenon
<1>10. Passed(evs, book)'
  BY <1>5, <1>6, Zenon DEF Passed
<1>11. WalkHolds' /\ IocTakesAll' /\ FokOutcome'
  BY <1>1, Zenon DEF WalkHolds, IocTakesAll, FokOutcome, NoOrder
<1> QED BY <1>1, <1>8, <1>9, <1>10, <1>11, Zenon DEF EInv

\* A duplicate order number changes nothing and reports nothing.
LEMMA RejectEInv ==
  ASSUME IInv, EInv, NEW n \in OrderNos, RejectDuplicate(n)
  PROVE  EInv'
<1>1. /\ book' = book /\ evs' = <<>> /\ pc' = "idle" /\ cur' = NoOrder /\ before' = book
  BY DEF RejectDuplicate, StartCall
<1>2. GoodBook(book)
  BY TypeGood DEF IInv
<1>3. book = LeftOf(book, <<>>) /\ RevokesTrue(book, <<>>) /\ DOMAIN <<>> = {}
  BY <1>2, LeftNone
<1>4. Involved' = book
  BY <1>1, Zenon DEF Involved
<1>5. CallOrders'
  BY <1>1, <1>2, <1>4, Zenon DEF CallOrders, GoodBook
<1>6. book' = LeftOf(Involved', evs') /\ RevokesTrue(Involved', evs')
  BY <1>1, <1>3, <1>4, Zenon
<1>7. Passed(evs, book)'
  BY <1>1, <1>3, Zenon DEF Passed
<1>8. WalkHolds' /\ IocTakesAll' /\ FokOutcome'
  BY <1>1, Zenon DEF WalkHolds, IocTakesAll, FokOutcome, NoOrder
<1> QED BY <1>1, <1>5, <1>6, <1>7, <1>8, Zenon DEF EInv

\* A new call starts with nothing reported and its order in the book.
LEMMA AcceptEInv ==
  ASSUME IInv, EInv, NEW o \in Incoming, Accept(o)
  PROVE  EInv'
<1> DEFINE a == AsInserted(o)
<1>1. a \in Orders /\ a.no = o.no /\ a.consumed = 0 /\ remaining(a) > 0 /\ a.form \in Forms
  <2>1. /\ o \in [no: OrderNos, side: Sides, form: Forms, price: Prices,
                  time: Times, number: Qtys, consumed: {0}, gear: Gears]
    BY DEF Incoming
  <2>2. a \in Orders /\ a.no = o.no /\ a.form = o.form /\ a.number = o.number /\ a.consumed = 0
    BY <2>1 DEF AsInserted, Orders
  <2>3. o.number \in Qtys
    BY <2>1
  <2>4. o.number \in Nat /\ o.number # 0
    BY <2>3, ConstantsOK, Zenon DEF ConstantsOK
  <2> QED BY <2>1, <2>2, <2>4 DEF remaining
<1>2. /\ cur' = a /\ book' = book \cup {a} /\ before' = book
      /\ a.no \notin Nos(book) /\ evs' = <<>> /\ pc' = HandlerOf(o.form)
  BY <1>1 DEF Accept, StartCall
<1> HIDE DEF a
<1>3. pc' # "idle" /\ pc' # "fok"
  BY <1>2, Zenon DEF HandlerOf
<1>4. a # NoOrder /\ Involved' = book'
  BY <1>1, <1>2 DEF NoOrder, Forms, Involved
<1>5. GoodBook(book')
  <2>1. GoodBook(book)
    BY TypeGood, Zenon DEF IInv
  <2> QED BY <1>1, <1>2, <2>1 DEF GoodBook, Nos
<1>6. book' = LeftOf(book', <<>>) /\ RevokesTrue(book', <<>>) /\ DOMAIN <<>> = {} /\ RevokedIn(<<>>) = {}
  BY <1>5, LeftNone
<1>7. CallOrders'
  BY <1>1, <1>2, <1>4, <1>5, Zenon DEF CallOrders, GoodBook, Nos
<1>8. book' = LeftOf(Involved', evs') /\ RevokesTrue(Involved', evs') /\ RevokedIn(evs') = {}
  BY <1>2, <1>4, <1>6, Zenon
<1>9. Passed(evs, book)'
  BY <1>2, <1>6, Zenon DEF Passed
<1>10. WalkHolds' /\ IocTakesAll' /\ FokOutcome'
  BY <1>3, Zenon DEF WalkHolds, IocTakesAll, FokOutcome
<1> QED BY <1>2, <1>7, <1>8, <1>9, <1>10, Zenon DEF EInv

\* RevokedNos is RevokedIn of the events.
LEMMA RevokedSame == RevokedNos = RevokedIn(evs)
<1>1. DOMAIN evs \ FillIdx = {j \in DOMAIN evs : evs[j].type # "fill"}
  BY DEF FillIdx
<1> QED BY <1>1 DEF RevokedNos, RevokedIn

\* A call that ends without a word leaves things as they are.
LEMMA BreakEInv ==
  ASSUME IInv, EInv, pc # "idle", cur.form # "fok", BreakUnchanged
  PROVE  EInv'
<1>1. pc' = "idle" /\ UNCHANGED <<cur, before, book, evs>>
  BY DEF BreakUnchanged, Break
<1>2. RevokedNos' = {}
  <2>1. RevokedNos = {}
    BY RevokedSame, Zenon DEF EInv
  <2> QED BY <1>1, <2>1, Zenon DEF RevokedNos, FillIdx
<1>3. IocTakesAll' /\ WalkHolds' /\ FokOutcome'
  BY <1>1, <1>2, Zenon DEF IocTakesAll, WalkHolds, FokOutcome
<1>4. book' = LeftOf(Involved, evs') /\ RevokesTrue(Involved, evs') /\ Passed(evs', book')
  BY <1>1, Zenon DEF EInv
<1> QED BY <1>1, <1>3, <1>4, EInvStep, Zenon

\* A call that ends by revoking what is left of its order in B, where the events
\* e explain B.
LEMMA RevokeEInv ==
  ASSUME IInv, EInv, pc # "idle", NEW B, NEW e \in Seq(EventsType), NEW r \in Reasons,
         GoodBook(B), B = LeftOf(Involved, e), RevokesTrue(Involved, e), Passed(e, B),
         RevokeCur(B, e, r), pc' = "idle", UNCHANGED <<cur, before>>,
         cur.form = "ioc" => \A m \in SideOf(B, Opp(cur.side)) : ~Reach(cur.side, cur.price, m.price),
         cur.form = "fok" => e = <<>>
  PROVE  EInv'
<1> DEFINE os == Found(B, cur.no, cur.side)
<1>1. book' = B \ os /\ evs' = e \o RevokeEvents(os, r)
  BY DEF RevokeCur
<1>2. PICK a : a = evs'
  OBVIOUS
<1>3. PICK I : I = Involved
  BY Zenon
<1>4. GoodBook(I) /\ B = LeftOf(I, e) /\ RevokesTrue(I, e)
  BY <1>3 DEF EInv, CallOrders
<1>5. RevokeMade(I, B, cur.no, cur.side, e, a)
  <2>1. a = e \o RevokeEvents(Found(B, cur.no, cur.side), r)
    BY <1>1, <1>2, Zenon
  <2> QED BY <1>4, <2>1, LeftRevoke, Zenon
<1>6. /\ book' = LeftOf(I, a) /\ RevokesTrue(I, a)
      /\ RevokedIn(a) = RevokedIn(e) \cup Nos(os)
      /\ \A i \in DOMAIN a : a[i].type = "fill" => i \in DOMAIN e /\ a[i] = e[i]
  BY <1>1, <1>5, Zenon DEF RevokeMade
<1>7. Passed(a, book')
  <2>1. Nos(book') \subseteq Nos(B)
    BY <1>1, Zenon DEF Nos
  <2> QED BY <1>6, <2>1, Zenon DEF Passed
<1>8. WalkHolds'
  BY DEF WalkHolds
<1>9. IocTakesAll'
  BY <1>1 DEF IocTakesAll, SideOf
<1>10. FokOutcome'
  <2> SUFFICES ASSUME cur.form = "fok"
               PROVE  FillIdx' = {} /\ book' = before /\ cur.no \in RevokedIn(evs')
    BY DEF FokOutcome
  <2>1. e = <<>> /\ DOMAIN e = {}
    OBVIOUS
  <2>2. B = I
    BY <1>4, <2>1, LeftNone, Zenon
  <2>3. cur # NoOrder
    BY DEF NoOrder
  <2>4. I = before \cup {cur} /\ cur.no \notin Nos(before)
    BY <1>3, <2>3, Zenon DEF EInv, CallOrders, Involved
  <2>5. os = {cur}
    BY <2>2, <2>4, Zenon DEF Found, Nos
  <2> HIDE DEF os
  <2>6. cur \notin before
    BY <2>4, Zenon DEF Nos
  <2>7. book' = before
    BY <1>1, <2>2, <2>4, <2>5, <2>6, Zenon
  <2>8. cur.no \in RevokedIn(evs')
    BY <1>2, <1>6, <2>5, Zenon DEF Nos
  <2>9. FillIdx' = {}
    BY <1>2, <1>6, <2>1, Zenon DEF FillIdx
  <2> QED BY <2>7, <2>8, <2>9
<1> HIDE DEF os
<1>11. book' = LeftOf(Involved, evs') /\ RevokesTrue(Involved, evs') /\ Passed(evs', book')
  BY <1>2, <1>3, <1>6, <1>7, Zenon
<1> QED BY <1>8, <1>9, <1>10, <1>11, EInvStep, Zenon

\* A fill after which a call other than a FOK order's goes on.
LEMMA FillEInv ==
  ASSUME IInv, EInv, pc \in {"limit", "market", "height"}, cur.form # "fok",
         NEW t \in book, NEW m \in book, t.no # m.no, IsFirst(book, m), Fill(t, m),
         UNCHANGED <<pc, cur, before>>
  PROVE  EInv'
<1>1. PICK a : a = Append(evs, FillEvent(t, m, DealQty(t, m)))
  BY Zenon
<1>2. PICK B : B = AfterFill(book, t, m)
  OBVIOUS
<1>3. HitMade(t, m, B, a)
  BY <1>1, <1>2, HitLemma, Zenon
<1>4. book' = B /\ evs' = a
  BY <1>1, <1>2, Zenon DEF Fill
<1>5. WalkHolds' /\ IocTakesAll' /\ FokOutcome'
  BY DEF WalkHolds, IocTakesAll, FokOutcome
<1>6. book' = LeftOf(Involved, evs') /\ RevokedIn(evs') = {} /\ RevokesTrue(Involved, evs') /\ Passed(evs', book')
  BY <1>3, <1>4, Zenon DEF HitMade
<1> QED BY <1>5, <1>6, EInvStep, Zenon

\* handle_limit_*.
LEMMA LimitEInv ==
  ASSUME IInv, EInv, LimitStop \/ LimitFill
  PROVE  EInv'
<1>1. pc = "limit" /\ cur.form = "limit"
  BY DEF LimitStop, LimitFill, IInv, CallInv
<1>2. CASE LimitStop
  BY <1>1, <1>2, BreakEInv, Zenon DEF LimitStop
<1>3. CASE LimitFill
  <2>1. PICK t \in book, m \in book : Tops(t, m) /\ Crosses(t, m) /\ Fill(t, m)
    BY <1>3, Zenon DEF LimitFill
  <2>2. t.no = cur.no /\ m.no # cur.no
    BY <1>1, <2>1, TakerLemma, MakerIsOther, Zenon DEF Tops
  <2>3. IsFirst(book, m) /\ t.no # m.no /\ UNCHANGED <<pc, cur, before>>
    BY <1>3, <2>1, <2>2, Zenon DEF Tops, LimitFill, Again
  <2> QED BY <1>1, <2>1, <2>3, FillEInv, Zenon
<1> QED BY <1>2, <1>3, Zenon

\* The book and events as they are, for a revoke that ends the call.
LEMMA AsItIs ==
  ASSUME IInv, EInv
  PROVE  /\ GoodBook(book) /\ evs \in Seq(EventsType) /\ book = LeftOf(Involved, evs)
         /\ RevokesTrue(Involved, evs) /\ Passed(evs, book)
BY TypeGood, Zenon DEF IInv, TypeOK, EInv

\* handle_market_*.
LEMMA MarketEInv ==
  ASSUME IInv, EInv,
         \/ MarketOwnEmpty \/ MarketEmpty \/ MarketNotBest \/ MarketBlocked
         \/ MarketFill \/ MarketFillGear
  PROVE  EInv'
<1>1. pc = "market" /\ cur.form = "market"
  BY DEF MarketOwnEmpty, MarketEmpty, MarketNotBest, MarketBlocked, MarketFill, MarketFillGear,
         MayMarketFill, IInv, CallInv
<1>2. "market_empty" \in Reasons /\ "market_blocked" \in Reasons /\ "market_gear" \in Reasons
  BY DEF Reasons
<1>3. CASE MarketOwnEmpty \/ MarketNotBest
  BY <1>1, <1>3, BreakEInv, Zenon DEF MarketOwnEmpty, MarketNotBest
<1>4. CASE MarketEmpty
  BY <1>1, <1>2, <1>4, AsItIs, RevokeEInv, Zenon DEF MarketEmpty, Break
<1>5. CASE MarketBlocked
  BY <1>1, <1>2, <1>5, AsItIs, RevokeEInv, Zenon DEF MarketBlocked, Break
<1>6. ASSUME NEW t \in book, NEW m \in book, MayMarketFill(t, m)
      PROVE  t.no = cur.no /\ m.side = Opp(cur.side) /\ IsFirst(book, m) /\ t.no # m.no
  BY <1>1, <1>6, MakerIsOther, Zenon DEF MayMarketFill, Tops
<1>7. CASE MarketFill
  <2>1. PICK t \in book, m \in book : MayMarketFill(t, m) /\ Fill(t, m)
    BY <1>7, Zenon DEF MarketFill
  <2>2. UNCHANGED <<pc, cur, before>>
    BY <1>7, Zenon DEF MarketFill
  <2> QED BY <1>1, <1>6, <2>1, <2>2, FillEInv, Zenon
<1>8. CASE MarketFillGear
  <2>1. PICK t \in book, m \in book :
          /\ MayMarketFill(t, m)
          /\ RevokeCur(AfterFill(book, t, m), Append(evs, FillEvent(t, m, DealQty(t, m))), "market_gear")
    BY <1>8, Zenon DEF MarketFillGear
  <2>2. t.no = cur.no /\ m.side = Opp(cur.side) /\ IsFirst(book, m) /\ t.no # m.no
    BY <1>6, <2>1, Zenon
  <2>3. PICK B : B = AfterFill(book, t, m)
    OBVIOUS
  <2>4. PICK a : a = Append(evs, FillEvent(t, m, DealQty(t, m)))
    BY Zenon
  <2>5. B = LeftOf(Involved, a) /\ RevokesTrue(Involved, a) /\ Passed(a, B)
    <3>1. HitMade(t, m, B, a)
      BY <1>1, <2>2, <2>3, <2>4, HitLemma, Zenon
    <3> QED BY <3>1, Zenon DEF HitMade
  <2>6. GoodBook(B) /\ a \in Seq(EventsType)
    BY <1>1, <2>2, <2>3, <2>4, FillStep, Zenon
  <2>7. RevokeCur(B, a, "market_gear") /\ pc' = "idle" /\ UNCHANGED <<cur, before>>
    BY <1>8, <2>1, <2>3, <2>4, Zenon DEF MarketFillGear
  <2> QED BY <1>1, <1>2, <2>5, <2>6, <2>7, RevokeEInv, Zenon
<1> QED BY <1>3, <1>4, <1>5, <1>7, <1>8, Zenon

\* The order of a FOK call is in the book when its handler looks at it.
LEMMA FokEntry ==
  ASSUME IInv, EInv, pc = "height", cur.form = "fok"
  PROVE  cur \in book
<1>1. evs = <<>> /\ GoodBook(Involved) /\ book = LeftOf(Involved, evs)
  BY DEF EInv, CallOrders
<1>2. book = Involved
  BY <1>1, LeftNone, Zenon
<1>3. cur # NoOrder
  BY DEF NoOrder
<1> QED BY <1>2, <1>3, Zenon DEF Involved

\* HeightRevoke: an IOC order that cannot trade any more reaches nobody.
LEMMA IocDone ==
  ASSUME IInv, pc = "height", cur.no \in Nos(book), NEW t \in book, NEW m \in book, Tops(t, m),
         t.no # cur.no \/ ~Crosses(t, m)
  PROVE  \A w \in SideOf(book, Opp(cur.side)) : ~Reach(cur.side, cur.price, w.price)
<1> SUFFICES ASSUME NEW w \in book, w.side = Opp(cur.side), Reach(cur.side, cur.price, w.price)
             PROVE  FALSE
  BY Zenon DEF SideOf
<1>1. cur.side \in Sides
  BY Zenon DEF IInv, CallInv, Orders
<1>2. \A o \in book : o.price \in Nat
  BY ConstantsOK, Zenon DEF ConstantsOK, IInv, TypeOK, Orders
<1>3. PICK c \in book : c.no = cur.no
  BY Zenon DEF Nos
<1>4. c.side = cur.side /\ c.price = cur.price
  BY <1>3, Zenon DEF IInv, EntryInv
<1>5. CASE t.no # cur.no
  <2>1. \A b, s \in book : (b.side = "buy" /\ s.side = "sell") => b.price < s.price
    BY <1>5, BehindBest, Zenon
  <2>2. CASE cur.side = "buy"
    <3>1. c.price < w.price /\ c.price >= w.price
      BY <1>4, <2>1, <2>2, Zenon DEF Opp, Reach
    <3> QED BY <1>2, <3>1
  <2>3. CASE cur.side = "sell"
    <3>1. w.price < c.price /\ c.price <= w.price
      BY <1>4, <2>1, <2>3, Zenon DEF Opp, Reach
    <3> QED BY <1>2, <3>1
  <2> QED BY <1>1, <2>2, <2>3, Zenon DEF Sides
<1>6. CASE t.no = cur.no /\ ~Crosses(t, m)
  <2>1. t = c
    BY <1>3, <1>6, Zenon DEF IInv, TypeOK
  <2>2. w = m \/ Precedes(m, w)
    BY Zenon DEF Tops, IsFirst, SideOf, IInv, TypeOK
  <2>3. CASE cur.side = "buy"
    <3>1. c.price < m.price /\ m.side = "sell" /\ c.price >= w.price
      BY <1>2, <1>4, <1>6, <2>1, <2>3 DEF Crosses, Tops, Opp, Reach
    <3>2. m.price <= w.price
      BY <1>2, <2>2, <3>1 DEF Precedes
    <3> QED BY <1>2, <3>1, <3>2
  <2>4. CASE cur.side = "sell"
    <3>1. c.price > m.price /\ m.side = "buy" /\ c.price <= w.price
      BY <1>2, <1>4, <1>6, <2>1, <2>4 DEF Crosses, Tops, Opp, Reach
    <3>2. w.price <= m.price
      BY <1>2, <2>2, <3>1 DEF Precedes
    <3> QED BY <1>2, <3>1, <3>2
  <2> QED BY <1>1, <2>3, <2>4 DEF Sides
<1> QED BY <1>5, <1>6, Zenon

\* PostOnly, IOC and the entry of FOK.
LEMMA HeightEInv ==
  ASSUME IInv, EInv,
         \/ PostOnlyRevoke \/ PostOnlyRest \/ HeightOppEmpty \/ IocFilled
         \/ HeightRevoke \/ IocFill \/ FokStart
  PROVE  EInv'
<1>1. pc = "height"
  BY DEF PostOnlyRevoke, PostOnlyRest, HeightOppEmpty, IocFilled, HeightRevoke, IocFill, FokStart
<1>2. "post_only" \in Reasons /\ IocOrFokReason \in Reasons
  BY DEF Reasons, IocOrFokReason
<1>3. cur.form = "fok" => evs = <<>>
  BY <1>1, Zenon DEF EInv
<1>4. CASE PostOnlyRevoke
  BY <1>1, <1>2, <1>4, AsItIs, RevokeEInv, Zenon DEF PostOnlyRevoke, Break
<1>5. CASE PostOnlyRest
  BY <1>1, <1>5, BreakEInv, Zenon DEF PostOnlyRest
<1>6. CASE HeightOppEmpty
  <2>1. \A m \in SideOf(book, Opp(cur.side)) : ~Reach(cur.side, cur.price, m.price)
    BY <1>6, Zenon DEF HeightOppEmpty, OppEmpty
  <2>2. RevokeCur(book, evs, IocOrFokReason) /\ pc' = "idle" /\ UNCHANGED <<cur, before>>
    BY <1>6, Zenon DEF HeightOppEmpty, Break
  <2> QED BY <1>1, <1>2, <1>3, <2>1, <2>2, AsItIs, RevokeEInv, Zenon
<1>7. CASE IocFilled
  <2>1. cur.form # "fok"
    <3> SUFFICES ASSUME cur.form = "fok" PROVE FALSE
      OBVIOUS
    <3>1. cur \in book
      BY <1>1, FokEntry, Zenon
    <3> QED BY <1>7, <3>1, Zenon DEF IocFilled, OwnEmpty, SideOf
  <2> QED BY <1>1, <1>7, <2>1, BreakEInv, Zenon DEF IocFilled
<1>8. CASE HeightRevoke
  <2>1. cur.form = "ioc" => \A m \in SideOf(book, Opp(cur.side)) : ~Reach(cur.side, cur.price, m.price)
    <3> SUFFICES ASSUME cur.form = "ioc"
                 PROVE  \A m \in SideOf(book, Opp(cur.side)) : ~Reach(cur.side, cur.price, m.price)
      BY Zenon
    <3>1. PICK t \in book, m \in book : Tops(t, m) /\ (t.no # cur.no \/ ~Crosses(t, m))
      BY <1>8, Zenon DEF HeightRevoke
    <3>2. cur.no \in Nos(book)
      BY <1>8, Zenon DEF HeightRevoke
    <3> QED BY <1>1, <3>1, <3>2, IocDone, Zenon
  <2>2. RevokeCur(book, evs, IocOrFokReason) /\ pc' = "idle" /\ UNCHANGED <<cur, before>>
    BY <1>8, Zenon DEF HeightRevoke, Break
  <2> QED BY <1>1, <1>2, <1>3, <2>1, <2>2, AsItIs, RevokeEInv, Zenon
<1>9. CASE IocFill
  <2>1. PICK t \in book, m \in book : Tops(t, m) /\ t.no = cur.no /\ Fill(t, m)
    BY <1>9, Zenon DEF IocFill
  <2>2. m.no # cur.no
    BY <1>1, <2>1, MakerIsOther, Zenon DEF Tops
  <2>3. IsFirst(book, m) /\ t.no # m.no /\ UNCHANGED <<pc, cur, before>> /\ cur.form # "fok"
    BY <1>9, <2>1, <2>2, Zenon DEF Tops, IocFill, Again
  <2> QED BY <1>1, <2>1, <2>3, FillEInv, Zenon
<1>10. CASE FokStart
  <2>1. /\ saved = {} /\ pc' = "fok" /\ cur.form = "fok"
        /\ UNCHANGED <<book, cur, saved, evs, before>>
    BY <1>1, <1>10, Zenon DEF FokStart, IInv, NotWalking
  <2>2. evs = <<>>
    BY <1>3, <2>1, Zenon
  <2>3. WalkHolds'
    BY <2>1, <2>2, FilledNone, Zenon DEF WalkHolds
  <2>4. IocTakesAll' /\ FokOutcome'
    BY <2>1, Zenon DEF IocTakesAll, FokOutcome
  <2>5. /\ book' = LeftOf(Involved, evs') /\ RevokesTrue(Involved, evs') /\ Passed(evs', book')
        /\ RevokedIn(evs') = {}
    BY <1>1, <2>1, Zenon DEF EInv
  <2> QED BY <2>1, <2>3, <2>4, <2>5, EInvStep, Zenon
<1> QED BY <1>4, <1>5, <1>6, <1>7, <1>8, <1>9, <1>10, Zenon

\* During a walk: the makers it has not met are in the book as they were, and
\* the book holds nothing else but what is left of the walked order.
LEMMA WalkBook ==
  ASSUME IInv, EInv, pc = "fok"
  PROVE  /\ saved \subseteq before
         /\ \A x \in before : x \in saved \/ x \in book
         /\ \A y \in book : y.no # cur.no => y \in before /\ Filled(evs, y.no) = 0
         /\ cur.form = "fok" /\ cur \in Involved /\ cur \in Orders /\ cur.consumed = 0
         /\ Involved = before \cup {cur} /\ cur.no \notin Nos(before)
<1>1. /\ GoodBook(Involved) /\ evs \in Seq(EventsType) /\ book = LeftOf(Involved, evs)
      /\ RevokedIn(evs) = {}
  BY Zenon DEF EInv, CallOrders, IInv, TypeOK
<1>2. cur.form = "fok" /\ cur # NoOrder
  BY DEF IInv, CallInv, NoOrder
<1>3. /\ cur \in Orders /\ cur.consumed = 0 /\ cur.no \notin Nos(before)
      /\ Involved = before \cup {cur}
  BY <1>2, Zenon DEF EInv, CallOrders, Involved
<1>4. saved \subseteq before /\ \A x \in before : Filled(evs, x.no) = 0 \/ x \in saved
  BY Zenon DEF EInv, WalkHolds
<1>5. ASSUME NEW x \in before PROVE x \in saved \/ x \in book
  <2>1. CASE Filled(evs, x.no) = 0
    <3>1. x \in Involved /\ x \in Orders /\ remaining(x) > 0
      BY <1>1, <1>3, Zenon DEF GoodBook
    <3>2. remaining(x) \in Int /\ Consume(x, 0) = x
      BY <3>1, ConsumeFields, Zenon
    <3>3. Filled(evs, x.no) < remaining(x) /\ x.no \notin RevokedIn(evs)
      BY <1>1, <2>1, <3>1, <3>2, Zenon
    <3>4. Consume(x, Filled(evs, x.no)) \in book
      BY <1>1, <3>1, <3>3, LeftMember, Zenon
    <3> QED BY <2>1, <3>2, <3>4, Zenon
  <2> QED BY <1>4, <2>1, Zenon
<1>6. ASSUME NEW y \in book, y.no # cur.no PROVE y \in before /\ Filled(evs, y.no) = 0
  <2>1. PICK u \in Involved : y = Consume(u, Filled(evs, u.no)) /\ u.no = y.no /\ u \in Orders
    BY <1>1, LeftElement
  <2>2. u \in before
    BY <1>3, <1>6, <2>1, Zenon
  <2>3. u \notin saved
    BY <2>1, Zenon DEF IInv, WalkInv, Nos
  <2>4. Filled(evs, u.no) = 0
    BY <1>4, <2>2, <2>3, Zenon
  <2>5. y = u
    BY <2>1, <2>4, ConsumeFields, Zenon
  <2> QED BY <2>2, <2>4, <2>5, Zenon
<1> QED BY <1>2, <1>3, <1>4, <1>5, <1>6, Zenon

\* rollback_fok_*: the book is what it was before the call, and the only event
\* is the revoke of the walked order.
LEMMA RollbackEInv ==
  ASSUME NEW B, NEW S, IInv, EInv, pc = "fok", GoodBook(B), S \subseteq before,
         \A x \in before : x \in S \/ x \in B,
         \A y \in B : y.no # cur.no => y \in before \/ y.no \in Nos(S),
         \E c \in B : c.no = cur.no /\ c.side = cur.side,
         FokRollback(B, S), UNCHANGED <<cur, before>>
  PROVE  EInv' /\ FillIdx' = {} /\ book' = before /\ cur.no \in RevokedIn(evs')
<1> DEFINE r == Restored(B, S)
           os == Found(r, cur.no, cur.side)
<1>1. book' = r \ os /\ evs' = RevokeEvents(os, "fok_fail") /\ pc' = "idle"
  <2>1. firstBb.no = cur.no /\ firstBb.side = cur.side
    BY Zenon DEF IInv, WalkInv
  <2> QED BY <2>1, Zenon DEF FokRollback
<1>2. /\ cur.form = "fok" /\ cur \in Involved /\ cur \in Orders
      /\ Involved = before \cup {cur} /\ cur.no \notin Nos(before)
  BY WalkBook, Zenon
<1>3. GoodBook(Involved)
  BY Zenon DEF EInv, CallOrders
<1>4. PICK c \in B : c.no = cur.no /\ c.side = cur.side
  BY Zenon
<1>5. cur.no \notin Nos(S)
  BY <1>2, Zenon DEF Nos
<1>6. os = {c}
  <2>1. c \in r
    BY <1>4, <1>5, Zenon DEF Restored
  <2>2. \A y \in r : y.no = cur.no => y = c
    BY <1>4, <1>5, Zenon DEF Restored, Nos, GoodBook
  <2> HIDE DEF r
  <2> QED BY <1>4, <2>1, <2>2, Zenon DEF Found
<1>7. \A y \in r : y = c \/ y \in before
  <2> SUFFICES ASSUME NEW y \in r, y \notin S PROVE y = c \/ y \in before
    BY Zenon
  <2>1. y \in B /\ y.no \notin Nos(S)
    BY Zenon DEF Restored
  <2>2. y.no = cur.no => y = c
    BY <1>4, <2>1, Zenon DEF GoodBook
  <2> QED BY <2>1, <2>2, Zenon
<1>8. \A x \in before : x \in r /\ x # c
  <2> SUFFICES ASSUME NEW x \in before PROVE x \in r /\ x # c
    BY Zenon
  <2>1. x # c
    BY <1>2, <1>4, Zenon DEF Nos
  <2>2. x \notin S => x \in B /\ x.no \notin Nos(S)
    BY <1>2, <1>3 DEF GoodBook, Nos
  <2> QED BY <2>1, <2>2, Zenon DEF Restored
<1> HIDE DEF r, os
<1>9. book' = before
  BY <1>1, <1>6, <1>7, <1>8, Zenon
<1>10. PICK x : x = RevokeEvent(c, "fok_fail")
  BY Zenon
<1>11. x \in EventsType /\ x.type = "revoke" /\ x.no = cur.no
  <2>1. c \in Orders /\ remaining(c) > 0
    BY Zenon DEF GoodBook
  <2>2. remaining(c) \in Nat
    BY <2>1, DealLemma, Zenon
  <2>3. c.no \in OrderNos
    BY <2>1, Zenon DEF Orders
  <2> QED BY <1>4, <1>10, <2>2, <2>3, Zenon DEF RevokeEvent, EventsType
<1>12. PICK e \in Seq(EventsType) : e = <<>>
  <2>1. <<>> \in Seq(EventsType)
    OBVIOUS
  <2> QED BY <2>1, Zenon
<1>13. PICK a : a = Append(e, x)
  BY Zenon
<1>14. evs' = a
  <2>1. RevokeEvents(os, "fok_fail") = <<x>>
    <3>1. (CHOOSE p \in os : TRUE) = c /\ os # {}
      BY <1>6, Zenon
    <3> QED BY <1>10, <3>1, Zenon DEF RevokeEvents
  <2>2. Append(<<>>, x) = <<x>>
    BY <1>11
  <2> QED BY <1>1, <1>12, <1>13, <2>1, <2>2, Zenon
<1>15. RevokedIn(a) = {cur.no}
  <2>1. RevokedIn(a) = RevokedIn(e) \cup {cur.no}
    <3>1. RevokedIn(a) = RevokedIn(e) \cup (IF x.type = "fill" THEN {} ELSE {x.no})
      BY <1>11, <1>13, RevokedAppend, Zenon
    <3> QED BY <1>11, <3>1, Zenon
  <2>2. RevokedIn(e) = {}
    BY <1>3, <1>12, LeftNone, Zenon
  <2> QED BY <2>1, <2>2, Zenon
<1>16. \A n : Filled(a, n) = 0
  <2> SUFFICES ASSUME NEW n PROVE Filled(a, n) = 0
    BY Zenon
  <2>1. Filled(a, n) = Filled(e, n) + Traded(x, n)
    BY <1>11, <1>13, FilledAppend, Zenon
  <2>2. Traded(x, n) = 0
    BY <1>11, Zenon DEF Traded
  <2>3. Filled(e, n) = 0
    BY <1>12, FilledNone, Zenon
  <2> QED BY <2>1, <2>2, <2>3
<1>17. DOMAIN a = {1} /\ a[1] = x
  BY <1>11, <1>12, <1>13
<1>18. LeftOf(Involved, a) = before
  <2>1. \A o \in Involved : /\ Consume(o, Filled(a, o.no)) = o /\ Filled(a, o.no) < remaining(o)
    <3> SUFFICES ASSUME NEW o \in Involved
                 PROVE  Consume(o, Filled(a, o.no)) = o /\ Filled(a, o.no) < remaining(o)
      BY Zenon
    <3>1. o \in Orders /\ remaining(o) > 0
      BY <1>3, Zenon DEF GoodBook
    <3>2. Consume(o, 0) = o /\ remaining(o) \in Int
      BY <3>1, ConsumeFields, Zenon
    <3> QED BY <1>16, <3>1, <3>2, Zenon
  <2>2. \A o \in Involved : o.no \notin RevokedIn(a) <=> o \in before
    BY <1>2, <1>15, Zenon DEF Nos
  <2>3. LeftOf(Involved, a) \subseteq before
    BY <2>1, <2>2, Zenon DEF LeftOf
  <2>4. ASSUME NEW o \in before PROVE o \in LeftOf(Involved, a)
    <3>1. o \in Involved
      BY <1>2, Zenon
    <3>2. o.no \notin RevokedIn(a) /\ Filled(a, o.no) < remaining(o)
      BY <2>1, <2>2, <3>1, Zenon
    <3>3. Consume(o, Filled(a, o.no)) \in LeftOf(Involved, a)
      BY <3>1, <3>2, LeftMember, Zenon
    <3> QED BY <2>1, <3>1, <3>3, Zenon
  <2> QED BY <2>3, <2>4, Zenon
<1>19. RevokesTrue(Involved, a)
  <2>1. \A o \in Involved : o.no = cur.no => o.form = "fok"
    BY <1>2, Zenon DEF Nos
  <2> QED BY <1>11, <1>17, <2>1, Zenon DEF RevokesTrue
<1>20. Passed(a, book') /\ FillIdx' = {}
  BY <1>11, <1>14, <1>17, Zenon DEF Passed, FillIdx
<1>21. cur.no \in RevokedIn(evs')
  BY <1>14, <1>15, Zenon
<1>22. WalkHolds' /\ IocTakesAll' /\ FokOutcome'
  BY <1>1, <1>2, <1>9, <1>20, <1>21, Zenon DEF WalkHolds, IocTakesAll, FokOutcome
<1>23. book' = LeftOf(Involved, evs') /\ RevokesTrue(Involved, evs') /\ Passed(evs', book')
  BY <1>9, <1>14, <1>18, <1>19, <1>20, Zenon
<1>24. EInv'
  BY <1>1, <1>22, <1>23, EInvStep, Zenon
<1> QED BY <1>9, <1>20, <1>21, <1>24, Zenon

\* One level of the walk, and its end at a price gap.
LEMMA FokEInv ==
  ASSUME IInv, EInv, FokFill \/ FokPriceGap
  PROVE  EInv'
<1>1. pc = "fok"
  BY Zenon DEF FokFill, FokPriceGap, WalkTops
<1>2. /\ saved \subseteq before /\ \A x \in before : x \in saved \/ x \in book
      /\ \A y \in book : y.no # cur.no => y \in before /\ Filled(evs, y.no) = 0
      /\ cur.form = "fok" /\ cur \in Involved /\ cur \in Orders /\ cur.consumed = 0
      /\ Involved = before \cup {cur} /\ cur.no \notin Nos(before)
  BY <1>1, WalkBook, Zenon
<1>3. firstBb.no = cur.no /\ firstBb.side = cur.side /\ GoodBook(book)
  BY <1>1, TypeGood, Zenon DEF IInv, WalkInv
<1>4. CASE FokPriceGap
  <2>1. PICK t \in book, m \in book : WalkTops(t, m) /\ ~Crosses(t, m)
    BY <1>4, Zenon DEF FokPriceGap
  <2>2. t.no = cur.no /\ t.side = cur.side
    BY <1>3, <2>1, Zenon DEF WalkTops
  <2>3. FokRollback(book, saved) /\ UNCHANGED <<cur, before>>
    BY <1>4, Zenon DEF FokPriceGap
  <2>4. \A y \in book : y.no # cur.no => y \in before \/ y.no \in Nos(saved)
    BY <1>2, Zenon
  <2>5. \E c \in book : c.no = cur.no /\ c.side = cur.side
    BY <2>2, Zenon
  <2> QED BY <1>1, <1>2, <1>3, <2>3, <2>4, <2>5, RollbackEInv, Zenon
<1>5. CASE FokFill
  <2> DEFINE Dealt(t, m) == AfterFill(book, t, m)
             More(t, m) == remaining(t) > DealQty(t, m)
  <2>1. PICK t \in book, m \in book :
          /\ WalkTops(t, m) /\ Crosses(t, m)
          /\ \/ More(t, m) /\ SideOf(Dealt(t, m), m.side) = {} /\ FokRollback(Dealt(t, m), saved \cup {m})
             \/ ~(More(t, m) /\ SideOf(Dealt(t, m), m.side) = {}) /\ Fill(t, m)
                /\ pc' = IF More(t, m) THEN "fok" ELSE "idle"
          /\ saved' = saved \cup {m}
    BY <1>5, ZenonT(30) DEF FokFill
  <2>2. UNCHANGED <<cur, before>>
    BY <1>5, Zenon DEF FokFill
  <2>3. t.no = cur.no /\ t.side = cur.side /\ m.side = Opp(cur.side) /\ IsFirst(book, m)
    BY <1>3, <2>1, Zenon DEF WalkTops
  <2>4. m.no # cur.no
    BY <1>1, <2>3, MakerIsOther, Zenon
  <2>5. m \in before
    BY <1>2, <2>4, Zenon
  <2>6. PICK B : B = AfterFill(book, t, m)
    OBVIOUS
  <2>7. PICK S : S = saved \cup {m}
    BY Zenon
  <2>8. PICK a : a = Append(evs, FillEvent(t, m, DealQty(t, m)))
    BY Zenon
  <2>9. t \in Orders /\ m \in Orders /\ remaining(t) > 0 /\ remaining(m) > 0
    BY <1>3, Zenon DEF GoodBook
  <2>10. PICK q \in Nat : /\ q = DealQty(t, m) /\ q > 0 /\ remaining(t) \in Nat
                          /\ q <= remaining(t)
    BY <2>9, DealLemma, Zenon
  <2>11. /\ GoodBook(B)
         /\ \A o \in B : o.no \notin {t.no, m.no} => o \in book
    BY <1>3, <2>3, <2>4, <2>6, FillLemma, Zenon
  <2>12. \A y \in book : y # t /\ y # m => y \in B
    BY <2>6, Zenon DEF AfterFill
  <2>13. CASE More(t, m) /\ FokRollback(B, S)
    <3>1. S \subseteq before
      BY <1>2, <2>5, <2>7, Zenon
    <3>2. \A x \in before : x \in S \/ x \in B
      <4> SUFFICES ASSUME NEW x \in before, x \notin S PROVE x \in B
        BY Zenon
      <4>1. x \in book /\ x # m
        BY <1>2, <2>7, Zenon
      <4>2. x # t
        BY <1>2, <2>3, Zenon DEF Nos
      <4> QED BY <2>12, <4>1, <4>2, Zenon
    <3>3. \A y \in B : y.no # cur.no => y \in before \/ y.no \in Nos(S)
      <4> SUFFICES ASSUME NEW y \in B, y.no # cur.no PROVE y \in before \/ y.no \in Nos(S)
        BY Zenon
      <4>1. CASE y.no = m.no
        BY <2>7, <4>1, Zenon DEF Nos
      <4>2. CASE y.no # m.no
        BY <1>2, <2>3, <2>11, <4>2, Zenon
      <4> QED BY <4>1, <4>2, Zenon
    <3>4. \E c \in B : c.no = cur.no /\ c.side = cur.side
      <4>1. Consume(t, q) \in B
        BY <2>6, <2>10, <2>13, Zenon DEF AfterFill
      <4>2. Consume(t, q).no = t.no /\ Consume(t, q).side = t.side
        BY <2>9, <2>10, ConsumeFields, Zenon
      <4> QED BY <2>3, <4>1, <4>2, Zenon
    <3> QED BY <1>1, <2>2, <2>11, <2>13, <3>1, <3>2, <3>3, <3>4, RollbackEInv
  <2>14. CASE Fill(t, m) /\ pc' = IF More(t, m) THEN "fok" ELSE "idle"
    <3>1. HitMade(t, m, B, a)
      BY <1>1, <2>3, <2>4, <2>6, <2>8, HitLemma, Zenon
    <3>2. book' = B /\ evs' = a
      BY <2>6, <2>8, <2>14, Zenon DEF Fill
    <3>3. /\ book' = LeftOf(Involved, evs') /\ RevokedIn(evs') = {}
          /\ RevokesTrue(Involved, evs') /\ Passed(evs', book')
      BY <3>1, <3>2, Zenon DEF HitMade
    <3>4. \A n : Filled(a, n) = Filled(evs, n) + (IF n \in {t.no, m.no} THEN q ELSE 0)
      BY <2>10, <3>1, Zenon DEF HitMade
    <3>5. WalkHolds'
      <4>1. ASSUME NEW x \in before PROVE Filled(a, x.no) = 0 \/ x \in S
        <5> SUFFICES ASSUME x \notin S PROVE Filled(a, x.no) = 0
          BY Zenon
        <5>1. x \in book /\ x.no # cur.no /\ x # m
          BY <1>2, <2>7, Zenon DEF Nos
        <5>2. x.no # m.no
          BY <1>3, <5>1, Zenon DEF GoodBook
        <5>3. Filled(evs, x.no) = 0
          BY <1>2, <5>1, Zenon
        <5> QED BY <2>3, <3>4, <5>1, <5>2, <5>3
      <4>2. saved' = S /\ S \subseteq before
        BY <1>2, <2>1, <2>5, <2>7, Zenon
      <4> QED BY <2>2, <3>2, <4>1, <4>2, Zenon DEF WalkHolds
    <3>6. FokOutcome'
      <4> SUFFICES ASSUME pc' = "idle"
                   PROVE  Filled(a, cur.no) = cur.number /\ cur.no \notin RevokedIn(a)
        BY <2>2, <3>2, Zenon DEF FokOutcome
      <4>1. q = remaining(t)
        BY <2>10, <2>14
      <4>2. /\ Filled(evs, cur.no) \in Nat /\ remaining(cur) \in Int
            /\ remaining(t) = remaining(cur) - Filled(evs, cur.no)
        BY <1>2, <2>3, BookEntry, Zenon
      <4>3. cur.number \in Nat
        BY <1>2, ConstantsOK, Zenon DEF ConstantsOK, Orders
      <4>4. remaining(cur) = cur.number
        BY <1>2, <4>3 DEF remaining
      <4>5. Filled(a, cur.no) = Filled(evs, cur.no) + q
        BY <2>3, <3>4, Zenon
      <4>6. PICK f \in Nat : f = Filled(evs, cur.no)
        BY <4>2, Zenon
      <4>7. Filled(a, cur.no) = cur.number
        BY ONLY <4>1, <4>2, <4>3, <4>4, <4>5, <4>6
      <4> QED BY <3>2, <3>3, <4>7, Zenon
    <3>7. IocTakesAll'
      BY <1>2, <2>2, Zenon DEF IocTakesAll
    <3>8. pc' # "height"
      BY <2>14, Zenon
    <3> QED BY <2>2, <3>3, <3>5, <3>6, <3>7, <3>8, EInvStep
  <2> QED BY <2>1, <2>6, <2>7, <2>13, <2>14
<1> QED BY <1>4, <1>5
----------------------------------------------------------------------------
\* The engine starts with nothing to explain.
LEMMA InitEInv == Init => EInv
<1> SUFFICES ASSUME Init PROVE EInv
  BY Zenon
<1>1. book = {} /\ before = {} /\ pc = "idle" /\ cur = NoOrder /\ evs = <<>>
  BY Zenon DEF Init
<1>2. Involved = {}
  BY <1>1, Zenon DEF Involved
<1>3. GoodBook({})
  BY Zenon DEF GoodBook
<1>4. LeftOf({}, <<>>) = {} /\ RevokesTrue({}, <<>>) /\ DOMAIN <<>> = {}
  BY <1>3, LeftNone
<1>5. CallOrders
  BY <1>1, <1>2, <1>3, Zenon DEF CallOrders
<1>6. book = LeftOf(Involved, evs) /\ RevokesTrue(Involved, evs)
  BY <1>1, <1>2, <1>4, Zenon
<1>7. Passed(evs, book) /\ WalkHolds /\ IocTakesAll /\ FokOutcome
  BY <1>1, <1>4, Zenon DEF Passed, WalkHolds, IocTakesAll, FokOutcome, NoOrder
<1> QED BY <1>1, <1>5, <1>6, <1>7, Zenon DEF EInv

\* Every step keeps the events true to the book.
LEMMA NextEInv == IInv /\ EInv /\ [Next]_vars => EInv'
<1> SUFFICES ASSUME IInv, EInv, [Next]_vars PROVE EInv'
  BY Zenon
<1>1. CASE OnOrder
  BY <1>1, OnRevokeEInv, RejectEInv, AcceptEInv, Zenon DEF OnOrder
<1>2. CASE Step
  BY <1>2, LimitEInv, MarketEInv, HeightEInv, FokEInv, Zenon DEF Step
<1>3. CASE UNCHANGED vars
  <2>1. UNCHANGED <<book, pc, cur, saved, evs, before>>
    BY <1>3, Zenon DEF vars
  <2>2. WalkHolds' /\ IocTakesAll' /\ FokOutcome'
    <3>1. WalkHolds /\ IocTakesAll /\ FokOutcome
      BY Zenon DEF EInv
    <3>2. RevokedNos' = RevokedNos /\ FillIdx' = FillIdx
      BY <2>1, Zenon DEF RevokedNos, FillIdx
    <3> QED BY <2>1, <3>1, <3>2, Zenon DEF WalkHolds, IocTakesAll, FokOutcome
  <2>3. /\ book' = LeftOf(Involved, evs') /\ RevokesTrue(Involved, evs') /\ Passed(evs', book')
        /\ pc' # "idle" => RevokedIn(evs') = {}
        /\ (pc' = "height" /\ cur.form = "fok") => evs' = <<>>
    BY <2>1 DEF EInv
  <2> QED BY <2>1, <2>2, <2>3, EInvStep, Zenon
<1> QED BY <1>1, <1>2, <1>3, Zenon DEF Next

\* The second inductive invariant holds in every state of every behaviour.
THEOREM EventsInvariant == Spec => [](IInv /\ EInv)
BY InitInv, NextInv, InitEInv, NextEInv, PTL DEF Spec

\* The events of a call are the whole truth about the book: the reported fills
\* and revokes, applied to the book before the call, give the book after it,
\* and every revoke reports what the fills left.  rollback_fok_* leaves no trace.
THEOREM EventsExplainTheBook == Spec => []EventsExplainBook
<1>1. IInv /\ EInv => EventsExplainBook
  <2> SUFFICES ASSUME IInv, EInv PROVE EventsExplainBook
    BY Zenon
  <2>1. TypeOK
    BY DEF IInv
  <2>2. RevokedNos = RevokedIn(evs)
    BY RevokedSame, Zenon
  <2>3. book = {Consume(o, FilledQty(o.no)) :
                 o \in {x \in Involved : x.no \notin RevokedNos /\ FilledQty(x.no) < remaining(x)}}
    BY <2>2, Zenon DEF EInv, LeftOf, FilledQty
  <2>4. \A i \in DOMAIN evs \ FillIdx : \A o \in Involved :
          (evs[i].no = o.no /\ o.form # "fok") => evs[i].remaining = remaining(o) - FilledQty(o.no)
    BY Zenon DEF EInv, RevokesTrue, FilledQty, FillIdx
  <2> QED BY <2>1, <2>3, <2>4, Zenon DEF EventsExplainBook
<1> QED BY <1>1, EventsInvariant, PTL
----------------------------------------------------------------------------
(* The third inductive invariant: what a FOK order takes, and what it could. *)

\* During the walk: what it has taken and what is still within reach is what
\* was within reach when the call began.
FokCount ==
  pc = "fok" => Available = Filled(evs, cur.no) + Total(WithinReach(book, cur))

\* The call revokes its FOK order exactly when the book had too little.
FokFits ==
  (pc = "idle" /\ cur.form = "fok") => (cur.no \in RevokedIn(evs) <=> Available < cur.number)

\* The call found a finite book, and the counts are right.
FInv == IsFiniteSet(before) /\ FokCount /\ FokFits

\* The book is finite when the one the call found was.
LEMMA BookFinite ==
  ASSUME EInv, IsFiniteSet(before)
  PROVE  IsFiniteSet(book)
<1>1. IsFiniteSet(Involved)
  <2>1. IsFiniteSet(before \cup {cur})
    BY FS_AddElement, Zenon
  <2>2. Involved \in SUBSET (before \cup {cur})
    BY DEF Involved
  <2> QED BY <2>1, <2>2, FS_Subset, Zenon
<1>2. PICK S : S = {x \in Involved : x.no \notin RevokedIn(evs) /\ Filled(evs, x.no) < remaining(x)}
  BY Zenon
<1>3. IsFiniteSet(S)
  <2>1. S \in SUBSET Involved
    BY <1>2, Zenon
  <2> QED BY <1>1, <2>1, FS_Subset, Zenon
<1>4. book = {Consume(o, Filled(evs, o.no)) : o \in S}
  BY <1>2, Zenon DEF EInv, LeftOf
<1> DEFINE f == [o \in S |-> Consume(o, Filled(evs, o.no))]
<1>5. f \in Surjection(S, book)
  BY <1>4, Zenon DEF Surjection
<1> HIDE DEF f
<1> QED BY <1>3, <1>5, FS_Surjection, Zenon

\* The orders of a book within reach are a side.
LEMMA ReachSide ==
  ASSUME NEW b, GoodBook(b), IsFiniteSet(b), NEW o
  PROVE  OneSide(WithinReach(b, o)) /\ WithinReach(b, o) \subseteq b
<1>1. WithinReach(b, o) \in SUBSET b
  BY Zenon DEF WithinReach, SideOf
<1>2. IsFiniteSet(WithinReach(b, o))
  BY <1>1, FS_Subset, Zenon
<1>3. \A x, y \in WithinReach(b, o) : x.side = y.side
  BY Zenon DEF WithinReach, SideOf
<1>4. GoodBook(WithinReach(b, o))
  BY <1>1, Zenon DEF GoodBook
<1> QED BY <1>1, <1>2, <1>3, <1>4, Zenon DEF OneSide

\* A call for another kind of order, or a new call.
LEMMA NotFokFInv ==
  ASSUME IsFiniteSet(before'), pc' # "fok", pc' = "idle" => cur'.form # "fok"
  PROVE  FInv'
BY Zenon DEF FInv, FokCount, FokFits

\* When the handler looks at a FOK order, the book is what it was, and the order.
LEMMA FokSees ==
  ASSUME IInv, EInv, pc = "height", cur.form = "fok"
  PROVE  /\ evs = <<>> /\ book = before \cup {cur} /\ cur \in book /\ cur.no \in Nos(book)
         /\ cur \in Orders /\ cur.number \in Nat /\ cur.number > 0
         /\ \A x \in book : x.no = cur.no => x = cur
         /\ WithinReach(book, cur) = WithinReach(before, cur)
<1>1. evs = <<>> /\ GoodBook(Involved) /\ book = LeftOf(Involved, evs)
  BY DEF EInv, CallOrders
<1>2. book = Involved /\ cur # NoOrder
  BY <1>1, LeftNone DEF NoOrder
<1>3. book = before \cup {cur}
  BY <1>2, Zenon DEF Involved
<1>4. cur \in Orders
  BY <1>1, <1>2, <1>3, Zenon DEF GoodBook
<1>5. cur.number \in Nat /\ cur.number > 0 /\ cur.side \in Sides
  <2>1. cur.number \in Nat \ {0} /\ cur.side \in Sides
    BY <1>4, ConstantsOK, Zenon DEF ConstantsOK, Orders
  <2> QED BY <2>1
<1>6. cur.side # Opp(cur.side)
  BY <1>5, Zenon DEF Opp, Sides
<1>7. WithinReach(book, cur) = WithinReach(before, cur)
  BY <1>3, <1>6, Zenon DEF WithinReach, SideOf
<1>8. \A x \in book : x.no = cur.no => x = cur
  BY <1>1, <1>2, <1>3, Zenon DEF GoodBook
<1> QED BY <1>1, <1>3, <1>4, <1>5, <1>7, <1>8, Zenon DEF Nos

\* The handler revokes a FOK order at once: nobody is within its reach.
LEMMA FokTurnedAway ==
  ASSUME IInv, EInv, FInv, pc = "height", cur.form = "fok", NEW r \in Reasons,
         RevokeCur(book, evs, r), pc' = "idle", UNCHANGED <<cur, before>>,
         \A w \in SideOf(book, Opp(cur.side)) : ~Reach(cur.side, cur.price, w.price)
  PROVE  FInv'
<1>1. /\ evs = <<>> /\ cur \in book /\ cur.number \in Nat /\ cur.number > 0
      /\ WithinReach(book, cur) = WithinReach(before, cur)
  BY FokSees, Zenon
<1>2. GoodBook(book) /\ IsFiniteSet(book) /\ evs \in Seq(EventsType)
  BY TypeGood, BookFinite, Zenon DEF IInv, FInv, TypeOK
<1>3. WithinReach(before, cur) = {}
  BY <1>1, Zenon DEF WithinReach
<1>4. Available = 0
  <2>1. OneSide(WithinReach(book, cur))
    BY <1>2, ReachSide, Zenon
  <2>2. Total(WithinReach(book, cur)) = 0
    BY <1>1, <1>3, <2>1, TotalNat, Zenon
  <2> QED BY <1>1, <2>2, Zenon DEF Available
<1>5. Available' = Available
  BY Zenon DEF Available
<1>6. cur.no \in RevokedIn(evs')
  <2>1. PICK a : a = evs'
    BY Zenon
  <2>2. PICK I : I = Involved
    BY Zenon
  <2>3. GoodBook(I) /\ book = LeftOf(I, evs) /\ RevokesTrue(I, evs)
    BY <2>2, Zenon DEF EInv, CallOrders
  <2>4. a = evs \o RevokeEvents(Found(book, cur.no, cur.side), r)
    BY <2>1, Zenon DEF RevokeCur
  <2>5. RevokeMade(I, book, cur.no, cur.side, evs, a)
    BY <1>2, <2>3, <2>4, LeftRevoke, Zenon
  <2>6. cur \in Found(book, cur.no, cur.side)
    BY <1>1, Zenon DEF Found
  <2> QED BY <2>1, <2>5, <2>6, Zenon DEF RevokeMade, Nos
<1>7. FokFits'
  BY <1>1, <1>4, <1>5, <1>6, Zenon DEF FokFits
<1> QED BY <1>7, Zenon DEF FInv, FokCount

\* The handlers' loops outside the walk.
LEMMA LoopFInv ==
  ASSUME IInv, EInv, FInv,
         \/ LimitStop \/ LimitFill
         \/ MarketOwnEmpty \/ MarketEmpty \/ MarketNotBest \/ MarketBlocked
         \/ MarketFill \/ MarketFillGear
  PROVE  FInv'
<1>1. pc \in {"limit", "market"} /\ pc' \in {"limit", "market", "idle"} /\ UNCHANGED <<cur, before>>
  BY Zenon DEF LimitStop, LimitFill, MarketOwnEmpty, MarketEmpty, MarketNotBest, MarketBlocked,
     MarketFill, MarketFillGear, MayMarketFill, BreakUnchanged, Break, Again
<1>2. cur.form # "fok" /\ cur'.form # "fok"
  BY <1>1, Zenon DEF IInv, CallInv
<1> QED BY <1>1, <1>2, NotFokFInv, Zenon DEF FInv

\* height_*_loop.
LEMMA HeightFInv ==
  ASSUME IInv, EInv, FInv,
         \/ PostOnlyRevoke \/ PostOnlyRest \/ HeightOppEmpty \/ IocFilled
         \/ HeightRevoke \/ IocFill \/ FokStart
  PROVE  FInv'
<1>1. pc = "height" /\ UNCHANGED <<cur, before>> /\ (pc' \in {"height", "idle"} \/ FokStart)
  BY Zenon DEF PostOnlyRevoke, PostOnlyRest, HeightOppEmpty, IocFilled, HeightRevoke, IocFill, FokStart,
     BreakUnchanged, Break, Again
<1>2. IocOrFokReason \in Reasons /\ IsFiniteSet(before')
  BY <1>1, Zenon DEF Reasons, IocOrFokReason, FInv
<1>3. CASE cur.form # "fok"
  <2>1. ~FokStart
    BY <1>3, Zenon DEF FokStart
  <2> QED BY <1>1, <1>2, <1>3, <2>1, NotFokFInv, Zenon
<1>4. CASE cur.form = "fok"
  <2>1. /\ evs = <<>> /\ cur \in book /\ cur.no \in Nos(book)
        /\ WithinReach(book, cur) = WithinReach(before, cur)
    BY <1>1, <1>4, FokSees, Zenon
  <2>2. CASE HeightOppEmpty
    <3>1. \A w \in SideOf(book, Opp(cur.side)) : ~Reach(cur.side, cur.price, w.price)
      BY <2>2, Zenon DEF HeightOppEmpty, OppEmpty
    <3>2. RevokeCur(book, evs, IocOrFokReason) /\ pc' = "idle"
      BY <2>2, Zenon DEF HeightOppEmpty, Break
    <3> QED BY <1>1, <1>2, <1>4, <3>1, <3>2, FokTurnedAway, Zenon
  <2>3. CASE HeightRevoke
    <3>1. PICK t \in book, m \in book : Tops(t, m) /\ (t.no # cur.no \/ ~Crosses(t, m))
      BY <2>3, Zenon DEF HeightRevoke
    <3>2. \A w \in SideOf(book, Opp(cur.side)) : ~Reach(cur.side, cur.price, w.price)
      BY <1>1, <2>1, <3>1, IocDone, Zenon
    <3>3. RevokeCur(book, evs, IocOrFokReason) /\ pc' = "idle"
      BY <2>3, Zenon DEF HeightRevoke, Break
    <3> QED BY <1>1, <1>2, <1>4, <3>2, <3>3, FokTurnedAway, Zenon
  <2>4. CASE FokStart
    <3>1. pc' = "fok" /\ UNCHANGED <<book, evs>>
      BY <2>4, Zenon DEF FokStart
    <3>2. Filled(evs, cur.no) = 0
      BY <2>1, FilledNone, Zenon
    <3>3. OneSide(WithinReach(book, cur))
      BY BookFinite, TypeGood, ReachSide, Zenon DEF IInv, FInv
    <3>4. Total(WithinReach(book, cur)) \in Nat
      BY <3>3, TotalNat, Zenon
    <3>5. Available = Filled(evs, cur.no) + Total(WithinReach(book, cur))
      BY <2>1, <3>2, <3>4 DEF Available
    <3>6. Available' = Filled(evs', cur'.no) + Total(WithinReach(book', cur'))
      BY <1>1, <3>1, <3>5, Zenon DEF Available
    <3> QED BY <1>2, <3>1, <3>6, Zenon DEF FInv, FokCount, FokFits
  <2>5. ~PostOnlyRevoke /\ ~PostOnlyRest /\ ~IocFill /\ ~IocFilled
    BY <1>4, <2>1, Zenon DEF PostOnlyRevoke, PostOnlyRest, IocFill, IocFilled, OwnEmpty, SideOf
  <2> QED BY <2>2, <2>3, <2>4, <2>5, Zenon
<1> QED BY <1>3, <1>4, Zenon

\* rollback_fok_* reports nothing but the revoke of the walked order.
LEMMA RollbackRevokes ==
  ASSUME NEW B, NEW S, IInv', EInv', FokRollback(B, S), cur' = cur,
         cur.form = "fok", cur \in Orders
  PROVE  cur.no \in RevokedIn(evs')
<1> SUFFICES ASSUME cur.no \notin RevokedIn(evs') PROVE FALSE
  BY Zenon
<1>1. PICK os : evs' = RevokeEvents(os, "fok_fail") /\ pc' = "idle"
  BY Zenon DEF FokRollback
<1>2. PICK a \in Seq(EventsType) : a = evs'
  BY Zenon DEF IInv, TypeOK
<1>3. FokOutcome'
  BY Zenon DEF EInv
<1>4. Filled(a, cur.no) = cur.number
  BY <1>1, <1>2, <1>3, Zenon DEF FokOutcome
<1>5. Filled(a, cur.no) = 0
  <2>1. CASE os = {}
    <3>1. a = <<>>
      BY <1>1, <1>2, <2>1, Zenon DEF RevokeEvents
    <3> QED BY <3>1, FilledNone, Zenon
  <2>2. CASE os # {}
    <3>1. PICK x : x = RevokeEvent(CHOOSE o \in os : TRUE, "fok_fail")
      BY Zenon
    <3>2. a = <<x>> /\ x.type = "revoke"
      BY <1>1, <1>2, <2>2, <3>1, Zenon DEF RevokeEvents, RevokeEvent
    <3>3. x \in EventsType
      <4>1. Len(a) = 1 /\ a[1] = x
        BY <3>2, Zenon
      <4> QED BY <4>1
    <3>4. PICK e \in Seq(EventsType) : e = <<>>
      <4>1. <<>> \in Seq(EventsType)
        OBVIOUS
      <4> QED BY <4>1, Zenon
    <3>5. a = Append(e, x)
      BY <3>2, <3>4
    <3>6. Filled(a, cur.no) = Filled(e, cur.no) + Traded(x, cur.no)
      BY <3>3, <3>5, FilledAppend, Zenon
    <3>7. Filled(e, cur.no) = 0 /\ Traded(x, cur.no) = 0
      BY <3>2, <3>4, FilledNone, Zenon DEF Traded
    <3> QED BY <3>6, <3>7
  <2> QED BY <2>1, <2>2, Zenon
<1>6. cur.number \in Nat \ {0}
  BY ConstantsOK, Zenon DEF ConstantsOK, Orders
<1> QED BY <1>4, <1>5, <1>6, Zenon

\* During a walk: the walked order, what it has taken, and what it could.
LEMMA WalkSees ==
  ASSUME IInv, EInv, FInv, pc = "fok", NEW t \in book, NEW m \in book, WalkTops(t, m)
  PROVE  /\ t.no = cur.no /\ t.side = cur.side /\ t.price = cur.price
         /\ m.side = Opp(cur.side) /\ IsFirst(book, m) /\ m.no # cur.no /\ cur.side # Opp(cur.side)
         /\ t \in Orders /\ m \in Orders /\ remaining(t) > 0 /\ remaining(m) > 0
         /\ cur \in Orders /\ cur.form = "fok" /\ cur.number \in Nat
         /\ Filled(evs, cur.no) \in Nat /\ remaining(t) = cur.number - Filled(evs, cur.no)
         /\ Available = Filled(evs, cur.no) + Total(WithinReach(book, cur))
         /\ OneSide(WithinReach(book, cur)) /\ GoodBook(book)
<1>1. /\ cur.form = "fok" /\ cur \in Involved /\ cur \in Orders /\ cur.consumed = 0
  BY WalkBook, Zenon
<1>2. firstBb.no = cur.no /\ firstBb.side = cur.side /\ GoodBook(book)
  BY TypeGood, Zenon DEF IInv, WalkInv
<1>3. t.no = cur.no /\ t.side = cur.side /\ m.side = Opp(cur.side) /\ IsFirst(book, m)
  BY <1>2, Zenon DEF WalkTops
<1>4. m.no # cur.no
  BY <1>3, MakerIsOther, Zenon
<1>5. /\ Filled(evs, cur.no) \in Nat /\ remaining(cur) \in Int /\ t.price = cur.price
      /\ remaining(t) = remaining(cur) - Filled(evs, cur.no)
  BY <1>1, <1>3, BookEntry, Zenon
<1>6. cur.number \in Nat /\ cur.side \in Sides
  BY <1>1, ConstantsOK, Zenon DEF ConstantsOK, Orders
<1>7. remaining(cur) = cur.number
  BY <1>1, <1>6 DEF remaining
<1>8. cur.side # Opp(cur.side)
  BY <1>6, Zenon DEF Opp, Sides
<1>9. Available = Filled(evs, cur.no) + Total(WithinReach(book, cur))
  BY Zenon DEF FInv, FokCount
<1>10. OneSide(WithinReach(book, cur))
  BY <1>2, BookFinite, ReachSide, Zenon DEF FInv
<1>11. t \in Orders /\ m \in Orders /\ remaining(t) > 0 /\ remaining(m) > 0
  BY <1>2, Zenon DEF GoodBook
<1> QED BY <1>1, <1>2, <1>3, <1>4, <1>5, <1>6, <1>7, <1>8, <1>9, <1>10, <1>11, Zenon

\* A level of the walk that the order outlives takes the first maker within
\* reach, and nothing else of the other side.
LEMMA LevelTaken ==
  ASSUME NEW b, NEW t \in b, NEW m \in b, NEW o, t.side # Opp(o.side), m.side = Opp(o.side),
         t \in Orders, m \in Orders, remaining(t) > 0, remaining(m) > 0,
         remaining(t) > DealQty(t, m)
  PROVE  WithinReach(AfterFill(b, t, m), o) = WithinReach(b, o) \ {m} /\ DealQty(t, m) = remaining(m)
<1>1. PICK q \in Nat : /\ q = DealQty(t, m) /\ remaining(t) \in Nat /\ remaining(m) \in Nat
                       /\ q = remaining(t) \/ q = remaining(m)
  BY DealLemma, Zenon
<1>2. q = remaining(m) /\ ~(remaining(m) > q) /\ remaining(t) > q
  BY <1>1
<1>3. {x \in {t, m} : remaining(x) > q} = {t}
  BY <1>2, Zenon
<1>4. AfterFill(b, t, m) = (b \ {t, m}) \cup {Consume(t, q)}
  BY <1>1, <1>3, Zenon DEF AfterFill
<1>5. PICK c : c = Consume(t, q)
  BY Zenon
<1>6. c.side = t.side
  BY <1>5, ConsumeFields, Zenon
<1>7. WithinReach((b \ {t, m}) \cup {c}, o) = WithinReach(b, o) \ {m}
  BY <1>6, Zenon DEF WithinReach, SideOf
<1> QED BY <1>1, <1>2, <1>4, <1>5, <1>7, Zenon

\* One level of the walk.
LEMMA FokFillFInv ==
  ASSUME IInv, EInv, FInv, IInv', EInv', FokFill
  PROVE  FInv'
<1>1. pc = "fok" /\ UNCHANGED <<cur, before>>
  BY Zenon DEF FokFill, WalkTops
<1> DEFINE Dealt(t, m) == AfterFill(book, t, m)
           More(t, m) == remaining(t) > DealQty(t, m)
<1>2. PICK t \in book, m \in book :
        /\ WalkTops(t, m) /\ Crosses(t, m)
        /\ \/ More(t, m) /\ SideOf(Dealt(t, m), m.side) = {} /\ FokRollback(Dealt(t, m), saved \cup {m})
           \/ ~(More(t, m) /\ SideOf(Dealt(t, m), m.side) = {}) /\ Fill(t, m)
              /\ pc' = IF More(t, m) THEN "fok" ELSE "idle"
  BY ZenonT(30) DEF FokFill
<1>3. /\ t.no = cur.no /\ t.side = cur.side /\ t.price = cur.price
      /\ m.side = Opp(cur.side) /\ IsFirst(book, m) /\ m.no # cur.no /\ cur.side # Opp(cur.side)
      /\ t \in Orders /\ m \in Orders /\ remaining(t) > 0 /\ remaining(m) > 0
      /\ cur \in Orders /\ cur.form = "fok" /\ cur.number \in Nat
      /\ Filled(evs, cur.no) \in Nat /\ remaining(t) = cur.number - Filled(evs, cur.no)
      /\ Available = Filled(evs, cur.no) + Total(WithinReach(book, cur))
      /\ OneSide(WithinReach(book, cur)) /\ GoodBook(book)
  BY <1>1, <1>2, WalkSees, Zenon
<1>4. PICK W : W = WithinReach(book, cur)
  BY Zenon
<1>5. m \in W /\ IsFirst(W, m)
  <2>1. Reach(cur.side, cur.price, m.price)
    BY <1>2, <1>3, CrossesReach, Zenon
  <2> QED BY <1>3, <1>4, <2>1, Zenon DEF WithinReach, SideOf, IsFirst
<1>6. /\ remaining(m) \in Nat /\ Total(W \ {m}) \in Nat
      /\ Total(W) = remaining(m) + Total(W \ {m})
  BY <1>3, <1>4, <1>5, TotalFirst, Zenon
<1>7. PICK q \in Nat : q = DealQty(t, m) /\ q <= remaining(m) /\ remaining(t) \in Nat
  BY <1>3, DealLemma, Zenon
<1>8. PICK F \in Nat, A, R \in Nat, M \in Nat, N \in Nat :
        /\ F = Filled(evs, cur.no) /\ A = Available /\ R = Total(W \ {m}) /\ M = remaining(m)
        /\ N = cur.number /\ A = F + (M + R) /\ remaining(t) = N - F
  BY <1>3, <1>4, <1>6
<1>9. Available' = A
  BY <1>1, <1>8, Zenon DEF Available
<1>10. IsFiniteSet(before')
  BY <1>1, Zenon DEF FInv
<1>11. CASE More(t, m) /\ SideOf(Dealt(t, m), m.side) = {} /\ FokRollback(Dealt(t, m), saved \cup {m})
  <2>1. WithinReach(Dealt(t, m), cur) = W \ {m} /\ q = M
    BY <1>3, <1>4, <1>7, <1>8, <1>11, LevelTaken
  <2>2. W \ {m} = {}
    BY <1>3, <1>11, <2>1, Zenon DEF WithinReach
  <2>3. R = 0
    <3>1. OneSide(W \ {m})
      BY <1>3, <1>4, OneSidePart, Zenon
    <3> QED BY <1>8, <2>2, <3>1, TotalNat, Zenon
  <2>4. A < N
    BY ONLY <1>7, <1>8, <1>11, <2>1, <2>3
  <2>5. cur.no \in RevokedIn(evs') /\ pc' = "idle"
    BY <1>1, <1>3, <1>11, RollbackRevokes, Zenon DEF FokRollback
  <2>6. FokFits'
    BY <1>1, <1>8, <1>9, <2>4, <2>5, Zenon DEF FokFits
  <2> QED BY <1>10, <2>5, <2>6, Zenon DEF FInv, FokCount
<1>12. CASE Fill(t, m) /\ pc' = IF More(t, m) THEN "fok" ELSE "idle"
  <2>1. PICK a : a = Append(evs, FillEvent(t, m, DealQty(t, m)))
    BY Zenon
  <2>2. PICK B : B = AfterFill(book, t, m)
    OBVIOUS
  <2>3. HitMade(t, m, B, a)
    BY <1>1, <1>3, <2>1, <2>2, HitLemma, Zenon
  <2>4. book' = B /\ evs' = a
    BY <1>12, <2>1, <2>2, Zenon DEF Fill
  <2>5. RevokedIn(a) = {} /\ Filled(a, cur.no) = F + q
    BY <1>3, <1>7, <1>8, <2>3, Zenon DEF HitMade
  <2>6. CASE More(t, m)
    <3>1. WithinReach(B, cur) = W \ {m} /\ q = M
      BY <1>3, <1>4, <1>7, <1>8, <2>2, <2>6, LevelTaken
    <3>2. A = Filled(a, cur.no) + Total(WithinReach(B, cur))
      BY ONLY <1>7, <1>8, <2>5, <3>1
    <3>3. pc' = "fok"
      BY <1>12, <2>6, Zenon
    <3>4. FokCount'
      BY <1>1, <1>9, <2>4, <3>2, Zenon DEF FokCount
    <3> QED BY <1>10, <3>3, <3>4, Zenon DEF FInv, FokFits
  <2>7. CASE ~More(t, m)
    <3>1. pc' = "idle"
      BY <1>12, <2>7, Zenon
    <3>2. Filled(a, cur.no) = N
      BY <1>1, <1>3, <1>8, <2>4, <2>5, <3>1, Zenon DEF EInv, FokOutcome
    <3>3. ~(A < N)
      BY ONLY <1>7, <1>8, <2>5, <3>2
    <3>4. FokFits'
      BY <1>1, <1>8, <1>9, <2>4, <2>5, <3>3, Zenon DEF FokFits
    <3> QED BY <1>10, <3>1, <3>4, Zenon DEF FInv, FokCount
  <2> QED BY <2>6, <2>7, Zenon
<1> QED BY <1>2, <1>11, <1>12, Zenon

\* The walk's end at a price gap.
LEMMA FokGapFInv ==
  ASSUME IInv, EInv, FInv, IInv', EInv', FokPriceGap
  PROVE  FInv'
<1>1. pc = "fok" /\ UNCHANGED <<cur, before>> /\ FokRollback(book, saved)
  BY Zenon DEF FokPriceGap, WalkTops
<1>2. PICK t \in book, m \in book : WalkTops(t, m) /\ ~Crosses(t, m)
  BY Zenon DEF FokPriceGap
<1>3. /\ t.no = cur.no /\ t.side = cur.side /\ t.price = cur.price
      /\ m.side = Opp(cur.side) /\ IsFirst(book, m)
      /\ t \in Orders /\ m \in Orders /\ remaining(t) > 0
      /\ cur \in Orders /\ cur.form = "fok" /\ cur.number \in Nat
      /\ Filled(evs, cur.no) \in Nat /\ remaining(t) = cur.number - Filled(evs, cur.no)
      /\ Available = Filled(evs, cur.no) + Total(WithinReach(book, cur))
      /\ OneSide(WithinReach(book, cur)) /\ GoodBook(book)
  BY <1>1, <1>2, WalkSees, Zenon
<1>4. WithinReach(book, cur) = {}
  <2> SUFFICES ASSUME NEW w \in book, w.side = Opp(cur.side), Reach(cur.side, cur.price, w.price)
               PROVE  FALSE
    BY Zenon DEF WithinReach, SideOf
  <2>1. w \in Orders /\ (w.no = m.no => w = m)
    BY <1>3, Zenon DEF GoodBook
  <2>2. /\ w.price \in Nat /\ m.price \in Nat /\ cur.price \in Nat
        /\ w.side \in Sides /\ cur.side \in Sides
    BY <1>3, <2>1, ConstantsOK, Zenon DEF ConstantsOK, Orders
  <2>3. w.no # m.no => Precedes(m, w)
    BY <1>3, Zenon DEF IsFirst, SideOf
  <2>4. ~Reach(cur.side, cur.price, m.price)
    BY <1>2, <1>3, Zenon DEF Crosses, Reach
  <2> QED BY <1>3, <2>1, <2>2, <2>3, <2>4 DEF Precedes, Reach, Opp, Sides
<1>5. Total(WithinReach(book, cur)) = 0
  BY <1>3, <1>4, TotalNat, Zenon
<1>6. Available < cur.number
  BY ONLY <1>3, <1>5
<1>7. cur.no \in RevokedIn(evs') /\ pc' = "idle"
  BY <1>1, <1>3, RollbackRevokes, Zenon DEF FokRollback
<1>8. Available' = Available
  BY <1>1, Zenon DEF Available
<1>9. FokFits'
  BY <1>1, <1>6, <1>7, <1>8, Zenon DEF FokFits
<1> QED BY <1>1, <1>7, <1>9, Zenon DEF FInv, FokCount

\* Every step keeps the count of what a FOK order can take.
LEMMA NextFInv == IInv /\ EInv /\ FInv /\ IInv' /\ EInv' /\ [Next]_vars => FInv'
<1> SUFFICES ASSUME IInv, EInv, FInv, IInv', EInv', [Next]_vars PROVE FInv'
  BY Zenon
<1>1. CASE OnOrder
  <2>1. /\ before' = book
        /\ \/ pc' = "idle" /\ cur' = NoOrder
           \/ \E o \in Incoming : pc' = HandlerOf(o.form)
    BY <1>1, Zenon DEF OnOrder, OnRevoke, RejectDuplicate, Accept, StartCall
  <2>2. IsFiniteSet(before')
    BY <2>1, BookFinite, Zenon DEF FInv
  <2>3. pc' # "fok" /\ (pc' = "idle" => cur'.form # "fok")
    BY <2>1 DEF HandlerOf, NoOrder
  <2> QED BY <2>2, <2>3, NotFokFInv, Zenon
<1>2. CASE Step
  BY <1>2, LoopFInv, HeightFInv, FokFillFInv, FokGapFInv, Zenon DEF Step
<1>3. CASE UNCHANGED vars
  <2>1. UNCHANGED <<book, pc, cur, evs, before>>
    BY <1>3, Zenon DEF vars
  <2>2. Available' = Available
    BY <2>1, Zenon DEF Available
  <2> QED BY <2>1, <2>2, Zenon DEF FInv, FokCount, FokFits
<1> QED BY <1>1, <1>2, <1>3, Zenon DEF Next

\* The three inductive invariants hold in every state of every behaviour.
THEOREM PromisesInvariant == Spec => [](IInv /\ EInv /\ FInv)
<1>1. Init => FInv
  BY FS_EmptySet DEF Init, FInv, FokCount, FokFits, NoOrder
<1> QED BY <1>1, InitInv, NextInv, InitEInv, NextEInv, NextFInv, PTL DEF Spec

\* A FOK order trades in full when the book it met holds enough within its limit,
\* and otherwise leaves no trace but its revoke; no better-placed resting order is
\* ever passed over; an IOC order is revoked only when nothing within its limit
\* is left.
THEOREM PromisesAreKept == Spec => []TradesAsPromised
<1>1. EInv /\ FInv => FokAllOrNothing
  <2> SUFFICES ASSUME EInv, FInv, pc = "idle", cur.form = "fok"
               PROVE  IF Available >= cur.number
                      THEN FilledQty(cur.no) = cur.number /\ cur.no \notin RevokedNos
                      ELSE FillIdx = {} /\ book = before /\ cur.no \in RevokedNos
    BY Zenon DEF FokAllOrNothing
  <2>1. RevokedNos = RevokedIn(evs)
    BY RevokedSame, Zenon
  <2>2. cur.no \in RevokedNos <=> Available < cur.number
    BY <2>1, Zenon DEF FInv, FokFits
  <2>3. \/ FilledQty(cur.no) = cur.number /\ cur.no \notin RevokedNos
        \/ FillIdx = {} /\ book = before /\ cur.no \in RevokedNos
    BY <2>1, Zenon DEF EInv, FokOutcome, FilledQty
  <2>4. cur.number \in Nat /\ Available \in Nat
    <3>1. cur # NoOrder
      BY DEF NoOrder
    <3>2. cur \in Orders /\ GoodBook(Involved) /\ before \subseteq Involved
      BY <3>1, Zenon DEF EInv, CallOrders, Involved
    <3>3. cur.number \in Nat
      BY <3>2, ConstantsOK, Zenon DEF ConstantsOK, Orders
    <3>4. GoodBook(before)
      BY <3>2, Zenon DEF GoodBook
    <3>5. OneSide(WithinReach(before, cur))
      BY <3>4, ReachSide, Zenon DEF FInv
    <3> QED BY <3>3, <3>5, TotalNat, Zenon DEF Available
  <2> QED BY <2>2, <2>3, <2>4
<1>2. EInv => NoTradeThrough
  BY Zenon DEF EInv, Passed, NoTradeThrough, FillIdx
<1>3. EInv => IocTakesAll
  BY DEF EInv
<1>4. EInv /\ FInv => TradesAsPromised
  BY <1>1, <1>2, <1>3, Zenon DEF TradesAsPromised, ImmediatePromises
<1> QED BY <1>4, PromisesInvariant, PTL

\* A fill takes an order out of the book.
LEMMA FillShrinks ==
  ASSUME NEW b, GoodBook(b), IsFiniteSet(b), NEW t \in b, NEW m \in b, t # m
  PROVE  Cardinality(AfterFill(b, t, m)) < Cardinality(b)
<1>1. t \in Orders /\ m \in Orders /\ remaining(t) > 0 /\ remaining(m) > 0
  BY Zenon DEF GoodBook
<1>2. PICK q \in Nat : /\ q = DealQty(t, m) /\ remaining(t) \in Nat /\ remaining(m) \in Nat
                       /\ q = remaining(t) \/ q = remaining(m)
  BY <1>1, DealLemma, Zenon
<1>3. PICK c : \A x \in {t, m} : remaining(x) > q => Consume(x, q) = c
  <2>1. CASE q = remaining(t)
    <3>1. \A x \in {t, m} : remaining(x) > q => Consume(x, q) = Consume(m, q)
      BY <1>2, <2>1
    <3> QED BY <3>1, Zenon
  <2>2. CASE q = remaining(m)
    <3>1. \A x \in {t, m} : remaining(x) > q => Consume(x, q) = Consume(t, q)
      BY <1>2, <2>2
    <3> QED BY <3>1, Zenon
  <2> QED BY <1>2, <2>1, <2>2, Zenon
<1>4. PICK r : r = b \ {t}
  BY Zenon
<1>5. PICK s : s = r \ {m}
  BY Zenon
<1>6. IsFiniteSet(r) /\ Cardinality(r) = Cardinality(b) - 1 /\ m \in r
  BY <1>4, FS_RemoveElement, Zenon
<1>7. IsFiniteSet(s) /\ Cardinality(s) = Cardinality(r) - 1
  BY <1>5, <1>6, FS_RemoveElement, Zenon
<1>8. IsFiniteSet(s \cup {c}) /\ Cardinality(s \cup {c}) = IF c \in s THEN Cardinality(s) ELSE Cardinality(s) + 1
  BY <1>7, FS_AddElement, Zenon
<1>9. AfterFill(b, t, m) \in SUBSET (s \cup {c})
  BY <1>2, <1>3, <1>4, <1>5, Zenon DEF AfterFill
<1>10. IsFiniteSet(AfterFill(b, t, m)) /\ Cardinality(AfterFill(b, t, m)) <= Cardinality(s \cup {c})
  BY <1>8, <1>9, FS_Subset, Zenon
<1>11. Cardinality(b) \in Nat /\ Cardinality(s) \in Nat /\ Cardinality(AfterFill(b, t, m)) \in Nat
  BY <1>7, <1>10, FS_CardinalityType, Zenon
<1> QED BY <1>6, <1>7, <1>8, <1>10, <1>11

\* Every on_order call returns: an iteration that does not end its call takes an
\* order out of the book, or enters the FOK walk, which is never left for another
\* loop.
THEOREM LoopsAlwaysAdvance == Spec => LoopsAdvance
<1> DEFINE L == (pc # "idle" /\ pc' # "idle") =>
                  \/ pc' = pc /\ Cardinality(book') < Cardinality(book)
                  \/ pc = "height" /\ pc' = "fok"
<1>1. IInv /\ EInv /\ FInv /\ [Next]_vars => [L]_vars
  <2> SUFFICES ASSUME IInv, EInv, FInv, Next, pc # "idle", pc' # "idle"
               PROVE  \/ pc' = pc /\ Cardinality(book') < Cardinality(book)
                      \/ pc = "height" /\ pc' = "fok"
    BY Zenon
  <2>1. GoodBook(book) /\ IsFiniteSet(book)
    BY TypeGood, BookFinite, Zenon DEF IInv, FInv
  <2>2. CASE FokStart
    BY <2>2, Zenon DEF FokStart
  <2>3. ASSUME NEW t \in book, NEW m \in book, t.no # m.no, Fill(t, m), pc' = pc
        PROVE  pc' = pc /\ Cardinality(book') < Cardinality(book)
    BY <2>1, <2>3, FillShrinks, Zenon DEF Fill
  <2>4. cur.side # Opp(cur.side)
    BY Zenon DEF IInv, CallInv, Orders, Opp, Sides
  <2>5. CASE LimitFill \/ MarketFill \/ IocFill
    <3>1. PICK t \in book, m \in book : Tops(t, m) /\ Fill(t, m)
      BY <2>5, Zenon DEF LimitFill, MarketFill, IocFill, MayMarketFill
    <3>2. pc' = pc
      BY <2>5, Zenon DEF LimitFill, MarketFill, IocFill, Again
    <3>3. t.no # m.no
      BY <2>1, <2>4, <3>1, Zenon DEF Tops, GoodBook
    <3> QED BY <2>3, <3>1, <3>2, <3>3, Zenon
  <2>6. CASE FokFill
    <3>1. pc = "fok"
      BY <2>6, Zenon DEF FokFill, WalkTops
    <3>2. PICK t \in book, m \in book : WalkTops(t, m) /\ (pc' = "idle" \/ (Fill(t, m) /\ pc' \in {"fok", "idle"}))
      BY <2>6, Zenon DEF FokFill, FokRollback
    <3>3. t.no # m.no
      BY <2>1, <2>4, <3>1, <3>2, Zenon DEF WalkTops, GoodBook, IInv, WalkInv
    <3> QED BY <2>3, <3>1, <3>2, <3>3, Zenon
  <2>7. CASE OnOrder
    BY <2>7, Zenon DEF OnOrder, OnRevoke, RejectDuplicate, Accept, StartCall
  <2>8. \/ OnOrder \/ FokStart \/ FokFill \/ LimitFill \/ MarketFill \/ IocFill
        \/ LimitStop \/ MarketOwnEmpty \/ MarketEmpty \/ MarketNotBest \/ MarketBlocked \/ MarketFillGear
        \/ PostOnlyRevoke \/ PostOnlyRest \/ HeightOppEmpty \/ IocFilled \/ HeightRevoke \/ FokPriceGap
    BY Zenon DEF Next, Step
  <2>9. ~(\/ LimitStop \/ MarketOwnEmpty \/ MarketEmpty \/ MarketNotBest \/ MarketBlocked \/ MarketFillGear
          \/ PostOnlyRevoke \/ PostOnlyRest \/ HeightOppEmpty \/ IocFilled \/ HeightRevoke \/ FokPriceGap)
    BY Zenon DEF LimitStop, MarketOwnEmpty, MarketEmpty, MarketNotBest, MarketBlocked, MarketFillGear,
       PostOnlyRevoke, PostOnlyRest, HeightOppEmpty, IocFilled, HeightRevoke, FokPriceGap,
       BreakUnchanged, Break, FokRollback
  <2> QED BY <2>2, <2>5, <2>6, <2>7, <2>8, <2>9, Zenon
<1>2. Spec => [][L]_vars
  <2> HIDE DEF L
  <2> QED BY <1>1, PromisesInvariant, PTL DEF Spec
<1> QED BY <1>2, Zenon DEF LoopsAdvance
=============================================================================
