---------------------------- MODULE DepthLevels ----------------------------
(***************************************************************************)
(* The depth of one side of a book: match-core's depth_levels, which       *)
(* match-contract pushes, and match-spot's build_depth_levels.  The side   *)
(* grows order by order in book order, best price first; here the best     *)
(* price is the lowest.  Both builders skip used-up orders, so there are    *)
(* some here, although the engine keeps none.                              *)
(***************************************************************************)
EXTENDS Naturals, SequencesExt, FiniteSetsExt

CONSTANTS
  Prices,
  Qtys,          \* remaining quantities, 0 included
  MaxLimit,      \* bound: the level limits asked for
  MaxResting     \* bound: orders on the side

VARIABLE resting \* the side, in price-time order

Order(p, q, traded) == [price |-> p, remaining |-> q, trust |-> q + traded]

Init == resting = <<>>

Next ==
  /\ Len(resting) < MaxResting
  /\ \E p \in Prices, q \in Qtys, traded \in {0, 1} :
       /\ resting # <<>> => Last(resting).price <= p
       /\ resting' = Append(resting, Order(p, q, traded))

Spec == Init /\ [][Next]_resting
----------------------------------------------------------------------------

Level(o) == [price |-> o.price, qty |-> o.remaining]
SameLevel(levels, o) == levels # <<>> /\ Last(levels).price = o.price
Merged(levels, o) == [levels EXCEPT ![Len(levels)].qty = @ + o.remaining]

\* (faulty form of PushDepthLevel) the limit is tested before the price
PushWithinLimit(levels, limit, o) ==
  IF Len(levels) >= limit THEN levels
  ELSE IF SameLevel(levels, o) THEN Merged(levels, o) ELSE Append(levels, Level(o))

PushDepthLevel(levels, limit, o) ==
  IF SameLevel(levels, o) THEN Merged(levels, o)
  ELSE IF Len(levels) < limit THEN Append(levels, Level(o)) ELSE levels

\* depth_levels_from_orders of match-core.
CoreLevels(os, limit) ==
  IF limit = 0 THEN <<>>
  ELSE FoldLeft(LAMBDA levels, o : IF o.remaining = 0 THEN levels ELSE PushDepthLevel(levels, limit, o),
                <<>>, os)

\* build_depth_levels of match-spot: the walk ends as soon as there are
\* `limit' levels; the sum is over the quantities the orders came with.
SpotLevels(os, limit) ==
  FoldLeft(LAMBDA acc, o :
             IF Len(acc.levels) >= limit \/ o.remaining = 0 THEN acc
             ELSE [levels |-> IF SameLevel(acc.levels, o) THEN Merged(acc.levels, o)
                              ELSE Append(acc.levels, Level(o)),
                   sum |-> acc.sum + o.trust],
           [levels |-> <<>>, sum |-> 0], os)
----------------------------------------------------------------------------

Live(os) == SelectSeq(os, LAMBDA o : o.remaining > 0)
PriceSeq(os) == SetToSortSeq({Live(os)[i].price : i \in DOMAIN Live(os)}, <)
AtPrice(os, p) == {i \in DOMAIN os : os[i].price = p}
Total(os, p) == MapThenSumSet(LAMBDA i : os[i].remaining, AtPrice(os, p))

\* match-core's depth is, for the best `limit' prices, all that rests at
\* each.  match-spot's is the same except that the level that reaches the
\* limit shows its first order only; its sum covers the orders shown.
DepthExact ==
  \A limit \in 0..MaxLimit :
    LET ps == PriceSeq(resting)
        n == Min({limit, Len(ps)})
        exact == [i \in 1..n |-> [price |-> ps[i], qty |-> Total(resting, ps[i])]]
        spot == SpotLevels(resting, limit)
        live == Live(resting)
        first == Min(AtPrice(live, ps[n]))
        shown == IF n = limit THEN 1..first ELSE DOMAIN live
    IN /\ CoreLevels(resting, limit) = exact
       /\ n = 0 => spot = [levels |-> <<>>, sum |-> 0]
       /\ n > 0 =>
            /\ spot.levels = IF n = limit THEN [exact EXCEPT ![n].qty = live[first].remaining] ELSE exact
            /\ spot.sum = MapThenSumSet(LAMBDA i : live[i].trust, shown)
=============================================================================
