------------------------------ MODULE ArtIndex ------------------------------
(***************************************************************************)
(* The radix tree over price ticks of match-core-hp (feature "art"): the   *)
(* ArtMap behind ArtBidIndex and ArtAskIndex.  A node is identified by the *)
(* bytes that lead to it; the tree is a function from such paths to nodes. *)
(* Keys have Depth bytes of Base values instead of 8 of 256.  A level is   *)
(* reduced to its total lot.                                               *)
(***************************************************************************)
EXTENDS Integers, Sequences, TLC, FiniteSets, FiniteSetsExt

CONSTANTS
    Base,    \* values of a byte, an even number
    Depth,   \* bytes of a key
    Ticks,   \* the ticks used, within -SignBit .. SignBit - 1
    Lots     \* total lots of a level

KeySpace == Base ^ Depth
SignBit == KeySpace \div 2

VARIABLE tree   \* path -> node; the empty function when root is None

Inner == [kind |-> "inner"]
Leaf(tick, lot) == [kind |-> "leaf", key |-> tick, lot |-> lot]
Root == <<>>

\* (faulty form of KeyBytes) The sign bit is not flipped.
KeyBytesUnsigned(tick) ==
    [i \in 1 .. Depth |-> ((tick % KeySpace) \div Base ^ (Depth - i)) % Base]

\* The tick in two's complement with its sign bit flipped, big-endian.
KeyBytes(tick) ==
    LET key == ((tick % KeySpace) + SignBit) % KeySpace
    IN  [i \in 1 .. Depth |-> (key \div Base ^ (Depth - i)) % Base]

With(t, path, node) ==
    [p \in DOMAIN t \cup {path} |-> IF p = path THEN node ELSE t[p]]

Without(t, path) == [p \in DOMAIN t \ {path} |-> t[p]]

ChildBytes(t, path) == {b \in 0 .. Base - 1 : Append(path, b) \in DOMAIN t}

\* (faulty form of Split) The level that was there is dropped.
SplitDrops(t, path) == With(t, path, Inner)

RECURSIVE InsertUnder(_, _, _, _)

\* A leaf in the way becomes an inner node, and its level goes below it.
Split(t, path) ==
    InsertUnder(With(t, path, Inner), path, t[path].key, t[path].lot)

InsertUnder(t, path, tick, lot) ==
    IF t[path].kind = "leaf"
    THEN IF t[path].key = tick THEN With(t, path, Leaf(tick, lot))
         ELSE InsertUnder(Split(t, path), path, tick, lot)
    ELSE LET child == Append(path, KeyBytes(tick)[Len(path) + 1]) IN
         IF Len(child) = Depth THEN With(t, child, Leaf(tick, lot))
         ELSE InsertUnder(IF child \in DOMAIN t THEN t ELSE With(t, child, Inner),
                       child, tick, lot)

Inserted(tick, lot) ==
    IF DOMAIN tree = {} THEN Root :> Leaf(tick, lot)
    ELSE InsertUnder(tree, Root, tick, lot)

\* The path get and get_mut end at: none, or one whose leaf has the key.
RECURSIVE FindUnder(_, _, _)
FindUnder(t, path, tick) ==
    IF path \notin DOMAIN t THEN {}
    ELSE IF t[path].kind = "leaf"
         THEN {p \in {path} : t[p].key = tick}
         ELSE FindUnder(t, Append(path, KeyBytes(tick)[Len(path) + 1]), tick)

Get(tick) == {tree[p].lot : p \in FindUnder(tree, Root, tick)}

\* Once a child is gone, its parent goes too if it has no other, and so on up
\* to the root.
RECURSIVE Pruned(_, _)
Pruned(t, path) ==
    IF ChildBytes(t, path) # {} THEN t
    ELSE IF path = Root THEN Without(t, Root)
         ELSE Pruned(Without(t, path), SubSeq(path, 1, Len(path) - 1))

RemoveUnder(t, path) ==
    IF path = Root THEN Without(t, Root)
    ELSE Pruned(Without(t, path), SubSeq(path, 1, Len(path) - 1))

\* best_tick_ask (min) and best_tick_bid: follow the first or last child.
RECURSIVE Extreme(_, _, _)
Extreme(t, path, min) ==
    IF path \notin DOMAIN t THEN {}
    ELSE IF t[path].kind = "leaf" THEN {t[path].key}
    ELSE IF ChildBytes(t, path) = {} THEN {}
    ELSE LET bs == ChildBytes(t, path)
         IN  Extreme(t, Append(path, IF min THEN Min(bs) ELSE Max(bs)), min)

\* depth_ask (ascending) and depth_bid: at most n levels, in child order.
RECURSIVE Walk(_, _, _, _, _)
Walk(t, path, ascending, n, out) ==
    IF Len(out) >= n \/ path \notin DOMAIN t THEN out
    ELSE IF t[path].kind = "leaf" THEN Append(out, <<t[path].key, t[path].lot>>)
    ELSE LET child(k) == Append(path, IF ascending THEN k - 1 ELSE Base - k)
             upTo[k \in 0 .. Base] ==
                 IF k = 0 THEN out ELSE Walk(t, child(k), ascending, n, upTo[k - 1])
         IN  upTo[Base]

-----------------------------------------------------------------------------
Init == tree = [p \in {} |-> Inner]

Insert(tick, lot) == tree' = Inserted(tick, lot)

\* The caller changes the level it got from get_mut.
Update(tick, lot) ==
    \E p \in FindUnder(tree, Root, tick) : tree' = [tree EXCEPT ![p].lot = lot]

Remove(tick) ==
    \E p \in FindUnder(tree, Root, tick) : tree' = RemoveUnder(tree, p)

Next ==
    \E tick \in Ticks :
        \/ Remove(tick)
        \/ \E lot \in Lots : Insert(tick, lot) \/ Update(tick, lot)

Spec == Init /\ [][Next]_tree

-----------------------------------------------------------------------------
Paths == UNION {[1 .. d -> 0 .. Base - 1] : d \in 0 .. Depth}

\* Nodes have paths of at most Depth bytes; leaves hold ticks and lots.
TypeOK ==
    \A p \in DOMAIN tree :
        /\ p \in Paths
        /\ tree[p] \in {Inner} \cup {Leaf(t, l) : t \in Ticks, l \in Lots}

LeafPaths == {p \in DOMAIN tree : tree[p].kind = "leaf"}

\* The levels held, whatever the lookups find.
Held == [t \in {tree[p].key : p \in LeafPaths} |->
            tree[CHOOSE p \in LeafPaths : tree[p].key = t].lot]

\* A leaf is the root or stands below its own bytes, one leaf per tick; every
\* inner node has a child and a parent.  insert splits only a root leaf, as the
\* comment in insert_at_inner_child says, and remove leaves no dead branch for
\* extreme to end in.
WellFormed ==
    \A p \in DOMAIN tree :
        /\ p # Root => /\ SubSeq(p, 1, Len(p) - 1) \in DOMAIN tree
                       /\ tree[SubSeq(p, 1, Len(p) - 1)] = Inner
        /\ tree[p] = Inner => ChildBytes(tree, p) # {}
        /\ tree[p].kind = "leaf" =>
               \/ p = Root /\ DOMAIN tree = {Root}
               \/ p = KeyBytes(tree[p].key)

InOrder(ascending, t, u) == IF ascending THEN t < u ELSE t > u

\* get finds exactly the levels held; best_tick is the least ask and the
\* greatest bid; depth(n) lists the n best levels, best first, with their lots.
LookupsAgree ==
    /\ \A t \in Ticks : Get(t) = IF t \in DOMAIN Held THEN {Held[t]} ELSE {}
    /\ \A ascending \in BOOLEAN :
        /\ Extreme(tree, Root, ascending) =
               {t \in DOMAIN Held :
                   \A u \in DOMAIN Held \ {t} : InOrder(ascending, t, u)}
        /\ \A n \in 0 .. Cardinality(Ticks) :
            LET out == Walk(tree, Root, ascending, n, <<>>) IN
            /\ Len(out) = Min({n, Cardinality(DOMAIN Held)})
            /\ \A i \in DOMAIN out :
                /\ out[i][1] \in DOMAIN Held /\ out[i][2] = Held[out[i][1]]
                /\ Cardinality({t \in DOMAIN Held : InOrder(ascending, t, out[i][1])}) = i - 1

\* The tree has the shape the lookups rely on, and they answer from it exactly.
TreeSound == TypeOK /\ WellFormed /\ LookupsAgree

Abstract == INSTANCE LevelMap WITH levels <- Held

\* The tree implements a map from ticks to levels: no insert loses another
\* level when it splits a leaf, no remove takes one along when it prunes.
ImplementsMap == Abstract!Spec
=============================================================================
