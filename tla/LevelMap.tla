------------------------------ MODULE LevelMap ------------------------------
(* What a LevelIndex promises: a map from price ticks to levels.           *)
EXTENDS Integers

CONSTANTS Ticks, Lots

VARIABLE levels   \* a function from the ticks present to their total lot

Init == levels = [t \in {} |-> 0]

Insert(t, lot) ==
    levels' = [u \in DOMAIN levels \cup {t} |-> IF u = t THEN lot ELSE levels[u]]

Remove(t) == levels' = [u \in DOMAIN levels \ {t} |-> levels[u]]

Next == \E t \in Ticks : Remove(t) \/ \E lot \in Lots : Insert(t, lot)

Spec == Init /\ [][Next]_levels

=============================================================================
