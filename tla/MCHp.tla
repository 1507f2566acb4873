-------------------------------- MODULE MCHp --------------------------------
(* match-core-hp in one model: a behaviour is one of the engine, one of    *)
(* the command ring or one of the radix tree, as `part' says; the three    *)
(* share nothing.                                                          *)
EXTENDS SpscRing, Integers

\* Keys of three base-4 bytes, ticks -32 .. 31; the ticks used share no, one
\* or two leading bytes and lie on both sides of zero and at the ends.
MCBase == 4
MCDepth == 3
MCTicks == {-32, -17, -2, -1, 0, 1, 31}
MCLots == {1, 2}

\* Three slots, two clients and a pool of one recycled level; a lot of 0 is
\* refused, and a market command may have a fill limit of 1.
HpTicks == {1, 2}
HpLots == {0, 1, 2}
HpClients == {1, 7}
HpMaxFills == {{}, {1}}

VARIABLES tree, book, clientToId, taker, evs, part

Art == INSTANCE ArtIndex
           WITH Base <- MCBase, Depth <- MCDepth, Ticks <- MCTicks, Lots <- MCLots

Hp == INSTANCE HpEngine
          WITH Ticks <- HpTicks, Lots <- HpLots, Clients <- HpClients, MaxFills <- HpMaxFills,
               MaxOrders <- 3, LevelPoolCap <- 1
ASSUME EngineConstants == Hp!HpConstants

engineVars == <<book, clientToId, taker, evs>>
allVars == <<vars, tree, engineVars, part>>

PartInit == Init /\ Art!Init /\ Hp!Init /\ part \in {"ring", "tree", "engine"}

InRing(A) == part = "ring" /\ A /\ UNCHANGED <<tree, engineVars, part>>

PartNext ==
    \/ part = "ring" /\ Next /\ UNCHANGED <<tree, engineVars, part>>
    \/ part = "tree" /\ Art!Next /\ UNCHANGED <<vars, engineVars, part>>
    \/ part = "engine" /\ Hp!Next /\ UNCHANGED <<vars, tree, part>>

\* The fairness of SpscRing's FairSpec.
PartSpec ==
    /\ PartInit /\ [][PartNext]_allVars
    /\ WF_allVars(InRing(PopLoadsTail)) /\ WF_allVars(InRing(PopRead))
    /\ WF_allVars(InRing(PopPublish)) /\ WF_allVars(InRing(Drain))

\* insert splits only a root leaf, remove leaves no dead branch, and get, best_tick
\* and depth of the radix tree answer from exactly the levels held.
TreeSound == Art!TreeSound

\* The tree implements a map from ticks to levels: insert and remove of one tick
\* never touch another.
ImplementsMap == Art!ImplementsMap

\* Store, free list, levels, cached best ticks and client_to_id of the engine
\* describe the same orders after every step of every command.
StructuresAgree == Hp!StructuresAgree

\* The engine implements one price-time queue per side.
ImplementsQueue == Hp!ImplementsQueue
=============================================================================
