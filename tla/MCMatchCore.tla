---------------------------- MODULE MCMatchCore ----------------------------
(* The engine, and the replicated state machine that runs an engine on     *)
(* every replica.  A behaviour is of one of them, as `part' says.          *)
EXTENDS MatchCore, SequencesExt

(* RaftFsm: a limit order and market orders of at most one fill and of     *)
(* none, on an engine whose answers depend on everything it executed: a    *)
(* market order fills the limit orders that rest, up to its limit, and the *)
(* rest of it is revoked.                                                  *)
CONSTANTS Replicas, Keys, MaxLog, MaxRestarts

LimitOrder == [kind |-> "limit", maxFills |-> {}]
MarketOne == [kind |-> "market", maxFills |-> {1}]
MarketZero == [kind |-> "market", maxFills |-> {0}]

Rests(executed) ==
    FoldLeft(LAMBDA n, c : IF c.kind = "limit" THEN n + 1
                           ELSE IF c.maxFills = {1} /\ n > 0 THEN n - 1 ELSE 0, 0, executed)

MCEvents(executed, c) ==
    IF c.kind = "limit" THEN <<"rest">>
    ELSE IF c.maxFills = {0} THEN <<"revoke">>
    ELSE LET n == IF c.maxFills = {1} /\ Rests(executed) > 1 THEN 1 ELSE Rests(executed)
         IN [i \in 1..n |-> "fill"] \o <<"revoke">>

VARIABLES log, sent, waiting, replica, snapshots, answers, restarts

Raft == INSTANCE RaftFsm
            WITH saved <- snapshots, Events <- MCEvents,
                 Commands <- {LimitOrder, MarketOne, MarketZero}

raftVars == <<log, sent, waiting, replica, snapshots, answers, restarts>>

VARIABLE part

\* The part that does not run stands still.
PartInit == part \in {"engine", "raft"} /\ Init /\ Raft!Init

PartNext ==
    \/ part = "engine" /\ Next /\ UNCHANGED <<raftVars, part>>
    \/ part = "raft" /\ Raft!Next /\ UNCHANGED <<vars, part>>

PartSpec == PartInit /\ [][PartNext]_<<vars, raftVars, part>>

\* Time priority needs two creation times; only limit orders of quantity 1
\* carry the second one, which keeps the state space small.
FewLater ==
  (cur' # cur /\ cur'.time = 2) => (cur'.form = "limit" /\ cur'.number = 1)

\* A replica's state is the one execution of each key of the log prefix it
\* applied, however it got there, and a caller is told of that execution.
ReplicasFollowLog == part = "raft" => Raft!StateFollowsLog /\ Raft!AnswersAreOwn
============================================================================
