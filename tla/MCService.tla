----------------------------- MODULE MCService -----------------------------
(* The inbound path, the outbound path, the depth and the in-memory sink   *)
(* of the services in one model: a behaviour is of one of them, as `part'  *)
(* says.                                                                   *)
EXTENDS Outbound

Shape(f, s, k, q) == [form |-> f, side |-> s, kind |-> k, qty |-> q]

\* Users, robots and market makers, meeting each other in every pairing.
MCShapes ==
    {Shape("limit", "buy", "user", 1), Shape("limit", "buy", "robot", 1),
     Shape("limit", "sell", "robot", 1), Shape("market", "sell", "maker", 2)}

\* One publisher with a body of two orders and one more, another with a
\* single order; order 2 is invalid, the symbol of order 4 has no channel.
MCPublishers == {"p", "q"}
MCBodies == [p \in MCPublishers |-> IF p = "p" THEN <<<<1, 2>>, <<3>>>> ELSE <<<<4>>>>]
MCSymbol == <<"a", "b", "a", "x", "a", "a">>

VARIABLES inbox, running, installed, lock, at, hand, batch, left, starts, chan, taken,
          refused, buffered, resting, delivered, files, sendPc, number, calls, results, part

Source == INSTANCE MemorySource
              WITH Publishers <- MCPublishers, Bodies <- MCBodies, Rows <- <<5, 6>>,
                   Symbol <- MCSymbol, Registered <- {"a", "b"}, Invalid <- {2},
                   Capacity <- 1, PollerOf <- <<"poller1", "poller2">>

Depth == INSTANCE DepthLevels
             WITH Prices <- 1 .. 3, Qtys <- 0 .. 2, MaxLimit <- 3, MaxResting <- 4

\* Two workers with a topic each, as the symbols' deal topics are, and one
\* whose topic fails.
Workers == {"u", "v", "w"}
Sink == INSTANCE MemorySink
            WITH Workers <- Workers, TopicOf <- [w \in Workers |-> w], FailTopics <- {"w"},
                 MaxSends <- 2

sinkVars == <<delivered, files, sendPc, number, calls, results>>
sourceVars == <<inbox, running, installed, lock, at, hand, batch, left, starts, chan, taken,
                refused, buffered>>
allVars == <<vars, sourceVars, resting, sinkVars, part>>

PartInit ==
    /\ Init /\ Source!Init /\ Depth!Init /\ Sink!Init
    /\ part \in {"inbound", "outbound", "depth", "sink"}
    /\ part # "outbound" => flavour = "spot"

PartNext ==
    \/ part = "inbound" /\ Source!Next /\ UNCHANGED <<vars, resting, sinkVars, part>>
    \/ part = "outbound" /\ Next /\ UNCHANGED <<sourceVars, resting, sinkVars, part>>
    \/ part = "depth" /\ Depth!Next /\ UNCHANGED <<vars, sourceVars, sinkVars, part>>
    \/ part = "sink" /\ Sink!Next /\ UNCHANGED <<vars, sourceVars, resting, part>>

\* Nothing in the sources' fairness is enabled in their initial state.
PartSpec == PartInit /\ [][PartNext]_allVars /\ Source!Fairness

\* Bounds: time passes or sends fail, which do not depend on each other; a
\* failing send is tried on one symbol; contract does not look at kinds, so
\* one of the two buys is enough there.
Bounded ==
    /\ faults > 0 => clock = 0 /\ Cardinality({orders[i].sym : i \in DOMAIN orders}) = 1
    /\ flavour # "spot" => \A i \in DOMAIN orders : 
          orders[i].order.kind = "robot" => orders[i].order.side = "sell"

\* What each order did to the book is reported once, in order, to the topics
\* of its kind, and the depth sent lags no further than the interval.
ReportsComplete == part = "outbound" => EventsReported /\ DepthLag

\* A worker with a topic of its own finds each of its sends in a file, and
\* the files in the order of the sends.
FilePerSend == part = "sink" => Sink!EverySendHasFile /\ Sink!FilesInOrder

\* Through publish, start, pollers and router no order is lost or doubled,
\* restored orders come first, and only buffered orders are overtaken.
HandedOverOnce == part = "inbound" => Source!HandedOverOnce

\* An order that raced with start and went to the inbox ends in a channel or
\* is refused by the router, as long as the source runs.
BufferedIsHandled == Source!BufferedIsHandled

\* Both depth builders against the sum of what rests at each price.
DepthExact == part = "depth" => Depth!DepthExact
=============================================================================
