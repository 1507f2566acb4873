-------------------------- MODULE ContractInbound --------------------------
(***************************************************************************)
(* The inbound side of match-contract: the bootstrap that restores the     *)
(* open orders from the order service, the START_QUEUE / BigNo window that *)
(* keeps the message queue from executing a restored order again, the      *)
(* bounded per-symbol channels and the symbol workers.                     *)
(*                                                                         *)
(* External parts, modelled from how the crate uses them: the order        *)
(* service (its rows, the messages it sends, the results it applies) and   *)
(* the message queue, which delivers each topic in order, at least once:   *)
(* after a restart it goes back to an earlier offset.  The engine is       *)
(* reduced to what matters here: it ignores the number of a resting order  *)
(* and an order may finish when it arrives or when a later one trades.     *)
(***************************************************************************)
EXTENDS Naturals, Sequences, FiniteSets, Functions

CONSTANTS
    Symbols,        \* the symbols of this shard
    SymbolOf,       \* SymbolOf[n]: the symbol of order number n
    InvalidSets,    \* the sets that invalid is chosen from
    QueueCapacity,  \* match.queue_capacity
    PageSize,       \* rows per page of the entrust list
    MaxCrashes,     \* bound: how often the process stops
    MaxRevokes      \* bound: cancellations sent

Orders == DOMAIN SymbolOf

ASSUME ShapeAssumption ==
    /\ Orders \subseteq Nat /\ 0 \notin Orders /\ IsFiniteSet(Orders)
    /\ \A n \in Orders : SymbolOf[n] \in Symbols
    /\ InvalidSets \subseteq SUBSET Orders
ASSUME SizeAssumption ==
    /\ QueueCapacity \in Nat /\ QueueCapacity > 0
    /\ PageSize \in Nat /\ PageSize > 0
    /\ MaxCrashes \in Nat /\ MaxRevokes \in Nat

VARIABLES
    db,        \* order service: what it says of each number
    invalid,   \* order service: the numbers check_mq_order or type_convert refuses
    unsent,    \* order service: numbers committed, place message not yet sent
    results,   \* results pushed by a worker, not yet applied to db
    topic,     \* message queue: the messages of each symbol's topic
    offset,    \* message queue: how many of them this process has been given
    phase,     \* "down", "fetching", "restoring", "consuming"
    cursor,    \* fetch_all_entrusts: the cursor
    rows,      \* fetch_all_entrusts: rows read and not yet restored
    restored,  \* StartQueueState.restored
    bigNo,     \* StartQueueState.big_no
    active,    \* StartQueueState.active
    ttl,       \* progress of the TTL task through clear()
    handling,  \* per topic, the message between is_active and the map lock
    queue,     \* the channel of each symbol
    book,      \* the numbers resting in the engines
    runs,      \* ghost: executions of each number by this process
    known,     \* ghost: [open, closed] as the rows were read
    given,     \* ghost: messages this process has decided on
    overflow,  \* ghost: messages refused by a full channel
    early,     \* ghost: the TTL expired before the backlog was handled
    crashes

orderService == <<db, invalid, unsent, results>>
broker == <<topic, offset>>
bootstrap == <<phase, cursor, rows, crashes>>
startQueue == <<restored, bigNo, active, ttl>>
workers == <<queue, book, runs>>
ghosts == <<known, given, overflow, early>>
vars == <<orderService, broker, bootstrap, startQueue, handling, workers, ghosts>>

Place(n) == [kind |-> "place", no |-> n]
Revoke(n) == [kind |-> "revoke", no |-> n]
Messages == {Place(n) : n \in Orders} \cup {Revoke(n) : n \in Orders}

Init ==
    /\ invalid \in InvalidSets
    /\ db = [n \in Orders |-> "none"] /\ unsent = {} /\ results = {}
    /\ topic = [s \in Symbols |-> <<>>] /\ offset = [s \in Symbols |-> 0]
    /\ phase = "down" /\ cursor = 0 /\ rows = <<>> /\ crashes = 0
    /\ restored = {} /\ bigNo = 0 /\ active = TRUE /\ ttl = "armed"
    /\ handling = [s \in Symbols |-> {}]
    /\ queue = [s \in Symbols |-> <<>>] /\ book = {}
    /\ runs = [n \in Orders |-> 0]
    /\ known = [open |-> {}, closed |-> {}] /\ given = {} /\ overflow = {}
    /\ early = FALSE

-----------------------------------------------------------------------------
(* The order service and the message queue (external).                     *)

\* Numbers are committed in increasing order; the message follows later.
CommitOrder(n) ==
    /\ db[n] = "none"
    /\ \A m \in Orders : m < n => db[m] # "none"
    /\ db' = [db EXCEPT ![n] = "open"]
    /\ unsent' = unsent \cup {n}
    /\ UNCHANGED <<invalid, results, broker, bootstrap, startQueue, handling, workers, ghosts>>

SendPlace(n) ==
    /\ n \in unsent
    /\ unsent' = unsent \ {n}
    /\ topic' = [topic EXCEPT ![SymbolOf[n]] = Append(@, Place(n))]
    /\ UNCHANGED <<db, invalid, results, offset, bootstrap, startQueue, handling, workers, ghosts>>

RevokesSent == {n \in Orders : Revoke(n) \in Range(topic[SymbolOf[n]])}

SendRevoke(n) ==
    /\ db[n] = "open" /\ n \notin unsent \cup RevokesSent
    /\ Cardinality(RevokesSent) < MaxRevokes
    /\ topic' = [topic EXCEPT ![SymbolOf[n]] = Append(@, Revoke(n))]
    /\ UNCHANGED <<orderService, offset, bootstrap, startQueue, handling, workers, ghosts>>

ApplyResult(n) ==
    /\ n \in results
    /\ results' = results \ {n}
    /\ db' = [db EXCEPT ![n] = "closed"]
    /\ UNCHANGED <<invalid, unsent, broker, bootstrap, startQueue, handling, workers, ghosts>>
-----------------------------------------------------------------------------
(* The process stops: channels, books, window and rows are gone; the queue *)
(* goes back to an offset at or before the one this process had reached.   *)

Stop ==
    /\ crashes < MaxCrashes
    /\ crashes' = crashes + 1
    /\ phase' = "down" /\ cursor' = 0 /\ rows' = <<>>
    /\ \E o \in [Symbols -> UNION {0 .. offset[s] : s \in Symbols}] :
          /\ \A s \in Symbols : o[s] <= offset[s]
          /\ offset' = o
    /\ restored' = {} /\ bigNo' = 0 /\ active' = TRUE /\ ttl' = "armed"
    /\ handling' = [s \in Symbols |-> {}]
    /\ queue' = [s \in Symbols |-> <<>>] /\ book' = {}
    /\ runs' = [n \in Orders |-> 0]
    /\ known' = [open |-> {}, closed |-> {}] /\ given' = {} /\ overflow' = {}
    /\ early' = FALSE
    /\ UNCHANGED <<orderService, topic>>

Crash == phase # "down" /\ Stop

-----------------------------------------------------------------------------
(* bootstrap::run.  The start-up delay is long enough for the results of   *)
(* an earlier process to reach the rows.                                   *)

BeginBootstrap ==
    /\ phase = "down"
    /\ results = {}
    /\ phase' = "fetching"
    /\ known' = [known EXCEPT !.closed = {n \in Orders : db[n] = "closed"}]
    /\ UNCHANGED <<orderService, broker, cursor, rows, crashes, startQueue, handling,
                   workers, given, overflow, early>>

\* The entrust list (external): the open orders above the cursor, in order,
\* the lowest numbers first, as many as a page holds.
EntrustPage(page) ==
    LET above == {n \in Orders : db[n] = "open" /\ n > cursor}
    IN  /\ \A i \in DOMAIN page : page[i] \in above
        /\ \A i, j \in DOMAIN page : i < j => page[i] < page[j]
        /\ \A n \in above \ Range(page) :
              Len(page) = PageSize /\ \A i \in DOMAIN page : page[i] < n

EntrustPages ==
    {page \in UNION {[1 .. k -> Orders] : k \in 0 .. PageSize} : EntrustPage(page)}

\* fetch_all_entrusts: one page after another until an empty one.
FetchPage ==
    /\ phase = "fetching"
    /\ \E page \in EntrustPages :
          \/ /\ page = <<>>
             /\ phase' = "restoring"
             /\ UNCHANGED <<cursor, rows, known>>
          \/ /\ page # <<>>
             /\ cursor' = page[Len(page)]
             /\ rows' = rows \o page
             /\ known' = [known EXCEPT !.open = @ \cup Range(page)]
             /\ UNCHANGED phase
    /\ UNCHANGED <<orderService, broker, crashes, startQueue, handling, workers, given, overflow, early>>

Full(s) == Len(queue[s]) = QueueCapacity

Enqueued(m) == [queue EXCEPT ![SymbolOf[m.no]] = Append(@, m)]

RecordRestored(n) ==
    /\ restored' = restored \cup {n}
    /\ bigNo' = IF n > bigNo THEN n ELSE bigNo
    /\ UNCHANGED <<active, ttl>>

\* handle_restore_order; an error ends the bootstrap, and with it the process.
RestoreOrder ==
    /\ phase = "restoring" /\ rows # <<>>
    /\ LET n == Head(rows) IN
         \/ /\ n \in invalid
            /\ rows' = Tail(rows)
            /\ UNCHANGED <<orderService, broker, phase, cursor, crashes, startQueue,
                           handling, workers, ghosts>>
         \/ /\ n \notin invalid /\ ~Full(SymbolOf[n])
            /\ queue' = Enqueued(Place(n))
            /\ RecordRestored(n)
            /\ rows' = Tail(rows)
            /\ UNCHANGED <<orderService, broker, phase, cursor, crashes, handling,
                           book, runs, ghosts>>
         \/ n \notin invalid /\ Full(SymbolOf[n]) /\ Stop

StartConsumers ==
    /\ phase = "restoring" /\ rows = <<>>
    /\ phase' = "consuming"
    /\ UNCHANGED <<orderService, broker, cursor, rows, crashes, startQueue, handling,
                   workers, ghosts>>
-----------------------------------------------------------------------------
(* handle_mq_order, called by the consumer of each topic.  should_dedupe   *)
(* reads active under one lock and the map and BigNo under another, so the *)
(* TTL task may run in between; the message counts as acknowledged         *)
(* whatever happens to it.                                                 *)

Deliver(s) ==
    /\ phase = "consuming" /\ handling[s] = {} /\ offset[s] < Len(topic[s])
    /\ offset' = [offset EXCEPT ![s] = @ + 1]
    /\ handling' = [handling EXCEPT ![s] =
                       {[msg |-> topic[s][offset[s] + 1], active |-> active]}]
    /\ UNCHANGED <<orderService, topic, bootstrap, startQueue, workers, ghosts>>

\* (faulty form of ShouldDedupe) Cancellations are deduplicated like placements.
DedupeRevokesToo(h) ==
    /\ h.active
    /\ restored # {}
    /\ h.msg.no \in restored \/ (bigNo > 0 /\ bigNo >= h.msg.no)

\* (faulty form of ShouldDedupe) BigNo is taken for the next number, not the last.
DedupeAboveBigNo(h) ==
    /\ h.active
    /\ h.msg.kind = "place"
    /\ restored # {}
    /\ h.msg.no \in restored \/ (bigNo > 0 /\ bigNo + 1 >= h.msg.no)

\* (faulty form of ShouldDedupe) Only BigNo is consulted, and exclusively.
DedupeBelowBigNo(h) ==
    /\ h.active
    /\ h.msg.kind = "place"
    /\ restored # {}
    /\ bigNo > 0 /\ bigNo > h.msg.no

ShouldDedupe(h) ==
    /\ h.active
    /\ h.msg.kind = "place"
    /\ restored # {}
    /\ h.msg.no \in restored \/ (bigNo > 0 /\ bigNo >= h.msg.no)

Decide(s) ==
    \E h \in handling[s] :
       /\ handling' = [handling EXCEPT ![s] = {}]
       /\ given' = given \cup {h.msg}
       /\ \/ /\ h.msg.no \in invalid \/ ShouldDedupe(h)
             /\ UNCHANGED <<queue, overflow>>
          \/ /\ h.msg.no \notin invalid /\ ~ShouldDedupe(h) /\ ~Full(s)
             /\ queue' = Enqueued(h.msg)
             /\ UNCHANGED overflow
          \/ /\ h.msg.no \notin invalid /\ ~ShouldDedupe(h) /\ Full(s)
             /\ overflow' = overflow \cup {h.msg}
             /\ UNCHANGED queue
       /\ UNCHANGED <<orderService, broker, bootstrap, startQueue, book, runs, known, early>>

\* Every number up to BigNo has been sent, delivered and decided on: the
\* messages the window is there for are over.
BacklogHandled ==
    \A n \in Orders : n <= bigNo =>
        /\ \E i \in 1 .. offset[SymbolOf[n]] : topic[SymbolOf[n]][i] = Place(n)
        /\ \A h \in handling[SymbolOf[n]] : h.msg # Place(n)

\* clear(): the map, then BigNo, then the flag.  The sleep before it is a time,
\* not a test: it may end while messages of restored orders are still to come.
TtlStep ==
    /\ phase = "consuming"
    /\ \/ /\ ttl = "armed"
          /\ restored' = {} /\ ttl' = "map_cleared"
          /\ early' = ~BacklogHandled
          /\ UNCHANGED <<bigNo, active>>
       \/ /\ ttl = "map_cleared"
          /\ bigNo' = 0 /\ ttl' = "big_no_cleared"
          /\ UNCHANGED <<restored, active, early>>
       \/ /\ ttl = "big_no_cleared"
          /\ active' = FALSE /\ ttl' = "cleared"
          /\ UNCHANGED <<restored, bigNo, early>>
    /\ UNCHANGED <<orderService, broker, bootstrap, handling, workers, known, given, overflow>>

-----------------------------------------------------------------------------
(* spawn_symbol_worker: take the next order, run the engine, push results. *)

RestingOn(s) == {n \in book : SymbolOf[n] = s}

Worker(s) ==
    /\ phase # "down" /\ queue[s] # <<>>
    /\ queue' = [queue EXCEPT ![s] = Tail(@)]
    /\ LET m == Head(queue[s]) IN
         \/ /\ m.kind = "revoke"
            /\ book' = book \ {m.no}
            /\ results' = results \cup (book \cap {m.no})
            /\ UNCHANGED runs
         \/ /\ m.kind = "place" /\ m.no \in book
            /\ UNCHANGED <<book, results, runs>>
         \/ /\ m.kind = "place" /\ m.no \notin book
            /\ runs' = [runs EXCEPT ![m.no] = @ + 1]
            /\ \E finished \in SUBSET (RestingOn(s) \cup {m.no}) :
                  /\ book' = (book \cup {m.no}) \ finished
                  /\ results' = results \cup finished
    /\ UNCHANGED <<db, invalid, unsent, broker, bootstrap, startQueue, handling, ghosts>>

-----------------------------------------------------------------------------
Next ==
    \/ \E n \in Orders : CommitOrder(n) \/ SendPlace(n) \/ SendRevoke(n) \/ ApplyResult(n)
    \/ Crash \/ BeginBootstrap \/ FetchPage \/ RestoreOrder \/ StartConsumers
    \/ \E s \in Symbols : Deliver(s) \/ Decide(s) \/ Worker(s)
    \/ TtlStep

Spec == Init /\ [][Next]_vars
-----------------------------------------------------------------------------
(* Properties.                                                             *)

\* Every variable holds a value of its kind, and no channel exceeds its capacity.
TypeOK ==
    /\ db \in [Orders -> {"none", "open", "closed"}]
    /\ invalid \in InvalidSets /\ unsent \subseteq Orders /\ results \subseteq Orders
    /\ \A s \in Symbols : Range(topic[s]) \subseteq Messages
    /\ offset \in [Symbols -> Nat] /\ \A s \in Symbols : offset[s] <= Len(topic[s])
    /\ phase \in {"down", "fetching", "restoring", "consuming"}
    /\ cursor \in Orders \cup {0} /\ Range(rows) \subseteq Orders
    /\ restored \subseteq Orders /\ bigNo \in Orders \cup {0} /\ active \in BOOLEAN
    /\ ttl \in {"armed", "map_cleared", "big_no_cleared", "cleared"}
    /\ \A s \in Symbols :
          /\ handling[s] \subseteq [msg : Messages, active : BOOLEAN]
          /\ \A g, h \in handling[s] : g = h
          /\ Len(queue[s]) <= QueueCapacity /\ Range(queue[s]) \subseteq Messages
    /\ book \subseteq Orders /\ runs \in [Orders -> Nat]
    /\ given \subseteq Messages /\ overflow \subseteq given /\ early \in BOOLEAN
    /\ crashes \in 0 .. MaxCrashes

Queued(m) == \E i \in 1 .. Len(queue[SymbolOf[m.no]]) : queue[SymbolOf[m.no]][i] = m

\* The place message of n has been consumed, by this process or an earlier one.
Consumed(n) ==
    /\ \E i \in 1 .. offset[SymbolOf[n]] : topic[SymbolOf[n]][i] = Place(n)
    /\ \A h \in handling[SymbolOf[n]] : h.msg # Place(n)

\* One process executes a number at most once: what bootstrap restored is not
\* executed again when its message arrives (should_dedupe), even if the order
\* has finished in the meantime and the engine no longer knows it.  The window
\* has to stay open for the backlog: without that the code executes it twice.
ExecutedOnce == ~early => \A n \in Orders : runs[n] <= 1

\* An order that was already closed when the rows were read, and whose number is
\* at or below the largest one restored, is never executed again: this is what
\* BigNo adds to the set of restored numbers, for as long as the window is open.
ClosedNotRevived ==
    ~early => \A n \in known.closed :
        (\E m \in known.open \ invalid : m >= n) => runs[n] = 0 /\ ~Queued(Place(n))

\* This process executes no order twice and none that was closed when it
\* started, as far as the START_QUEUE window protects it.
NoSecondExecution == TypeOK /\ ExecutedOnce /\ ClosedNotRevived

\* Nothing valid disappears: once consumers run, an order that is open at the order
\* service and whose message was consumed, by this process or by one that
\* stopped, is in its channel or in the book, unless a full channel refused it.
OpenOrdersAreLive ==
    phase = "consuming" =>
        \A n \in Orders \ invalid :
            db[n] = "open" /\ n \notin results /\ Consumed(n) =>
                n \in book \/ Queued(Place(n)) \/ Place(n) \in overflow

\* Restoring and the live feed overlap: no order executes twice, and none
\* that is open is missing from its book.
RestoredOnce == NoSecondExecution /\ OpenOrdersAreLive

\* A cancellation is never taken for a duplicate: once this process has decided
\* on it and the worker has taken it, the order does not rest in the book.
RevokeHonoured ==
    \A n \in Orders \ invalid :
        Revoke(n) \in given \ overflow /\ ~Queued(Revoke(n)) => n \notin book
=============================================================================
