---------------------------- MODULE MemorySource ----------------------------
(***************************************************************************)
(* Bootstrap and inbound path of match-spot over the in-memory message     *)
(* source (mq/memory.rs; match-contract has the same source): open orders  *)
(* are restored into the symbol channels, then the source is started;      *)
(* publishers, the starting thread and the source's poller threads hand    *)
(* messages to the router at the same time.                                *)
(*                                                                         *)
(* publish and the poller hold the handler's lock while they hand over,    *)
(* start does not.  A message body is a sequence of orders.                *)
(***************************************************************************)
EXTENDS Naturals, SequencesExt, FiniteSetsExt

CONSTANTS
  Publishers,
  Bodies,       \* per publisher: the bodies it publishes, in order
  Rows,         \* the entrusts the order service returns, buys before sells
  Symbol,       \* order -> symbol
  Registered,   \* symbols with a channel
  Invalid,      \* orders that validation or conversion refuses
  Capacity,     \* queue_capacity
  PollerOf      \* bound: one name of a poller thread for each time the source is started

VARIABLES
  inbox,        \* buffered bodies
  running, installed,  \* the running flag; whether a handler is set
  lock,         \* who holds the handler's lock, option
  at,           \* per thread: where it is
  hand,         \* per thread: orders it still has to hand to the router
  batch,        \* per thread: bodies it drained and has not begun
  left,         \* per publisher: bodies it has not published
  starts,       \* times start was called
  chan,         \* per symbol: the channel
  taken,        \* history: per symbol, what its worker took
  refused,      \* history: orders dropped by the router
  buffered      \* history: orders that went through the inbox

Starter == "starter"
Pollers == ToSet(PollerOf)
MaxStarts == Len(PollerOf)
Threads == Publishers \cup Pollers \cup {Starter}

source == <<inbox, running, installed, left, starts, buffered>>
router == <<chan, taken, refused>>
vars == <<source, lock, at, hand, batch, router>>

Init ==
  /\ inbox = <<>> /\ running = FALSE /\ installed = FALSE /\ lock = {}
  /\ at = [t \in Threads |-> IF t = Starter THEN "restore" ELSE IF t \in Pollers THEN "none" ELSE "idle"]
  /\ hand = [t \in Threads |-> IF t = Starter THEN Rows ELSE <<>>]
  /\ batch = [t \in Threads |-> <<>>]
  /\ left = Bodies /\ starts = 0 /\ buffered = {}
  /\ chan = [s \in Registered |-> <<>>] /\ taken = chan /\ refused = <<>>

Goto(t, l) == at' = [at EXCEPT ![t] = l]
----------------------------------------------------------------------------
(* InboundRouter *)

Full(s) == Len(chan[s]) >= Capacity
Accepts(o) == o \notin Invalid /\ Symbol[o] \in Registered /\ ~Full(Symbol[o])

\* handle_mq_order: validate, convert, try_send.
Route(o) ==
  /\ IF Accepts(o)
       THEN chan' = [chan EXCEPT ![Symbol[o]] = Append(@, o)] /\ refused' = refused
       ELSE refused' = Append(refused, o) /\ chan' = chan
  /\ UNCHANGED taken

\* The next order of the body in hand; errors end neither body nor batch.
HandOver(t) ==
  /\ at[t] = "handing" /\ hand[t] # <<>>
  /\ Route(Head(hand[t]))
  /\ hand' = [hand EXCEPT ![t] = Tail(@)]
  /\ UNCHANGED <<source, lock, at, batch>>

\* The next body of a drained batch.
NextBody(t) ==
  /\ hand[t] = <<>> /\ batch[t] # <<>> /\ at[t] = "handing"
  /\ hand' = [hand EXCEPT ![t] = Head(batch[t])]
  /\ batch' = [batch EXCEPT ![t] = Tail(@)]
  /\ UNCHANGED <<source, lock, at, router>>

Finished(t) == at[t] = "handing" /\ hand[t] = <<>> /\ batch[t] = <<>>

\* A symbol worker takes an order from its channel.
WorkerTakes(s) ==
  /\ chan[s] # <<>>
  /\ taken' = [taken EXCEPT ![s] = Append(@, Head(chan[s]))]
  /\ chan' = [chan EXCEPT ![s] = Tail(@)]
  /\ UNCHANGED <<source, lock, at, hand, batch, refused>>
----------------------------------------------------------------------------
(* publish *)

\* A handler is set and the source runs: the body is handed over here.
PublishDirect(p) ==
  /\ at[p] = "idle" /\ left[p] # <<>> /\ lock = {}
  /\ installed /\ running
  /\ hand' = [hand EXCEPT ![p] = Head(left[p])]
  /\ left' = [left EXCEPT ![p] = Tail(@)]
  /\ lock' = {p} /\ Goto(p, "handing")
  /\ UNCHANGED <<inbox, running, installed, starts, buffered, batch, router>>

PublishDone(p) ==
  /\ Finished(p)
  /\ lock' = {} /\ Goto(p, "idle")
  /\ UNCHANGED <<source, hand, batch, router>>

\* Otherwise it goes to the inbox, in a step of its own after the lock is freed.
PublishLater(p) ==
  /\ at[p] = "idle" /\ left[p] # <<>> /\ lock = {}
  /\ ~(installed /\ running)
  /\ Goto(p, "buffering")
  /\ UNCHANGED <<source, lock, hand, batch, router>>

Buffer(p) ==
  /\ at[p] = "buffering"
  /\ inbox' = Append(inbox, Head(left[p]))
  /\ left' = [left EXCEPT ![p] = Tail(@)]
  /\ buffered' = buffered \cup ToSet(Head(left[p]))
  /\ Goto(p, "idle")
  /\ UNCHANGED <<running, installed, starts, lock, hand, batch, router>>

Publisher(p) == PublishDirect(p) \/ PublishDone(p) \/ PublishLater(p) \/ Buffer(p)
----------------------------------------------------------------------------
(* run_with_redis, start and stop *)

\* restore_entrusts: a row the router cannot place ends the bootstrap.
Restore ==
  /\ at[Starter] = "restore" /\ hand[Starter] # <<>>
  /\ LET o == Head(hand[Starter])
     IN /\ Route(o)
        /\ at' = IF o \in Invalid \/ Accepts(o) THEN at ELSE [at EXCEPT ![Starter] = "failed"]
  /\ hand' = [hand EXCEPT ![Starter] = Tail(@)]
  /\ UNCHANGED <<source, lock, batch>>

\* start sets the handler ...
Start ==
  /\ at[Starter] \in {"restore", "stopped"} /\ hand[Starter] = <<>>
  /\ starts < MaxStarts /\ lock = {}
  /\ installed' = TRUE /\ starts' = starts + 1
  /\ Goto(Starter, "installed")
  /\ UNCHANGED <<inbox, running, left, buffered, lock, hand, batch, router>>

\* ... then the flag ...
SetRunning ==
  /\ at[Starter] = "installed"
  /\ running' = TRUE /\ Goto(Starter, "running")
  /\ UNCHANGED <<inbox, installed, left, starts, buffered, lock, hand, batch, router>>

\* (faulty form of Drain) the inbox is copied, not drained
DrainCopies(t) ==
  /\ batch' = [batch EXCEPT ![t] = inbox]
  /\ inbox' = inbox

Drain(t) ==
  /\ batch' = [batch EXCEPT ![t] = inbox]
  /\ inbox' = <<>>

\* ... then drains the inbox, hands over without the lock ...
StartDrains ==
  /\ at[Starter] = "running"
  /\ Drain(Starter) /\ Goto(Starter, "handing")
  /\ UNCHANGED <<running, installed, left, starts, buffered, lock, hand, router>>

\* (faulty form of SpawnPoller) no poller is started
SpawnNoPoller ==
  /\ Finished(Starter)
  /\ at' = [at EXCEPT ![Starter] = "started"]
  /\ UNCHANGED <<source, lock, hand, batch, router>>

\* ... and spawns a poller.
SpawnPoller ==
  /\ Finished(Starter)
  /\ at' = [at EXCEPT ![Starter] = "started", ![PollerOf[starts]] = "check"]
  /\ UNCHANGED <<source, lock, hand, batch, router>>

Stop ==
  /\ at[Starter] = "started" /\ starts < MaxStarts
  /\ running' = FALSE /\ Goto(Starter, "stopped")
  /\ UNCHANGED <<inbox, installed, left, starts, buffered, lock, hand, batch, router>>

StarterSteps == Restore \/ Start \/ SetRunning \/ StartDrains \/ SpawnPoller \/ Stop
----------------------------------------------------------------------------
(* memory_poller_loop *)

PollerCheck(q) ==
  /\ at[q] = "check"
  /\ Goto(q, IF running THEN "drain" ELSE "ended")
  /\ UNCHANGED <<source, lock, hand, batch, router>>

PollerDrains(q) ==
  /\ at[q] = "drain"
  /\ Drain(q) /\ Goto(q, "locking")
  /\ UNCHANGED <<running, installed, left, starts, buffered, lock, hand, router>>

\* (faulty form of PollerLocks) the poller finds no handler and drops its batch
PollerLocksDrops(q) ==
  /\ at[q] = "locking" /\ lock = {}
  /\ lock' = {q} /\ Goto(q, "handing")
  /\ batch' = [batch EXCEPT ![q] = <<>>]
  /\ UNCHANGED <<source, hand, router>>

\* Without a handler the batch would be dropped.
PollerLocks(q) ==
  /\ at[q] = "locking" /\ lock = {}
  /\ lock' = {q} /\ Goto(q, "handing")
  /\ batch' = IF installed THEN batch ELSE [batch EXCEPT ![q] = <<>>]
  /\ UNCHANGED <<source, hand, router>>

PollerDone(q) ==
  /\ Finished(q)
  /\ lock' = {} /\ Goto(q, "check")
  /\ UNCHANGED <<source, hand, batch, router>>

Poller(q) == PollerCheck(q) \/ PollerDrains(q) \/ PollerLocks(q) \/ PollerDone(q)

Next ==
  \/ StarterSteps
  \/ \E p \in Publishers : Publisher(p)
  \/ \E q \in Pollers : Poller(q)
  \/ \E t \in Threads : HandOver(t) \/ NextBody(t)
  \/ \E s \in Registered : WorkerTakes(s)

Spec == Init /\ [][Next]_vars

\* Threads keep running; a thread waiting for the handler's lock gets it when
\* it is free again and again (the others hold it only for one handing-over).
Fairness ==
  /\ WF_vars(SetRunning \/ StartDrains \/ SpawnPoller)
  /\ \A t \in Threads : WF_vars(HandOver(t) \/ NextBody(t))
  /\ \A p \in Publishers : WF_vars(PublishDone(p))
  /\ \A q \in Pollers : /\ WF_vars(PollerCheck(q) \/ PollerDrains(q) \/ PollerDone(q))
                         /\ SF_vars(PollerLocks(q))
----------------------------------------------------------------------------
(* Correctness *)

Orders == DOMAIN Symbol
Count(o, sq) == Cardinality({i \in DOMAIN sq : sq[i] = o})
CountIn(o, bodies) == Count(o, FlattenSeq(bodies))
Placed(s) == taken[s] \o chan[s]
Copies(o) ==
  CountIn(o, inbox) + Count(o, refused)
  + MapThenSumSet(LAMBDA t : Count(o, hand[t]) + CountIn(o, batch[t]), Threads)
  + MapThenSumSet(LAMBDA p : CountIn(o, left[p]), Publishers)
  + MapThenSumSet(LAMBDA s : Count(o, Placed(s)), Registered)

TypeOK ==
  /\ running \in BOOLEAN /\ installed \in BOOLEAN /\ starts \in 0..MaxStarts
  /\ lock \subseteq Publishers \cup Pollers /\ Cardinality(lock) <= 1
  /\ \A t \in Threads : hand[t] \in Seq(Orders) /\ batch[t] \in Seq(Seq(Orders))
  /\ \A s \in Registered : Len(chan[s]) <= Capacity

\* No order is lost or doubled on its way from publish or restore through
\* inbox, threads and router: it is in one place, or the router dropped it.
NoneLostOrDoubled ==
  \A o \in Orders :
    Copies(o) = Count(o, Rows) + MapThenSumSet(LAMBDA p : CountIn(o, Bodies[p]), Publishers)

\* In a symbol's channel restored orders come before published ones.
RestoredFirst ==
  \A s \in Registered : \A i, j \in DOMAIN Placed(s) :
    i < j /\ Placed(s)[j] \in ToSet(Rows) => Placed(s)[i] \in ToSet(Rows)

\* An order is overtaken by a later one of its publisher only on the way
\* through the inbox: what publish hands over itself stays in order.
OvertakenWasBuffered ==
  \A p \in Publishers : \A i, j \in DOMAIN Bodies[p] :
    \A a \in ToSet(Bodies[p][i]), b \in ToSet(Bodies[p][j]) :
      (i < j /\ Symbol[a] = Symbol[b] /\ Symbol[b] \in Registered) =>
        LET placed == Placed(Symbol[b])
        IN \A k \in DOMAIN placed : placed[k] = b =>
             a \in buffered \/ Contains(refused, a) \/ \E l \in 1..k : placed[l] = a

\* The three together: what the symbol workers can rely on.
HandedOverOnce == TypeOK /\ NoneLostOrDoubled /\ RestoredFirst /\ OvertakenWasBuffered

Published == UNION {ToSet(FlattenSeq(Bodies[p])) : p \in Publishers}

InInbox(o) == \E i \in DOMAIN inbox : Contains(inbox[i], o)

\* The router put the order into a channel or refused it.
Decided(o) == Contains(refused, o) \/ \E s \in Registered : Contains(Placed(s), o)

\* Each order that raced with start and went to the inbox reaches the router in
\* the end, unless the source is stopped while it still lies in the inbox: one
\* that start or a poller has drained reaches it even if the source is stopped.
BufferedIsHandled ==
  \A o \in Published :
    (o \in buffered /\ (running \/ ~InInbox(o))) ~> (Decided(o) \/ (InInbox(o) /\ ~running))
=============================================================================
