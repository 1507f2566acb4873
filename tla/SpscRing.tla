------------------------------ MODULE SpscRing ------------------------------
(***************************************************************************)
(* The command ring of crates/match-core-hp (spsc.rs) between the thread   *)
(* that submits and the HpWorker thread that polls (worker.rs).            *)
(*                                                                         *)
(* head and tail are usize counters that wrap at IndexSpace.  Each thread  *)
(* reads its own counter exactly and the other's through an Acquire load,  *)
(* which may return any value from the last one it saw up to the present   *)
(* one; `seenHead' and `seenTail' are those last values.  Reading or       *)
(* writing a slot and publishing a counter are separate steps.  Commands   *)
(* are numbered in the order they are submitted, modulo Numbers; a Busy    *)
(* push is tried again with the same command.                              *)
(***************************************************************************)
EXTENDS Naturals, Sequences

CONSTANTS
  Cap,          \* ring capacity, a power of two
  IndexSpace,   \* 2^64 in the code: number of usize values
  Numbers,      \* bound: commands are told apart modulo Numbers
  BatchMax      \* values of pop_n's max (try_pop is max = 1)

ASSUME RingConstants ==
  /\ Cap \in Nat \ {0} /\ IndexSpace \in Nat /\ Cap < IndexSpace
  /\ IndexSpace % Cap = 0
  /\ Numbers \in Nat /\ Numbers > 2 * Cap
  /\ BatchMax \subseteq Nat \ {0}

VARIABLES
  buf,        \* the slots
  tail, head, \* published counters
  seenHead,   \* head as the producer last loaded it
  seenTail,   \* tail as the consumer last loaded it
  ppc,        \* producer: "idle", "write", "publish"
  cpc,        \* consumer: "idle", "read", "publish", "drain"
  next,       \* the command the producer submits next
  want,       \* n of the running pop_n
  batch,      \* HpWorker.batch
  applied     \* the last command given to the engine

vars == <<buf, tail, head, seenHead, seenTail, ppc, cpc, next, want, batch, applied>>
producer == <<tail, seenHead, ppc, next>>
consumer == <<head, seenTail, cpc, want, batch, applied>>

Commands == 0..(Numbers - 1)
Slot(i) == i % Cap                        \* i & mask
WrappingAdd(i, n) == (i + n) % IndexSpace
WrappingSub(i, j) == (i + IndexSpace - j) % IndexSpace

\* What an Acquire load of a counter may return.
Loadable(seen, now) == {WrappingAdd(seen, d) : d \in 0..WrappingSub(now, seen)}

Init ==
  /\ buf = [i \in 0..(Cap - 1) |-> 0]
  /\ tail = 0 /\ head = 0 /\ seenHead = 0 /\ seenTail = 0
  /\ ppc = "idle" /\ cpc = "idle"
  /\ next = 0 /\ want = 0 /\ batch = <<>> /\ applied = Numbers - 1
----------------------------------------------------------------------------
(* Producer: try_push *)

\* (faulty form of Full) off by one: the ring holds a command too many
FullLate(t, h) == WrappingSub(t, h) > Cap

Full(t, h) == WrappingSub(t, h) > Cap - 1

\* The load of head; Busy when the ring looks full.
PushLoad ==
  /\ ppc = "idle"
  /\ \E h \in Loadable(seenHead, head) :
       /\ seenHead' = h
       /\ ppc' = IF Full(tail, h) THEN "idle" ELSE "write"
  /\ UNCHANGED <<buf, tail, next, consumer>>

PushWrite ==
  /\ ppc = "write"
  /\ buf' = [buf EXCEPT ![Slot(tail)] = next]
  /\ ppc' = "publish"
  /\ UNCHANGED <<tail, seenHead, next, consumer>>

PushPublish ==
  /\ ppc = "publish"
  /\ tail' = WrappingAdd(tail, 1)
  /\ next' = (next + 1) % Numbers
  /\ ppc' = "idle"
  /\ UNCHANGED <<buf, seenHead, consumer>>
----------------------------------------------------------------------------
(* Consumer: HpWorker::poll / run_once over pop_n *)

\* (faulty form of PopLoaded) the newest command is left for the next batch
PopLoadedShort(t, max) ==
  want' = IF t # head /\ WrappingSub(t, head) <= max THEN WrappingSub(t, head) - 1
          ELSE IF t = head THEN 0 ELSE max

PopLoaded(t, max) ==
  want' = IF WrappingSub(t, head) < max THEN WrappingSub(t, head) ELSE max

\* The load of tail; nothing to take leaves the batch empty.
PopLoad ==
  /\ cpc = "idle"
  /\ \E t \in Loadable(seenTail, tail), max \in BatchMax :
       /\ seenTail' = t
       /\ PopLoaded(t, max)
  /\ batch' = <<>>
  /\ cpc' = IF want' = 0 THEN "idle" ELSE "read"
  /\ UNCHANGED <<buf, head, applied, producer>>

PopRead ==
  /\ cpc = "read"
  /\ batch' = Append(batch, buf[Slot(WrappingAdd(head, Len(batch)))])
  /\ cpc' = IF Len(batch') = want THEN "publish" ELSE "read"
  /\ UNCHANGED <<buf, head, seenTail, want, applied, producer>>

\* (faulty form of PopPublish) a batch counts as one command
PopPublishOne ==
  /\ cpc = "publish"
  /\ head' = WrappingAdd(head, 1)
  /\ cpc' = "drain"
  /\ UNCHANGED <<buf, seenTail, want, batch, applied, producer>>

PopPublish ==
  /\ cpc = "publish"
  /\ head' = WrappingAdd(head, want)
  /\ cpc' = "drain"
  /\ UNCHANGED <<buf, seenTail, want, batch, applied, producer>>

\* drain_batch: one command of the batch to the engine.
Drain ==
  /\ cpc = "drain"
  /\ applied' = Head(batch)
  /\ batch' = Tail(batch)
  /\ cpc' = IF batch' = <<>> THEN "idle" ELSE "drain"
  /\ UNCHANGED <<buf, head, seenTail, want, producer>>

Produce == PushLoad \/ PushWrite \/ PushPublish
Consume == PopLoad \/ PopRead \/ PopPublish \/ Drain
Next == Produce \/ Consume

Spec == Init /\ [][Next]_vars

\* The worker polls for ever (max_idle_spins = None), and a store becomes
\* visible: a thread that keeps loading a counter gets its present value.
\* Nothing is assumed of the submitting thread.
PopLoadsTail == PopLoad /\ seenTail' = tail
FairSpec ==
  /\ Spec
  /\ WF_vars(PopLoadsTail) /\ WF_vars(PopRead) /\ WF_vars(PopPublish) /\ WF_vars(Drain)
----------------------------------------------------------------------------
(* Correctness *)

TypeOK ==
  /\ buf \in [0..(Cap - 1) -> Commands]
  /\ {tail, head, seenHead, seenTail} \subseteq 0..(IndexSpace - 1)
  /\ ppc \in {"idle", "write", "publish"} /\ cpc \in {"idle", "read", "publish", "drain"}
  /\ next \in Commands /\ applied \in Commands
  /\ want \in 0..Cap /\ batch \in Seq(Commands) /\ Len(batch) <= want

\* The slots the consumer has taken responsibility for reading.
Reading == IF cpc \in {"read", "publish"} THEN {Slot(WrappingAdd(head, i)) : i \in 0..(want - 1)} ELSE {}

\* No data race on a slot: while the producer writes one, the consumer's
\* batch does not include it, though each decides from a stale counter.
SlotExclusive == ppc = "write" => Slot(tail) \notin Reading

\* The ring never holds more commands than slots, across the wrap of usize:
\* tail - head never exceeds capacity().
NeverOverfull == WrappingSub(tail, head) <= Cap

\* The ring is safe to share between the two threads.
RingSafe == TypeOK /\ SlotExclusive /\ NeverOverfull

\* What is in the ring, oldest first.
Contents == [i \in 1..WrappingSub(tail, head) |-> buf[Slot(WrappingAdd(head, i - 1))]]

Fifo == INSTANCE BoundedFifo WITH
  First <- 0,
  Succ <- [c \in Commands |-> (c + 1) % Numbers],
  q <- Contents,
  out <- IF cpc = "drain" THEN batch ELSE <<>>

\* The engine gets every accepted command once, in the order submitted: the
\* ring, the batch pop and the drain are one bounded FIFO queue, across the
\* wrap of the counters and whatever stale counter either thread saw.
ImplementsFifo == Fifo!Spec

\* A polling worker applies every accepted command, whether or not another one
\* is submitted: ring and batch run empty again and again, or commands are
\* applied for ever.  As they are applied in the order accepted
\* (ImplementsFifo), none waits for ever in either case.
AcceptedIsApplied ==
  []<>(Contents = <<>> /\ batch = <<>>) \/ []<><<applied' # applied>>_vars
=============================================================================
