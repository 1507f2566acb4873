-------------------------------- MODULE Wal --------------------------------
(***************************************************************************)
(* The batched write-ahead log of match-wal (src/crates/match-wal).        *)
(*                                                                         *)
(* Callers put records and flush requests on a bounded channel; one        *)
(* flusher thread moves records into a buffer and writes the buffer out    *)
(* when it is large, after 5 ms of quiet, on a flush request, on shutdown. *)
(* A write can fail after any number of bytes, the file may not open, and  *)
(* the machine can lose power: what was not synced may then be missing.    *)
(*                                                                         *)
(* A record is its number, in the order in which the channel took them.    *)
(* On disk it is two pieces, <<r, 1>> and <<r, 2>>: enough to tell a whole *)
(* record from a torn one.                                                 *)
(***************************************************************************)
EXTENDS Integers, Sequences, FiniteSets

CONSTANTS
    Callers,     \* threads that share the handle
    QueueCap,    \* capacity of the channel
    Batch,       \* records that make 32 KiB
    MaxRecs,     \* bound: records appended
    MaxFlushes,  \* bound: explicit flush calls
    MaxFaults,   \* bound: I/O errors
    MaxOpens     \* bound: times the log is opened

VARIABLES
    mode,      \* "async" or "sync": WalMode of this handle
    handle,    \* "open", "closing" (Shutdown sent), "closed", "down" (power lost)
    flusher,   \* "opening", "running", "gone"
    queue,     \* the channel
    buf,       \* records the flusher holds
    file,      \* pieces in the file
    synced,    \* how many of them sync_all has covered
    call,      \* per caller: "idle", "appended" (Rec sent, Flush not), "waiting"
    next,      \* number of the next record
    base,      \* number of the first record of this opening
    promised,  \* records covered by an Ok of a Sync append or of flush
    flushes, faults, opens

chan == <<handle, queue, call, next, flushes>>
disk == <<buf, file, synced, faults>>
vars == <<mode, flusher, base, promised, opens, chan, disk>>

Modes == {"async", "sync"}
Records == 1..MaxRecs
Rec(r) == [kind |-> "rec", rec |-> r]
\* A flush request also carries, for the properties, the last record sent before it.
Flush(c, upto) == [kind |-> "flush", who |-> c, upto |-> upto]
Shutdown == [kind |-> "shutdown"]

Bytes(b) == [i \in 1..2 * Len(b) |-> <<b[(i + 1) \div 2], 2 - (i % 2)>>]

WholeAt(r, f, i) == f[i] = <<r, 1>> /\ f[i + 1] = <<r, 2>>
Copies(r, f) == {i \in 1..Len(f) - 1 : WholeAt(r, f, i)}
Durable(r) == Copies(r, SubSeq(file, 1, synced)) # {}

Init ==
    /\ mode \in Modes
    /\ handle = "open" /\ flusher = "opening" /\ opens = 1
    /\ queue = <<>> /\ buf = <<>> /\ file = <<>> /\ synced = 0
    /\ call = [c \in Callers |-> "idle"]
    /\ next = 1 /\ base = 1 /\ promised = {}
    /\ flushes = 0 /\ faults = 0

----------------------------------------------------------------------------
(* The callers.  Busy and Closed leave no trace: the record was not taken. *)

ChannelTakes == flusher # "gone" /\ Len(queue) < QueueCap

\* append: Async is done once the channel takes the record, Sync goes on to flush.
AppendRec(c) ==
    /\ handle = "open" /\ call[c] = "idle" /\ next <= MaxRecs
    /\ ChannelTakes
    /\ queue' = Append(queue, Rec(next))
    /\ next' = next + 1
    /\ call' = [call EXCEPT ![c] = IF mode = "sync" THEN "appended" ELSE "idle"]
    /\ UNCHANGED <<mode, handle, flusher, base, promised, opens, flushes, disk>>

\* The second half of a Sync append, and flush: ask, then wait for the answer.
SendFlush(c) ==
    /\ handle = "open" /\ ChannelTakes
    /\ \/ call[c] = "appended" /\ UNCHANGED flushes
       \/ call[c] = "idle" /\ flushes < MaxFlushes /\ flushes' = flushes + 1
    /\ queue' = Append(queue, Flush(c, next - 1))
    /\ call' = [call EXCEPT ![c] = "waiting"]
    /\ UNCHANGED <<mode, handle, flusher, base, promised, opens, next, disk>>

\* The flusher is gone: the send fails, or the answer's sender was dropped.
CallClosed(c) ==
    /\ flusher = "gone" /\ call[c] # "idle"
    /\ call' = [call EXCEPT ![c] = "idle"]
    /\ UNCHANGED <<mode, handle, flusher, base, promised, opens, queue, next, flushes, disk>>

\* Drop: no call is in progress on a value being dropped.
SendShutdown ==
    /\ handle = "open" /\ \A c \in Callers : call[c] = "idle"
    /\ \/ ChannelTakes /\ queue' = Append(queue, Shutdown)
       \/ flusher = "gone" /\ UNCHANGED queue
    /\ handle' = "closing"
    /\ UNCHANGED <<mode, flusher, base, promised, opens, call, next, flushes, disk>>

Joined ==
    /\ handle = "closing" /\ flusher = "gone"
    /\ handle' = "closed"
    /\ UNCHANGED <<mode, flusher, base, promised, opens, queue, call, next, flushes, disk>>

----------------------------------------------------------------------------
(* The flusher thread. *)

OpenFile ==
    /\ flusher = "opening"
    /\ \/ flusher' = "running" /\ UNCHANGED <<queue, faults>>
       \/ faults < MaxFaults /\ faults' = faults + 1 /\ flusher' = "gone" /\ queue' = <<>>
    /\ UNCHANGED <<mode, handle, base, promised, opens, call, next, flushes, buf, file, synced>>

WriteOk(b) ==
    /\ file' = file \o Bytes(b)
    /\ synced' = IF b = <<>> THEN synced ELSE Len(file')
    /\ UNCHANGED faults

\* Any part of the buffer, all of it included (sync_all failed), got to the file.
WriteFails(b) ==
    /\ b # <<>> /\ faults < MaxFaults
    /\ \E k \in 0..2 * Len(b) : file' = file \o SubSeq(Bytes(b), 1, k)
    /\ UNCHANGED synced
    /\ faults' = faults + 1

\* (faulty form of WriteBuf) the buffer is cleared before the write is known to be good
WriteBufClears(b, ok) ==
    /\ IF ok THEN WriteOk(b) ELSE WriteFails(b)
    /\ buf' = <<>>

\* (faulty form of WriteBuf) the buffer is never cleared
WriteBufKeeps(b, ok) ==
    /\ IF ok THEN WriteOk(b) ELSE WriteFails(b)
    /\ buf' = b

\* write_buf on a buffer holding b: the buffer is kept unless everything succeeds.
WriteBuf(b, ok) ==
    /\ IF ok THEN WriteOk(b) ELSE WriteFails(b)
    /\ buf' = IF ok THEN <<>> ELSE b

Received(kind) ==
    /\ flusher = "running" /\ queue # <<>> /\ Head(queue).kind = kind
    /\ queue' = Tail(queue)

OnRec ==
    /\ Received("rec")
    /\ LET b == Append(buf, Head(queue).rec) IN
         IF Len(b) >= Batch
           THEN \E ok \in BOOLEAN : WriteBuf(b, ok)
           ELSE buf' = b /\ UNCHANGED <<file, synced, faults>>
    /\ UNCHANGED <<mode, handle, flusher, base, promised, opens, call, next, flushes>>

\* (faulty form of OnFlush) no answer when there was nothing to write
OnFlushSilent ==
    /\ Received("flush")
    /\ LET m == Head(queue) IN
         IF buf = <<>>
           THEN UNCHANGED <<call, promised, disk>>
           ELSE \E ok \in BOOLEAN :
                  /\ WriteBuf(buf, ok)
                  /\ call' = [call EXCEPT ![m.who] = "idle"]
                  /\ promised' = IF ok THEN promised \cup base..m.upto ELSE promised
    /\ UNCHANGED <<mode, handle, flusher, base, opens, next, flushes>>

OnFlush ==
    /\ Received("flush")
    /\ LET m == Head(queue) IN
         \E ok \in BOOLEAN :
           /\ WriteBuf(buf, ok)
           /\ call' = [call EXCEPT ![m.who] = "idle"]
           /\ promised' = IF ok THEN promised \cup base..m.upto ELSE promised
    /\ UNCHANGED <<mode, handle, flusher, base, opens, next, flushes>>

OnShutdown ==
    /\ Received("shutdown")
    /\ \E ok \in BOOLEAN : WriteBuf(buf, ok)
    /\ flusher' = "gone"
    /\ UNCHANGED <<mode, handle, base, promised, opens, call, next, flushes>>

\* (faulty form of OnTimeout) only a large buffer is written
OnTimeoutLarge ==
    /\ flusher = "running" /\ queue = <<>> /\ Len(buf) >= Batch
    /\ \E ok \in BOOLEAN : WriteBuf(buf, ok)
    /\ UNCHANGED <<mode, handle, flusher, base, promised, opens, chan>>

\* recv_timeout: 5 ms with something buffered and nothing to receive.
OnTimeout ==
    /\ flusher = "running" /\ queue = <<>> /\ buf # <<>>
    /\ \E ok \in BOOLEAN : WriteBuf(buf, ok)
    /\ UNCHANGED <<mode, handle, flusher, base, promised, opens, chan>>

----------------------------------------------------------------------------
(* The machine, and the next Wal::open on the same path. *)

PowerLoss ==
    /\ handle # "down"
    /\ \E k \in synced..Len(file) : file' = SubSeq(file, 1, k)
    /\ synced' = Len(file')
    /\ handle' = "down" /\ flusher' = "gone" /\ queue' = <<>> /\ buf' = <<>>
    /\ call' = [c \in Callers |-> "idle"]
    /\ UNCHANGED <<mode, base, promised, opens, next, flushes, faults>>

Reopen ==
    /\ handle \in {"closed", "down"} /\ opens < MaxOpens
    /\ opens' = opens + 1
    /\ mode' \in Modes
    /\ handle' = "open" /\ flusher' = "opening" /\ queue' = <<>> /\ buf' = <<>>
    /\ base' = next
    /\ UNCHANGED <<promised, call, next, flushes, file, synced, faults>>

Flusher == OpenFile \/ OnRec \/ OnFlush \/ OnShutdown \/ OnTimeout
Caller(c) == AppendRec(c) \/ SendFlush(c) \/ CallClosed(c)
Next == Flusher \/ (\E c \in Callers : Caller(c)) \/ SendShutdown \/ Joined
        \/ PowerLoss \/ Reopen

Spec == Init /\ [][Next]_vars

\* The threads are scheduled, and a call in progress goes on to its end.
Fairness ==
    /\ WF_vars(Flusher) /\ WF_vars(Joined)
    /\ \A c \in Callers :
         WF_vars(call[c] = "appended" /\ SendFlush(c)) /\ WF_vars(CallClosed(c))
FairSpec == Spec /\ Fairness

----------------------------------------------------------------------------
(* Properties. *)

Messages == {Rec(r) : r \in Records} \cup {Shutdown}
              \cup {Flush(c, r) : c \in Callers, r \in 0..MaxRecs}

\* Every variable has its type, and the channel of sync_channel(queue_cap) never
\* holds more than its capacity.
TypeOK ==
    /\ mode \in Modes
    /\ handle \in {"open", "closing", "closed", "down"}
    /\ flusher \in {"opening", "running", "gone"}
    /\ queue \in Seq(Messages) /\ Len(queue) <= QueueCap
    /\ buf \in Seq(Records) /\ file \in Seq(Records \X {1, 2})
    /\ synced \in 0..Len(file)
    /\ call \in [Callers -> {"idle", "appended", "waiting"}]
    /\ next \in 1..MaxRecs + 1 /\ base \in 1..next
    /\ promised \subseteq Records
    /\ flushes \in 0..MaxFlushes /\ faults \in 0..MaxFaults /\ opens \in 1..MaxOpens

\* A record for which a Sync append returned Ok, or which was sent before a flush
\* that returned Ok, is in the synced part of the file as a whole record, whatever
\* writes failed in between and whenever power was lost: write_buf keeps its buffer
\* until write_all and sync_all both succeeded.
PromisedSurvives == \A r \in promised : Durable(r)

\* Failed writes and retries never make the log skip: once a record of this opening
\* is whole in the file, so is every earlier one, and its first copy comes earlier.
NothingSkipped ==
    \A q, r \in base..next - 1 :
      q < r /\ Copies(r, file) # {} =>
        \E i \in Copies(q, file) : \A j \in Copies(r, file) : i < j

\* Without I/O errors and power losses the file is the records in the order in
\* which they were taken, each once, all of it synced.
ExactLog ==
    faults = 0 /\ handle # "down" /\ opens = 1 =>
      /\ synced = Len(file)
      /\ \E k \in 0..next - 1 : file = Bytes([i \in 1..k |-> i])

\* Dropping the handle loses nothing: when join returns and no I/O call failed,
\* every record the channel took is durable.
ShutdownKeepsAll ==
    handle = "closed" /\ faults = 0 => \A r \in base..next - 1 : Durable(r)

\* What Ok and Drop promise is on disk.
DurablePromises == PromisedSurvives /\ ShutdownKeepsAll

\* The file is a log: no hole, whatever failed, and exact when nothing did.
LogSound == TypeOK /\ NothingSkipped /\ ExactLog

\* The write-ahead log as a whole: promises kept, and the file a log.
DurableLog == DurablePromises /\ LogSound

\* A Sync append, a flush and Drop always return, also when the file cannot be
\* opened, writes fail or the channel is full.
CallsReturn ==
    /\ \A c \in Callers : call[c] # "idle" ~> call[c] = "idle"
    /\ handle = "closing" ~> handle # "closing"

\* A record the channel took becomes durable without anybody asking for a flush
\* (the 5 ms timeout), unless the flusher ended first.
TakenIsWritten ==
    \A r \in Records : (base <= r /\ r < next) ~> (Durable(r) \/ flusher = "gone")
=============================================================================
