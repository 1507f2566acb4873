----------------------------- MODULE WalProofs -----------------------------
(***************************************************************************)
(* The durability promise of the write-ahead log, for any number of        *)
(* callers, records, failures and openings, any channel and batch size:    *)
(* what an Ok of a Sync append or of flush covered, and what was taken     *)
(* before an error-free Drop, is in the synced part of the file.           *)
(*                                                                         *)
(* The promise is made when a flush request is answered, long after the    *)
(* records it covers were sent.  The invariant says where they are         *)
(* meanwhile: a record that precedes a request is synced, in the flusher's *)
(* buffer, or ahead of the request in the channel (Where).                 *)
(*                                                                         *)
(* The second half is about the file: what it holds is the records in the  *)
(* order they were taken, none skipped and only its end torn, whatever     *)
(* writes failed and whenever power was lost (LogShape), so that both      *)
(* together are DurableLog.                                                *)
(***************************************************************************)
EXTENDS Wal, SequenceTheorems, TLAPS

Pieces == Nat \X {1, 2}
Sendable == {Rec(r) : r \in Nat} \cup {Flush(c, u) : c \in Callers, u \in Nat} \cup {Shutdown}

\* Record r is whole in the first s pieces of f.
WholeIn(f, s, r) == \E i \in 1..(s - 1) : f[i] = <<r, 1>> /\ f[i + 1] = <<r, 2>>

InFile(r) == WholeIn(file, synced, r)
InBuf(r) == \E k \in 1..Len(buf) : buf[k] = r
Ahead(r, p) == \E q \in 1..(p - 1) : queue[q] = Rec(r)
Where(r, p) == InFile(r) \/ InBuf(r) \/ Ahead(r, p)

Types ==
  /\ next \in Nat \ {0} /\ base \in Nat \ {0} /\ faults \in Nat
  /\ queue \in Seq(Sendable) /\ buf \in Seq(Nat)
  /\ file \in Seq(Pieces) /\ synced \in Nat /\ synced <= Len(file)
  /\ promised \subseteq Nat

\* While the flusher is there no record of this opening is lost.
NoneLost == flusher # "gone" => \A r \in base..(next - 1) : Where(r, Len(queue) + 1)

\* What a flush request covers is synced, buffered or ahead of it.
FlushCovers ==
  \A p \in 1..Len(queue) : queue[p].kind = "flush" =>
    \A r \in base..queue[p].upto : Where(r, p)

\* Shutdown covers everything, and nothing is sent after it.
ShutdownCovers ==
  \A p \in 1..Len(queue) : queue[p].kind = "shutdown" =>
    handle # "open" /\ \A r \in base..(next - 1) : Where(r, p)

PromiseKept == \A r \in promised : InFile(r)

\* Without errors the flusher ends by Shutdown or with the machine.
Ended ==
  /\ flusher # "gone" => handle \in {"open", "closing"}
  /\ faults = 0 /\ flusher = "gone" =>
       \/ handle = "down"
       \/ handle \in {"closing", "closed"} /\ \A r \in base..(next - 1) : InFile(r)

IInv == Types /\ NoneLost /\ FlushCovers /\ ShutdownCovers /\ PromiseKept /\ Ended
----------------------------------------------------------------------------
(* Files *)

\* Durable, without the sequence of synced pieces.
LEMMA DurableIs == ASSUME Types, NEW r, InFile(r) PROVE Durable(r)
<1> DEFINE s == SubSeq(file, 1, synced)
<1>1. PICK i \in 1..(synced - 1) : file[i] = <<r, 1>> /\ file[i + 1] = <<r, 2>>
  BY DEF InFile, WholeIn
<1>2. Len(s) = synced /\ \A j \in 1..synced : s[j] = file[j]
  BY DEF Types
<1>3. synced \in Nat /\ i \in 1..synced /\ i + 1 \in 1..synced
  BY DEF Types
<1>4. i \in 1..(Len(s) - 1)
  BY <1>2, <1>3
<1>5. s[i] = <<r, 1>> /\ s[i + 1] = <<r, 2>>
  BY <1>1, <1>2, <1>3
<1> HIDE DEF s
<1>6. i \in Copies(r, s)
  BY <1>4, <1>5 DEF Copies, WholeAt
<1> QED
  BY <1>6 DEF Durable, s

\* What is whole stays whole in a longer file.
LEMMA Longer ==
  ASSUME NEW f, NEW g, NEW s \in Nat, NEW t \in Nat, s <= t,
         \A i \in 1..s : g[i] = f[i], NEW r, WholeIn(f, s, r)
  PROVE  WholeIn(g, t, r)
<1>1. PICK i \in 1..(s - 1) : f[i] = <<r, 1>> /\ f[i + 1] = <<r, 2>>
  BY DEF WholeIn
<1>2. i \in 1..s /\ i + 1 \in 1..s /\ i \in 1..(t - 1)
  OBVIOUS
<1> QED
  BY <1>1, <1>2 DEF WholeIn

\* The bytes of a buffer are those of its records.
LEMMA BytesFact ==
  ASSUME NEW b \in Seq(Nat)
  PROVE  /\ Bytes(b) \in Seq(Pieces) /\ Len(Bytes(b)) = 2 * Len(b)
         /\ \A k \in 1..Len(b) : /\ 2 * k - 1 \in 1..(2 * Len(b)) /\ 2 * k \in 1..(2 * Len(b))
                                 /\ Bytes(b)[2 * k - 1] = <<b[k], 1>>
                                 /\ Bytes(b)[2 * k] = <<b[k], 2>>
<1> DEFINE n == Len(b)
<1>1. n \in Nat /\ \A k \in 1..n : b[k] \in Nat
  OBVIOUS
<1>2. \A i \in 1..(2 * n) : (i + 1) \div 2 \in 1..n /\ 2 - (i % 2) \in {1, 2}
  BY <1>1
<1>3. Bytes(b) = [i \in 1..(2 * n) |-> <<b[(i + 1) \div 2], 2 - (i % 2)>>]
  BY DEF Bytes
<1>4. Bytes(b) \in Seq(Pieces) /\ Len(Bytes(b)) = 2 * n
  <2>1. \A i \in 1..(2 * n) : <<b[(i + 1) \div 2], 2 - (i % 2)>> \in Pieces
    BY <1>1, <1>2 DEF Pieces
  <2>2. 2 * n \in Nat
    BY <1>1
  <2> HIDE DEF n
  <2> QED
    BY <1>3, <2>1, <2>2
<1>5. \A k \in 1..n : /\ 2 * k - 1 \in 1..(2 * n) /\ 2 * k \in 1..(2 * n)
                      /\ ((2 * k - 1) + 1) \div 2 = k /\ (2 * k + 1) \div 2 = k
                      /\ 2 - ((2 * k - 1) % 2) = 1 /\ 2 - ((2 * k) % 2) = 2
  BY <1>1
<1> HIDE DEF n
<1>6. ASSUME NEW k \in 1..n
      PROVE  /\ 2 * k - 1 \in 1..(2 * n) /\ 2 * k \in 1..(2 * n)
             /\ Bytes(b)[2 * k - 1] = <<b[k], 1>> /\ Bytes(b)[2 * k] = <<b[k], 2>>
  BY <1>3, <1>5
<1> QED
  BY <1>4, <1>6 DEF n

\* A buffer that is written is whole in the file.
LEMMA WrittenWhole ==
  ASSUME NEW f \in Seq(Pieces), NEW b \in Seq(Nat), NEW k \in 1..Len(b)
  PROVE  WholeIn(f \o Bytes(b), Len(f \o Bytes(b)), b[k])
<1> DEFINE c == Bytes(b)
           i == Len(f) + (2 * k - 1)
<1>1. c \in Seq(Pieces) /\ Len(c) = 2 * Len(b)
  BY BytesFact
<1>2. /\ 2 * k - 1 \in 1..Len(c) /\ 2 * k \in 1..Len(c)
      /\ c[2 * k - 1] = <<b[k], 1>> /\ c[2 * k] = <<b[k], 2>>
  BY BytesFact
<1> HIDE DEF c
<1>3. Len(f \o c) = Len(f) + Len(c) /\ \A j \in 1..Len(c) : (f \o c)[Len(f) + j] = c[j]
  <2>1. /\ Len(f \o c) = Len(f) + Len(c)
        /\ \A j \in 1..(Len(f) + Len(c)) :
              (f \o c)[j] = IF j <= Len(f) THEN f[j] ELSE c[j - Len(f)]
    BY <1>1, ConcatProperties
  <2>2. ASSUME NEW j \in 1..Len(c) PROVE (f \o c)[Len(f) + j] = c[j]
    <3>1. Len(f) \in Nat /\ Len(c) \in Nat
      BY <1>1
    <3>2. /\ Len(f) + j \in 1..(Len(f) + Len(c)) /\ ~(Len(f) + j <= Len(f))
          /\ (Len(f) + j) - Len(f) = j
      BY <3>1
    <3> QED
      BY <2>1, <3>2
  <2> QED
    BY <2>1, <2>2
<1>4. (f \o c)[Len(f) + (2 * k - 1)] = <<b[k], 1>> /\ (f \o c)[Len(f) + 2 * k] = <<b[k], 2>>
  BY <1>2, <1>3
<1>5. Len(f) \in Nat /\ Len(c) \in Nat /\ k \in Nat
  BY <1>1
<1>6. i \in 1..(Len(f \o c) - 1) /\ i + 1 = Len(f) + 2 * k
  BY <1>2, <1>3, <1>5
<1>7. (f \o c)[i] = <<b[k], 1>> /\ (f \o c)[i + 1] = <<b[k], 2>>
  BY <1>4, <1>6
<1> HIDE DEF i
<1> QED
  BY <1>6, <1>7 DEF WholeIn, c
----------------------------------------------------------------------------
(* Steps of the flusher *)

\* What a step may do to the file: whole records stay whole.
FileKept == \A r \in Nat : InFile(r) => InFile(r)'

\* write_buf: nothing of the buffer is lost, all of it is synced if it says so.
LEMMA WriteFact ==
  ASSUME Types, NEW b \in Seq(Nat), NEW ok \in BOOLEAN, WriteBuf(b, ok)
  PROVE  /\ buf' \in Seq(Nat) /\ file' \in Seq(Pieces)
         /\ synced' \in Nat /\ synced' <= Len(file') /\ faults' \in Nat
         /\ FileKept
         /\ \A k \in 1..Len(b) : InFile(b[k])' \/ InBuf(b[k])'
         /\ ok => (\A k \in 1..Len(b) : InFile(b[k])') /\ faults' = faults
         /\ ~ok => faults' # 0
<1> USE DEF WriteBuf
<1>0. /\ file \in Seq(Pieces) /\ synced \in Nat /\ synced <= Len(file) /\ faults \in Nat
      /\ Len(file) \in Nat
  BY DEF Types
<1>1. CASE ok
  <2>1. /\ file' = file \o Bytes(b) /\ buf' = <<>> /\ faults' = faults
        /\ synced' = IF b = <<>> THEN synced ELSE Len(file')
    BY <1>1 DEF WriteOk
  <2>2. Bytes(b) \in Seq(Pieces)
    BY BytesFact
  <2>3. /\ file' \in Seq(Pieces) /\ Len(file') = Len(file) + Len(Bytes(b))
        /\ \A j \in 1..(Len(file) + Len(Bytes(b))) :
              file'[j] = IF j <= Len(file) THEN file[j] ELSE Bytes(b)[j - Len(file)]
    BY <1>0, <2>1, <2>2, ConcatProperties
  <2>4. Len(Bytes(b)) \in Nat
    BY <2>2
  <2>5. synced' \in Nat /\ synced' <= Len(file') /\ synced <= synced'
    BY <1>0, <2>1, <2>3, <2>4
  <2>6. \A i \in 1..synced : file'[i] = file[i]
    BY <1>0, <2>3, <2>4
  <2>7. FileKept
    BY <1>0, <2>5, <2>6, Longer DEF FileKept, InFile
  <2>8. ASSUME NEW k \in 1..Len(b) PROVE InFile(b[k])'
    <3>1. b # <<>>
      OBVIOUS
    <3>2. WholeIn(file', Len(file'), b[k])
      BY <1>0, <2>1, WrittenWhole
    <3> QED
      BY <2>1, <3>1, <3>2 DEF InFile
  <2> QED
    BY <1>0, <1>1, <2>1, <2>3, <2>5, <2>7, <2>8
<1>2. CASE ~ok
  <2>1. PICK n \in 0..(2 * Len(b)) : file' = file \o SubSeq(Bytes(b), 1, n)
    BY <1>2 DEF WriteFails
  <2>2. buf' = b /\ synced' = synced /\ faults' = faults + 1
    BY <1>2 DEF WriteFails
  <2> DEFINE c == SubSeq(Bytes(b), 1, n)
  <2>3. c \in Seq(Pieces)
    <3>1. Bytes(b) \in Seq(Pieces) /\ Len(Bytes(b)) = 2 * Len(b)
      BY BytesFact
    <3>2. \A i \in 1..n : Bytes(b)[i] \in Pieces
      BY <3>1
    <3> QED
      BY <3>2, SubSeqProperties
  <2> HIDE DEF c
  <2>4. /\ file' \in Seq(Pieces) /\ Len(file') = Len(file) + Len(c)
        /\ \A j \in 1..(Len(file) + Len(c)) :
              file'[j] = IF j <= Len(file) THEN file[j] ELSE c[j - Len(file)]
    <3>1. file' = file \o c
      BY <2>1 DEF c
    <3> QED
      BY <1>0, <2>3, <3>1, ConcatProperties
  <2>5. Len(c) \in Nat
    BY <2>3
  <2>6. \A i \in 1..synced : file'[i] = file[i]
    BY <1>0, <2>4, <2>5
  <2>7. FileKept
    <3>1. synced' \in Nat /\ synced <= synced'
      BY <1>0, <2>2
    <3> QED
      BY <1>0, <2>6, <3>1, Longer DEF FileKept, InFile
  <2>8. \A k \in 1..Len(b) : InBuf(b[k])'
    BY <2>2 DEF InBuf
  <2>9. synced' <= Len(file')
    BY <1>0, <2>2, <2>4, <2>5
  <2> QED
    BY <1>0, <1>2, <2>2, <2>4, <2>7, <2>8, <2>9
<1> QED
  BY <1>1, <1>2

\* After a message was received, what was ahead of a later one still is, or
\* has gone on to the buffer or the file.
LEMMA Shift ==
  ASSUME Types, queue # <<>>, queue' = Tail(queue), FileKept,
         \A r \in Nat : InBuf(r) \/ Head(queue) = Rec(r) => InFile(r)' \/ InBuf(r)'
  PROVE  /\ queue' \in Seq(Sendable) /\ Len(queue') = Len(queue) - 1 /\ Len(queue) \in Nat
         /\ \A p \in 1..Len(queue') : p + 1 \in 1..Len(queue) /\ queue'[p] = queue[p + 1]
         /\ \A p \in 1..Len(queue), r \in Nat : Where(r, p + 1) => Where(r, p)'
<1>1. /\ queue' \in Seq(Sendable) /\ Len(queue') = Len(queue) - 1 /\ Len(queue) \in Nat
      /\ \A p \in 1..Len(queue') : queue'[p] = queue[p + 1]
  BY HeadTailProperties DEF Types
<1>2. \A p \in 1..Len(queue') : p + 1 \in 1..Len(queue)
  BY <1>1
<1>3. ASSUME NEW p \in 1..Len(queue), NEW r \in Nat, Where(r, p + 1)
      PROVE  Where(r, p)'
  <2>1. CASE InFile(r)
    BY <2>1 DEF FileKept, Where
  <2>2. CASE InBuf(r)
    BY <2>2 DEF Where
  <2>3. CASE Ahead(r, p + 1)
    <3>1. PICK q \in 1..((p + 1) - 1) : queue[q] = Rec(r)
      BY <2>3 DEF Ahead
    <3>2. CASE q = 1
      <4>1. Head(queue) = Rec(r)
        BY <3>1, <3>2 DEF Types
      <4> QED
        BY <4>1 DEF Where
    <3>3. CASE q # 1
      <4>1. q - 1 \in 1..(p - 1) /\ q - 1 \in 1..Len(queue') /\ (q - 1) + 1 = q
        BY <1>1, <3>3
      <4>2. queue'[q - 1] = Rec(r)
        BY <1>1, <3>1, <4>1
      <4>3. Ahead(r, p)'
        BY <4>1, <4>2 DEF Ahead
      <4> QED
        BY <4>3 DEF Where
    <3> QED
      BY <3>2, <3>3
  <2> QED
    BY <1>3, <2>1, <2>2, <2>3 DEF Where
<1> QED
  BY <1>1, <1>2, <1>3

\* A flush request covers numbers of records.
LEMMA Covered ==
  ASSUME Types, NEW p \in 1..Len(queue), queue[p].kind = "flush"
  PROVE  queue[p].upto \in Nat /\ queue[p].who \in Callers
<1>1. queue[p] \in Sendable
  BY DEF Types
<1> QED
  BY <1>1 DEF Sendable, Rec, Flush, Shutdown

\* What the invariant needs after a message was received.
LEMMA ReceivedKeeps ==
  ASSUME IInv, queue # <<>>, queue' = Tail(queue), FileKept, flusher # "gone",
         \A r \in Nat : InBuf(r) \/ Head(queue) = Rec(r) => InFile(r)' \/ InBuf(r)',
         UNCHANGED <<handle, base, next>>
  PROVE  NoneLost' /\ FlushCovers' /\ ShutdownCovers'
<1>1. Types /\ next \in Nat /\ base \in Nat
  BY DEF IInv, Types
<1>2. /\ queue' \in Seq(Sendable) /\ Len(queue') = Len(queue) - 1 /\ Len(queue) \in Nat
      /\ \A p \in 1..Len(queue') : p + 1 \in 1..Len(queue) /\ queue'[p] = queue[p + 1]
      /\ \A p \in 1..Len(queue), r \in Nat : Where(r, p + 1) => Where(r, p)'
  BY <1>1, Shift
<1>3. NoneLost'
  <2> SUFFICES ASSUME NEW r \in base..(next - 1) PROVE Where(r, Len(queue) + 1)'
    BY DEF NoneLost
  <2>1. PICK n : n = Len(queue)
    OBVIOUS
  <2>2. r \in Nat /\ n \in 1..Len(queue) /\ Len(queue') + 1 = n
    BY <1>1, <1>2, <2>1 DEF Types
  <2>3. Where(r, n + 1)
    BY <2>1 DEF IInv, NoneLost
  <2>4. Where(r, n)'
    BY <1>2, <2>2, <2>3
  <2> QED
    BY <2>2, <2>4 DEF Where, Ahead
<1>4. FlushCovers'
  <2> SUFFICES ASSUME NEW p \in 1..Len(queue'), queue'[p].kind = "flush",
                      NEW r \in base..queue'[p].upto
               PROVE  Where(r, p)'
    BY DEF FlushCovers
  <2>1. p + 1 \in 1..Len(queue) /\ queue'[p] = queue[p + 1] /\ p \in 1..Len(queue)
    BY <1>2
  <2>2. r \in Nat
    BY <1>1, <2>1, Covered
  <2>3. Where(r, p + 1)
    BY <2>1 DEF IInv, FlushCovers
  <2> QED
    BY <1>2, <2>1, <2>2, <2>3
<1>5. ShutdownCovers'
  <2> SUFFICES ASSUME NEW p \in 1..Len(queue'), queue'[p].kind = "shutdown"
               PROVE  handle # "open" /\ \A r \in base..(next - 1) : Where(r, p)'
    BY DEF ShutdownCovers
  <2>1. p + 1 \in 1..Len(queue) /\ queue'[p] = queue[p + 1] /\ p \in 1..Len(queue)
    BY <1>2
  <2>2. handle # "open" /\ \A r \in base..(next - 1) : r \in Nat /\ Where(r, p + 1)
    BY <1>1, <2>1 DEF IInv, ShutdownCovers
  <2> QED
    BY <1>2, <2>1, <2>2
<1> QED
  BY <1>3, <1>4, <1>5

\* The message at hand.
LEMMA HeadFact ==
  ASSUME Types, queue # <<>>
  PROVE  /\ Head(queue) = queue[1] /\ 1 \in 1..Len(queue) /\ Head(queue) \in Sendable
         /\ Head(queue).kind = "rec" => Head(queue).rec \in Nat
         /\ \A r \in Nat : Head(queue) = Rec(r) => Head(queue).kind = "rec" /\ r = Head(queue).rec
<1>1. Head(queue) = queue[1] /\ 1 \in 1..Len(queue)
  BY DEF Types
<1>2. Head(queue) \in Sendable
  BY HeadTailProperties DEF Types
<1>3. Head(queue).kind = "rec" => Head(queue).rec \in Nat
  BY <1>2 DEF Sendable, Rec, Flush, Shutdown
<1> QED
  BY <1>1, <1>2, <1>3 DEF Rec

\* A record is moved into the buffer, which is written when it is large.
LEMMA RecKeeps == ASSUME IInv, OnRec PROVE IInv'
<1>0. Types /\ flusher = "running" /\ queue # <<>> /\ queue' = Tail(queue)
      /\ Head(queue).kind = "rec" /\ buf \in Seq(Nat) /\ Head(queue).rec \in Nat
  BY HeadFact DEF IInv, OnRec, Received, Types
<1>1. UNCHANGED <<mode, handle, flusher, base, promised, opens, call, next, flushes>>
  BY DEF OnRec
<1>2. PICK b : b = Append(buf, Head(queue).rec)
  OBVIOUS
<1>3. /\ b \in Seq(Nat) /\ Len(b) = Len(buf) + 1 /\ Len(buf) \in Nat
      /\ \A k \in 1..Len(buf) : b[k] = buf[k]
      /\ b[Len(buf) + 1] = Head(queue).rec
  BY <1>0, <1>2, AppendProperties
<1>4. /\ buf' \in Seq(Nat) /\ file' \in Seq(Pieces)
      /\ synced' \in Nat /\ synced' <= Len(file') /\ faults' \in Nat
      /\ FileKept
      /\ \A k \in 1..Len(b) : InFile(b[k])' \/ InBuf(b[k])'
  <2>1. CASE \E ok \in BOOLEAN : WriteBuf(b, ok)
    BY <1>0, <1>3, <2>1, WriteFact
  <2>2. CASE buf' = b /\ UNCHANGED <<file, synced, faults>>
    BY <1>0, <1>3, <2>2 DEF Types, FileKept, InFile, InBuf
  <2> QED
    BY <1>2, <2>1, <2>2 DEF OnRec
<1>5. \A r \in Nat : InBuf(r) \/ Head(queue) = Rec(r) => InFile(r)' \/ InBuf(r)'
  <2> SUFFICES ASSUME NEW r \in Nat, InBuf(r) \/ Head(queue) = Rec(r)
               PROVE  InFile(r)' \/ InBuf(r)'
    OBVIOUS
  <2>1. \E k \in 1..Len(b) : b[k] = r
    <3>1. CASE InBuf(r)
      <4>1. PICK k \in 1..Len(buf) : buf[k] = r
        BY <3>1 DEF InBuf
      <4>2. k \in 1..Len(b) /\ b[k] = r
        BY <1>3, <4>1
      <4> QED
        BY <4>2
    <3>2. CASE Head(queue) = Rec(r)
      <4>1. r = Head(queue).rec
        BY <3>2, <1>0, HeadFact
      <4>2. Len(buf) + 1 \in 1..Len(b) /\ b[Len(buf) + 1] = r
        BY <1>3, <4>1
      <4> QED
        BY <4>2
    <3> QED
      BY <3>1, <3>2
  <2> QED
    BY <1>4, <2>1
<1>6. NoneLost' /\ FlushCovers' /\ ShutdownCovers'
  BY <1>0, <1>1, <1>4, <1>5, ReceivedKeeps
<1>7. Types'
  <2>1. queue' \in Seq(Sendable)
    BY <1>0, <1>4, <1>5, Shift
  <2> QED
    BY <1>0, <1>1, <1>4, <2>1 DEF Types
<1>8. PromiseKept'
  BY <1>0, <1>1, <1>4 DEF IInv, PromiseKept, FileKept, Types
<1>9. Ended'
  BY <1>0, <1>1 DEF IInv, Ended
<1> QED
  BY <1>6, <1>7, <1>8, <1>9 DEF IInv

\* A flush request is answered: Ok promises what precedes the request.
LEMMA FlushKeeps == ASSUME IInv, OnFlush PROVE IInv'
<1>0. Types /\ flusher = "running" /\ queue # <<>> /\ queue' = Tail(queue)
      /\ Head(queue).kind = "flush" /\ buf \in Seq(Nat)
  BY DEF IInv, OnFlush, Received, Types
<1>1. UNCHANGED <<mode, handle, flusher, base, opens, next, flushes>>
  BY DEF OnFlush
<1>a. PICK b : b = buf
  OBVIOUS
<1>2. PICK ok \in BOOLEAN :
        /\ WriteBuf(b, ok)
        /\ promised' = IF ok THEN promised \cup base..Head(queue).upto ELSE promised
  BY <1>a DEF OnFlush
<1>3. /\ buf' \in Seq(Nat) /\ file' \in Seq(Pieces)
      /\ synced' \in Nat /\ synced' <= Len(file') /\ faults' \in Nat
      /\ FileKept
      /\ \A k \in 1..Len(b) : InFile(b[k])' \/ InBuf(b[k])'
      /\ ok => \A k \in 1..Len(b) : InFile(b[k])'
  BY <1>0, <1>a, <1>2, WriteFact
<1>4. \A r \in Nat : InBuf(r) \/ Head(queue) = Rec(r) => InFile(r)' \/ InBuf(r)'
  <2> SUFFICES ASSUME NEW r \in Nat, InBuf(r) \/ Head(queue) = Rec(r)
               PROVE  InFile(r)' \/ InBuf(r)'
    OBVIOUS
  <2>1. InBuf(r)
    BY <1>0, HeadFact
  <2>2. PICK k \in 1..Len(b) : b[k] = r
    BY <1>a, <2>1 DEF InBuf
  <2> QED
    BY <1>3, <2>2
<1>5. NoneLost' /\ FlushCovers' /\ ShutdownCovers'
  BY <1>0, <1>1, <1>3, <1>4, ReceivedKeeps
<1>6. Head(queue) = queue[1] /\ 1 \in 1..Len(queue) /\ Head(queue).upto \in Nat
  BY <1>0, HeadFact, Covered
<1>7. Types'
  <2>1. queue' \in Seq(Sendable)
    BY <1>0, <1>3, <1>4, Shift
  <2>2. base \in Nat
    BY <1>0 DEF Types
  <2>3. base..Head(queue).upto \subseteq Nat
    BY <1>6, <2>2
  <2>4. promised' \subseteq Nat
    BY <1>0, <1>2, <2>3 DEF Types
  <2> QED
    BY <1>0, <1>1, <1>3, <2>1, <2>4 DEF Types
<1>8. PromiseKept'
  <2> SUFFICES ASSUME NEW r \in promised' PROVE InFile(r)'
    BY DEF PromiseKept
  <2>0. r \in Nat
    BY <1>7 DEF Types
  <2>1. CASE r \in promised
    BY <1>3, <2>0, <2>1 DEF IInv, PromiseKept, FileKept
  <2>2. CASE ok /\ r \in base..Head(queue).upto
    <3>1. Where(r, 1)
      BY <1>0, <1>6, <2>2 DEF IInv, FlushCovers
    <3>2. ~Ahead(r, 1)
      BY DEF Ahead
    <3>3. CASE InFile(r)
      BY <1>3, <2>0, <3>3 DEF FileKept
    <3>4. CASE InBuf(r)
      <4>1. PICK k \in 1..Len(b) : b[k] = r
        BY <1>a, <3>4 DEF InBuf
      <4> QED
        BY <1>3, <2>2, <4>1
    <3> QED
      BY <3>1, <3>2, <3>3, <3>4 DEF Where
  <2> QED
    BY <1>2, <2>1, <2>2
<1>9. Ended'
  BY <1>0, <1>1 DEF IInv, Ended
<1> QED
  BY <1>5, <1>7, <1>8, <1>9 DEF IInv

\* Shutdown is received: the last write, and the end of the thread.
LEMMA ShutdownKeeps == ASSUME IInv, OnShutdown PROVE IInv'
<1>0. Types /\ flusher = "running" /\ queue # <<>> /\ queue' = Tail(queue)
      /\ Head(queue).kind = "shutdown" /\ buf \in Seq(Nat)
  BY DEF IInv, OnShutdown, Received, Types
<1>1. UNCHANGED <<mode, handle, base, promised, opens, call, next, flushes>> /\ flusher' = "gone"
  BY DEF OnShutdown
<1>2. PICK b : b = buf
  OBVIOUS
<1>3. PICK ok \in BOOLEAN : WriteBuf(b, ok)
  BY <1>2 DEF OnShutdown
<1>4. /\ buf' \in Seq(Nat) /\ file' \in Seq(Pieces)
      /\ synced' \in Nat /\ synced' <= Len(file') /\ faults' \in Nat
      /\ FileKept
      /\ \A k \in 1..Len(b) : InFile(b[k])' \/ InBuf(b[k])'
      /\ ok => \A k \in 1..Len(b) : InFile(b[k])'
      /\ ~ok => faults' # 0
  BY <1>0, <1>2, <1>3, WriteFact
<1>5. \A r \in Nat : InBuf(r) \/ Head(queue) = Rec(r) => InFile(r)' \/ InBuf(r)'
  <2> SUFFICES ASSUME NEW r \in Nat, InBuf(r) \/ Head(queue) = Rec(r)
               PROVE  InFile(r)' \/ InBuf(r)'
    OBVIOUS
  <2>1. InBuf(r)
    BY <1>0, HeadFact
  <2>2. PICK k \in 1..Len(b) : b[k] = r
    BY <1>2, <2>1 DEF InBuf
  <2> QED
    BY <1>4, <2>2
<1>6. NoneLost' /\ FlushCovers' /\ ShutdownCovers'
  BY <1>0, <1>1, <1>4, <1>5, ReceivedKeeps
<1>7. Types'
  <2>1. queue' \in Seq(Sendable)
    BY <1>0, <1>4, <1>5, Shift
  <2> QED
    BY <1>0, <1>1, <1>4, <2>1 DEF Types
<1>8. PromiseKept'
  BY <1>0, <1>1, <1>4 DEF IInv, PromiseKept, FileKept, Types
<1>9. Ended'
  <2>1. Head(queue) = queue[1] /\ 1 \in 1..Len(queue)
    BY <1>0, HeadFact
  <2>2. handle = "closing" /\ \A r \in base..(next - 1) : Where(r, 1)
    BY <1>0, <2>1 DEF IInv, ShutdownCovers, Ended
  <2>3. ASSUME ok, NEW r \in base..(next - 1) PROVE InFile(r)'
    <3>1. Where(r, 1) /\ ~Ahead(r, 1) /\ r \in Nat
      BY <1>0, <2>2 DEF Ahead, Types
    <3>2. CASE InFile(r)
      BY <1>4, <3>1, <3>2 DEF FileKept
    <3>3. CASE InBuf(r)
      <4>1. PICK k \in 1..Len(b) : b[k] = r
        BY <1>2, <3>3 DEF InBuf
      <4> QED
        BY <1>4, <2>3, <4>1
    <3> QED
      BY <3>1, <3>2, <3>3 DEF Where
  <2> QED
    BY <1>1, <1>4, <2>2, <2>3 DEF Ended
<1> QED
  BY <1>6, <1>7, <1>8, <1>9 DEF IInv

\* After five quiet milliseconds the buffer is written.
LEMMA TimeoutKeeps == ASSUME IInv, OnTimeout PROVE IInv'
<1> USE DEF chan
<1>0. Types /\ flusher = "running" /\ queue = <<>> /\ buf \in Seq(Nat)
  BY DEF IInv, OnTimeout, Types
<1>1. UNCHANGED <<mode, flusher, base, promised, opens, handle, queue, call, next, flushes>>
  BY DEF OnTimeout
<1>2. PICK b : b = buf
  OBVIOUS
<1>3. /\ buf' \in Seq(Nat) /\ file' \in Seq(Pieces)
      /\ synced' \in Nat /\ synced' <= Len(file') /\ faults' \in Nat
      /\ FileKept
      /\ \A k \in 1..Len(b) : InFile(b[k])' \/ InBuf(b[k])'
  BY <1>0, <1>2, WriteFact DEF OnTimeout
<1>4. NoneLost'
  <2> SUFFICES ASSUME NEW r \in base..(next - 1) PROVE Where(r, Len(queue) + 1)'
    BY <1>1 DEF NoneLost
  <2>1. Where(r, Len(queue) + 1) /\ ~Ahead(r, Len(queue) + 1) /\ r \in Nat
    BY <1>0 DEF IInv, NoneLost, Ahead, Types
  <2>2. CASE InFile(r)
    BY <1>3, <2>1, <2>2 DEF FileKept, Where
  <2>3. CASE InBuf(r)
    <3>1. PICK k \in 1..Len(b) : b[k] = r
      BY <1>2, <2>3 DEF InBuf
    <3> QED
      BY <1>3, <3>1 DEF Where
  <2> QED
    BY <2>1, <2>2, <2>3 DEF Where
<1>5. FlushCovers' /\ ShutdownCovers'
  BY <1>0, <1>1 DEF FlushCovers, ShutdownCovers
<1>6. Types'
  BY <1>0, <1>1, <1>3 DEF Types
<1>7. PromiseKept'
  BY <1>0, <1>1, <1>3 DEF IInv, PromiseKept, FileKept, Types
<1>8. Ended'
  BY <1>0, <1>1 DEF IInv, Ended
<1> QED
  BY <1>4, <1>5, <1>6, <1>7, <1>8 DEF IInv
----------------------------------------------------------------------------
(* Steps of the callers *)

\* What the channel takes goes behind everything else.
LEMMA Sent ==
  ASSUME Types, NEW m \in Sendable, queue' = Append(queue, m), UNCHANGED <<file, synced, buf>>
  PROVE  /\ queue' \in Seq(Sendable) /\ Len(queue') = Len(queue) + 1 /\ Len(queue) \in Nat
         /\ queue'[Len(queue) + 1] = m
         /\ \A p \in 1..Len(queue) : queue'[p] = queue[p]
         /\ \A p \in 1..(Len(queue) + 1), r \in Nat : Where(r, p) => Where(r, p)'
         /\ \A r \in Nat : Where(r, Len(queue) + 1) => Where(r, Len(queue) + 1)'
<1>1. /\ queue' \in Seq(Sendable) /\ Len(queue') = Len(queue) + 1 /\ Len(queue) \in Nat
      /\ queue'[Len(queue) + 1] = m
      /\ \A p \in 1..Len(queue) : queue'[p] = queue[p]
  BY AppendProperties DEF Types
<1>2. ASSUME NEW p \in 1..(Len(queue) + 1), NEW r \in Nat, Where(r, p)
      PROVE  Where(r, p)'
  <2>1. CASE InFile(r) \/ InBuf(r)
    BY <2>1 DEF Where, InFile, InBuf
  <2>2. CASE Ahead(r, p)
    <3>1. PICK q \in 1..(p - 1) : queue[q] = Rec(r)
      BY <2>2 DEF Ahead
    <3>2. q \in 1..Len(queue)
      BY <1>1
    <3>3. Ahead(r, p)'
      BY <1>1, <3>1, <3>2 DEF Ahead
    <3> QED
      BY <3>3 DEF Where
  <2> QED
    BY <1>2, <2>1, <2>2 DEF Where
<1>3. ASSUME NEW r \in Nat, Where(r, Len(queue) + 1)
      PROVE  Where(r, Len(queue) + 1)'
  <2>1. PICK n \in 1..(Len(queue) + 1) : n = Len(queue) + 1
    BY <1>1
  <2>2. Where(r, n)'
    BY <1>2, <1>3, <2>1
  <2>3. CASE Ahead(r, n)'
    <3>1. PICK q \in 1..(n - 1) : queue'[q] = Rec(r)
      BY <2>3 DEF Ahead
    <3>2. q \in 1..(Len(queue') + 1 - 1)
      BY <1>1, <2>1
    <3>3. Ahead(r, Len(queue) + 1)'
      BY <3>1, <3>2 DEF Ahead
    <3> QED
      BY <3>3 DEF Where
  <2> QED
    BY <2>2, <2>3 DEF Where
<1> QED
  BY <1>1, <1>2, <1>3

\* The requests already in the channel cover what they covered.
LEMMA SentKeeps ==
  ASSUME IInv, NEW m \in Sendable, queue' = Append(queue, m), UNCHANGED <<file, synced, buf, base>>,
         m.kind = "flush" => \A r \in base..m.upto : r \in Nat /\ Where(r, Len(queue) + 1)
  PROVE  FlushCovers'
<1>0. Types
  BY DEF IInv
<1>1. /\ Len(queue') = Len(queue) + 1 /\ Len(queue) \in Nat
      /\ queue'[Len(queue) + 1] = m
      /\ \A p \in 1..Len(queue) : queue'[p] = queue[p]
      /\ \A p \in 1..(Len(queue) + 1), r \in Nat : Where(r, p) => Where(r, p)'
  BY <1>0, Sent
<1> SUFFICES ASSUME NEW p \in 1..Len(queue'), queue'[p].kind = "flush",
                    NEW r \in base..queue'[p].upto
             PROVE  Where(r, p)'
  BY DEF FlushCovers
<1>2. CASE p \in 1..Len(queue)
  <2>1. queue'[p] = queue[p] /\ p \in 1..(Len(queue) + 1)
    BY <1>1, <1>2
  <2>2. r \in Nat
    BY <1>0, <1>2, <2>1, Covered DEF Types
  <2>3. Where(r, p)
    BY <1>2, <2>1 DEF IInv, FlushCovers
  <2> QED
    BY <1>1, <2>1, <2>2, <2>3
<1>3. CASE p = Len(queue) + 1
  <2>1. p \in 1..(Len(queue) + 1) /\ queue'[p] = m
    BY <1>1, <1>3
  <2>2. r \in Nat /\ Where(r, p)
    BY <1>3, <2>1
  <2> QED
    BY <1>1, <2>1, <2>2
<1> QED
  BY <1>1, <1>2, <1>3

\* A record is put on the channel.
LEMMA AppendKeeps == ASSUME IInv, NEW c \in Callers, AppendRec(c) PROVE IInv'
<1> USE DEF disk
<1>0. Types /\ next \in Nat \ {0} /\ base \in Nat \ {0} /\ handle = "open" /\ flusher # "gone"
  BY DEF IInv, AppendRec, Types, ChannelTakes
<1>1. UNCHANGED <<mode, handle, flusher, base, promised, opens, flushes, buf, file, synced, faults>>
      /\ next' = next + 1
  BY DEF AppendRec
<1>2. PICK m : m = Rec(next)
  OBVIOUS
<1>3. m \in Sendable /\ m.kind = "rec" /\ queue' = Append(queue, m)
  BY <1>0, <1>2 DEF Sendable, Rec, AppendRec
<1>4. /\ queue' \in Seq(Sendable) /\ Len(queue') = Len(queue) + 1 /\ Len(queue) \in Nat
      /\ queue'[Len(queue) + 1] = m
      /\ \A p \in 1..Len(queue) : queue'[p] = queue[p]
      /\ \A r \in Nat : Where(r, Len(queue) + 1) => Where(r, Len(queue) + 1)'
  BY <1>0, <1>1, <1>3, Sent
<1>5. NoneLost'
  <2> SUFFICES ASSUME NEW r \in base..next PROVE Where(r, Len(queue) + 1)'
    BY <1>0, <1>1 DEF NoneLost
  <2>0. r \in Nat /\ (r = next \/ r \in base..(next - 1))
    BY <1>0
  <2>1. CASE r = next
    <3>1. Len(queue) + 1 \in 1..(Len(queue') + 1 - 1) /\ queue'[Len(queue) + 1] = Rec(r)
      BY <1>2, <1>4, <2>1
    <3>2. Ahead(r, Len(queue) + 1)'
      BY <3>1 DEF Ahead
    <3> QED
      BY <3>2 DEF Where
  <2>2. CASE r \in base..(next - 1)
    <3>1. Where(r, Len(queue) + 1)
      BY <1>0, <2>2 DEF IInv, NoneLost
    <3> QED
      BY <1>4, <2>0, <3>1
  <2> QED
    BY <2>0, <2>1, <2>2
<1>6. FlushCovers'
  BY <1>1, <1>3, SentKeeps
<1>7. ShutdownCovers'
  <2> SUFFICES ASSUME NEW p \in 1..Len(queue'), queue'[p].kind = "shutdown" PROVE FALSE
    BY DEF ShutdownCovers
  <2>1. p \in 1..Len(queue) \/ p = Len(queue) + 1
    BY <1>4
  <2>2. p # Len(queue) + 1
    BY <1>3, <1>4
  <2> QED
    BY <1>0, <1>4, <2>1, <2>2 DEF IInv, ShutdownCovers
<1>8. Types' /\ PromiseKept'
  BY <1>0, <1>1, <1>4 DEF IInv, Types, PromiseKept, InFile
<1>9. Ended'
  BY <1>0, <1>1 DEF IInv, Ended
<1> QED
  BY <1>5, <1>6, <1>7, <1>8, <1>9 DEF IInv

\* What the channel holds stays recoverable when a message without a record joins it.
LEMMA SentNoneLost ==
  ASSUME IInv, NEW m \in Sendable, queue' = Append(queue, m),
         UNCHANGED <<file, synced, buf, base, next, flusher>>
  PROVE  NoneLost'
<1>0. Types /\ next \in Nat /\ base \in Nat
  BY DEF IInv, Types
<1>1. \A r \in Nat : Where(r, Len(queue) + 1) => Where(r, Len(queue) + 1)'
  BY <1>0, Sent
<1> SUFFICES ASSUME flusher # "gone", NEW r \in base..(next - 1) PROVE Where(r, Len(queue) + 1)'
  BY DEF NoneLost
<1>2. r \in Nat /\ Where(r, Len(queue) + 1)
  BY <1>0 DEF IInv, NoneLost
<1> QED
  BY <1>1, <1>2

\* A flush request is put on the channel: it covers what was sent before it.
LEMMA SendFlushKeeps == ASSUME IInv, NEW c \in Callers, SendFlush(c) PROVE IInv'
<1> USE DEF disk
<1>0. Types /\ next \in Nat \ {0} /\ base \in Nat \ {0} /\ handle = "open" /\ flusher # "gone"
  BY DEF IInv, SendFlush, Types, ChannelTakes
<1>1. UNCHANGED <<mode, handle, flusher, base, promised, opens, next, buf, file, synced, faults>>
  BY DEF SendFlush
<1>2. PICK m : m = Flush(c, next - 1)
  OBVIOUS
<1>3. m \in Sendable /\ m.kind = "flush" /\ m.upto = next - 1 /\ queue' = Append(queue, m)
  <2>1. next - 1 \in Nat
    BY <1>0
  <2> QED
    BY <1>2, <2>1 DEF Sendable, Flush, SendFlush
<1>4. /\ queue' \in Seq(Sendable) /\ Len(queue') = Len(queue) + 1 /\ Len(queue) \in Nat
      /\ queue'[Len(queue) + 1] = m
      /\ \A p \in 1..Len(queue) : queue'[p] = queue[p]
  BY <1>0, <1>1, <1>3, Sent
<1>5. NoneLost'
  BY <1>1, <1>3, SentNoneLost
<1>6. FlushCovers'
  <2>1. \A r \in base..m.upto : r \in Nat /\ Where(r, Len(queue) + 1)
    BY <1>0, <1>3 DEF IInv, NoneLost
  <2> QED
    BY <1>1, <1>3, <2>1, SentKeeps
<1>7. ShutdownCovers'
  <2> SUFFICES ASSUME NEW p \in 1..Len(queue'), queue'[p].kind = "shutdown" PROVE FALSE
    BY DEF ShutdownCovers
  <2>1. p \in 1..Len(queue) \/ p = Len(queue) + 1
    BY <1>4
  <2>2. p # Len(queue) + 1
    BY <1>3, <1>4
  <2> QED
    BY <1>0, <1>4, <2>1, <2>2 DEF IInv, ShutdownCovers
<1>8. Types' /\ PromiseKept'
  BY <1>0, <1>1, <1>4 DEF IInv, Types, PromiseKept, InFile
<1>9. Ended'
  BY <1>0, <1>1 DEF IInv, Ended
<1> QED
  BY <1>5, <1>6, <1>7, <1>8, <1>9 DEF IInv

\* Drop puts Shutdown behind everything that was sent.
LEMMA SendShutdownKeeps == ASSUME IInv, SendShutdown PROVE IInv'
<1> USE DEF disk
<1>0. Types /\ next \in Nat \ {0} /\ base \in Nat \ {0} /\ handle = "open"
  BY DEF IInv, SendShutdown, Types
<1>1. UNCHANGED <<mode, flusher, base, promised, opens, call, next, buf, file, synced, faults>>
      /\ handle' = "closing"
  BY DEF SendShutdown
<1>2. \A p \in 1..Len(queue) : queue[p].kind # "shutdown"
  BY <1>0 DEF IInv, ShutdownCovers
<1>3. Ended'
  BY <1>0, <1>1 DEF IInv, Ended
<1>4. CASE flusher # "gone" /\ queue' = Append(queue, Shutdown)
  <2>1. Shutdown \in Sendable /\ Shutdown.kind = "shutdown"
    BY DEF Sendable, Shutdown
  <2>2. /\ queue' \in Seq(Sendable) /\ Len(queue') = Len(queue) + 1 /\ Len(queue) \in Nat
        /\ queue'[Len(queue) + 1] = Shutdown
        /\ \A p \in 1..Len(queue) : queue'[p] = queue[p]
        /\ \A p \in 1..(Len(queue) + 1), r \in Nat : Where(r, p) => Where(r, p)'
    BY <1>0, <1>1, <1>4, <2>1, Sent
  <2>3. NoneLost'
    BY <1>1, <1>4, <2>1, SentNoneLost
  <2>4. FlushCovers'
    BY <1>1, <1>4, <2>1, SentKeeps
  <2>5. ShutdownCovers'
    <3> SUFFICES ASSUME NEW p \in 1..Len(queue'), queue'[p].kind = "shutdown",
                        NEW r \in base..(next - 1)
                 PROVE  Where(r, p)'
      BY <1>1 DEF ShutdownCovers
    <3>1. p = Len(queue) + 1
      BY <1>2, <2>2
    <3>2. r \in Nat /\ Where(r, p)
      BY <1>0, <1>4, <3>1 DEF IInv, NoneLost
    <3>3. p \in 1..(Len(queue) + 1)
      BY <2>2, <3>1
    <3> QED
      BY <2>2, <3>2, <3>3
  <2>6. Types' /\ PromiseKept'
    BY <1>0, <1>1, <2>2 DEF IInv, Types, PromiseKept, InFile
  <2> QED
    BY <1>3, <2>3, <2>4, <2>5, <2>6 DEF IInv
<1>5. CASE flusher = "gone" /\ UNCHANGED queue
  <2>1. Types' /\ PromiseKept' /\ FlushCovers' /\ NoneLost'
    BY <1>0, <1>1, <1>5 DEF IInv, Types, PromiseKept, FlushCovers, NoneLost, InFile, InBuf, Ahead, Where
  <2>2. ShutdownCovers'
    BY <1>2, <1>5 DEF ShutdownCovers
  <2> QED
    BY <1>3, <2>1, <2>2 DEF IInv
<1> QED
  BY <1>4, <1>5 DEF SendShutdown, ChannelTakes

\* A step that touches neither the records nor the ways to reach them.
LEMMA QuietKeeps ==
  ASSUME IInv, UNCHANGED <<flusher, queue, disk, next, base, promised>>,
         \/ UNCHANGED handle
         \/ handle = "closing" /\ flusher = "gone" /\ handle' = "closed"
  PROVE  IInv'
<1> USE DEF IInv, disk
<1>1. Types' /\ PromiseKept'
  BY DEF Types, PromiseKept, InFile
<1>2. NoneLost' /\ FlushCovers'
  BY DEF NoneLost, FlushCovers, InFile, InBuf, Ahead, Where
<1>3. ShutdownCovers'
  BY DEF ShutdownCovers, InFile, InBuf, Ahead, Where
<1>4. Ended'
  BY DEF Ended, InFile
<1> QED
  BY <1>1, <1>2, <1>3, <1>4

\* The flusher opens the file, or ends at once because it cannot.
LEMMA OpenFileKeeps == ASSUME IInv, OpenFile PROVE IInv'
<1>0. /\ flusher = "opening" /\ Types /\ faults \in Nat
      /\ UNCHANGED <<handle, base, promised, next, buf, file, synced>>
  BY DEF IInv, OpenFile, Types
<1>1. CASE flusher' = "running" /\ UNCHANGED <<queue, faults>>
  <2>1. Types' /\ PromiseKept'
    BY <1>0, <1>1 DEF IInv, Types, PromiseKept, InFile
  <2>2. NoneLost' /\ FlushCovers' /\ ShutdownCovers'
    BY <1>0, <1>1 DEF IInv, NoneLost, FlushCovers, ShutdownCovers, InFile, InBuf, Ahead, Where
  <2>3. Ended'
    BY <1>0, <1>1 DEF IInv, Ended
  <2> QED
    BY <2>1, <2>2, <2>3 DEF IInv
<1>2. CASE faults' = faults + 1 /\ flusher' = "gone" /\ queue' = <<>>
  <2>1. Types' /\ PromiseKept'
    BY <1>0, <1>2 DEF IInv, Types, PromiseKept, InFile
  <2>2. NoneLost' /\ FlushCovers' /\ ShutdownCovers'
    BY <1>2 DEF NoneLost, FlushCovers, ShutdownCovers
  <2>3. Ended'
    BY <1>0, <1>2 DEF Ended
  <2> QED
    BY <2>1, <2>2, <2>3 DEF IInv
<1> QED
  BY <1>1, <1>2 DEF OpenFile
----------------------------------------------------------------------------
(* Steps of the machine *)

\* Power is lost: what sync_all covered is still there.
LEMMA PowerLossKeeps == ASSUME IInv, PowerLoss PROVE IInv'
<1>0. /\ Types /\ file \in Seq(Pieces) /\ synced \in Nat /\ synced <= Len(file) /\ Len(file) \in Nat
      /\ UNCHANGED <<base, promised, next, faults>>
      /\ handle' = "down" /\ flusher' = "gone" /\ queue' = <<>> /\ buf' = <<>> /\ synced' = Len(file')
  BY DEF IInv, PowerLoss, Types
<1>1. PICK k \in synced..Len(file) : file' = SubSeq(file, 1, k)
  BY DEF PowerLoss
<1>2. k \in Nat /\ synced <= k /\ k <= Len(file)
  BY <1>0
<1>3. file' \in Seq(Pieces) /\ Len(file') = k /\ \A i \in 1..k : file'[i] = file[i]
  BY <1>0, <1>1, <1>2, SubSeqProperties
<1>4. Types'
  BY <1>0, <1>2, <1>3 DEF Types
<1>5. PromiseKept'
  <2> SUFFICES ASSUME NEW r \in promised PROVE InFile(r)'
    BY <1>0 DEF PromiseKept
  <2>1. PICK i \in 1..(synced - 1) : file[i] = <<r, 1>> /\ file[i + 1] = <<r, 2>>
    BY DEF IInv, PromiseKept, InFile, WholeIn
  <2>2. i \in 1..(synced' - 1) /\ i \in 1..k /\ i + 1 \in 1..k
    BY <1>0, <1>2, <1>3
  <2>3. file'[i] = <<r, 1>> /\ file'[i + 1] = <<r, 2>>
    BY <1>3, <2>1, <2>2
  <2> QED
    BY <2>2, <2>3 DEF InFile, WholeIn
<1>6. NoneLost' /\ FlushCovers' /\ ShutdownCovers' /\ Ended'
  BY <1>0 DEF NoneLost, FlushCovers, ShutdownCovers, Ended
<1> QED
  BY <1>4, <1>5, <1>6 DEF IInv

\* The log is opened again: a new channel, no record of this opening yet.
LEMMA ReopenKeeps == ASSUME IInv, Reopen PROVE IInv'
<1>0. /\ Types /\ UNCHANGED <<promised, next, file, synced, faults>> /\ next \in Nat
      /\ handle' = "open" /\ flusher' = "opening" /\ queue' = <<>> /\ buf' = <<>> /\ base' = next
  BY DEF IInv, Reopen, Types
<1>1. Types' /\ PromiseKept'
  BY <1>0 DEF IInv, Types, PromiseKept, InFile
<1>2. NoneLost'
  <2>1. base'..(next' - 1) = {}
    BY <1>0
  <2> QED
    BY <2>1 DEF NoneLost
<1>3. FlushCovers' /\ ShutdownCovers' /\ Ended'
  BY <1>0 DEF FlushCovers, ShutdownCovers, Ended
<1> QED
  BY <1>1, <1>2, <1>3 DEF IInv

\* The invariant holds when the log is first opened.
LEMMA InitInv == Init => IInv
<1> SUFFICES ASSUME Init PROVE IInv
  OBVIOUS
<1>1. Types
  BY DEF Init, Types
<1>2. base..(next - 1) = {}
  BY DEF Init
<1>3. NoneLost /\ FlushCovers /\ ShutdownCovers /\ PromiseKept /\ Ended
  BY <1>2 DEF Init, NoneLost, FlushCovers, ShutdownCovers, PromiseKept, Ended
<1> QED
  BY <1>1, <1>3 DEF IInv

\* Every step of a caller, the flusher and the machine keeps the invariant.
LEMMA NextKeeps == IInv /\ [Next]_vars => IInv'
<1> SUFFICES ASSUME IInv, [Next]_vars PROVE IInv'
  OBVIOUS
<1>1. CASE Flusher
  BY <1>1, OpenFileKeeps, RecKeeps, FlushKeeps, ShutdownKeeps, TimeoutKeeps DEF Flusher
<1>2. ASSUME NEW c \in Callers, Caller(c) PROVE IInv'
  <2>1. CASE CallClosed(c)
    BY <2>1, QuietKeeps DEF CallClosed
  <2> QED
    BY <1>2, <2>1, AppendKeeps, SendFlushKeeps DEF Caller
<1>3. CASE SendShutdown
  BY <1>3, SendShutdownKeeps
<1>4. CASE Joined
  BY <1>4, QuietKeeps DEF Joined
<1>5. CASE PowerLoss
  BY <1>5, PowerLossKeeps
<1>6. CASE Reopen
  BY <1>6, ReopenKeeps
<1>7. CASE UNCHANGED vars
  BY <1>7, QuietKeeps DEF vars, chan
<1> QED
  BY <1>1, <1>2, <1>3, <1>4, <1>5, <1>6, <1>7 DEF Next

\* The durability promise of match-wal: a record covered by an Ok of a Sync append or
\* of flush is whole in the synced part of the file, through failed writes, power
\* losses and reopenings; and after a Drop without I/O errors every record the
\* channel took is.
THEOREM PromisesAreKept == Spec => []DurablePromises
<1>1. IInv => DurablePromises
  <2> SUFFICES ASSUME IInv PROVE DurablePromises
    OBVIOUS
  <2>1. PromisedSurvives
    BY DurableIs DEF IInv, PromiseKept, PromisedSurvives
  <2>2. ShutdownKeepsAll
    BY DurableIs DEF IInv, Ended, ShutdownKeepsAll
  <2> QED
    BY <2>1, <2>2 DEF DurablePromises
<1> QED
  BY <1>1, InitInv, NextKeeps, PTL DEF Spec
----------------------------------------------------------------------------
(* The file is a log.  Records move through the channel and the buffer in  *)
(* increasing order (Ordered), a failed write leaves a prefix of the       *)
(* buffer behind and the buffer is written again from its first record:    *)
(* so a record that is whole in the file has every earlier one before it.  *)

IsRec(p) == queue[p].kind = "rec"

\* Everything is in increasing order, and older than the next record.
Ordered ==
  /\ \A k, l \in 1..Len(buf) : k < l => buf[k] < buf[l]
  /\ \A p, q \in 1..Len(queue) : p < q /\ IsRec(p) /\ IsRec(q) => queue[p].rec < queue[q].rec
  /\ \A k \in 1..Len(buf), p \in 1..Len(queue) : IsRec(p) => buf[k] < queue[p].rec
  /\ \A k \in 1..Len(buf) : buf[k] < next
  /\ \A p \in 1..Len(queue) : IsRec(p) => queue[p].rec < next
  /\ \A i \in 1..Len(file) : file[i][1] < next

\* Without errors the file is the first k records and the buffer goes on from there.
Exact ==
  faults = 0 /\ opens = 1 /\ handle # "down" =>
    /\ base = 1 /\ synced = Len(file)
    /\ \E k \in Nat :
         /\ k < next /\ file = Bytes([i \in 1..k |-> i])
         /\ flusher # "gone" =>
              /\ \A j \in 1..Len(buf) : buf[j] = k + j
              /\ \A p \in 1..Len(queue) : IsRec(p) => queue[p].rec > k + Len(buf)

\* g is f followed by the first k pieces of buffer b.
Continues(f, b, k, g) ==
  /\ g \in Seq(Pieces) /\ Len(g) = Len(f) + k
  /\ \A i \in 1..Len(f) : g[i] = f[i]
  /\ \A i \in 1..k : g[Len(f) + i] = Bytes(b)[i]

\* What a write leaves behind continues the file.
LEMMA Continued ==
  ASSUME NEW f \in Seq(Pieces), NEW b \in Seq(Nat), NEW k \in 0..(2 * Len(b)), NEW g,
         g = f \o SubSeq(Bytes(b), 1, k)
  PROVE  Continues(f, b, k, g)
<1> DEFINE c == SubSeq(Bytes(b), 1, k)
<1>1. Bytes(b) \in Seq(Pieces) /\ Len(Bytes(b)) = 2 * Len(b) /\ k \in Nat /\ Len(b) \in Nat
  BY BytesFact
<1>2. c \in Seq(Pieces) /\ Len(c) = k /\ \A i \in 1..k : c[i] = Bytes(b)[i]
  BY <1>1
<1> HIDE DEF c
<1>3. /\ g \in Seq(Pieces) /\ Len(g) = Len(f) + k
      /\ \A i \in 1..(Len(f) + k) : g[i] = IF i <= Len(f) THEN f[i] ELSE c[i - Len(f)]
  BY <1>2, ConcatProperties DEF c
<1>4. Len(f) \in Nat
  OBVIOUS
<1>5. \A i \in 1..Len(f) : g[i] = f[i]
  BY <1>1, <1>3, <1>4
<1>6. ASSUME NEW i \in 1..k PROVE g[Len(f) + i] = Bytes(b)[i]
  <2>1. Len(f) + i \in 1..(Len(f) + k) /\ ~(Len(f) + i <= Len(f)) /\ (Len(f) + i) - Len(f) = i
    BY <1>1, <1>4
  <2> QED
    BY <1>2, <1>3, <2>1
<1> QED
  BY <1>3, <1>5, <1>6 DEF Continues

\* The pieces of a buffer, one by one.
LEMMA PieceOf ==
  ASSUME NEW b \in Seq(Nat), NEW i \in 1..(2 * Len(b))
  PROVE  \E m \in 1..Len(b) : \/ i = 2 * m - 1 /\ Bytes(b)[i] = <<b[m], 1>>
                              \/ i = 2 * m /\ Bytes(b)[i] = <<b[m], 2>>
<1>1. Len(b) \in Nat
  OBVIOUS
<1>2. PICK m : m = (i + 1) \div 2
  OBVIOUS
<1>3. m \in 1..Len(b) /\ (i = 2 * m - 1 \/ i = 2 * m)
  BY <1>1, <1>2
<1> QED
  BY <1>3, BytesFact

\* The copies of a record in a file that was continued: the old ones, and those
\* the buffer brought; none straddles the two.
LEMMA CopiesIn ==
  ASSUME NEW f \in Seq(Pieces), NEW b \in Seq(Nat), NEW k \in 0..(2 * Len(b)), NEW g,
         Continues(f, b, k, g), NEW r \in Nat
  PROVE  /\ \A i \in Copies(r, f) : i \in Copies(r, g) /\ i \in Nat /\ i < Len(f)
         /\ \A m \in 1..Len(b) : 2 * m <= k /\ b[m] = r => Len(f) + (2 * m - 1) \in Copies(r, g)
         /\ \A j \in Copies(r, g) : \/ j \in Copies(r, f)
                                    \/ \E m \in 1..Len(b) : 2 * m <= k /\ b[m] = r /\ j = Len(f) + (2 * m - 1)
<1>0. /\ Len(f) \in Nat /\ k \in Nat /\ Len(b) \in Nat /\ Len(g) = Len(f) + k
      /\ \A i \in 1..Len(f) : g[i] = f[i]
      /\ \A i \in 1..k : g[Len(f) + i] = Bytes(b)[i]
  BY DEF Continues
<1>1. ASSUME NEW i \in Copies(r, f) PROVE i \in Copies(r, g) /\ i \in Nat /\ i < Len(f)
  <2>1. i \in 1..(Len(f) - 1) /\ f[i] = <<r, 1>> /\ f[i + 1] = <<r, 2>>
    BY DEF Copies, WholeAt
  <2>2. i \in 1..Len(f) /\ i + 1 \in 1..Len(f) /\ i \in 1..(Len(g) - 1) /\ i \in Nat /\ i < Len(f)
    BY <1>0, <2>1
  <2> QED
    BY <1>0, <2>1, <2>2 DEF Copies, WholeAt
<1>2. ASSUME NEW m \in 1..Len(b), 2 * m <= k, b[m] = r PROVE Len(f) + (2 * m - 1) \in Copies(r, g)
  <2>1. 2 * m - 1 \in 1..k /\ 2 * m \in 1..k
    BY <1>0, <1>2
  <2>2. Bytes(b)[2 * m - 1] = <<r, 1>> /\ Bytes(b)[2 * m] = <<r, 2>>
    BY <1>2, BytesFact
  <2>3. g[Len(f) + (2 * m - 1)] = <<r, 1>> /\ g[Len(f) + 2 * m] = <<r, 2>>
    BY <1>0, <2>1, <2>2
  <2>4. PICK i : i = Len(f) + (2 * m - 1)
    OBVIOUS
  <2>5. i \in 1..(Len(g) - 1) /\ i + 1 = Len(f) + 2 * m
    BY <1>0, <1>2, <2>4
  <2> QED
    BY <2>3, <2>4, <2>5 DEF Copies, WholeAt
<1>3. ASSUME NEW j \in Copies(r, g), j \notin Copies(r, f)
      PROVE  \E m \in 1..Len(b) : 2 * m <= k /\ b[m] = r /\ j = Len(f) + (2 * m - 1)
  <2>1. j \in 1..(Len(g) - 1) /\ g[j] = <<r, 1>> /\ g[j + 1] = <<r, 2>>
    BY DEF Copies, WholeAt
  <2>2. ~(j + 1 <= Len(f))
    <3> SUFFICES ASSUME j + 1 <= Len(f) PROVE FALSE
      OBVIOUS
    <3>1. j \in 1..Len(f) /\ j + 1 \in 1..Len(f) /\ j \in 1..(Len(f) - 1)
      BY <1>0, <2>1
    <3>2. f[j] = <<r, 1>> /\ f[j + 1] = <<r, 2>>
      BY <1>0, <2>1, <3>1
    <3> QED
      BY <1>3, <3>1, <3>2 DEF Copies, WholeAt
  <2>3. PICK i \in 0..(k - 1) : j = Len(f) + i
    <3>1. j - Len(f) \in 0..(k - 1) /\ j = Len(f) + (j - Len(f))
      BY <1>0, <2>1, <2>2
    <3> QED
      BY <3>1
  <2>4. i + 1 \in 1..k /\ i + 1 \in 1..(2 * Len(b)) /\ Len(f) + (i + 1) = j + 1
    BY <1>0, <2>3
  <2>5. Bytes(b)[i + 1] = <<r, 2>>
    BY <1>0, <2>1, <2>4
  <2>6. PICK m \in 1..Len(b) : \/ i + 1 = 2 * m - 1 /\ Bytes(b)[i + 1] = <<b[m], 1>>
                               \/ i + 1 = 2 * m /\ Bytes(b)[i + 1] = <<b[m], 2>>
    BY <2>4, PieceOf
  <2>7. i + 1 = 2 * m /\ b[m] = r
    BY <2>5, <2>6
  <2>8. 2 * m <= k
    <3>1. 2 * m \in 1..k
      BY <2>4, <2>7
    <3> QED
      BY <1>0, <3>1
  <2>9. j = Len(f) + (2 * m - 1)
    <3>1. i = 2 * m - 1
      BY <2>3, <2>7
    <3> QED
      BY <2>3, <3>1
  <2> QED
    BY <2>7, <2>8, <2>9
<1> QED
  BY <1>1, <1>2, <1>3

\* Writing an increasing buffer skips nothing, if what the buffer is past is there.
LEMMA WriteSkipsNothing ==
  ASSUME NothingSkipped, Types, UNCHANGED <<base, next>>,
         NEW b \in Seq(Nat), NEW k \in 0..(2 * Len(b)), Continues(file, b, k, file'),
         \A l, m \in 1..Len(b) : l < m => b[l] < b[m],
         \A q \in base..(next - 1), m \in 1..Len(b) :
            q < b[m] => Copies(q, file) # {} \/ \E l \in 1..Len(b) : b[l] = q
  PROVE  NothingSkipped'
<1>0. base \in Nat /\ next \in Nat /\ file \in Seq(Pieces) /\ Len(file) \in Nat /\ k \in Nat /\ Len(b) \in Nat
  BY DEF Types
<1> SUFFICES ASSUME NEW q \in base..(next - 1), NEW r \in base..(next - 1), q < r, Copies(r, file') # {}
             PROVE  \E i \in Copies(q, file') : \A j \in Copies(r, file') : i < j
  BY DEF NothingSkipped
<1>1. q \in Nat /\ r \in Nat
  BY <1>0
<1>2. /\ \A i \in Copies(q, file) : i \in Copies(q, file') /\ i \in Nat /\ i < Len(file)
      /\ \A m \in 1..Len(b) : 2 * m <= k /\ b[m] = q => Len(file) + (2 * m - 1) \in Copies(q, file')
  BY <1>0, <1>1, CopiesIn
<1>3. /\ \A i \in Copies(r, file) : i \in Copies(r, file') /\ i \in Nat /\ i < Len(file)
      /\ \A j \in Copies(r, file') :
            \/ j \in Copies(r, file)
            \/ \E m \in 1..Len(b) : 2 * m <= k /\ b[m] = r /\ j = Len(file) + (2 * m - 1)
  BY <1>0, <1>1, CopiesIn
<1>4. ASSUME NEW i \in Nat, i < Len(file), NEW m \in 1..Len(b) PROVE i < Len(file) + (2 * m - 1)
  BY <1>0, <1>4
<1>5. CASE Copies(r, file) # {}
  <2>1. PICK i \in Copies(q, file) : \A j \in Copies(r, file) : i < j
    BY <1>5 DEF NothingSkipped
  <2>2. i \in Copies(q, file') /\ i \in Nat /\ i < Len(file)
    BY <1>2
  <2>3. ASSUME NEW j \in Copies(r, file') PROVE i < j
    BY <1>3, <1>4, <2>1, <2>2
  <2> QED
    BY <2>2, <2>3
<1>6. CASE Copies(r, file) = {}
  <2>1. \A j \in Copies(r, file') : \E m \in 1..Len(b) : 2 * m <= k /\ b[m] = r /\ j = Len(file) + (2 * m - 1)
    BY <1>3, <1>6
  <2>2. PICK o \in 1..Len(b) : 2 * o <= k /\ b[o] = r
    BY <2>1
  <2>3. CASE Copies(q, file) # {}
    <3>1. PICK i \in Copies(q, file) : i \in Copies(q, file') /\ i \in Nat /\ i < Len(file)
      BY <1>2, <2>3
    <3> QED
      BY <1>4, <2>1, <3>1
  <2>4. ASSUME NEW l \in 1..Len(b), b[l] = q
        PROVE  \E i \in Copies(q, file') : \A j \in Copies(r, file') : i < j
    <3>1. ASSUME NEW m \in 1..Len(b), b[m] = r PROVE l < m
      <4>1. CASE m < l
        <5>1. b[m] < b[l]
          BY <4>1
        <5> QED
          BY <1>1, <2>4, <3>1, <5>1
      <4>2. CASE m = l
        BY <1>1, <2>4, <3>1, <4>2
      <4> QED
        BY <4>1, <4>2
    <3>2. l < o
      BY <2>2, <3>1
    <3>3. 2 * l <= k
      BY <1>0, <2>2, <3>2
    <3>4. PICK i : i = Len(file) + (2 * l - 1) /\ i \in Copies(q, file')
      BY <1>2, <2>4, <3>3
    <3>5. ASSUME NEW j \in Copies(r, file') PROVE i < j
      <4>1. PICK m \in 1..Len(b) : b[m] = r /\ j = Len(file) + (2 * m - 1)
        BY <2>1
      <4>2. l < m
        BY <3>1, <4>1
      <4> QED
        BY <1>0, <3>4, <4>1, <4>2
    <3> QED
      BY <3>4, <3>5
  <2> QED
    BY <2>2, <2>3, <2>4
<1> QED
  BY <1>5, <1>6

\* A record in the synced part of the file has a copy.
LEMMA InFileCopied == ASSUME Types, NEW r, InFile(r) PROVE Copies(r, file) # {}
<1>1. PICK i \in 1..(synced - 1) : file[i] = <<r, 1>> /\ file[i + 1] = <<r, 2>>
  BY DEF InFile, WholeIn
<1>2. i \in 1..(Len(file) - 1)
  <2>1. synced \in Nat /\ Len(file) \in Nat /\ synced <= Len(file)
    BY DEF Types
  <2> QED
    BY <2>1
<1> QED
  BY <1>1, <1>2 DEF Copies, WholeAt
----------------------------------------------------------------------------
(* Type correctness. *)

\* What the bounds have to be.
Sizes ==
  /\ QueueCap \in Nat /\ MaxRecs \in Nat /\ MaxFlushes \in Nat /\ MaxFaults \in Nat
  /\ MaxOpens \in Nat \ {0}

FilePieces == Records \X {1, 2}

\* The bytes of a buffer of records, all of them or the first k.
LEMMA BytesTyped ==
  ASSUME NEW b \in Seq(Records), NEW k \in 0..(2 * Len(b))
  PROVE  /\ Bytes(b) \in Seq(FilePieces) /\ Len(Bytes(b)) = 2 * Len(b)
         /\ SubSeq(Bytes(b), 1, k) \in Seq(FilePieces)
<1> DEFINE n == Len(b)
<1>1. n \in Nat /\ \A j \in 1..n : b[j] \in Records
  BY ElementOfSeq
<1>2. \A i \in 1..(2 * n) : (i + 1) \div 2 \in 1..n /\ 2 - (i % 2) \in {1, 2}
  BY <1>1
<1>3. Bytes(b) = [i \in 1..(2 * n) |-> <<b[(i + 1) \div 2], 2 - (i % 2)>>]
  BY DEF Bytes
<1>4. Bytes(b) \in Seq(FilePieces) /\ Len(Bytes(b)) = 2 * n
  <2>1. \A i \in 1..(2 * n) : <<b[(i + 1) \div 2], 2 - (i % 2)>> \in FilePieces
    BY <1>1, <1>2 DEF FilePieces
  <2>2. 2 * n \in Nat
    BY <1>1
  <2> HIDE DEF n
  <2> QED
    BY <1>3, <2>1, <2>2
<1> HIDE DEF n
<1>5. SubSeq(Bytes(b), 1, k) \in Seq(FilePieces)
  <2>1. k \in 0..(2 * n) /\ k \in Int
    BY DEF n
  <2>2. \A i \in 1..k : Bytes(b)[i] \in FilePieces
    BY <1>1, <1>4, <2>1, ElementOfSeq
  <2> QED
    BY <2>1, <2>2, SubSeqProperties
<1> QED
  BY <1>4, <1>5 DEF n

\* write_buf keeps the types of the disk and of the buffer.
LEMMA WriteTyped ==
  ASSUME Sizes, TypeOK, NEW b \in Seq(Records), NEW ok \in BOOLEAN, WriteBuf(b, ok)
  PROVE  /\ buf' \in Seq(Records) /\ file' \in Seq(FilePieces) /\ synced' \in 0..Len(file')
         /\ faults' \in 0..MaxFaults
<1>0. /\ file \in Seq(FilePieces) /\ synced \in 0..Len(file) /\ faults \in 0..MaxFaults /\ MaxFaults \in Nat
      /\ Len(file) \in Nat /\ Len(b) \in Nat
  BY DEF TypeOK, Sizes, FilePieces
<1>1. buf' \in Seq(Records)
  BY DEF WriteBuf
<1>2. CASE ok
  <2>1. file' = file \o Bytes(b) /\ faults' = faults /\ synced' = IF b = <<>> THEN synced ELSE Len(file')
    BY <1>2 DEF WriteBuf, WriteOk
  <2>2. Bytes(b) \in Seq(FilePieces) /\ Len(Bytes(b)) \in Nat
    BY <1>0, BytesTyped
  <2>3. file' \in Seq(FilePieces) /\ Len(file') = Len(file) + Len(Bytes(b))
    BY <1>0, <2>1, <2>2, ConcatProperties
  <2>4. synced' \in 0..Len(file')
    BY <1>0, <2>1, <2>2, <2>3
  <2> QED
    BY <1>0, <1>1, <2>1, <2>3, <2>4
<1>3. CASE ~ok
  <2>1. PICK k \in 0..(2 * Len(b)) : file' = file \o SubSeq(Bytes(b), 1, k)
    BY <1>3 DEF WriteBuf, WriteFails
  <2>2. synced' = synced /\ faults < MaxFaults /\ faults' = faults + 1
    BY <1>3 DEF WriteBuf, WriteFails
  <2>3. SubSeq(Bytes(b), 1, k) \in Seq(FilePieces) /\ Len(SubSeq(Bytes(b), 1, k)) \in Nat
    BY BytesTyped
  <2>4. file' \in Seq(FilePieces) /\ Len(file') = Len(file) + Len(SubSeq(Bytes(b), 1, k))
    BY <1>0, <2>1, <2>3, ConcatProperties
  <2>5. synced' \in 0..Len(file')
    BY <1>0, <2>2, <2>3, <2>4
  <2> QED
    BY <1>0, <1>1, <2>2, <2>4, <2>5
<1> QED
  BY <1>2, <1>3

\* A message at the head of the channel.
LEMMA HeadTyped ==
  ASSUME TypeOK, queue # <<>>
  PROVE  /\ Head(queue) \in Messages /\ Tail(queue) \in Seq(Messages) /\ Len(Tail(queue)) = Len(queue) - 1
         /\ Head(queue).kind = "rec" => Head(queue).rec \in Records
         /\ Head(queue).kind = "flush" => Head(queue).who \in Callers /\ Head(queue).upto \in 0..MaxRecs
<1>1. Head(queue) \in Messages /\ Tail(queue) \in Seq(Messages) /\ Len(Tail(queue)) = Len(queue) - 1
  BY HeadTailProperties DEF TypeOK
<1> QED
  BY <1>1 DEF Messages, Rec, Flush, Shutdown

\* Every step keeps the types and the bounds.
LEMMA TypeKept == ASSUME Sizes, TypeOK, [Next]_vars PROVE TypeOK'
<1> USE DEF Sizes, Modes
<1>1. ASSUME queue # <<>>, queue' = Tail(queue) PROVE queue' \in Seq(Messages) /\ Len(queue') <= QueueCap
  <2>1. queue' \in Seq(Messages) /\ Len(queue') = Len(queue) - 1
    BY <1>1, HeadTyped
  <2>2. Len(queue) \in Nat /\ Len(queue) <= QueueCap
    BY DEF TypeOK
  <2> QED
    BY <2>1, <2>2
<1>2. ASSUME ChannelTakes, NEW m \in Messages, queue' = Append(queue, m)
      PROVE  queue' \in Seq(Messages) /\ Len(queue') <= QueueCap
  <2>1. queue \in Seq(Messages) /\ Len(queue) \in Nat
    BY DEF TypeOK
  <2>2. queue' \in Seq(Messages) /\ Len(queue') = Len(queue) + 1
    BY <1>2, <2>1, AppendProperties
  <2> QED
    BY <1>2, <2>1, <2>2 DEF ChannelTakes
<1>3. CASE OpenFile
  <2>1. queue' = queue \/ queue' = <<>>
    BY <1>3 DEF OpenFile
  <2>2. queue' \in Seq(Messages) /\ Len(queue') <= QueueCap
    <3>1. CASE queue' = queue
      BY <3>1 DEF TypeOK
    <3>2. CASE queue' = <<>>
      BY <3>2
    <3> QED
      BY <2>1, <3>1, <3>2
  <2>3. faults' \in 0..MaxFaults
    BY <1>3 DEF OpenFile, TypeOK
  <2> QED
    BY <1>3, <2>2, <2>3 DEF OpenFile, TypeOK
<1>4. CASE OnRec
  <2>0. /\ queue # <<>> /\ queue' = Tail(queue) /\ Head(queue).kind = "rec"
        /\ UNCHANGED <<mode, handle, flusher, base, promised, opens, call, next, flushes>>
    BY <1>4 DEF OnRec, Received
  <2>1. PICK b : b = Append(buf, Head(queue).rec)
    OBVIOUS
  <2>2. b \in Seq(Records)
    <3>1. buf \in Seq(Records) /\ Head(queue).rec \in Records
      BY <2>0, HeadTyped DEF TypeOK
    <3> QED
      BY <2>1, <3>1, AppendProperties
  <2>3. /\ buf' \in Seq(Records) /\ file' \in Seq(FilePieces) /\ synced' \in 0..Len(file')
        /\ faults' \in 0..MaxFaults
    <3>1. CASE \E ok \in BOOLEAN : WriteBuf(b, ok)
      BY <2>2, <3>1, WriteTyped
    <3>2. CASE buf' = b /\ UNCHANGED <<file, synced, faults>>
      BY <2>2, <3>2 DEF TypeOK, FilePieces
    <3> QED
      BY <1>4, <2>1, <3>1, <3>2 DEF OnRec
  <2> QED
    BY <1>1, <2>0, <2>3 DEF TypeOK, FilePieces
<1>5. CASE OnFlush
  <2>0. /\ queue # <<>> /\ queue' = Tail(queue) /\ Head(queue).kind = "flush"
        /\ UNCHANGED <<mode, handle, flusher, base, opens, next, flushes>>
    BY <1>5 DEF OnFlush, Received
  <2>1. PICK ok \in BOOLEAN :
           /\ WriteBuf(buf, ok) /\ call' = [call EXCEPT ![Head(queue).who] = "idle"]
           /\ promised' = IF ok THEN promised \cup base..Head(queue).upto ELSE promised
    BY <1>5 DEF OnFlush
  <2>2. /\ buf' \in Seq(Records) /\ file' \in Seq(FilePieces) /\ synced' \in 0..Len(file')
        /\ faults' \in 0..MaxFaults
    <3>1. buf \in Seq(Records)
      BY DEF TypeOK
    <3> QED
      BY <2>1, <3>1, WriteTyped
  <2>3. call' \in [Callers -> {"idle", "appended", "waiting"}]
    BY <2>1 DEF TypeOK
  <2>4. promised' \subseteq Records
    <3>1. PICK u : u = Head(queue).upto /\ u \in 0..MaxRecs
      BY <2>0, HeadTyped
    <3>2. base..u \subseteq Records
      BY <3>1 DEF TypeOK, Records
    <3> QED
      BY <2>1, <3>1, <3>2 DEF TypeOK
  <2> QED
    BY <1>1, <2>0, <2>2, <2>3, <2>4 DEF TypeOK, FilePieces
<1>6. CASE OnShutdown
  <2>0. /\ queue # <<>> /\ queue' = Tail(queue) /\ flusher' = "gone"
        /\ UNCHANGED <<mode, handle, base, promised, opens, call, next, flushes>>
    BY <1>6 DEF OnShutdown, Received
  <2>1. PICK ok \in BOOLEAN : WriteBuf(buf, ok)
    BY <1>6 DEF OnShutdown
  <2>2. buf \in Seq(Records)
    BY DEF TypeOK
  <2>3. /\ buf' \in Seq(Records) /\ file' \in Seq(FilePieces) /\ synced' \in 0..Len(file')
        /\ faults' \in 0..MaxFaults
    BY <2>1, <2>2, WriteTyped
  <2> QED
    BY <1>1, <2>0, <2>3 DEF TypeOK, FilePieces
<1>7. CASE OnTimeout
  <2>0. UNCHANGED <<mode, handle, flusher, base, promised, opens, queue, call, next, flushes>>
    BY <1>7 DEF OnTimeout, chan
  <2>1. PICK ok \in BOOLEAN : WriteBuf(buf, ok)
    BY <1>7 DEF OnTimeout
  <2>2. buf \in Seq(Records)
    BY DEF TypeOK
  <2>3. /\ buf' \in Seq(Records) /\ file' \in Seq(FilePieces) /\ synced' \in 0..Len(file')
        /\ faults' \in 0..MaxFaults
    BY <2>1, <2>2, WriteTyped
  <2> QED
    BY <2>0, <2>3 DEF TypeOK, FilePieces
<1>8. ASSUME NEW c \in Callers, AppendRec(c) PROVE TypeOK'
  <2>0. /\ ChannelTakes /\ queue' = Append(queue, Rec(next)) /\ next' = next + 1 /\ next <= MaxRecs
        /\ call' = [call EXCEPT ![c] = IF mode = "sync" THEN "appended" ELSE "idle"]
        /\ UNCHANGED <<mode, handle, flusher, base, promised, opens, flushes, buf, file, synced, faults>>
    BY <1>8 DEF AppendRec, disk
  <2>1. next \in 1..(MaxRecs + 1) /\ base \in 1..next
    BY DEF TypeOK
  <2>2. next \in Records /\ next' \in 1..(MaxRecs + 1) /\ base' \in 1..next'
    BY <2>0, <2>1 DEF Records
  <2>3. Rec(next) \in Messages
    BY <2>2 DEF Messages
  <2>4. call' \in [Callers -> {"idle", "appended", "waiting"}]
    BY <2>0 DEF TypeOK
  <2> QED
    BY <1>2, <2>0, <2>2, <2>3, <2>4 DEF TypeOK
<1>9. ASSUME NEW c \in Callers, SendFlush(c) PROVE TypeOK'
  <2>0. /\ ChannelTakes /\ queue' = Append(queue, Flush(c, next - 1)) /\ call' = [call EXCEPT ![c] = "waiting"]
        /\ UNCHANGED <<mode, handle, flusher, base, promised, opens, next, buf, file, synced, faults>>
    BY <1>9 DEF SendFlush, disk
  <2>1. flushes' \in 0..MaxFlushes
    BY <1>9 DEF SendFlush, TypeOK
  <2>2. next - 1 \in 0..MaxRecs
    BY DEF TypeOK
  <2>3. Flush(c, next - 1) \in Messages
    BY <2>2 DEF Messages
  <2>4. call' \in [Callers -> {"idle", "appended", "waiting"}]
    BY <2>0 DEF TypeOK
  <2> QED
    BY <1>2, <2>0, <2>1, <2>3, <2>4 DEF TypeOK
<1>10. ASSUME NEW c \in Callers, CallClosed(c) PROVE TypeOK'
  <2>1. call' \in [Callers -> {"idle", "appended", "waiting"}]
    BY <1>10 DEF CallClosed, TypeOK
  <2> QED
    BY <1>10, <2>1 DEF CallClosed, disk, TypeOK
<1>11. CASE SendShutdown
  <2>0. /\ handle' = "closing"
        /\ UNCHANGED <<mode, flusher, base, promised, opens, call, next, flushes, buf, file, synced, faults>>
        /\ \/ ChannelTakes /\ queue' = Append(queue, Shutdown)
           \/ UNCHANGED queue
    BY <1>11 DEF SendShutdown, disk
  <2>1. Shutdown \in Messages
    BY DEF Messages
  <2>2. queue' \in Seq(Messages) /\ Len(queue') <= QueueCap
    BY <1>2, <2>0, <2>1 DEF TypeOK
  <2> QED
    BY <2>0, <2>2 DEF TypeOK
<1>12. CASE Joined
  BY <1>12 DEF Joined, disk, TypeOK
<1>13. CASE PowerLoss
  <2>0. /\ UNCHANGED <<mode, base, promised, opens, next, flushes, faults>>
        /\ handle' = "down" /\ flusher' = "gone" /\ queue' = <<>> /\ buf' = <<>>
        /\ call' = [c \in Callers |-> "idle"] /\ synced' = Len(file')
    BY <1>13 DEF PowerLoss
  <2>1. PICK k \in synced..Len(file) : file' = SubSeq(file, 1, k)
    BY <1>13 DEF PowerLoss
  <2>2. file \in Seq(FilePieces) /\ Len(file) \in Nat /\ synced \in Nat /\ k \in 0..Len(file) /\ k \in Int
    BY <2>1 DEF TypeOK, FilePieces
  <2>3. \A i \in 1..k : file[i] \in FilePieces
    BY <2>2, ElementOfSeq
  <2>4. file' \in Seq(FilePieces) /\ Len(file') \in Nat
    BY <2>1, <2>2, <2>3, SubSeqProperties
  <2>5. call' \in [Callers -> {"idle", "appended", "waiting"}]
    BY <2>0
  <2>6. queue' \in Seq(Messages) /\ Len(queue') <= QueueCap /\ buf' \in Seq(Records)
    BY <2>0
  <2> QED
    BY <2>0, <2>4, <2>5, <2>6 DEF TypeOK, FilePieces
<1>14. CASE Reopen
  <2>0. /\ opens < MaxOpens /\ opens' = opens + 1 /\ mode' \in Modes /\ handle' = "open" /\ flusher' = "opening"
        /\ queue' = <<>> /\ buf' = <<>> /\ base' = next
        /\ UNCHANGED <<promised, call, next, flushes, file, synced, faults>>
    BY <1>14 DEF Reopen
  <2>1. opens' \in 1..MaxOpens /\ base' \in 1..next'
    BY <2>0 DEF TypeOK
  <2>2. queue' \in Seq(Messages) /\ Len(queue') <= QueueCap /\ buf' \in Seq(Records)
    BY <2>0
  <2> QED
    BY <2>0, <2>1, <2>2 DEF TypeOK
<1>15. CASE UNCHANGED vars
  BY <1>15 DEF vars, chan, disk, TypeOK
<1> QED
  BY <1>3, <1>4, <1>5, <1>6, <1>7, <1>8, <1>9, <1>10, <1>11, <1>12, <1>13, <1>14, <1>15
  DEF Next, Flusher, Caller
----------------------------------------------------------------------------
(* What the flusher holds. *)

\* Records in the flusher's hand: in increasing order, and everything of this
\* opening that is older than one of them is among them or in the file.
InHand(b) ==
  /\ \A l, m \in 1..Len(b) : l < m => b[l] < b[m]
  /\ \A m \in 1..Len(b) : b[m] < next
  /\ \A q \in base..(next - 1), m \in 1..Len(b) :
        q < b[m] => Copies(q, file) # {} \/ \E l \in 1..Len(b) : b[l] = q

\* The buffer is such.
LEMMA BufInHand == ASSUME IInv, Ordered, flusher # "gone" PROVE InHand(buf)
<1>0. Types /\ buf \in Seq(Nat) /\ base \in Nat /\ next \in Nat /\ queue \in Seq(Sendable)
  BY DEF IInv, Types
<1>1. ASSUME NEW q \in base..(next - 1), NEW m \in 1..Len(buf), q < buf[m]
      PROVE  Copies(q, file) # {} \/ \E l \in 1..Len(buf) : buf[l] = q
  <2>1. InFile(q) \/ InBuf(q) \/ Ahead(q, Len(queue) + 1)
    BY DEF IInv, NoneLost, Where
  <2>2. CASE InFile(q)
    BY <1>0, <2>2, InFileCopied
  <2>3. CASE InBuf(q)
    BY <2>3 DEF InBuf
  <2>4. CASE Ahead(q, Len(queue) + 1)
    <3>1. PICK p \in 1..((Len(queue) + 1) - 1) : queue[p] = Rec(q)
      BY <2>4 DEF Ahead
    <3>2. p \in 1..Len(queue)
      BY <1>0
    <3>3. queue[p].kind = "rec" /\ queue[p].rec = q
      BY <3>1 DEF Rec
    <3>4. buf[m] < q
      BY <3>2, <3>3 DEF Ordered, IsRec
    <3>5. buf[m] \in Nat /\ q \in Nat
      BY <1>0, ElementOfSeq
    <3> QED
      BY <1>1, <3>4, <3>5
  <2> QED
    BY <2>1, <2>2, <2>3, <2>4
<1> QED
  BY <1>1 DEF InHand, Ordered

\* The record at the head of the channel.
LEMMA HeadRec ==
  ASSUME Types, queue # <<>>, Head(queue).kind = "rec"
  PROVE  /\ 1 \in 1..Len(queue) /\ IsRec(1) /\ queue[1] = Head(queue)
         /\ Head(queue).rec = queue[1].rec /\ queue[1].rec \in Nat
<1>1. queue \in Seq(Sendable) /\ Len(queue) \in Nat /\ Len(queue) # 0 /\ Head(queue) = queue[1]
  BY EmptySeq DEF Types
<1>2. 1 \in 1..Len(queue)
  BY <1>1
<1>3. queue[1] \in Sendable
  BY <1>1, <1>2, ElementOfSeq
<1>4. queue[1].kind = "rec" => queue[1].rec \in Nat
  BY <1>3 DEF Sendable, Rec, Flush, Shutdown
<1> QED
  BY <1>1, <1>2, <1>4 DEF IsRec

\* And with the record just received it still is.
LEMMA RecInHand ==
  ASSUME IInv, Ordered, flusher # "gone", queue # <<>>, Head(queue).kind = "rec",
         NEW b, b = Append(buf, Head(queue).rec)
  PROVE  InHand(b) /\ b \in Seq(Nat)
<1>0. /\ Types /\ buf \in Seq(Nat) /\ base \in Nat /\ next \in Nat /\ queue \in Seq(Sendable)
      /\ Len(buf) \in Nat
  BY DEF IInv, Types
<1>1. PICK h \in Nat : h = Head(queue).rec /\ h = queue[1].rec
  BY <1>0, HeadRec
<1>2. 1 \in 1..Len(queue) /\ IsRec(1)
  BY <1>0, HeadRec
<1>3. /\ b \in Seq(Nat) /\ Len(b) = Len(buf) + 1 /\ b[Len(b)] = h
      /\ \A i \in 1..Len(buf) : b[i] = buf[i]
  <2>1. /\ b \in Seq(Nat) /\ Len(b) = Len(buf) + 1 /\ b[Len(buf) + 1] = h
        /\ \A i \in 1..Len(buf) : b[i] = buf[i]
    BY <1>0, <1>1, AppendProperties
  <2> QED
    BY <2>1
<1>4. \A i \in 1..Len(buf) : buf[i] < h /\ buf[i] < next /\ buf[i] \in Nat
  BY <1>0, <1>1, <1>2, ElementOfSeq DEF Ordered
<1>5. h < next
  BY <1>1, <1>2 DEF Ordered
<1>6. \A m \in 1..Len(b) : m \in 1..Len(buf) \/ m = Len(b)
  BY <1>0, <1>3
<1>7. \A m \in 1..Len(b) : b[m] <= h /\ b[m] < next /\ b[m] \in Nat
  BY <1>1, <1>3, <1>4, <1>5, <1>6
<1>8. ASSUME NEW l \in 1..Len(b), NEW m \in 1..Len(b), l < m PROVE b[l] < b[m]
  <2>1. l \in 1..Len(buf)
    BY <1>0, <1>3, <1>8
  <2>2. CASE m \in 1..Len(buf)
    BY <1>3, <1>8, <2>1, <2>2 DEF Ordered
  <2>3. CASE m = Len(b)
    BY <1>3, <1>4, <2>1, <2>3
  <2> QED
    BY <1>6, <2>2, <2>3
<1>9. ASSUME NEW q \in base..(next - 1), NEW m \in 1..Len(b), q < b[m]
      PROVE  Copies(q, file) # {} \/ \E l \in 1..Len(b) : b[l] = q
  <2>1. InFile(q) \/ InBuf(q) \/ Ahead(q, Len(queue) + 1)
    BY DEF IInv, NoneLost, Where
  <2>2. CASE InFile(q)
    BY <1>0, <2>2, InFileCopied
  <2>3. CASE InBuf(q)
    <3>1. PICK l \in 1..Len(buf) : buf[l] = q
      BY <2>3 DEF InBuf
    <3>2. l \in 1..Len(b)
      BY <1>0, <1>3
    <3> QED
      BY <1>3, <3>1, <3>2
  <2>4. CASE Ahead(q, Len(queue) + 1)
    <3>1. PICK p \in 1..((Len(queue) + 1) - 1) : queue[p] = Rec(q)
      BY <2>4 DEF Ahead
    <3>2. p \in 1..Len(queue)
      BY <1>0
    <3>3. IsRec(p) /\ queue[p].rec = q
      BY <3>1 DEF Rec, IsRec
    <3>4. CASE p = 1
      <4>1. h = q /\ Len(b) \in 1..Len(b)
        BY <1>0, <1>1, <1>3, <3>3, <3>4
      <4> QED
        BY <1>3, <4>1
    <3>5. CASE p # 1
      <4>1. 1 < p
        BY <3>5
      <4>2. h < q
        BY <1>1, <1>2, <3>2, <3>3, <4>1 DEF Ordered
      <4> QED
        BY <1>0, <1>7, <1>9, <4>2
    <3> QED
      BY <3>4, <3>5
  <2> QED
    BY <2>1, <2>2, <2>3, <2>4
<1> QED
  BY <1>3, <1>7, <1>8, <1>9 DEF InHand

\* write_buf leaves a beginning of the buffer in the file, all of it if it succeeds.
LEMMA WriteContinues ==
  ASSUME Types, NEW b \in Seq(Nat), NEW ok \in BOOLEAN, WriteBuf(b, ok)
  PROVE  \E k \in 0..(2 * Len(b)) : Continues(file, b, k, file')
<1>0. file \in Seq(Pieces) /\ Len(b) \in Nat
  BY DEF Types
<1>1. CASE ok
  <2>1. PICK k : k = 2 * Len(b)
    OBVIOUS
  <2>2. Bytes(b) \in Seq(Pieces) /\ Len(Bytes(b)) = k /\ k \in Nat
    BY <1>0, <2>1, BytesFact
  <2>3. SubSeq(Bytes(b), 1, k) = Bytes(b)
    BY <2>2
  <2>4. file' = file \o SubSeq(Bytes(b), 1, k)
    BY <1>1, <2>3 DEF WriteBuf, WriteOk
  <2>5. k \in 0..(2 * Len(b))
    BY <2>1, <2>2
  <2> QED
    BY <1>0, <2>4, <2>5, Continued
<1>2. CASE ~ok
  <2>1. PICK k \in 0..(2 * Len(b)) : file' = file \o SubSeq(Bytes(b), 1, k)
    BY <1>2 DEF WriteBuf, WriteFails
  <2> QED
    BY <1>0, <2>1, Continued
<1> QED
  BY <1>1, <1>2

\* Writing what is in hand keeps the file in order, and is no skip.
LEMMA WriteKeepsLog ==
  ASSUME Types, Ordered, NothingSkipped, UNCHANGED <<base, next>>,
         NEW b \in Seq(Nat), NEW ok \in BOOLEAN, WriteBuf(b, ok), InHand(b)
  PROVE  NothingSkipped' /\ \A i \in 1..Len(file') : file'[i][1] < next'
<1>0. file \in Seq(Pieces) /\ Len(file) \in Nat /\ Len(b) \in Nat
  BY DEF Types
<1>1. PICK k \in 0..(2 * Len(b)) : Continues(file, b, k, file')
  BY WriteContinues
<1>2. NothingSkipped'
  BY <1>1, WriteSkipsNothing DEF InHand
<1>3. ASSUME NEW i \in 1..Len(file') PROVE file'[i][1] < next'
  <2>0. Len(file') = Len(file) + k /\ k \in Nat
    BY <1>1 DEF Continues
  <2>1. CASE i <= Len(file)
    <3>1. i \in 1..Len(file)
      BY <1>0, <2>0, <2>1
    <3>2. file'[i] = file[i]
      BY <1>1, <3>1 DEF Continues
    <3> QED
      BY <3>1, <3>2 DEF Ordered
  <2>2. CASE ~(i <= Len(file))
    <3>1. PICK j \in 1..k : i = Len(file) + j
      <4>1. i - Len(file) \in 1..k /\ i = Len(file) + (i - Len(file))
        BY <1>0, <2>0, <2>2
      <4> QED
        BY <4>1
    <3>2. file'[i] = Bytes(b)[j]
      BY <1>1, <3>1 DEF Continues
    <3>3. j \in 1..(2 * Len(b))
      BY <1>0, <2>0
    <3>4. PICK m \in 1..Len(b) : Bytes(b)[j] = <<b[m], 1>> \/ Bytes(b)[j] = <<b[m], 2>>
      BY <3>3, PieceOf
    <3>5. file'[i][1] = b[m]
      BY <3>2, <3>4
    <3> QED
      BY <3>5 DEF InHand
  <2> QED
    BY <2>1, <2>2
<1> QED
  BY <1>2, <1>3
----------------------------------------------------------------------------
(* Ordered and Exact through a message received. *)

\* A message leaves the channel, its record, if it is one, for the buffer.
LEMMA OrderedAfter ==
  ASSUME Types, Ordered, queue # <<>>, queue' = Tail(queue), next' = next,
         NEW b \in Seq(Nat), buf' = <<>> \/ buf' = b,
         \A l, m \in 1..Len(b) : l < m => b[l] < b[m],
         \A m \in 1..Len(b) : b[m] < next,
         \A m \in 1..Len(b) : \/ m \in 1..Len(buf) /\ b[m] = buf[m]
                              \/ IsRec(1) /\ b[m] = queue[1].rec,
         \A i \in 1..Len(file') : file'[i][1] < next'
  PROVE  Ordered'
<1>0. queue \in Seq(Sendable) /\ Len(queue) \in Nat /\ Len(queue) # 0
  BY EmptySeq DEF Types
<1>1. Len(queue') = Len(queue) - 1 /\ \A p \in 1..Len(queue') : queue'[p] = queue[p + 1]
  BY <1>0, HeadTailProperties
<1>2. 1 \in 1..Len(queue) /\ \A p \in 1..Len(queue') : p + 1 \in 1..Len(queue) /\ 1 < p + 1
  BY <1>0, <1>1
<1>3. \A p \in 1..Len(queue') : queue'[p].kind = "rec" => IsRec(p + 1)
  BY <1>1 DEF IsRec
<1>4. ASSUME NEW p \in 1..Len(queue'), NEW q \in 1..Len(queue'), p < q,
             queue'[p].kind = "rec", queue'[q].kind = "rec"
      PROVE  queue'[p].rec < queue'[q].rec
  <2>1. p + 1 \in 1..Len(queue) /\ q + 1 \in 1..Len(queue) /\ p + 1 < q + 1
    BY <1>2, <1>4
  <2> QED
    BY <1>1, <1>3, <1>4, <2>1 DEF Ordered
<1>5. ASSUME NEW p \in 1..Len(queue'), queue'[p].kind = "rec" PROVE queue'[p].rec < next'
  BY <1>1, <1>2, <1>3, <1>5 DEF Ordered
<1>6. ASSUME NEW p \in 1..Len(queue'), queue'[p].kind = "rec", NEW m \in 1..Len(b)
      PROVE  b[m] < queue'[p].rec
  BY <1>1, <1>2, <1>3, <1>6 DEF Ordered
<1>7. CASE buf' = <<>>
  BY <1>4, <1>5, <1>7 DEF Ordered, IsRec
<1>8. CASE buf' = b
  BY <1>4, <1>5, <1>6, <1>8 DEF Ordered, IsRec
<1> QED
  BY <1>7, <1>8

\* The first k records, followed by the next ones, are the first records.
LEMMA FirstRecords ==
  ASSUME NEW k \in Nat, NEW f, f = Bytes([i \in 1..k |-> i]),
         NEW b \in Seq(Nat), \A j \in 1..Len(b) : b[j] = k + j
  PROVE  f \o Bytes(b) = Bytes([i \in 1..(k + Len(b)) |-> i])
<1>1. PICK n \in Nat : n = Len(b)
  OBVIOUS
<1>2. ASSUME NEW j \in Nat
      PROVE  /\ [i \in 1..j |-> i] \in Seq(Nat) /\ Len([i \in 1..j |-> i]) = j
             /\ Len(Bytes([i \in 1..j |-> i])) = 2 * j /\ Bytes([i \in 1..j |-> i]) \in Seq(Pieces)
             /\ \A m \in 1..(2 * j) : Bytes([i \in 1..j |-> i])[m] = <<(m + 1) \div 2, 2 - (m % 2)>>
  <2> DEFINE s == [i \in 1..j |-> i]
  <2>1. s \in Seq(Nat) /\ Len(s) = j
    OBVIOUS
  <2>2. \A m \in 1..(2 * j) : (m + 1) \div 2 \in 1..j
    OBVIOUS
  <2>3. \A m \in 1..(2 * j) : s[(m + 1) \div 2] = (m + 1) \div 2
    BY <2>2
  <2> HIDE DEF s
  <2>4. Bytes(s) \in Seq(Pieces) /\ Len(Bytes(s)) = 2 * j
    BY <2>1, BytesFact
  <2>5. \A m \in 1..(2 * j) : Bytes(s)[m] = <<(m + 1) \div 2, 2 - (m % 2)>>
    BY <2>1, <2>3 DEF Bytes
  <2> QED
    BY <2>1, <2>4, <2>5 DEF s
<1>3. /\ f \in Seq(Pieces) /\ Len(f) = 2 * k
      /\ \A m \in 1..(2 * k) : f[m] = <<(m + 1) \div 2, 2 - (m % 2)>>
  BY <1>2
<1>4. PICK g : g = Bytes([i \in 1..(k + n) |-> i])
  OBVIOUS
<1>5. /\ g \in Seq(Pieces) /\ Len(g) = 2 * (k + n)
      /\ \A m \in 1..(2 * (k + n)) : g[m] = <<(m + 1) \div 2, 2 - (m % 2)>>
  <2>1. k + n \in Nat
    OBVIOUS
  <2> QED
    BY <1>2, <1>4, <2>1
<1>6. /\ Bytes(b) \in Seq(Pieces) /\ Len(Bytes(b)) = 2 * n
      /\ \A m \in 1..(2 * n) : Bytes(b)[m] = <<k + ((m + 1) \div 2), 2 - (m % 2)>>
  <2>1. Bytes(b) \in Seq(Pieces) /\ Len(Bytes(b)) = 2 * n
    BY <1>1, BytesFact
  <2>2. \A m \in 1..(2 * n) : (m + 1) \div 2 \in 1..n
    OBVIOUS
  <2>3. \A m \in 1..(2 * n) : b[(m + 1) \div 2] = k + ((m + 1) \div 2)
    BY <1>1, <2>2
  <2> QED
    BY <1>1, <2>1, <2>3 DEF Bytes
<1>7. PICK h : h = f \o Bytes(b)
  OBVIOUS
<1>8. /\ h \in Seq(Pieces) /\ Len(h) = 2 * k + 2 * n
      /\ \A m \in 1..(2 * k + 2 * n) : h[m] = IF m <= 2 * k THEN f[m] ELSE Bytes(b)[m - 2 * k]
  <2>1. PICK c : c = Bytes(b)
    OBVIOUS
  <2>2. c \in Seq(Pieces) /\ Len(c) = 2 * n /\ h = f \o c
    BY <1>6, <1>7, <2>1
  <2>3. /\ h \in Seq(Pieces) /\ Len(h) = Len(f) + Len(c)
        /\ \A m \in 1..(Len(f) + Len(c)) : h[m] = IF m <= Len(f) THEN f[m] ELSE c[m - Len(f)]
    BY <1>3, <2>2, ConcatProperties
  <2> QED
    BY <1>3, <2>1, <2>2, <2>3
<1>9. ASSUME NEW m \in 1..(2 * k + 2 * n) PROVE h[m] = g[m]
  <2>1. m \in 1..(2 * (k + n))
    OBVIOUS
  <2>2. CASE m <= 2 * k
    <3>1. m \in 1..(2 * k)
      BY <2>2
    <3> QED
      BY <1>3, <1>5, <1>8, <2>1, <2>2, <3>1
  <2>3. CASE ~(m <= 2 * k)
    <3>1. PICK o \in 1..(2 * n) : o = m - 2 * k
      <4>1. m - 2 * k \in 1..(2 * n)
        BY <2>3
      <4> QED
        BY <4>1
    <3>2. h[m] = Bytes(b)[o]
      BY <1>8, <2>3, <3>1
    <3>3. k + ((o + 1) \div 2) = (m + 1) \div 2 /\ 2 - (o % 2) = 2 - (m % 2)
      BY <3>1
    <3> QED
      BY <1>5, <1>6, <2>1, <3>2, <3>3
  <2> QED
    BY <2>2, <2>3
<1>10. h = g
  <2>1. Len(h) = Len(g) /\ Len(g) = 2 * k + 2 * n
    BY <1>5, <1>8
  <2> QED
    BY <1>5, <1>8, <1>9, <2>1, SeqEqual
<1> QED
  BY <1>1, <1>4, <1>7, <1>10

\* Without errors the record at the head of the channel follows what the flusher has.
LEMMA HeadFollows ==
  ASSUME IInv, Ordered, flusher # "gone", queue # <<>>, Head(queue).kind = "rec", base = 1,
         NEW k \in Nat, file = Bytes([i \in 1..k |-> i]),
         \A j \in 1..Len(buf) : buf[j] = k + j,
         \A p \in 1..Len(queue) : IsRec(p) => queue[p].rec > k + Len(buf)
  PROVE  Head(queue).rec = k + Len(buf) + 1
<1>0. /\ Types /\ buf \in Seq(Nat) /\ next \in Nat /\ queue \in Seq(Sendable)
      /\ Len(buf) \in Nat /\ Len(queue) \in Nat
  BY DEF IInv, Types
<1>1. PICK h \in Nat : h = Head(queue).rec /\ h = queue[1].rec
  BY <1>0, HeadRec
<1>2. 1 \in 1..Len(queue) /\ IsRec(1)
  BY <1>0, HeadRec
<1>3. h > k + Len(buf) /\ h < next
  BY <1>1, <1>2 DEF Ordered
<1>4. PICK x \in Nat : x = k + Len(buf) + 1
  BY <1>0
<1> SUFFICES ASSUME x < h PROVE FALSE
  BY <1>0, <1>1, <1>3, <1>4
<1>5. x \in base..(next - 1)
  BY <1>0, <1>3, <1>4
<1>6. InFile(x) \/ InBuf(x) \/ Ahead(x, Len(queue) + 1)
  BY <1>5 DEF IInv, NoneLost, Where
<1>7. CASE InFile(x)
  <2>1. PICK i \in 1..(Len(file) - 1) : file[i] = <<x, 1>>
    <3>1. Copies(x, file) # {}
      BY <1>0, <1>7, InFileCopied
    <3> QED
      BY <3>1 DEF Copies, WholeAt
  <2>2. PICK s : s = [j \in 1..k |-> j]
    OBVIOUS
  <2>3. s \in Seq(Nat) /\ Len(s) = k /\ \A m \in 1..k : s[m] = m
    BY <2>2
  <2>4. file = Bytes(s) /\ Len(file) = 2 * Len(s)
    BY <2>2, <2>3, BytesFact
  <2>5. i \in 1..(2 * Len(s))
    BY <2>3, <2>4
  <2>6. PICK m \in 1..Len(s) : Bytes(s)[i] = <<s[m], 1>> \/ Bytes(s)[i] = <<s[m], 2>>
    BY <2>3, <2>5, PieceOf
  <2>7. x = m
    BY <2>1, <2>3, <2>4, <2>6
  <2> QED
    BY <1>0, <1>4, <2>3, <2>7
<1>8. CASE InBuf(x)
  <2>1. PICK j \in 1..Len(buf) : buf[j] = x
    BY <1>8 DEF InBuf
  <2>2. x = k + j
    BY <2>1
  <2> QED
    BY <1>0, <1>4, <2>2
<1>9. CASE Ahead(x, Len(queue) + 1)
  <2>1. PICK p \in 1..((Len(queue) + 1) - 1) : queue[p] = Rec(x)
    BY <1>9 DEF Ahead
  <2>2. p \in 1..Len(queue)
    BY <1>0
  <2>3. IsRec(p) /\ queue[p].rec = x
    BY <2>1 DEF Rec, IsRec
  <2>4. p # 1
    BY <1>1, <2>3
  <2>5. 1 < p
    BY <2>4
  <2>6. h < x
    BY <1>1, <1>2, <2>2, <2>3, <2>5 DEF Ordered
  <2> QED
    BY <2>6
<1> QED
  BY <1>6, <1>7, <1>8, <1>9

\* A write of the records k + 1 .. k + Len(b), if none failed so far.
LEMMA ExactAfterWrite ==
  ASSUME Types, NEW k \in Nat, k < next, file = Bytes([i \in 1..k |-> i]), synced = Len(file),
         NEW b \in Seq(Nat), \A j \in 1..Len(b) : b[j] = k + j, \A j \in 1..Len(b) : b[j] < next,
         NEW ok \in BOOLEAN, WriteBuf(b, ok), faults' = 0
  PROVE  /\ buf' = <<>> /\ synced' = Len(file') /\ faults = 0
         /\ k + Len(b) < next /\ file' = Bytes([i \in 1..(k + Len(b)) |-> i])
<1>0. Len(b) \in Nat /\ faults \in Nat /\ next \in Nat
  BY DEF Types
<1>1. ok
  BY <1>0 DEF WriteBuf, WriteFails
<1>2. /\ buf' = <<>> /\ file' = file \o Bytes(b) /\ faults = 0
      /\ synced' = IF b = <<>> THEN synced ELSE Len(file')
  BY <1>1 DEF WriteBuf, WriteOk
<1>3. file' = Bytes([i \in 1..(k + Len(b)) |-> i])
  BY <1>2, FirstRecords
<1>4. k + Len(b) < next
  <2>1. CASE Len(b) = 0
    BY <1>0, <2>1
  <2>2. CASE Len(b) # 0
    <3>1. Len(b) \in 1..Len(b)
      BY <1>0, <2>2
    <3> QED
      BY <3>1
  <2> QED
    BY <2>1, <2>2
<1>5. synced' = Len(file')
  <2>1. CASE b = <<>>
    <3>1. Len(b) = 0 /\ k + Len(b) = k
      BY <2>1
    <3> QED
      BY <1>2, <1>3, <2>1, <3>1
  <2> QED
    BY <1>2, <2>1
<1> QED
  BY <1>2, <1>3, <1>4, <1>5
----------------------------------------------------------------------------
(* The steps that move records. *)

LogShape == Ordered /\ NothingSkipped /\ Exact

\* A step that leaves the file, the buffer and the channel alone.
LEMMA LogUntouched ==
  ASSUME LogShape, UNCHANGED <<queue, buf, file, synced, next, base, faults, opens>>,
         handle' # "down" => handle # "down", flusher' # "gone" => flusher # "gone"
  PROVE  LogShape'
<1>1. Ordered'
  BY DEF LogShape, Ordered, IsRec
<1>3. NothingSkipped'
  BY DEF LogShape, NothingSkipped
<1>2. Exact'
  BY DEF LogShape, Exact, IsRec
<1> QED
  BY <1>1, <1>2, <1>3 DEF LogShape

\* The file did not open: the flusher ends, the channel goes with it.
LEMMA OpenFileLog == ASSUME IInv, LogShape, OpenFile PROVE LogShape'
<1>0. UNCHANGED <<buf, file, synced, next, base, opens, handle>> /\ flusher = "opening"
  BY DEF OpenFile
<1>1. CASE flusher' = "running" /\ UNCHANGED <<queue, faults>>
  BY <1>0, <1>1, LogUntouched
<1>2. CASE faults' = faults + 1 /\ flusher' = "gone" /\ queue' = <<>>
  <2>1. Ordered'
    BY <1>0, <1>2 DEF LogShape, Ordered, IsRec
  <2>3. NothingSkipped'
    BY <1>0 DEF LogShape, NothingSkipped
  <2>2. faults' # 0
    BY <1>2 DEF IInv, Types
  <2> QED
    BY <2>1, <2>2, <2>3 DEF LogShape, Exact
<1> QED
  BY <1>1, <1>2 DEF OpenFile

\* A record enters the channel: it is the newest, and nothing of it is in the file.
LEMMA AppendLog == ASSUME IInv, LogShape, NEW c \in Callers, AppendRec(c) PROVE LogShape'
<1>0. /\ queue' = Append(queue, Rec(next)) /\ next' = next + 1
      /\ UNCHANGED <<buf, file, synced, base, faults, opens, handle, flusher>>
  BY DEF AppendRec, disk
<1>1. /\ next \in Nat /\ base \in Nat /\ queue \in Seq(Sendable) /\ Len(queue) \in Nat
      /\ buf \in Seq(Nat) /\ file \in Seq(Pieces) /\ Len(file) \in Nat
  BY DEF IInv, Types
<1>2. Rec(next) \in Sendable /\ Rec(next).rec = next
  BY <1>1 DEF Sendable, Rec
<1>3. /\ Len(queue') = Len(queue) + 1 /\ queue'[Len(queue) + 1] = Rec(next)
      /\ \A p \in 1..Len(queue) : queue'[p] = queue[p]
  BY <1>0, <1>1, <1>2, AppendProperties
<1>4. \A p \in 1..Len(queue') : p \in 1..Len(queue) \/ (p = Len(queue) + 1 /\ queue'[p].rec = next)
  BY <1>1, <1>2, <1>3
<1>5. \A p \in 1..Len(queue) : queue[p].kind = "rec" => queue[p].rec \in Nat /\ queue[p].rec < next
  <2> SUFFICES ASSUME NEW p \in 1..Len(queue), queue[p].kind = "rec"
               PROVE  queue[p].rec \in Nat /\ queue[p].rec < next
    OBVIOUS
  <2>1. queue[p] \in Sendable
    BY <1>1, ElementOfSeq
  <2>2. queue[p].rec \in Nat
    BY <2>1 DEF Sendable, Rec, Flush, Shutdown
  <2> QED
    BY <2>2 DEF LogShape, Ordered, IsRec
<1>6. \A k \in 1..Len(buf) : buf[k] \in Nat /\ buf[k] < next
  BY <1>1, ElementOfSeq DEF LogShape, Ordered
<1>7. \A i \in 1..Len(file) : file[i][1] \in Nat /\ file[i][1] < next
  <2> SUFFICES ASSUME NEW i \in 1..Len(file) PROVE file[i][1] \in Nat /\ file[i][1] < next
    OBVIOUS
  <2>1. file[i] \in Pieces
    BY <1>1, ElementOfSeq
  <2> QED
    BY <2>1 DEF LogShape, Ordered, Pieces
<1>8. Ordered'
  <2>1. ASSUME NEW p \in 1..Len(queue'), NEW q \in 1..Len(queue'), p < q,
               queue'[p].kind = "rec", queue'[q].kind = "rec"
        PROVE  queue'[p].rec < queue'[q].rec
    <3>1. p \in 1..Len(queue)
      BY <1>1, <1>3, <2>1
    <3>2. CASE q \in 1..Len(queue)
      BY <1>3, <2>1, <3>1, <3>2 DEF LogShape, Ordered, IsRec
    <3>3. CASE queue'[q].rec = next
      BY <1>3, <1>5, <2>1, <3>1, <3>3
    <3> QED
      BY <1>4, <3>2, <3>3
  <2>2. ASSUME NEW k \in 1..Len(buf), NEW p \in 1..Len(queue'), queue'[p].kind = "rec"
        PROVE  buf[k] < queue'[p].rec
    <3>1. CASE p \in 1..Len(queue)
      BY <1>3, <2>2, <3>1 DEF LogShape, Ordered, IsRec
    <3>2. CASE queue'[p].rec = next
      BY <1>6, <3>2
    <3> QED
      BY <1>4, <3>1, <3>2
  <2>3. ASSUME NEW p \in 1..Len(queue'), queue'[p].kind = "rec" PROVE queue'[p].rec < next'
    <3>1. CASE p \in 1..Len(queue)
      BY <1>0, <1>1, <1>3, <1>5, <2>3, <3>1
    <3>2. CASE queue'[p].rec = next
      BY <1>0, <1>1, <3>2
    <3> QED
      BY <1>4, <3>1, <3>2
  <2>4. \A k \in 1..Len(buf) : buf[k] < next'
    BY <1>0, <1>1, <1>6
  <2>5. \A i \in 1..Len(file) : file[i][1] < next'
    BY <1>0, <1>1, <1>7
  <2>6. \A k, l \in 1..Len(buf) : k < l => buf[k] < buf[l]
    BY DEF LogShape, Ordered
  <2>7. buf' = buf /\ file' = file
    BY <1>0
  <2> QED
    BY <2>1, <2>2, <2>3, <2>4, <2>5, <2>6, <2>7 DEF Ordered, IsRec
<1>9. NothingSkipped'
  <2> SUFFICES ASSUME NEW q \in base..(next' - 1), NEW r \in base..(next' - 1), q < r, Copies(r, file) # {}
               PROVE  \E i \in Copies(q, file) : \A j \in Copies(r, file) : i < j
    BY <1>0 DEF NothingSkipped
  <2>1. r # next
    <3> SUFFICES ASSUME r = next PROVE FALSE
      OBVIOUS
    <3>1. PICK i \in 1..(Len(file) - 1) : file[i] = <<next, 1>>
      BY DEF Copies, WholeAt
    <3>2. i \in 1..Len(file) /\ file[i][1] = next
      BY <1>1, <3>1
    <3> QED
      BY <1>1, <1>7, <3>2
  <2>2. q \in base..(next - 1) /\ r \in base..(next - 1)
    BY <1>0, <1>1, <2>1
  <2> QED
    BY <2>2 DEF LogShape, NothingSkipped
<1>10. Exact'
  <2> SUFFICES ASSUME faults = 0, opens = 1, handle # "down"
               PROVE  /\ base = 1 /\ synced = Len(file)
                      /\ \E k \in Nat :
                           /\ k < next' /\ file = Bytes([i \in 1..k |-> i])
                           /\ flusher # "gone" =>
                                /\ \A j \in 1..Len(buf) : buf[j] = k + j
                                /\ \A p \in 1..Len(queue') : queue'[p].kind = "rec" => queue'[p].rec > k + Len(buf)
    BY <1>0 DEF Exact, IsRec
  <2>1. base = 1 /\ synced = Len(file)
    BY DEF LogShape, Exact
  <2>2. PICK k \in Nat :
           /\ k < next /\ file = Bytes([i \in 1..k |-> i])
           /\ flusher # "gone" =>
                /\ \A j \in 1..Len(buf) : buf[j] = k + j
                /\ \A p \in 1..Len(queue) : queue[p].kind = "rec" => queue[p].rec > k + Len(buf)
    BY DEF LogShape, Exact, IsRec
  <2>3. k < next'
    BY <1>0, <1>1, <2>2
  <2>4. ASSUME flusher # "gone" PROVE next > k + Len(buf)
    <3>1. PICK n \in Nat : n = Len(buf)
      BY <1>1
    <3>2. CASE n = 0
      BY <1>1, <2>2, <3>1, <3>2
    <3>3. CASE n # 0
      <4>1. n \in 1..Len(buf)
        BY <3>1, <3>3
      <4>2. buf[n] = k + n /\ buf[n] < next
        BY <1>6, <2>2, <2>4, <4>1
      <4> QED
        BY <1>1, <3>1, <4>2
    <3> QED
      BY <3>2, <3>3
  <2>5. ASSUME flusher # "gone", NEW p \in 1..Len(queue'), queue'[p].kind = "rec"
        PROVE  queue'[p].rec > k + Len(buf)
    <3>1. CASE p \in 1..Len(queue)
      BY <1>3, <2>2, <2>5, <3>1
    <3>2. CASE queue'[p].rec = next
      BY <2>4, <2>5, <3>2
    <3> QED
      BY <1>4, <3>1, <3>2
  <2> QED
    BY <2>1, <2>2, <2>3, <2>5
<1> QED
  BY <1>8, <1>9, <1>10 DEF LogShape

\* A message that is no record enters the channel.
LEMMA RequestLog ==
  ASSUME IInv, LogShape, NEW m \in Sendable, m.kind # "rec", queue' = Append(queue, m),
         UNCHANGED <<buf, file, synced, next, base, faults, opens, flusher>>,
         handle' # "down" => handle # "down"
  PROVE  LogShape'
<1>1. queue \in Seq(Sendable) /\ Len(queue) \in Nat
  BY DEF IInv, Types
<1>2. /\ Len(queue') = Len(queue) + 1 /\ queue'[Len(queue) + 1] = m
      /\ \A p \in 1..Len(queue) : queue'[p] = queue[p]
  BY <1>1, AppendProperties
<1>3. \A p \in 1..Len(queue') : queue'[p].kind = "rec" =>
         p \in 1..Len(queue) /\ queue'[p] = queue[p] /\ queue[p].kind = "rec"
  BY <1>1, <1>2
<1>4. Ordered'
  <2>1. Ordered
    BY DEF LogShape
  <2> QED
    BY <1>3, <2>1 DEF Ordered, IsRec
<1>5. NothingSkipped'
  BY DEF LogShape, NothingSkipped
<1>6. Exact'
  <2>1. Exact
    BY DEF LogShape
  <2> QED
    BY <1>3, <2>1 DEF Exact, IsRec
<1> QED
  BY <1>4, <1>5, <1>6 DEF LogShape

\* What is left in the channel after a message was taken from it.
LEMMA TailFacts ==
  ASSUME Types, queue # <<>>, queue' = Tail(queue)
  PROVE  /\ 1 \in 1..Len(queue)
         /\ \A p \in 1..Len(queue') : p + 1 \in 1..Len(queue) /\ 1 < p + 1 /\ queue'[p] = queue[p + 1]
<1>0. queue \in Seq(Sendable) /\ Len(queue) \in Nat /\ Len(queue) # 0
  BY EmptySeq DEF Types
<1>1. Len(queue') = Len(queue) - 1 /\ \A p \in 1..Len(queue') : queue'[p] = queue[p + 1]
  BY <1>0, HeadTailProperties
<1> QED
  BY <1>0, <1>1

\* The flusher writes its buffer, on a request or after a pause.
LEMMA BufWritten ==
  ASSUME IInv, LogShape, flusher = "running", NEW ok \in BOOLEAN, WriteBuf(buf, ok),
         UNCHANGED <<base, next, opens, handle>>,
         \/ queue # <<>> /\ queue' = Tail(queue)
         \/ queue = <<>> /\ queue' = <<>>
  PROVE  LogShape'
<1>0. Types /\ Ordered /\ buf \in Seq(Nat) /\ Len(buf) \in Nat
  BY DEF IInv, Types, LogShape
<1>1. InHand(buf)
  BY <1>0, BufInHand
<1>2. NothingSkipped' /\ \A i \in 1..Len(file') : file'[i][1] < next'
  <2>1. NothingSkipped
    BY DEF LogShape
  <2> QED
    BY <1>0, <1>1, <2>1, WriteKeepsLog
<1>3. buf' = <<>> \/ buf' = buf
  BY DEF WriteBuf
<1>4. /\ \A l, m \in 1..Len(buf) : l < m => buf[l] < buf[m]
      /\ \A m \in 1..Len(buf) : buf[m] < next
  BY <1>0 DEF Ordered
<1>5. Ordered'
  <2>1. CASE queue # <<>> /\ queue' = Tail(queue)
    BY <1>0, <1>2, <1>3, <1>4, <2>1, OrderedAfter
  <2>2. CASE queue' = <<>>
    <3>1. \A l, m \in 1..Len(buf') : l < m => buf'[l] < buf'[m]
      BY <1>3, <1>4
    <3>2. \A m \in 1..Len(buf') : buf'[m] < next'
      BY <1>3, <1>4
    <3> QED
      BY <1>2, <2>2, <3>1, <3>2 DEF Ordered, IsRec
  <2> QED
    BY <2>1, <2>2
<1>6. Exact'
  <2> SUFFICES ASSUME faults' = 0, opens = 1, handle # "down"
               PROVE  /\ base = 1 /\ synced' = Len(file')
                      /\ \E k \in Nat :
                           /\ k < next /\ file' = Bytes([i \in 1..k |-> i])
                           /\ \A j \in 1..Len(buf') : buf'[j] = k + j
                           /\ \A p \in 1..Len(queue') : queue'[p].kind = "rec" => queue'[p].rec > k + Len(buf')
    BY DEF Exact, IsRec
  <2>1. faults = 0
    BY <1>0 DEF WriteBuf, WriteOk, WriteFails, Types
  <2>2. base = 1 /\ synced = Len(file)
    BY <2>1 DEF LogShape, Exact
  <2>3. PICK k \in Nat :
           /\ k < next /\ file = Bytes([i \in 1..k |-> i])
           /\ \A j \in 1..Len(buf) : buf[j] = k + j
           /\ \A p \in 1..Len(queue) : queue[p].kind = "rec" => queue[p].rec > k + Len(buf)
    BY <2>1 DEF LogShape, Exact, IsRec
  <2>4. /\ buf' = <<>> /\ synced' = Len(file')
        /\ k + Len(buf) < next /\ file' = Bytes([i \in 1..(k + Len(buf)) |-> i])
    BY <1>0, <1>4, <2>2, <2>3, ExactAfterWrite
  <2>5. PICK n \in Nat : n = k + Len(buf)
    BY <1>0
  <2>6. ASSUME NEW p \in 1..Len(queue'), queue'[p].kind = "rec" PROVE queue'[p].rec > n
    <3>1. queue # <<>> /\ queue' = Tail(queue)
      BY <2>6
    <3>2. p + 1 \in 1..Len(queue) /\ queue'[p] = queue[p + 1]
      BY <1>0, <3>1, TailFacts
    <3> QED
      BY <2>3, <2>5, <2>6, <3>2
  <2>7. n < next /\ file' = Bytes([i \in 1..n |-> i]) /\ Len(buf') = 0 /\ n + 0 = n
    BY <2>4, <2>5
  <2>8. /\ \A j \in 1..Len(buf') : buf'[j] = n + j
        /\ \A p \in 1..Len(queue') : queue'[p].kind = "rec" => queue'[p].rec > n + Len(buf')
    <3>1. n + Len(buf') = n /\ 1..Len(buf') = {}
      BY <2>7
    <3> QED
      BY <2>6, <3>1
  <2> QED
    BY <2>2, <2>4, <2>7, <2>8
<1> QED
  BY <1>2, <1>5, <1>6 DEF LogShape

\* A record goes from the channel to the buffer, and the buffer out if it is large.
LEMMA RecLog == ASSUME IInv, LogShape, OnRec PROVE LogShape'
<1>0. /\ Types /\ Ordered /\ buf \in Seq(Nat) /\ Len(buf) \in Nat /\ next \in Nat
      /\ flusher = "running" /\ queue # <<>> /\ Head(queue).kind = "rec" /\ queue' = Tail(queue)
      /\ UNCHANGED <<base, next, opens, handle, flusher>>
  BY DEF IInv, Types, LogShape, OnRec, Received
<1>1. PICK b : b = Append(buf, Head(queue).rec)
  OBVIOUS
<1>2. InHand(b) /\ b \in Seq(Nat)
  BY <1>0, <1>1, RecInHand
<1>3. PICK h \in Nat : h = Head(queue).rec /\ h = queue[1].rec /\ IsRec(1)
  BY <1>0, HeadRec
<1>4. Len(b) = Len(buf) + 1 /\ b[Len(buf) + 1] = h /\ \A m \in 1..Len(buf) : b[m] = buf[m]
  BY <1>0, <1>1, <1>3, AppendProperties
<1>5. \A m \in 1..Len(b) : \/ m \in 1..Len(buf) /\ b[m] = buf[m]
                           \/ m = Len(buf) + 1 /\ b[m] = h
  BY <1>0, <1>4
<1>6. \/ \E ok \in BOOLEAN : WriteBuf(b, ok)
      \/ buf' = b /\ UNCHANGED <<file, synced, faults>>
  BY <1>1 DEF OnRec
<1>7. NothingSkipped' /\ \A i \in 1..Len(file') : file'[i][1] < next'
  <2>1. NothingSkipped
    BY DEF LogShape
  <2>2. CASE \E ok \in BOOLEAN : WriteBuf(b, ok)
    BY <1>0, <1>2, <2>1, <2>2, WriteKeepsLog
  <2>3. CASE UNCHANGED file
    <3>1. NothingSkipped'
      BY <1>0, <2>1, <2>3 DEF NothingSkipped
    <3> QED
      BY <1>0, <2>3, <3>1 DEF Ordered
  <2> QED
    BY <1>6, <2>2, <2>3
<1>8. buf' = <<>> \/ buf' = b
  BY <1>6 DEF WriteBuf
<1>9. Ordered'
  BY <1>0, <1>2, <1>3, <1>5, <1>7, <1>8, OrderedAfter DEF InHand
<1>10. Exact'
  <2> SUFFICES ASSUME faults' = 0, opens = 1, handle # "down"
               PROVE  /\ base = 1 /\ synced' = Len(file')
                      /\ \E k \in Nat :
                           /\ k < next /\ file' = Bytes([i \in 1..k |-> i])
                           /\ \A j \in 1..Len(buf') : buf'[j] = k + j
                           /\ \A p \in 1..Len(queue') : queue'[p].kind = "rec" => queue'[p].rec > k + Len(buf')
    BY <1>0 DEF Exact, IsRec
  <2>1. faults = 0
    BY <1>0, <1>6 DEF WriteBuf, WriteOk, WriteFails, Types
  <2>2. base = 1 /\ synced = Len(file)
    BY <2>1 DEF LogShape, Exact
  <2>3. PICK k \in Nat :
           /\ k < next /\ file = Bytes([i \in 1..k |-> i])
           /\ \A j \in 1..Len(buf) : buf[j] = k + j
           /\ \A p \in 1..Len(queue) : IsRec(p) => queue[p].rec > k + Len(buf)
    BY <1>0, <2>1 DEF LogShape, Exact
  <2>4. h = k + Len(buf) + 1
    BY <1>0, <1>3, <2>2, <2>3, HeadFollows
  <2>5. \A j \in 1..Len(b) : b[j] = k + j
    <3> SUFFICES ASSUME NEW j \in 1..Len(b) PROVE b[j] = k + j
      OBVIOUS
    <3>1. CASE j \in 1..Len(buf) /\ b[j] = buf[j]
      BY <2>3, <3>1
    <3>2. CASE j = Len(buf) + 1 /\ b[j] = h
      BY <1>0, <2>4, <3>2
    <3> QED
      BY <1>5, <3>1, <3>2
  <2>6. PICK n \in Nat : n = k + Len(b) /\ n = h
    BY <1>0, <1>4, <2>4
  <2>7. ASSUME NEW p \in 1..Len(queue'), queue'[p].kind = "rec" PROVE queue'[p].rec > n
    <3>1. 1 \in 1..Len(queue) /\ p + 1 \in 1..Len(queue) /\ 1 < p + 1 /\ queue'[p] = queue[p + 1]
      BY <1>0, TailFacts
    <3>2. queue[1].rec < queue[p + 1].rec
      BY <1>0, <1>3, <2>7, <3>1 DEF Ordered, IsRec
    <3>3. queue[p + 1].rec \in Nat
      <4>1. queue[p + 1] \in Sendable
        BY <1>0, <3>1, ElementOfSeq DEF Types
      <4>2. queue[p + 1].kind = "rec"
        BY <2>7, <3>1
      <4>3. \A m \in Sendable : m.kind = "rec" => m.rec \in Nat
        BY DEF Sendable, Rec, Flush, Shutdown
      <4> QED
        BY <4>1, <4>2, <4>3
    <3> QED
      BY <1>3, <2>6, <3>1, <3>2, <3>3
  <2>8. CASE \E ok \in BOOLEAN : WriteBuf(b, ok)
    <3>1. PICK ok \in BOOLEAN : WriteBuf(b, ok)
      BY <2>8
    <3>2. \A j \in 1..Len(b) : b[j] < next
      BY <1>2 DEF InHand
    <3>3. /\ buf' = <<>> /\ synced' = Len(file')
          /\ k + Len(b) < next /\ file' = Bytes([i \in 1..(k + Len(b)) |-> i])
      BY <1>0, <1>2, <2>2, <2>3, <2>5, <3>1, <3>2, ExactAfterWrite
    <3>4. n < next /\ file' = Bytes([i \in 1..n |-> i]) /\ Len(buf') = 0 /\ n + 0 = n
      BY <2>6, <3>3
    <3>5. /\ \A j \in 1..Len(buf') : buf'[j] = n + j
          /\ \A p \in 1..Len(queue') : queue'[p].kind = "rec" => queue'[p].rec > n + Len(buf')
      <4>1. n + Len(buf') = n /\ 1..Len(buf') = {}
        BY <3>4
      <4> QED
        BY <2>7, <4>1
    <3> QED
      BY <2>2, <3>3, <3>4, <3>5
  <2>9. CASE buf' = b /\ UNCHANGED <<file, synced, faults>>
    BY <2>2, <2>3, <2>5, <2>6, <2>7, <2>9
  <2> QED
    BY <1>6, <2>8, <2>9
<1> QED
  BY <1>7, <1>9, <1>10 DEF LogShape

\* Power loss cuts the file somewhere after what was synced: an earlier record's
\* first copy lies before every copy of a later one, so it is not cut off alone.
LEMMA PowerLossLog == ASSUME IInv, LogShape, PowerLoss PROVE LogShape'
<1>0. /\ UNCHANGED <<base, next>> /\ handle' = "down" /\ queue' = <<>> /\ buf' = <<>>
      /\ file \in Seq(Pieces) /\ Len(file) \in Nat /\ synced \in Nat
  BY DEF PowerLoss, IInv, Types
<1>1. PICK k \in synced..Len(file) : file' = SubSeq(file, 1, k)
  BY DEF PowerLoss
<1>2. k \in Nat /\ k <= Len(file) /\ \A i \in 1..k : i \in 1..Len(file) /\ file[i] \in Pieces
  <2>1. k \in Nat /\ k <= Len(file)
    BY <1>0
  <2>2. \A i \in 1..k : i \in 1..Len(file)
    BY <1>0, <2>1
  <2> QED
    BY <1>0, <2>1, <2>2, ElementOfSeq
<1>3. Len(file') = k /\ \A i \in 1..k : file'[i] = file[i]
  <2>1. 1 \in Int /\ k \in Int
    BY <1>2
  <2>2. /\ Len(file') = IF 1 <= k THEN k - 1 + 1 ELSE 0
        /\ \A i \in 1..(k - 1 + 1) : file'[i] = file[1 + i - 1]
    BY <1>1, <1>2, <2>1, SubSeqProperties
  <2> QED
    BY <1>2, <2>2
<1>4. Ordered'
  <2>1. \A i \in 1..Len(file') : file'[i][1] < next'
    BY <1>0, <1>2, <1>3 DEF LogShape, Ordered
  <2> QED
    BY <1>0, <2>1 DEF Ordered, IsRec
<1>5. ASSUME NEW r PROVE \A i : i \in Copies(r, file') <=> i \in Copies(r, file) /\ i <= k - 1
  <2> SUFFICES ASSUME NEW i
               PROVE  i \in Copies(r, file') <=> i \in Copies(r, file) /\ i <= k - 1
    OBVIOUS
  <2>1. ASSUME i \in 1..(k - 1) PROVE file'[i] = file[i] /\ file'[i + 1] = file[i + 1]
    <3>1. i \in 1..k /\ i + 1 \in 1..k
      BY <1>2, <2>1
    <3> QED
      BY <1>3, <3>1
  <2>2. i \in 1..(k - 1) <=> i \in 1..(Len(file) - 1) /\ i <= k - 1
    BY <1>0, <1>2
  <2> QED
    BY <1>3, <2>1, <2>2 DEF Copies, WholeAt
<1>6. NothingSkipped'
  <2> SUFFICES ASSUME NEW q \in base..(next - 1), NEW r \in base..(next - 1), q < r, Copies(r, file') # {}
               PROVE  \E i \in Copies(q, file') : \A j \in Copies(r, file') : i < j
    BY <1>0 DEF NothingSkipped
  <2>1. PICK o \in Copies(r, file) : o <= k - 1
    BY <1>5
  <2>2. PICK i \in Copies(q, file) : \A j \in Copies(r, file) : i < j
    BY <2>1 DEF LogShape, NothingSkipped
  <2>3. i < o
    BY <2>1, <2>2
  <2>4. i \in Int /\ o \in Int
    BY <1>0 DEF Copies
  <2>5. i <= k - 1
    BY <1>2, <2>1, <2>3, <2>4
  <2> QED
    BY <1>5, <2>2, <2>5
<1>7. Exact'
  BY <1>0 DEF Exact
<1> QED
  BY <1>4, <1>6, <1>7 DEF LogShape

\* The next opening starts with an empty channel and no record of its own.
LEMMA ReopenLog == ASSUME IInv, TypeOK, LogShape, Reopen PROVE LogShape'
<1>0. /\ base' = next /\ UNCHANGED <<next, file>> /\ queue' = <<>> /\ buf' = <<>> /\ opens' = opens + 1
      /\ next \in Nat /\ opens \in Nat /\ opens >= 1
  <2>1. opens \in 1..MaxOpens
    BY DEF TypeOK
  <2>2. opens \in Nat /\ opens >= 1
    BY <2>1
  <2> QED
    BY <2>2 DEF Reopen, IInv, Types
<1>1. Ordered'
  BY <1>0 DEF LogShape, Ordered, IsRec
<1>2. base'..(next' - 1) = {}
  BY <1>0
<1>3. NothingSkipped'
  BY <1>2 DEF NothingSkipped
<1>4. opens' # 1
  BY <1>0
<1> QED
  BY <1>1, <1>3, <1>4 DEF LogShape, Exact

\* Every step keeps the log's shape.
LEMMA NextLog == ASSUME IInv, TypeOK, LogShape, [Next]_vars PROVE LogShape'
<1>1. CASE OpenFile
  BY <1>1, OpenFileLog
<1>2. CASE OnRec
  BY <1>2, RecLog
<1>3. CASE OnFlush
  <2>1. PICK ok \in BOOLEAN : WriteBuf(buf, ok)
    BY <1>3 DEF OnFlush
  <2> QED
    BY <1>3, <2>1, BufWritten DEF OnFlush, Received
<1>4. CASE OnShutdown
  <2>1. PICK ok \in BOOLEAN : WriteBuf(buf, ok)
    BY <1>4 DEF OnShutdown
  <2> QED
    BY <1>4, <2>1, BufWritten DEF OnShutdown, Received
<1>5. CASE OnTimeout
  <2>1. PICK ok \in BOOLEAN : WriteBuf(buf, ok)
    BY <1>5 DEF OnTimeout
  <2> QED
    BY <1>5, <2>1, BufWritten DEF OnTimeout, chan
<1>6. ASSUME NEW c \in Callers, AppendRec(c) PROVE LogShape'
  BY <1>6, AppendLog
<1>7. ASSUME NEW c \in Callers, SendFlush(c) PROVE LogShape'
  <2>1. PICK u \in Nat : u = next - 1
    BY DEF IInv, Types
  <2>2. PICK m \in Sendable : m = Flush(c, u) /\ m.kind # "rec"
    <3>1. Flush(c, u) \in Sendable
      BY DEF Sendable
    <3>2. Flush(c, u).kind # "rec"
      BY DEF Flush
    <3> QED
      BY <3>1, <3>2
  <2>3. /\ queue' = Append(queue, m) /\ handle' = handle
        /\ UNCHANGED <<buf, file, synced, next, base, faults, opens, flusher>>
    BY <1>7, <2>1, <2>2 DEF SendFlush, disk
  <2> QED
    BY <2>2, <2>3, RequestLog
<1>8. ASSUME NEW c \in Callers, CallClosed(c) PROVE LogShape'
  BY <1>8, LogUntouched DEF CallClosed, disk
<1>9. CASE SendShutdown
  <2>1. PICK m \in Sendable : m = Shutdown /\ m.kind # "rec"
    <3>1. Shutdown \in Sendable
      BY DEF Sendable
    <3>2. Shutdown.kind # "rec"
      BY DEF Shutdown
    <3> QED
      BY <3>1, <3>2
  <2>2. /\ UNCHANGED <<buf, file, synced, next, base, faults, opens, flusher>>
        /\ handle = "open" /\ handle' = "closing"
        /\ queue' = Append(queue, m) \/ UNCHANGED queue
    BY <1>9, <2>1 DEF SendShutdown, disk
  <2>3. CASE queue' = Append(queue, m)
    BY <2>1, <2>2, <2>3, RequestLog
  <2>4. CASE UNCHANGED queue
    BY <2>2, <2>4, LogUntouched
  <2> QED
    BY <2>2, <2>3, <2>4
<1>10. CASE Joined
  BY <1>10, LogUntouched DEF Joined, disk
<1>11. CASE PowerLoss
  BY <1>11, PowerLossLog
<1>12. CASE Reopen
  BY <1>12, ReopenLog
<1>13. CASE UNCHANGED vars
  BY <1>13, LogUntouched DEF vars, chan, disk
<1> QED
  BY <1>1, <1>2, <1>3, <1>4, <1>5, <1>6, <1>7, <1>8, <1>9, <1>10, <1>11, <1>12, <1>13
  DEF Next, Flusher, Caller

\* The log, whole: what was promised is durable, a record whole in the file has all
\* earlier ones of its opening before it whatever writes failed and wherever power
\* was lost, and without faults the file is exactly the records taken, in order, once.
THEOREM LogIsDurable == ASSUME Sizes PROVE Spec => []DurableLog
<1>1. Init => TypeOK /\ LogShape
  <2> SUFFICES ASSUME Init PROVE TypeOK /\ LogShape
    OBVIOUS
  <2>1. TypeOK
    BY DEF Init, TypeOK, Sizes, Modes
  <2>2. Ordered
    BY DEF Init, Ordered
  <2>3. base..(next - 1) = {}
    BY DEF Init
  <2>4. NothingSkipped
    BY <2>3 DEF NothingSkipped
  <2>5. Exact
    <3>1. file = Bytes([i \in 1..0 |-> i])
      <4>1. [i \in 1..0 |-> i] = <<>>
        OBVIOUS
      <4>2. Bytes(<<>>) = <<>>
        BY DEF Bytes
      <4> QED
        BY <4>1, <4>2 DEF Init
    <3> QED
      BY <3>1 DEF Init, Exact
  <2> QED
    BY <2>1, <2>2, <2>4, <2>5 DEF LogShape
<1>2. TypeOK /\ [Next]_vars => TypeOK'
  BY TypeKept
<1>3. IInv /\ TypeOK /\ LogShape /\ [Next]_vars => LogShape'
  BY NextLog
<1>4. TypeOK /\ LogShape => LogSound
  <2> SUFFICES ASSUME TypeOK, LogShape PROVE LogSound
    OBVIOUS
  <2>1. ExactLog
    <3> SUFFICES ASSUME faults = 0, handle # "down", opens = 1
                 PROVE  /\ synced = Len(file)
                        /\ \E k \in 0..(next - 1) : file = Bytes([i \in 1..k |-> i])
      BY DEF ExactLog
    <3>1. synced = Len(file)
      BY DEF LogShape, Exact
    <3>2. PICK k \in Nat : k < next /\ file = Bytes([i \in 1..k |-> i])
      BY DEF LogShape, Exact
    <3>3. k \in 0..(next - 1)
      BY <3>2 DEF TypeOK
    <3> QED
      BY <3>1, <3>2, <3>3
  <2> QED
    BY <2>1 DEF LogSound, LogShape
<1> QED
  BY <1>1, <1>2, <1>3, <1>4, InitInv, NextKeeps, PromisesAreKept, PTL DEF Spec, DurableLog
=============================================================================
