--------------------------- MODULE SpscRingProofs ---------------------------
(***************************************************************************)
(* The command ring, for every capacity that divides the counters' range   *)
(* and every batch size: it is safe to share between the two threads, and  *)
(* ring, batch and worker together implement a bounded FIFO queue.         *)
(*                                                                         *)
(* Neither fact is inductive alone.  What a thread decides from a stale    *)
(* counter is right because the stale value lies between the two present   *)
(* ones: head is between seenHead and tail (HeadBetween), seenTail between *)
(* head and tail (TailBetween).  The contents follow from two more facts:  *)
(* the slot that is being published holds the command (Written), and a     *)
(* batch being read agrees with the slots it was read from (Copied).       *)
(***************************************************************************)
EXTENDS SpscRing, Integers, SequenceTheorems, TLAPS

(* Arithmetic of wrapping counters *)

Counters == 0..(IndexSpace - 1)

\* What the proofs use of the constants.
LEMMA Constants == Cap \in Nat /\ Cap > 0 /\ IndexSpace \in Nat /\ Cap < IndexSpace
  BY RingConstants DEF RingConstants

\* A remainder below the modulus.
LEMMA SmallMod == ASSUME NEW n \in Nat, n > 0, NEW x \in 0..(n - 1) PROVE x % n = x
  OBVIOUS

\* A remainder after one turn.
LEMMA OverMod == ASSUME NEW n \in Nat, n > 0, NEW x \in n..(2 * n - 1) PROVE x % n = x - n
  OBVIOUS

\* wrapping_add, without the modulus.
LEMMA AddFact ==
  ASSUME NEW i \in Counters, NEW n \in Counters
  PROVE /\ WrappingAdd(i, n) \in Counters
        /\ WrappingAdd(i, n) = IF i + n < IndexSpace THEN i + n ELSE i + n - IndexSpace
  BY Constants, SmallMod, OverMod DEF WrappingAdd, Counters

\* wrapping_sub, without the modulus.
LEMMA SubFact ==
  ASSUME NEW i \in Counters, NEW j \in Counters
  PROVE /\ WrappingSub(i, j) \in Counters
        /\ WrappingSub(i, j) = IF i >= j THEN i - j ELSE i - j + IndexSpace
  BY Constants, SmallMod, OverMod DEF WrappingSub, Counters

----------------------------------------------------------------------------
(* Safety *)

\* How far counter i is ahead of counter j.
Dist(i, j) == WrappingSub(i, j)

\* The head the producer saw is not ahead of head, and tail is within Cap of
\* it; it is closer while a command is being written.
HeadBetween ==
  /\ Dist(tail, seenHead) = Dist(tail, head) + Dist(head, seenHead)
  /\ Dist(tail, seenHead) <= Cap
  /\ ppc # "idle" => Dist(tail, seenHead) < Cap

\* The tail the consumer saw lies between head and tail.
TailBetween == Dist(tail, head) = Dist(tail, seenTail) + Dist(seenTail, head)

\* A running pop_n takes no more than it saw, and reads all of it.
BatchInv ==
  /\ cpc \in {"read", "publish"} => want >= 1 /\ want <= Dist(seenTail, head)
  /\ cpc = "read" => Len(batch) < want
  /\ cpc = "publish" => Len(batch) = want
  /\ cpc = "drain" => batch # <<>>

IInv == TypeOK /\ HeadBetween /\ TailBetween /\ BatchInv

\* The distance as a case distinction, for arithmetic.
Gap(i, j) == IF i >= j THEN i - j ELSE i - j + IndexSpace

\* Distances are numbers.
LEMMA DistNat == \A i, j \in Counters : Dist(i, j) \in Nat
  <1> SUFFICES ASSUME NEW i \in Counters, NEW j \in Counters PROVE Dist(i, j) \in Nat OBVIOUS
  <1>1. Dist(i, j) \in Counters BY SubFact DEF Dist
  <1> QED BY <1>1 DEF Counters

\* The two forms of the distance agree.
LEMMA DistIsGap == \A i, j \in Counters : Dist(i, j) = Gap(i, j) /\ Dist(i, j) \in Counters
  BY SubFact DEF Dist, Gap

\* What an Acquire load returns lies between the value seen last and the
\* present one.
LEMMA LoadFact ==
  ASSUME NEW i \in Counters, NEW j \in Counters, NEW k \in Loadable(i, j)
  PROVE k \in Counters /\ Dist(j, i) = Dist(j, k) + Dist(k, i)
  <1>1. PICK d \in 0..WrappingSub(j, i) : k = WrappingAdd(i, d) BY DEF Loadable
  <1>2. d \in Counters /\ d <= Gap(j, i)
    <2>1. WrappingSub(j, i) \in Counters /\ WrappingSub(j, i) = Gap(j, i) BY SubFact DEF Gap
    <2> QED BY <2>1, Constants DEF Counters
  <1>3. k \in Counters /\ k = IF i + d < IndexSpace THEN i + d ELSE i + d - IndexSpace
    BY <1>1, <1>2, AddFact
  <1>4. Gap(j, i) = Gap(j, k) + Gap(k, i) BY <1>2, <1>3, Constants DEF Counters, Gap
  <1> QED BY <1>3, <1>4, DistIsGap

\* Moving k from s towards h, on the way from s to t.
LEMMA SplitFact ==
  ASSUME NEW t \in Counters, NEW h \in Counters, NEW k \in Counters, NEW s \in Counters,
         Dist(t, s) = Dist(t, h) + Dist(h, s), Dist(h, s) = Dist(h, k) + Dist(k, s)
  PROVE Dist(t, k) = Dist(t, h) + Dist(h, k) /\ Dist(t, k) <= Dist(t, s)
  <1>1. Gap(t, s) = Gap(t, h) + Gap(h, s) /\ Gap(h, s) = Gap(h, k) + Gap(k, s) BY DistIsGap
  <1>2. Gap(t, k) = Gap(t, h) + Gap(h, k) /\ Gap(t, k) <= Gap(t, s)
    BY <1>1, Constants DEF Gap, Counters
  <1> QED BY <1>2, DistIsGap

\* Publishing one command moves tail one further from everything.
LEMMA StepFact ==
  ASSUME NEW t \in Counters, NEW i \in Counters, Dist(t, i) < Cap
  PROVE Dist(WrappingAdd(t, 1), i) = Dist(t, i) + 1
  <1>1. 1 \in Counters BY Constants DEF Counters
  <1>2. /\ WrappingAdd(t, 1) \in Counters
        /\ WrappingAdd(t, 1) = IF t + 1 < IndexSpace THEN t + 1 ELSE t + 1 - IndexSpace
    BY <1>1, AddFact
  <1>3. Gap(t, i) < Cap BY DistIsGap
  <1>4. Gap(WrappingAdd(t, 1), i) = Gap(t, i) + 1 BY <1>2, <1>3, Constants DEF Gap, Counters
  <1> QED BY <1>2, <1>4, DistIsGap

\* A counter between s and t is between h and t, if s is.
LEMMA JoinFact ==
  ASSUME NEW t \in Counters, NEW k \in Counters, NEW s \in Counters, NEW h \in Counters,
         Dist(t, h) = Dist(t, s) + Dist(s, h), Dist(t, s) = Dist(t, k) + Dist(k, s)
  PROVE Dist(t, h) = Dist(t, k) + Dist(k, h)
  <1>1. Gap(t, h) = Gap(t, s) + Gap(s, h) /\ Gap(t, s) = Gap(t, k) + Gap(k, s) BY DistIsGap
  <1>2. Gap(t, h) = Gap(t, k) + Gap(k, h) BY <1>1, Constants DEF Gap, Counters
  <1> QED BY <1>2, DistIsGap

\* Advancing by no more than the distance stays behind.
LEMMA AdvanceFact ==
  ASSUME NEW s \in Counters, NEW h \in Counters, NEW n \in Nat, n <= Dist(s, h)
  PROVE /\ WrappingAdd(h, n) \in Counters
        /\ Dist(s, h) = Dist(s, WrappingAdd(h, n)) + n
        /\ Dist(WrappingAdd(h, n), h) = n
  <1>1. Dist(s, h) \in Counters /\ Dist(s, h) = Gap(s, h) BY DistIsGap
  <1>2. n \in Counters BY <1>1, Constants DEF Counters
  <1> DEFINE k == WrappingAdd(h, n)
  <1>3. k \in Counters /\ k = IF h + n < IndexSpace THEN h + n ELSE h + n - IndexSpace
    BY <1>2, AddFact
  <1> HIDE DEF k
  <1>4. Gap(s, h) = Gap(s, k) + n /\ Gap(k, h) = n
    BY <1>1, <1>2, <1>3, Constants DEF Gap, Counters
  <1>5. Dist(s, h) = Dist(s, k) + n /\ Dist(k, h) = n BY <1>3, <1>4, DistIsGap
  <1> QED BY <1>3, <1>5 DEF k

\* The four counters are counters.
LEMMA Typed ==
  ASSUME TypeOK PROVE tail \in Counters /\ head \in Counters /\ seenHead \in Counters /\ seenTail \in Counters
  BY DEF TypeOK, Counters

\* An empty ring satisfies the invariant.
LEMMA InitInv == Init => IInv
  <1> SUFFICES ASSUME Init PROVE IInv OBVIOUS
  <1>1. TypeOK BY RingConstants DEF RingConstants, Init, TypeOK, Commands
  <1>2. Dist(0, 0) = 0 BY Constants, SubFact DEF Dist, Counters
  <1> QED BY <1>1, <1>2, Constants DEF Init, IInv, HeadBetween, TailBetween, BatchInv

\* The steps of try_push keep the invariant.
LEMMA PushInv == ASSUME IInv, Produce PROVE IInv'
  <1> USE Constants
  <1>1. CASE PushLoad
    <2>1. PICK h \in Loadable(seenHead, head) :
             seenHead' = h /\ ppc' = IF Full(tail, h) THEN "idle" ELSE "write"
      BY <1>1 DEF PushLoad
    <2>2. h \in Counters /\ Dist(head, seenHead) = Dist(head, h) + Dist(h, seenHead)
      BY <2>1, LoadFact, Typed DEF IInv
    <2>3. Dist(tail, h) = Dist(tail, head) + Dist(head, h) /\ Dist(tail, h) <= Cap
      <3>1. Dist(tail, h) = Dist(tail, head) + Dist(head, h) /\ Dist(tail, h) <= Dist(tail, seenHead)
        BY <2>2, SplitFact, Typed DEF IInv, HeadBetween
      <3>2. Dist(tail, h) \in Nat /\ Dist(tail, seenHead) \in Nat BY <2>2, DistNat, Typed DEF IInv
      <3> QED BY <3>1, <3>2 DEF IInv, HeadBetween
    <2>4. ~Full(tail, h) => Dist(tail, h) < Cap
      <3>1. Dist(tail, h) \in Nat BY <2>2, DistNat, Typed DEF IInv
      <3> QED BY <3>1 DEF Full, Dist
    <2>5. TypeOK' BY <1>1, <2>1, <2>2 DEF IInv, TypeOK, PushLoad, consumer, Counters
    <2> QED BY <1>1, <2>1, <2>3, <2>4, <2>5
            DEF IInv, HeadBetween, TailBetween, BatchInv, PushLoad, consumer
  <1>2. CASE PushWrite
    <2>1. Slot(tail) \in 0..(Cap - 1) BY Typed DEF IInv, Slot, Counters
    <2>2. TypeOK' BY <1>2, <2>1 DEF IInv, TypeOK, PushWrite, consumer
    <2> QED BY <1>2, <2>2 DEF IInv, TypeOK, HeadBetween, TailBetween, BatchInv, PushWrite, consumer
  <1>3. CASE PushPublish
    <2>1. 1 \in Counters BY DEF Counters
    <2>2. tail' \in Counters /\ next' \in Commands
      BY <1>3, <2>1, Typed, AddFact, RingConstants DEF PushPublish, IInv, TypeOK, Commands, RingConstants
    <2>3. TypeOK' BY <1>3, <2>2 DEF IInv, TypeOK, PushPublish, consumer, Counters
    <2>4. Dist(tail, seenHead) < Cap BY <1>3 DEF PushPublish, IInv, HeadBetween
    <2>5. /\ Dist(tail, head) \in Nat /\ Dist(tail, seenTail) \in Nat /\ Dist(tail, seenHead) \in Nat
          /\ Dist(head, seenHead) \in Nat /\ Dist(seenTail, head) \in Nat
      BY Typed, DistNat DEF IInv
    <2>6. Dist(tail, head) < Cap /\ Dist(tail, seenTail) < Cap
      BY <2>4, <2>5 DEF IInv, HeadBetween, TailBetween
    <2>7. /\ Dist(tail', head) = Dist(tail, head) + 1
          /\ Dist(tail', seenTail) = Dist(tail, seenTail) + 1
          /\ Dist(tail', seenHead) = Dist(tail, seenHead) + 1
      BY <1>3, <2>4, <2>6, Typed, StepFact DEF IInv, PushPublish
    <2>8. ppc' = "idle" /\ UNCHANGED <<head, seenHead, seenTail, cpc, want, batch>>
      BY <1>3 DEF PushPublish, consumer
    <2>9. HeadBetween' BY <2>4, <2>5, <2>7, <2>8 DEF IInv, HeadBetween
    <2>10. TailBetween' BY <2>5, <2>7, <2>8 DEF IInv, TailBetween
    <2>11. BatchInv' BY <2>8 DEF IInv, BatchInv
    <2> QED BY <2>3, <2>9, <2>10, <2>11 DEF IInv
  <1> QED BY <1>1, <1>2, <1>3 DEF Produce

\* The steps of pop_n and of the worker keep the invariant.
LEMMA PopInv == ASSUME IInv, Consume PROVE IInv'
  <1> USE Constants
  <1>0. /\ tail \in Counters /\ head \in Counters /\ seenHead \in Counters /\ seenTail \in Counters
        /\ Dist(tail, head) \in Nat /\ Dist(tail, seenTail) \in Nat /\ Dist(tail, seenHead) \in Nat
        /\ Dist(head, seenHead) \in Nat /\ Dist(seenTail, head) \in Nat
    BY Typed, DistNat DEF IInv
  <1>1. CASE PopLoad
    <2>1. PICK t \in Loadable(seenTail, tail), max \in BatchMax : seenTail' = t /\ PopLoaded(t, max)
      BY <1>1 DEF PopLoad
    <2>2. t \in Counters /\ Dist(tail, seenTail) = Dist(tail, t) + Dist(t, seenTail)
      BY <2>1, <1>0, LoadFact
    <2>3. Dist(t, head) \in Nat /\ Dist(tail, t) \in Nat BY <2>2, <1>0, DistNat
    <2>4. Dist(tail, head) = Dist(tail, t) + Dist(t, head)
      BY <2>2, <1>0, JoinFact DEF IInv, TailBetween
    <2>5. max \in Nat /\ max > 0 BY RingConstants DEF RingConstants
    <2>6. want' \in Nat /\ want' <= Dist(t, head)
      BY <2>1, <2>3, <2>5 DEF PopLoaded, Dist
    <2>7. Dist(tail, head) <= Cap BY <1>0 DEF IInv, HeadBetween
    <2>8. /\ batch' = <<>> /\ cpc' = IF want' = 0 THEN "idle" ELSE "read"
          /\ UNCHANGED <<buf, head, applied, tail, seenHead, ppc, next>>
      BY <1>1 DEF PopLoad, producer
    <2>9. TypeOK'
      <3>1. want' \in 0..Cap BY <2>3, <2>4, <2>6, <2>7
      <3>2. batch' \in Seq(Commands) /\ Len(batch') = 0 BY <2>8
      <3> QED BY <2>1, <2>2, <2>8, <3>1, <3>2 DEF IInv, TypeOK, Counters
    <2>10. HeadBetween' BY <2>8 DEF IInv, HeadBetween
    <2>11. TailBetween' BY <2>1, <2>4, <2>8 DEF TailBetween
    <2>12. BatchInv' BY <2>1, <2>6, <2>8 DEF BatchInv
    <2> QED BY <2>9, <2>10, <2>11, <2>12 DEF IInv
  <1>2. CASE PopRead
    <2>1. buf[Slot(WrappingAdd(head, Len(batch)))] \in Commands
      <3>1. Len(batch) \in Counters
        BY <1>2 DEF IInv, TypeOK, Counters
      <3>2. WrappingAdd(head, Len(batch)) \in Counters BY <3>1, <1>0, AddFact
      <3>3. Slot(WrappingAdd(head, Len(batch))) \in 0..(Cap - 1)
        BY <3>2 DEF Slot, Counters
      <3> QED BY <3>3 DEF IInv, TypeOK
    <2>2. batch' \in Seq(Commands) /\ Len(batch') = Len(batch) + 1 /\ Len(batch) \in Nat /\ want \in Nat
      BY <1>2, <2>1 DEF PopRead, IInv, TypeOK
    <2>3. cpc = "read" /\ cpc' = IF Len(batch') = want THEN "publish" ELSE "read"
      BY <1>2 DEF PopRead
    <2>4. Len(batch) < want BY <2>3 DEF IInv, BatchInv
    <2>5. UNCHANGED <<buf, head, seenTail, want, applied, tail, seenHead, ppc, next>>
      BY <1>2 DEF PopRead, producer
    <2>6. TypeOK' BY <2>2, <2>3, <2>4, <2>5 DEF IInv, TypeOK
    <2>7. HeadBetween' /\ TailBetween' BY <2>5 DEF IInv, HeadBetween, TailBetween
    <2>8. BatchInv' BY <2>2, <2>3, <2>4, <2>5 DEF IInv, BatchInv
    <2> QED BY <2>6, <2>7, <2>8 DEF IInv
  <1>3. CASE PopPublish
    <2>1. /\ cpc = "publish" /\ cpc' = "drain" /\ head' = WrappingAdd(head, want)
          /\ UNCHANGED <<buf, seenTail, want, batch, applied, tail, seenHead, ppc, next>>
      BY <1>3 DEF PopPublish, producer
    <2>2. want \in Nat /\ want >= 1 /\ want <= Dist(seenTail, head) /\ Len(batch) = want
      BY <2>1 DEF IInv, BatchInv, TypeOK
    <2>3. head' \in Counters /\ Dist(seenTail, head) = Dist(seenTail, head') + want
          /\ Dist(head', head) = want
      BY <2>1, <2>2, <1>0, AdvanceFact
    <2>4. /\ Dist(seenTail, head') \in Nat /\ Dist(tail, head') \in Nat /\ Dist(head', seenHead) \in Nat
      BY <2>3, <1>0, DistNat
    <2>5. Dist(tail, head) = Dist(tail, head') + want
      BY <2>1, <2>2, <1>0, AdvanceFact DEF IInv, TailBetween
    <2>6. Dist(tail, head') = Dist(tail, seenTail) + Dist(seenTail, head')
      BY <2>2, <2>3, <2>4, <2>5, <1>0 DEF IInv, TailBetween
    <2>7. Dist(tail, seenHead) = Dist(tail, head') + Dist(head', seenHead)
      BY <2>3, <2>5, <1>0, JoinFact DEF IInv, HeadBetween
    <2>8. TypeOK' BY <2>1, <2>3 DEF IInv, TypeOK, Counters
    <2>9. HeadBetween' BY <2>1, <2>7 DEF IInv, HeadBetween
    <2>10. TailBetween' BY <2>1, <2>6 DEF TailBetween
    <2>11. BatchInv' BY <2>1, <2>2 DEF BatchInv
    <2> QED BY <2>8, <2>9, <2>10, <2>11 DEF IInv
  <1>4. CASE Drain
    <2>1. /\ cpc = "drain" /\ applied' = Head(batch) /\ batch' = Tail(batch)
          /\ cpc' = IF batch' = <<>> THEN "idle" ELSE "drain"
          /\ UNCHANGED <<buf, head, seenTail, want, tail, seenHead, ppc, next>>
      BY <1>4 DEF Drain, producer
    <2>2. batch # <<>> BY <2>1 DEF IInv, BatchInv
    <2>3. /\ Head(batch) \in Commands /\ Tail(batch) \in Seq(Commands)
          /\ Len(Tail(batch)) = Len(batch) - 1 /\ Len(batch) \in Nat
      BY <2>2 DEF IInv, TypeOK
    <2>4. TypeOK' BY <2>1, <2>3 DEF IInv, TypeOK
    <2>5. HeadBetween' /\ TailBetween' BY <2>1 DEF IInv, HeadBetween, TailBetween
    <2>6. BatchInv' BY <2>1 DEF BatchInv
    <2> QED BY <2>4, <2>5, <2>6 DEF IInv
  <1> QED BY <1>1, <1>2, <1>3, <1>4 DEF Consume

\* No multiple lies strictly between zero and the number.
LEMMA NoMultiple == ASSUME NEW c \in Nat, NEW q \in Int, 0 < c * q, c * q < c PROVE FALSE
  <1>1. CASE q <= 0 BY <1>1
  <1>2. CASE q >= 1 BY <1>2
  <1> QED BY <1>1, <1>2

\* Counters less than Cap apart, across the wrap or not, have different slots:
\* here Cap has to divide the range of the counters.
LEMMA SameSlot ==
  ASSUME NEW a \in Nat, NEW b \in Nat, NEW d \in Nat, 0 < d, d < Cap,
         b - a = d \/ b - a = d - IndexSpace
  PROVE Slot(a) # Slot(b)
  <1> USE Constants
  <1> SUFFICES ASSUME a % Cap = b % Cap PROVE FALSE BY DEF Slot
  <1> DEFINE qa == a \div Cap  qb == b \div Cap  m == IndexSpace \div Cap
  <1>1. a = Cap * qa + (a % Cap) /\ qa \in Int OBVIOUS
  <1>2. b = Cap * qb + (b % Cap) /\ qb \in Int OBVIOUS
  <1>3. IndexSpace = Cap * m /\ m \in Int BY RingConstants DEF RingConstants
  <1>4. a % Cap \in Int /\ b % Cap \in Int OBVIOUS
  <1> HIDE DEF qa, qb, m
  <1>5. b - a = Cap * (qb - qa) BY <1>1, <1>2, <1>4
  <1>6. CASE b - a = d
    <2>1. d = Cap * (qb - qa) BY <1>5, <1>6
    <2> QED BY <1>1, <1>2, <2>1, NoMultiple
  <1>7. CASE b - a = d - IndexSpace
    <2>1. d = Cap * (qb - qa + m) BY <1>1, <1>2, <1>3, <1>5, <1>7
    <2> QED BY <1>1, <1>2, <1>3, <2>1, NoMultiple
  <1> QED BY <1>6, <1>7

\* The slots of a window of at most Cap counters are different.
LEMMA SlotsDiffer ==
  ASSUME NEW h \in Counters, NEW i \in Nat, NEW k \in Nat, i < k, k < Cap
  PROVE Slot(WrappingAdd(h, i)) # Slot(WrappingAdd(h, k))
  <1> USE Constants
  <1>1. i \in Counters /\ k \in Counters BY DEF Counters
  <1>2. /\ WrappingAdd(h, i) = IF h + i < IndexSpace THEN h + i ELSE h + i - IndexSpace
        /\ WrappingAdd(h, k) = IF h + k < IndexSpace THEN h + k ELSE h + k - IndexSpace
        /\ WrappingAdd(h, i) \in Counters /\ WrappingAdd(h, k) \in Counters
    BY <1>1, AddFact
  <1> DEFINE a == WrappingAdd(h, i)  b == WrappingAdd(h, k)
  <1>3. a \in Nat /\ b \in Nat BY <1>2 DEF Counters
  <1>4. b - a = k - i \/ b - a = (k - i) - IndexSpace BY <1>2 DEF Counters
  <1>5. k - i \in Nat /\ 0 < k - i /\ k - i < Cap OBVIOUS
  <1> HIDE DEF a, b
  <1>6. Slot(a) # Slot(b) BY <1>3, <1>4, <1>5, SameSlot
  <1> QED BY <1>6 DEF a, b

\* Adding the distance leads from one counter to the other.
LEMMA AddDist ==
  ASSUME NEW t \in Counters, NEW h \in Counters PROVE t = WrappingAdd(h, Dist(t, h))
  <1>1. Dist(t, h) \in Counters /\ Dist(t, h) = Gap(t, h) BY DistIsGap
  <1>2. WrappingAdd(h, Dist(t, h)) =
          IF h + Dist(t, h) < IndexSpace THEN h + Dist(t, h) ELSE h + Dist(t, h) - IndexSpace
    BY <1>1, AddFact
  <1> QED BY <1>1, <1>2, Constants DEF Gap, Counters

\* Two advances in a row.
LEMMA AddAdd ==
  ASSUME NEW h \in Counters, NEW n \in Nat, NEW i \in Nat, n + i < IndexSpace
  PROVE WrappingAdd(WrappingAdd(h, n), i) = WrappingAdd(h, n + i)
  <1> DEFINE k == WrappingAdd(h, n)
  <1>1. n \in Counters /\ i \in Counters /\ n + i \in Counters BY Constants DEF Counters
  <1>2. k \in Counters /\ k = IF h + n < IndexSpace THEN h + n ELSE h + n - IndexSpace
    BY <1>1, AddFact
  <1>3. WrappingAdd(h, n + i) = IF h + (n + i) < IndexSpace THEN h + (n + i) ELSE h + (n + i) - IndexSpace
    BY <1>1, AddFact
  <1> HIDE DEF k
  <1>4. WrappingAdd(k, i) = IF k + i < IndexSpace THEN k + i ELSE k + i - IndexSpace
    BY <1>1, <1>2, AddFact
  <1>5. WrappingAdd(k, i) = WrappingAdd(h, n + i) BY <1>2, <1>3, <1>4, Constants DEF Counters
  <1> QED BY <1>5 DEF k

\* The invariant implies that the ring is safe.
LEMMA InvImpliesSafe == IInv => RingSafe
  <1> SUFFICES ASSUME IInv PROVE RingSafe OBVIOUS
  <1> USE Constants
  <1>0. /\ tail \in Counters /\ head \in Counters /\ seenTail \in Counters /\ seenHead \in Counters
        /\ Dist(tail, head) \in Nat /\ Dist(tail, seenTail) \in Nat /\ Dist(tail, seenHead) \in Nat
        /\ Dist(head, seenHead) \in Nat /\ Dist(seenTail, head) \in Nat
    BY Typed, DistNat DEF IInv
  <1>1. NeverOverfull BY <1>0 DEF IInv, HeadBetween, NeverOverfull, Dist
  <1>2. SlotExclusive
    <2> SUFFICES ASSUME ppc = "write", cpc \in {"read", "publish"}, NEW i \in 0..(want - 1),
                        Slot(tail) = Slot(WrappingAdd(head, i))
                 PROVE FALSE
      BY DEF SlotExclusive, Reading
    <2>1. want \in Nat /\ want <= Dist(seenTail, head) BY DEF IInv, BatchInv, TypeOK
    <2>2. i \in Nat /\ i < Dist(tail, head) /\ Dist(tail, head) < Cap
      BY <1>0, <2>1 DEF IInv, TailBetween, HeadBetween
    <2>3. tail = WrappingAdd(head, Dist(tail, head)) BY <1>0, AddDist
    <2> QED BY <1>0, <2>2, <2>3, SlotsDiffer
  <1> QED BY <1>1, <1>2 DEF RingSafe, IInv

\* Every step keeps the invariant.
LEMMA StepInv == IInv /\ [Next]_vars => IInv'
  <1> SUFFICES ASSUME IInv, [Next]_vars PROVE IInv' OBVIOUS
  <1>1. CASE Next BY <1>1, PushInv, PopInv DEF Next
  <1>2. CASE UNCHANGED vars
    BY <1>2 DEF vars, IInv, TypeOK, HeadBetween, TailBetween, BatchInv
  <1> QED BY <1>1, <1>2

\* For every capacity and width of the counters: no slot is written while the
\* consumer may read it, and the ring never holds more than Cap commands
\* (try_push and pop_n of spsc.rs).
THEOREM RingAlwaysSafe == Spec => []RingSafe
  BY StepInv, InitInv, InvImpliesSafe, PTL DEF Spec

----------------------------------------------------------------------------
(* Refinement of the bounded FIFO queue *)

\* The slot about to be published holds the command.
Written == ppc = "publish" => buf[Slot(tail)] = next

\* What has been read of a batch is what the slots hold.
Copied ==
  cpc \in {"read", "publish"} =>
     \A i \in 1..Len(batch) : batch[i] = buf[Slot(WrappingAdd(head, i - 1))]

FullInv == IInv /\ Written /\ Copied

\* The i-th command of the ring.
Item(i) == buf[Slot(WrappingAdd(head, i - 1))]

\* An empty ring satisfies the invariant about contents.
LEMMA InitFull == Init => FullInv
  BY InitInv DEF Init, FullInv, Written, Copied

\* Slots are slots of the buffer.
LEMMA SlotInRange == ASSUME NEW h \in Counters, NEW i \in Nat, i < Cap
                     PROVE Slot(WrappingAdd(h, i)) \in 0..(Cap - 1)
  <1>1. i \in Counters BY Constants DEF Counters
  <1>2. WrappingAdd(h, i) \in Counters BY <1>1, AddFact
  <1> QED BY <1>2, Constants DEF Slot, Counters

\* Writing a slot changes no command that is in the ring.
LEMMA WriteKeeps ==
  ASSUME IInv, PushWrite
  PROVE \A i \in 1..Dist(tail, head) : Item(i)' = Item(i)
  <1> USE Constants
  <1>1. tail \in Counters /\ head \in Counters /\ Dist(tail, head) \in Nat BY Typed, DistNat DEF IInv
  <1>2. Dist(tail, head) < Cap
    <2>1. seenHead \in Counters /\ Dist(head, seenHead) \in Nat /\ Dist(tail, seenHead) \in Nat
      BY <1>1, Typed, DistNat DEF IInv
    <2> QED BY <1>1, <2>1 DEF IInv, HeadBetween, PushWrite
  <1> SUFFICES ASSUME NEW i \in 1..Dist(tail, head) PROVE Item(i)' = Item(i) OBVIOUS
  <1>3. i - 1 \in Nat /\ i - 1 < Dist(tail, head) /\ i - 1 < Cap BY <1>1, <1>2
  <1>4. Slot(WrappingAdd(head, i - 1)) # Slot(tail)
    BY <1>1, <1>2, <1>3, SlotsDiffer, AddDist
  <1>5. Slot(WrappingAdd(head, i - 1)) \in 0..(Cap - 1) BY <1>1, <1>3, SlotInRange
  <1>6. buf' = [buf EXCEPT ![Slot(tail)] = next] /\ head' = head BY DEF PushWrite, consumer
  <1>7. buf'[Slot(WrappingAdd(head, i - 1))] = buf[Slot(WrappingAdd(head, i - 1))]
    BY <1>4, <1>5, <1>6 DEF IInv, TypeOK
  <1> QED BY <1>6, <1>7 DEF Item

\* Every step keeps the invariant about contents.
LEMMA StepFull == FullInv /\ [Next]_vars => FullInv'
  <1> SUFFICES ASSUME FullInv, [Next]_vars PROVE FullInv' OBVIOUS
  <1> USE Constants
  <1>1. IInv /\ IInv' BY StepInv DEF FullInv
  <1>2. Written'
    <2>1. CASE PushLoad BY <2>1 DEF PushLoad, Written
    <2>2. CASE PushWrite
      <3>1. Slot(tail) \in 0..(Cap - 1) BY <1>1, Typed DEF Slot, Counters, IInv
      <3>2. buf' = [buf EXCEPT ![Slot(tail)] = next] /\ tail' = tail /\ next' = next
        BY <2>2 DEF PushWrite
      <3>3. buf'[Slot(tail)] = next BY <1>1, <3>1, <3>2 DEF IInv, TypeOK
      <3> QED BY <3>2, <3>3 DEF Written
    <2>3. CASE PushPublish BY <2>3 DEF PushPublish, Written
    <2>4. CASE Consume
      BY <2>4 DEF Consume, PopLoad, PopRead, PopPublish, Drain, producer, FullInv, Written
    <2>5. CASE UNCHANGED vars BY <2>5 DEF vars, FullInv, Written
    <2> QED BY <2>1, <2>2, <2>3, <2>4, <2>5 DEF Next, Produce
  <1>3. Copied'
    <2>1. CASE PushLoad \/ PushPublish \/ UNCHANGED vars
      BY <2>1 DEF PushLoad, PushPublish, vars, consumer, FullInv, Copied
    <2>2. CASE PushWrite
      <3>1. UNCHANGED <<cpc, batch, head>> BY <2>2 DEF PushWrite, consumer
      <3> SUFFICES ASSUME cpc \in {"read", "publish"}, NEW i \in 1..Len(batch)
                   PROVE batch[i] = buf'[Slot(WrappingAdd(head, i - 1))]
        BY <3>1 DEF Copied
      <3>2. Len(batch) \in Nat /\ Len(batch) <= Dist(tail, head) /\ Dist(tail, head) \in Nat
        <4>1. /\ Dist(tail, head) \in Nat /\ Dist(tail, seenTail) \in Nat /\ Dist(seenTail, head) \in Nat
          BY <1>1, Typed, DistNat DEF IInv
        <4>2. want \in Nat /\ Len(batch) \in Nat /\ Len(batch) <= want /\ want <= Dist(seenTail, head)
          BY <1>1 DEF IInv, TypeOK, BatchInv
        <4> QED BY <1>1, <4>1, <4>2 DEF IInv, TailBetween
      <3>3. i \in 1..Dist(tail, head) BY <3>2
      <3>4. Item(i)' = Item(i) BY <1>1, <2>2, <3>3, WriteKeeps
      <3> QED BY <3>1, <3>4 DEF Item, FullInv, Copied
    <2>3. CASE PopLoad BY <2>3 DEF PopLoad, Copied
    <2>4. CASE PopRead
      <3>1. /\ batch' = Append(batch, buf[Slot(WrappingAdd(head, Len(batch)))])
            /\ UNCHANGED <<buf, head>> /\ cpc = "read"
        BY <2>4 DEF PopRead
      <3>2. batch \in Seq(Commands) /\ Len(batch) \in Nat BY <1>1 DEF IInv, TypeOK
      <3> SUFFICES ASSUME NEW i \in 1..Len(batch')
                   PROVE batch'[i] = buf[Slot(WrappingAdd(head, i - 1))]
        BY <3>1 DEF Copied
      <3>3. CASE i = Len(batch) + 1
        <4>1. batch'[i] = buf[Slot(WrappingAdd(head, Len(batch)))] BY <3>1, <3>2, <3>3
        <4>2. i - 1 = Len(batch) BY <3>2, <3>3
        <4> QED BY <4>1, <4>2
      <3>4. CASE i # Len(batch) + 1
        <4>1. i \in 1..Len(batch) /\ batch'[i] = batch[i] BY <3>1, <3>2, <3>4
        <4> QED BY <3>1, <4>1 DEF FullInv, Copied
      <3> QED BY <3>3, <3>4
    <2>5. CASE PopPublish BY <2>5 DEF PopPublish, Copied
    <2>6. CASE Drain BY <2>6 DEF Drain, Copied
    <2> QED BY <2>1, <2>2, <2>3, <2>4, <2>5, <2>6 DEF Next, Produce, Consume
  <1> QED BY <1>1, <1>2, <1>3 DEF FullInv

\* The contents of the ring as a sequence.
Queue ==
  /\ Contents \in Seq(Commands) /\ Len(Contents) = Dist(tail, head) /\ Dist(tail, head) \in Nat
  /\ \A i \in 1..Dist(tail, head) : Contents[i] = Item(i)

\* The contents are a sequence of commands, as long as tail is ahead of head.
LEMMA ContentsFact == IInv => Queue
  <1> SUFFICES ASSUME IInv PROVE Queue OBVIOUS
  <1>1. tail \in Counters /\ head \in Counters /\ Dist(tail, head) \in Nat BY Typed, DistNat DEF IInv
  <1>2. Dist(tail, head) <= Cap BY InvImpliesSafe DEF RingSafe, NeverOverfull, Dist
  <1>3. \A i \in 1..Dist(tail, head) : Item(i) \in Commands
    <2> SUFFICES ASSUME NEW i \in 1..Dist(tail, head) PROVE Item(i) \in Commands OBVIOUS
    <2>1. i - 1 \in Nat /\ i - 1 < Cap BY <1>1, <1>2, Constants
    <2>2. Slot(WrappingAdd(head, i - 1)) \in 0..(Cap - 1) BY <1>1, <2>1, SlotInRange
    <2> QED BY <2>2 DEF Item, IInv, TypeOK
  <1>4. Contents = [i \in 1..Dist(tail, head) |-> Item(i)] BY DEF Contents, Dist, Item
  <1> QED BY <1>1, <1>3, <1>4 DEF Queue

\* The batch being drained, as the refinement mapping has it.
Out == IF cpc = "drain" THEN batch ELSE <<>>

\* The empty ring is the empty queue.
LEMMA RefineInit == Init => Fifo!Init
  <1> SUFFICES ASSUME Init PROVE Fifo!Init OBVIOUS
  <1>1. Dist(tail, head) = 0
    <2>1. 0 \in Counters BY Constants DEF Counters
    <2>2. Gap(0, 0) = 0 BY DEF Gap
    <2> QED BY <2>1, <2>2, DistIsGap DEF Init
  <1>2. Contents = <<>> BY <1>1, InitInv, ContentsFact DEF Queue
  <1>3. [c \in Commands |-> (c + 1) % Numbers][applied] = 0
    BY RingConstants DEF RingConstants, Init, Commands
  <1> QED BY <1>2, <1>3 DEF Init, Fifo!Init

\* Publishing tail appends the command.
LEMMA RefinePush == ASSUME FullInv, FullInv', PushPublish PROVE Fifo!Push
  <1> USE Constants
  <1> DEFINE n == Dist(tail, head)
  <1>0. IInv /\ IInv' BY DEF FullInv
  <1>1. tail \in Counters /\ head \in Counters /\ n \in Nat BY <1>0, Typed, DistNat DEF IInv
  <1>2. n < Cap
    <2>1. seenHead \in Counters /\ Dist(head, seenHead) \in Nat /\ Dist(tail, seenHead) \in Nat
      BY <1>0, <1>1, Typed, DistNat DEF IInv
    <2> QED BY <1>0, <1>1, <2>1 DEF IInv, HeadBetween, PushPublish
  <1>3. /\ tail' = WrappingAdd(tail, 1) /\ next' = (next + 1) % Numbers
        /\ UNCHANGED <<buf, head, cpc, batch, applied>> /\ ppc = "publish"
    BY DEF PushPublish, consumer
  <1>4. Dist(tail', head') = n + 1 BY <1>1, <1>2, <1>3, StepFact
  <1>5. /\ Contents \in Seq(Commands) /\ Len(Contents) = n
        /\ \A i \in 1..n : Contents[i] = Item(i)
    BY <1>0, ContentsFact DEF Queue
  <1>6. /\ Contents' \in Seq(Commands) /\ Len(Contents') = n + 1
        /\ \A i \in 1..(n + 1) : Contents'[i] = Item(i)
    <2>1. /\ Contents' \in Seq(Commands) /\ Len(Contents') = Dist(tail, head)'
          /\ \A i \in 1..Dist(tail, head)' : Contents'[i] = Item(i)'
      <3>1. Queue' BY <1>0, ContentsFact, PTL
      <3> QED BY <3>1 DEF Queue
    <2>2. Dist(tail, head)' = n + 1 BY <1>4
    <2>3. \A i : Item(i)' = Item(i) BY <1>3 DEF Item
    <2> QED BY <2>1, <2>2, <2>3
  <1>7. Item(n + 1) = next
    <2>1. (n + 1) - 1 = n BY <1>1
    <2>2. tail = WrappingAdd(head, n) BY <1>1, AddDist
    <2> QED BY <1>3, <2>1, <2>2 DEF Item, FullInv, Written
  <1>8. next \in Commands BY <1>0 DEF IInv, TypeOK
  <1> HIDE DEF n
  <1>9. Contents' = Append(Contents, next)
    BY <1>1, <1>5, <1>6, <1>7, <1>8
  <1>10. next' = [c \in Commands |-> (c + 1) % Numbers][next] BY <1>3, <1>8
  <1> QED BY <1>2, <1>3, <1>5, <1>9, <1>10 DEF Fifo!Push

\* Publishing head takes the batch off the front.
LEMMA RefineTake == ASSUME FullInv, FullInv', PopPublish PROVE Fifo!Take
  <1> USE Constants
  <1> DEFINE n == Dist(tail, head)
  <1>0. IInv /\ IInv' BY DEF FullInv
  <1>1. tail \in Counters /\ head \in Counters /\ seenTail \in Counters /\ n \in Nat
        /\ Dist(seenTail, head) \in Nat /\ Dist(tail, seenTail) \in Nat
    BY <1>0, Typed, DistNat DEF IInv
  <1>2. /\ cpc = "publish" /\ cpc' = "drain" /\ head' = WrappingAdd(head, want)
        /\ UNCHANGED <<buf, tail, batch, next, applied>>
    BY DEF PopPublish, producer
  <1>3. /\ want \in Nat /\ want >= 1 /\ want <= n /\ Len(batch) = want /\ batch \in Seq(Commands)
        /\ n <= Cap
    <2>1. want \in Nat /\ want >= 1 /\ want <= Dist(seenTail, head) /\ Len(batch) = want
          /\ batch \in Seq(Commands)
      BY <1>0, <1>2 DEF IInv, TypeOK, BatchInv
    <2>2. n <= Cap BY <1>0, InvImpliesSafe DEF RingSafe, NeverOverfull, Dist
    <2> QED BY <1>0, <1>1, <2>1, <2>2 DEF IInv, TailBetween
  <1>4. Dist(tail', head') = n - want
    <2>1. n = Dist(tail, WrappingAdd(head, want)) + want BY <1>1, <1>3, AdvanceFact
    <2>2. head' \in Counters BY <1>0 DEF IInv, TypeOK, Counters
    <2>3. Dist(tail, head') \in Nat BY <1>1, <2>2, DistNat
    <2> QED BY <1>1, <1>2, <1>3, <2>1, <2>3
  <1>5. /\ Contents \in Seq(Commands) /\ Len(Contents) = n
        /\ \A i \in 1..n : Contents[i] = Item(i)
    BY <1>0, ContentsFact DEF Queue
  <1>6. /\ Contents' \in Seq(Commands) /\ Len(Contents') = n - want
        /\ \A i \in 1..(n - want) : Contents'[i] = Item(i)'
    <2>1. /\ Contents' \in Seq(Commands) /\ Len(Contents') = Dist(tail, head)'
          /\ \A i \in 1..Dist(tail, head)' : Contents'[i] = Item(i)'
      <3>1. Queue' BY <1>0, ContentsFact, PTL
      <3> QED BY <3>1 DEF Queue
    <2>2. Dist(tail, head)' = n - want BY <1>4
    <2> QED BY <2>1, <2>2
  <1>7. \A i \in 1..(n - want) : Item(i)' = Item(want + i)
    <2> SUFFICES ASSUME NEW i \in 1..(n - want) PROVE Item(i)' = Item(want + i) OBVIOUS
    <2> HIDE DEF n
    <2>1. i - 1 \in Nat /\ want + (i - 1) < IndexSpace /\ want + (i - 1) = (want + i) - 1 BY <1>1, <1>3
    <2>2. WrappingAdd(head', i - 1) = WrappingAdd(head, (want + i) - 1)
      BY <1>1, <1>2, <1>3, <2>1, AddAdd
    <2> QED BY <1>2, <2>2 DEF Item
  <1>8. \A i \in 1..want : batch[i] = Item(i)
    BY <1>2, <1>3 DEF FullInv, Copied, Item
  <1> HIDE DEF n
  <1>9. batch = SubSeq(Contents, 1, want)
    BY <1>1, <1>3, <1>5, <1>8
  <1>10. Contents' = SubSeq(Contents, want + 1, Len(Contents))
    <2>1. \A i \in 1..(n - want) : Contents'[i] = Contents[want + i] BY <1>1, <1>3, <1>5, <1>6, <1>7
    <2>2. /\ SubSeq(Contents, want + 1, Len(Contents)) \in Seq(Commands)
          /\ Len(SubSeq(Contents, want + 1, Len(Contents))) = n - want
          /\ \A i \in 1..(n - want) : SubSeq(Contents, want + 1, Len(Contents))[i] = Contents[want + i]
      BY <1>1, <1>3, <1>5
    <2> QED BY <1>6, <2>1, <2>2, SeqEqual
  <1>11. want \in 1..Len(Contents) BY <1>1, <1>3, <1>5
  <1> QED BY <1>2, <1>9, <1>10, <1>11 DEF Fifo!Take

\* Every step of the ring is a step of the queue or changes nothing of it.
LEMMA RefineStep == FullInv /\ FullInv' /\ [Next]_vars => [Fifo!Next]_<<Contents, Out, next, applied>>
  <1> SUFFICES ASSUME FullInv, FullInv', [Next]_vars
               PROVE [Fifo!Next]_<<Contents, Out, next, applied>>
    OBVIOUS
  <1>1. CASE PushLoad
    BY <1>1 DEF PushLoad, consumer, Contents, Out
  <1>2. CASE PushWrite
    <2>1. IInv /\ IInv' BY DEF FullInv
    <2>2. Queue /\ Queue' BY <2>1, ContentsFact, PTL
    <2>3. UNCHANGED <<tail, head, next, applied, cpc, batch>> BY <1>2 DEF PushWrite, consumer
    <2>4. \A i \in 1..Dist(tail, head) : Item(i)' = Item(i) BY <1>2, <2>1, WriteKeeps
    <2>5. Contents' = Contents BY <2>2, <2>3, <2>4, SeqEqual DEF Queue
    <2> QED BY <2>3, <2>5 DEF Out
  <1>3. CASE PushPublish BY <1>3, RefinePush DEF Fifo!Next
  <1>4. CASE PopLoad
    BY <1>4 DEF PopLoad, producer, Contents, Out
  <1>5. CASE PopRead
    BY <1>5 DEF PopRead, producer, Contents, Out
  <1>6. CASE PopPublish BY <1>6, RefineTake DEF Fifo!Next
  <1>7. CASE Drain
    <2>1. batch # <<>> BY <1>7 DEF Drain, FullInv, IInv, BatchInv
    <2>2. Contents' = Contents /\ next' = next BY <1>7 DEF Drain, producer, Contents
    <2>3. Fifo!Apply BY <1>7, <2>1, <2>2 DEF Drain, Fifo!Apply
    <2> QED BY <2>3 DEF Fifo!Next
  <1>8. CASE UNCHANGED vars BY <1>8 DEF vars, Contents, Out
  <1> QED BY <1>1, <1>2, <1>3, <1>4, <1>5, <1>6, <1>7, <1>8 DEF Next, Produce, Consume

\* The ring of spsc.rs, pop_n and the drain of worker.rs implement a bounded
\* FIFO queue: every accepted command is applied once, in the order
\* submitted, whatever stale counters the threads saw.
THEOREM RingImplementsFifo == Spec => ImplementsFifo
  BY InitFull, StepFull, RefineInit, RefineStep, PTL DEF Spec, ImplementsFifo, Fifo!Spec, Out
=============================================================================
