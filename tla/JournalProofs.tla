--------------------------- MODULE JournalProofs ---------------------------
(***************************************************************************)
(* The durability argument of the journal, for every capacity, page size   *)
(* and set of record sizes: the cells below the header that is on disk are *)
(* on disk as they were appended.  The invariant also has to speak of the  *)
(* header in the map, which the kernel may write back before commit's own  *)
(* msync does, and to keep both headers at or below the append cursor, so  *)
(* that an append never touches a cell a header covers.                    *)
(***************************************************************************)
EXTENDS Journal, SequenceTheorems, WellFoundedInduction, TLAPS

\* Both headers stay at or below the cursor of a journal being written.
HeadersBehind == pc \in {"open", "header"} => map[0] <= cursor /\ disk[0] <= cursor

\* The cells below either header are the same on disk as in the map.
Covered == \A i \in Cells : HeaderLen <= i /\ (i < map[0] \/ i < disk[0]) => disk[i] = map[i]

IInv == TypeOK /\ HeadersBehind /\ Covered

\* Facts about the constants that the steps below use.
LEMMA Constants == Cap \in Nat /\ Cap > 0 /\ Page \in Nat /\ Page > 0 /\ 0 \in Cells /\ Sizes \subseteq Nat
  BY JournalConstants DEF JournalConstants, Cells

\* create leaves a journal that satisfies the invariant.
LEMMA InitInv == Init => IInv
  BY Constants DEF Init, IInv, TypeOK, HeadersBehind, Covered, Cells, HeaderLen

\* What msync leaves on disk.
LEMMA FlushedFact ==
  ASSUME TypeOK, NEW n \in Nat
  PROVE /\ Flushed(n) \in [Cells -> Nat]
        /\ \A i \in Cells : Flushed(n)[i] = IF i < n THEN map[i] ELSE disk[i]
  BY Constants DEF Flushed, TypeOK, Cells

\* An append keeps the invariant: it writes at the cursor and above.
LEMMA AppendInv == ASSUME IInv, NEW size \in Sizes, AppendRecord(size) PROVE IInv'
  <1> USE Constants
  <1> DEFINE n == Len(appended) + 1
  <1>1. n \in Nat BY DEF IInv, TypeOK
  <1>2. cursor \in Nat /\ cursor >= 1 /\ cursor' = cursor + 1 + size /\ cursor' <= Cap
    BY DEF IInv, TypeOK, AppendRecord, Place, Fits, HeaderLen
  <1>3. map' \in [Cells -> Nat] /\ \A i \in Cells : i < cursor => map'[i] = map[i]
    <2> HIDE DEF n
    <2>1. map' = [i \in Cells |-> IF i = cursor THEN size
                                  ELSE IF i \in (cursor + 1)..(cursor + size) THEN n ELSE map[i]]
      BY DEF AppendRecord, Place, Written, n
    <2>2. map \in [Cells -> Nat] /\ size \in Nat BY DEF IInv, TypeOK
    <2>3. map' \in [Cells -> Nat] BY <1>1, <2>1, <2>2
    <2>4. ASSUME NEW i \in Cells, i < cursor PROVE map'[i] = map[i]
      <3>1. i \in Nat BY DEF Cells
      <3>2. i # cursor /\ i \notin (cursor + 1)..(cursor + size) BY <1>2, <2>2, <2>4, <3>1
      <3> QED BY <2>1, <3>2
    <2> QED BY <2>3, <2>4
  <1>4. appended' \in Seq(Seq(Nat)) /\ Len(appended') = Len(appended) + 1
    <2> HIDE DEF n
    <2>1. Payload(n, size) \in Seq(Nat) BY <1>1 DEF Payload
    <2>2. appended' = Append(appended, Payload(n, size)) BY DEF AppendRecord, Place, n
    <2> QED BY <2>1, <2>2 DEF IInv, TypeOK
  <1>5. TypeOK'
    BY <1>2, <1>3, <1>4 DEF IInv, TypeOK, AppendRecord, HeaderLen
  <1>6. map[0] \in Nat /\ disk[0] \in Nat /\ map[0] <= cursor /\ disk[0] <= cursor
    BY DEF IInv, TypeOK, HeadersBehind, AppendRecord
  <1>7. map'[0] = map[0] /\ disk' = disk
    BY <1>2, <1>3 DEF AppendRecord
  <1>8. HeadersBehind'
    BY <1>2, <1>6, <1>7 DEF HeadersBehind, IInv
  <1>9. Covered'
    <2> SUFFICES ASSUME NEW i \in Cells, HeaderLen <= i, i < map'[0] \/ i < disk'[0]
                 PROVE disk'[i] = map'[i]
      BY DEF Covered
    <2>1. i < cursor BY <1>2, <1>6, <1>7 DEF Cells
    <2> QED BY <1>3, <1>7, <2>1 DEF Covered, IInv
  <1> QED BY <1>5, <1>8, <1>9 DEF IInv

\* The two halves of commit, and its failure, keep the invariant.
LEMMA CommitInv == ASSUME IInv, CommitData \/ CommitHeader \/ CommitFails PROVE IInv'
  <1> USE Constants
  <1>1. CASE CommitData
    <2>1. (disk' \in [Cells -> Nat] /\ disk'[0] = map[0]) \/ disk' = disk
      BY <1>1, FlushedFact DEF CommitData, IInv, TypeOK, HeaderLen
    <2>2. /\ \A i \in Cells : i >= 1 => map'[i] = map[i]
          /\ map'[0] = cursor /\ map' \in [Cells -> Nat]
      BY <1>1 DEF CommitData, IInv, TypeOK, HeaderLen, Cells
    <2>3. \A i \in Cells : i >= 1 /\ i < cursor => disk'[i] = map'[i]
      BY <1>1, <2>2, FlushedFact DEF CommitData, IInv, TypeOK, HeaderLen, Cells
    <2>4. disk'[0] <= cursor
      BY <1>1, <2>1 DEF CommitData, IInv, TypeOK, HeadersBehind
    <2>5. disk' \in [Cells -> Nat]
      BY <2>1 DEF IInv, TypeOK
    <2>6. TypeOK'
      BY <1>1, <2>2, <2>5 DEF CommitData, IInv, TypeOK
    <2>7. HeadersBehind'
      BY <1>1, <2>2, <2>4 DEF CommitData, IInv, TypeOK, HeadersBehind, HeaderLen
    <2>8. Covered'
      <3> SUFFICES ASSUME NEW i \in Cells, HeaderLen <= i, i < map'[0] \/ i < disk'[0]
                   PROVE disk'[i] = map'[i]
        BY DEF Covered
      <3>1. i \in Nat /\ cursor \in Nat /\ disk'[0] \in Nat
        BY <2>5 DEF Cells, IInv, TypeOK, HeaderLen
      <3>2. i < cursor BY <2>2, <2>4, <3>1
      <3> QED BY <2>3, <3>2 DEF HeaderLen
    <2> QED BY <2>6, <2>7, <2>8 DEF IInv
  <1>2. CASE CommitHeader
    <2>1. disk' \in [Cells -> Nat] /\ \A i \in Cells : disk'[i] = IF i < Page THEN map[i] ELSE disk[i]
      BY <1>2, FlushedFact DEF CommitHeader, IInv
    <2>2. TypeOK'
      BY <1>2, <2>1 DEF CommitHeader, IInv, TypeOK
    <2>3. HeadersBehind' /\ disk'[0] = map[0]
      BY <1>2, <2>1 DEF CommitHeader, IInv, TypeOK, HeadersBehind
    <2>4. Covered'
      BY <1>2, <2>1, <2>3 DEF CommitHeader, IInv, TypeOK, Covered, HeaderLen, Cells
    <2> QED BY <2>2, <2>3, <2>4 DEF IInv
  <1>3. CASE CommitFails
    BY <1>3 DEF CommitFails, IInv, TypeOK, HeadersBehind, Covered
  <1> QED BY <1>1, <1>2, <1>3

\* Write-back, crashes, close, recovery and a new journal keep the invariant.
LEMMA OtherInv ==
  ASSUME IInv,
         \/ \E i \in Cells : WriteBack(i)
         \/ MachineCrash \/ ProcessKilled \/ Close \/ Recover \/ RecoverAgain \/ Create
  PROVE IInv'
  <1> USE Constants
  <1>1. CASE \E i \in Cells : WriteBack(i)
    <2>1. PICK i \in Cells : WriteBack(i) BY <1>1
    <2>2. disk' \in [Cells -> Nat] /\ \A j \in Cells : disk'[j] = IF j = i THEN map[i] ELSE disk[j]
      BY <2>1 DEF WriteBack, IInv, TypeOK
    <2>3. TypeOK'
      BY <2>1, <2>2 DEF WriteBack, IInv, TypeOK
    <2>4. HeadersBehind' /\ disk'[0] \in {map[0], disk[0]}
      BY <2>1, <2>2 DEF WriteBack, IInv, TypeOK, HeadersBehind
    <2>5. Covered'
      BY <2>1, <2>2, <2>4 DEF WriteBack, IInv, TypeOK, Covered, HeaderLen, Cells
    <2> QED BY <2>3, <2>4, <2>5 DEF IInv
  <1>2. CASE MachineCrash
    BY <1>2 DEF MachineCrash, IInv, TypeOK, HeadersBehind, Covered
  <1>3. CASE ProcessKilled
    BY <1>3 DEF ProcessKilled, IInv, TypeOK, HeadersBehind, Covered
  <1>4. CASE Close
    <2>0. cursor \in Nat BY DEF IInv, TypeOK, HeaderLen
    <2>1. disk' \in [Cells -> Nat] /\ \A j \in Cells : disk'[j] \in {map[j], disk[j]}
      <3>1. CASE disk' = disk BY <3>1 DEF IInv, TypeOK
      <3>2. CASE disk' = Flushed(cursor) BY <2>0, <3>2, FlushedFact DEF IInv
      <3> QED BY <1>4, <3>1, <3>2 DEF Close
    <2>2. \A j \in Cells : disk'[j] = disk[j] \/ disk'[j] = map[j]
      BY <2>1
    <2>3. disk' = disk \/ (\A j \in Cells : j < cursor => disk'[j] = map[j])
      BY <1>4, FlushedFact DEF Close, IInv, TypeOK, HeaderLen
    <2>4. Covered'
      BY <1>4, <2>2, <2>3 DEF Close, IInv, TypeOK, HeadersBehind, Covered, HeaderLen, Cells
    <2> QED
      BY <1>4, <2>1, <2>4 DEF Close, IInv, TypeOK, HeadersBehind
  <1>5. CASE Recover
    BY <1>5 DEF Recover, IInv, TypeOK, HeadersBehind, Covered, HeaderLen
  <1>6. CASE RecoverAgain
    BY <1>6 DEF RecoverAgain, IInv, TypeOK, HeadersBehind, Covered
  <1>7. CASE Create
    BY <1>7 DEF Create, IInv, TypeOK, HeadersBehind, Covered, HeaderLen, Cells
  <1> QED BY <1>1, <1>2, <1>3, <1>4, <1>5, <1>6, <1>7

\* The inductive invariant holds in every reachable state.
THEOREM Invariant == Spec => []IInv
  <1>1. Init => IInv BY InitInv
  <1>2. IInv /\ [Next]_vars => IInv'
    <2> SUFFICES ASSUME IInv, [Next]_vars PROVE IInv' OBVIOUS
    <2>1. CASE UNCHANGED vars BY <2>1 DEF vars, IInv, TypeOK, HeadersBehind, Covered
    <2> QED BY <2>1, AppendInv, CommitInv, OtherInv DEF Next
  <1> QED BY <1>1, <1>2, PTL DEF Spec

\* What recovery relies on (journal.rs:157): at every moment, whatever the
\* kernel wrote back and wherever commit was, the cells below the header on
\* disk hold what was appended.
THEOREM HeaderAlwaysCoversData == Spec => []HeaderCoversData
  <1>1. IInv => HeaderCoversData BY Constants DEF IInv, Covered, HeaderCoversData
  <1> QED BY <1>1, Invariant, PTL

\* Type correctness: the cursor stays inside the file and commit never counts
\* a record that was not appended.
THEOREM TypeCorrect == Spec => []TypeOK
  <1>1. IInv => TypeOK BY DEF IInv
  <1> QED BY <1>1, Invariant, PTL
----------------------------------------------------------------------------
(* Recovery.  The records lie one after the other from HEADER_LEN on: the  *)
(* k-th starts at s[k].  Each image of the file has its header at such a   *)
(* start, with the records below it whole, and recovery reads them back.   *)

\* The first K records are in m, whole.
RecordsIn(m, s, K) ==
  \A k \in 1..K : /\ m[s[k]] = Len(appended[k])
                  /\ \A i \in 1..Len(appended[k]) : m[s[k] + i] = appended[k][i]

\* s[k] is where record k starts, s[Len(appended) + 1] where the next one will.
Starts(s) ==
  /\ s \in [1..(Len(appended) + 1) -> 1..Cap]
  /\ s[1] = HeaderLen
  /\ \A k \in 1..Len(appended) : s[k + 1] = s[k] + 1 + Len(appended[k])
  /\ \A j, k \in 1..(Len(appended) + 1) : j <= k => s[j] <= s[k]

\* The header of m stands after record K, K not below the committed ones,
\* and the records up to there are in m.
EndsAt(m, s, K) ==
  K \in committed..Len(appended) /\ CommittedCursor(m) = s[K + 1] /\ RecordsIn(m, s, K)

Layout ==
  \E s : /\ Starts(s)
         /\ pc \in {"open", "header"} => cursor = s[Len(appended) + 1] /\ RecordsIn(map, s, Len(appended))
         /\ \E K : EndsAt(map, s, K)
         /\ \E K : EndsAt(disk, s, K)

HeaderWritten == pc = "header" => map[0] = cursor

LInv == Layout /\ HeaderWritten /\ RecoversPrefix /\ CommittedSurvives

\* The least element of a set of naturals, and induction from it.
LEMMA NatMin ==
  ASSUME NEW T \in SUBSET Nat, T # {}
  PROVE  \E n \in T : \A m \in T : n <= m
  <1>1. PICK n \in T : \A m \in T : ~(<<m, n>> \in OpToRel(<, Nat))
    BY NatLessThanWellFounded, WFMin, Zenon
  <1>2. \A m \in T : ~(m < n)
    BY <1>1 DEF OpToRel
  <1>3. \A m \in T : n <= m
    BY <1>2
  <1> QED BY <1>3

\* Induction, for a set of numbers: with 0 and the successors it is all of Nat.
LEMMA SetInduction ==
  ASSUME NEW S \in SUBSET Nat, 0 \in S, \A n \in S : n + 1 \in S
  PROVE  S = Nat
  <1> SUFFICES ASSUME Nat \ S # {} PROVE FALSE
    OBVIOUS
  <1>1. PICK n \in Nat \ S : \A m \in Nat \ S : n <= m
    BY NatMin
  <1>2. n # 0 /\ n - 1 \in Nat /\ n - 1 \in S
    BY <1>1
  <1> QED BY <1>1, <1>2

\* One step of iter_records at off, with f for the rest.
IterStep(m, end, f, off) ==
  IF off + 1 > end THEN <<>>
  ELSE IF off + 1 + m[off] > end THEN <<>>
  ELSE <<[i \in 1..m[off] |-> m[off + i]]>> \o f[off + 1 + m[off]]

\* iter_records ends: every step moves the offset forward, so the recursion
\* it stands for has a solution.
LEMMA IterDefined ==
  ASSUME NEW m \in [Cells -> Nat], NEW end \in 1..Cap
  PROVE  \E f : f = [off \in 0..Cap |-> IterStep(m, end, f, off)]
  <1> USE Constants
  <1> DEFINE P(n) == \E f : \A off \in 0..Cap : off >= Cap - n => f[off] = IterStep(m, end, f, off)
  <1> DEFINE S == {n \in Nat : P(n)}
  <1>1. 0 \in S
    <2> DEFINE f == [off \in 0..Cap |-> <<>>]
    <2>1. \A off \in 0..Cap : off >= Cap - 0 => f[off] = IterStep(m, end, f, off)
      BY DEF IterStep
    <2>2. P(0) BY <2>1
    <2> QED BY <2>2
  <1>2. ASSUME NEW n \in S PROVE n + 1 \in S
    <2>1. PICK f : \A off \in 0..Cap : off >= Cap - n => f[off] = IterStep(m, end, f, off)
      OBVIOUS
    <2> DEFINE g == [off \in 0..Cap |-> IF off >= Cap - n THEN f[off] ELSE IterStep(m, end, f, off)]
    <2>2. ASSUME NEW off \in 0..Cap, off >= Cap - (n + 1) PROVE g[off] = IterStep(m, end, g, off)
      <3>1. g[off] = IterStep(m, end, f, off)
        BY <2>1
      <3>2. CASE off + 1 > end
        BY <3>1, <3>2 DEF IterStep
      <3>3. CASE off + 1 <= end
        <4>1. off \in Cells /\ m[off] \in Nat
          BY <3>3 DEF Cells
        <4>2. CASE off + 1 + m[off] > end
          BY <3>1, <4>2 DEF IterStep
        <4>3. CASE off + 1 + m[off] <= end
          <5>1. off + 1 + m[off] \in 0..Cap /\ off + 1 + m[off] >= Cap - n
            BY <4>1, <4>3, <2>2
          <5>2. g[off + 1 + m[off]] = f[off + 1 + m[off]]
            BY <5>1
          <5> HIDE DEF g
          <5> QED BY <3>1, <5>2 DEF IterStep
        <4> QED BY <4>1, <4>2, <4>3
      <3> QED BY <3>2, <3>3
    <2>3. P(n + 1)
      <3> HIDE DEF g
      <3> QED BY <2>2
    <2> QED BY <2>3
  <1>3. S = Nat
    <2> HIDE DEF P
    <2> QED BY <1>1, <1>2, SetInduction
  <1>4. PICK f : \A off \in 0..Cap : off >= Cap - Cap => f[off] = IterStep(m, end, f, off)
    BY <1>3
  <1> DEFINE g == [off \in 0..Cap |-> f[off]]
  <1>5. ASSUME NEW off \in 0..Cap PROVE f[off] = IterStep(m, end, g, off)
    <2>1. f[off] = IterStep(m, end, f, off)
      BY <1>4
    <2>2. CASE off + 1 > end
      BY <2>1, <2>2 DEF IterStep
    <2>3. CASE off + 1 <= end
      <3>1. off \in Cells /\ m[off] \in Nat
        BY <2>3 DEF Cells
      <3>2. off + 1 + m[off] <= end => off + 1 + m[off] \in 0..Cap
        BY <3>1
      <3> QED BY <2>1, <3>1, <3>2 DEF IterStep
    <2> QED BY <2>2, <2>3
  <1>6. g = [off \in 0..Cap |-> IterStep(m, end, g, off)]
    BY <1>5
  <1> QED BY <1>6

\* iter_records up to the header gives back the records below it.
LEMMA ReadBack ==
  ASSUME TypeOK, NEW s, Starts(s), NEW m \in [Cells -> Nat], NEW K, EndsAt(m, s, K)
  PROVE  IterRecords(m, CommittedCursor(m)) = SubSeq(appended, 1, K)
  <1> USE Constants
  <1>0. PICK a, end : a = appended /\ end = CommittedCursor(m)
    OBVIOUS
  <1>1. a \in Seq(Seq(Nat)) /\ Len(a) \in Nat /\ K \in Nat /\ K <= Len(a)
    <2>1. a \in Seq(Seq(Nat)) /\ committed \in 0..Len(a) /\ K \in committed..Len(a)
      BY <1>0 DEF EndsAt, TypeOK
    <2> QED BY <2>1
  <1>2. /\ s \in [1..(Len(a) + 1) -> 1..Cap] /\ s[1] = 1
        /\ \A k \in 1..Len(a) : s[k + 1] = s[k] + 1 + Len(a[k])
        /\ \A j, k \in 1..(Len(a) + 1) : j <= k => s[j] <= s[k]
    BY <1>0 DEF Starts, HeaderLen
  <1>3. \A k \in 1..K : m[s[k]] = Len(a[k]) /\ \A i \in 1..Len(a[k]) : m[s[k] + i] = a[k][i]
    BY <1>0 DEF EndsAt, RecordsIn
  <1>4. end = s[K + 1] /\ K + 1 \in 1..(Len(a) + 1) /\ end \in 1..Cap
    <2>1. K + 1 \in 1..(Len(a) + 1) BY <1>1
    <2> QED BY <1>0, <1>2, <2>1 DEF EndsAt
  <1>5. PICK F : /\ F = [off \in 0..Cap |-> IterStep(m, end, F, off)]
                 /\ IterRecords(m, end) = F[1]
    <2> DEFINE G == CHOOSE f : f = [off \in 0..Cap |-> IterStep(m, end, f, off)]
    <2>1. G = [off \in 0..Cap |-> IterStep(m, end, G, off)]
      BY <1>4, IterDefined
    <2>2. IterRecords(m, end) = G[1]
      BY DEF IterRecords, IterStep, HeaderLen
    <2> QED BY <2>1, <2>2
  <1> DEFINE S == {n \in Nat : n <= K => F[s[K + 1 - n]] = SubSeq(a, K + 1 - n, K)}
  <1>6. 0 \in S
    <2>1. F[end] = <<>>
      BY <1>4, <1>5 DEF IterStep
    <2>2. SubSeq(a, K + 1, K) = <<>>
      BY <1>1, SubSeqProperties
    <2>3. K + 1 - 0 = K + 1
      BY <1>1
    <2> QED BY <1>4, <2>1, <2>2, <2>3
  <1>7. ASSUME NEW n \in S PROVE n + 1 \in S
    <2>0. K + 1 - (n + 1) = K - n /\ n \in Nat
      BY <1>1
    <2> SUFFICES ASSUME n + 1 <= K
                 PROVE  F[s[K - n]] = SubSeq(a, K - n, K)
      BY <2>0
    <2>1. PICK k \in Nat : k = K - n
      BY <1>1, <2>0
    <2>2. k \in 1..K /\ k \in 1..Len(a) /\ k \in 1..(Len(a) + 1) /\ k + 1 \in 1..(Len(a) + 1) /\ k + 1 <= K + 1 /\ k + 1 = K + 1 - n
      BY <1>1, <2>0, <2>1
    <2>3. F[s[k + 1]] = SubSeq(a, k + 1, K)
      <3>1. n <= K => F[s[K + 1 - n]] = SubSeq(a, K + 1 - n, K)
        OBVIOUS
      <3>2. n <= K
        BY <1>1, <2>0
      <3> QED BY <2>2, <3>1, <3>2
    <2>4. a[k] \in Seq(Nat) /\ Len(a[k]) \in Nat /\ m[s[k]] = Len(a[k]) /\ \A i \in 1..Len(a[k]) : m[s[k] + i] = a[k][i]
      BY <1>1, <1>3, <2>2
    <2>5. PICK off \in 1..Cap : off = s[k]
      BY <1>2, <2>2
    <2>6. s[k + 1] = off + 1 + m[off]
      BY <1>2, <2>2, <2>4, <2>5
    <2>7. s[k + 1] <= end
      <3>1. \A j, l \in 1..(Len(a) + 1) : j <= l => s[j] <= s[l]
        BY <1>2
      <3>2. s[k + 1] <= s[K + 1]
        BY <1>4, <2>2, <3>1
      <3> QED BY <1>4, <3>2
    <2>8. [i \in 1..m[off] |-> m[off + i]] = a[k]
      <3>1. a[k] = [i \in 1..Len(a[k]) |-> a[k][i]]
        BY <2>4
      <3>2. m[off] = Len(a[k]) /\ \A i \in 1..Len(a[k]) : m[off + i] = a[k][i]
        BY <2>4, <2>5
      <3> QED BY <3>1, <3>2
    <2>9. F[off] = <<a[k]>> \o F[s[k + 1]]
      <3>1. off \in 0..Cap /\ F[off] = IterStep(m, end, F, off)
        <4>1. off \in 0..Cap
          BY <2>5
        <4> QED BY <1>5, <4>1
      <3>2. ~(off + 1 > end) /\ ~(off + 1 + m[off] > end)
        <4>1. off \in Nat /\ end \in Nat
          BY <1>4
        <4>2. m[off] \in Nat
          BY <2>4, <2>5
        <4>3. off + 1 + m[off] <= end
          BY <2>6, <2>7
        <4> QED BY <4>1, <4>2, <4>3
      <3> QED BY <2>6, <2>8, <3>1, <3>2 DEF IterStep
    <2>10. <<a[k]>> \o SubSeq(a, k + 1, K) = SubSeq(a, k, K)
      BY <1>1, <2>2, SubSeqProperties, ConcatProperties
    <2> QED BY <2>1, <2>3, <2>5, <2>9, <2>10
  <1>8. F[s[1]] = SubSeq(a, 1, K)
    <2>1. S = Nat
      <3> HIDE DEF S
      <3>1. S \in SUBSET Nat BY DEF S
      <3> QED BY <1>6, <1>7, <3>1, SetInduction
    <2>2. K \in S BY <1>1, <2>1
    <2>3. K + 1 - K = 1 BY <1>1
    <2> QED BY <1>1, <2>2, <2>3
  <1> QED BY <1>0, <1>2, <1>5, <1>8

\* The cells of record k lie in the file, above the header, below the start
\* of any later record.
LEMMA RecordCells ==
  ASSUME TypeOK, NEW s, Starts(s), NEW K \in 0..Len(appended), NEW k \in 1..K, NEW i \in 0..Len(appended[k])
  PROVE  s[k] + i \in Cells /\ s[k] + i >= 1 /\ s[k] + i < s[K + 1] /\ s[k] \in Cells
  <1> USE Constants
  <1>1. Len(appended) \in Nat /\ k \in 1..Len(appended) /\ k \in 1..(Len(appended) + 1)
        /\ k + 1 \in 1..(Len(appended) + 1) /\ K + 1 \in 1..(Len(appended) + 1) /\ k + 1 <= K + 1
    BY DEF TypeOK
  <1>2. appended[k] \in Seq(Nat) /\ Len(appended[k]) \in Nat
    BY <1>1 DEF TypeOK
  <1>3. /\ s[k] \in 1..Cap /\ s[K + 1] \in 1..Cap
        /\ s[k + 1] = s[k] + 1 + Len(appended[k]) /\ s[k + 1] <= s[K + 1]
    BY <1>1 DEF Starts
  <1>4. PICK c, e, l \in Nat : c = s[k] /\ e = s[K + 1] /\ l = Len(appended[k])
    BY <1>2, <1>3
  <1>5. c >= 1 /\ e <= Cap /\ c + 1 + l <= e /\ i \in 0..l
    BY <1>3, <1>4
  <1>6. c + i \in Cells /\ c + i >= 1 /\ c + i < e /\ c \in Cells
    BY <1>5 DEF Cells
  <1> QED BY <1>4, <1>6

\* An image that agrees below the start of record K + 1 has the same records.
LEMMA RecordsCarry ==
  ASSUME TypeOK, NEW s, Starts(s), NEW K \in 0..Len(appended), NEW m, NEW m2, RecordsIn(m, s, K),
         \A i \in Cells : i >= 1 /\ i < s[K + 1] => m2[i] = m[i]
  PROVE  RecordsIn(m2, s, K)
  <1> SUFFICES ASSUME NEW k \in 1..K
               PROVE  /\ m2[s[k]] = Len(appended[k])
                      /\ \A i \in 1..Len(appended[k]) : m2[s[k] + i] = appended[k][i]
    BY DEF RecordsIn
  <1>0. Len(appended[k]) \in Nat
    BY DEF TypeOK
  <1>1. m2[s[k]] = m[s[k]]
    <2>1. 0 \in 0..Len(appended[k]) BY <1>0
    <2>2. s[k] + 0 >= 1 /\ s[k] + 0 < s[K + 1] /\ s[k] \in Cells BY <2>1, RecordCells
    <2>3. s[k] + 0 = s[k] BY <2>2, Constants DEF Cells
    <2> QED BY <2>2, <2>3
  <1>2. ASSUME NEW i \in 1..Len(appended[k]) PROVE m2[s[k] + i] = m[s[k] + i]
    <2>1. i \in 0..Len(appended[k]) BY <1>0
    <2>2. s[k] + i \in Cells /\ s[k] + i >= 1 /\ s[k] + i < s[K + 1] BY <2>1, RecordCells
    <2> QED BY <2>2
  <1> QED BY <1>1, <1>2 DEF RecordsIn

\* An image with the same header that agrees below it ends at the same record.
LEMMA EndsCarry ==
  ASSUME TypeOK, NEW s, Starts(s), NEW K, NEW m, NEW m2, EndsAt(m, s, K), m2[0] = m[0],
         \A i \in Cells : i >= 1 /\ i < CommittedCursor(m) => m2[i] = m[i]
  PROVE  EndsAt(m2, s, K)
  <1>1. K \in 0..Len(appended)
    <2>1. committed \in 0..Len(appended) /\ K \in committed..Len(appended) BY DEF EndsAt, TypeOK
    <2> QED BY <2>1
  <1>2. CommittedCursor(m2) = CommittedCursor(m)
    BY DEF CommittedCursor
  <1>3. RecordsIn(m2, s, K)
    BY <1>1, RecordsCarry DEF EndsAt
  <1> QED BY <1>2, <1>3 DEF EndsAt

\* A step that leaves the history alone keeps the layout if its images do.
LEMMA SameHistory ==
  ASSUME UNCHANGED appended, committed' = committed, NEW s, Starts(s),
         pc' \in {"open", "header"} => cursor' = s[Len(appended) + 1] /\ RecordsIn(map', s, Len(appended)),
         \E K : EndsAt(map', s, K), \E K : EndsAt(disk', s, K)
  PROVE  Layout'
  <1>1. Starts(s)'
    BY DEF Starts, HeaderLen
  <1>2. (\E K : EndsAt(map, s, K))'
    <2>1. PICK K : EndsAt(map', s, K) OBVIOUS
    <2>2. EndsAt(map, s, K)' BY <2>1 DEF EndsAt, RecordsIn, CommittedCursor, HeaderLen
    <2> QED BY <2>2
  <1>3. (\E K : EndsAt(disk, s, K))'
    <2>1. PICK K : EndsAt(disk', s, K) OBVIOUS
    <2>2. EndsAt(disk, s, K)' BY <2>1 DEF EndsAt, RecordsIn, CommittedCursor, HeaderLen
    <2> QED BY <2>2
  <1>4. (pc \in {"open", "header"} => cursor = s[Len(appended) + 1] /\ RecordsIn(map, s, Len(appended)))'
    BY DEF RecordsIn
  <1> QED BY <1>1, <1>2, <1>3, <1>4 DEF Layout

\* An append adds one record at the cursor and touches no earlier one.
LEMMA AppendLayout == ASSUME IInv, LInv, NEW size \in Sizes, AppendRecord(size) PROVE LInv'
  <1> USE Constants
  <1>0. PICK s : /\ Starts(s) /\ cursor = s[Len(appended) + 1] /\ RecordsIn(map, s, Len(appended))
                 /\ \E K : EndsAt(map, s, K)
                 /\ \E K : EndsAt(disk, s, K)
    BY DEF LInv, Layout, AppendRecord
  <1>1. PICK n \in Nat : n = Len(appended) /\ committed \in 0..n
    BY DEF IInv, TypeOK
  <1>2. /\ size \in Nat /\ cursor \in 1..Cap /\ cursor' = cursor + 1 + size /\ cursor' \in 1..Cap
        /\ pc = "open" /\ pc' = "open" /\ disk' = disk /\ committed' = committed
    BY DEF IInv, TypeOK, AppendRecord, Place, Fits, HeaderLen
  <1>3. map' = [i \in Cells |-> IF i = cursor THEN size
                                ELSE IF i \in (cursor + 1)..(cursor + size) THEN n + 1 ELSE map[i]]
    BY <1>1 DEF AppendRecord, Place, Written
  <1>4. appended' = Append(appended, [i \in 1..size |-> n + 1])
    BY <1>1 DEF AppendRecord, Place, Payload
  <1>5. /\ Len(appended') = n + 1 /\ appended'[n + 1] = [i \in 1..size |-> n + 1]
        /\ \A k \in 1..n : appended'[k] = appended[k]
    <2>1. [i \in 1..size |-> n + 1] \in Seq(Nat) BY <1>1, <1>2
    <2> QED BY <1>1, <1>4, <2>1, AppendProperties DEF IInv, TypeOK
  <1>6. Len([i \in 1..size |-> n + 1]) = size
    BY <1>2
  <1>a. PICK s2 : s2 = [k \in 1..(n + 2) |-> IF k <= n + 1 THEN s[k] ELSE cursor + 1 + size]
    OBVIOUS
  <1>7. /\ \A k \in 1..(n + 1) : s2[k] = s[k]
        /\ s2[n + 1] = cursor /\ s2[n + 2] = cursor + 1 + size
    BY <1>0, <1>1, <1>a
  <1>8. Starts(s2)'
    <2>1. /\ s \in [1..(n + 1) -> 1..Cap] /\ s[1] = 1
          /\ \A k \in 1..n : s[k + 1] = s[k] + 1 + Len(appended[k])
          /\ \A j, k \in 1..(n + 1) : j <= k => s[j] <= s[k]
      BY <1>0, <1>1 DEF Starts, HeaderLen
    <2>2. s2 \in [1..(n + 2) -> 1..Cap] /\ s2[1] = 1
      BY <1>1, <1>2, <1>a, <2>1
    <2>3. ASSUME NEW k \in 1..(n + 1) PROVE s2[k + 1] = s2[k] + 1 + Len(appended'[k])
      <3>1. CASE k = n + 1 
        <4>1. n + 1 + 1 = n + 2 BY <1>1
        <4> QED BY <1>5, <1>6, <1>7, <3>1, <4>1
      <3>2. CASE k # n + 1
        <4>1. k \in 1..n /\ k \in 1..(n + 1) /\ k + 1 \in 1..(n + 1) BY <1>1, <3>2
        <4> QED BY <1>5, <1>7, <2>1, <4>1
      <3> QED BY <3>1, <3>2
    <2>4. ASSUME NEW j \in 1..(n + 2), NEW k \in 1..(n + 2), j <= k PROVE s2[j] <= s2[k]
      <3>1. n + 1 \in 1..(n + 1) /\ s[n + 1] = cursor
        BY <1>0, <1>1
      <3>2. CASE k = n + 2 /\ j = n + 2 
        BY <1>2, <1>7, <3>2
      <3>3. CASE k = n + 2 /\ j # n + 2
        <4>1. j \in 1..(n + 1) BY <1>1, <3>3
        <4>2. s[j] <= s[n + 1] /\ s[j] \in 1..Cap BY <1>1, <2>1, <3>1, <4>1
        <4>3. s2[j] = s[j] /\ s2[k] = cursor + 1 + size BY <1>7, <3>3, <4>1
        <4> QED BY <1>2, <3>1, <4>2, <4>3
      <3>4. CASE k # n + 2
        <4>1. j \in 1..(n + 1) /\ k \in 1..(n + 1) BY <1>1, <2>4, <3>4
        <4> QED BY <1>7, <2>1, <2>4, <4>1
      <3> QED BY <3>2, <3>3, <3>4
    <2>5. Len(appended') + 1 = n + 2 /\ Len(appended') = n + 1
      BY <1>1, <1>5
    <2> QED BY <2>2, <2>3, <2>4, <2>5 DEF Starts, HeaderLen
  <1>9. \A i \in Cells : i < cursor => map'[i] = map[i]
    <2> SUFFICES ASSUME NEW i \in Cells, i < cursor PROVE map'[i] = map[i] OBVIOUS
    <2>1. i # cursor /\ i \notin (cursor + 1)..(cursor + size) BY <1>2 DEF Cells
    <2> QED BY <1>3, <2>1
  <1>10. ASSUME NEW m, NEW K \in 0..n, RecordsIn(m, s, K)
         PROVE  RecordsIn(m, s2, K)'
    <2> SUFFICES ASSUME NEW k \in 1..K
                 PROVE  /\ m[s2[k]] = Len(appended'[k])
                        /\ \A i \in 1..Len(appended'[k]) : m[s2[k] + i] = appended'[k][i]
      BY DEF RecordsIn
    <2>1. k \in 1..n /\ k \in 1..(n + 1) BY <1>1
    <2> QED BY <1>5, <1>7, <1>10, <2>1 DEF RecordsIn
  <1>11. RecordsIn(map', s, n)
    <2>1. \A i \in Cells : i >= 1 /\ i < s[n + 1] => map'[i] = map[i]
      BY <1>0, <1>1, <1>9
    <2>2. n \in 0..Len(appended) /\ TypeOK BY <1>1 DEF IInv
    <2> QED BY <1>0, <1>1, <2>1, <2>2, RecordsCarry
  <1>12. RecordsIn(map, s2, n + 1)'
    <2> SUFFICES ASSUME NEW k \in 1..(n + 1)
                 PROVE  /\ map'[s2[k]] = Len(appended'[k])
                        /\ \A i \in 1..Len(appended'[k]) : map'[s2[k] + i] = appended'[k][i]
      BY DEF RecordsIn
    <2>1. CASE k \in 1..n
      <3>1. s2[k] = s[k] /\ appended'[k] = appended[k]
        BY <1>5, <1>7, <2>1
      <3> QED BY <1>11, <2>1, <3>1 DEF RecordsIn
    <2>2. CASE k = n + 1
      <3>1. s2[k] = cursor /\ appended'[k] = [i \in 1..size |-> n + 1] /\ Len(appended'[k]) = size
        BY <1>5, <1>6, <1>7, <2>2
      <3>2. cursor \in Cells /\ \A i \in 1..size : cursor + i \in Cells
        BY <1>2 DEF Cells
      <3>3. map'[cursor] = size
        BY <1>3, <3>2
      <3>4. ASSUME NEW i \in 1..size PROVE map'[cursor + i] = n + 1
        <4>1. cursor + i # cursor /\ cursor + i \in (cursor + 1)..(cursor + size) BY <1>2
        <4> QED BY <1>3, <3>2, <4>1
      <3> QED BY <3>1, <3>3, <3>4
    <2> QED BY <1>1, <2>1, <2>2
  <1>13. (\E K : EndsAt(map, s2, K))'
    <2>1. PICK K : EndsAt(map, s, K) BY <1>0
    <2>2. K \in 0..n /\ K \in committed..n /\ K \in committed..(n + 1) /\ K + 1 \in 1..(n + 1)
      BY <1>1, <2>1 DEF EndsAt
    <2>3. map'[0] = map[0]
      BY <1>2, <1>9 DEF Cells
    <2>4. EndsAt(map', s, K)
      <3>1. CommittedCursor(map) <= cursor
        BY <1>2 DEF IInv, TypeOK, HeadersBehind, CommittedCursor, HeaderLen
      <3>2. CommittedCursor(map) \in Nat
        BY DEF IInv, TypeOK, CommittedCursor, HeaderLen
      <3>3. \A i \in Cells : i >= 1 /\ i < CommittedCursor(map) => map'[i] = map[i]
        BY <1>2, <1>9, <3>1, <3>2 DEF Cells
      <3> QED BY <1>0, <2>1, <2>3, <3>3, EndsCarry DEF IInv
    <2>5. RecordsIn(map, s2, K)'
      <3>1. PICK m : m = map' OBVIOUS
      <3>2. RecordsIn(m, s2, K)' BY <1>10, <2>2, <2>4, <3>1 DEF EndsAt
      <3> QED BY <3>1, <3>2 DEF RecordsIn
    <2>6. CommittedCursor(map') = s2[K + 1]
      BY <1>7, <2>2, <2>4 DEF EndsAt
    <2>7. EndsAt(map, s2, K)'
      BY <1>2, <1>5, <2>2, <2>5, <2>6 DEF EndsAt, CommittedCursor, HeaderLen, RecordsIn
    <2> QED BY <2>7
  <1>14. (\E K : EndsAt(disk, s2, K))'
    <2>1. PICK K : EndsAt(disk, s, K) BY <1>0
    <2>2. K \in 0..n /\ K \in committed..n /\ K \in committed..(n + 1) /\ K + 1 \in 1..(n + 1)
      BY <1>1, <2>1 DEF EndsAt
    <2>3. RecordsIn(disk, s2, K)'
      <3>1. PICK m : m = disk OBVIOUS
      <3>2. RecordsIn(m, s2, K)' BY <1>10, <2>1, <2>2, <3>1 DEF EndsAt
      <3> QED BY <1>2, <3>1, <3>2 DEF RecordsIn
    <2>4. CommittedCursor(disk) = s2[K + 1]
      BY <1>7, <2>1, <2>2 DEF EndsAt
    <2>5. EndsAt(disk, s2, K)'
      BY <1>2, <1>5, <2>2, <2>3, <2>4 DEF EndsAt, CommittedCursor, HeaderLen
    <2> QED BY <2>5
  <1>15. Layout'
    <2>1. cursor' = s2[Len(appended') + 1] /\ RecordsIn(map, s2, Len(appended))'
      <3>1. n + 1 + 1 = n + 2 BY <1>1
      <3> QED BY <1>2, <1>5, <1>7, <1>12, <3>1 DEF RecordsIn
    <2> QED BY <1>8, <1>13, <1>14, <2>1 DEF Layout
  <1> QED BY <1>2, <1>15 DEF LInv, HeaderWritten, RecoversPrefix, CommittedSurvives

\* The header in an image that the kernel or an msync refreshed from the map.
LEMMA HeaderIn ==
  ASSUME TypeOK
  PROVE  CommittedCursor(map) \in Nat /\ CommittedCursor(disk) \in Nat
         /\ CommittedCursor(map) >= 1 /\ (CommittedCursor(map) = 1 \/ CommittedCursor(map) = map[0])
         /\ (CommittedCursor(disk) = 1 \/ CommittedCursor(disk) = disk[0])
  BY Constants DEF TypeOK, CommittedCursor, HeaderLen

\* commit's data msync and the header it writes to the map.
LEMMA CommitDataLayout == ASSUME IInv, LInv, CommitData PROVE LInv'
  <1> USE Constants
  <1>0. PICK s : /\ Starts(s) /\ cursor = s[Len(appended) + 1] /\ RecordsIn(map, s, Len(appended))
                 /\ \E K : EndsAt(map, s, K)
                 /\ \E K : EndsAt(disk, s, K)
    BY DEF LInv, Layout, CommitData
  <1>1. /\ TypeOK /\ map \in [Cells -> Nat] /\ disk \in [Cells -> Nat] /\ cursor \in Nat /\ cursor >= 1
        /\ committed \in 0..Len(appended) /\ Len(appended) \in Nat /\ map[0] \in Nat /\ disk[0] \in Nat
    BY DEF IInv, TypeOK, HeaderLen
  <1>2. pc = "open" /\ pc' = "header" /\ UNCHANGED <<cursor, appended, committed, read>>
    BY DEF CommitData
  <1>3. /\ map' \in [Cells -> Nat] /\ map'[0] = cursor
        /\ \A i \in Cells : i >= 1 => map'[i] = map[i]
    BY <1>1 DEF CommitData, Cells
  <1>4. RecordsIn(map', s, Len(appended))
    <2>1. Len(appended) \in 0..Len(appended) BY <1>1
    <2> QED BY <1>0, <1>1, <1>3, <2>1, RecordsCarry
  <1>5. EndsAt(map', s, Len(appended))
    <2>1. Len(appended) \in committed..Len(appended) BY <1>1
    <2>2. CommittedCursor(map') = cursor BY <1>1, <1>3 DEF CommittedCursor, HeaderLen
    <2> QED BY <1>0, <1>4, <2>1, <2>2 DEF EndsAt
  <1>6. \E K : EndsAt(disk', s, K)
    <2>1. CASE disk' = disk BY <1>0, <2>1
    <2>2. CASE disk' = Flushed(cursor)
      <3>1. PICK K : EndsAt(map, s, K) BY <1>0
      <3>2. CommittedCursor(map) <= cursor
        BY <1>1, <1>2 DEF IInv, HeadersBehind, CommittedCursor, HeaderLen
      <3>3. \A i \in Cells : i < cursor => disk'[i] = map[i]
        BY <1>1, <2>2, FlushedFact
      <3>4. disk'[0] = map[0] BY <1>1, <3>3
      <3>5. \A i \in Cells : i >= 1 /\ i < CommittedCursor(map) => disk'[i] = map[i]
        <4> SUFFICES ASSUME NEW i \in Cells, i < CommittedCursor(map) PROVE disk'[i] = map[i]
          OBVIOUS
        <4>1. i < cursor BY <1>1, <3>2, HeaderIn DEF Cells
        <4> QED BY <3>3, <4>1
      <3>6. EndsAt(disk', s, K)
        BY <1>0, <1>1, <3>1, <3>4, <3>5, EndsCarry
      <3> QED BY <3>6
    <2> QED BY <2>1, <2>2 DEF CommitData
  <1>7. Layout'
    BY <1>0, <1>2, <1>4, <1>5, <1>6, SameHistory
  <1> QED BY <1>2, <1>3, <1>7 DEF LInv, HeaderWritten, RecoversPrefix, CommittedSurvives

\* commit's header msync: every record appended is now below both headers.
LEMMA CommitHeaderLayout == ASSUME IInv, LInv, CommitHeader PROVE LInv'
  <1> USE Constants
  <1>0. PICK s : /\ Starts(s) /\ cursor = s[Len(appended) + 1] /\ RecordsIn(map, s, Len(appended))
    BY DEF LInv, Layout, CommitHeader
  <1>1. /\ TypeOK /\ map \in [Cells -> Nat] /\ disk \in [Cells -> Nat] /\ cursor \in Nat /\ cursor >= 1
        /\ Len(appended) \in Nat
    BY DEF IInv, TypeOK, HeaderLen
  <1>2. /\ pc = "header" /\ pc' = "open" /\ UNCHANGED <<map, cursor, appended, read>>
        /\ committed' = Len(appended) /\ map[0] = cursor
    BY DEF CommitHeader, LInv, HeaderWritten
  <1>3. disk'[0] = map[0] /\ \A i \in Cells : i >= 1 /\ i < cursor => disk'[i] = map[i]
    <2>1. \A i \in Cells : disk'[i] = IF i < Page THEN map[i] ELSE disk[i]
      BY <1>1, FlushedFact DEF CommitHeader
    <2>2. \A i \in Cells : i >= 1 /\ i < cursor => disk[i] = map[i]
      BY <1>2 DEF IInv, Covered, HeaderLen
    <2> QED BY <2>1, <2>2
  <1>4. RecordsIn(disk', s, Len(appended))
    <2>1. Len(appended) \in 0..Len(appended) BY <1>1
    <2> QED BY <1>0, <1>1, <1>3, <2>1, RecordsCarry
  <1>5. CommittedCursor(map') = cursor /\ CommittedCursor(disk') = cursor
    BY <1>1, <1>2, <1>3 DEF CommittedCursor, HeaderLen
  <1>6. Len(appended) \in Len(appended)..Len(appended)
    BY <1>1
  <1>7. Starts(s)'
    BY <1>0, <1>2 DEF Starts, HeaderLen
  <1>8. EndsAt(map, s, Len(appended))'
    BY <1>0, <1>2, <1>5, <1>6 DEF EndsAt, RecordsIn, CommittedCursor, HeaderLen
  <1>9. EndsAt(disk, s, Len(appended))'
    BY <1>0, <1>2, <1>4, <1>5, <1>6 DEF EndsAt, RecordsIn, CommittedCursor, HeaderLen
  <1>10. Layout'
    <2>1. (cursor = s[Len(appended) + 1] /\ RecordsIn(map, s, Len(appended)))'
      BY <1>0, <1>2 DEF RecordsIn
    <2> QED BY <1>7, <1>8, <1>9, <2>1 DEF Layout
  <1> QED BY <1>2, <1>10 DEF LInv, HeaderWritten, RecoversPrefix, CommittedSurvives

\* The kernel writes one cell back: the header on disk is then one of the two
\* headers, and the cells below it are on disk already.
LEMMA WriteBackLayout == ASSUME IInv, LInv, NEW i \in Cells, WriteBack(i) PROVE LInv'
  <1> USE Constants
  <1>0. PICK s : /\ Starts(s)
                 /\ pc \in {"open", "header"} => cursor = s[Len(appended) + 1] /\ RecordsIn(map, s, Len(appended))
                 /\ \E K : EndsAt(map, s, K)
                 /\ \E K : EndsAt(disk, s, K)
    BY DEF LInv, Layout
  <1>1. TypeOK /\ UNCHANGED <<map, cursor, pc, appended, committed, read>>
    BY DEF IInv, WriteBack
  <1>2. \A j \in Cells : disk'[j] = IF j = i THEN map[i] ELSE disk[j]
    BY DEF WriteBack, IInv, TypeOK
  <1>3. \A j \in Cells : j >= 1 /\ (j < map[0] \/ j < disk[0]) => disk'[j] = map[j] /\ disk'[j] = disk[j]
    BY <1>2 DEF IInv, Covered, HeaderLen
  <1>4. \E K : EndsAt(disk', s, K)
    <2>1. CASE i = 0
      <3>1. PICK K : EndsAt(map, s, K) BY <1>0
      <3>2. disk'[0] = map[0] BY <1>2, <2>1
      <3>3. \A j \in Cells : j >= 1 /\ j < CommittedCursor(map) => disk'[j] = map[j]
        BY <1>1, <1>3, HeaderIn DEF Cells
      <3>4. EndsAt(disk', s, K) BY <1>0, <1>1, <3>1, <3>2, <3>3, EndsCarry
      <3> QED BY <3>4
    <2>2. CASE i # 0
      <3>1. PICK K : EndsAt(disk, s, K) BY <1>0
      <3>2. disk'[0] = disk[0] BY <1>2, <2>2
      <3>3. \A j \in Cells : j >= 1 /\ j < CommittedCursor(disk) => disk'[j] = disk[j]
        BY <1>1, <1>3, HeaderIn DEF Cells
      <3>4. EndsAt(disk', s, K) BY <1>0, <1>1, <3>1, <3>2, <3>3, EndsCarry
      <3> QED BY <3>4
    <2> QED BY <2>1, <2>2
  <1>5. Layout'
    BY <1>0, <1>1, <1>4, SameHistory
  <1> QED BY <1>1, <1>5 DEF LInv, HeaderWritten, RecoversPrefix, CommittedSurvives

\* Drop's last msync.
LEMMA CloseLayout == ASSUME IInv, LInv, Close PROVE LInv'
  <1> USE Constants
  <1>0. PICK s : /\ Starts(s)
                 /\ \E K : EndsAt(map, s, K)
                 /\ \E K : EndsAt(disk, s, K)
    BY DEF LInv, Layout
  <1>1. TypeOK /\ pc = "open" /\ pc' = "down" /\ UNCHANGED <<map, cursor, appended, committed, read>> /\ cursor \in Nat /\ cursor >= 1
    BY DEF IInv, Close, TypeOK, HeaderLen
  <1>2. \E K : EndsAt(disk', s, K)
    <2>1. CASE disk' = disk BY <1>0, <2>1
    <2>2. CASE disk' = Flushed(cursor)
      <3>1. PICK K : EndsAt(map, s, K) BY <1>0
      <3>2. CommittedCursor(map) <= cursor
        BY <1>1 DEF IInv, HeadersBehind, CommittedCursor, HeaderLen
      <3>3. \A j \in Cells : j < cursor => disk'[j] = map[j]
        BY <1>1, <2>2, FlushedFact
      <3>4. disk'[0] = map[0] BY <1>1, <3>3
      <3>5. \A j \in Cells : j >= 1 /\ j < CommittedCursor(map) => disk'[j] = map[j]
        <4> SUFFICES ASSUME NEW j \in Cells, j < CommittedCursor(map) PROVE disk'[j] = map[j]
          OBVIOUS
        <4>1. j < cursor BY <1>1, <3>2, HeaderIn DEF Cells
        <4> QED BY <3>3, <4>1
      <3>6. EndsAt(disk', s, K) BY <1>0, <1>1, <3>1, <3>4, <3>5, EndsCarry
      <3> QED BY <3>6
    <2> QED BY <2>1, <2>2 DEF Close
  <1>3. Layout'
    BY <1>0, <1>1, <1>2, SameHistory
  <1> QED BY <1>1, <1>3 DEF LInv, HeaderWritten, RecoversPrefix, CommittedSurvives

\* Recovery reads back exactly the records below the header.
LEMMA RecoverLayout == ASSUME IInv, LInv, Recover PROVE LInv'
  <1> USE Constants
  <1>0. PICK s : /\ Starts(s)
                 /\ \E K : EndsAt(map, s, K)
                 /\ \E K : EndsAt(disk, s, K)
    BY DEF LInv, Layout
  <1>1. TypeOK /\ pc' = "readonly" /\ UNCHANGED <<map, disk, appended, committed>>
    BY DEF IInv, Recover
  <1>2. PICK K : EndsAt(map, s, K) BY <1>0
  <1>3. map \in [Cells -> Nat] /\ appended \in Seq(Seq(Nat)) /\ committed \in 0..Len(appended) /\ Len(appended) \in Nat
    BY <1>1 DEF TypeOK
  <1>4. K \in Nat /\ K <= Len(appended) /\ committed <= K
    BY <1>2, <1>3 DEF EndsAt
  <1>5. read' = SubSeq(appended, 1, K)
    BY <1>0, <1>1, <1>2, <1>3, ReadBack DEF Recover
  <1>6. Len(read') = K /\ read' \in Seq(Seq(Nat))
    BY <1>3, <1>4, <1>5, SubSeqProperties
  <1>7. IsPrefix(read, appended)'
    <2>1. SubSeq(read', 1, Len(read')) = read'
      BY <1>6, SubSeqProperties
    <2> QED BY <1>1, <1>4, <1>5, <1>6, <2>1 DEF IsPrefix
  <1>8. Layout'
    BY <1>0, <1>1, SameHistory
  <1> QED BY <1>1, <1>4, <1>6, <1>7, <1>8 DEF LInv, HeaderWritten, RecoversPrefix, CommittedSurvives

\* Crashes, a failed commit and a second opening keep what the images hold.
LEMMA StopLayout ==
  ASSUME IInv, LInv, CommitFails \/ MachineCrash \/ ProcessKilled \/ RecoverAgain PROVE LInv'
  <1>0. PICK s : /\ Starts(s)
                 /\ pc \in {"open", "header"} => cursor = s[Len(appended) + 1] /\ RecordsIn(map, s, Len(appended))
                 /\ \E K : EndsAt(map, s, K)
                 /\ \E K : EndsAt(disk, s, K)
    BY DEF LInv, Layout
  <1>1. /\ UNCHANGED <<disk, cursor, appended, committed, read>> /\ map' \in {map, disk}
        /\ pc' = "down" \/ (pc = "header" /\ pc' = "open" /\ map' = map)
    BY DEF CommitFails, MachineCrash, ProcessKilled, RecoverAgain
  <1>2. Layout'
    BY <1>0, <1>1, SameHistory
  <1> QED BY <1>1, <1>2 DEF LInv, HeaderWritten, RecoversPrefix, CommittedSurvives

\* A new journal holds no record.
LEMMA EmptyLayout == Init => LInv
  <1> SUFFICES ASSUME Init PROVE LInv
    OBVIOUS
  <1> USE Constants DEF Init
  <1>1. PICK s : s = [k \in 1..1 |-> 1]
    OBVIOUS
  <1>2. Len(appended) = 0
    OBVIOUS
  <1>3. Starts(s)
    BY <1>1, <1>2 DEF Starts, HeaderLen
  <1>4. \A m : RecordsIn(m, s, 0)
    BY DEF RecordsIn
  <1>5. EndsAt(map, s, 0) /\ EndsAt(disk, s, 0)
    BY <1>1, <1>2, <1>4 DEF EndsAt, CommittedCursor, HeaderLen
  <1>6. Layout
    BY <1>1, <1>2, <1>3, <1>4, <1>5 DEF Layout, HeaderLen
  <1> QED BY <1>6 DEF LInv, HeaderWritten, RecoversPrefix, CommittedSurvives

\* The records stay where they were written and recovery reads them back, in
\* every reachable state.
THEOREM LayoutInvariant == Spec => []LInv
  <1>1. Init => LInv BY EmptyLayout
  <1>2. IInv /\ LInv /\ [Next]_vars => LInv'
    <2> SUFFICES ASSUME IInv, LInv, [Next]_vars PROVE LInv' OBVIOUS
    <2>1. CASE UNCHANGED vars
      <3>1. Layout'
        <4>1. PICK s : /\ Starts(s)
                       /\ pc \in {"open", "header"} => cursor = s[Len(appended) + 1] /\ RecordsIn(map, s, Len(appended))
                       /\ \E K : EndsAt(map, s, K)
                       /\ \E K : EndsAt(disk, s, K)
          BY DEF LInv, Layout
        <4> QED BY <2>1, <4>1, SameHistory DEF vars
      <3> QED BY <2>1, <3>1 DEF vars, LInv, HeaderWritten, RecoversPrefix, CommittedSurvives
    <2>2. CASE Create
      <3>1. Init' BY <2>2 DEF Create, Init, HeaderLen, Cells
      <3>2. Init' => LInv' BY EmptyLayout, PTL
      <3> QED BY <3>1, <3>2
    <2> QED BY <2>1, <2>2, AppendLayout, CommitDataLayout, CommitHeaderLayout, WriteBackLayout,
               CloseLayout, RecoverLayout, StopLayout DEF Next
  <1> QED BY <1>1, <1>2, Invariant, PTL DEF Spec

\* Recovery is sound (journal.rs, commit, open_existing and iter_records):
\* wherever the machine or the process stopped, and whatever the kernel had
\* written back, it replays a prefix of the appended records, none torn or
\* invented, and at least the ones a successful commit covered.
THEOREM RecoveryIsSound == Spec => []RecoverySound
  <1>1. IInv /\ LInv => RecoverySound BY DEF IInv, LInv, RecoverySound
  <1> QED BY <1>1, Invariant, LayoutInvariant, PTL
=============================================================================
