----------------------- MODULE ContractInboundProofs -----------------------
(***************************************************************************)
(* What the START_QUEUE / BigNo window of match-contract guarantees, for   *)
(* every set of orders and symbols, every channel capacity and page size,  *)
(* any number of restarts and any message the queue delivers again.        *)
(*                                                                         *)
(* The invariant follows one order number through the process: in the      *)
(* topic (once, before its cancellation), in the rows read (in increasing  *)
(* order, none skipped), in restored, in its channel, in the book.         *)
(***************************************************************************)
EXTENDS ContractInbound, TLAPS

\* The values of the variables, more exactly than TypeOK says, with every
\* message in the topic and in the channel of its symbol.
Types ==
    /\ db \in [Orders -> {"none", "open", "closed"}]
    /\ invalid \in InvalidSets /\ unsent \subseteq Orders /\ results \subseteq Orders
    /\ topic \in [Symbols -> Seq(Messages)] /\ queue \in [Symbols -> Seq(Messages)]
    /\ offset \in [Symbols -> Nat] /\ \A s \in Symbols : offset[s] <= Len(topic[s])
    /\ phase \in {"down", "fetching", "restoring", "consuming"}
    /\ cursor \in Orders \cup {0} /\ rows \in Seq(Orders)
    /\ restored \subseteq Orders /\ bigNo \in Orders \cup {0} /\ active \in BOOLEAN
    /\ ttl \in {"armed", "map_cleared", "big_no_cleared", "cleared"}
    /\ handling \in [Symbols -> {{}} \cup {{h} : h \in [msg : Messages, active : BOOLEAN]}]
    /\ \A s \in Symbols : Len(queue[s]) <= QueueCapacity
    /\ book \subseteq Orders /\ runs \in [Orders -> Nat]
    /\ known \in [open : SUBSET Orders, closed : SUBSET Orders]
    /\ given \subseteq Messages /\ overflow \subseteq given /\ early \in BOOLEAN
    /\ crashes \in 0 .. MaxCrashes
    /\ \A s \in Symbols : \A i \in 1 .. Len(topic[s]) : SymbolOf[topic[s][i].no] = s
    /\ \A s \in Symbols : \A i \in 1 .. Len(queue[s]) : SymbolOf[queue[s][i].no] = s

\* The i-th message of its topic is the place message of n, or its cancellation.
PlaceAt(n, i) == i \in 1 .. Len(topic[SymbolOf[n]]) /\ topic[SymbolOf[n]][i] = Place(n)
RevokeAt(n, i) == i \in 1 .. Len(topic[SymbolOf[n]]) /\ topic[SymbolOf[n]][i] = Revoke(n)

\* The order service: numbers are committed from below, and each committed one
\* has exactly one place message, unsent or in the topic, ahead of any
\* cancellation.
Sent ==
    /\ \A m, n \in Orders : m < n /\ db[m] = "none" => db[n] = "none"
    /\ \A n \in unsent : db[n] # "none"
    /\ \A n \in Orders : db[n] = "none" \/ n \in unsent => \A i \in Nat : ~PlaceAt(n, i)
    /\ \A n \in Orders : db[n] # "none" /\ n \notin unsent => \E i \in Nat : PlaceAt(n, i)
    /\ \A n \in Orders : \A i, j \in Nat : PlaceAt(n, i) /\ PlaceAt(n, j) => i = j
    /\ \A n \in Orders : \A i \in Nat : RevokeAt(n, i) => \E j \in 1 .. (i - 1) : PlaceAt(n, j)

\* Only committed numbers are read, queued, resting or reported.
Committed ==
    /\ \A n \in results \cup book \cup known.open : db[n] # "none"
    /\ \A s \in Symbols : \A i \in 1 .. Len(queue[s]) : db[queue[s][i].no] # "none"

\* What each phase of the process finds.
Phases ==
    /\ \A s \in Symbols : \A h \in handling[s] :
          /\ phase = "consuming" /\ offset[s] >= 1 /\ h.msg = topic[s][offset[s]]
          /\ ttl = "armed" => h.active
    /\ phase # "consuming" => ttl = "armed" /\ given = {}
    /\ ttl = "armed" => active /\ ~early
    /\ ttl # "armed" => restored = {}
    /\ phase \in {"down", "fetching"} =>
          /\ restored = {} /\ bigNo = 0 /\ book = {}
          /\ \A n \in Orders : runs[n] = 0
          /\ \A s \in Symbols : queue[s] = <<>>
    /\ phase = "down" => rows = <<>> /\ cursor = 0 /\ known.open = {}
    /\ phase = "consuming" => rows = <<>>

\* The rows read: increasing, at most the cursor, no open order skipped.
Fetched ==
    /\ \A i, j \in 1 .. Len(rows) : i < j => rows[i] < rows[j]
    /\ \A i \in 1 .. Len(rows) : rows[i] \in known.open
    /\ \A n \in known.open : n <= cursor
    /\ cursor # 0 => db[cursor] # "none"
    /\ \A n \in Orders : n <= cursor /\ db[n] = "open" => n \in known.open
    /\ \A n \in known.closed : db[n] = "closed" /\ n \notin known.open

InRows(n) == \E i \in 1 .. Len(rows) : rows[i] = n

\* The window: while it is open every valid row read is in it or still to be
\* restored, and BigNo is at least each of them; once it closes, and did not
\* close early, every message it was there for has been decided on.
Window ==
    /\ \A n \in restored : n \in known.open /\ n \notin invalid /\ n <= bigNo
    /\ bigNo <= cursor
    /\ ttl = "armed" => \A n \in known.open \ invalid : n \in restored \/ InRows(n)
    /\ ~early /\ ttl # "armed" =>
          \A n \in Orders : (\E m \in known.open \ invalid : m >= n) => Consumed(n)

\* n is executed or queued at most once, and what is executed or queued while
\* its message is still to come is in the window.
Once ==
    ~early => \A n \in Orders :
        /\ runs[n] <= 1
        /\ Queued(Place(n)) => runs[n] = 0
        /\ \A i, j \in 1 .. Len(queue[SymbolOf[n]]) :
              queue[SymbolOf[n]][i] = Place(n) /\ queue[SymbolOf[n]][j] = Place(n) => i = j
        /\ InRows(n) => runs[n] = 0 /\ ~Queued(Place(n))
        /\ (runs[n] > 0 \/ Queued(Place(n))) /\ ~Consumed(n) => ttl = "armed" /\ n \in restored

\* Every valid row read is still to be restored, queued, resting, or finished.
Live ==
    \A n \in known.open \ invalid :
        InRows(n) \/ n \in book \/ Queued(Place(n)) \/ n \in results \/ db[n] = "closed"

\* OpenOrdersAreLive, from the end of the fetch on.
LiveFromFetch ==
    phase \in {"restoring", "consuming"} =>
        \A n \in Orders \ invalid :
            db[n] = "open" /\ n \notin results /\ Consumed(n) =>
                InRows(n) \/ n \in book \/ Queued(Place(n)) \/ Place(n) \in overflow

\* A cancellation that was decided on follows its placement, in the channel too.
Revoked ==
    \A n \in Orders :
        /\ Revoke(n) \in given => Consumed(n)
        /\ Revoke(n) \in given \ overflow /\ n \notin invalid =>
              \/ \E i \in 1 .. Len(queue[SymbolOf[n]]) :
                    /\ queue[SymbolOf[n]][i] = Revoke(n)
                    /\ \A j \in 1 .. Len(queue[SymbolOf[n]]) : queue[SymbolOf[n]][j] = Place(n) => j < i
              \/ ~Queued(Place(n)) /\ n \notin book

IInv ==
    /\ Types /\ Sent /\ Committed /\ Phases /\ Fetched /\ Window /\ Once /\ ClosedNotRevived
    /\ Live /\ LiveFromFetch /\ Revoked
-----------------------------------------------------------------------------
(* Messages and constants.                                                 *)

\* What the assumptions on the constants say, in the form the proofs use.
LEMMA Constants ==
    /\ Orders \subseteq Nat /\ 0 \notin Orders /\ IsFiniteSet(Orders)
    /\ \A n \in Orders : SymbolOf[n] \in Symbols
    /\ InvalidSets \subseteq SUBSET Orders
    /\ QueueCapacity \in Nat /\ QueueCapacity > 0 /\ PageSize \in Nat /\ PageSize > 0
    /\ MaxCrashes \in Nat
  BY ShapeAssumption, SizeAssumption DEF ShapeAssumption, SizeAssumption

\* Messages are told apart by their kind and number.
LEMMA MessageFacts ==
    /\ \A n \in Orders : /\ Place(n) \in Messages /\ Place(n).no = n /\ Place(n).kind = "place"
                         /\ Revoke(n) \in Messages /\ Revoke(n).no = n /\ Revoke(n).kind = "revoke"
    /\ \A m, n \in Orders : Place(m) # Revoke(n)
    /\ \A m, n \in Orders : Place(m) = Place(n) => m = n
    /\ \A m, n \in Orders : Revoke(m) = Revoke(n) => m = n
    /\ \A x \in Messages :
          /\ x.no \in Orders /\ SymbolOf[x.no] \in Symbols
          /\ x.kind = "place" => x = Place(x.no)
          /\ x.kind = "revoke" => x = Revoke(x.no)
          /\ x.kind \in {"place", "revoke"}
  <1>1. \A n \in Orders : Place(n) \in Messages /\ Revoke(n) \in Messages BY DEF Messages
  <1>2. \A n \in Orders : /\ Place(n).no = n /\ Place(n).kind = "place"
                          /\ Revoke(n).no = n /\ Revoke(n).kind = "revoke" BY DEF Place, Revoke
  <1>3. \A x \in Messages : \E n \in Orders : x = Place(n) \/ x = Revoke(n) BY DEF Messages
  <1>4. \A n \in Orders : SymbolOf[n] \in Symbols BY Constants
  <1> QED BY <1>1, <1>2, <1>3, <1>4

\* An element of a sequence over S is in S.
LEMMA SeqElement ==
  ASSUME NEW S, NEW q \in Seq(S), NEW i \in 1 .. Len(q)
  PROVE  q[i] \in S
  OBVIOUS

\* A sequence that is not empty has a first position.
LEMMA SeqNonempty ==
  ASSUME NEW S, NEW q \in Seq(S), q # <<>>
  PROVE  Len(q) \in Nat /\ Len(q) >= 1
  OBVIOUS

\* The first element of a sequence and the rest.
LEMMA SeqHeadTail ==
  ASSUME NEW S, NEW q \in Seq(S), q # <<>>
  PROVE  /\ Head(q) \in S /\ Tail(q) \in Seq(S) /\ Len(Tail(q)) = Len(q) - 1
         /\ \A i \in 1 .. Len(Tail(q)) : Tail(q)[i] = q[i + 1]
  OBVIOUS

\* One sequence after the other.
LEMMA SeqConcat ==
  ASSUME NEW S, NEW p \in Seq(S), NEW q \in Seq(S)
  PROVE  /\ p \o q \in Seq(S) /\ Len(p \o q) = Len(p) + Len(q)
         /\ \A i \in 1 .. Len(p) + Len(q) : (p \o q)[i] = IF i <= Len(p) THEN p[i] ELSE q[i - Len(p)]
  OBVIOUS

\* Appending to a sequence keeps its elements and adds one at the end.
LEMMA AppendFacts ==
  ASSUME NEW S, NEW q \in Seq(S), NEW x \in S
  PROVE  /\ Append(q, x) \in Seq(S) /\ Len(Append(q, x)) = Len(q) + 1 /\ Len(q) \in Nat
         /\ \A i \in 1 .. Len(q) : Append(q, x)[i] = q[i]
         /\ Append(q, x)[Len(q) + 1] = x
  OBVIOUS

\* The positions of a prefix are positions of the whole.
LEMMA RangeGrows == \A a, b \in Nat : a <= b => \A i \in 1 .. a : i \in Nat /\ i \in 1 .. b
  OBVIOUS
\* The order of numbers is transitive.
LEMMA LeqTrans == \A a, b, c \in Nat : b >= a /\ b <= c => a <= c
  OBVIOUS
\* A position past the end is none of the positions.
LEMMA NotBeyond == \A n \in Nat : n + 1 \notin 1 .. n
  OBVIOUS
\* A number is at least zero.
LEMMA AtLeastZero == \A n \in Nat : 0 <= n
  OBVIOUS
\* A count is zero or positive.
LEMMA ZeroOrMore == \A r \in Nat : r = 0 \/ r > 0
  OBVIOUS
\* The empty sequence has no position.
LEMMA EmptyRange == \A i : i \notin 1 .. Len(<<>>)
  OBVIOUS

\* The first element of a sequence that is not empty.
LEMMA SeqFirst == ASSUME NEW S, NEW q \in Seq(S), q # <<>> PROVE 1 \in 1 .. Len(q) /\ Head(q) = q[1]
  OBVIOUS

\* What the invariant says of each topic and channel and of the numbers.
LEMMA SymbolFacts ==
  ASSUME IInv
  PROVE  /\ queue \in [Symbols -> Seq(Messages)] /\ topic \in [Symbols -> Seq(Messages)]
         /\ offset \in [Symbols -> Nat]
         /\ \A s \in Symbols : /\ queue[s] \in Seq(Messages) /\ Len(queue[s]) \in Nat
                               /\ Len(queue[s]) <= QueueCapacity
                               /\ topic[s] \in Seq(Messages) /\ Len(topic[s]) \in Nat
                               /\ offset[s] \in Nat /\ offset[s] <= Len(topic[s])
         /\ \A n \in Orders : n \in Nat /\ SymbolOf[n] \in Symbols
         /\ cursor \in Nat /\ bigNo \in Nat /\ cursor \in Orders \cup {0} /\ bigNo \in Orders \cup {0}
         /\ known.open \subseteq Orders
  <1>1. /\ queue \in [Symbols -> Seq(Messages)] /\ topic \in [Symbols -> Seq(Messages)]
        /\ offset \in [Symbols -> Nat]
        /\ \A s \in Symbols : Len(queue[s]) <= QueueCapacity /\ offset[s] <= Len(topic[s])
        /\ cursor \in Orders \cup {0} /\ bigNo \in Orders \cup {0}
        /\ known.open \subseteq Orders
    BY Zenon DEF IInv, Types
  <1>2. \A q \in Seq(Messages) : Len(q) \in Nat OBVIOUS
  <1>3. \A n \in Orders : n \in Nat /\ SymbolOf[n] \in Symbols BY Constants, Zenon
  <1>4. cursor \in Nat /\ bigNo \in Nat BY <1>1, <1>3
  <1> QED BY <1>1, <1>2, <1>3, <1>4, Zenon

\* The types that TypeOK asks for.
LEMMA TypesOK == Types => TypeOK
  <1> SUFFICES ASSUME Types PROVE TypeOK OBVIOUS
  <1>1. \A s \in Symbols : Range(topic[s]) \subseteq Messages /\ Range(queue[s]) \subseteq Messages
    <2> SUFFICES ASSUME NEW s \in Symbols
                 PROVE  Range(topic[s]) \subseteq Messages /\ Range(queue[s]) \subseteq Messages OBVIOUS
    <2>1. topic[s] \in Seq(Messages) /\ queue[s] \in Seq(Messages) BY DEF Types
    <2> QED BY <2>1 DEF Range
  <1>2. Range(rows) \subseteq Orders BY DEF Types, Range
  <1>3. ASSUME NEW s \in Symbols
        PROVE  handling[s] \subseteq [msg : Messages, active : BOOLEAN] /\ \A g, h \in handling[s] : g = h
    <2>0. handling[s] \in {{}} \cup {{h} : h \in [msg : Messages, active : BOOLEAN]} BY Zenon DEF Types
    <2>1. handling[s] = {} \/ \E h \in [msg : Messages, active : BOOLEAN] : handling[s] = {h} BY <2>0
    <2> QED BY <2>1
  <1> QED BY <1>1, <1>2, <1>3 DEF Types, TypeOK

\* The invariant holds before the process has started and before any order.
LEMMA InitInv == Init => IInv
  <1> SUFFICES ASSUME Init PROVE IInv OBVIOUS
  <1> USE Constants DEF Init
  <1>1. Types
    <2>1. topic \in [Symbols -> Seq(Messages)] /\ queue \in [Symbols -> Seq(Messages)] OBVIOUS
    <2>2. known \in [open : SUBSET Orders, closed : SUBSET Orders] OBVIOUS
    <2>3. handling \in [Symbols -> {{}} \cup {{h} : h \in [msg : Messages, active : BOOLEAN]}] OBVIOUS
    <2>4. rows \in Seq(Orders) /\ \A s \in Symbols : Len(topic[s]) = 0 /\ Len(queue[s]) = 0 OBVIOUS
    <2>5. offset \in [Symbols -> Nat] /\ runs \in [Orders -> Nat] /\ \A s \in Symbols : offset[s] = 0 OBVIOUS
    <2>6. \A s \in Symbols : offset[s] <= Len(topic[s]) /\ Len(queue[s]) <= QueueCapacity BY <2>4, <2>5
    <2>7. \A s \in Symbols : /\ \A i \in 1 .. Len(topic[s]) : SymbolOf[topic[s][i].no] = s
                             /\ \A i \in 1 .. Len(queue[s]) : SymbolOf[queue[s][i].no] = s BY <2>4
    <2>8. db \in [Orders -> {"none", "open", "closed"}] /\ crashes \in 0 .. MaxCrashes OBVIOUS
    <2> QED BY <2>1, <2>2, <2>3, <2>4, <2>5, <2>6, <2>7, <2>8, Zenon DEF Types
  <1>2. Sent BY DEF Sent, PlaceAt, RevokeAt
  <1>3. Phases BY DEF Phases
  <1>3a. Committed BY DEF Committed
  <1>4. Fetched BY DEF Fetched
  <1>5. Window BY DEF Window
  <1>6. Once BY MessageFacts DEF Once, Queued, InRows
  <1>7. ClosedNotRevived BY DEF ClosedNotRevived
  <1>8. Live BY DEF Live
  <1>9. LiveFromFetch BY DEF LiveFromFetch
  <1>10. Revoked BY DEF Revoked
  <1> QED BY <1>1, <1>2, <1>3, <1>3a, <1>4, <1>5, <1>6, <1>7, <1>8, <1>9, <1>10 DEF IInv
-----------------------------------------------------------------------------
(* The order service and the message queue.                                *)

\* A new number is above every number read: it is outside the window.
LEMMA CommitOrderInv == ASSUME IInv, NEW n \in Orders, CommitOrder(n) PROVE IInv'
  <1> USE Constants
  <1>0. UNCHANGED <<invalid, results, broker, bootstrap, startQueue, handling, workers, ghosts>>
    BY DEF CommitOrder
  <1>a. UNCHANGED <<invalid, results, topic, offset, phase, cursor, rows, crashes, restored, bigNo, active,
                    ttl, handling, queue, book, runs, known, given, overflow, early>>
    BY <1>0 DEF broker, bootstrap, startQueue, workers, ghosts
  <1>1. /\ db[n] = "none" /\ db' \in [Orders -> {"none", "open", "closed"}]
        /\ db'[n] = "open" /\ \A m \in Orders : m # n => db'[m] = db[m]
        /\ unsent' = unsent \cup {n} /\ \A m \in Orders : m < n => db[m] # "none"
    BY DEF CommitOrder, IInv, Types
  <1>2. Types'
    BY <1>a, <1>1, Zenon DEF IInv, Types
  <1>3. Sent'
    <2>1. \A m \in Orders, i \in Nat : (PlaceAt(m, i)' <=> PlaceAt(m, i)) /\ (RevokeAt(m, i)' <=> RevokeAt(m, i))
      BY <1>a DEF PlaceAt, RevokeAt
    <2>2. \A m \in unsent' : db'[m] # "none" BY <1>1 DEF IInv, Sent, Types
    <2>3. \A m, k \in Orders : m < k /\ db'[m] = "none" => db'[k] = "none"
      BY <1>1 DEF IInv, Sent
    <2>4. \A m \in Orders : db'[m] = "none" \/ m \in unsent' => \A i \in Nat : ~PlaceAt(m, i)
      BY <1>1 DEF IInv, Sent
    <2>5. \A m \in Orders : db'[m] # "none" /\ m \notin unsent' => \E i \in Nat : PlaceAt(m, i)
      BY <1>1 DEF IInv, Sent
    <2>6. ASSUME NEW m \in Orders, NEW i \in Nat, RevokeAt(m, i)
          PROVE  \E j \in 1 .. (i - 1) : PlaceAt(m, j)'
      <3>1. PICK j \in 1 .. (i - 1) : PlaceAt(m, j) BY <2>6 DEF IInv, Sent
      <3> QED BY <2>1, <3>1
    <2> QED BY <2>1, <2>2, <2>3, <2>4, <2>5, <2>6 DEF IInv, Sent
  <1>3a. Committed'
    <2>1. \A m \in results \cup book \cup known.open : m \in Orders BY Zenon DEF IInv, Types
    <2>2. ASSUME NEW s \in Symbols, NEW i \in 1 .. Len(queue[s]) PROVE db'[queue[s][i].no] # "none"
      <3>1. queue[s] \in Seq(Messages) BY DEF IInv, Types
      <3>2. queue[s][i].no \in Orders BY <3>1, MessageFacts
      <3>3. db[queue[s][i].no] # "none" BY DEF IInv, Committed
      <3> QED BY <1>1, <3>2, <3>3, Zenon
    <2> QED BY <1>a, <1>1, <2>1, <2>2, Zenon DEF IInv, Committed
  <1>4. Phases'
    BY <1>a DEF IInv, Phases
  <1>5. Fetched'
    <2>1. \A m \in Orders : m <= cursor => m # n
      BY <1>1 DEF IInv, Fetched, Sent, Types
    <2>2. \A m \in known.closed : m \in Orders /\ m # n BY <1>1, Zenon DEF IInv, Fetched, Types
    <2>3. cursor # 0 => db'[cursor] # "none" BY <1>1 DEF IInv, Fetched, Types
    <2>4. \A m \in Orders : m <= cursor /\ db'[m] = "open" => m \in known.open
      BY <1>1, <2>1, Zenon DEF IInv, Fetched
    <2>5. \A m \in known.closed : db'[m] = "closed" /\ m \notin known.open
      BY <1>1, <2>2, Zenon DEF IInv, Fetched
    <2> QED BY <1>a, <2>3, <2>4, <2>5 DEF IInv, Fetched
  <1>6. Window'
    BY <1>a, Zenon DEF IInv, Window, Consumed, InRows
  <1>7. Once'
    BY <1>a DEF IInv, Once, Consumed, InRows, Queued
  <1>8. ClosedNotRevived'
    BY <1>a, Zenon DEF IInv, ClosedNotRevived, Queued
  <1>9. Live'
    <2> SUFFICES ASSUME NEW m \in known.open \ invalid
                 PROVE  (InRows(m) \/ m \in book \/ Queued(Place(m)) \/ m \in results \/ db[m] = "closed")'
      BY <1>a DEF Live
    <2>1. InRows(m) \/ m \in book \/ Queued(Place(m)) \/ m \in results \/ db[m] = "closed"
      BY DEF IInv, Live
    <2>2. m \in Orders BY DEF IInv, Types
    <2> QED BY <1>a, <1>1, <2>1, <2>2, Zenon DEF InRows, Queued
  <1>10. LiveFromFetch'
    <2>1. ~Consumed(n)
      <3>1. ASSUME NEW i \in 1 .. offset[SymbolOf[n]], topic[SymbolOf[n]][i] = Place(n) PROVE FALSE
        <4>1. SymbolOf[n] \in Symbols BY SymbolFacts, Zenon
        <4>2. offset[SymbolOf[n]] \in Nat /\ Len(topic[SymbolOf[n]]) \in Nat /\ offset[SymbolOf[n]] <= Len(topic[SymbolOf[n]])
          BY <4>1, SymbolFacts, Zenon
        <4>3. i \in Nat /\ i \in 1 .. Len(topic[SymbolOf[n]]) BY <4>2, RangeGrows, Zenon
        <4>4. PlaceAt(n, i) BY <3>1, <4>3, Zenon DEF PlaceAt
        <4> QED BY <1>1, <4>3, <4>4, Zenon DEF IInv, Sent
      <3> QED BY <3>1, Zenon DEF Consumed
    <2> SUFFICES ASSUME NEW m \in Orders \ invalid, phase \in {"restoring", "consuming"},
                        db'[m] = "open", m \notin results, Consumed(m)
                 PROVE  InRows(m) \/ m \in book \/ Queued(Place(m)) \/ Place(m) \in overflow
      BY <1>a, Zenon DEF LiveFromFetch, Consumed, InRows, Queued
    <2>2. m # n BY <2>1
    <2> QED BY <1>1, <2>2, Zenon DEF IInv, LiveFromFetch
  <1>11. Revoked'
    BY <1>a, Zenon DEF IInv, Revoked, Consumed, Queued
  <1> QED BY <1>2, <1>3, <1>3a, <1>4, <1>5, <1>6, <1>7, <1>8, <1>9, <1>10, <1>11, Zenon DEF IInv

\* A message appended to a topic leaves what was there in place.
LEMMA TopicGrows ==
  ASSUME IInv, NEW n \in Orders, NEW x \in Messages, x.no = n,
         topic' = [topic EXCEPT ![SymbolOf[n]] = Append(@, x)], UNCHANGED <<offset, handling>>
  PROVE  /\ topic' \in [Symbols -> Seq(Messages)]
         /\ \A s \in Symbols : /\ Len(topic[s]) \in Nat /\ Len(topic'[s]) \in Nat /\ Len(topic[s]) <= Len(topic'[s])
                               /\ \A i \in 1 .. Len(topic[s]) : topic'[s][i] = topic[s][i]
         /\ Len(topic'[SymbolOf[n]]) = Len(topic[SymbolOf[n]]) + 1
         /\ topic'[SymbolOf[n]][Len(topic[SymbolOf[n]]) + 1] = x
         /\ \A s \in Symbols : s # SymbolOf[n] => topic'[s] = topic[s]
         /\ \A s \in Symbols : offset[s] <= Len(topic'[s])
         /\ \A s \in Symbols : \A i \in 1 .. Len(topic'[s]) : SymbolOf[topic'[s][i].no] = s
         /\ \A m \in Orders : Consumed(m)' <=> Consumed(m)
  <1> USE Constants
  <1> DEFINE t == SymbolOf[n]
  <1>1. t \in Symbols /\ topic \in [Symbols -> Seq(Messages)] /\ topic[t] \in Seq(Messages)
    BY DEF IInv, Types
  <1>2. topic'[t] = Append(topic[t], x) /\ \A s \in Symbols : s # t => topic'[s] = topic[s]
    BY <1>1
  <1>3. /\ topic'[t] \in Seq(Messages) /\ Len(topic'[t]) = Len(topic[t]) + 1 /\ Len(topic[t]) \in Nat
        /\ \A i \in 1 .. Len(topic[t]) : topic'[t][i] = topic[t][i]
        /\ topic'[t][Len(topic[t]) + 1] = x
    BY <1>1, <1>2, AppendFacts
  <1>4. topic' \in [Symbols -> Seq(Messages)]
    BY <1>1, <1>3
  <1>5. ASSUME NEW s \in Symbols
        PROVE  /\ Len(topic[s]) \in Nat /\ Len(topic'[s]) \in Nat /\ Len(topic[s]) <= Len(topic'[s])
               /\ \A i \in 1 .. Len(topic[s]) : topic'[s][i] = topic[s][i]
    <2>1. CASE s = t BY <1>3, <2>1
    <2>2. CASE s # t BY <1>1, <1>2, <2>2
    <2> QED BY <2>1, <2>2
  <1>6. \A s \in Symbols : offset[s] \in Nat /\ offset[s] <= Len(topic[s]) BY DEF IInv, Types
  <1>7. \A s \in Symbols : offset[s] <= Len(topic'[s]) BY <1>5, <1>6
  <1>8. ASSUME NEW s \in Symbols, NEW i \in 1 .. Len(topic'[s]) PROVE SymbolOf[topic'[s][i].no] = s
    <2>1. CASE i \in 1 .. Len(topic[s])
      <3>1. topic'[s][i] = topic[s][i] BY <1>5, <2>1, Zenon
      <3>2. SymbolOf[topic[s][i].no] = s BY <2>1, Zenon DEF IInv, Types
      <3> QED BY <3>1, <3>2, Zenon
    <2>2. CASE i \notin 1 .. Len(topic[s])
      <3>1. s = t BY <1>2, <2>2
      <3>2. i = Len(topic[t]) + 1 BY <1>3, <2>2, <3>1
      <3> QED BY <1>3, <3>1, <3>2
    <2> QED BY <2>1, <2>2, Zenon
  <1>9. ASSUME NEW m \in Orders PROVE Consumed(m)' <=> Consumed(m)
    <2>1. SymbolOf[m] \in Symbols OBVIOUS
    <2>2. \A i \in 1 .. offset[SymbolOf[m]] : i \in 1 .. Len(topic[SymbolOf[m]])
      BY <1>5, <1>6, <2>1
    <2>3. \A i \in 1 .. offset[SymbolOf[m]] : topic'[SymbolOf[m]][i] = topic[SymbolOf[m]][i]
      BY <1>5, <2>1, <2>2
    <2> QED BY <2>3, Zenon DEF Consumed
  <1> QED BY <1>2, <1>3, <1>4, <1>5, <1>7, <1>8, <1>9, Zenon

\* The parts of the invariant that a longer topic does not touch.
LEMMA TopicFrame ==
  ASSUME IInv, \A m \in Orders : Consumed(m)' <=> Consumed(m),
         \A s \in Symbols : /\ Len(topic[s]) \in Nat /\ Len(topic'[s]) \in Nat
                            /\ \A i \in 1 .. Len(topic[s]) : topic'[s][i] = topic[s][i],
         UNCHANGED <<db, invalid, results, offset, phase, cursor, rows, crashes, restored, bigNo, active,
                     ttl, handling, queue, book, runs, known, given, overflow, early>>
  PROVE  Committed' /\ Phases' /\ Fetched' /\ Window' /\ Once' /\ ClosedNotRevived' /\ Live' /\ LiveFromFetch' /\ Revoked'
  <1>1. Phases'
    <2>1. ASSUME NEW s \in Symbols, NEW h \in handling[s]
          PROVE  phase = "consuming" /\ offset[s] >= 1 /\ h.msg = topic'[s][offset[s]] /\ (ttl = "armed" => h.active)
      <3>1. offset[s] \in 1 .. Len(topic[s])
        <4>1. offset[s] >= 1 BY Zenon DEF IInv, Phases
        <4>2. offset[s] \in Nat /\ Len(topic[s]) \in Nat /\ offset[s] <= Len(topic[s]) BY SymbolFacts, Zenon
        <4> QED BY ONLY <4>1, <4>2
      <3> QED BY <3>1 DEF IInv, Phases
    <2> QED BY <2>1 DEF IInv, Phases
  <1>2. Fetched' BY Zenon DEF IInv, Fetched
  <1>3. Window' BY Zenon DEF IInv, Window, InRows
  <1>4. Once' BY DEF IInv, Once, InRows, Queued
  <1>5. ClosedNotRevived' BY Zenon DEF IInv, ClosedNotRevived, Queued
  <1>6. Live' BY DEF IInv, Live, InRows, Queued
  <1>7. LiveFromFetch' BY Zenon DEF IInv, LiveFromFetch, InRows, Queued
  <1>8. Revoked' BY Zenon DEF IInv, Revoked, Queued
  <1>9. Committed' BY Zenon DEF IInv, Committed
  <1> QED BY <1>9, <1>1, <1>2, <1>3, <1>4, <1>5, <1>6, <1>7, <1>8

\* Its place message is the first and only one of its topic.
LEMMA SendPlaceInv == ASSUME IInv, NEW n \in Orders, SendPlace(n) PROVE IInv'
  <1> USE Constants
  <1>0. UNCHANGED <<db, invalid, results, offset, phase, cursor, rows, crashes, restored, bigNo, active,
                    ttl, handling, queue, book, runs, known, given, overflow, early>>
    BY DEF SendPlace, bootstrap, startQueue, workers, ghosts
  <1>1. n \in unsent /\ unsent' = unsent \ {n} /\ topic' = [topic EXCEPT ![SymbolOf[n]] = Append(@, Place(n))]
    BY DEF SendPlace
  <1>a. Place(n) \in Messages /\ Place(n).no = n /\ UNCHANGED <<offset, handling>> BY <1>0, MessageFacts
  <1> DEFINE t == SymbolOf[n]
  <1>2. /\ topic' \in [Symbols -> Seq(Messages)]
        /\ \A s \in Symbols : /\ Len(topic[s]) \in Nat /\ Len(topic'[s]) \in Nat /\ Len(topic[s]) <= Len(topic'[s])
                              /\ \A i \in 1 .. Len(topic[s]) : topic'[s][i] = topic[s][i]
        /\ Len(topic'[t]) = Len(topic[t]) + 1 /\ topic'[t][Len(topic[t]) + 1] = Place(n)
        /\ \A s \in Symbols : s # t => topic'[s] = topic[s]
        /\ \A s \in Symbols : offset[s] <= Len(topic'[s])
        /\ \A s \in Symbols : \A i \in 1 .. Len(topic'[s]) : SymbolOf[topic'[s][i].no] = s
        /\ \A m \in Orders : Consumed(m)' <=> Consumed(m)
    BY <1>1, <1>a, TopicGrows, Zenon
  <1>3. Types'
    <2>1. unsent' \subseteq Orders BY <1>1 DEF IInv, Types
    <2>2. Types BY Zenon DEF IInv
    <2> QED BY <1>0, <1>2, <2>1, <2>2, Zenon DEF Types
  <1>4. Sent'
    <2>1. ASSUME NEW m \in Orders, NEW i \in Nat
          PROVE  PlaceAt(m, i)' <=> PlaceAt(m, i) \/ (m = n /\ i = Len(topic[t]) + 1)
      <3>1. SymbolOf[m] \in Symbols /\ t \in Symbols BY Zenon
      <3>2. CASE SymbolOf[m] # t BY <1>2, <3>1, <3>2, Zenon DEF PlaceAt
      <3>a. /\ Len(topic[t]) \in Nat /\ Len(topic'[t]) = Len(topic[t]) + 1
            /\ topic'[t][Len(topic[t]) + 1] = Place(n)
            /\ \A k \in 1 .. Len(topic[t]) : topic'[t][k] = topic[t][k]
        BY <1>2, <3>1, Zenon
      <3>b. Place(m) = Place(n) <=> m = n BY MessageFacts, Zenon
      <3>3. CASE SymbolOf[m] = t /\ i \in 1 .. Len(topic[t])
        <4>1. i \in 1 .. Len(topic'[t]) /\ i # Len(topic[t]) + 1 BY ONLY <3>a, <3>3
        <4> QED BY <3>a, <3>3, <4>1, Zenon DEF PlaceAt
      <3>4. CASE SymbolOf[m] = t /\ i = Len(topic[t]) + 1
        <4>1. i \in 1 .. Len(topic'[t]) /\ i \notin 1 .. Len(topic[t]) BY ONLY <3>a, <3>4
        <4> QED BY <3>a, <3>b, <3>4, <4>1, Zenon DEF PlaceAt
      <3>5. CASE SymbolOf[m] = t /\ i \notin 1 .. (Len(topic[t]) + 1)
        <4>1. i \notin 1 .. Len(topic'[t]) /\ i \notin 1 .. Len(topic[t]) /\ i # Len(topic[t]) + 1 BY ONLY <3>a, <3>5
        <4> QED BY <3>5, <4>1, Zenon DEF PlaceAt
      <3>6. i \in 1 .. Len(topic[t]) \/ i = Len(topic[t]) + 1 \/ i \notin 1 .. (Len(topic[t]) + 1) BY ONLY <3>a, i \in Nat
      <3> QED BY <3>2, <3>3, <3>4, <3>5, <3>6
    <2>2. ASSUME NEW m \in Orders, NEW i \in Nat PROVE RevokeAt(m, i)' <=> RevokeAt(m, i)
      <3>1. SymbolOf[m] \in Symbols /\ t \in Symbols OBVIOUS
      <3>2. CASE SymbolOf[m] # t BY <1>2, <3>1, <3>2 DEF RevokeAt
      <3>3. CASE SymbolOf[m] = t /\ i \in 1 .. Len(topic[t]) BY <1>2, <3>1, <3>3 DEF RevokeAt
      <3>4. CASE SymbolOf[m] = t /\ i = Len(topic[t]) + 1 BY <1>2, <3>1, <3>4, MessageFacts DEF RevokeAt
      <3>5. CASE SymbolOf[m] = t /\ i \notin 1 .. (Len(topic[t]) + 1) BY <1>2, <3>1, <3>5 DEF RevokeAt
      <3>6. i \in 1 .. Len(topic[t]) \/ i = Len(topic[t]) + 1 \/ i \notin 1 .. (Len(topic[t]) + 1) BY <1>2, <3>1
      <3> QED BY <3>2, <3>3, <3>4, <3>5, <3>6, Zenon
    <2>3. \A i \in Nat : ~PlaceAt(n, i) BY <1>1 DEF IInv, Sent
    <2>4. db[n] # "none" BY <1>1, Zenon DEF IInv, Sent
    <2>5. SymbolOf[n] \in Symbols /\ Len(topic[t]) + 1 \in Nat BY <1>2
    <2>6. ASSUME NEW m \in Orders, NEW i \in Nat, RevokeAt(m, i)
          PROVE  \E j \in 1 .. (i - 1) : PlaceAt(m, j)'
      <3>1. PICK j \in 1 .. (i - 1) : PlaceAt(m, j) BY <2>6 DEF IInv, Sent
      <3> QED BY <2>1, <3>1
    <2>7. ASSUME NEW m \in Orders, db[m] # "none", m \notin unsent'
          PROVE  \E i \in Nat : PlaceAt(m, i)'
      <3>1. CASE m = n BY <2>1, <2>5, <3>1
      <3>2. CASE m # n
        <4>1. PICK i \in Nat : PlaceAt(m, i) BY <1>1, <2>7, <3>2, Zenon DEF IInv, Sent
        <4> QED BY <2>1, <4>1
      <3> QED BY <3>1, <3>2
    <2>8. ASSUME NEW m \in Orders, db[m] = "none" \/ m \in unsent', NEW i \in Nat
          PROVE  ~PlaceAt(m, i)'
      <3>1. m # n BY <1>1, <2>4, <2>8
      <3> QED BY <1>1, <2>1, <2>8, <3>1 DEF IInv, Sent
    <2>9. ASSUME NEW m \in Orders, NEW i \in Nat, NEW j \in Nat, PlaceAt(m, i)', PlaceAt(m, j)'
          PROVE  i = j
      BY <2>1, <2>3, <2>9 DEF IInv, Sent
    <2>10. \A m \in unsent' : db[m] # "none" BY <1>1 DEF IInv, Sent
    <2> QED BY <1>0, <2>2, <2>6, <2>7, <2>8, <2>9, <2>10, Zenon DEF IInv, Sent
  <1> QED BY <1>0, <1>2, <1>3, <1>4, TopicFrame DEF IInv

\* A cancellation is sent after the place message of its order.
LEMMA SendRevokeInv == ASSUME IInv, NEW n \in Orders, SendRevoke(n) PROVE IInv'
  <1> USE Constants
  <1>0. UNCHANGED <<db, invalid, unsent, results, offset, phase, cursor, rows, crashes, restored, bigNo, active,
                    ttl, handling, queue, book, runs, known, given, overflow, early>>
    BY DEF SendRevoke, orderService, bootstrap, startQueue, workers, ghosts
  <1>1. db[n] = "open" /\ n \notin unsent /\ topic' = [topic EXCEPT ![SymbolOf[n]] = Append(@, Revoke(n))]
    BY Zenon DEF SendRevoke
  <1>a. Revoke(n) \in Messages /\ Revoke(n).no = n /\ UNCHANGED <<offset, handling>> BY <1>0, MessageFacts
  <1> DEFINE t == SymbolOf[n]
  <1>2. /\ topic' \in [Symbols -> Seq(Messages)]
        /\ \A s \in Symbols : /\ Len(topic[s]) \in Nat /\ Len(topic'[s]) \in Nat /\ Len(topic[s]) <= Len(topic'[s])
                              /\ \A i \in 1 .. Len(topic[s]) : topic'[s][i] = topic[s][i]
        /\ Len(topic'[t]) = Len(topic[t]) + 1 /\ topic'[t][Len(topic[t]) + 1] = Revoke(n)
        /\ \A s \in Symbols : s # t => topic'[s] = topic[s]
        /\ \A s \in Symbols : offset[s] <= Len(topic'[s])
        /\ \A s \in Symbols : \A i \in 1 .. Len(topic'[s]) : SymbolOf[topic'[s][i].no] = s
        /\ \A m \in Orders : Consumed(m)' <=> Consumed(m)
    BY <1>1, <1>a, TopicGrows, Zenon
  <1>b. /\ t \in Symbols /\ Len(topic[t]) \in Nat /\ Len(topic'[t]) = Len(topic[t]) + 1
        /\ topic'[t][Len(topic[t]) + 1] = Revoke(n)
        /\ \A k \in 1 .. Len(topic[t]) : topic'[t][k] = topic[t][k]
    BY <1>2, Zenon
  <1>3. Types'
    <2>1. Types BY DEF IInv
    <2> QED BY <1>0, <1>2, <2>1, Zenon DEF Types
  <1>4. Sent'
    <2>1. ASSUME NEW m \in Orders, NEW i \in Nat
          PROVE  RevokeAt(m, i)' <=> RevokeAt(m, i) \/ (m = n /\ i = Len(topic[t]) + 1)
      <3>1. SymbolOf[m] \in Symbols /\ t \in Symbols OBVIOUS
      <3>2. CASE SymbolOf[m] # t BY <1>2, <3>1, <3>2 DEF RevokeAt
      <3>3. CASE SymbolOf[m] = t /\ i \in 1 .. Len(topic[t])
        <4>1. i \in 1 .. Len(topic'[t]) /\ i # Len(topic[t]) + 1 BY ONLY <1>b, <3>3
        <4> QED BY <1>b, <3>3, <4>1, Zenon DEF RevokeAt
      <3>4. CASE SymbolOf[m] = t /\ i = Len(topic[t]) + 1
        <4>1. i \in 1 .. Len(topic'[t]) /\ i \notin 1 .. Len(topic[t]) BY ONLY <1>b, <3>4
        <4>2. Revoke(m) = Revoke(n) <=> m = n BY MessageFacts, Zenon
        <4> QED BY <1>b, <3>4, <4>1, <4>2, Zenon DEF RevokeAt
      <3>5. CASE SymbolOf[m] = t /\ i \notin 1 .. (Len(topic[t]) + 1)
        <4>1. i \notin 1 .. Len(topic'[t]) /\ i \notin 1 .. Len(topic[t]) /\ i # Len(topic[t]) + 1 BY ONLY <1>b, <3>5
        <4> QED BY <3>5, <4>1, Zenon DEF RevokeAt
      <3>6. i \in 1 .. Len(topic[t]) \/ i = Len(topic[t]) + 1 \/ i \notin 1 .. (Len(topic[t]) + 1)
        BY ONLY <1>b, i \in Nat
      <3> QED BY <3>2, <3>3, <3>4, <3>5, <3>6
    <2>2. ASSUME NEW m \in Orders, NEW i \in Nat PROVE PlaceAt(m, i)' <=> PlaceAt(m, i)
      <3>1. SymbolOf[m] \in Symbols /\ t \in Symbols OBVIOUS
      <3>2. CASE SymbolOf[m] # t BY <1>2, <3>1, <3>2, Zenon DEF PlaceAt
      <3>3. CASE SymbolOf[m] = t /\ i \in 1 .. Len(topic[t])
        <4>1. i \in 1 .. Len(topic'[t]) BY ONLY <1>b, <3>3
        <4> QED BY <1>b, <3>3, <4>1, Zenon DEF PlaceAt
      <3>4. CASE SymbolOf[m] = t /\ i = Len(topic[t]) + 1
        <4>1. i \notin 1 .. Len(topic[t]) BY ONLY <1>b, <3>4
        <4>2. Place(m) # Revoke(n) BY MessageFacts, Zenon
        <4> QED BY <1>b, <3>4, <4>1, <4>2, Zenon DEF PlaceAt
      <3>5. CASE SymbolOf[m] = t /\ i \notin 1 .. (Len(topic[t]) + 1)
        <4>1. i \notin 1 .. Len(topic'[t]) /\ i \notin 1 .. Len(topic[t]) BY ONLY <1>b, <3>5
        <4> QED BY <3>5, <4>1, Zenon DEF PlaceAt
      <3>6. i \in 1 .. Len(topic[t]) \/ i = Len(topic[t]) + 1 \/ i \notin 1 .. (Len(topic[t]) + 1)
        BY ONLY <1>b, i \in Nat
      <3> QED BY <3>2, <3>3, <3>4, <3>5, <3>6
    <2>3. PICK k \in Nat : PlaceAt(n, k) BY <1>1 DEF IInv, Sent
    <2>4. k \in 1 .. Len(topic[t]) /\ Len(topic[t]) \in Nat BY <1>2, <2>3, Zenon DEF PlaceAt
    <2>5. ASSUME NEW m \in Orders, NEW i \in Nat, RevokeAt(m, i)'
          PROVE  \E j \in 1 .. (i - 1) : PlaceAt(m, j)'
      <3>1. CASE RevokeAt(m, i)
        <4>1. PICK j \in 1 .. (i - 1) : PlaceAt(m, j) BY <3>1 DEF IInv, Sent
        <4> QED BY <2>2, <4>1
      <3>2. CASE m = n /\ i = Len(topic[t]) + 1
        <4>1. k \in 1 .. (i - 1) BY <2>4, <3>2
        <4> QED BY <2>2, <2>3, <3>2, <4>1
      <3> QED BY <2>1, <2>5, <3>1, <3>2
    <2> QED BY <1>0, <2>2, <2>5 DEF IInv, Sent
  <1> QED BY <1>0, <1>2, <1>3, <1>4, TopicFrame, Zenon DEF IInv

\* A result closes an order: it needs no longer be live.
LEMMA ApplyResultInv == ASSUME IInv, NEW n \in Orders, ApplyResult(n) PROVE IInv'
  <1> USE Constants
  <1>0. UNCHANGED <<invalid, unsent, topic, offset, phase, cursor, rows, crashes, restored, bigNo, active,
                    ttl, handling, queue, book, runs, known, given, overflow, early>>
    BY Zenon DEF ApplyResult, broker, bootstrap, startQueue, workers, ghosts
  <1>1. /\ n \in results /\ results' = results \ {n} /\ db' \in [Orders -> {"none", "open", "closed"}]
        /\ db'[n] = "closed" /\ \A m \in Orders : m # n => db'[m] = db[m]
    BY DEF ApplyResult, IInv, Types
  <1>2. Types'
    <2>1. Types /\ results' \subseteq Orders BY <1>1, Zenon DEF IInv, Types
    <2> QED BY <1>0, <1>1, <2>1, Zenon DEF Types
  <1>3. Sent'
    <2>0. db[n] # "none" BY <1>1 DEF IInv, Committed
    <2>1. \A m \in Orders : db'[m] = "none" <=> db[m] = "none" BY <1>1, <2>0, Zenon
    <2>2. \A m \in unsent : m \in Orders BY DEF IInv, Types
    <2>3. \A m \in Orders, i \in Nat : (PlaceAt(m, i)' <=> PlaceAt(m, i)) /\ (RevokeAt(m, i)' <=> RevokeAt(m, i))
      BY <1>0 DEF PlaceAt, RevokeAt
    <2>4. ASSUME NEW m \in Orders, NEW i \in Nat, RevokeAt(m, i)
          PROVE  \E j \in 1 .. (i - 1) : PlaceAt(m, j)'
      <3>1. PICK j \in 1 .. (i - 1) : PlaceAt(m, j) BY <2>4 DEF IInv, Sent
      <3> QED BY <2>3, <3>1
    <2>5. \A m, k \in Orders : m < k /\ db'[m] = "none" => db'[k] = "none" BY <2>1 DEF IInv, Sent
    <2>6. \A m \in unsent : db'[m] # "none" BY <2>1, <2>2, Zenon DEF IInv, Sent
    <2>7. \A m \in Orders : db'[m] = "none" \/ m \in unsent => \A i \in Nat : ~PlaceAt(m, i)
      BY <2>1 DEF IInv, Sent
    <2>8. \A m \in Orders : db'[m] # "none" /\ m \notin unsent => \E i \in Nat : PlaceAt(m, i)
      BY <2>1, Zenon DEF IInv, Sent
    <2> QED BY <1>0, <2>3, <2>4, <2>5, <2>6, <2>7, <2>8 DEF IInv, Sent
  <1>a. \A m \in results \cup book \cup known.open \cup known.closed : m \in Orders BY DEF IInv, Types
  <1>3a. Committed'
    <2>2. ASSUME NEW s \in Symbols, NEW i \in 1 .. Len(queue[s]) PROVE db'[queue[s][i].no] # "none"
      <3>1. queue[s] \in Seq(Messages) BY DEF IInv, Types
      <3>2. queue[s][i].no \in Orders BY <3>1, MessageFacts
      <3>3. db[queue[s][i].no] # "none" BY DEF IInv, Committed
      <3> QED BY <1>1, <3>2, <3>3, Zenon
    <2> QED BY <1>0, <1>1, <1>a, <2>2, Zenon DEF IInv, Committed
  <1>4. Phases' BY <1>0 DEF IInv, Phases
  <1>5. Fetched'
    <2>1. cursor # 0 => db'[cursor] # "none" BY <1>1 DEF IInv, Fetched, Types
    <2>2. \A m \in Orders : m <= cursor /\ db'[m] = "open" => m \in known.open
      BY <1>1 DEF IInv, Fetched
    <2>3. \A m \in known.closed : db'[m] = "closed" /\ m \notin known.open
      BY <1>1, <1>a, Zenon DEF IInv, Fetched
    <2> QED BY <1>0, <2>1, <2>2, <2>3 DEF IInv, Fetched
  <1>6. Window' BY <1>0 DEF IInv, Window, Consumed, InRows
  <1>7. Once' BY <1>0 DEF IInv, Once, Consumed, InRows, Queued
  <1>8. ClosedNotRevived' BY <1>0 DEF IInv, ClosedNotRevived, Queued
  <1>9. Live'
    <2> SUFFICES ASSUME NEW m \in known.open \ invalid
                 PROVE  (InRows(m) \/ m \in book \/ Queued(Place(m)) \/ m \in results \/ db[m] = "closed")'
      BY <1>0 DEF Live
    <2>1. InRows(m) \/ m \in book \/ Queued(Place(m)) \/ m \in results \/ db[m] = "closed"
      BY DEF IInv, Live
    <2> QED BY <1>0, <1>1, <1>a, <2>1, Zenon DEF InRows, Queued
  <1>10. LiveFromFetch'
    <2> SUFFICES ASSUME NEW m \in Orders \ invalid, phase \in {"restoring", "consuming"},
                        db'[m] = "open", m \notin results', Consumed(m)
                 PROVE  InRows(m) \/ m \in book \/ Queued(Place(m)) \/ Place(m) \in overflow
      BY <1>0 DEF LiveFromFetch, Consumed, InRows, Queued
    <2>1. m # n BY <1>1
    <2> QED BY <1>1, <2>1, Zenon DEF IInv, LiveFromFetch
  <1>11. Revoked' BY <1>0, Zenon DEF IInv, Revoked, Consumed, Queued
  <1> QED BY <1>2, <1>3, <1>3a, <1>4, <1>5, <1>6, <1>7, <1>8, <1>9, <1>10, <1>11 DEF IInv
-----------------------------------------------------------------------------
(* The process stops, starts again and restores.                           *)

\* A stop loses everything but the order service's rows and the topics.
LEMMA StopInv == ASSUME IInv, Stop PROVE IInv'
  <1> USE Constants
  <1>0. /\ UNCHANGED <<db, invalid, unsent, results, topic>>
        /\ crashes' = crashes + 1 /\ crashes < MaxCrashes
        /\ phase' = "down" /\ cursor' = 0 /\ rows' = <<>>
        /\ restored' = {} /\ bigNo' = 0 /\ active' = TRUE /\ ttl' = "armed"
        /\ handling' = [s \in Symbols |-> {}]
        /\ queue' = [s \in Symbols |-> <<>>] /\ book' = {}
        /\ runs' = [n \in Orders |-> 0]
        /\ known' = [open |-> {}, closed |-> {}] /\ given' = {} /\ overflow' = {}
        /\ early' = FALSE
    BY Zenon DEF Stop, orderService
  <1>1. offset' \in [Symbols -> Nat] /\ \A s \in Symbols : offset'[s] <= offset[s]
    <2>1. PICK o \in [Symbols -> UNION {0 .. offset[s] : s \in Symbols}] :
             (\A s \in Symbols : o[s] <= offset[s]) /\ offset' = o
      BY Zenon DEF Stop
    <2>2. \A s \in Symbols : offset[s] \in Nat BY DEF IInv, Types
    <2>3. UNION {0 .. offset[s] : s \in Symbols} \subseteq Nat BY <2>2
    <2> QED BY <2>1, <2>3
  <1>2. Types'
    <2>1. queue' \in [Symbols -> Seq(Messages)] /\ \A s \in Symbols : Len(queue'[s]) = 0 BY <1>0
    <2>2. \A s \in Symbols : offset'[s] <= Len(topic'[s])
      <3> SUFFICES ASSUME NEW s \in Symbols PROVE offset'[s] <= Len(topic[s]) BY <1>0, Zenon
      <3>1. topic[s] \in Seq(Messages) /\ offset[s] \in Nat /\ offset[s] <= Len(topic[s]) BY DEF IInv, Types
      <3>2. offset'[s] \in Nat /\ offset'[s] <= offset[s] BY <1>1, Zenon
      <3> QED BY <3>1, <3>2
    <2>3. handling' \in [Symbols -> {{}} \cup {{h} : h \in [msg : Messages, active : BOOLEAN]}] BY <1>0, Zenon
    <2>4. known' \in [open : SUBSET Orders, closed : SUBSET Orders] BY <1>0, Zenon
    <2>5. crashes' \in 0 .. MaxCrashes BY <1>0 DEF IInv, Types
    <2>6. rows' \in Seq(Orders) /\ runs' \in [Orders -> Nat] BY <1>0
    <2>7. \A s \in Symbols : Len(queue'[s]) <= QueueCapacity BY <2>1
    <2>8. \A s \in Symbols : \A i \in 1 .. Len(queue'[s]) : SymbolOf[queue'[s][i].no] = s BY <2>1
    <2>9. Types BY Zenon DEF IInv
    <2> QED BY <1>0, <1>1, <2>1, <2>2, <2>3, <2>4, <2>5, <2>6, <2>7, <2>8, <2>9, Zenon DEF Types
  <1>3. Sent' BY <1>0 DEF IInv, Sent, PlaceAt, RevokeAt
  <1>4. Committed' BY <1>0 DEF IInv, Committed
  <1>5. Phases' BY <1>0, Zenon DEF Phases
  <1>6. Fetched' BY <1>0 DEF Fetched
  <1>7. Window' BY <1>0 DEF Window
  <1>8. Once' BY <1>0, MessageFacts DEF Once, Queued, InRows
  <1>9. ClosedNotRevived' BY <1>0, Zenon DEF ClosedNotRevived
  <1>10. Live' BY <1>0, Zenon DEF Live
  <1>11. LiveFromFetch' BY <1>0, Zenon DEF LiveFromFetch
  <1>12. Revoked' BY <1>0 DEF Revoked
  <1> QED BY <1>2, <1>3, <1>4, <1>5, <1>6, <1>7, <1>8, <1>9, <1>10, <1>11, <1>12 DEF IInv

\* The rows that are closed now are the ones that must not come back.
LEMMA BeginBootstrapInv == ASSUME IInv, BeginBootstrap PROVE IInv'
  <1> USE Constants
  <1>0. /\ UNCHANGED <<db, invalid, unsent, results, topic, offset, cursor, rows, crashes, restored, bigNo,
                       active, ttl, handling, queue, book, runs, given, overflow, early>>
        /\ phase = "down" /\ phase' = "fetching"
        /\ known' = [known EXCEPT !.closed = {n \in Orders : db[n] = "closed"}]
    BY DEF BeginBootstrap, orderService, broker, startQueue, workers
  <1>1. /\ known' \in [open : SUBSET Orders, closed : SUBSET Orders]
        /\ known'.open = known.open /\ known'.closed = {n \in Orders : db[n] = "closed"}
    BY <1>0, Zenon DEF IInv, Types
  <1>2. Types'
    <2>1. Types BY DEF IInv
    <2> QED BY <1>0, <1>1, <2>1, Zenon DEF Types
  <1>3. Sent' BY <1>0 DEF IInv, Sent, PlaceAt, RevokeAt
  <1>4. Committed' BY <1>0, <1>1 DEF IInv, Committed
  <1>5. Phases' BY <1>0, <1>1 DEF IInv, Phases
  <1>6. Fetched' BY <1>0, <1>1 DEF IInv, Fetched, Phases
  <1>7. Window' BY <1>0, <1>1, Zenon DEF IInv, Window, Consumed, InRows
  <1>8. Once' BY <1>0 DEF IInv, Once, Consumed, InRows, Queued
  <1>9. ClosedNotRevived' BY <1>0, <1>1 DEF IInv, ClosedNotRevived, Phases, Queued
  <1>10. Live' BY <1>0, <1>1 DEF IInv, Live, InRows, Queued
  <1>11. LiveFromFetch' BY <1>0, Zenon DEF LiveFromFetch
  <1>12. Revoked' BY <1>0, Zenon DEF IInv, Revoked, Consumed, Queued
  <1> QED BY <1>2, <1>3, <1>4, <1>5, <1>6, <1>7, <1>8, <1>9, <1>10, <1>11, <1>12 DEF IInv

\* A page is a sequence of open orders above the cursor, in increasing order,
\* that skips none; it is empty when there are none.
LEMMA PageFacts ==
  ASSUME IInv, NEW page \in EntrustPages
  PROVE  /\ page \in Seq(Orders)
         /\ \A i \in 1 .. Len(page) : db[page[i]] = "open" /\ page[i] > cursor
         /\ \A i, j \in 1 .. Len(page) : i < j => page[i] < page[j]
         /\ \A n \in Orders : db[n] = "open" /\ n > cursor =>
               (\E i \in 1 .. Len(page) : page[i] = n) \/ (\A i \in 1 .. Len(page) : page[i] < n)
         /\ page = <<>> => \A n \in Orders : db[n] = "open" => n <= cursor
  <1> USE Constants
  <1> DEFINE above == {n \in Orders : db[n] = "open" /\ n > cursor}
  <1>0. cursor \in Nat BY DEF IInv, Types
  <1>1. PICK k \in 0 .. PageSize : page \in [1 .. k -> Orders] BY DEF EntrustPages
  <1>2. /\ \A i \in DOMAIN page : page[i] \in above
        /\ \A i, j \in DOMAIN page : i < j => page[i] < page[j]
        /\ \A n \in above \ Range(page) : Len(page) = PageSize /\ \A i \in DOMAIN page : page[i] < n
    BY DEF EntrustPages, EntrustPage
  <1>3. k \in Nat /\ page \in Seq(Orders) /\ Len(page) = k /\ DOMAIN page = 1 .. Len(page) BY <1>1
  <1>4. ASSUME page = <<>>, NEW n \in Orders, db[n] = "open" PROVE n <= cursor
    <2>1. Len(page) = 0 /\ Range(page) = {} BY <1>3, <1>4 DEF Range
    <2>2. n \notin above BY <1>2, <2>1
    <2> QED BY <1>0, <1>4, <2>2
  <1>5. \A i \in 1 .. Len(page) : page[i] \in above BY <1>2, <1>3, Zenon
  <1>6. ASSUME NEW n \in above, \A i \in 1 .. Len(page) : page[i] # n
        PROVE  \A i \in 1 .. Len(page) : page[i] < n
    <2>1. n \notin Range(page) BY <1>3, <1>6 DEF Range
    <2> QED BY <1>2, <1>3, <2>1, Zenon
  <1> QED BY <1>2, <1>3, <1>4, <1>5, <1>6, Zenon

\* fetch_all_entrusts: the next page continues the rows, or there is none left.
LEMMA FetchPageInv == ASSUME IInv, FetchPage PROVE IInv'
  <1> USE Constants
  <1>0. /\ UNCHANGED <<db, invalid, unsent, results, topic, offset, crashes, restored, bigNo,
                       active, ttl, handling, queue, book, runs, given, overflow, early>>
        /\ phase = "fetching"
    BY DEF FetchPage, orderService, broker, startQueue, workers
  <1>c. \A n \in Orders : n \in Nat OBVIOUS
  <1>a. Types /\ known.open \in SUBSET Orders /\ known.closed \in SUBSET Orders /\ cursor \in Nat
    <2>1. Types /\ cursor \in Orders \cup {0} BY Zenon DEF IInv, Types
    <2>2. known \in [open : SUBSET Orders, closed : SUBSET Orders] BY Zenon DEF IInv, Types
    <2> QED BY <1>c, <2>1, <2>2
  <1>b. /\ restored = {} /\ bigNo = 0 /\ book = {} /\ ttl = "armed" /\ active /\ ~early /\ given = {}
        /\ \A n \in Orders : runs[n] = 0
        /\ \A s \in Symbols : queue[s] = <<>> /\ handling[s] = {}
    BY <1>0 DEF IInv, Phases
  <1>1. PICK page \in EntrustPages :
          \/ page = <<>> /\ phase' = "restoring" /\ UNCHANGED <<cursor, rows, known>>
          \/ /\ page # <<>> /\ cursor' = page[Len(page)] /\ rows' = rows \o page
             /\ known' = [known EXCEPT !.open = @ \cup Range(page)] /\ UNCHANGED phase
    BY Zenon DEF FetchPage
  <1>3. Sent' BY <1>0, Zenon DEF IInv, Sent, PlaceAt, RevokeAt
  <1>4. CASE page = <<>>
    <2>0. phase' = "restoring" /\ UNCHANGED <<cursor, rows, known>> BY <1>1, <1>4
    <2>1. Types' BY <1>0, <1>a, <2>0, Zenon DEF Types
    <2>2. Committed' BY <1>0, <2>0, Zenon DEF IInv, Committed
    <2>3. Phases' BY <1>0, <1>b, <2>0, Zenon DEF Phases
    <2>4. Fetched' BY <1>0, <2>0, Zenon DEF IInv, Fetched
    <2>5. Window' BY <1>0, <2>0 DEF IInv, Window, Consumed, InRows
    <2>6. Once' BY <1>0, <2>0, Zenon DEF IInv, Once, Consumed, InRows, Queued
    <2>7. ClosedNotRevived' BY <1>0, <2>0, Zenon DEF IInv, ClosedNotRevived, Queued
    <2>8. Live' BY <1>0, <2>0, Zenon DEF IInv, Live, InRows, Queued
    <2>9. LiveFromFetch'
      <3> SUFFICES ASSUME NEW m \in Orders \ invalid, db[m] = "open", m \notin results
                   PROVE  InRows(m) \/ m \in book \/ Queued(Place(m))
        BY <1>0, <2>0, Zenon DEF LiveFromFetch, InRows, Queued
      <3>1. m <= cursor BY <1>4, PageFacts, Zenon
      <3>2. m \in known.open BY <3>1, Zenon DEF IInv, Fetched
      <3> QED BY <3>2, Zenon DEF IInv, Live
    <2>10. Revoked' BY <1>0, <2>0 DEF IInv, Revoked, Consumed, Queued
    <2> QED BY <1>3, <2>1, <2>2, <2>3, <2>4, <2>5, <2>6, <2>7, <2>8, <2>9, <2>10, Zenon DEF IInv
  <1>5. CASE page # <<>>
    <2>0. /\ cursor' = page[Len(page)] /\ rows' = rows \o page /\ phase' = phase
          /\ known' = [known EXCEPT !.open = @ \cup Range(page)]
      BY <1>1, <1>5, Zenon
    <2>1. /\ page \in Seq(Orders)
          /\ \A i \in 1 .. Len(page) : db[page[i]] = "open" /\ page[i] > cursor
          /\ \A i, j \in 1 .. Len(page) : i < j => page[i] < page[j]
          /\ \A n \in Orders : db[n] = "open" /\ n > cursor =>
                (\E i \in 1 .. Len(page) : page[i] = n) \/ (\A i \in 1 .. Len(page) : page[i] < n)
      BY PageFacts
    <2> DEFINE k == Len(page)
    <2>2. k \in Nat /\ k >= 1 /\ DOMAIN page = 1 .. k /\ cursor' = page[k] /\ page[k] \in Orders
          /\ page[k] \in Nat /\ page[k] > cursor /\ k \in 1 .. Len(page) /\ db[page[k]] = "open"
      <3>1. k \in Nat /\ DOMAIN page = 1 .. k BY <2>1
      <3>2. k >= 1 BY <1>5, <2>1, <3>1, SeqNonempty
      <3>3. k \in 1 .. Len(page) BY <3>1, <3>2
      <3>4. page[k] \in Orders /\ page[k] \in Nat BY <1>c, <2>1, <3>3, SeqElement, Zenon
      <3> QED BY <2>0, <2>1, <3>1, <3>2, <3>3, <3>4, Zenon
    <2>3. /\ known' \in [open : SUBSET Orders, closed : SUBSET Orders] /\ known'.closed = known.closed
          /\ known'.open = known.open \cup {page[i] : i \in 1 .. k}
      <3>1. Range(page) = {page[i] : i \in 1 .. k} BY <2>2, Zenon DEF Range
      <3>2. \A i \in 1 .. k : page[i] \in Orders BY <2>1
      <3>3. known \in [open : SUBSET Orders, closed : SUBSET Orders] BY <1>a DEF Types
      <3>4. known'.open = known.open \cup Range(page) /\ known'.closed = known.closed BY <2>0, <3>3, Zenon
      <3>5. Range(page) \in SUBSET Orders BY <3>1, <3>2
      <3>6. known' = [open |-> known.open \cup Range(page), closed |-> known.closed] BY <2>0, <3>3, Zenon
      <3> QED BY <1>a, <3>1, <3>4, <3>5, <3>6, Zenon
    <2>4. /\ rows \in Seq(Orders) /\ Len(rows) \in Nat /\ rows' \in Seq(Orders) /\ Len(rows') = Len(rows) + k
          /\ \A i \in 1 .. Len(rows) : rows'[i] = rows[i]
          /\ \A i \in 1 .. k : rows'[Len(rows) + i] = page[i]
          /\ \A i \in 1 .. Len(rows') : i \in 1 .. Len(rows) \/ (i - Len(rows) \in 1 .. k /\ rows'[i] = page[i - Len(rows)])
      <3>1. rows \in Seq(Orders) /\ Len(rows) \in Nat BY <1>a DEF Types
      <3>2. rows' \in Seq(Orders) /\ Len(rows') = Len(rows) + k BY <2>0, <2>1, <3>1, SeqConcat
      <3>3. \A i \in 1 .. Len(rows) : rows'[i] = rows[i] BY <2>0, <2>1, <3>1, SeqConcat
      <3>4. \A i \in 1 .. (Len(rows) + k) : i > Len(rows) => rows'[i] = page[i - Len(rows)]
        BY <2>0, <2>1, <3>1, SeqConcat
      <3>5. ASSUME NEW i \in 1 .. k PROVE rows'[Len(rows) + i] = page[i]
        <4>1. Len(rows) + i \in 1 .. (Len(rows) + k) /\ Len(rows) + i > Len(rows) /\ (Len(rows) + i) - Len(rows) = i
          BY <2>2, <3>1
        <4> QED BY <3>4, <4>1, Zenon
      <3>6. ASSUME NEW i \in 1 .. Len(rows'), i \notin 1 .. Len(rows)
            PROVE  i - Len(rows) \in 1 .. k /\ rows'[i] = page[i - Len(rows)]
        <4>1. i \in 1 .. (Len(rows) + k) /\ i > Len(rows) /\ i - Len(rows) \in 1 .. k
          BY <2>2, <3>1, <3>2, <3>6
        <4> QED BY <3>4, <4>1, Zenon
      <3> QED BY <3>1, <3>2, <3>3, <3>5, <3>6, Zenon
    <2> HIDE DEF k
    <2>5. Types'
      <3>1. cursor' \in Orders \cup {0} BY <2>2, Zenon
      <3> QED BY <1>0, <1>a, <2>0, <2>3, <2>4, <3>1, Zenon DEF Types
    <2>6. Committed' BY <1>0, <2>1, <2>3 DEF IInv, Committed, k
    <2>7. Phases' BY <1>0, <1>b, <2>0, Zenon DEF Phases
    <2>8. ASSUME NEW m \in Orders PROVE InRows(m) => InRows(m)'
      <3> SUFFICES ASSUME NEW i \in 1 .. Len(rows), rows[i] = m PROVE InRows(m)' BY Zenon DEF InRows
      <3>1. i \in 1 .. Len(rows') BY <2>2, <2>4
      <3> QED BY <2>4, <3>1, Zenon DEF InRows
    <2>9. ASSUME NEW i \in 1 .. k PROVE InRows(page[i])'
      <3>1. Len(rows) + i \in 1 .. Len(rows') BY <2>2, <2>4
      <3> QED BY <2>4, <3>1, Zenon DEF InRows
    <2>10. Fetched'
      <3>1. ASSUME NEW i \in 1 .. Len(rows'), NEW j \in 1 .. Len(rows'), i < j PROVE rows'[i] < rows'[j]
        <4>1. CASE i \in 1 .. Len(rows) /\ j \in 1 .. Len(rows)
          BY <2>4, <3>1, <4>1, Zenon DEF IInv, Fetched
        <4>2. CASE i \in 1 .. Len(rows) /\ j \notin 1 .. Len(rows)
          <5>1. rows[i] \in Orders /\ rows[i] <= cursor BY <2>4, <4>2 DEF IInv, Fetched
          <5>2. PICK l \in 1 .. k : rows'[j] = page[l] BY <2>4, <4>2, Zenon
          <5>3. page[l] \in Orders /\ page[l] > cursor BY <2>1 DEF k
          <5>4. rows'[i] \in Nat /\ page[l] \in Nat BY <1>c, <2>4, <4>2, <5>1, <5>3, Zenon
          <5>5. rows'[i] <= cursor BY <2>4, <4>2, <5>1, Zenon
          <5> QED BY <1>a, <5>2, <5>3, <5>4, <5>5
        <4>3. CASE i \notin 1 .. Len(rows)
          <5>1. j \notin 1 .. Len(rows) BY <2>4, <3>1, <4>3
          <5>2. i - Len(rows) \in 1 .. k /\ rows'[i] = page[i - Len(rows)] BY <2>4, <4>3, Zenon
          <5>3. j - Len(rows) \in 1 .. k /\ rows'[j] = page[j - Len(rows)] BY <2>4, <5>1, Zenon
          <5>4. i - Len(rows) < j - Len(rows) BY <2>4, <3>1
          <5> QED BY <2>1, <5>2, <5>3, <5>4 DEF k
        <4> QED BY <4>1, <4>2, <4>3, Zenon
      <3>2. ASSUME NEW i \in 1 .. Len(rows') PROVE rows'[i] \in known'.open
        <4>1. CASE i \in 1 .. Len(rows) BY <2>3, <2>4, <4>1, Zenon DEF IInv, Fetched
        <4>2. CASE i \notin 1 .. Len(rows) BY <2>3, <2>4, <4>2
        <4> QED BY <4>1, <4>2, Zenon
      <3>3. ASSUME NEW n \in known'.open PROVE n <= cursor'
        <4>1. CASE n \in known.open
          <5>1. n \in Nat /\ n <= cursor BY <1>a, <4>1, Zenon DEF IInv, Fetched
          <5> QED BY <1>a, <2>2, <5>1
        <4>2. ASSUME NEW i \in 1 .. k, n = page[i] PROVE n <= cursor'
          <5>1. CASE i = k
            <6>1. n = page[k] BY <4>2, <5>1, Zenon
            <6> QED BY <2>2, <6>1
          <5>2. CASE i # k
            <6>1. i < k BY <2>2, <5>2
            <6>2. page[i] < page[k] BY <2>1, <2>2, <6>1 DEF k
            <6>3. page[i] \in Nat BY <1>c, <2>1, <2>2, SeqElement, Zenon DEF k
            <6> QED BY <2>2, <4>2, <6>2, <6>3
          <5> QED BY <5>1, <5>2, Zenon
        <4> QED BY <2>3, <4>1, <4>2, Zenon
      <3>4. ASSUME NEW n \in Orders, n <= cursor', db[n] = "open" PROVE n \in known'.open
        <4>1. CASE n <= cursor BY <2>3, <3>4, <4>1 DEF IInv, Fetched
        <4>2. CASE ~(n <= cursor)
          <5>0. n \in Nat /\ cursor \in Nat BY <1>a, <1>c, Zenon
          <5>1. n \in Nat /\ n > cursor BY <4>2, <5>0
          <5>2. ~(page[k] < n) BY <2>2, <3>4, <5>1
          <5>3. \E i \in 1 .. k : page[i] = n BY <2>1, <2>2, <3>4, <5>1, <5>2, Zenon DEF k
          <5> QED BY <2>3, <5>3
        <4> QED BY <4>1, <4>2, Zenon
      <3>5. \A n \in known'.closed : db[n] = "closed" /\ n \notin known'.open
        BY <2>1, <2>3, Zenon DEF IInv, Fetched, k
      <3> QED BY <1>0, <2>2, <3>1, <3>2, <3>3, <3>4, <3>5, Zenon DEF Fetched
    <2>12. ASSUME NEW n \in known'.open \ invalid PROVE InRows(n)'
      <3>1. CASE n \in known.open
        <4>1. n \in Orders BY <1>a, <3>1, Zenon
        <4>2. InRows(n) BY <1>b, <3>1, Zenon DEF IInv, Window
        <4> QED BY <2>8, <4>1, <4>2, Zenon
      <3>2. ASSUME NEW i \in 1 .. k, n = page[i] PROVE InRows(n)'
        BY <2>9, <3>2, Zenon
      <3> QED BY <2>3, <3>1, <3>2
    <2>13. Window'
      <3>1. bigNo' <= cursor' BY <1>0, <1>b, <2>2
      <3>2. restored' = {} /\ ttl' = "armed" BY <1>0, <1>b, Zenon
      <3>3. invalid' = invalid BY <1>0, Zenon
      <3> QED BY <2>12, <3>1, <3>2, <3>3, Zenon DEF Window
    <2>14. \A m \in Messages : Queued(m)' <=> Queued(m) BY <1>0, Zenon DEF Queued
    <2>15. ASSUME NEW m \in Orders PROVE ~Queued(Place(m)) /\ ~Queued(Place(m))'
      <3>1. SymbolOf[m] \in Symbols /\ Place(m).no = m BY MessageFacts, Zenon
      <3>2. queue[SymbolOf[m]] = <<>> BY <1>b, <3>1, Zenon
      <3> QED BY <1>0, <3>1, <3>2 DEF Queued
    <2>16. Once'
      <3> SUFFICES ASSUME NEW n \in Orders
                   PROVE  /\ runs'[n] = 0 /\ ~Queued(Place(n))' /\ queue'[SymbolOf[n]] = <<>>
        BY DEF Once
      <3> QED BY <1>0, <1>b, <2>15, Zenon
    <2>17. ClosedNotRevived'
      <3> SUFFICES ASSUME NEW n \in known.closed PROVE runs'[n] = 0 /\ ~Queued(Place(n))'
        BY <2>3, Zenon DEF ClosedNotRevived
      <3> QED BY <1>0, <1>a, <1>b, <2>15, Zenon
    <2>18. Live' BY <1>0, <2>12 DEF Live
    <2>19. LiveFromFetch' BY <1>0, <2>0 DEF LiveFromFetch
    <2>20. Revoked' BY <1>0, <1>b, Zenon DEF Revoked
    <2> QED BY <1>3, <2>5, <2>6, <2>7, <2>10, <2>13, <2>16, <2>17, <2>18, <2>19, <2>20 DEF IInv
  <1> QED BY <1>4, <1>5

\* A message put into the channel of its symbol follows what is there.
LEMMA EnqueueFacts ==
  ASSUME IInv, NEW m \in Messages, queue' = Enqueued(m), ~Full(SymbolOf[m.no])
  PROVE  /\ queue' \in [Symbols -> Seq(Messages)]
         /\ \A s \in Symbols : Len(queue[s]) \in Nat /\ Len(queue'[s]) \in Nat /\ Len(queue'[s]) <= QueueCapacity
         /\ \A s \in Symbols : \A i \in 1 .. Len(queue[s]) :
               i \in 1 .. Len(queue'[s]) /\ queue'[s][i] = queue[s][i]
         /\ \A s \in Symbols : \A i \in 1 .. Len(queue'[s]) :
               \/ i \in 1 .. Len(queue[s])
               \/ s = SymbolOf[m.no] /\ i = Len(queue[s]) + 1 /\ queue'[s][i] = m
         /\ Len(queue[SymbolOf[m.no]]) + 1 \in 1 .. Len(queue'[SymbolOf[m.no]])
         /\ queue'[SymbolOf[m.no]][Len(queue[SymbolOf[m.no]]) + 1] = m
         /\ \A s \in Symbols : \A i \in 1 .. Len(queue'[s]) : SymbolOf[queue'[s][i].no] = s
         /\ \A x \in Messages : Queued(x)' <=> Queued(x) \/ x = m
  <1> USE Constants
  <1> DEFINE t == SymbolOf[m.no]
  <1>1. /\ t \in Symbols /\ queue \in [Symbols -> Seq(Messages)] /\ queue[t] \in Seq(Messages)
        /\ \A s \in Symbols : Len(queue[s]) \in Nat /\ Len(queue[s]) <= QueueCapacity
    BY MessageFacts, SymbolFacts, Zenon
  <1>2. queue'[t] = Append(queue[t], m) /\ \A s \in Symbols : s # t => queue'[s] = queue[s]
    BY <1>1, Zenon DEF Enqueued
  <1>3. /\ queue'[t] \in Seq(Messages) /\ Len(queue'[t]) = Len(queue[t]) + 1
        /\ \A i \in 1 .. Len(queue[t]) : queue'[t][i] = queue[t][i]
        /\ queue'[t][Len(queue[t]) + 1] = m
    BY <1>1, <1>2, AppendFacts
  <1>4. queue' \in [Symbols -> Seq(Messages)]
    BY <1>1, <1>3, Zenon DEF Enqueued
  <1>5. Len(queue'[t]) <= QueueCapacity BY <1>1, <1>3 DEF Full
  <1> HIDE DEF t
  <1>6. \A s \in Symbols : Len(queue'[s]) \in Nat /\ Len(queue'[s]) <= QueueCapacity
    BY <1>1, <1>2, <1>3, <1>5
  <1>7. ASSUME NEW s \in Symbols, NEW i \in 1 .. Len(queue[s])
        PROVE  i \in 1 .. Len(queue'[s]) /\ queue'[s][i] = queue[s][i]
    <2>1. CASE s = t BY <1>1, <1>3, <2>1
    <2>2. CASE s # t BY <1>2, <2>2, Zenon
    <2> QED BY <2>1, <2>2, Zenon
  <1>8. ASSUME NEW s \in Symbols, NEW i \in 1 .. Len(queue'[s]), i \notin 1 .. Len(queue[s])
        PROVE  s = t /\ i = Len(queue[s]) + 1 /\ queue'[s][i] = m
    <2>1. s = t BY <1>2, <1>8, Zenon
    <2>2. i = Len(queue[s]) + 1 BY <1>1, <1>3, <1>8, <2>1
    <2> QED BY <1>3, <2>1, <2>2, Zenon
  <1>9. Len(queue[t]) + 1 \in 1 .. Len(queue'[t]) BY <1>1, <1>3
  <1>10. ASSUME NEW s \in Symbols, NEW i \in 1 .. Len(queue'[s]) PROVE SymbolOf[queue'[s][i].no] = s
    <2>0. \A j \in 1 .. Len(queue[s]) : SymbolOf[queue[s][j].no] = s BY Zenon DEF IInv, Types
    <2>1. CASE i \in 1 .. Len(queue[s]) BY <1>7, <2>0, <2>1, Zenon
    <2>2. CASE i \notin 1 .. Len(queue[s]) BY <1>8, <2>2, Zenon DEF t
    <2> QED BY <2>1, <2>2, Zenon
  <1>11. ASSUME NEW x \in Messages PROVE Queued(x)' <=> Queued(x) \/ x = m
    <2>1. SymbolOf[x.no] \in Symbols BY MessageFacts, Zenon
    <2>2. Queued(x) => Queued(x)' BY <1>7, <2>1, Zenon DEF Queued
    <2>3. x = m => Queued(x)' BY <1>3, <1>9, Zenon DEF Queued, t
    <2>4. Queued(x)' => Queued(x) \/ x = m BY <1>7, <1>8, <2>1 DEF Queued
    <2> QED BY <2>2, <2>3, <2>4, Zenon
  <1> QED BY <1>1, <1>3, <1>4, <1>6, <1>7, <1>8, <1>9, <1>10, <1>11, Zenon DEF t

\* Taking the first row leaves the others, still in increasing order.
LEMMA RowTaken ==
  ASSUME IInv, rows # <<>>, rows' = Tail(rows)
  PROVE  /\ rows' \in Seq(Orders) /\ Head(rows) \in Orders /\ InRows(Head(rows))
         /\ Head(rows) \in known.open
         /\ \A i \in 1 .. Len(rows') : rows'[i] \in known.open
         /\ \A i, j \in 1 .. Len(rows') : i < j => rows'[i] < rows'[j]
         /\ \A x \in Orders : InRows(x)' <=> InRows(x) /\ x # Head(rows)
  <1> USE Constants
  <1>0. \A n \in Orders : n \in Nat BY Zenon
  <1>1. rows \in Seq(Orders) /\ Len(rows) \in Nat BY DEF IInv, Types
  <1>2. /\ Head(rows) \in Orders /\ rows' \in Seq(Orders) /\ Len(rows') = Len(rows) - 1
        /\ \A i \in 1 .. Len(rows') : rows'[i] = rows[i + 1]
    BY <1>1, SeqHeadTail
  <1>3. Len(rows) >= 1 BY <1>1, SeqNonempty, Zenon
  <1>4. 1 \in 1 .. Len(rows) /\ Head(rows) = rows[1] BY <1>1, <1>3
  <1>5. \A i \in 1 .. Len(rows') : i + 1 \in 1 .. Len(rows) /\ 1 < i + 1 BY <1>1, <1>2
  <1>6. \A i, j \in 1 .. Len(rows) : i < j => rows[i] < rows[j] BY DEF IInv, Fetched
  <1>7. \A i \in 1 .. Len(rows) : rows[i] \in known.open /\ rows[i] \in Orders /\ rows[i] \in Nat
    <2>1. \A i \in 1 .. Len(rows) : rows[i] \in Orders BY <1>1, SeqElement, Zenon
    <2> QED BY <1>0, <2>1, Zenon DEF IInv, Fetched
  <1>8. ASSUME NEW i \in 1 .. Len(rows'), NEW j \in 1 .. Len(rows'), i < j PROVE rows'[i] < rows'[j]
    <2>1. i + 1 \in 1 .. Len(rows) /\ j + 1 \in 1 .. Len(rows) /\ i + 1 < j + 1 BY <1>2, <1>5, <1>8
    <2> QED BY <1>2, <1>6, <2>1, Zenon
  <1>9. ASSUME NEW x \in Orders PROVE InRows(x)' <=> InRows(x) /\ x # Head(rows)
    <2>1. ASSUME NEW i \in 1 .. Len(rows'), rows'[i] = x PROVE InRows(x) /\ x # Head(rows)
      <3>1. i + 1 \in 1 .. Len(rows) /\ 1 < i + 1 /\ rows[i + 1] = x BY <1>2, <1>5, <2>1, Zenon
      <3>2. rows[1] < rows[i + 1] BY <1>4, <1>6, <3>1, Zenon
      <3>3. rows[1] \in Nat /\ x \in Nat /\ rows[1] < x BY <1>4, <1>7, <3>1, <3>2, Zenon
      <3>4. x # rows[1] BY <3>3
      <3> QED BY <1>4, <3>1, <3>4, Zenon DEF InRows
    <2>2. ASSUME NEW i \in 1 .. Len(rows), rows[i] = x, x # Head(rows) PROVE InRows(x)'
      <3>1. i # 1 BY <1>4, <2>2, Zenon
      <3>2. i - 1 \in 1 .. Len(rows') /\ (i - 1) + 1 = i BY <1>1, <1>2, <3>1
      <3>3. rows'[i - 1] = x BY <1>2, <2>2, <3>2, Zenon
      <3> QED BY <3>2, <3>3, Zenon DEF InRows
    <2> QED BY <2>1, <2>2, Zenon DEF InRows
  <1>10. InRows(Head(rows)) BY <1>4, Zenon DEF InRows
  <1>11. \A i \in 1 .. Len(rows') : rows'[i] \in known.open BY <1>2, <1>5, <1>7, Zenon
  <1> QED BY <1>2, <1>4, <1>7, <1>8, <1>9, <1>10, <1>11

\* handle_restore_order: the row leaves the list for the channel and the window.
LEMMA RestoreOrderInv == ASSUME IInv, RestoreOrder PROVE IInv'
  <1> USE Constants
  <1> DEFINE n == Head(rows)
  <1>0. /\ phase = "restoring" /\ rows # <<>>
        /\ \/ /\ n \in invalid /\ rows' = Tail(rows)
              /\ UNCHANGED <<orderService, broker, phase, cursor, crashes, startQueue, handling, workers, ghosts>>
           \/ /\ n \notin invalid /\ ~Full(SymbolOf[n]) /\ queue' = Enqueued(Place(n)) /\ RecordRestored(n)
              /\ rows' = Tail(rows)
              /\ UNCHANGED <<orderService, broker, phase, cursor, crashes, handling, book, runs, ghosts>>
           \/ Stop
    BY Zenon DEF RestoreOrder
  <1> HIDE DEF n
  <1>a. /\ ttl = "armed" /\ active /\ ~early /\ given = {}
        /\ \A s \in Symbols : handling[s] = {}
    BY <1>0 DEF IInv, Phases
  <1>b. known.open \subseteq Orders /\ known.closed \subseteq Orders /\ Types BY Zenon DEF IInv, Types
  <1>1. CASE Stop BY <1>1, StopInv
  <1>2. ASSUME rows' = Tail(rows)
        PROVE  /\ rows' \in Seq(Orders) /\ n \in Orders /\ InRows(n) /\ n \in known.open
               /\ \A i \in 1 .. Len(rows') : rows'[i] \in known.open
               /\ \A i, j \in 1 .. Len(rows') : i < j => rows'[i] < rows'[j]
               /\ \A x \in Orders : InRows(x)' <=> InRows(x) /\ x # n
    BY <1>0, <1>2, RowTaken, Zenon DEF n
  <1>3. CASE /\ n \in invalid /\ rows' = Tail(rows)
             /\ UNCHANGED <<orderService, broker, phase, cursor, crashes, startQueue, handling, workers, ghosts>>
    <2>0. UNCHANGED <<db, invalid, unsent, results, topic, offset, phase, cursor, crashes, restored, bigNo,
                      active, ttl, handling, queue, book, runs, known, given, overflow, early>>
      BY <1>3, Zenon DEF orderService, broker, startQueue, workers, ghosts
    <2>1. /\ rows' \in Seq(Orders) /\ n \in Orders /\ InRows(n) /\ n \in known.open
          /\ \A i \in 1 .. Len(rows') : rows'[i] \in known.open
          /\ \A i, j \in 1 .. Len(rows') : i < j => rows'[i] < rows'[j]
          /\ \A x \in Orders : InRows(x)' <=> InRows(x) /\ x # n
      BY <1>2, <1>3
    <2>2. Types' BY <1>b, <2>0, <2>1, Zenon DEF Types
    <2>3. Sent' BY <2>0, Zenon DEF IInv, Sent, PlaceAt, RevokeAt
    <2>4. Committed' BY <2>0 DEF IInv, Committed
    <2>5. Phases' BY <1>0, <2>0, Zenon DEF IInv, Phases
    <2>6. Fetched' BY <2>0, <2>1, Zenon DEF IInv, Fetched
    <2>7. Window'
      <3>1. \A m \in known.open \ invalid : m \in restored \/ InRows(m)'
        BY <1>3, <1>a, <1>b, <2>1, Zenon DEF IInv, Window
      <3> QED BY <1>a, <2>0, <3>1, Zenon DEF IInv, Window
    <2>8. Once'
      <3>1. \A m \in Orders : InRows(m)' => InRows(m) BY <2>1
      <3>2. \A m \in Orders : (Queued(Place(m))' <=> Queued(Place(m))) /\ (Consumed(m)' <=> Consumed(m))
        BY <2>0, Zenon DEF Queued, Consumed
      <3> QED BY <2>0, <3>1, <3>2, Zenon DEF IInv, Once
    <2>9. ClosedNotRevived' BY <2>0, Zenon DEF IInv, ClosedNotRevived, Queued
    <2>10. ASSUME NEW m \in Orders \ invalid, InRows(m) PROVE InRows(m)' BY <1>3, <2>1, <2>10, Zenon
    <2>11. Live'
      <3> SUFFICES ASSUME NEW m \in known.open \ invalid
                   PROVE  (InRows(m) \/ m \in book \/ Queued(Place(m)) \/ m \in results \/ db[m] = "closed")'
        BY <2>0, Zenon DEF Live
      <3>1. InRows(m) \/ m \in book \/ Queued(Place(m)) \/ m \in results \/ db[m] = "closed"
        BY Zenon DEF IInv, Live
      <3>2. m \in Orders \ invalid BY <1>b, Zenon
      <3> QED BY <2>0, <2>10, <3>1, <3>2, Zenon DEF Queued
    <2>12. LiveFromFetch'
      <3> SUFFICES ASSUME NEW m \in Orders \ invalid, db[m] = "open", m \notin results, Consumed(m)
                   PROVE  (InRows(m) \/ m \in book \/ Queued(Place(m)) \/ Place(m) \in overflow)'
        BY <2>0, Zenon DEF LiveFromFetch, Consumed
      <3>1. InRows(m) \/ m \in book \/ Queued(Place(m)) \/ Place(m) \in overflow
        BY <1>0 DEF IInv, LiveFromFetch
      <3> QED BY <2>0, <2>10, <3>1 DEF Queued
    <2>13. Revoked' BY <1>a, <2>0, Zenon DEF Revoked
    <2> QED BY <2>2, <2>3, <2>4, <2>5, <2>6, <2>7, <2>8, <2>9, <2>11, <2>12, <2>13 DEF IInv
  <1>4. CASE /\ n \notin invalid /\ ~Full(SymbolOf[n]) /\ queue' = Enqueued(Place(n)) /\ RecordRestored(n)
             /\ rows' = Tail(rows)
             /\ UNCHANGED <<orderService, broker, phase, cursor, crashes, handling, book, runs, ghosts>>
    <2>0. /\ UNCHANGED <<db, invalid, unsent, results, topic, offset, phase, cursor, crashes,
                         active, ttl, handling, book, runs, known, given, overflow, early>>
          /\ restored' = restored \cup {n} /\ bigNo' = (IF n > bigNo THEN n ELSE bigNo)
      BY <1>4 DEF orderService, broker, ghosts, RecordRestored
    <2>1. /\ rows' \in Seq(Orders) /\ n \in Orders /\ InRows(n) /\ n \in known.open
          /\ \A i \in 1 .. Len(rows') : rows'[i] \in known.open
          /\ \A i, j \in 1 .. Len(rows') : i < j => rows'[i] < rows'[j]
          /\ \A x \in Orders : InRows(x)' <=> InRows(x) /\ x # n
      BY <1>2, <1>4, Zenon
    <2>2. Place(n) \in Messages /\ Place(n).no = n BY <2>1, MessageFacts, Zenon
    <2>3. /\ queue' \in [Symbols -> Seq(Messages)]
          /\ \A s \in Symbols : Len(queue[s]) \in Nat /\ Len(queue'[s]) \in Nat /\ Len(queue'[s]) <= QueueCapacity
          /\ \A s \in Symbols : \A i \in 1 .. Len(queue[s]) :
                i \in 1 .. Len(queue'[s]) /\ queue'[s][i] = queue[s][i]
          /\ \A s \in Symbols : \A i \in 1 .. Len(queue'[s]) :
                \/ i \in 1 .. Len(queue[s])
                \/ s = SymbolOf[n] /\ i = Len(queue[s]) + 1 /\ queue'[s][i] = Place(n)
          /\ \A s \in Symbols : \A i \in 1 .. Len(queue'[s]) : SymbolOf[queue'[s][i].no] = s
          /\ \A x \in Messages : Queued(x)' <=> Queued(x) \/ x = Place(n)
      <3>1. PICK x \in Messages : x = Place(n) /\ x.no = n BY <2>2, Zenon
      <3>2. queue' = Enqueued(x) /\ ~Full(SymbolOf[x.no]) BY <1>4, <3>1, Zenon
      <3>3. /\ queue' \in [Symbols -> Seq(Messages)]
            /\ \A s \in Symbols : Len(queue[s]) \in Nat /\ Len(queue'[s]) \in Nat /\ Len(queue'[s]) <= QueueCapacity
            /\ \A s \in Symbols : \A i \in 1 .. Len(queue[s]) :
                  i \in 1 .. Len(queue'[s]) /\ queue'[s][i] = queue[s][i]
            /\ \A s \in Symbols : \A i \in 1 .. Len(queue'[s]) :
                  \/ i \in 1 .. Len(queue[s])
                  \/ s = SymbolOf[x.no] /\ i = Len(queue[s]) + 1 /\ queue'[s][i] = x
            /\ \A s \in Symbols : \A i \in 1 .. Len(queue'[s]) : SymbolOf[queue'[s][i].no] = s
            /\ \A y \in Messages : Queued(y)' <=> Queued(y) \/ y = x
        BY <3>2, EnqueueFacts, Zenon
      <3>4. ASSUME NEW s \in Symbols, NEW i \in 1 .. Len(queue'[s]), i \notin 1 .. Len(queue[s])
            PROVE  s = SymbolOf[n] /\ i = Len(queue[s]) + 1 /\ queue'[s][i] = Place(n)
        BY <3>1, <3>3, <3>4, Zenon
      <3>5. \A y \in Messages : Queued(y)' <=> Queued(y) \/ y = Place(n) BY <3>1, <3>3, Zenon
      <3> QED BY <3>3, <3>4, <3>5, Zenon
    <2>4. bigNo \in Nat /\ bigNo' \in Orders \cup {0} /\ bigNo' >= bigNo /\ bigNo' >= n /\ (bigNo' = bigNo \/ bigNo' = n)
      <3>1. bigNo \in Orders \cup {0} /\ bigNo \in Nat /\ n \in Nat BY <2>1, SymbolFacts, Zenon
      <3>3. bigNo' \in {bigNo, n} /\ \A y \in {bigNo, n} : bigNo' >= y BY <2>0, <3>1
      <3> QED BY <2>1, <3>1, <3>3, Zenon
    <2>5. Types'
      <3>1. restored' \subseteq Orders BY <1>b, <2>0, <2>1, Zenon DEF Types
      <3> QED BY <1>b, <2>0, <2>1, <2>3, <2>4, <3>1, Zenon DEF Types
    <2>6. Sent' BY <2>0, Zenon DEF IInv, Sent, PlaceAt, RevokeAt
    <2>7. Committed'
      <3>1. ASSUME NEW s \in Symbols, NEW i \in 1 .. Len(queue'[s]) PROVE db[queue'[s][i].no] # "none"
        <4>0. db[n] # "none" /\ \A j \in 1 .. Len(queue[s]) : db[queue[s][j].no] # "none"
          BY <2>1, Zenon DEF IInv, Committed
        <4>1. CASE i \in 1 .. Len(queue[s])
          <5>1. queue'[s][i] = queue[s][i] BY <2>3, <4>1, Zenon
          <5> QED BY <4>0, <4>1, <5>1, Zenon
        <4>2. CASE i \notin 1 .. Len(queue[s]) BY <2>2, <2>3, <4>0, <4>2, Zenon
        <4> QED BY <4>1, <4>2, Zenon
      <3> QED BY <2>0, <3>1, Zenon DEF IInv, Committed
    <2>8. Phases' BY <1>0, <2>0, Zenon DEF IInv, Phases
    <2>9. Fetched' BY <2>0, <2>1, Zenon DEF IInv, Fetched
    <2>10. Window'
      <3>0. \A m \in Orders : m \in Nat OBVIOUS
      <3>1. n <= cursor /\ bigNo <= cursor BY <2>1, Zenon DEF IInv, Fetched, Window
      <3>2. bigNo' <= cursor' BY <2>0, <2>4, <3>1, Zenon
      <3>3. ASSUME NEW m \in restored' PROVE m \in known.open /\ m \notin invalid /\ m <= bigNo'
        <4>1. CASE m = n BY <1>4, <2>1, <2>4, <3>0, <4>1, Zenon
        <4>2. CASE m \in restored
          <5>1. m \in known.open /\ m \notin invalid /\ m <= bigNo BY <4>2 DEF IInv, Window
          <5>2. m \in Nat BY <1>b, <3>0, <5>1, Zenon
          <5>3. bigNo' \in Nat BY <2>4, <3>0
          <5> QED BY <2>4, <5>1, <5>2, <5>3
        <4> QED BY <2>0, <4>1, <4>2, Zenon
      <3>4. \A m \in known.open \ invalid : m \in restored' \/ InRows(m)'
        BY <1>a, <1>b, <2>0, <2>1, Zenon DEF IInv, Window
      <3> QED BY <1>a, <2>0, <3>2, <3>3, <3>4, Zenon DEF Window
    <2>11. \A m \in Orders : Consumed(m)' <=> Consumed(m) BY <2>0 DEF Consumed
    <2>12. runs[n] = 0 /\ ~Queued(Place(n)) BY <1>a, <2>1, Zenon DEF IInv, Once
    <2>13. \A m \in Orders : Queued(Place(m))' <=> Queued(Place(m)) \/ m = n BY <2>1, <2>3, MessageFacts, Zenon
    <2>14. Once'
      <3> SUFFICES ASSUME NEW m \in Orders
                   PROVE /\ runs[m] <= 1
                         /\ Queued(Place(m))' => runs[m] = 0
                         /\ \A i, j \in 1 .. Len(queue'[SymbolOf[m]]) :
                               queue'[SymbolOf[m]][i] = Place(m) /\ queue'[SymbolOf[m]][j] = Place(m) => i = j
                         /\ InRows(m)' => runs[m] = 0 /\ ~Queued(Place(m))'
                         /\ (runs[m] > 0 \/ Queued(Place(m))') /\ ~Consumed(m) => ttl = "armed" /\ m \in restored'
        BY <2>0, <2>11, Zenon DEF Once
      <3>1. /\ runs[m] <= 1 /\ (Queued(Place(m)) => runs[m] = 0)
            /\ \A i, j \in 1 .. Len(queue[SymbolOf[m]]) :
                  queue[SymbolOf[m]][i] = Place(m) /\ queue[SymbolOf[m]][j] = Place(m) => i = j
            /\ InRows(m) => runs[m] = 0 /\ ~Queued(Place(m))
            /\ (runs[m] > 0 \/ Queued(Place(m))) /\ ~Consumed(m) => ttl = "armed" /\ m \in restored
        BY <1>a, Zenon DEF IInv, Once
      <3>2. SymbolOf[m] \in Symbols OBVIOUS
      <3>3. ASSUME NEW i \in 1 .. Len(queue'[SymbolOf[m]]), NEW j \in 1 .. Len(queue'[SymbolOf[m]]),
                   queue'[SymbolOf[m]][i] = Place(m), queue'[SymbolOf[m]][j] = Place(m)
            PROVE  i = j
        <4>1. CASE m = n
          <5>1. ASSUME NEW k \in 1 .. Len(queue[SymbolOf[m]]) PROVE queue'[SymbolOf[m]][k] # Place(m)
            <6>1. queue'[SymbolOf[m]][k] = queue[SymbolOf[m]][k] BY <2>3, <3>2, Zenon
            <6>2. Place(m).no = m /\ ~Queued(Place(m)) BY <2>12, <4>1, MessageFacts, Zenon
            <6>3. queue[SymbolOf[m]][k] # Place(m) BY <6>2, Zenon DEF Queued
            <6> QED BY <6>1, <6>3
          <5>2. i \notin 1 .. Len(queue[SymbolOf[m]]) /\ j \notin 1 .. Len(queue[SymbolOf[m]]) BY <3>3, <5>1, Zenon
          <5>3. i = Len(queue[SymbolOf[m]]) + 1 BY <2>3, <3>2, <5>2, Zenon
          <5>4. j = Len(queue[SymbolOf[m]]) + 1 BY <2>3, <3>2, <5>2, Zenon
          <5> QED BY <5>3, <5>4, Zenon
        <4>2. CASE m # n
          <5>1. Place(m) # Place(n) BY <2>1, <4>2, MessageFacts, Zenon
          <5>2. i \in 1 .. Len(queue[SymbolOf[m]]) /\ queue[SymbolOf[m]][i] = Place(m)
            <6>1. queue'[SymbolOf[m]][i] # Place(n) BY <3>3, <5>1, Zenon
            <6>2. i \in 1 .. Len(queue[SymbolOf[m]]) BY <2>3, <3>2, <6>1, Zenon
            <6>3. queue'[SymbolOf[m]][i] = queue[SymbolOf[m]][i] BY <2>3, <3>2, <6>2, Zenon
            <6> QED BY <3>3, <6>2, <6>3, Zenon
          <5>3. j \in 1 .. Len(queue[SymbolOf[m]]) /\ queue[SymbolOf[m]][j] = Place(m)
            <6>1. queue'[SymbolOf[m]][j] # Place(n) BY <3>3, <5>1, Zenon
            <6>2. j \in 1 .. Len(queue[SymbolOf[m]]) BY <2>3, <3>2, <6>1, Zenon
            <6>3. queue'[SymbolOf[m]][j] = queue[SymbolOf[m]][j] BY <2>3, <3>2, <6>2, Zenon
            <6> QED BY <3>3, <6>2, <6>3, Zenon
          <5> QED BY <3>1, <5>2, <5>3, Zenon
        <4> QED BY <4>1, <4>2, Zenon
      <3>4. CASE m = n BY <1>a, <2>0, <2>1, <2>12, <3>1, <3>3, <3>4, Zenon
      <3>5. CASE m # n BY <2>0, <2>1, <2>13, <3>1, <3>3, <3>5, Zenon
      <3> QED BY <3>4, <3>5, Zenon
    <2>15. ClosedNotRevived'
      <3>1. n \notin known.closed BY <2>1, Zenon DEF IInv, Fetched
      <3> QED BY <1>b, <2>0, <2>13, <3>1, Zenon DEF IInv, ClosedNotRevived
    <2>16. Live'
      <3> SUFFICES ASSUME NEW m \in known.open \ invalid
                   PROVE  (InRows(m) \/ m \in book \/ Queued(Place(m)) \/ m \in results \/ db[m] = "closed")'
        BY <2>0, Zenon DEF Live
      <3>1. InRows(m) \/ m \in book \/ Queued(Place(m)) \/ m \in results \/ db[m] = "closed"
        BY DEF IInv, Live
      <3>2. m \in Orders BY <1>b
      <3> QED BY <2>0, <2>1, <2>13, <3>1, <3>2, Zenon
    <2>17. LiveFromFetch'
      <3> SUFFICES ASSUME NEW m \in Orders \ invalid, db[m] = "open", m \notin results, Consumed(m)
                   PROVE  (InRows(m) \/ m \in book \/ Queued(Place(m)) \/ Place(m) \in overflow)'
        BY <2>0, <2>11, Zenon DEF LiveFromFetch
      <3>1. InRows(m) \/ m \in book \/ Queued(Place(m)) \/ Place(m) \in overflow
        BY <1>0 DEF IInv, LiveFromFetch
      <3> QED BY <2>0, <2>1, <2>13, <3>1, Zenon
    <2>18. Revoked' BY <1>a, <2>0, Zenon DEF Revoked
    <2> QED BY <2>5, <2>6, <2>7, <2>8, <2>9, <2>10, <2>14, <2>15, <2>16, <2>17, <2>18 DEF IInv
  <1> QED BY <1>0, <1>1, <1>3, <1>4

\* The consumers start when no row is left.
LEMMA StartConsumersInv == ASSUME IInv, StartConsumers PROVE IInv'
  <1>0. /\ UNCHANGED <<db, invalid, unsent, results, topic, offset, cursor, rows, crashes, restored, bigNo,
                       active, ttl, handling, queue, book, runs, known, given, overflow, early>>
        /\ phase = "restoring" /\ rows = <<>> /\ phase' = "consuming"
    BY DEF StartConsumers, orderService, broker, startQueue, workers, ghosts
  <1>1. Types'
    <2>1. Types BY DEF IInv
    <2> QED BY <1>0, <2>1, Zenon DEF Types
  <1>2. Sent' BY <1>0, Zenon DEF IInv, Sent, PlaceAt, RevokeAt
  <1>3. Committed' BY <1>0, Zenon DEF IInv, Committed
  <1>4. Phases' BY <1>0 DEF IInv, Phases
  <1>5. Fetched' BY <1>0, Zenon DEF IInv, Fetched
  <1>6. Window' BY <1>0 DEF IInv, Window, Consumed, InRows
  <1>7. Once' BY <1>0, Zenon DEF IInv, Once, Consumed, InRows, Queued
  <1>8. ClosedNotRevived' BY <1>0, Zenon DEF IInv, ClosedNotRevived, Queued
  <1>9. Live' BY <1>0, Zenon DEF IInv, Live, InRows, Queued
  <1>10. LiveFromFetch' BY <1>0, Zenon DEF IInv, LiveFromFetch, Consumed, InRows, Queued
  <1>11. Revoked' BY <1>0, Zenon DEF IInv, Revoked, Consumed, Queued
  <1> QED BY <1>1, <1>2, <1>3, <1>4, <1>5, <1>6, <1>7, <1>8, <1>9, <1>10, <1>11, Zenon DEF IInv
-----------------------------------------------------------------------------
(* The consumers and the window.                                           *)

\* A message in the consumer's hands is not consumed yet.
LEMMA DeliverInv == ASSUME IInv, NEW s \in Symbols, Deliver(s) PROVE IInv'
  <1> USE Constants
  <1>0. /\ UNCHANGED <<db, invalid, unsent, results, topic, phase, cursor, rows, crashes, restored, bigNo,
                       active, ttl, queue, book, runs, known, given, overflow, early>>
        /\ phase = "consuming" /\ handling[s] = {} /\ offset[s] < Len(topic[s])
    BY Zenon DEF Deliver, orderService, bootstrap, startQueue, workers, ghosts
  <1>a. Types BY Zenon DEF IInv
  <1>b. /\ offset[s] \in Nat /\ topic[s] \in Seq(Messages) /\ Len(topic[s]) \in Nat
        /\ offset[s] + 1 \in 1 .. Len(topic[s])
    <2>1. offset[s] \in Nat /\ topic[s] \in Seq(Messages) /\ Len(topic[s]) \in Nat BY SymbolFacts, Zenon
    <2> QED BY ONLY <1>0, <2>1
  <1> DEFINE x == topic[s][offset[s] + 1]
             h == [msg |-> x, active |-> active]
  <1>1. x \in Messages /\ SymbolOf[x.no] = s BY <1>a, <1>b, SeqElement, Zenon DEF Types
  <1>2. h \in [msg : Messages, active : BOOLEAN] /\ h.msg = x /\ h.active = active
    BY <1>1, <1>a, Zenon DEF Types
  <1>3. /\ offset' \in [Symbols -> Nat] /\ offset'[s] = offset[s] + 1
        /\ \A t \in Symbols : t # s => offset'[t] = offset[t]
    <2>1. offset \in [Symbols -> Nat] /\ offset' = [offset EXCEPT ![s] = offset[s] + 1]
      BY SymbolFacts, Zenon DEF Deliver
    <2>2. offset[s] + 1 \in Nat BY ONLY <1>b
    <2> QED BY <2>1, <2>2, Zenon
  <1>4. /\ handling'[s] = {h} /\ \A t \in Symbols : t # s => handling'[t] = handling[t]
        /\ handling' \in [Symbols -> {{}} \cup {{g} : g \in [msg : Messages, active : BOOLEAN]}]
    <2>1. handling' = [handling EXCEPT ![s] = {h}] BY DEF Deliver
    <2>2. handling \in [Symbols -> {{}} \cup {{g} : g \in [msg : Messages, active : BOOLEAN]}]
      BY <1>a, Zenon DEF Types
    <2>3. {h} \in {{g} : g \in [msg : Messages, active : BOOLEAN]} BY <1>2, Zenon
    <2> HIDE DEF h
    <2> QED BY <2>1, <2>2, <2>3, Zenon
  <1>5. PICK y : y = x /\ y = topic'[s][offset'[s]] BY <1>0, <1>3, Zenon
  <1>6. PICK g : g = h /\ handling'[s] = {g} /\ g.msg = y /\ g.active = active BY <1>2, <1>4, <1>5, Zenon
  <1>c. y \in Messages /\ y = topic[s][offset[s] + 1] BY <1>1, <1>5, Zenon
  <1> HIDE DEF x, h
  <1>7. Types'
    <2>0. \A t \in Symbols : offset[t] <= Len(topic[t]) BY <1>a, Zenon DEF Types
    <2>1. ASSUME NEW t \in Symbols PROVE offset'[t] <= Len(topic'[t])
      <3>1. CASE t = s
        <4>1. offset[s] + 1 <= Len(topic[s]) BY ONLY <1>b
        <4> QED BY <1>0, <1>3, <3>1, <4>1, Zenon
      <3>2. CASE t # s BY <1>0, <1>3, <2>0, <3>2, Zenon
      <3> QED BY <3>1, <3>2, Zenon
    <2> QED BY <1>0, <1>a, <1>3, <1>4, <2>1, Zenon DEF Types
  <1>8. ASSUME NEW m \in Orders PROVE Consumed(m)' <=> Consumed(m)
    <2>1. SymbolOf[m] \in Symbols OBVIOUS
    <2>2. CASE SymbolOf[m] # s BY <1>0, <1>3, <1>4, <2>1, <2>2, Zenon DEF Consumed
    <2>3. CASE SymbolOf[m] = s /\ y = Place(m)
      <3>1. ~Consumed(m)' BY <1>6, <2>3, Zenon DEF Consumed
      <3>2. PlaceAt(m, offset[s] + 1) BY <1>b, <1>c, <2>3 DEF PlaceAt
      <3>3. ASSUME NEW i \in 1 .. offset[s], topic[s][i] = Place(m) PROVE FALSE
        <4>1. i \in Nat /\ offset[s] + 1 \in Nat /\ i # offset[s] + 1 /\ i \in 1 .. Len(topic[s]) BY <1>b
        <4>2. PlaceAt(m, i) BY <2>3, <3>3, <4>1, Zenon DEF PlaceAt
        <4> QED BY <3>2, <4>1, <4>2, Zenon DEF IInv, Sent
      <3>4. ~Consumed(m) BY <2>3, <3>3 DEF Consumed
      <3> QED BY <3>1, <3>4, Zenon
    <2>4. CASE SymbolOf[m] = s /\ y # Place(m)
      <3>1. \A i \in 1 .. offset'[s] : i \in 1 .. offset[s] \/ i = offset[s] + 1 BY ONLY <1>b, <1>3
      <3>2. \A i \in 1 .. offset[s] : i \in 1 .. offset'[s] BY ONLY <1>b, <1>3
      <3>3. \A k \in handling'[s] : k.msg # Place(m) BY <1>6, <2>4
      <3> QED BY <1>0, <1>c, <2>4, <3>1, <3>2, <3>3, Zenon DEF Consumed
    <2> QED BY <2>2, <2>3, <2>4, Zenon
  <1>9. Phases'
    <2>1. ASSUME NEW t \in Symbols, NEW k \in handling'[t]
          PROVE  phase' = "consuming" /\ offset'[t] >= 1 /\ k.msg = topic'[t][offset'[t]]
                 /\ (ttl' = "armed" => k.active)
      <3>1. CASE t = s
        <4>1. k = g BY <1>6, <3>1
        <4>2. ttl = "armed" => active BY Zenon DEF IInv, Phases
        <4>3. k.msg = topic'[t][offset'[t]] BY <1>5, <1>6, <3>1, <4>1, Zenon
        <4>4. offset'[t] >= 1
          <5>1. offset[s] + 1 >= 1 BY ONLY <1>b
          <5> QED BY <1>3, <3>1, <5>1, Zenon
        <4> QED BY <1>0, <1>6, <4>1, <4>2, <4>3, <4>4, Zenon
      <3>2. CASE t # s
        <4>1. k \in handling[t] /\ offset'[t] = offset[t] BY <1>3, <1>4, <3>2, Zenon
        <4>2. offset[t] >= 1 /\ k.msg = topic[t][offset[t]] /\ (ttl = "armed" => k.active)
          BY <4>1, Zenon DEF IInv, Phases
        <4> QED BY <1>0, <4>1, <4>2, Zenon
      <3> QED BY <3>1, <3>2, Zenon
    <2> QED BY <1>0, <2>1, Zenon DEF IInv, Phases
  <1>10. Sent' BY <1>0, Zenon DEF IInv, Sent, PlaceAt, RevokeAt
  <1>11. Committed' BY <1>0, Zenon DEF IInv, Committed
  <1>12. Fetched' BY <1>0, Zenon DEF IInv, Fetched
  <1>13. Window' BY <1>0, <1>8 DEF IInv, Window, InRows
  <1>14. Once' BY <1>0, <1>8, Zenon DEF IInv, Once, InRows, Queued
  <1>15. ClosedNotRevived' BY <1>0, Zenon DEF IInv, ClosedNotRevived, Queued
  <1>16. Live' BY <1>0, Zenon DEF IInv, Live, InRows, Queued
  <1>17. LiveFromFetch' BY <1>0, <1>8, Zenon DEF IInv, LiveFromFetch, InRows, Queued
  <1>18. Revoked' BY <1>0, <1>8, Zenon DEF IInv, Revoked, Queued
  <1> QED BY <1>7, <1>9, <1>10, <1>11, <1>12, <1>13, <1>14, <1>15, <1>16, <1>17, <1>18, Zenon DEF IInv

\* The window closes.
LEMMA TtlStepInv == ASSUME IInv, TtlStep PROVE IInv'
  <1> USE Constants
  <1>0. /\ UNCHANGED <<db, invalid, unsent, results, topic, offset, phase, cursor, rows, crashes, handling,
                       queue, book, runs, known, given, overflow>>
        /\ phase = "consuming"
    BY Zenon DEF TtlStep, orderService, broker, bootstrap, workers
  <1>a. Types BY DEF IInv
  <1>b. rows = <<>> /\ \A n : ~InRows(n)
    <2>1. rows = <<>> BY <1>0, Zenon DEF IInv, Phases
    <2> QED BY <2>1, EmptyRange, Zenon DEF InRows
  <1>c. \A m \in Orders : (Consumed(m)' <=> Consumed(m)) /\ (Queued(Place(m))' <=> Queued(Place(m)))
                          /\ (InRows(m)' <=> InRows(m))
    BY <1>0, Zenon DEF Consumed, Queued, InRows
  <1>d. \A n \in Orders : n \in Nat OBVIOUS
  <1>e. known.open \subseteq Orders /\ bigNo \in Nat /\ cursor \in Nat BY SymbolFacts, Zenon
  <1>1. Sent' BY <1>0, Zenon DEF IInv, Sent, PlaceAt, RevokeAt
  <1>2. Committed' BY <1>0, Zenon DEF IInv, Committed
  <1>3. Fetched' BY <1>0 DEF IInv, Fetched
  <1>4. Live' BY <1>0, Zenon DEF IInv, Live, InRows, Queued
  <1>5. LiveFromFetch' BY <1>0, Zenon DEF IInv, LiveFromFetch, Consumed, InRows, Queued
  <1>6. Revoked' BY <1>0, Zenon DEF IInv, Revoked, Consumed, Queued
  <1>7. CASE ttl = "armed"
    <2>0. /\ restored' = {} /\ ttl' = "map_cleared" /\ early' = ~BacklogHandled /\ UNCHANGED <<bigNo, active>>
          /\ ~early
      BY <1>7 DEF TtlStep, IInv, Phases
    <2>1. Types' BY <1>0, <1>a, <2>0, Zenon DEF Types
    <2>2. Phases' BY <1>0, <1>7, <2>0, Zenon DEF IInv, Phases
    <2>3. ~early' => \A n \in Orders : n <= bigNo => Consumed(n) BY <2>0, Zenon DEF BacklogHandled, Consumed
    <2>4. \A m \in known.open \ invalid : m \in restored /\ m <= bigNo BY <1>7, <1>b, Zenon DEF IInv, Window
    <2>5. Window'
      <3>1. ASSUME ~early', NEW n \in Orders, NEW m \in known.open \ invalid, m >= n PROVE Consumed(n)'
        <4>1. n \in Nat /\ m \in Nat /\ m <= bigNo BY <1>d, <1>e, <2>4, Zenon
        <4>2. n <= bigNo BY <1>e, <3>1, <4>1, LeqTrans, Zenon
        <4> QED BY <1>c, <2>3, <3>1, <4>2, Zenon
      <3>2. bigNo' <= cursor' BY <1>0, <2>0, Zenon DEF IInv, Window
      <3> QED BY <1>0, <2>0, <3>1, <3>2, Zenon DEF Window
    <2>6. Once'
      <3>1. ASSUME ~early', NEW n \in Orders, runs[n] > 0 \/ Queued(Place(n)) PROVE Consumed(n)
        <4>1. CASE Consumed(n) BY <4>1
        <4>2. CASE n \in restored BY <2>3, <3>1, <4>2, Zenon DEF IInv, Window
        <4> QED BY <2>0, <3>1, <4>1, <4>2, Zenon DEF IInv, Once
      <3> SUFFICES ASSUME ~early', NEW m \in Orders
                   PROVE /\ runs[m] <= 1
                         /\ Queued(Place(m)) => runs[m] = 0
                         /\ \A i, j \in 1 .. Len(queue[SymbolOf[m]]) :
                               queue[SymbolOf[m]][i] = Place(m) /\ queue[SymbolOf[m]][j] = Place(m) => i = j
                         /\ InRows(m) => runs[m] = 0 /\ ~Queued(Place(m))
                         /\ (runs[m] > 0 \/ Queued(Place(m))) => Consumed(m)
        BY <1>0, <1>c, Zenon DEF Once
      <3> QED BY <2>0, <3>1, Zenon DEF IInv, Once
    <2>7. ClosedNotRevived' BY <1>0, <2>0, Zenon DEF IInv, ClosedNotRevived, Queued
    <2> QED BY <1>1, <1>2, <1>3, <1>4, <1>5, <1>6, <2>1, <2>2, <2>5, <2>6, <2>7, Zenon DEF IInv
  <1>8. CASE ttl # "armed"
    <2>0. /\ UNCHANGED <<restored, early>> /\ ttl' \in {"big_no_cleared", "cleared"}
          /\ bigNo' \in {bigNo, 0} /\ active' \in {active, FALSE} /\ restored = {}
      BY <1>8, Zenon DEF TtlStep, IInv, Phases
    <2>1. Types' BY <1>0, <1>a, <2>0, Zenon DEF Types
    <2>2. Phases' BY <1>0, <1>8, <2>0, Zenon DEF IInv, Phases
    <2>3. Window'
      <3>1. bigNo' <= cursor'
        <4>1. bigNo <= cursor BY Zenon DEF IInv, Window
        <4>2. 0 <= cursor BY <1>e, AtLeastZero, Zenon
        <4> QED BY <1>0, <2>0, <4>1, <4>2, Zenon
      <3> QED BY <1>0, <1>8, <1>c, <2>0, <3>1, Zenon DEF IInv, Window
    <2>4. Once' BY <1>0, <1>8, <1>c, <2>0, Zenon DEF IInv, Once
    <2>5. ClosedNotRevived' BY <1>0, <2>0, Zenon DEF IInv, ClosedNotRevived, Queued
    <2> QED BY <1>1, <1>2, <1>3, <1>4, <1>5, <1>6, <2>1, <2>2, <2>3, <2>4, <2>5 DEF IInv
  <1> QED BY <1>7, <1>8, Zenon

\* What Decide finds: the message is the one at the offset, so it was not
\* consumed before and is afterwards; a cancellation finds its placement consumed.
LEMMA DecideFacts ==
  ASSUME IInv, NEW s \in Symbols, NEW h \in handling[s],
         UNCHANGED <<topic, offset>>, handling' = [handling EXCEPT ![s] = {}]
  PROVE  /\ h \in [msg : Messages, active : BOOLEAN] /\ SymbolOf[h.msg.no] = s
         /\ phase = "consuming" /\ rows = <<>> /\ (ttl = "armed" => h.active)
         /\ db[h.msg.no] # "none"
         /\ handling' \in [Symbols -> {{}} \cup {{g} : g \in [msg : Messages, active : BOOLEAN]}]
         /\ handling'[s] = {} /\ \A t \in Symbols : t # s => handling'[t] = handling[t]
         /\ \A m \in Orders : h.msg = Place(m) => ~Consumed(m)
         /\ \A m \in Orders : Consumed(m)' <=> Consumed(m) \/ h.msg = Place(m)
         /\ \A m \in Orders : h.msg = Revoke(m) => Consumed(m)
  <1> USE Constants
  <1>a. Types BY DEF IInv
  <1>1. /\ phase = "consuming" /\ rows = <<>> /\ offset[s] >= 1 /\ h.msg = topic[s][offset[s]]
        /\ ttl = "armed" => h.active
    BY Zenon DEF IInv, Phases
  <1>2. offset[s] \in Nat /\ topic[s] \in Seq(Messages) /\ Len(topic[s]) \in Nat /\ offset[s] <= Len(topic[s])
    BY SymbolFacts, Zenon
  <1>3. offset[s] \in 1 .. Len(topic[s]) BY ONLY <1>1, <1>2
  <1>4. h.msg \in Messages /\ SymbolOf[h.msg.no] = s
    <2>1. topic[s][offset[s]] \in Messages BY <1>2, <1>3, SeqElement, Zenon
    <2>2. SymbolOf[topic[s][offset[s]].no] = s BY <1>3, <1>a, Zenon DEF Types
    <2> QED BY <1>1, <2>1, <2>2, Zenon
  <1>5. handling \in [Symbols -> {{}} \cup {{g} : g \in [msg : Messages, active : BOOLEAN]}] BY <1>a, Zenon DEF Types
  <1>6. h \in [msg : Messages, active : BOOLEAN] /\ handling[s] = {h}
    <2>1. handling[s] \in {{}} \cup {{g} : g \in [msg : Messages, active : BOOLEAN]} BY <1>5, Zenon
    <2> QED BY <2>1
  <1>7. /\ handling' \in [Symbols -> {{}} \cup {{g} : g \in [msg : Messages, active : BOOLEAN]}]
        /\ handling'[s] = {} /\ \A t \in Symbols : t # s => handling'[t] = handling[t]
    BY <1>5, Zenon
  <1>8. PICK x \in Messages : x = h.msg /\ x = topic[s][offset[s]] BY <1>1, <1>4, Zenon
  <1>9. ASSUME NEW m \in Orders PROVE /\ x = Place(m) => ~Consumed(m)
                                      /\ Consumed(m)' <=> Consumed(m) \/ x = Place(m)
    <2>1. SymbolOf[m] \in Symbols BY Zenon
    <2>2. CASE x = Place(m)
      <3>1. SymbolOf[m] = s BY <1>4, <1>8, <2>2, MessageFacts
      <3>2. ~Consumed(m) BY <1>8, <2>2, <3>1, Zenon DEF Consumed
      <3>3. Consumed(m)'
        <4>1. offset'[s] \in 1 .. offset'[s] /\ topic'[s][offset'[s]] = Place(m) BY <1>1, <1>2, <1>8, <2>2
        <4> QED BY <1>7, <3>1, <4>1, Zenon DEF Consumed
      <3> QED BY <2>2, <3>2, <3>3, Zenon
    <2>3. CASE x # Place(m) /\ SymbolOf[m] = s
      <3>1. \A g \in handling[s] : g.msg # Place(m) BY <1>6, <1>8, <2>3, Zenon
      <3> QED BY <1>7, <2>3, <3>1, Zenon DEF Consumed
    <2>4. CASE x # Place(m) /\ SymbolOf[m] # s BY <1>7, <2>1, <2>4, Zenon DEF Consumed
    <2> QED BY <2>2, <2>3, <2>4, Zenon
  <1>10. ASSUME NEW m \in Orders, x = Revoke(m) PROVE Consumed(m) /\ db[m] # "none"
    <2>1. SymbolOf[m] = s BY <1>4, <1>8, <1>10, MessageFacts
    <2>2. RevokeAt(m, offset[s]) BY <1>3, <1>8, <1>10, <2>1, Zenon DEF RevokeAt
    <2>3. PICK j \in 1 .. (offset[s] - 1) : PlaceAt(m, j) BY <1>2, <2>2, Zenon DEF IInv, Sent
    <2>4. j \in Nat /\ j \in 1 .. offset[s] BY ONLY <1>2, j \in 1 .. (offset[s] - 1)
    <2>5. x # Place(m) BY <1>10, MessageFacts, Zenon
    <2>6. \A g \in handling[s] : g.msg # Place(m) BY <1>6, <1>8, <2>5, Zenon
    <2>7. Consumed(m) BY <2>1, <2>3, <2>4, <2>6 DEF Consumed, PlaceAt
    <2>8. db[m] # "none" BY <2>3, <2>4 DEF IInv, Sent
    <2> QED BY <2>7, <2>8, Zenon
  <1>11. db[x.no] # "none"
    <2>1. x.no \in Orders BY MessageFacts
    <2>2. CASE x = Place(x.no)
      <3>1. PlaceAt(x.no, offset[s]) BY <1>3, <1>4, <1>8, <2>2 DEF PlaceAt
      <3> QED BY <1>2, <2>1, <3>1, Zenon DEF IInv, Sent
    <2>3. CASE x = Revoke(x.no) BY <1>10, <2>1, <2>3, Zenon
    <2> QED BY <2>2, <2>3, MessageFacts, Zenon
  <1> QED BY <1>1, <1>4, <1>6, <1>7, <1>8, <1>9, <1>10, <1>11, Zenon

\* handle_mq_order: refused, deduplicated, queued or dropped at a full channel.
LEMMA DecideInv == ASSUME IInv, NEW s \in Symbols, Decide(s) PROVE IInv'
  <1> USE Constants
  <1>1. PICK h \in handling[s] :
          /\ handling' = [handling EXCEPT ![s] = {}]
          /\ given' = given \cup {h.msg}
          /\ \/ /\ h.msg.no \in invalid \/ ShouldDedupe(h)
                /\ UNCHANGED <<queue, overflow>>
             \/ /\ h.msg.no \notin invalid /\ ~ShouldDedupe(h) /\ ~Full(s)
                /\ queue' = Enqueued(h.msg) /\ UNCHANGED overflow
             \/ /\ h.msg.no \notin invalid /\ ~ShouldDedupe(h) /\ Full(s)
                /\ overflow' = overflow \cup {h.msg} /\ UNCHANGED queue
          /\ UNCHANGED <<orderService, broker, bootstrap, startQueue, book, runs, known, early>>
    BY Zenon DEF Decide
  <1>0. UNCHANGED <<db, invalid, unsent, results, topic, offset, phase, cursor, rows, crashes, restored, bigNo,
                    active, ttl, book, runs, known, early>>
    BY <1>1 DEF orderService, broker, bootstrap, startQueue
  <1>2. /\ h \in [msg : Messages, active : BOOLEAN] /\ SymbolOf[h.msg.no] = s
        /\ phase = "consuming" /\ rows = <<>> /\ (ttl = "armed" => h.active)
        /\ db[h.msg.no] # "none"
        /\ handling' \in [Symbols -> {{}} \cup {{g} : g \in [msg : Messages, active : BOOLEAN]}]
        /\ handling'[s] = {} /\ \A t \in Symbols : t # s => handling'[t] = handling[t]
        /\ \A m \in Orders : h.msg = Place(m) => ~Consumed(m)
        /\ \A m \in Orders : Consumed(m)' <=> Consumed(m) \/ h.msg = Place(m)
        /\ \A m \in Orders : h.msg = Revoke(m) => Consumed(m)
    <2>1. UNCHANGED <<topic, offset>> /\ handling' = [handling EXCEPT ![s] = {}] BY <1>0, <1>1, Zenon
    <2> QED BY <2>1, DecideFacts, Zenon
  <1>3. PICK x \in Messages : x = h.msg /\ x.no \in Orders BY <1>2, MessageFacts
  <1>a. Types /\ known.open \subseteq Orders /\ known.closed \subseteq Orders BY Zenon DEF IInv, Types
  <1>b. \A n : ~InRows(n) /\ ~InRows(n)'
    <2>1. rows = <<>> /\ rows' = <<>> BY <1>0, <1>2, Zenon
    <2> QED BY <2>1, EmptyRange, Zenon DEF InRows
  <1>c. \A n \in Orders : n \in Nat BY Zenon
  <1>d. bigNo \in Nat /\ cursor \in Nat BY SymbolFacts, Zenon
  <1>e. /\ SymbolOf[x.no] = s /\ db[x.no] # "none"
        /\ \A m \in Orders : x = Place(m) => ~Consumed(m)
        /\ \A m \in Orders : Consumed(m)' <=> Consumed(m) \/ x = Place(m)
        /\ \A m \in Orders : x = Revoke(m) => Consumed(m)
        /\ given' = given \cup {x}
    BY <1>1, <1>2, <1>3, Zenon
  <1>4. Sent' BY <1>0, Zenon DEF IInv, Sent, PlaceAt, RevokeAt
  <1>5. Phases'
    <2>1. ASSUME NEW t \in Symbols, NEW k \in handling'[t]
          PROVE  phase' = "consuming" /\ offset'[t] >= 1 /\ k.msg = topic'[t][offset'[t]]
                 /\ (ttl' = "armed" => k.active)
      BY <1>0, <1>2, Zenon DEF IInv, Phases
    <2> QED BY <1>0, <1>2, <2>1, Zenon DEF IInv, Phases
  <1>6. Fetched' BY <1>0, Zenon DEF IInv, Fetched
  <1>7. Window'
    <2>1. ~early /\ ttl # "armed" =>
            \A n \in Orders : (\E m \in known.open \ invalid : m >= n) => Consumed(n)'
      BY <1>e, Zenon DEF IInv, Window
    <2>2. ttl = "armed" => \A n \in known.open \ invalid : n \in restored BY <1>b, Zenon DEF IInv, Window
    <2> QED BY <1>0, <2>1, <2>2, Zenon DEF IInv, Window
  <1>8. ASSUME NEW m \in Orders, x = Place(m), ~early, runs[m] > 0 \/ Queued(Place(m))
        PROVE  ShouldDedupe(h)
    <2>1. ttl = "armed" /\ m \in restored BY <1>e, <1>8, Zenon DEF IInv, Once
    <2> QED BY <1>2, <1>3, <1>8, <2>1, MessageFacts DEF ShouldDedupe
  <1>9. ASSUME NEW m \in known.closed, x = Place(m), ~early, NEW k \in known.open \ invalid, k >= m
        PROVE  ShouldDedupe(h)
    <2>0. m \in Orders /\ k \in Orders /\ m \in Nat /\ k \in Nat /\ m # 0 BY <1>a, <1>c, Zenon
    <2>1. ttl = "armed"
      <3>1. ~Consumed(m) BY <1>e, <1>9, <2>0
      <3> QED BY <1>9, <2>0, <3>1, Zenon DEF IInv, Window
    <2>2. k \in restored /\ k <= bigNo BY <1>b, <2>1, Zenon DEF IInv, Window
    <2>3. bigNo > 0 /\ bigNo >= m BY <1>9, <1>d, <2>0, <2>2
    <2> QED BY <1>2, <1>3, <1>9, <2>0, <2>1, <2>2, <2>3, MessageFacts DEF ShouldDedupe
  <1>10. ASSUME NEW m \in Orders, x = Place(m), ShouldDedupe(h), db[m] = "open"
         PROVE  m \in known.open
    <2>1. m \in restored \/ bigNo >= m
      <3>1. h.msg.no = m
        <4>1. Place(m).no = m BY MessageFacts, Zenon
        <4>2. h.msg = Place(m) BY <1>3, <1>10, Zenon
        <4> QED BY ONLY <4>1, <4>2, Zenon
      <3> QED BY <1>10, <3>1, Zenon DEF ShouldDedupe
    <2>2. CASE m \in restored BY <2>2, Zenon DEF IInv, Window
    <2>3. CASE bigNo >= m
      <3>1. bigNo <= cursor /\ m \in Nat BY <1>c, Zenon DEF IInv, Window
      <3>2. m <= cursor BY <1>d, <2>3, <3>1, LeqTrans, Zenon
      <3> QED BY <1>10, <3>2, Zenon DEF IInv, Fetched
    <2> QED BY <2>1, <2>2, <2>3, Zenon
  <1>11. \A m \in Orders : Revoke(m) \in given' => Consumed(m)'
    <2>1. \A m \in Orders : Revoke(m) \in given => Consumed(m) BY Zenon DEF IInv, Revoked
    <2> QED BY <1>e, <2>1, Zenon
  <1>12. CASE UNCHANGED queue
    <2>0. \A m \in Orders : Queued(Place(m))' <=> Queued(Place(m)) BY <1>12, Zenon DEF Queued
    <2>1. Committed' BY <1>0, <1>12, Zenon DEF IInv, Committed
    <2>2. Once' BY <1>0, <1>12, <1>b, <1>e, <2>0, Zenon DEF IInv, Once
    <2>3. ClosedNotRevived' BY <1>0, <1>a, <2>0, Zenon DEF IInv, ClosedNotRevived
    <2>4. Live' BY <1>0, <1>a, <1>b, <2>0, Zenon DEF IInv, Live
    <2>5. /\ overflow' \subseteq given' /\ overflow \subseteq overflow' /\ overflow' \subseteq overflow \cup {x}
          /\ x.no \in invalid \/ ShouldDedupe(h) \/ x \in overflow'
      <3>1. overflow \subseteq given BY <1>a, Zenon DEF Types
      <3>2. \/ x.no \in invalid \/ ShouldDedupe(h)
            \/ overflow' = overflow \cup {x}
        <4>1. \/ h.msg.no \in invalid \/ ShouldDedupe(h)
              \/ queue' = Enqueued(h.msg) /\ ~Full(s)
              \/ overflow' = overflow \cup {h.msg}
          BY <1>1, Zenon
        <4>2. ASSUME queue' = Enqueued(h.msg), ~Full(s) PROVE FALSE
          <5>1. queue' = Enqueued(x) /\ ~Full(SymbolOf[x.no]) BY <1>3, <1>e, <4>2, Zenon
          <5>2. /\ Len(queue[SymbolOf[x.no]]) \in Nat
                /\ Len(queue[SymbolOf[x.no]]) + 1 \in 1 .. Len(queue'[SymbolOf[x.no]])
            BY <1>e, <5>1, EnqueueFacts, Zenon
          <5> QED BY <1>12, <5>2, NotBeyond, Zenon
        <4> QED BY <1>3, <4>1, <4>2, Zenon
      <3>3. overflow' = overflow \/ overflow' = overflow \cup {x} BY <1>1, <1>3, Zenon
      <3> QED BY <1>e, <3>1, <3>2, <3>3, Zenon
    <2>6. Types'
      <3>1. given' \subseteq Messages BY <1>a, <1>e, Zenon DEF Types
      <3> QED BY <1>0, <1>12, <1>2, <1>a, <2>5, <3>1, Zenon DEF Types
    <2>7. LiveFromFetch'
      <3> SUFFICES ASSUME NEW m \in Orders \ invalid, db[m] = "open", m \notin results, Consumed(m)'
                   PROVE  m \in book \/ Queued(Place(m)) \/ Place(m) \in overflow'
        BY <1>0, <2>0, Zenon DEF LiveFromFetch
      <3>1. CASE Consumed(m) BY <1>2, <1>b, <2>5, <3>1, Zenon DEF IInv, LiveFromFetch
      <3>2. CASE x = Place(m)
        <4>1. x.no = m /\ m \notin invalid BY <3>2, MessageFacts, Zenon
        <4>2. CASE ShouldDedupe(h)
          <5>1. m \in known.open BY <1>10, <3>2, <4>2, Zenon
          <5> QED BY <1>b, <5>1, Zenon DEF IInv, Live
        <4> QED BY <2>5, <3>2, <4>1, <4>2, Zenon
      <3> QED BY <1>e, <3>1, <3>2, Zenon
    <2>8. Revoked'
      <3>1. ASSUME NEW m \in Orders, Revoke(m) \in given' \ overflow', m \notin invalid
            PROVE  Revoke(m) \in given \ overflow
        <4>1. CASE x = Revoke(m)
          <5>1. x.no = m /\ x.kind = "revoke" BY <4>1, MessageFacts, Zenon
          <5> QED BY <1>3, <2>5, <3>1, <4>1, <5>1, Zenon DEF ShouldDedupe
        <4>2. CASE x # Revoke(m) BY <1>e, <2>5, <3>1, <4>2, Zenon
        <4> QED BY <4>1, <4>2, Zenon
      <3> QED BY <1>0, <1>11, <1>12, <2>0, <3>1, Zenon DEF IInv, Revoked
    <2> QED BY <1>4, <1>5, <1>6, <1>7, <2>1, <2>2, <2>3, <2>4, <2>6, <2>7, <2>8, Zenon DEF IInv
  <1>13. CASE /\ h.msg.no \notin invalid /\ ~ShouldDedupe(h) /\ ~Full(s)
              /\ queue' = Enqueued(h.msg) /\ UNCHANGED overflow
    <2>0. x.no \notin invalid /\ ~ShouldDedupe(h) /\ overflow' = overflow BY <1>3, <1>13, Zenon
    <2>1. /\ queue' \in [Symbols -> Seq(Messages)]
          /\ \A t \in Symbols : Len(queue[t]) \in Nat /\ Len(queue'[t]) \in Nat /\ Len(queue'[t]) <= QueueCapacity
          /\ \A t \in Symbols : \A i \in 1 .. Len(queue[t]) :
                i \in 1 .. Len(queue'[t]) /\ queue'[t][i] = queue[t][i]
          /\ \A t \in Symbols : \A i \in 1 .. Len(queue'[t]) :
                \/ i \in 1 .. Len(queue[t])
                \/ t = s /\ i = Len(queue[t]) + 1 /\ queue'[t][i] = x
          /\ Len(queue[s]) + 1 \in 1 .. Len(queue'[s]) /\ queue'[s][Len(queue[s]) + 1] = x
          /\ \A t \in Symbols : \A i \in 1 .. Len(queue'[t]) : SymbolOf[queue'[t][i].no] = t
          /\ \A y \in Messages : Queued(y)' <=> Queued(y) \/ y = x
      <3>1. queue' = Enqueued(x) /\ ~Full(SymbolOf[x.no]) BY <1>3, <1>13, <1>e, Zenon
      <3>2. SymbolOf[x.no] = s BY <1>e, Zenon
      <3> HIDE DEF Enqueued
      <3>3. x \in Messages /\ IInv BY Zenon
      <3>4. /\ queue' \in [Symbols -> Seq(Messages)]
            /\ \A t \in Symbols : Len(queue[t]) \in Nat /\ Len(queue'[t]) \in Nat /\ Len(queue'[t]) <= QueueCapacity
            /\ \A t \in Symbols : \A i \in 1 .. Len(queue[t]) :
                  i \in 1 .. Len(queue'[t]) /\ queue'[t][i] = queue[t][i]
            /\ \A t \in Symbols : \A i \in 1 .. Len(queue'[t]) :
                  \/ i \in 1 .. Len(queue[t])
                  \/ t = SymbolOf[x.no] /\ i = Len(queue[t]) + 1 /\ queue'[t][i] = x
            /\ Len(queue[SymbolOf[x.no]]) + 1 \in 1 .. Len(queue'[SymbolOf[x.no]])
            /\ queue'[SymbolOf[x.no]][Len(queue[SymbolOf[x.no]]) + 1] = x
            /\ \A t \in Symbols : \A i \in 1 .. Len(queue'[t]) : SymbolOf[queue'[t][i].no] = t
            /\ \A y \in Messages : Queued(y)' <=> Queued(y) \/ y = x
        BY <3>1, <3>3, EnqueueFacts, Zenon
      <3> QED BY <3>2, <3>4, Zenon
    <2>2. \A m \in Orders : Queued(Place(m))' <=> Queued(Place(m)) \/ x = Place(m) BY <2>1, MessageFacts, Zenon
    <2>3. Types'
      <3>1. given' \subseteq Messages /\ overflow' \subseteq given' BY <1>a, <1>e, <2>0, Zenon DEF Types
      <3> QED BY <1>0, <1>2, <1>a, <2>1, <3>1, Zenon DEF Types
    <2>4. Committed'
      <3>1. ASSUME NEW t \in Symbols, NEW i \in 1 .. Len(queue'[t]) PROVE db[queue'[t][i].no] # "none"
        <4>1. CASE i \in 1 .. Len(queue[t])
          <5>1. \A j \in 1 .. Len(queue[t]) : db[queue[t][j].no] # "none" BY Zenon DEF IInv, Committed
          <5>2. queue'[t][i] = queue[t][i] BY <2>1, <4>1, Zenon
          <5> QED BY <4>1, <5>1, <5>2, Zenon
        <4>2. CASE i \notin 1 .. Len(queue[t]) BY <1>e, <2>1, <4>2, Zenon
        <4> QED BY <4>1, <4>2, Zenon
      <3> QED BY <1>0, <3>1, Zenon DEF IInv, Committed
    <2>5. ASSUME NEW m \in Orders, x = Place(m), ~early PROVE runs[m] = 0 /\ ~Queued(Place(m))
      <3>1. runs[m] \in Nat BY <1>a, Zenon DEF Types
      <3> QED BY <1>8, <2>0, <2>5, <3>1, ZeroOrMore, Zenon
    <2>6. Once'
      <3> SUFFICES ASSUME NEW m \in Orders, ~early
                   PROVE /\ runs[m] <= 1
                         /\ Queued(Place(m))' => runs[m] = 0
                         /\ \A i, j \in 1 .. Len(queue'[SymbolOf[m]]) :
                               queue'[SymbolOf[m]][i] = Place(m) /\ queue'[SymbolOf[m]][j] = Place(m) => i = j
                         /\ (runs[m] > 0 \/ Queued(Place(m))') /\ ~Consumed(m)' => ttl = "armed" /\ m \in restored
        BY <1>0, <1>b, Zenon DEF Once
      <3>1. /\ runs[m] <= 1 /\ (Queued(Place(m)) => runs[m] = 0)
            /\ \A i, j \in 1 .. Len(queue[SymbolOf[m]]) :
                  queue[SymbolOf[m]][i] = Place(m) /\ queue[SymbolOf[m]][j] = Place(m) => i = j
            /\ (runs[m] > 0 \/ Queued(Place(m))) /\ ~Consumed(m) => ttl = "armed" /\ m \in restored
        BY Zenon DEF IInv, Once
      <3>2. SymbolOf[m] \in Symbols /\ Place(m).no = m BY MessageFacts, Zenon
      <3>3. ASSUME NEW i \in 1 .. Len(queue'[SymbolOf[m]]), NEW j \in 1 .. Len(queue'[SymbolOf[m]]),
                   queue'[SymbolOf[m]][i] = Place(m), queue'[SymbolOf[m]][j] = Place(m)
            PROVE  i = j
        <4>1. CASE x = Place(m)
          <5>0. ~Queued(Place(m)) BY <2>5, <4>1, Zenon
          <5>1. ASSUME NEW k \in 1 .. Len(queue[SymbolOf[m]]) PROVE queue'[SymbolOf[m]][k] # Place(m)
            <6>1. queue'[SymbolOf[m]][k] = queue[SymbolOf[m]][k] BY <2>1, <3>2, Zenon
            <6>2. queue[SymbolOf[m]][k] # Place(m) BY <3>2, <5>0, Zenon DEF Queued
            <6> QED BY <6>1, <6>2
          <5>2. i \notin 1 .. Len(queue[SymbolOf[m]]) /\ j \notin 1 .. Len(queue[SymbolOf[m]]) BY <3>3, <5>1
          <5>3. i = Len(queue[SymbolOf[m]]) + 1 BY <2>1, <3>2, <5>2, Zenon
          <5>4. j = Len(queue[SymbolOf[m]]) + 1 BY <2>1, <3>2, <5>2, Zenon
          <5> QED BY <5>3, <5>4, Zenon
        <4>2. CASE x # Place(m)
          <5>2. i \in 1 .. Len(queue[SymbolOf[m]]) /\ queue[SymbolOf[m]][i] = Place(m)
            <6>1. queue'[SymbolOf[m]][i] # x BY <3>3, <4>2, Zenon
            <6>2. i \in 1 .. Len(queue[SymbolOf[m]]) BY <2>1, <3>2, <6>1, Zenon
            <6>3. queue'[SymbolOf[m]][i] = queue[SymbolOf[m]][i] BY <2>1, <3>2, <6>2, Zenon
            <6> QED BY <3>3, <6>2, <6>3, Zenon
          <5>3. j \in 1 .. Len(queue[SymbolOf[m]]) /\ queue[SymbolOf[m]][j] = Place(m)
            <6>1. queue'[SymbolOf[m]][j] # x BY <3>3, <4>2, Zenon
            <6>2. j \in 1 .. Len(queue[SymbolOf[m]]) BY <2>1, <3>2, <6>1, Zenon
            <6>3. queue'[SymbolOf[m]][j] = queue[SymbolOf[m]][j] BY <2>1, <3>2, <6>2, Zenon
            <6> QED BY <3>3, <6>2, <6>3, Zenon
          <5> QED BY <3>1, <5>2, <5>3, Zenon
        <4> QED BY <4>1, <4>2, Zenon
      <3>4. CASE x = Place(m) BY <1>e, <2>5, <3>1, <3>3, <3>4, Zenon
      <3>5. CASE x # Place(m) BY <1>e, <2>2, <3>1, <3>3, <3>5, Zenon
      <3> QED BY <3>4, <3>5, Zenon
    <2>7. ClosedNotRevived'
      <3> SUFFICES ASSUME NEW m \in known.closed, ~early, NEW k \in known.open \ invalid, k >= m
                   PROVE  runs[m] = 0 /\ ~Queued(Place(m))'
        BY <1>0, Zenon DEF ClosedNotRevived
      <3>1. runs[m] = 0 /\ ~Queued(Place(m)) BY Zenon DEF IInv, ClosedNotRevived
      <3>2. x # Place(m) BY <1>9, <2>0
      <3> QED BY <1>a, <2>2, <3>1, <3>2, Zenon
    <2>8. Live' BY <1>0, <1>a, <1>b, <2>2, Zenon DEF IInv, Live
    <2>9. LiveFromFetch'
      <3> SUFFICES ASSUME NEW m \in Orders \ invalid, db[m] = "open", m \notin results, Consumed(m)'
                   PROVE  m \in book \/ Queued(Place(m))' \/ Place(m) \in overflow
        BY <1>0, <2>0 DEF LiveFromFetch
      <3>1. CASE Consumed(m) BY <1>2, <1>b, <2>2, <3>1, Zenon DEF IInv, LiveFromFetch
      <3>2. CASE x = Place(m) BY <2>2, <3>2, Zenon
      <3> QED BY <1>e, <3>1, <3>2, Zenon
    <2>10. ASSUME NEW m \in Orders, Revoke(m) \in given' \ overflow', m \notin invalid
           PROVE  (\/ \E i \in 1 .. Len(queue[SymbolOf[m]]) :
                         /\ queue[SymbolOf[m]][i] = Revoke(m)
                         /\ \A j \in 1 .. Len(queue[SymbolOf[m]]) : queue[SymbolOf[m]][j] = Place(m) => j < i
                   \/ ~Queued(Place(m)) /\ m \notin book)'
      <3>1. SymbolOf[m] \in Symbols /\ Place(m) # Revoke(m) BY MessageFacts, Zenon
      <3>2. CASE x = Revoke(m)
        <4>1. SymbolOf[m] = s /\ x # Place(m) BY <1>e, <3>1, <3>2, MessageFacts, Zenon
        <4>2. PICK i : i = Len(queue[s]) + 1 /\ i \in 1 .. Len(queue'[s]) /\ queue'[s][i] = x /\ Len(queue[s]) \in Nat
          BY <2>1, Zenon
        <4>3. ASSUME NEW j \in 1 .. Len(queue'[s]), queue'[s][j] = Place(m) PROVE j < i
          <5>1. j \in 1 .. Len(queue[s])
            <6>1. queue'[s][j] # x BY <4>1, <4>3, Zenon
            <6> QED BY <2>1, <6>1, Zenon
          <5> QED BY ONLY <4>2, <5>1
        <4> QED BY <3>2, <4>1, <4>2, <4>3, Zenon
      <3>3. CASE x # Revoke(m)
        <4>1. Revoke(m) \in given \ overflow BY <1>e, <2>0, <2>10, <3>3, Zenon
        <4>2. Consumed(m) BY <4>1, Zenon DEF IInv, Revoked
        <4>3. x # Place(m) BY <1>e, <4>2, Zenon
        <4>4. CASE \E i \in 1 .. Len(queue[SymbolOf[m]]) :
                      /\ queue[SymbolOf[m]][i] = Revoke(m)
                      /\ \A j \in 1 .. Len(queue[SymbolOf[m]]) : queue[SymbolOf[m]][j] = Place(m) => j < i
          <5>1. PICK i \in 1 .. Len(queue[SymbolOf[m]]) :
                      /\ queue[SymbolOf[m]][i] = Revoke(m)
                      /\ \A j \in 1 .. Len(queue[SymbolOf[m]]) : queue[SymbolOf[m]][j] = Place(m) => j < i
            BY <4>4, Zenon
          <5>2. i \in 1 .. Len(queue'[SymbolOf[m]]) /\ queue'[SymbolOf[m]][i] = Revoke(m) BY <2>1, <3>1, <5>1, Zenon
          <5>3. ASSUME NEW j \in 1 .. Len(queue'[SymbolOf[m]]), queue'[SymbolOf[m]][j] = Place(m) PROVE j < i
            <6>1. j \in 1 .. Len(queue[SymbolOf[m]]) BY <2>1, <3>1, <4>3, <5>3, Zenon
            <6> QED BY <2>1, <3>1, <5>1, <5>3, <6>1, Zenon
          <5> QED BY <5>2, <5>3, Zenon
        <4>5. CASE ~Queued(Place(m)) /\ m \notin book BY <1>0, <2>2, <4>3, <4>5, Zenon
        <4> QED BY <2>10, <4>1, <4>4, <4>5, <1>0, Zenon DEF IInv, Revoked
      <3> QED BY <3>2, <3>3, Zenon
    <2>11. Revoked' BY <1>0, <1>11, <2>10, Zenon DEF Revoked
    <2> QED BY <1>4, <1>5, <1>6, <1>7, <2>3, <2>4, <2>6, <2>7, <2>8, <2>9, <2>11, Zenon DEF IInv
  <1> QED BY <1>1, <1>12, <1>13
-----------------------------------------------------------------------------
(* The workers.                                                            *)

\* Taking the first message of a channel leaves the others in their order.
LEMMA DequeueFacts ==
  ASSUME IInv, NEW s \in Symbols, queue[s] # <<>>, queue' = [queue EXCEPT ![s] = Tail(@)]
  PROVE  /\ queue' \in [Symbols -> Seq(Messages)]
         /\ \A t \in Symbols : Len(queue[t]) \in Nat /\ Len(queue'[t]) \in Nat /\ Len(queue'[t]) <= QueueCapacity
         /\ \A t \in Symbols : t # s => queue'[t] = queue[t]
         /\ 1 \in 1 .. Len(queue[s]) /\ Head(queue[s]) = queue[s][1] /\ Head(queue[s]) \in Messages
         /\ SymbolOf[Head(queue[s]).no] = s
         /\ \A i \in 1 .. Len(queue'[s]) :
               i + 1 \in 1 .. Len(queue[s]) /\ i + 1 # 1 /\ queue'[s][i] = queue[s][i + 1]
         /\ \A i \in 1 .. Len(queue[s]) :
               i # 1 => i - 1 \in 1 .. Len(queue'[s]) /\ queue'[s][i - 1] = queue[s][i]
         /\ \A t \in Symbols : \A i \in 1 .. Len(queue'[t]) :
               \E j \in 1 .. Len(queue[t]) : queue'[t][i] = queue[t][j]
         /\ \A x \in Messages : Queued(x)' => Queued(x)
         /\ \A x \in Messages : Queued(x) => Queued(x)' \/ x = Head(queue[s])
  <1> USE Constants
  <1>1. /\ queue \in [Symbols -> Seq(Messages)] /\ queue[s] \in Seq(Messages)
        /\ \A t \in Symbols : Len(queue[t]) \in Nat /\ Len(queue[t]) <= QueueCapacity
    BY SymbolFacts, Zenon
  <1>2. queue'[s] = Tail(queue[s]) /\ \A t \in Symbols : t # s => queue'[t] = queue[t] BY <1>1, Zenon
  <1>3. /\ Head(queue[s]) \in Messages /\ queue'[s] \in Seq(Messages) /\ Len(queue'[s]) = Len(queue[s]) - 1
        /\ \A i \in 1 .. Len(queue'[s]) : queue'[s][i] = queue[s][i + 1]
    BY <1>1, <1>2, SeqHeadTail
  <1>4. queue' \in [Symbols -> Seq(Messages)] BY <1>1, <1>3, Zenon
  <1>5. Len(queue[s]) >= 1 BY <1>1, SeqNonempty, Zenon
  <1>6. 1 \in 1 .. Len(queue[s]) /\ Head(queue[s]) = queue[s][1] BY <1>1, SeqFirst, Zenon
  <1>7. SymbolOf[Head(queue[s]).no] = s BY <1>6 DEF IInv, Types
  <1>8. Len(queue'[s]) \in Nat /\ Len(queue'[s]) <= QueueCapacity BY <1>1, <1>3, <1>5
  <1>9. \A t \in Symbols : Len(queue'[t]) \in Nat /\ Len(queue'[t]) <= QueueCapacity BY <1>1, <1>2, <1>8, Zenon
  <1>10. \A i \in 1 .. Len(queue'[s]) : i + 1 \in 1 .. Len(queue[s]) /\ i + 1 # 1 BY <1>1, <1>3
  <1>11. ASSUME NEW i \in 1 .. Len(queue[s]), i # 1
         PROVE  i - 1 \in 1 .. Len(queue'[s]) /\ queue'[s][i - 1] = queue[s][i]
    <2>1. i - 1 \in 1 .. Len(queue'[s]) /\ (i - 1) + 1 = i BY <1>1, <1>3, <1>11
    <2> QED BY <1>3, <2>1, Zenon
  <1>12. ASSUME NEW t \in Symbols, NEW i \in 1 .. Len(queue'[t])
         PROVE  \E j \in 1 .. Len(queue[t]) : queue'[t][i] = queue[t][j]
    <2>1. CASE t = s
      <3>1. i + 1 \in 1 .. Len(queue[t]) /\ queue'[t][i] = queue[t][i + 1] BY <1>3, <1>10, <2>1, Zenon
      <3> QED BY <3>1, Zenon
    <2>2. CASE t # s BY <1>2, <2>2, Zenon
    <2> QED BY <2>1, <2>2, Zenon
  <1>13. ASSUME NEW x \in Messages PROVE Queued(x)' => Queued(x)
    <2>1. SymbolOf[x.no] \in Symbols BY MessageFacts, Zenon
    <2>2. ASSUME NEW i \in 1 .. Len(queue'[SymbolOf[x.no]]), queue'[SymbolOf[x.no]][i] = x PROVE Queued(x)
      <3>1. PICK j \in 1 .. Len(queue[SymbolOf[x.no]]) : queue'[SymbolOf[x.no]][i] = queue[SymbolOf[x.no]][j]
        BY <1>12, <2>1, Zenon
      <3> QED BY <2>2, <3>1, Zenon DEF Queued
    <2> QED BY <2>2, Zenon DEF Queued
  <1>14. ASSUME NEW x \in Messages, Queued(x), x # Head(queue[s]) PROVE Queued(x)'
    <2>1. SymbolOf[x.no] \in Symbols BY MessageFacts
    <2>2. CASE SymbolOf[x.no] # s BY <1>2, <1>14, <2>1, <2>2, Zenon DEF Queued
    <2>3. CASE SymbolOf[x.no] = s
      <3>1. PICK i \in 1 .. Len(queue[s]) : queue[s][i] = x BY <1>14, <2>3, Zenon DEF Queued
      <3>2. i # 1 BY <1>6, <1>14, <3>1, Zenon
      <3>3. i - 1 \in 1 .. Len(queue'[s]) /\ queue'[s][i - 1] = x BY <1>11, <3>1, <3>2, Zenon
      <3> QED BY <2>3, <3>3, Zenon DEF Queued
    <2> QED BY <2>2, <2>3, Zenon
  <1> QED BY <1>1, <1>2, <1>3, <1>4, <1>6, <1>7, <1>9, <1>10, <1>11, <1>12, <1>13, <1>14, Zenon

\* A cancellation that follows its placement in the channel still does, unless
\* it was the message taken and there is no placement left behind it.
LEMMA DequeueRevoke ==
  ASSUME IInv, NEW s \in Symbols, queue[s] # <<>>, queue' = [queue EXCEPT ![s] = Tail(@)],
         NEW m \in Orders,
         \E i \in 1 .. Len(queue[SymbolOf[m]]) :
            /\ queue[SymbolOf[m]][i] = Revoke(m)
            /\ \A j \in 1 .. Len(queue[SymbolOf[m]]) : queue[SymbolOf[m]][j] = Place(m) => j < i
  PROVE  \/ \E i \in 1 .. Len(queue'[SymbolOf[m]]) :
              /\ queue'[SymbolOf[m]][i] = Revoke(m)
              /\ \A j \in 1 .. Len(queue'[SymbolOf[m]]) : queue'[SymbolOf[m]][j] = Place(m) => j < i
         \/ Head(queue[s]) = Revoke(m) /\ ~Queued(Place(m))
  <1> USE Constants
  <1>1. /\ \A t \in Symbols : t # s => queue'[t] = queue[t]
        /\ 1 \in 1 .. Len(queue[s]) /\ Head(queue[s]) = queue[s][1]
        /\ Len(queue[s]) \in Nat /\ Len(queue'[s]) \in Nat
        /\ \A i \in 1 .. Len(queue'[s]) :
              i + 1 \in 1 .. Len(queue[s]) /\ i + 1 # 1 /\ queue'[s][i] = queue[s][i + 1]
        /\ \A i \in 1 .. Len(queue[s]) :
              i # 1 => i - 1 \in 1 .. Len(queue'[s]) /\ queue'[s][i - 1] = queue[s][i]
    BY DequeueFacts, Zenon
  <1>2. CASE SymbolOf[m] # s
    <2>1. queue'[SymbolOf[m]] = queue[SymbolOf[m]] BY <1>1, <1>2, Zenon
    <2> QED BY <2>1, Zenon
  <1>3. CASE SymbolOf[m] = s
    <2>1. PICK i \in 1 .. Len(queue[s]) :
            /\ queue[s][i] = Revoke(m)
            /\ \A j \in 1 .. Len(queue[s]) : queue[s][j] = Place(m) => j < i
      BY <1>3
    <2>2. CASE i # 1
      <3>3. i - 1 \in 1 .. Len(queue'[s]) /\ queue'[s][i - 1] = Revoke(m) BY <1>1, <2>1, <2>2, Zenon
      <3>4. ASSUME NEW j \in 1 .. Len(queue'[s]), queue'[s][j] = Place(m) PROVE j < i - 1
        <4>1. j + 1 \in 1 .. Len(queue[s]) /\ queue[s][j + 1] = Place(m) BY <1>1, <3>4, Zenon
        <4>2. j + 1 < i BY <2>1, <4>1, Zenon
        <4> QED BY <1>1, <4>2
      <3> QED BY <1>3, <3>3, <3>4, Zenon
    <2>3. CASE i = 1
      <3>1. \A j \in 1 .. Len(queue[s]) : ~(j < i) BY <1>1, <2>3
      <3>2. \A j \in 1 .. Len(queue[s]) : queue[s][j] # Place(m) BY <2>1, <3>1, Zenon
      <3>3. ~Queued(Place(m)) BY <1>3, <3>2, MessageFacts, Zenon DEF Queued
      <3> QED BY <1>1, <2>1, <2>3, <3>3, Zenon
    <2> QED BY <2>2, <2>3, Zenon
  <1> QED BY <1>2, <1>3, Zenon

\* spawn_symbol_worker takes the next message and runs the engine.
LEMMA WorkerInv == ASSUME IInv, NEW s \in Symbols, Worker(s) PROVE IInv'
  <1> USE Constants
  <1>0. /\ UNCHANGED <<db, invalid, unsent, topic, offset, phase, cursor, rows, crashes, restored, bigNo,
                       active, ttl, handling, known, given, overflow, early>>
        /\ phase # "down" /\ queue[s] # <<>> /\ queue' = [queue EXCEPT ![s] = Tail(@)]
    BY Zenon DEF Worker, broker, bootstrap, startQueue, ghosts
  <1>a. /\ Types /\ known.open \subseteq Orders /\ known.closed \subseteq Orders /\ results \subseteq Orders
        /\ book \subseteq Orders /\ runs \in [Orders -> Nat]
    BY Zenon DEF IInv, Types
  <1>1. /\ queue' \in [Symbols -> Seq(Messages)]
        /\ \A t \in Symbols : Len(queue[t]) \in Nat /\ Len(queue'[t]) \in Nat /\ Len(queue'[t]) <= QueueCapacity
        /\ \A t \in Symbols : t # s => queue'[t] = queue[t]
        /\ 1 \in 1 .. Len(queue[s]) /\ Head(queue[s]) = queue[s][1] /\ Head(queue[s]) \in Messages
        /\ SymbolOf[Head(queue[s]).no] = s
        /\ \A i \in 1 .. Len(queue'[s]) :
              i + 1 \in 1 .. Len(queue[s]) /\ i + 1 # 1 /\ queue'[s][i] = queue[s][i + 1]
        /\ \A t \in Symbols : \A i \in 1 .. Len(queue'[t]) :
              \E j \in 1 .. Len(queue[t]) : queue'[t][i] = queue[t][j]
        /\ \A x \in Messages : Queued(x)' => Queued(x)
        /\ \A x \in Messages : Queued(x) => Queued(x)' \/ x = Head(queue[s])
    BY <1>0, DequeueFacts, Zenon
  <1>b. \A t \in Symbols : \A i \in 1 .. Len(queue'[t]) :
           \E j \in 1 .. Len(queue[t]) : queue'[t][i] = queue[t][j]
    BY <1>1, Zenon
  <1>2. PICK x \in Messages : x = Head(queue[s]) /\ x = queue[s][1] /\ SymbolOf[x.no] = s BY <1>1, Zenon
  <1>3. PICK n \in Orders : n = x.no /\ (x.kind = "place" <=> x = Place(n)) /\ (x.kind = "revoke" <=> x = Revoke(n))
    BY MessageFacts, Zenon
  <1>4. Queued(x) /\ db[n] # "none"
    <2>1. Queued(x) BY <1>1, <1>2, Zenon DEF Queued
    <2>2. \A i \in 1 .. Len(queue[s]) : db[queue[s][i].no] # "none" BY Zenon DEF IInv, Committed
    <2>3. 1 \in 1 .. Len(queue[s]) BY <1>1, Zenon
    <2>4. db[queue[s][1].no] # "none" BY <2>2, <2>3, Zenon
    <2> QED BY <1>2, <1>3, <2>1, <2>4, Zenon
  \* The engine's effect, in what the invariant tells apart.
  <1>5. /\ book' \subseteq book \cup {n} /\ (x # Place(n) => book' \subseteq book)
        /\ results \subseteq results' /\ results' \subseteq results \cup book \cup {n}
        /\ \A m \in book : m \in book' \/ m \in results'
        /\ x = Place(n) => n \in book' \/ n \in results'
        /\ x = Revoke(n) => n \notin book'
        /\ runs' \in [Orders -> Nat] /\ (runs'[n] = runs[n] \/ (x = Place(n) /\ runs'[n] = runs[n] + 1))
        /\ \A m \in Orders : m # n => runs'[m] = runs[m]
    <2>0. \/ /\ x.kind = "revoke" /\ book' = book \ {n} /\ results' = results \cup (book \cap {n})
             /\ UNCHANGED runs
          \/ x.kind = "place" /\ n \in book /\ UNCHANGED <<book, results, runs>>
          \/ /\ x.kind = "place" /\ n \notin book /\ runs' = [runs EXCEPT ![n] = @ + 1]
             /\ \E finished \in SUBSET (RestingOn(s) \cup {n}) :
                   book' = (book \cup {n}) \ finished /\ results' = results \cup finished
      BY <1>2, <1>3, Zenon DEF Worker
    <2>1. CASE /\ x.kind = "revoke" /\ book' = book \ {n} /\ results' = results \cup (book \cap {n})
               /\ UNCHANGED runs
      <3>1. x # Place(n) BY <2>1, MessageFacts, Zenon
      <3> QED BY <1>a, <2>1, <3>1, Zenon
    <2>2. CASE x.kind = "place" /\ n \in book /\ UNCHANGED <<book, results, runs>>
      <3>1. x # Revoke(n) BY <2>2, MessageFacts, Zenon
      <3> QED BY <1>a, <2>2, <3>1, Zenon
    <2>3. CASE /\ x.kind = "place" /\ n \notin book /\ runs' = [runs EXCEPT ![n] = @ + 1]
               /\ \E finished \in SUBSET (RestingOn(s) \cup {n}) :
                     book' = (book \cup {n}) \ finished /\ results' = results \cup finished
      <3>1. x # Revoke(n) /\ x = Place(n) BY <1>3, <2>3, MessageFacts, Zenon
      <3>2. runs' \in [Orders -> Nat] /\ runs'[n] = runs[n] + 1 /\ \A m \in Orders : m # n => runs'[m] = runs[m]
        <4>1. runs \in [Orders -> Nat] /\ runs' = [runs EXCEPT ![n] = @ + 1] BY <1>a, <2>3, Zenon
        <4>2. runs[n] \in Nat /\ runs[n] + 1 \in Nat BY <4>1
        <4> QED BY <4>1, <4>2, Zenon
      <3>3. PICK finished \in SUBSET (RestingOn(s) \cup {n}) :
                     book' = (book \cup {n}) \ finished /\ results' = results \cup finished
        BY <2>3, Zenon
      <3>4. finished \subseteq book \cup {n} BY DEF RestingOn
      <3> QED BY <3>1, <3>2, <3>3, <3>4, Zenon
    <2> QED BY <2>0, <2>1, <2>2, <2>3, Zenon
  <1>6. Types'
    <2>1. book' \subseteq Orders /\ results' \subseteq Orders BY <1>a, <1>5
    <2>2. ASSUME NEW t \in Symbols, NEW i \in 1 .. Len(queue'[t]) PROVE SymbolOf[queue'[t][i].no] = t
      <3>1. PICK j \in 1 .. Len(queue[t]) : queue'[t][i] = queue[t][j] BY <1>b, Zenon
      <3>2. SymbolOf[queue[t][j].no] = t BY <1>a, Zenon DEF Types
      <3> QED BY <3>1, <3>2, Zenon
    <2> QED BY <1>0, <1>a, <1>1, <1>5, <2>1, <2>2, Zenon DEF Types
  <1>7. Sent' BY <1>0, Zenon DEF IInv, Sent, PlaceAt, RevokeAt
  <1>8. Committed'
    <2>1. ASSUME NEW t \in Symbols, NEW i \in 1 .. Len(queue'[t]) PROVE db[queue'[t][i].no] # "none"
      <3>1. PICK j \in 1 .. Len(queue[t]) : queue'[t][i] = queue[t][j] BY <1>b, Zenon
      <3> QED BY <3>1, Zenon DEF IInv, Committed
    <2>2. \A m \in results' \cup book' \cup known.open : db[m] # "none"
      BY <1>4, <1>5, Zenon DEF IInv, Committed
    <2> QED BY <1>0, <2>1, <2>2, Zenon DEF Committed
  <1>9. Phases' /\ phase \in {"restoring", "consuming"}
    <2>1. phase # "fetching" BY <1>0, Zenon DEF IInv, Phases
    <2> QED BY <1>0, <1>a, <2>1, Zenon DEF IInv, Phases, Types
  <1>10. Fetched' BY <1>0, Zenon DEF IInv, Fetched
  <1>11. \A m \in Orders : (Consumed(m)' <=> Consumed(m)) /\ (InRows(m)' <=> InRows(m))
    BY <1>0, Zenon DEF Consumed, InRows
  <1>12. Window' BY <1>0, <1>11, Zenon DEF IInv, Window, Consumed, InRows
  <1>13. \A m \in Orders : /\ Queued(Place(m))' => Queued(Place(m))
                           /\ Queued(Place(m)) => Queued(Place(m))' \/ (m = n /\ x = Place(m))
    <2>1. ASSUME NEW m \in Orders, x = Place(m) PROVE m = n BY <1>3, <2>1, MessageFacts, Zenon
    <2> QED BY <1>1, <1>2, <2>1, MessageFacts, Zenon
  <1>14. Once'
    <2> SUFFICES ASSUME NEW m \in Orders, ~early
                 PROVE /\ runs'[m] <= 1
                       /\ Queued(Place(m))' => runs'[m] = 0
                       /\ \A i, j \in 1 .. Len(queue'[SymbolOf[m]]) :
                             queue'[SymbolOf[m]][i] = Place(m) /\ queue'[SymbolOf[m]][j] = Place(m) => i = j
                       /\ InRows(m) => runs'[m] = 0 /\ ~Queued(Place(m))'
                       /\ (runs'[m] > 0 \/ Queued(Place(m))') /\ ~Consumed(m) => ttl = "armed" /\ m \in restored
      BY <1>0, <1>11, Zenon DEF Once
    <2>1. /\ runs[m] <= 1 /\ (Queued(Place(m)) => runs[m] = 0)
          /\ \A i, j \in 1 .. Len(queue[SymbolOf[m]]) :
                queue[SymbolOf[m]][i] = Place(m) /\ queue[SymbolOf[m]][j] = Place(m) => i = j
          /\ InRows(m) => runs[m] = 0 /\ ~Queued(Place(m))
          /\ (runs[m] > 0 \/ Queued(Place(m))) /\ ~Consumed(m) => ttl = "armed" /\ m \in restored
      BY Zenon DEF IInv, Once
    <2>2. SymbolOf[m] \in Symbols /\ Place(m).no = m BY MessageFacts, Zenon
    <2>3. ASSUME NEW i \in 1 .. Len(queue'[SymbolOf[m]]), NEW j \in 1 .. Len(queue'[SymbolOf[m]]),
                 queue'[SymbolOf[m]][i] = Place(m), queue'[SymbolOf[m]][j] = Place(m)
          PROVE  i = j
      <3>1. CASE SymbolOf[m] # s
        <4>1. queue'[SymbolOf[m]] = queue[SymbolOf[m]] BY <1>1, <2>2, <3>1, Zenon
        <4> QED BY <2>1, <2>3, <4>1, Zenon
      <3>2. CASE SymbolOf[m] = s
        <4>1. i + 1 \in 1 .. Len(queue[s]) /\ queue[s][i + 1] = Place(m) BY <1>1, <2>3, <3>2, Zenon
        <4>2. j + 1 \in 1 .. Len(queue[s]) /\ queue[s][j + 1] = Place(m) BY <1>1, <2>3, <3>2, Zenon
        <4>3. i + 1 = j + 1 BY <2>1, <3>2, <4>1, <4>2, Zenon
        <4>4. i \in Int /\ j \in Int BY ONLY i \in 1 .. Len(queue'[SymbolOf[m]]), j \in 1 .. Len(queue'[SymbolOf[m]])
        <4> QED BY ONLY <4>3, <4>4
      <3> QED BY <3>1, <3>2, Zenon
    <2>4. CASE x = Place(m)
      <3>1. m = n /\ SymbolOf[m] = s BY <1>2, <1>3, <2>2, <2>4, Zenon
      <3>2. Queued(Place(m)) /\ runs[m] = 0 BY <1>4, <2>1, <2>4, Zenon
      <3>3. runs'[m] = 0 \/ runs'[m] = 1
        <4>1. runs'[m] = runs[m] \/ runs'[m] = runs[m] + 1 BY <1>5, <3>1, Zenon
        <4> QED BY ONLY <3>2, <4>1
      <3>4. ~Queued(Place(m))'
        <4>1. ASSUME NEW i \in 1 .. Len(queue'[s]), queue'[s][i] = Place(m) PROVE FALSE
          <5>1. i + 1 \in 1 .. Len(queue[s]) /\ i + 1 # 1 /\ queue[s][i + 1] = Place(m) BY <1>1, <4>1, Zenon
          <5>2. 1 \in 1 .. Len(queue[s]) /\ queue[s][1] = Place(m) BY <1>1, <1>2, <2>4, Zenon
          <5> QED BY <2>1, <3>1, <5>1, <5>2, Zenon
        <4> QED BY <2>2, <3>1, <4>1, Zenon DEF Queued
      <3>5. runs'[m] <= 1 BY ONLY <3>3
      <3> QED BY <2>1, <2>3, <3>2, <3>4, <3>5, Zenon
    <2>5. CASE x # Place(m)
      <3>1. runs'[m] = runs[m]
        <4>1. CASE m # n BY <1>5, <4>1, Zenon
        <4>2. CASE m = n BY <1>5, <2>5, <4>2, Zenon
        <4> QED BY <4>1, <4>2, Zenon
      <3> QED BY <1>13, <2>1, <2>3, <2>5, <3>1, Zenon
    <2> QED BY <2>4, <2>5, Zenon
  <1>15. ClosedNotRevived'
    <2> SUFFICES ASSUME NEW m \in known.closed, ~early, NEW k \in known.open \ invalid, k >= m
                 PROVE  runs'[m] = 0 /\ ~Queued(Place(m))'
      BY <1>0, Zenon DEF ClosedNotRevived
    <2>1. m \in Orders /\ runs[m] = 0 /\ ~Queued(Place(m)) BY <1>a, Zenon DEF IInv, ClosedNotRevived
    <2>2. x # Place(m) BY <1>4, <2>1
    <2>3. CASE m # n BY <1>5, <1>13, <2>1, <2>3, Zenon
    <2>4. CASE m = n BY <1>5, <1>13, <2>1, <2>2, <2>4, Zenon
    <2> QED BY <2>3, <2>4, Zenon
  <1>16. Live'
    <2> SUFFICES ASSUME NEW m \in known.open \ invalid
                 PROVE  InRows(m) \/ m \in book' \/ Queued(Place(m))' \/ m \in results' \/ db[m] = "closed"
      BY <1>0, <1>11, <1>a, Zenon DEF Live
    <2>1. InRows(m) \/ m \in book \/ Queued(Place(m)) \/ m \in results \/ db[m] = "closed"
      BY Zenon DEF IInv, Live
    <2>2. m \in Orders BY <1>a, Zenon
    <2> QED BY <1>5, <1>13, <2>1, <2>2, Zenon
  <1>17. LiveFromFetch'
    <2> SUFFICES ASSUME NEW m \in Orders \ invalid, db[m] = "open", m \notin results', Consumed(m)
                 PROVE  InRows(m) \/ m \in book' \/ Queued(Place(m))' \/ Place(m) \in overflow
      BY <1>0, <1>11, Zenon DEF LiveFromFetch
    <2>1. m \notin results BY <1>5, Zenon
    <2>2. InRows(m) \/ m \in book \/ Queued(Place(m)) \/ Place(m) \in overflow
      BY <1>9, <2>1 DEF IInv, LiveFromFetch
    <2> QED BY <1>5, <1>13, <2>2, Zenon
  <1>18. ASSUME NEW m \in Orders, Revoke(m) \in given \ overflow, m \notin invalid
         PROVE  (\/ \E i \in 1 .. Len(queue[SymbolOf[m]]) :
                       /\ queue[SymbolOf[m]][i] = Revoke(m)
                       /\ \A j \in 1 .. Len(queue[SymbolOf[m]]) : queue[SymbolOf[m]][j] = Place(m) => j < i
                 \/ ~Queued(Place(m)) /\ m \notin book)'
    <2>1. CASE \E i \in 1 .. Len(queue[SymbolOf[m]]) :
                  /\ queue[SymbolOf[m]][i] = Revoke(m)
                  /\ \A j \in 1 .. Len(queue[SymbolOf[m]]) : queue[SymbolOf[m]][j] = Place(m) => j < i
      <3>1. \/ \E i \in 1 .. Len(queue'[SymbolOf[m]]) :
                 /\ queue'[SymbolOf[m]][i] = Revoke(m)
                 /\ \A j \in 1 .. Len(queue'[SymbolOf[m]]) : queue'[SymbolOf[m]][j] = Place(m) => j < i
            \/ Head(queue[s]) = Revoke(m) /\ ~Queued(Place(m))
        BY <1>0, <2>1, DequeueRevoke, Zenon
      <3>2. CASE Head(queue[s]) = Revoke(m) /\ ~Queued(Place(m))
        <4>1. x = Revoke(m) BY <1>2, <3>2, Zenon
        <4>2. Revoke(m).no = m BY MessageFacts, Zenon
        <4>3. m = n BY <1>3, <4>1, <4>2, Zenon
        <4> QED BY <1>5, <1>13, <3>2, <4>1, <4>3, Zenon
      <3> QED BY <3>1, <3>2, Zenon
    <2>2. CASE ~Queued(Place(m)) /\ m \notin book
      <3>1. x # Place(m) BY <1>4, <2>2, Zenon
      <3>2. m \notin book' BY <1>5, <2>2, <3>1
      <3> QED BY <1>13, <2>2, <3>2, Zenon
    <2> QED BY <1>18, <2>1, <2>2, Zenon DEF IInv, Revoked
  <1>19. Revoked'
    <2>1. \A m \in Orders : Revoke(m) \in given => Consumed(m) BY Zenon DEF IInv, Revoked
    <2> QED BY <1>0, <1>11, <1>18, <2>1, Zenon DEF Revoked
  <1> QED BY <1>6, <1>7, <1>8, <1>9, <1>10, <1>12, <1>14, <1>15, <1>16, <1>17, <1>19, Zenon DEF IInv
-----------------------------------------------------------------------------
(* The theorems.                                                           *)

\* The invariant: whatever the order service, the message queue, the window's
\* timer and the workers do, and however often the process stops, IInv holds.
THEOREM InboundInvariant == Spec => []IInv
  <1>1. IInv /\ [Next]_vars => IInv'
    <2> SUFFICES ASSUME IInv, [Next]_vars PROVE IInv' OBVIOUS
    <2>1. ASSUME NEW n \in Orders, CommitOrder(n) PROVE IInv' BY <2>1, CommitOrderInv, Zenon
    <2>2. ASSUME NEW n \in Orders, SendPlace(n) PROVE IInv' BY <2>2, SendPlaceInv, Zenon
    <2>3. ASSUME NEW n \in Orders, SendRevoke(n) PROVE IInv' BY <2>3, SendRevokeInv
    <2>4. ASSUME NEW n \in Orders, ApplyResult(n) PROVE IInv' BY <2>4, ApplyResultInv
    <2>5. CASE Crash BY <2>5, StopInv DEF Crash
    <2>6. CASE BeginBootstrap BY <2>6, BeginBootstrapInv
    <2>7. CASE FetchPage BY <2>7, FetchPageInv, Zenon
    <2>8. CASE RestoreOrder BY <2>8, RestoreOrderInv
    <2>9. CASE StartConsumers BY <2>9, StartConsumersInv
    <2>10. ASSUME NEW s \in Symbols, Deliver(s) PROVE IInv' BY <2>10, DeliverInv, Zenon
    <2>11. ASSUME NEW s \in Symbols, Decide(s) PROVE IInv' BY <2>11, DecideInv, Zenon
    <2>12. ASSUME NEW s \in Symbols, Worker(s) PROVE IInv' BY <2>12, WorkerInv
    <2>13. CASE TtlStep BY <2>13, TtlStepInv
    <2>14. CASE UNCHANGED vars
      <3>1. UNCHANGED <<db, invalid, unsent, results, topic, offset, phase, cursor, rows, crashes, restored,
                        bigNo, active, ttl, handling, queue, book, runs, known, given, overflow, early>>
        BY <2>14 DEF vars, orderService, broker, bootstrap, startQueue, workers, ghosts
      <3>2. Types' BY <3>1, Zenon DEF IInv, Types
      <3>3. Sent' BY <3>1, Zenon DEF IInv, Sent, PlaceAt, RevokeAt
      <3>3a. Committed' BY <3>1, Zenon DEF IInv, Committed
      <3>3b. Phases' BY <3>1, Zenon DEF IInv, Phases
      <3>3c. Fetched' BY <3>1, Zenon DEF IInv, Fetched
      <3>4. Window' /\ Once' BY <3>1, Zenon DEF IInv, Window, Once, Consumed, InRows, Queued
      <3>5. ClosedNotRevived' /\ Live' BY <3>1, Zenon DEF IInv, ClosedNotRevived, Live, InRows, Queued
      <3>6. LiveFromFetch' /\ Revoked' BY <3>1, Zenon DEF IInv, LiveFromFetch, Revoked, Consumed, InRows, Queued
      <3> QED BY <3>2, <3>3, <3>3a, <3>3b, <3>3c, <3>4, <3>5, <3>6, Zenon DEF IInv
    <2> QED BY <2>1, <2>2, <2>3, <2>4, <2>5, <2>6, <2>7, <2>8, <2>9, <2>10, <2>11, <2>12, <2>13, <2>14, Zenon DEF Next
  <1> QED BY <1>1, InitInv, PTL DEF Spec

\* The START_QUEUE window does its work (bootstrap.rs, start_queue.rs): as long
\* as the window outlasts the backlog no number is executed twice, none that was
\* closed when the rows were read comes back, and no open order is missing.
THEOREM OrdersRestoredOnce == Spec => []RestoredOnce
  <1>1. IInv => RestoredOnce
    <2> SUFFICES ASSUME IInv PROVE RestoredOnce OBVIOUS
    <2>1. TypeOK BY TypesOK DEF IInv
    <2>2. ExecutedOnce BY Zenon DEF IInv, Once, ExecutedOnce
    <2>3. OpenOrdersAreLive
      <3>1. phase = "consuming" => \A n : ~InRows(n)
        <4>1. phase = "consuming" => rows = <<>> BY Zenon DEF IInv, Phases
        <4> QED BY <4>1, EmptyRange, Zenon DEF InRows
      <3> QED BY <3>1, Zenon DEF IInv, LiveFromFetch, OpenOrdersAreLive
    <2> QED BY <2>1, <2>2, <2>3 DEF IInv, RestoredOnce, NoSecondExecution
  <1> QED BY <1>1, InboundInvariant, PTL

\* A cancellation is never lost to the window (should_dedupe skips CANCEL): once
\* decided on, not refused by a full channel, and taken by the worker, the order
\* it names does not rest in the book.
THEOREM RevokesAreHonoured == Spec => []RevokeHonoured
  <1>1. IInv => RevokeHonoured
    <2> SUFFICES ASSUME IInv, NEW n \in Orders \ invalid, Revoke(n) \in given \ overflow, ~Queued(Revoke(n))
                 PROVE  n \notin book
      BY Zenon DEF RevokeHonoured
    <2>1. \A i \in 1 .. Len(queue[SymbolOf[n]]) : queue[SymbolOf[n]][i] # Revoke(n)
      BY MessageFacts DEF Queued
    <2> QED BY <2>1, Zenon DEF IInv, Revoked
  <1> QED BY <1>1, InboundInvariant, PTL
=============================================================================
