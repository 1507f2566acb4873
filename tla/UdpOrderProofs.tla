--------------------------- MODULE UdpOrderProofs ---------------------------
(***************************************************************************)
(* Proofs about the order session of UdpOrder, for every number of orders, *)
(* reports and restarts, every window and every network of lost, copied    *)
(* and reordered datagrams: the engine gets no order twice, and ACK_OK is  *)
(* said only of an order the gateway has handled.                          *)
(*                                                                         *)
(* The argument rests on the numbers the client gave its orders: a         *)
(* function from orders to sequence numbers exists that every datagram and *)
(* every pending entry agrees with.  What the engine got has a number      *)
(* below expected_client_seq, and the order it gets next has exactly that  *)
(* number.  Until the client restarts the function is the identity.        *)
(***************************************************************************)
EXTENDS UdpOrder, TLAPS

Types ==
  /\ sent \in Nat /\ restarts \in Nat
  /\ nextOrder \in Nat \ {0} /\ expOrder \in Nat \ {0}
  /\ accepted \in Seq(Nat)

\* num[i] is the sequence number order i was sent with.
Numbered(num) ==
  /\ num \in [1..sent -> Nat \ {0}]
  /\ \A m \in net : m.type = "order" => m.id \in 1..sent /\ m.seq = num[m.id]
  /\ \A s \in DOMAIN pending : pending[s] \in 1..sent /\ num[pending[s]] = s
  /\ \A k \in 1..Len(accepted) : accepted[k] \in 1..sent /\ num[accepted[k]] < expOrder
  /\ restarts = 0 => nextOrder = sent + 1 /\ \A i \in 1..sent : num[i] = i

\* ACK_OK is under way only for numbers below the expected one.
OkBehind == \A m \in net : m.type = "ack" /\ m.res = "ok" => m.seq \in Nat /\ m.seq < expOrder

\* In the first client session the gateway has handled all numbers below the
\* expected one, and the client was told ACK_OK of no other.
FirstSession ==
  restarts = 0 => /\ \A i \in Nat \ {0} : i < expOrder => i \in Decided
                  /\ \A i \in okd : i \in Nat \ {0} /\ i < expOrder

IInv ==
  /\ Types
  /\ \E num : Numbered(num)
  /\ OkBehind
  /\ AcceptedInOrder
  /\ FirstSession
----------------------------------------------------------------------------
\* The session starts with nothing sent.
LEMMA InitIInv == Init => IInv
<1> SUFFICES ASSUME Init PROVE IInv
  OBVIOUS
<1>1. Types
  BY DEF Init, Types
<1>2. Numbered([i \in 1..0 |-> 1])
  BY DEF Init, Numbered
<1>3. OkBehind
  BY DEF Init, OkBehind
<1>4. AcceptedInOrder
  BY DEF Init, AcceptedInOrder
<1>5. FirstSession
  BY DEF Init, FirstSession
<1> QED
  BY <1>1, <1>2, <1>3, <1>4, <1>5 DEF IInv

\* Datagrams of the other kinds leave the numbering of orders alone.
LEMMA Kinds ==
  /\ \A s, i : Order(s, i).type = "order" /\ Order(s, i).seq = s /\ Order(s, i).id = i
  /\ \A s, r : Ack(s, r).type = "ack" /\ Ack(s, r).seq = s /\ Ack(s, r).res = r
  /\ \A s : Report(s).type = "report"
  /\ \A f, c : NakRequest(f, c).type = "nak"
  /\ \A f, c : ServerNak(f, c).type = "server_nak"
  /\ \A q : NakResponse(q).type = "nak_response"
BY DEF Order, Ack, Report, NakRequest, ServerNak, NakResponse

\* Steps that leave the orders, the acknowledgements and the engine as they
\* are keep the invariant.
LEMMA Neutral ==
  ASSUME IInv,
         UNCHANGED <<sent, restarts, nextOrder, expOrder, accepted, rejected, pending, okd>>,
         \A m \in net' : m \in net \/ (m.type = "order" /\ \E s \in DOMAIN pending : m = Order(s, pending[s]))
                         \/ (m.type = "ack" /\ (m.res = "ok" => m.seq \in Nat /\ m.seq < expOrder))
                         \/ m.type \notin {"order", "ack"}
  PROVE  IInv'
<1>1. Types'
  BY DEF IInv, Types
<1>2. PICK num : Numbered(num)
  BY DEF IInv
<1>3. Numbered(num)'
  <2>1. \A m \in net' : m.type = "order" => m.id \in 1..sent /\ m.seq = num[m.id]
    <3> SUFFICES ASSUME NEW m \in net', m.type = "order"
                 PROVE  m.id \in 1..sent /\ m.seq = num[m.id]
      OBVIOUS
    <3>1. CASE m \in net
      BY <3>1, <1>2 DEF Numbered
    <3>2. CASE \E s \in DOMAIN pending : m = Order(s, pending[s])
      BY <3>2, <1>2, Kinds DEF Numbered
    <3> QED
      BY <3>1, <3>2
  <2> QED
    BY <1>2, <2>1 DEF Numbered
<1>4. OkBehind'
  <2> SUFFICES ASSUME NEW m \in net', m.type = "ack", m.res = "ok"
               PROVE  m.seq \in Nat /\ m.seq < expOrder
    BY DEF OkBehind
  <2> QED
    BY DEF IInv, OkBehind
<1>5. AcceptedInOrder' /\ FirstSession'
  BY DEF IInv, AcceptedInOrder, FirstSession, Decided, Range
<1> QED
  BY <1>1, <1>3, <1>4, <1>5 DEF IInv

\* A new order gets the client's next number.
LEMMA SendKeeps == ASSUME IInv, SendOrder PROVE IInv'
<1> USE DEF SendOrder
<1>0. Types
  BY DEF IInv
<1>1. Types'
  BY <1>0 DEF Types, server
<1>2. PICK num : Numbered(num)
  BY DEF IInv
<1>3. PICK num2 :
      /\ num2 \in [1..(sent + 1) -> Nat \ {0}]
      /\ num2[sent + 1] = nextOrder
      /\ \A i \in 1..sent : i \in 1..(sent + 1) /\ num2[i] = num[i]
  <2> DEFINE f == [i \in 1..(sent + 1) |-> IF i = sent + 1 THEN nextOrder ELSE num[i]]
  <2>1. f \in [1..(sent + 1) -> Nat \ {0}] /\ f[sent + 1] = nextOrder
    BY <1>0, <1>2 DEF Types, Numbered
  <2>2. \A i \in 1..sent : i \in 1..(sent + 1) /\ f[i] = num[i]
    BY <1>0 DEF Types
  <2> QED
    BY <2>1, <2>2
<1>4. /\ DOMAIN pending' = DOMAIN pending \cup {nextOrder}
      /\ pending'[nextOrder] = sent + 1
      /\ \A s \in DOMAIN pending : s # nextOrder => pending'[s] = pending[s]
  OBVIOUS
<1>5. Numbered(num2)'
  <2>1. \A m \in net' : m.type = "order" => m.id \in 1..(sent + 1) /\ m.seq = num2[m.id]
    <3> SUFFICES ASSUME NEW m \in net', m.type = "order"
                 PROVE  m.id \in 1..(sent + 1) /\ m.seq = num2[m.id]
      OBVIOUS
    <3>1. CASE m \in net
      BY <3>1, <1>2, <1>3 DEF Numbered
    <3>2. CASE m = Order(nextOrder, sent + 1)
      <4>1. m.seq = nextOrder /\ m.id = sent + 1
        BY <3>2, Kinds
      <4> QED
        BY <4>1, <1>0, <1>3 DEF Types
    <3> QED
      BY <3>1, <3>2
  <2>2. \A s \in DOMAIN pending' : pending'[s] \in 1..(sent + 1) /\ num2[pending'[s]] = s
    <3> SUFFICES ASSUME NEW s \in DOMAIN pending'
                 PROVE  pending'[s] \in 1..(sent + 1) /\ num2[pending'[s]] = s
      OBVIOUS
    <3>1. CASE s = nextOrder
      BY <3>1, <1>0, <1>3, <1>4 DEF Types
    <3>2. CASE s # nextOrder
      BY <3>2, <1>2, <1>3, <1>4 DEF Numbered
    <3> QED
      BY <3>1, <3>2
  <2>3. \A k \in 1..Len(accepted) : accepted[k] \in 1..(sent + 1) /\ num2[accepted[k]] < expOrder
    BY <1>2, <1>3 DEF Numbered
  <2>4. restarts = 0 => nextOrder' = sent' + 1 /\ \A i \in 1..(sent + 1) : num2[i] = i
    <3> SUFFICES ASSUME restarts = 0, NEW i \in 1..(sent + 1)
                 PROVE  nextOrder' = sent' + 1 /\ num2[i] = i
      BY <1>0, <1>2 DEF Types, Numbered
    <3>1. nextOrder = sent + 1
      BY <1>2 DEF Numbered
    <3>2. i \in 1..sent \/ i = sent + 1
      BY <1>0 DEF Types
    <3> QED
      BY <3>1, <3>2, <1>2, <1>3 DEF Numbered
  <2> QED
    BY <2>1, <2>2, <2>3, <2>4, <1>3 DEF Numbered, server
<1>6. OkBehind'
  <2> SUFFICES ASSUME NEW m \in net', m.type = "ack", m.res = "ok"
               PROVE  m.seq \in Nat /\ m.seq < expOrder
    BY DEF OkBehind, server
  <2>1. m \in net
    BY Kinds
  <2> QED
    BY <2>1 DEF IInv, OkBehind
<1>7. AcceptedInOrder' /\ FirstSession'
  BY DEF IInv, AcceptedInOrder, FirstSession, Decided, Range, server
<1> QED
  BY <1>1, <1>5, <1>6, <1>7 DEF IInv

\* An acknowledgement takes its order out of pending, and ACK_OK is of an
\* order handled.
LEMMA AckKeeps == ASSUME IInv, NEW m \in net, OnAck(m) PROVE IInv'
<1> USE DEF OnAck
<1>0. Types
  BY DEF IInv
<1>1. Types'
  BY <1>0 DEF Types, server
<1>2. PICK num : Numbered(num)
  BY DEF IInv
<1>3. /\ DOMAIN pending' \subseteq DOMAIN pending
      /\ \A s \in DOMAIN pending' : pending'[s] = pending[s]
  BY DEF Restrict
<1>4. net' \subseteq net
  BY DEF Exchange
<1>5. Numbered(num)'
  BY <1>2, <1>3, <1>4 DEF Numbered, server
<1>6. OkBehind'
  BY <1>4 DEF IInv, OkBehind, server
<1>7. AcceptedInOrder'
  BY DEF IInv, AcceptedInOrder, server
<1>8. FirstSession'
  <2> SUFFICES ASSUME restarts = 0
               PROVE  /\ \A i \in Nat \ {0} : i < expOrder => i \in Decided
                      /\ \A i \in okd' : i \in Nat \ {0} /\ i < expOrder
    BY DEF FirstSession, server, Decided, Range
  <2>1. ASSUME m.res = "ok", m.seq \in DOMAIN pending
        PROVE  pending[m.seq] \in Nat \ {0} /\ pending[m.seq] < expOrder
    <3>1. m.seq < expOrder
      BY <2>1 DEF IInv, OkBehind
    <3>2. pending[m.seq] \in 1..sent /\ num[pending[m.seq]] = m.seq
      BY <2>1, <1>2 DEF Numbered
    <3>3. pending[m.seq] = m.seq
      BY <3>2, <1>2 DEF Numbered
    <3> QED
      BY <3>1, <3>2, <3>3
  <2> QED
    BY <2>1 DEF IInv, FirstSession
<1> QED
  BY <1>1, <1>5, <1>6, <1>7, <1>8 DEF IInv

\* A new client session forgets what is pending; the orders under way keep
\* their numbers.
LEMMA RestartKeeps == ASSUME IInv, Restart PROVE IInv'
<1> USE DEF Restart
<1>0. Types
  BY DEF IInv
<1>1. Types' /\ restarts' # 0
  BY <1>0 DEF Types, server
<1>2. PICK num : Numbered(num)
  BY DEF IInv
<1>3. Numbered(num)'
  BY <1>1, <1>2 DEF Numbered, server
<1>4. OkBehind' /\ FirstSession'
  BY <1>1 DEF IInv, OkBehind, FirstSession, server
<1>5. AcceptedInOrder'
  BY <1>1 DEF IInv, AcceptedInOrder, server
<1> QED
  BY <1>1, <1>3, <1>4, <1>5 DEF IInv

\* What taking the expected order does to the numbering, whether the engine
\* gets it or the gateway cannot parse it.
LEMMA NextOrderKeeps ==
  ASSUME IInv, NEW m \in net, m.type = "order", IsNext(m),
         expOrder' = m.seq + 1,
         \/ accepted' = Append(accepted, m.id) /\ rejected' = rejected
         \/ accepted' = accepted /\ rejected' = rejected \cup {m.id},
         UNCHANGED client,
         \A d \in net' : \/ d \in net
                         \/ d.type = "ack" /\ d.seq = m.seq
                         \/ d.type \notin {"order", "ack"}
  PROVE  IInv'
<1> USE DEF client
<1>0. Types /\ m.seq = expOrder /\ expOrder' = expOrder + 1
  BY DEF IInv, IsNext
<1>1. PICK num : Numbered(num)
  BY DEF IInv
<1>2. m.id \in 1..sent /\ num[m.id] = expOrder /\ num \in [1..sent -> Nat \ {0}]
  BY <1>0, <1>1 DEF Numbered
<1>3. Types'
  <2>1. accepted' \in Seq(Nat)
    <3>1. m.id \in Nat /\ accepted \in Seq(Nat)
      BY <1>0, <1>2 DEF Types
    <3>2. Append(accepted, m.id) \in Seq(Nat)
      BY <3>1
    <3> QED
      BY <3>1, <3>2
  <2>2. expOrder' \in Nat \ {0}
    BY <1>0 DEF Types
  <2> QED
    BY <1>0, <2>1, <2>2 DEF Types
<1>4. \A k \in 1..Len(accepted') :
         \/ accepted'[k] = m.id /\ k = Len(accepted) + 1
         \/ k \in 1..Len(accepted) /\ accepted'[k] = accepted[k]
  BY <1>0 DEF Types
<1>5. \A k \in 1..Len(accepted) : accepted[k] \in 1..sent /\ num[accepted[k]] < expOrder
  BY <1>1 DEF Numbered
<1>6. Numbered(num)'
  <2>1. \A k \in 1..Len(accepted') : accepted'[k] \in 1..sent /\ num[accepted'[k]] < expOrder'
    <3> SUFFICES ASSUME NEW k \in 1..Len(accepted')
                 PROVE  accepted'[k] \in 1..sent /\ num[accepted'[k]] < expOrder'
      OBVIOUS
    <3>1. CASE accepted'[k] = m.id
      BY <3>1, <1>0, <1>2 DEF Types
    <3>2. CASE k \in 1..Len(accepted) /\ accepted'[k] = accepted[k]
      <4>1. accepted[k] \in 1..sent /\ num[accepted[k]] < expOrder
        BY <3>2, <1>5
      <4>2. num[accepted[k]] \in Nat
        BY <4>1, <1>2
      <4> QED
        BY <3>2, <4>1, <4>2, <1>0 DEF Types
    <3> QED
      BY <3>1, <3>2, <1>4
  <2>2. \A d \in net' : d.type = "order" => d.id \in 1..sent /\ d.seq = num[d.id]
    BY <1>1 DEF Numbered
  <2> QED
    BY <2>1, <2>2, <1>1 DEF Numbered
<1>7. OkBehind'
  <2> SUFFICES ASSUME NEW d \in net', d.type = "ack", d.res = "ok"
               PROVE  d.seq \in Nat /\ d.seq < expOrder'
    BY DEF OkBehind
  <2>1. CASE d \in net
    <3>1. d.seq \in Nat /\ d.seq < expOrder
      BY <2>1 DEF IInv, OkBehind
    <3> QED
      BY <3>1, <1>0 DEF Types
  <2>2. CASE d.seq = m.seq
    BY <2>2, <1>0 DEF Types
  <2> QED
    BY <2>1, <2>2
<1>8. AcceptedInOrder'
  <2>0. DOMAIN accepted = 1..Len(accepted) /\ DOMAIN accepted' = 1..Len(accepted')
    BY <1>0, <1>3 DEF Types
  <2>a. Len(accepted) \in Nat /\ Len(accepted') \in Nat
    BY <1>0, <1>3 DEF Types
  <2> SUFFICES ASSUME NEW i \in 1..Len(accepted'), NEW j \in 1..Len(accepted'), i < j
               PROVE  accepted'[i] # accepted'[j]
                      /\ (restarts = 0 => accepted'[i] < accepted'[j])
    BY <2>0 DEF AcceptedInOrder
  <2>1. j <= Len(accepted) + 1 /\ i \in 1..Len(accepted) /\ accepted'[i] = accepted[i]
    <3>1. j = Len(accepted) + 1 \/ j \in 1..Len(accepted)
      BY <1>4
    <3>2. i \in Nat /\ j \in Nat /\ Len(accepted) \in Nat /\ 1 <= i
      BY <2>a
    <3>3. i <= Len(accepted) /\ i # Len(accepted) + 1 /\ j <= Len(accepted) + 1
      BY <3>1, <3>2
    <3>4. accepted'[i] = accepted[i]
      BY <3>3, <1>4
    <3> QED
      BY <3>2, <3>3, <3>4
  <2>2. accepted[i] \in 1..sent /\ num[accepted[i]] < expOrder
    BY <2>1, <1>5
  <2>3. CASE accepted'[j] = m.id /\ j = Len(accepted) + 1
    <3>1. accepted[i] # m.id
      BY <2>2, <1>0, <1>2 DEF Types
    <3>2. restarts = 0 => num[m.id] = m.id /\ num[accepted[i]] = accepted[i]
      BY <1>1, <1>2, <2>2 DEF Numbered
    <3> QED
      BY <2>1, <2>2, <2>3, <1>2, <3>1, <3>2
  <2>4. CASE j \in 1..Len(accepted) /\ accepted'[j] = accepted[j]
    BY <2>0, <2>1, <2>4 DEF IInv, AcceptedInOrder
  <2> QED
    BY <2>3, <2>4, <1>4
<1>9. FirstSession'
  <2> SUFFICES ASSUME restarts = 0
               PROVE  /\ \A i \in Nat \ {0} : i < expOrder' => i \in Decided'
                      /\ \A i \in okd : i \in Nat \ {0} /\ i < expOrder'
    BY DEF FirstSession
  <2>1. m.id = expOrder
    BY <1>1, <1>2 DEF Numbered
  <2>2. Decided' = Decided \cup {m.id}
    <3>1. Range(accepted) = {accepted[k] : k \in 1..Len(accepted)}
      BY <1>0 DEF Types, Range
    <3>2. Range(accepted') = {accepted'[k] : k \in 1..Len(accepted')}
      BY <1>3 DEF Types, Range
    <3>3. CASE accepted' = Append(accepted, m.id) /\ rejected' = rejected
      <4>1. Len(accepted') = Len(accepted) + 1 /\ accepted'[Len(accepted) + 1] = m.id
            /\ \A k \in 1..Len(accepted) : accepted'[k] = accepted[k]
        BY <3>3, <1>0 DEF Types
      <4>2. 1..Len(accepted') = (1..Len(accepted)) \cup {Len(accepted) + 1}
        BY <4>1, <1>0 DEF Types
      <4>3. Range(accepted') = Range(accepted) \cup {m.id}
        BY <3>1, <3>2, <4>1, <4>2
      <4> QED
        BY <3>3, <4>3 DEF Decided
    <3>4. CASE accepted' = accepted /\ rejected' = rejected \cup {m.id}
      BY <3>4 DEF Decided, Range
    <3> QED
      BY <3>3, <3>4
  <2>3. \A i \in Nat \ {0} : i < expOrder' => i \in Decided'
    <3> SUFFICES ASSUME NEW i \in Nat \ {0}, i < expOrder'
                 PROVE  i \in Decided'
      OBVIOUS
    <3>1. i < expOrder \/ i = expOrder
      BY <1>0 DEF Types
    <3> QED
      BY <3>1, <2>1, <2>2 DEF IInv, FirstSession
  <2>4. \A i \in okd : i \in Nat \ {0} /\ i < expOrder'
    <3> SUFFICES ASSUME NEW i \in okd
                 PROVE  i \in Nat \ {0} /\ i < expOrder'
      OBVIOUS
    <3>1. i \in Nat \ {0} /\ i < expOrder
      BY DEF IInv, FirstSession
    <3> QED
      BY <3>1, <1>0 DEF Types
  <2> QED
    BY <2>3, <2>4
<1> QED
  BY <1>3, <1>6, <1>7, <1>8, <1>9 DEF IInv

\* The expected order goes to the engine, with ACK_OK and its reports.
LEMMA AcceptKeeps == ASSUME IInv, NEW m \in net, NEW n \in PerOrder, AcceptOrder(m, n) PROVE IInv'
<1>1. \A d \in net' : \/ d \in net
                      \/ d.type = "ack" /\ d.seq = m.seq
                      \/ d.type \notin {"order", "ack"}
  BY Kinds DEF AcceptOrder, Exchange
<1> QED
  BY <1>1, NextOrderKeeps DEF AcceptOrder

\* The expected order cannot be parsed: ACK_OK and ACK_REJECT.
LEMMA RejectKeeps == ASSUME IInv, NEW m \in net, RejectOrder(m) PROVE IInv'
<1>1. \A d \in net' : \/ d \in net
                      \/ d.type = "ack" /\ d.seq = m.seq
                      \/ d.type \notin {"order", "ack"}
  BY Kinds DEF RejectOrder, Exchange
<1> QED
  BY <1>1, NextOrderKeeps DEF RejectOrder

\* Steps of the session keep the invariant.
LEMMA NextKeeps == IInv /\ [Next]_vars => IInv'
<1> SUFFICES ASSUME IInv, [Next]_vars PROVE IInv'
  OBVIOUS
<1> USE DEF client, server
<1>1. CASE SendOrder
  BY <1>1, SendKeeps
<1>2. CASE Restart
  BY <1>2, RestartKeeps
<1>3. ASSUME NEW seq \in 1..MaxOrders, Retransmit(seq) PROVE IInv'
  <2>1. \A m \in net' : m \in net \/ (m.type = "order" /\ \E s \in DOMAIN pending : m = Order(s, pending[s]))
    BY <1>3, Kinds DEF Retransmit
  <2> QED
    BY <1>3, <2>1, Neutral DEF Retransmit
<1>4. ASSUME NEW m \in net, OnReport(m) PROVE IInv'
  <2>1. \A d \in net' : d \in net \/ d.type \notin {"order", "ack"}
    BY <1>4, Kinds DEF OnReport, Exchange, ReportGap
  <2> QED
    BY <1>4, <2>1, Neutral DEF OnReport
<1>5. ASSUME NEW m \in net, OnNakResponse(m) PROVE IInv'
  <2>1. \A d \in net' : d \in net
    BY <1>5 DEF OnNakResponse, Exchange
  <2> QED
    BY <1>5, <2>1, Neutral DEF OnNakResponse
<1>6. ASSUME NEW m \in net, OnAck(m) PROVE IInv'
  BY <1>6, AckKeeps
<1>7. ASSUME NEW m \in net, OnServerNak(m) PROVE IInv'
  <2>1. \A d \in net' : d \in net
    BY <1>7 DEF OnServerNak, Exchange
  <2> QED
    BY <1>7, <2>1, Neutral DEF OnServerNak
<1>8. ASSUME NEW m \in net, NEW n \in PerOrder, AcceptOrder(m, n) PROVE IInv'
  BY <1>8, AcceptKeeps
<1>9. ASSUME NEW m \in net, RejectOrder(m) PROVE IInv'
  BY <1>9, RejectKeeps
<1>10. ASSUME NEW m \in net, RepeatedOrder(m) PROVE IInv'
  <2>1. m.seq \in Nat
    BY <1>10 DEF IInv, Types, Numbered, RepeatedOrder
  <2>2. \A d \in net' : d \in net \/ (d.type = "ack" /\ (d.res = "ok" => d.seq \in Nat /\ d.seq < expOrder))
    BY <1>10, <2>1, Kinds DEF RepeatedOrder, Exchange
  <2> QED
    BY <1>10, <2>2, Neutral DEF RepeatedOrder
<1>11. ASSUME NEW m \in net, EarlyOrder(m) PROVE IInv'
  <2>1. \A d \in net' : \/ d \in net
                        \/ d.type = "ack" /\ d.res # "ok"
                        \/ d.type \notin {"order", "ack"}
    BY <1>11, Kinds DEF EarlyOrder, Exchange
  <2> QED
    BY <1>11, <2>1, Neutral DEF EarlyOrder
<1>12. ASSUME NEW m \in net, OnNakRequest(m) PROVE IInv'
  <2>1. PICK q : Exchange(m, {NakResponse(q)})
    BY <1>12, Zenon DEF OnNakRequest
  <2>2. \A d \in net' : d \in net \/ d.type \notin {"order", "ack"}
    BY <2>1, Kinds DEF Exchange
  <2>3. UNCHANGED <<client, server>>
    BY <1>12, Zenon DEF OnNakRequest
  <2> QED
    BY <2>2, <2>3, Neutral
<1>13. ASSUME NEW m \in net, Lose(m) PROVE IInv'
  BY <1>13, Neutral DEF Lose
<1>14. CASE UNCHANGED vars
  BY <1>14, Neutral DEF vars
<1> QED
  BY <1>1, <1>2, <1>3, <1>4, <1>5, <1>6, <1>7, <1>8, <1>9, <1>10, <1>11, <1>12, <1>13, <1>14
  DEF Next, OnDatagram

\* The engine gets each order at most once, and until the client restarts in
\* the order sent (ServerSession::on_datagram).
THEOREM OrdersAtMostOnce == Spec => []AcceptedInOrder
<1>1. IInv => AcceptedInOrder
  BY DEF IInv
<1> QED
  BY <1>1, InitIInv, NextKeeps, PTL DEF Spec

\* Until the client restarts, ACK_OK is said only of an order the gateway has
\* given to the engine or has rejected (ServerSession::on_datagram).
THEOREM OkIsHandled == Spec => []OkMeansHandled
<1>1. IInv => OkMeansHandled
  BY DEF IInv, FirstSession, OkMeansHandled
<1> QED
  BY <1>1, InitIInv, NextKeeps, PTL DEF Spec
=============================================================================
