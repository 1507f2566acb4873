------------------------------ MODULE MoldUdp ------------------------------
(***************************************************************************)
(* The market-data feed of match-moldudp64: publisher, shared history      *)
(* ring, retransmit server and one subscriber over UDP                     *)
(* (src/crates/match-moldudp64).                                           *)
(*                                                                         *)
(* Any number of threads publish; each call takes the number lock, the     *)
(* ring lock and the socket one after the other, so calls interleave       *)
(* between them.  Datagrams of every kind (data, heartbeats, requests and  *)
(* replies) are lost, repeated and reordered.  The subscriber runs the     *)
(* receive loop of the crate's documentation: parse the packet, and on a   *)
(* gap send one request for it.                                            *)
(*                                                                         *)
(* A payload is its publication number.  An option is a set of at most one *)
(* element.                                                                *)
(***************************************************************************)
EXTENDS Integers, Sequences, SequencesExt, FiniteSets

CONSTANTS
    Publishers,    \* threads that publish
    Cap,           \* slots of the ring
    BatchSizes,    \* sizes publish_batch packs into one datagram
    MaxRequest,    \* largest request the subscriber sends
    Wrap,          \* size of the sequence number space (2^64)
    MaxMsgs,       \* bound: messages published
    MaxHeartbeats, \* bound: heartbeats sent
    MaxLost,       \* bound: datagrams lost
    MaxRepeats,    \* bound: datagrams delivered again
    MaxTruncated   \* bound: datagrams larger than the receive buffer

ASSUME MoldAssumption ==
    /\ Cap \in Nat /\ Cap > 0 /\ MaxRequest \in Nat /\ MaxRequest > 0
    /\ MaxMsgs < Wrap /\ BatchSizes \subseteq 1..MaxMsgs

VARIABLES
    nextSeq,    \* next_seq
    ring,       \* the shared MessageRingBuf
    thread,     \* per publisher thread: where its call is and what it holds
    feed,       \* downstream datagrams in flight
    naks,       \* requests in flight
    lastSeq,    \* the subscriber's last_seq
    start,      \* first number the subscriber synchronised on
    assigned,   \* payload that was given each number, in order
    got,        \* <<number, payload>> pairs the subscriber was handed
    gaps,       \* gaps reported to the subscriber's caller, as [from, to]
    unanswered, \* history: first numbers of requests that were lost, or whose reply was
    called, heartbeats, lost, repeats, truncated   \* counters for the bounds

bounds == <<called, heartbeats, lost, repeats, truncated>>
pub == <<nextSeq, assigned, thread>>
sub == <<lastSeq, start, got, gaps>>
vars == <<ring, feed, naks, unanswered, pub, sub, bounds>>

Idle == [at |-> "idle", first |-> 0, seqs |-> <<>>, msgs |-> <<>>]
Packet(seq, msgs, reply) == [seq |-> seq, msgs |-> msgs, reply |-> reply]
Numbers(from, n) == [i \in 1..n |-> from + i - 1]

----------------------------------------------------------------------------
(* ring_buf.rs *)

EmptyRing ==
    [slots |-> [i \in 0..Cap - 1 |-> {}], writePos |-> 0, base |-> {}, first |-> {}]

\* (faulty form of Evicting) the watermark stays on the message that is gone
EvictingAt(r) ==
    IF r.slots[r.writePos] = {} THEN r.first
    ELSE {(CHOOSE m \in r.slots[r.writePos] : TRUE).seq}

\* The low watermark moves past the message whose slot is taken.
Evicting(r) ==
    IF r.slots[r.writePos] = {} THEN r.first
    ELSE {LET gone == (CHOOSE m \in r.slots[r.writePos] : TRUE).seq + 1
              floor == CHOOSE f \in r.first : TRUE
          IN IF floor > gone THEN floor ELSE gone}

Push(r, m) ==
    [slots |-> [r.slots EXCEPT ![r.writePos] = {m}],
     writePos |-> (r.writePos + 1) % Cap,
     base |-> IF r.base = {} THEN {m.seq} ELSE r.base,
     first |-> IF Evicting(r) = {} THEN {m.seq} ELSE Evicting(r)]

IndexOf(r, seq) == ((seq - (CHOOSE b \in r.base : TRUE) + Wrap) % Wrap) % Cap

Get(r, seq) == {m \in r.slots[IndexOf(r, seq)] : m.seq = seq}

\* The messages from a number on that the ring holds, up to the first it does not.
GetRange(r, from, count) ==
    IF r.base = {} THEN <<>>
    ELSE LET hits == {n \in 0..count :
                        \A i \in 0..n - 1 : Get(r, from + i) # {}}
             n == CHOOSE x \in hits : \A y \in hits : y <= x
         IN [i \in 1..n |-> (CHOOSE m \in Get(r, from + i - 1) : TRUE).msg]

Init ==
    /\ nextSeq = 1 /\ ring = EmptyRing
    /\ thread = [p \in Publishers |-> Idle]
    /\ feed = {} /\ naks = {} /\ unanswered = {}
    /\ lastSeq = {} /\ start = {}
    /\ assigned = <<>> /\ got = {} /\ gaps = {}
    /\ called = 0 /\ heartbeats = 0 /\ lost = 0 /\ repeats = 0 /\ truncated = 0

----------------------------------------------------------------------------
(* publisher.rs *)

\* The payloads of the next call.
Payloads(n) == Numbers(called + 1, n)

TakeNumbers(p, first, msgs) ==
    /\ nextSeq' = nextSeq + Len(msgs)
    /\ assigned' = assigned \o msgs
    /\ thread' = [thread EXCEPT ![p] = [at |-> "cache", first |-> first,
                                        seqs |-> Numbers(nextSeq, Len(msgs)), msgs |-> msgs]]

\* publish, first lock: alloc_seq.
Publish(p) ==
    /\ thread[p].at = "idle" /\ called < MaxMsgs
    /\ TakeNumbers(p, nextSeq, Payloads(1))
    /\ called' = called + 1
    /\ UNCHANGED <<ring, feed, naks, unanswered, sub, heartbeats, lost, repeats, truncated>>

\* publish_batch, first lock: read first_seq, then choose what fits.
StartBatch(p, n) ==
    /\ thread[p].at = "idle" /\ called + n <= MaxMsgs
    /\ thread' = [thread EXCEPT ![p] = [at |-> "commit", first |-> nextSeq,
                                        seqs |-> <<>>, msgs |-> Payloads(n)]]
    /\ called' = called + n
    /\ UNCHANGED <<ring, feed, naks, unanswered, sub, nextSeq, assigned, heartbeats, lost, repeats, truncated>>

\* publish_batch, second lock: take the numbers.
CommitBatch(p) ==
    /\ thread[p].at = "commit"
    /\ TakeNumbers(p, thread[p].first, thread[p].msgs)
    /\ UNCHANGED <<ring, feed, naks, unanswered, sub, bounds>>

\* The ring lock: push everything the call publishes.
Cache(p) ==
    /\ thread[p].at = "cache"
    /\ LET t == thread[p]
       IN ring' = FoldLeft(Push, ring, [i \in 1..Len(t.seqs) |-> [seq |-> t.seqs[i], msg |-> t.msgs[i]]])
    /\ thread' = [thread EXCEPT ![p].at = "send"]
    /\ UNCHANGED <<feed, naks, unanswered, sub, nextSeq, assigned, bounds>>

SendPacket(p) ==
    /\ thread[p].at = "send"
    /\ feed' = feed \cup {Packet(thread[p].first, thread[p].msgs, FALSE)}
    /\ thread' = [thread EXCEPT ![p] = Idle]
    /\ UNCHANGED <<ring, naks, unanswered, sub, nextSeq, assigned, bounds>>

SendHeartbeat ==
    /\ heartbeats < MaxHeartbeats
    /\ feed' = feed \cup {Packet(nextSeq, <<>>, FALSE)}
    /\ heartbeats' = heartbeats + 1
    /\ UNCHANGED <<ring, naks, unanswered, pub, sub, called, lost, repeats, truncated>>

----------------------------------------------------------------------------
(* retransmit.rs *)

\* serve_once: one request, one reply with what the ring holds of it.
ServeNak(m) ==
    /\ m \in naks
    /\ \/ naks' = naks \ {m} /\ UNCHANGED repeats
       \/ repeats < MaxRepeats /\ repeats' = repeats + 1 /\ UNCHANGED naks
    /\ LET msgs == GetRange(ring, m.from, m.count)
       IN feed' = IF msgs = <<>> THEN feed ELSE feed \cup {Packet(m.from, msgs, TRUE)}
    /\ UNCHANGED <<ring, unanswered, pub, sub, called, heartbeats, lost, truncated>>

----------------------------------------------------------------------------
(* subscriber.rs *)

Larger(a, b) == IF a > b THEN a ELSE b

Raised(seq) == IF lastSeq = {} THEN {seq} ELSE {Larger(l, seq) : l \in lastSeq}

\* The datagram leaves the network, or the network will deliver it again.
Taken(d) ==
    /\ start' = IF lastSeq = {} /\ lastSeq' # {} THEN {d.seq} ELSE start
    /\ \/ feed' = feed \ {d} /\ UNCHANGED repeats
       \/ repeats < MaxRepeats /\ repeats' = repeats + 1 /\ UNCHANGED feed

\* A heartbeat raises the watermark to the number before the advertised one.
OnHeartbeat(d) ==
    /\ d \in feed /\ d.msgs = <<>>
    /\ lastSeq' = IF lastSeq = {} /\ d.seq = 1 THEN {} ELSE Raised(d.seq - 1)
    /\ Taken(d)
    /\ UNCHANGED <<ring, naks, unanswered, pub, got, gaps, called, heartbeats, lost, truncated>>

Expected(d) == IF lastSeq = {} THEN d.seq ELSE (CHOOSE l \in lastSeq : TRUE) + 1

\* (faulty form of HasGap) one lost message goes unnoticed
HasGapOfTwo(d) == d.seq > Expected(d) + 1

HasGap(d) == d.seq > Expected(d)

\* (faulty form of Request) the request starts behind the first lost message
RequestLate(d) == [from |-> Expected(d) + 1, count |-> d.seq - Expected(d)]

\* auto_nak: one request for the gap, capped.
Request(d) ==
    LET missing == d.seq - Expected(d)
    IN [from |-> Expected(d), count |-> IF missing < MaxRequest THEN missing ELSE MaxRequest]

\* parse_packet on a datagram of which n blocks arrived, then the caller's auto_nak.
\* Only a whole packet moves the watermark.
OnData(d, n) ==
    /\ d \in feed /\ d.msgs # <<>>
    /\ \/ n = Len(d.msgs) /\ lastSeq' = Raised(d.seq + n - 1) /\ UNCHANGED truncated
       \/ /\ n < Len(d.msgs) /\ truncated < MaxTruncated
          /\ truncated' = truncated + 1 /\ UNCHANGED lastSeq
    /\ Taken(d)
    /\ got' = got \cup {<<d.seq + i - 1, d.msgs[i]>> : i \in 1..n}
    /\ IF HasGap(d)
         THEN /\ gaps' = gaps \cup {[from |-> Expected(d), to |-> d.seq - 1]}
              /\ naks' = naks \cup {Request(d)}
         ELSE UNCHANGED <<gaps, naks>>
    /\ UNCHANGED <<ring, unanswered, pub, called, heartbeats, lost>>

----------------------------------------------------------------------------
(* The network, and the whole system. *)

\* A datagram of the feed or a reply is lost.
LoseDownstream ==
    \E d \in feed :
      /\ feed' = feed \ {d}
      /\ unanswered' = IF d.reply THEN unanswered \cup {d.seq} ELSE unanswered
      /\ UNCHANGED naks

LoseRequest ==
    \E m \in naks :
      /\ naks' = naks \ {m}
      /\ unanswered' = unanswered \cup {m.from}
      /\ UNCHANGED feed

Lose ==
    /\ lost < MaxLost /\ lost' = lost + 1
    /\ LoseDownstream \/ LoseRequest
    /\ UNCHANGED <<ring, pub, sub, called, heartbeats, repeats, truncated>>

Call(p) == CommitBatch(p) \/ Cache(p) \/ SendPacket(p)
Receive(d) == OnHeartbeat(d) \/ \E n \in 0..MaxMsgs : OnData(d, n)

Next ==
    \/ \E p \in Publishers :
         Publish(p) \/ (\E n \in BatchSizes : StartBatch(p, n)) \/ Call(p)
    \/ SendHeartbeat
    \/ \E m \in naks : ServeNak(m)
    \/ \E d \in feed : Receive(d)
    \/ Lose

Spec == Init /\ [][Next]_vars
----------------------------------------------------------------------------
(* Properties. *)

Seqs == 1..MaxMsgs
Option(S) == {{}} \cup {{x} : x \in S}

\* Every variable has its type; the numbers given out are as many as the payloads.
TypeOK ==
    /\ nextSeq = Len(assigned) + 1 /\ assigned \in Seq(Seqs)
    /\ ring.slots \in [0..Cap - 1 -> Option([seq : Seqs, msg : Seqs])]
    /\ ring.writePos \in 0..Cap - 1
    /\ ring.base \in Option(Seqs) /\ ring.first \in Option(1..MaxMsgs + 1)
    /\ lastSeq \in Option(0..MaxMsgs) /\ start \in Option(1..MaxMsgs + 1)
    /\ got \subseteq Seqs \X Seqs
    /\ gaps \subseteq [from : Seqs, to : Seqs]
    /\ naks \subseteq [from : Seqs, count : 1..MaxRequest] /\ unanswered \subseteq Seqs

\* The subscriber is never handed a payload under another message's number: not
\* from the feed, not from the ring after any number of evictions.
DeliveredAsAssigned ==
    \A x \in got : x[1] <= Len(assigned) /\ assigned[x[1]] = x[2]

Cached == UNION {ring.slots[i] : i \in 0..Cap - 1}

\* Every message the ring holds is found under its number, although push places
\* it by position and get looks it up by (seq - base) % capacity.
CachedIsFound == \A m \in Cached : Get(ring, m.seq) = {m}

\* eviction_floor separates what the ring lost from what it holds, and the ring
\* always holds the newest Cap messages that were pushed.
FloorIsExact ==
    \A f \in ring.first :
      {m.seq : m \in Cached} = f..f + Cardinality(Cached) - 1

\* The history ring answers retransmit requests from exactly what it holds,
\* and neither it nor the feed hands over a payload under a wrong number.
RingSound == TypeOK /\ CachedIsFound /\ FloorIsExact /\ DeliveredAsAssigned

Received == {x[1] : x \in got}
Reported == UNION {g.from..g.to : g \in gaps}

OnTheWay ==
    UNION ({d.seq..d.seq + Len(d.msgs) - 1 : d \in feed}
             \cup {ToSet(thread[p].seqs) : p \in Publishers})

\* Since the subscriber synchronised, the numbers its watermark has passed.
Passed == {s \in Seqs : (\E f \in start : f <= s) /\ (\E l \in lastSeq : s <= l)}

\* Whatever the order, loss and repetition of packets, a message the watermark has
\* passed was received, was reported to the caller as lost, or is still on its way.
\* (Not so with heartbeats: they raise the watermark and report nothing.)
LossReported == heartbeats = 0 => Passed \subseteq Received \cup Reported \cup OnTheWay

\* When nothing is under way any more, a reported gap has been filled as far as
\* its request reached, unless the request or its reply was lost (a gap is asked
\* for once, and the watermark has passed it), the ring had evicted its first
\* message (get_range replies with nothing then) or a datagram was cut short.
GapsFilled ==
    (feed = {} /\ naks = {} /\ (\A p \in Publishers : thread[p] = Idle) /\ truncated = 0) =>
      \A g \in gaps :
        \/ {s \in g.from..g.to : s < g.from + MaxRequest} \subseteq Received
        \/ g.from \in unanswered
        \/ g.from \notin {m.seq : m \in Cached}
=============================================================================
