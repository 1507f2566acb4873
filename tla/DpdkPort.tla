------------------------------ MODULE DpdkPort ------------------------------
(***************************************************************************)
(* The DPDK programs of match-dpdk-io: one polling loop each over a port   *)
(* with one receive and one transmit queue and one pool of mbufs.          *)
(*                                                                         *)
(*   tap   dpdk_tap_order: order gateway on net_tap or on a pcap file      *)
(*   soup  mold_soup_dpdk, mold  mold_dpdk_rx: replay of a pcap file       *)
(*   nic   mold_dpdk_rx --nic: the same loop on a card, without an end     *)
(*   tx    mold_dpdk_tx: sends frames                                      *)
(*                                                                         *)
(* An mbuf is a buffer the code allocates or receives and must hand back   *)
(* with rte_pktmbuf_free.  A frame is the header fields the parsers look   *)
(* at, the number of datagrams the session answers with (`outs') and       *)
(* whether it is an order the engine takes; sessions and engine are in     *)
(* UdpOrder, SoupSession and MoldUdp.                                      *)
(***************************************************************************)
EXTENDS Integers, Sequences, SequencesExt, FiniteSets, FiniteSetsExt

CONSTANTS
    Mbufs,     \* the mbufs of the pool (MBUF_POOL_SIZE)
    Burst,     \* mbufs of one burst
    Programs,  \* the programs modelled
    Files,     \* the frame sequences a port may deliver or a program may send
    Expects    \* values of the variable EXPECT: {} unset, {n}

Ipv4 == 2048
Udp == 17
Headers == 14 + 20 + 8
Word == 65536

VARIABLES
    prog,       \* the program that runs
    expect,     \* EXPECT
    file,       \* what the port delivers in all
    todo,       \* what it has not delivered yet
    pool,       \* free list of the pool
    hand,       \* mbufs of the current burst, with their frames
    wire,       \* mbufs the driver transmits, with their frames
    phase,      \* "poll", "handle", "reply", "stopped"
    sending,    \* datagrams left to send for the current frame
    processed,  \* frames whose payload the program has taken, in order
    frames,     \* frames the gateway could not parse
    late        \* more than `idle' seconds have passed since the start

vars == <<prog, expect, file, todo, pool, hand, wire, phase, sending, processed, frames, late>>

Replays == {"soup", "mold"}

Init ==
    /\ prog \in Programs /\ file \in Files
    /\ expect \in IF prog = "tap" THEN Expects ELSE {{}}
    /\ todo = file
    /\ pool = SetToSeq(Mbufs)
    /\ hand = <<>> /\ wire = {}
    /\ phase = "poll"
    /\ sending = 0 /\ processed = <<>> /\ frames = 0 /\ late = FALSE

-----------------------------------------------------------------------------
NotParsed == [off |-> 0, len |-> -1]

\* The gateway's parser: where the UDP payload lies in the mbuf.
ParseFrame(f) ==
    LET off == 14 + f.ihl + 8
    IN  IF \/ f.total < Headers
           \/ f.ether # Ipv4
           \/ f.proto # Udp
           \/ f.udpLen < 8
           \/ off + (f.udpLen - 8) > f.total
        THEN NotParsed
        ELSE [off |-> off, len |-> f.udpLen - 8]

\* (faulty form of UdpPayload) The length of the UDP header is believed.
UdpPayloadBelieved(f) ==
    IF f.total < Headers \/ f.ether # Ipv4 \/ f.proto # Udp \/ f.udpLen < 8
    THEN NotParsed
    ELSE [off |-> 14 + f.ihl + 8, len |-> f.udpLen - 8]

\* The parser of the replay programs.
UdpPayload(f) ==
    LET off == 14 + f.ihl + 8
    IN  IF \/ f.total < Headers
           \/ f.ether # Ipv4
           \/ f.proto # Udp
           \/ off > f.total \/ f.udpLen < 8
           \/ off + (f.udpLen - 8) > f.total
        THEN NotParsed
        ELSE [off |-> off, len |-> f.udpLen - 8]

Parse(f) == IF prog = "tap" THEN ParseFrame(f) ELSE UdpPayload(f)
Parses(f) == Parse(f) # NotParsed

\* The ones' complement sum of 16-bit words: carries are added back until
\* none is left (two rounds are enough for the words of a header).
OnesSum(words) ==
    LET fold(n) == (n % Word) + (n \div Word)
    IN  fold(fold(FoldLeft(LAMBDA a, b : a + b, 0, words)))

Checksum(words) == Word - 1 - OnesSum(words)

\* The words of the IPv4 header with a given checksum field.
IpWords(f, sum) ==
    <<17664, f.total - 14, 0, 0, 64 * 256 + f.proto, sum>> \o f.src.ip \o f.dst.ip

\* A frame with n bytes of payload, as all programs build it.
EthIpUdpHeader(src, dst, n) ==
    [total |-> Headers + n, ether |-> Ipv4, proto |-> Udp, ihl |-> 20, udpLen |-> 8 + n,
     src |-> src, dst |-> dst, sum |-> 0, outs |-> 0, order |-> FALSE]

\* (faulty form of ReplyTo) The checksum is taken before the addresses are written.
ReplyToEarlySum(f, n) ==
    LET r == EthIpUdpHeader(f.dst, f.src, n)
    IN  [r EXCEPT !.sum = Checksum(SubSeq(IpWords(r, 0), 1, 6))]

\* The answer to frame f: addresses exchanged, header checksum filled in.
ReplyTo(f, n) ==
    LET r == EthIpUdpHeader(f.dst, f.src, n)
    IN  [r EXCEPT !.sum = Checksum(IpWords(r, 0))]

-----------------------------------------------------------------------------
\* rte_eth_rx_burst: the driver takes an mbuf from the pool for each frame.
\* With no frame or no mbuf the burst is empty: a replay ends there, the
\* gateway and the card poll again (`continue', a step that changes nothing).
RxBurst(n) ==
    /\ phase = "poll" /\ prog # "tx"
    /\ n \in 0 .. Min({Burst, Len(todo), Len(pool)})
    /\ n = 0 => (todo = <<>> \/ pool = <<>>) /\ prog \in Replays
    /\ hand' = [i \in 1 .. n |-> [mbuf |-> pool[i], frame |-> todo[i]]]
    /\ pool' = SubSeq(pool, n + 1, Len(pool))
    /\ todo' = SubSeq(todo, n + 1, Len(todo))
    /\ phase' = IF n = 0 THEN "stopped" ELSE "handle"
    /\ UNCHANGED <<prog, expect, file, wire, sending, processed, frames, late>>

\* A frame that parses goes to the session, which answers with datagrams.
TakeFrame ==
    /\ phase = "handle" /\ hand # <<>>
    /\ Parses(Head(hand).frame)
    /\ processed' = Append(processed, Head(hand).frame)
    /\ sending' = IF prog = "tap" THEN Head(hand).frame.outs ELSE 0
    /\ phase' = "reply"
    /\ UNCHANGED <<prog, expect, file, todo, pool, hand, wire, frames, late>>

\* (faulty form of SkipFrame) No program frees what does not parse.
SkipFrameKeeps ==
    /\ phase = "handle" /\ hand # <<>>
    /\ ~ Parses(Head(hand).frame)
    /\ hand' = Tail(hand)
    /\ frames' = IF prog = "tap" THEN frames + 1 ELSE frames
    /\ UNCHANGED <<prog, expect, file, todo, pool, wire, phase, sending, processed, late>>

\* A frame that does not parse: the replay programs free its mbuf, the
\* gateway counts it and goes on to the next one.
SkipFrame ==
    /\ phase = "handle" /\ hand # <<>>
    /\ ~ Parses(Head(hand).frame)
    /\ hand' = Tail(hand)
    /\ IF prog = "tap" THEN frames' = frames + 1 /\ UNCHANGED pool
                       ELSE pool' = Append(pool, Head(hand).mbuf) /\ UNCHANGED frames
    /\ UNCHANGED <<prog, expect, file, todo, wire, phase, sending, processed, late>>

\* (faulty form of TxFrameFrom) The mbuf is freed after a successful burst too.
TxFrameFromFrees(frame) ==
    \/ pool = <<>> /\ UNCHANGED <<pool, wire>>
    \/ /\ pool # <<>>
       /\ pool' = Append(Tail(pool), Head(pool))
       /\ wire' \in {wire, wire \cup {[mbuf |-> Head(pool), frame |-> frame]}}

\* rte_pktmbuf_alloc may find the pool empty; append or the transmit burst
\* may refuse the frame, which frees the mbuf; otherwise the driver owns it.
TxFrameFrom(frame) ==
    \/ pool = <<>> /\ UNCHANGED <<pool, wire>>
    \/ pool # <<>> /\ pool' = Append(Tail(pool), Head(pool)) /\ UNCHANGED wire
    \/ /\ pool # <<>>
       /\ pool' = Tail(pool)
       /\ wire' = wire \cup {[mbuf |-> Head(pool), frame |-> frame]}

\* One answer of the gateway; a failed send is logged and nothing more.
TxReply ==
    /\ phase = "reply" /\ sending > 0
    /\ TxFrameFrom(ReplyTo(Head(hand).frame, sending))
    /\ sending' = sending - 1
    /\ UNCHANGED <<prog, expect, file, todo, hand, phase, processed, frames, late>>

\* rte_pktmbuf_free at the end of the loop over the burst.
FreeFrame ==
    /\ phase = "reply" /\ sending = 0
    /\ pool' = Append(pool, Head(hand).mbuf)
    /\ hand' = Tail(hand)
    /\ phase' = "handle"
    /\ UNCHANGED <<prog, expect, file, todo, wire, sending, processed, frames, late>>

\* The counter `processed': orders the engine has seen.
Orders == Len(SelectSeq(processed, LAMBDA f : f.order))

\* Behind a burst: the gateway looks at EXPECT and at the time since the start.
EndOfBurst ==
    /\ phase = "handle" /\ hand = <<>>
    /\ phase' = IF prog = "tap" /\ (late \/ \E e \in expect : Orders >= e)
                THEN "stopped" ELSE "poll"
    /\ UNCHANGED <<prog, expect, file, todo, pool, hand, wire, sending, processed, frames, late>>

\* mold_dpdk_tx: tx_frame for each frame, the first failure ends the program.
TxFrame ==
    /\ phase = "poll" /\ prog = "tx"
    /\ IF todo = <<>>
       THEN phase' = "stopped" /\ UNCHANGED <<todo, pool, wire>>
       ELSE /\ TxFrameFrom(Head(todo))
            /\ todo' = Tail(todo)
            /\ phase' = IF wire' = wire THEN "stopped" ELSE "poll"
    /\ UNCHANGED <<prog, expect, file, hand, sending, processed, frames, late>>

\* The driver has transmitted a frame and frees its mbuf.
TxDone(w) ==
    /\ w \in wire
    /\ wire' = wire \ {w}
    /\ pool' = Append(pool, w.mbuf)
    /\ UNCHANGED <<prog, expect, file, todo, hand, phase, sending, processed, frames, late>>

\* The clock the gateway reads passes its limit (5 s with a file, 600 s without).
Elapse ==
    /\ prog = "tap" /\ phase # "stopped" /\ ~ late
    /\ late' = TRUE
    /\ UNCHANGED <<prog, expect, file, todo, pool, hand, wire, phase, sending, processed, frames>>

Program ==
    \/ \E n \in 0 .. Burst : RxBurst(n)
    \/ TakeFrame \/ SkipFrame \/ TxReply \/ FreeFrame \/ EndOfBurst \/ TxFrame

Driver == \E w \in wire : TxDone(w)

Next == Program \/ Driver \/ Elapse

Spec == Init /\ [][Next]_vars

\* The loop runs on a core of its own, the driver transmits, time passes.
FairSpec == Spec /\ WF_vars(Program) /\ WF_vars(Driver) /\ WF_vars(Elapse)

-----------------------------------------------------------------------------
InHand == {hand[i].mbuf : i \in DOMAIN hand}
OnWire == {w.mbuf : w \in wire}
Parseable(s) == SelectSeq(s, Parses)

\* Frames of the burst at hand that the program has not looked at yet.
Untaken ==
    LET n == IF phase = "reply" THEN 1 ELSE 0
    IN  [i \in 1 .. Len(hand) - n |-> hand[i + n].frame]

\* Every mbuf is in one place: in the pool once, in the burst at hand or with
\* the driver; the ones in no place are as many as the frames the gateway
\* counted as not parsed, and none in the other programs.  No send that
\* fails, and no answer on an empty pool, loses or doubles one.  Frames reach
\* the session once, in the order of the port.
PortSound ==
    /\ Len(pool) = Cardinality(ToSet(pool))
    /\ ToSet(pool) \cap (InHand \cup OnWire) = {} /\ InHand \cap OnWire = {}
    /\ Cardinality(OnWire) = Cardinality(wire)
    /\ Cardinality(Mbufs \ (ToSet(pool) \cup InHand \cup OnWire)) = frames
    /\ prog # "tap" => frames = 0
    /\ prog # "tx" => Parseable(file) = processed \o Parseable(Untaken \o todo)

\* The payload the parsers point at lies inside the frame, whatever the length
\* field of the UDP header says, and both parsers agree; what the programs
\* send parses to the payload that was put in, goes back to the sender, and
\* its IPv4 header sums to all ones as a receiver checks it.
FramesExact ==
    /\ \A i \in DOMAIN file :
         LET p == UdpPayload(file[i])
         IN  /\ p = ParseFrame(file[i])
             /\ p # NotParsed => p.len >= 0 /\ p.off >= Headers /\ p.off + p.len <= file[i].total
    /\ prog = "tap" => \A w \in wire :
         /\ ParseFrame(w.frame) = [off |-> Headers, len |-> w.frame.total - Headers]
         /\ OnesSum(IpWords(w.frame, w.frame.sum)) = Word - 1
         /\ \E i \in DOMAIN processed :
              w.frame.src = processed[i].dst /\ w.frame.dst = processed[i].src

\* A replay program reads its file to the end and stops.
ReplayEnds == prog \in Replays ~> phase = "stopped" /\ todo = <<>>

\* The comment at the watchdog of dpdk_tap_order: a file replay exits after
\* five idle seconds once the file has been read to its end.
StopsWhenDrained == (prog = "tap" /\ todo = <<>>) ~> phase = "stopped"
=============================================================================
