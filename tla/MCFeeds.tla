------------------------------ MODULE MCFeeds ------------------------------
(* The feeds in one model: MoldUDP64 market data, the SoupBinTCP sessions  *)
(* and framing, the OUCH messages they carry, and the DPDK programs that   *)
(* take both from a port.  A behaviour is of one of them, as `part' says.  *)
EXTENDS MoldUdp

(* SoupSession: payloads that differ, so that a wrong number shows.        *)
VARIABLES next_seq, store, soupAssigned, connected, accepted, toServer, toClient, expected_seq,
          start_seq, logged_in, soupGot, skipped, breaks

Soup == INSTANCE SoupSession
    WITH assigned <- soupAssigned, got <- soupGot, StoreCapacity <- 2,
         Contents <- {"fill", "cancel", "empty"}, Empty <- "empty", MaxMessages <- 4, MaxBreaks <- 2

soupVars == <<next_seq, store, soupAssigned, connected, accepted, toServer, toClient, expected_seq,
              start_seq, logged_in, soupGot, skipped, breaks>>

(* SoupFraming: bytes of three values, so that the length field ends at 8  *)
(* instead of 65535; empty, short and the longest payload it can express.  *)
VARIABLES sent, stream, unread, received

Framing == INSTANCE SoupFraming
    WITH wire <- stream, buf <- unread, Base <- 3, MaxPackets <- 3,
         Packets <- {[type |-> t, payload |-> [i \in 1 .. n |-> b]] : t \in 1 .. 2, n \in {0, 1, 7}, b \in {0, 1}}

framingVars == <<sent, stream, unread, received>>

(* Ouch: bytes of four values; texts that are short, hold spaces and are   *)
(* longer than their field, and numbers at the ends of their range.        *)
MCValues ==
    [alpha |-> {<<1>>, <<2, 0, 1>>, <<3, 0>>, [i \in 1 .. 15 |-> (i % 3) + 1]}, byte |-> {3},
     u32 |-> {1, 255}, i32 |-> {-128, -1, 127}, u64 |-> {256, 65535}]

VARIABLES msg, changes, cut

Messages == INSTANCE Ouch WITH Base <- 4, Values <- MCValues, MaxChanges <- 2

ouchVars == <<msg, changes, cut>>

(* DpdkPort: an order frame, one with IP options, no UDP at all, a header  *)
(* that claims more than the frame has, too short a frame and too short a  *)
(* UDP length.                                                             *)
Client == [mac |-> "c", ip |-> <<49320, 65000>>, port |-> 5]
Gateway == [mac |-> "g", ip |-> <<49320, 7>>, port |-> 9]
Frame(total, ether, proto, ihl, udpLen, outs) ==
    [total |-> total, ether |-> ether, proto |-> proto, ihl |-> ihl, udpLen |-> udpLen,
     src |-> Client, dst |-> Gateway, sum |-> 0, outs |-> outs, order |-> outs = 2]
Frames ==
    {Frame(46, 2048, 17, 20, 12, 2), Frame(60, 2048, 17, 24, 12, 1), Frame(60, 2054, 1, 20, 8, 0),
     Frame(46, 2048, 17, 24, 12, 0), Frame(41, 2048, 17, 20, 8, 0), Frame(60, 2048, 17, 20, 7, 0)}

VARIABLES prog, expect, file, todo, pool, hand, wire, phase, sending, processed, frames, late

Port == INSTANCE DpdkPort
    WITH Mbufs <- {"m1", "m2", "m3"}, Burst <- 2, Programs <- {"tap", "soup", "mold", "nic", "tx"},
         Files <- {<<>>} \cup {<<a, b, c, a>> : a, b, c \in Frames}, Expects <- {{}, {1}}

portVars == <<prog, expect, file, todo, pool, hand, wire, phase, sending, processed, frames, late>>

VARIABLE part

others == <<soupVars, framingVars, ouchVars, portVars>>
allVars == <<vars, others, part>>

\* The parts that do not run stand still in one initial state.
PartInit ==
    /\ part \in {"mold", "session", "framing", "ouch", "port"}
    /\ Init /\ Soup!Init /\ Framing!Init
    /\ IF part = "ouch" THEN Messages!Init ELSE msg = <<>> /\ changes = 0 /\ cut = 0
    /\ IF part = "port" THEN Port!Init
       ELSE Port!Init /\ prog = "tx" /\ file = <<>>

PartNext ==
    \/ part = "mold" /\ Next /\ UNCHANGED <<others, part>>
    \/ part = "session" /\ Soup!Next /\ UNCHANGED <<vars, framingVars, ouchVars, portVars, part>>
    \/ part = "framing" /\ Framing!Next /\ UNCHANGED <<vars, soupVars, ouchVars, portVars, part>>
    \/ part = "ouch" /\ Messages!Next /\ UNCHANGED <<vars, soupVars, framingVars, portVars, part>>
    \/ part = "port" /\ Port!Next /\ UNCHANGED <<vars, soupVars, framingVars, ouchVars, part>>

\* The fairness of SoupSession's and DpdkPort's FairSpec.
PartSpec ==
    /\ PartInit /\ [][PartNext]_allVars
    /\ WF_soupVars(part = "session" /\ Soup!Connect(TRUE))
    /\ WF_soupVars(part = "session" /\ Soup!ServerHandle)
    /\ WF_soupVars(part = "session" /\ Soup!ClientHandle)
    /\ WF_portVars(part = "port" /\ Port!Program)
    /\ WF_portVars(part = "port" /\ Port!Driver)
    /\ WF_portVars(part = "port" /\ Port!Elapse)

\* A subscriber notices every number it misses, and what it asks for and
\* the ring still holds it gets if neither request nor reply is lost.
LossHandled == LossReported /\ GapsFilled

\* The client's count and the server's numbers agree over any number of
\* logins, and nothing is repeated or lost while the server holds it.
CountIsExact == part = "session" => Soup!CountIsExact

\* Every mbuf is in one place at a time, and frames are handled in order.
PortSound == part = "port" => Port!PortSound

\* The three wire formats: a stream cut anywhere parses into the packets
\* that were written, an OUCH message into its fields, and a frame or reply
\* into headers whose lengths, addresses and checksums are right.
CodecsExact ==
    /\ part = "framing" => Framing!FramingExact
    /\ part = "ouch" => Messages!OuchExact
    /\ part = "port" => Port!FramesExact

\* Once connections stop breaking the client has every report.
CatchesUp == part = "session" => Soup!CatchesUp

\* A program that replays a file stops when it has taken what it waits for.
ReplayEnds == part = "port" => Port!ReplayEnds
=============================================================================
