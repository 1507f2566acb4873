---------------------------- MODULE SoupFraming ----------------------------
(***************************************************************************)
(* The wire format of match-soupbintcp: Packet::to_bytes writes a length   *)
(* of two bytes, the type and the payload; parse_stream cuts a TCP stream, *)
(* which arrives in pieces of any size, back into packets.  Bytes have     *)
(* Base values instead of 256, so that the length field overflows within   *)
(* reach: its largest value is Base * Base - 1.                            *)
(***************************************************************************)
EXTENDS Naturals, Sequences, SequencesExt, FiniteSetsExt

CONSTANTS
    Base,        \* number of values of a byte
    Packets,     \* the packets the sender may write
    MaxPackets   \* bound: packets written

Bytes == 0 .. Base - 1
U16 == Base * Base
U16Max == U16 - 1

VARIABLES
    sent,      \* packets written
    wire,      \* bytes on their way
    buf,       \* bytes read and not yet consumed
    received   \* packets parsed

vars == <<sent, wire, buf, received>>

Init == sent = <<>> /\ wire = <<>> /\ buf = <<>> /\ received = <<>>

\* 1u16.saturating_add(payload.len() as u16)
LengthField(p) == Min({1 + (Len(p.payload) % U16), U16Max})

ToBytes(p) ==
    <<LengthField(p) \div Base, LengthField(p) % Base, p.type>> \o p.payload

Packet(type, payload) == [type |-> type, payload |-> payload]

\* (faulty form of ParseStream) An incomplete packet at the tail is cut short.
ParseStreamCut(b) ==
    LET from[off \in 0 .. Len(b)] ==
          IF off + 3 > Len(b) THEN [packets |-> <<>>, consumed |-> off]
          ELSE LET len == b[off + 1] * Base + b[off + 2]
                   end == Min({off + 2 + len, Len(b)})
               IN  IF len < 1 THEN [packets |-> <<>>, consumed |-> off]
                   ELSE [packets |-> <<Packet(b[off + 3], SubSeq(b, off + 4, end))>>
                                        \o from[end].packets,
                         consumed |-> from[end].consumed]
    IN  from[0]

\* The packets of a buffer from an offset on, and the offset where parsing stopped.
ParseStream(b) ==
    LET from[off \in 0 .. Len(b)] ==
          IF off + 3 > Len(b) THEN [packets |-> <<>>, consumed |-> off]
          ELSE LET len == b[off + 1] * Base + b[off + 2]
                   end == off + 2 + len
               IN  IF len < 1 \/ end > Len(b) THEN [packets |-> <<>>, consumed |-> off]
                   ELSE [packets |-> <<Packet(b[off + 3], SubSeq(b, off + 4, end))>>
                                        \o from[end].packets,
                         consumed |-> from[end].consumed]
    IN  from[0]

-----------------------------------------------------------------------------
Write(p) ==
    /\ Len(sent) < MaxPackets
    /\ sent' = Append(sent, p)
    /\ wire' = wire \o ToBytes(p)
    /\ UNCHANGED <<buf, received>>

\* n more bytes are read; the caller drops what was consumed.
Read(n) ==
    LET bytes == buf \o SubSeq(wire, 1, n)
        parsed == ParseStream(bytes)
    IN  /\ wire' = SubSeq(wire, n + 1, Len(wire))
        /\ buf' = SubSeq(bytes, parsed.consumed + 1, Len(bytes))
        /\ received' = received \o parsed.packets
        /\ UNCHANGED sent

Next ==
    \/ \E p \in Packets : Write(p)
    \/ \E n \in 1 .. Len(wire) : Read(n)

Spec == Init /\ [][Next]_vars

-----------------------------------------------------------------------------
\* The wire and the buffer hold bytes.
TypeOK ==
    /\ Range(sent) \subseteq Packets
    /\ Range(wire) \subseteq Bytes /\ Range(buf) \subseteq Bytes

\* However the stream is cut, parse_stream returns the packets that to_bytes
\* wrote, unchanged and in order.
ParsedAsWritten == IsPrefix(received, sent)

\* Nothing is held back: when every byte has been read every packet has been
\* returned, and no byte is left over.
NothingHeldBack == wire = <<>> => received = sent /\ buf = <<>>

\* parse_stream undoes to_bytes, however TCP cuts the stream.
FramingExact == TypeOK /\ ParsedAsWritten /\ NothingHeldBack
=============================================================================
