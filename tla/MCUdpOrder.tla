---------------------------- MODULE MCUdpOrder ----------------------------
(* The order session over UDP, driven by any client and gateway, and the   *)
(* demonstration gateway that drives it in one particular way.  `part'     *)
(* says which; the two share the variables of the session.                 *)
EXTENDS UdpOrder

CONSTANTS
  MaxNet,         \* bound: different datagrams under way at once
  MaxGatewayNet   \* the same bound for the gateway

VARIABLES outBuf, clientPc, dropFirst, executed, timed, serverPc, resting, fills, texts, part

gatewayVars == <<outBuf, clientPc, dropFirst, executed, timed, serverPc, resting, fills, texts>>

\* Three orders in rounds of two frames, and a NAK that asks for more reports
\* than there are.
Gateway == INSTANCE UdpGateway WITH Target <- 3, Frames <- 2, NakCount <- 4, Spare <- 1

PartInit ==
    \/ /\ part = "session" /\ Init
       /\ outBuf = <<>> /\ clientPc = "none" /\ dropFirst = FALSE /\ executed = 0 /\ timed = <<>>
       /\ serverPc = "none" /\ resting = <<>> /\ fills = 0 /\ texts = <<>>
    \/ part = "gateway" /\ Gateway!Init

PartNext ==
    \/ part = "session" /\ Next /\ UNCHANGED <<gatewayVars, part>>
    \/ part = "gateway" /\ Gateway!Next /\ UNCHANGED part

PartSpec == PartInit /\ [][PartNext]_<<vars, gatewayVars, part>>

NetBound ==
    /\ Cardinality(net) <= IF part = "session" THEN MaxNet ELSE MaxGatewayNet
    /\ Len(outBuf) <= 4

\* The engine takes each order at most once and the client each report,
\* whatever the network does; until the client restarts, in the order sent and
\* with no report passed over that the server still stores.
InOrder == part = "session" => SessionSound

\* The client of the gateway counts what the engine did.
GatewayExact == part = "gateway" => Gateway!GatewayExact
=============================================================================
