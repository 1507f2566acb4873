---------------------------- MODULE SoupSession ----------------------------
(***************************************************************************)
(* The SoupBinTCP sessions of match-soupbintcp: a ServerSession that       *)
(* numbers and stores outgoing messages, a ClientSession that counts them, *)
(* and the TCP connections between the two, each of which starts with a    *)
(* login and may break at any moment.  Sequenced Data carries no number:   *)
(* the number of a message is what the client's own count says it is.      *)
(***************************************************************************)
EXTENDS Naturals, Sequences, FiniteSets, SequencesExt, FiniteSetsExt

CONSTANTS
    StoreCapacity,  \* store_capacity of the server
    Contents,       \* message contents; the empty payload may be among them
    Empty,          \* the zero-length payload
    MaxMessages,    \* bound: messages enqueued
    MaxBreaks       \* bound: connections that end

VARIABLES
    next_seq,     \* ServerSession.next_seq
    store,        \* ServerSession.store: retained number -> payload
    assigned,     \* ghost: payload of every number ever assigned
    connected,    \* whether a connection is up
    accepted,     \* whether its login was accepted: the caller sends live data
    toServer,     \* packets on their way to the server
    toClient,     \* packets on their way to the client
    expected_seq, \* ClientSession.expected_seq
    start_seq,    \* ClientSession.start_seq
    logged_in,    \* ClientSession.logged_in
    got,          \* ghost: [seq, payload] in the order the client counted them
    skipped,      \* ghost: numbers the client was moved past at a login
    breaks

server == <<next_seq, store, assigned>>
link == <<connected, accepted, toServer, toClient, breaks>>
client == <<expected_seq, start_seq, logged_in, got, skipped>>
vars == <<server, link, client>>

LoginRequest(same, seq) == [type |-> "login", same |-> same, seq |-> seq]
LogoutRequest == [type |-> "logout"]
LoginAccepted(seq) == [type |-> "accepted", seq |-> seq]
LoginRejected == [type |-> "rejected"]
Sequenced(p) == [type |-> "data", payload |-> p]
EndOfSession == [type |-> "end"]

Init ==
    /\ next_seq = 1 /\ store = <<>> /\ assigned = <<>>
    /\ connected = FALSE /\ accepted = FALSE /\ toServer = <<>> /\ toClient = <<>>
    /\ breaks = 0
    /\ expected_seq = 1 /\ start_seq = 0 /\ logged_in = FALSE
    /\ got = <<>> /\ skipped = {}

-----------------------------------------------------------------------------
(* ServerSession.                                                          *)

\* What enqueue keeps of the store: at capacity the oldest message goes.
Retained ==
    IF Cardinality(DOMAIN store) < StoreCapacity \/ DOMAIN store = {} THEN DOMAIN store
    ELSE DOMAIN store \ {Min(DOMAIN store)}

\* enqueue; the caller sends the message at once to a client that has logged in.
Enqueue(p) ==
    /\ next_seq <= MaxMessages
    /\ next_seq' = next_seq + 1
    /\ store' = [n \in Retained \cup {next_seq} |-> IF n = next_seq THEN p ELSE store[n]]
    /\ assigned' = Append(assigned, p)
    /\ toClient' = IF accepted THEN Append(toClient, Sequenced(p)) ELSE toClient
    /\ UNCHANGED <<connected, accepted, toServer, breaks, client>>

Oldest == IF DOMAIN store = {} THEN next_seq ELSE Min(DOMAIN store)

\* (faulty form of LoginStart) The request is not raised to the oldest message held.
LoginStartUnclamped(req) ==
    IF req.seq = 0 \/ req.seq > next_seq THEN next_seq ELSE req.seq

LoginStart(req) ==
    Max({Oldest, IF req.seq = 0 \/ req.seq > next_seq THEN next_seq ELSE req.seq})

\* (faulty form of Replay) The replay leaves out the last message stored.
ReplayShort(start) ==
    [i \in 1 .. (next_seq - start) - 1 |-> Sequenced(store[start + i - 1])]

\* The messages of the store from start on.
Replay(start) ==
    LET kept == SetToSortSeq({n \in DOMAIN store : n >= start}, <)
    IN  [i \in DOMAIN kept |-> Sequenced(store[kept[i]])]

HandleLogin(req) ==
    IF ~req.same
    THEN toClient' = Append(toClient, LoginRejected) /\ UNCHANGED accepted
    ELSE /\ toClient' = (toClient \o <<LoginAccepted(LoginStart(req))>>)
                            \o Replay(LoginStart(req))
         /\ accepted' = TRUE

\* The end of a connection: whatever was on its way is gone.
Closed ==
    /\ breaks' = breaks + 1
    /\ connected' = FALSE /\ accepted' = FALSE /\ toServer' = <<>> /\ toClient' = <<>>

ServerHandle ==
    /\ toServer # <<>>
    /\ LET pkt == Head(toServer) IN
         \/ /\ pkt.type = "login"
            /\ HandleLogin(pkt)
            /\ toServer' = Tail(toServer)
            /\ UNCHANGED <<connected, breaks>>
         \/ pkt.type = "logout" /\ Closed
    /\ UNCHANGED <<server, client>>

\* The caller ends the session of a client that has logged in.
ServerEnds ==
    /\ accepted /\ breaks < MaxBreaks
    /\ \A i \in DOMAIN toClient : toClient[i] # EndOfSession
    /\ toClient' = Append(toClient, EndOfSession)
    /\ UNCHANGED <<server, connected, accepted, toServer, breaks, client>>
-----------------------------------------------------------------------------
(* ClientSession.                                                          *)

\* A new connection; login_request asks for the client's expected number, in
\* the server's session or, by mistake, in another one.
Connect(same) ==
    /\ ~connected
    /\ same \/ breaks < MaxBreaks
    /\ connected' = TRUE
    /\ toServer' = <<LoginRequest(same, expected_seq)>>
    /\ UNCHANGED <<server, accepted, toClient, breaks, client>>

Logout ==
    /\ accepted /\ breaks < MaxBreaks /\ toServer = <<>>
    /\ toServer' = <<LogoutRequest>>
    /\ UNCHANGED <<server, connected, accepted, toClient, breaks, client>>

OnAccepted(pkt) ==
    /\ start_seq' = pkt.seq
    /\ expected_seq' = pkt.seq
    /\ logged_in' = TRUE
    /\ skipped' = skipped \cup (expected_seq .. pkt.seq - 1)
    /\ UNCHANGED got

\* Data before the login is refused; an empty payload ends the session.
OnData(pkt) ==
    \/ /\ ~logged_in
       /\ UNCHANGED client
    \/ /\ logged_in /\ pkt.payload = Empty
       /\ logged_in' = FALSE
       /\ UNCHANGED <<expected_seq, start_seq, got, skipped>>
    \/ /\ logged_in /\ pkt.payload # Empty
       /\ expected_seq' = expected_seq + 1
       /\ got' = Append(got, [seq |-> expected_seq, payload |-> pkt.payload])
       /\ UNCHANGED <<start_seq, logged_in, skipped>>

ClientHandle ==
    /\ toClient # <<>>
    /\ LET pkt == Head(toClient) IN
         \/ /\ \/ pkt.type = "accepted" /\ OnAccepted(pkt)
               \/ pkt.type = "data" /\ OnData(pkt)
            /\ toClient' = Tail(toClient)
            /\ UNCHANGED <<connected, accepted, toServer, breaks>>
         \/ /\ pkt.type = "rejected"
            /\ Closed
            /\ UNCHANGED client
         \/ /\ pkt.type = "end"
            /\ Closed
            /\ logged_in' = FALSE
            /\ UNCHANGED <<expected_seq, start_seq, got, skipped>>
    /\ UNCHANGED server

Break ==
    /\ connected /\ breaks < MaxBreaks
    /\ Closed
    /\ UNCHANGED <<server, client>>

-----------------------------------------------------------------------------
Next ==
    \/ \E p \in Contents : Enqueue(p)
    \/ \E same \in BOOLEAN : Connect(same)
    \/ ServerHandle \/ ServerEnds \/ ClientHandle \/ Logout \/ Break

Spec == Init /\ [][Next]_vars

\* The client reconnects, and both sides read what TCP delivers.
FairSpec ==
    /\ Spec
    /\ WF_vars(Connect(TRUE)) /\ WF_vars(ServerHandle) /\ WF_vars(ClientHandle)

-----------------------------------------------------------------------------
(* Properties.                                                             *)

\* Every variable holds a value of its kind and the store keeps within its
\* capacity (a capacity of zero still keeps one message).
TypeOK ==
    /\ next_seq \in 1 .. MaxMessages + 1 /\ Len(assigned) = next_seq - 1
    /\ DOMAIN store \subseteq 1 .. next_seq - 1
    /\ Cardinality(DOMAIN store) <= Max({1, StoreCapacity})
    /\ connected \in BOOLEAN /\ accepted \in BOOLEAN /\ (accepted => connected)
    /\ (~connected => toServer = <<>> /\ toClient = <<>>)
    /\ expected_seq \in 1 .. next_seq /\ start_seq \in 0 .. expected_seq
    /\ logged_in \in BOOLEAN

\* The client's count and the server's numbers agree: what the client counted
\* as message n is what enqueue numbered n, over any number of logins, although
\* no Sequenced Data packet carries a number.
CountedAsAssigned ==
    \A i \in DOMAIN got : got[i].payload = assigned[got[i].seq]

\* Reports are neither repeated nor lost while the server holds them: the client
\* counts every number at most once and in order, and whatever lies
\* below its expected number was counted or had left the store at a login.
NothingRepeatedOrLost ==
    /\ \A i \in 1 .. Len(got) - 1 : got[i].seq < got[i + 1].seq
    /\ 1 .. expected_seq - 1 = {got[i].seq : i \in DOMAIN got} \cup skipped
    /\ skipped \cap DOMAIN store = {}

\* The client's count is exact over any number of logins.
CountIsExact == TypeOK /\ CountedAsAssigned /\ NothingRepeatedOrLost

\* Once connections stop breaking the client has everything: its expected
\* number reaches the server's next one, live messages and replay together.  A
\* report must not be empty: the client takes it for the end of the session and
\* every later login is sent the same packet first.
CatchesUp == <>[](expected_seq = next_seq \/ Empty \in Range(assigned))
=============================================================================
