------------------------------ MODULE RaftFsm ------------------------------
(***************************************************************************)
(* The replicated state machine around the matching engine                 *)
(* (src/crates/match-raft-fsm), one raft group.                            *)
(*                                                                         *)
(* The raft library gives every replica the same log.  Clients propose a   *)
(* command under an idempotency key and propose it again when the answer   *)
(* does not come, so the log can hold a key twice.  Replicas apply the log *)
(* at their own speed, take snapshots, restore from snapshots of others    *)
(* and restart from their own.                                             *)
(*                                                                         *)
(* The engine is deterministic: its state is the sequence of commands it   *)
(* executed, and Events(executed, cmd) is what the next command yields.    *)
(***************************************************************************)
EXTENDS Integers, Sequences, FiniteSets, SequencesExt

CONSTANTS
    Replicas,
    Commands,      \* commands clients send; each key belongs to one of them
    Keys,          \* idempotency keys
    Events(_, _),  \* the engine's events, a sequence of "fill", "rest", "revoke"
    MaxLog,        \* bound: entries of the log
    MaxRestarts    \* bound: restarts

VARIABLES
    log,        \* committed entries [idem, cmd], the same on every replica
    sent,       \* the command each key was first proposed with
    waiting,    \* propose calls that wait, as [idem, index, at]
    replica,    \* per replica: applied index and MatchState
    saved,      \* per replica: its last snapshot and the index it covers
    answers,    \* <<idem, events>> pairs returned to callers
    restarts

vars == <<log, sent, waiting, replica, saved, answers, restarts>>

Fresh == [applied |-> 0, cmds |-> <<>>, idem |-> {}, engine |-> <<>>, fills |-> 0, revokes |-> 0]

\* encode_command writes max_fills.unwrap_or(0), decode_command reads 0 as None.
Decode(c) == IF c.maxFills = {0} THEN [c EXCEPT !.maxFills = {}] ELSE c

Count(evs, kind) == Len(SelectSeq(evs, LAMBDA e : e = kind))

\* engine.on_order and the counters, on a decoded command.
Execute(st, cmd) ==
    LET evs == Events(st.engine, cmd)
    IN [st EXCEPT !.engine = Append(@, cmd),
                  !.fills = @ + Count(evs, "fill"),
                  !.revokes = @ + Count(evs, "revoke")]

\* (faulty form of ApplyEntry) the command is recorded before the key is looked up
ApplyRecordsFirst(st, e) ==
    LET recorded == [st EXCEPT !.cmds = Append(@, e)]
    IN IF e.idem \in st.idem THEN recorded
       ELSE Execute([recorded EXCEPT !.idem = @ \cup {e.idem}], Decode(e.cmd))

\* apply: an entry whose key was seen changes nothing.
ApplyEntry(st, e) ==
    IF e.idem \in st.idem THEN st
    ELSE Execute([st EXCEPT !.cmds = Append(@, e), !.idem = @ \cup {e.idem}], Decode(e.cmd))

\* (faulty form of Effects) a repeat is answered as if it were executed again
EffectsAgain(st, e) == Events(st.engine, Decode(e.cmd))

Effects(st, e) == IF e.idem \in st.idem THEN <<>> ELSE Events(st.engine, Decode(e.cmd))

\* restore: a new engine, every recorded command executed again (replay_all).
Restored(snap) ==
    FoldLeft(LAMBDA s, e : Execute([s EXCEPT !.idem = @ \cup {e.idem}], Decode(e.cmd)),
             [Fresh EXCEPT !.cmds = snap.cmds, !.idem = snap.idem], snap.cmds)

Init ==
    /\ log = <<>> /\ sent = [k \in Keys |-> {}] /\ waiting = {}
    /\ replica = [r \in Replicas |-> Fresh]
    /\ saved = [r \in Replicas |-> {}]
    /\ answers = {} /\ restarts = 0

\* A client proposes a command at replica r, and again under the same key if the
\* earlier call did not return.
Propose(r, k, c) ==
    /\ Len(log) < MaxLog
    /\ sent[k] \subseteq {c}
    /\ (\A w \in waiting : w.idem # k) /\ (\A a \in answers : a[1] # k)
    /\ sent' = [sent EXCEPT ![k] = {c}]
    /\ log' = Append(log, [idem |-> k, cmd |-> c])
    /\ waiting' = waiting \cup {[idem |-> k, index |-> Len(log) + 1, at |-> r]}
    /\ UNCHANGED <<replica, saved, answers, restarts>>

\* The caller gives up: the outcome is unknown to it.
TimeOut(w) ==
    /\ w \in waiting
    /\ waiting' = waiting \ {w}
    /\ UNCHANGED <<log, sent, replica, saved, answers, restarts>>

\* apply of the next entry; a call that waits for it at this replica is answered.
Apply(r) ==
    LET st == replica[r]
        i == st.applied + 1
        done == {w \in waiting : w.at = r /\ w.index = i}
    IN /\ i <= Len(log)
       /\ replica' = [replica EXCEPT ![r] = [ApplyEntry(st, log[i]) EXCEPT !.applied = i]]
       /\ answers' = answers \cup {<<w.idem, Effects(st, log[i])>> : w \in done}
       /\ waiting' = waiting \ done
       /\ UNCHANGED <<log, sent, saved, restarts>>

\* snapshot: (cmds, idem) of a group that has state.
TakeSnapshot(r) ==
    /\ replica[r].applied > 0
    /\ saved' = [saved EXCEPT ![r] = {[upto |-> replica[r].applied,
                                       cmds |-> replica[r].cmds, idem |-> replica[r].idem]}]
    /\ UNCHANGED <<log, sent, waiting, replica, answers, restarts>>

RestoreFrom(r, snap) ==
    replica' = [replica EXCEPT ![r] = [Restored(snap) EXCEPT !.applied = snap.upto]]

\* A replica that is behind installs another replica's snapshot.
InstallSnapshot(r, s) ==
    \E snap \in saved[s] :
      /\ snap.upto > replica[r].applied
      /\ RestoreFrom(r, snap)
      /\ saved' = [saved EXCEPT ![r] = {snap}]
      /\ waiting' = {w \in waiting : ~(w.at = r /\ w.index <= snap.upto)}
      /\ UNCHANGED <<log, sent, answers, restarts>>

\* Memory is lost; the replica starts from its snapshot, if it has one.
Restart(r) ==
    /\ restarts < MaxRestarts /\ restarts' = restarts + 1
    /\ \/ saved[r] = {} /\ replica' = [replica EXCEPT ![r] = Fresh]
       \/ \E snap \in saved[r] : RestoreFrom(r, snap)
    /\ waiting' = {w \in waiting : w.at # r}
    /\ UNCHANGED <<log, sent, saved, answers>>

Next ==
    \/ \E r \in Replicas :
         \/ \E k \in Keys, c \in Commands : Propose(r, k, c)
         \/ Apply(r) \/ TakeSnapshot(r) \/ Restart(r)
         \/ \E s \in Replicas : InstallSnapshot(r, s)
    \/ \E w \in waiting : TimeOut(w)

Spec == Init /\ [][Next]_vars

----------------------------------------------------------------------------
(* Properties. *)

\* Every variable has its type; what the engine executes carries no limit of zero.
TypeOK ==
    /\ log \in Seq([idem : Keys, cmd : Commands])
    /\ \A r \in Replicas :
         /\ replica[r].applied \in 0..Len(log)
         /\ replica[r].idem \subseteq Keys
         /\ \A i \in DOMAIN replica[r].engine : replica[r].engine[i].maxFills # {0}

\* The entries of a log prefix that come first under their key.
FirstEntries(n) ==
    {i \in 1..n : \A j \in 1..i - 1 : log[j].idem # log[i].idem}

\* What a replica that applied n entries must have executed: the command of the
\* first entry of every key, once, in log order.
ExecutedBy(n) ==
    LET firsts == FirstEntries(n)
        first == SelectSeq([i \in 1..n |-> i], LAMBDA i : i \in firsts)
    IN [i \in 1..Len(first) |-> Decode(log[first[i]].cmd)]

\* Every replica is a function of the log prefix it applied, whichever way it got
\* there (applied, restored from a snapshot of its own or of another replica,
\* restarted): each key was executed once, in log order, and the counters that
\* summary compares agree with the executions.
StateFollowsLog ==
    TypeOK /\ \A r \in Replicas :
      LET st == replica[r]
          run == ExecutedBy(st.applied)
          evs == FlattenSeq([i \in 1..Len(run) |-> Events(SubSeq(run, 1, i - 1), run[i])])
      IN /\ st.engine = run
         /\ st.idem = {log[i].idem : i \in 1..st.applied}
         /\ st.fills = Count(evs, "fill") /\ st.revokes = Count(evs, "revoke")

\* A caller is never told of a trade that did not happen: its answer holds the
\* events of the one execution of its key, or nothing at all, and nothing only
\* if the key is in the log more than once (apply answers a repeat with an
\* empty ApplyOut).
AnswersAreOwn ==
    \A a \in answers :
      LET mine == {i \in DOMAIN log : log[i].idem = a[1]}
      IN \/ \E i \in mine \cap FirstEntries(Len(log)) :
              a[2] = Events(ExecutedBy(i - 1), Decode(log[i].cmd))
         \/ a[2] = <<>> /\ Cardinality(mine) > 1
=============================================================================
