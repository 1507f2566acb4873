----------------------------- MODULE MemorySink -----------------------------
(***************************************************************************)
(* MemoryOrderSink of match-spot and match-contract (mq/memory.rs): the    *)
(* order sink for local use, which keeps what is sent and writes each body *)
(* to a file of its topic's directory.  Symbol workers call send at the    *)
(* same time; the sink's two locks are held for one statement each.        *)
(*                                                                         *)
(* A worker sends the bodies <<worker, 1>>, <<worker, 2>>, ...             *)
(***************************************************************************)
EXTENDS Naturals, Sequences, FiniteSets

CONSTANTS
  Workers,      \* symbol workers
  TopicOf,      \* the topic each of them sends to
  FailTopics,   \* topics fail_topics makes send refuse
  MaxSends      \* bound: sends per worker

VARIABLES
  delivered,  \* `sent': what was sent, in order
  files,      \* under out_dir: <<topic, number>> -> body
  sendPc,     \* per worker: "idle", "pushed", "numbered"
  number,     \* per worker: seq
  calls,      \* per worker: sends begun
  results     \* history: per worker, what its sends returned

vars == <<delivered, files, sendPc, number, calls, results>>

Body(w) == <<w, calls[w]>>

Init ==
  /\ delivered = <<>> /\ files = [f \in {} |-> <<>>]
  /\ sendPc = [w \in Workers |-> "idle"] /\ number = [w \in Workers |-> 0]
  /\ calls = number /\ results = [w \in Workers |-> <<>>]

\* send to a topic of fail_topics is refused before anything is kept.
SendRefused(w) ==
  /\ sendPc[w] = "idle" /\ calls[w] < MaxSends /\ TopicOf[w] \in FailTopics
  /\ calls' = [calls EXCEPT ![w] = @ + 1]
  /\ results' = [results EXCEPT ![w] = Append(@, "err")]
  /\ UNCHANGED <<delivered, files, sendPc, number>>

\* (faulty form of SendPushes) with an out_dir the body is only written
SendPushesNot(w) ==
  /\ sendPc[w] = "idle" /\ calls[w] < MaxSends /\ TopicOf[w] \notin FailTopics
  /\ calls' = [calls EXCEPT ![w] = @ + 1]
  /\ sendPc' = [sendPc EXCEPT ![w] = "pushed"]
  /\ UNCHANGED <<delivered, files, number, results>>

\* The body is pushed under the lock of `sent' ...
SendPushes(w) ==
  /\ sendPc[w] = "idle" /\ calls[w] < MaxSends /\ TopicOf[w] \notin FailTopics
  /\ calls' = [calls EXCEPT ![w] = @ + 1]
  /\ delivered' = Append(delivered, <<TopicOf[w], Body(w)'>>)
  /\ sendPc' = [sendPc EXCEPT ![w] = "pushed"]
  /\ UNCHANGED <<files, number, results>>

\* ... its number read under the lock again, when others may have pushed ...
SendNumbers(w) ==
  /\ sendPc[w] = "pushed"
  /\ number' = [number EXCEPT ![w] = Len(delivered)]
  /\ sendPc' = [sendPc EXCEPT ![w] = "numbered"]
  /\ UNCHANGED <<delivered, files, calls, results>>

Wrote(w, content) ==
  LET f == <<TopicOf[w], number[w]>>
  IN files' = [g \in DOMAIN files \cup {f} |-> IF g = f THEN content ELSE files[g]]

\* ... and the file created, or truncated, and written.
SendWrites(w) ==
  /\ sendPc[w] = "numbered"
  /\ Wrote(w, Body(w))
  /\ sendPc' = [sendPc EXCEPT ![w] = "idle"]
  /\ results' = [results EXCEPT ![w] = Append(@, "ok")]
  /\ UNCHANGED <<delivered, number, calls>>

\* The directory or the file cannot be created, or the write fails and the
\* file stays empty; `sent' keeps the body all the same.
SendFails(w) ==
  /\ \/ sendPc[w] \in {"pushed", "numbered"} /\ UNCHANGED files
     \/ sendPc[w] = "numbered" /\ Wrote(w, <<>>)
  /\ sendPc' = [sendPc EXCEPT ![w] = "idle"]
  /\ results' = [results EXCEPT ![w] = Append(@, "err")]
  /\ UNCHANGED <<delivered, number, calls>>

Next ==
  \E w \in Workers :
    SendRefused(w) \/ SendPushes(w) \/ SendNumbers(w) \/ SendWrites(w) \/ SendFails(w)

Spec == Init /\ [][Next]_vars
----------------------------------------------------------------------------
(* Correctness *)

\* "each send also writes {topic}/{seq}.json under out_dir" (memory.rs:28):
\* a send that returned Ok has left its body in a file of its topic.
EverySendHasFile ==
  \A w \in Workers : \A i \in DOMAIN results[w] :
    results[w][i] = "ok" => \E f \in DOMAIN files : f[1] = TopicOf[w] /\ files[f] = <<w, i>>

\* Sorted by number, the files of a worker's topic are its sends in order,
\* whatever other workers push between the two locks and whatever fails: no
\* later send overwrites or overtakes an earlier one.
FilesInOrder ==
  \A f, g \in DOMAIN files :
    f[1] = g[1] /\ f[2] < g[2] /\ <<>> \notin {files[f], files[g]} => files[f][2] < files[g][2]
=============================================================================
