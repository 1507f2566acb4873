------------------------------ MODULE Journal ------------------------------
(***************************************************************************)
(* The mmap journal of crates/match-core-hp (journal.rs): length-prefixed  *)
(* records behind a header that holds committed_cursor.                    *)
(*                                                                         *)
(* The file is an array of cells: cell 0 is the header, a record is one    *)
(* length cell and one cell per payload unit.  `map' is the mapping (the   *)
(* page cache), `disk' what survives a machine crash; the kernel may write *)
(* any cell back at any time, in any order, so a crash can tear anything   *)
(* that no msync covers.  Record number n has payload units n.             *)
(***************************************************************************)
EXTENDS Naturals, SequencesExt

CONSTANTS
  Cap,        \* cells of the file
  Page,       \* cells of one page: what the last msync of commit covers
  Sizes       \* payload sizes

ASSUME JournalConstants ==
  Cap \in Nat \ {0} /\ Page \in 1..Cap /\ Sizes \subseteq Nat

VARIABLES
  map,        \* the mapped file
  disk,       \* the file on stable storage
  cursor,     \* self.cursor
  pc,         \* "open", "data" / "header" (inside commit), "down", "readonly"
  appended,   \* history: the payloads appended since create
  committed,  \* history: how many of them a successful commit has covered
  read        \* what recovery replayed

vars == <<map, disk, cursor, pc, appended, committed, read>>

Cells == 0..(Cap - 1)
HeaderLen == 1

Init ==
  /\ map = [i \in Cells |-> 0] /\ disk = map
  /\ cursor = HeaderLen /\ pc = "open"
  /\ appended = <<>> /\ committed = 0 /\ read = <<>>
----------------------------------------------------------------------------
(* Appending *)

Payload(n, size) == [i \in 1..size |-> n]

Fits(c, size) == c + 1 + size <= Cap

\* The bytes append writes at c.
Written(m, c, n, size) ==
  [i \in Cells |-> IF i = c THEN size ELSE IF i \in (c + 1)..(c + size) THEN n ELSE m[i]]

Place(size) ==
  /\ map' = Written(map, cursor, Len(appended) + 1, size)
  /\ cursor' = cursor + 1 + size
  /\ appended' = Append(appended, Payload(Len(appended) + 1, size))

\* append, and one record of append_batch; a record that does not fit is
\* refused and ends the batch.
AppendRecord(size) ==
  /\ pc = "open" /\ Fits(cursor, size)
  /\ Place(size)
  /\ UNCHANGED <<disk, pc, committed, read>>
----------------------------------------------------------------------------
(* commit: data, then header, each behind its own msync *)

Flushed(n) == [i \in Cells |-> IF i < n THEN map[i] ELSE disk[i]]

\* (faulty form of CommitData) the header is written with the data
CommitTogether ==
  /\ pc = "open"
  /\ map' = [map EXCEPT ![0] = cursor]
  /\ disk' = disk
  /\ pc' = "header"
  /\ UNCHANGED <<cursor, appended, committed, read>>

\* The data msync returns, and the header is written to the map.
CommitData ==
  /\ pc = "open"
  /\ disk' = IF cursor > HeaderLen THEN Flushed(cursor) ELSE disk
  /\ map' = [map EXCEPT ![0] = cursor]
  /\ pc' = "header"
  /\ UNCHANGED <<cursor, appended, committed, read>>

\* (faulty form of CommitHeader) the header is left to the kernel
CommitHeaderAsync ==
  /\ pc = "header"
  /\ disk' = disk
  /\ committed' = Len(appended)
  /\ pc' = "open"
  /\ UNCHANGED <<map, cursor, appended, read>>

\* The header msync returns: commit is Ok.
CommitHeader ==
  /\ pc = "header"
  /\ disk' = Flushed(Page)
  /\ committed' = Len(appended)
  /\ pc' = "open"
  /\ UNCHANGED <<map, cursor, appended, read>>

\* Either msync fails: commit returns Err.  The data msync fails before
\* anything is written to the map, so only the second one changes the state.
CommitFails ==
  /\ pc = "header"
  /\ pc' = "open"
  /\ UNCHANGED <<map, disk, cursor, appended, committed, read>>

\* The kernel writes a dirty cell back (also what MS_ASYNC comes to).
WriteBack(i) ==
  /\ map[i] # disk[i]
  /\ pc # "down"
  /\ disk' = [disk EXCEPT ![i] = map[i]]
  /\ UNCHANGED <<map, cursor, pc, appended, committed, read>>
----------------------------------------------------------------------------
(* Ends and recovery *)

\* The machine stops: only the disk is left.
MachineCrash ==
  /\ pc \in {"open", "header"}
  /\ map' = disk
  /\ pc' = "down"
  /\ UNCHANGED <<disk, cursor, appended, committed, read>>

\* The process is killed: the page cache keeps what it wrote.
ProcessKilled ==
  /\ pc \in {"open", "header"}
  /\ pc' = "down"
  /\ UNCHANGED <<map, disk, cursor, appended, committed, read>>

\* Drop: a last msync, whose failure is ignored.
Close ==
  /\ pc = "open"
  /\ disk' \in {Flushed(cursor), disk}
  /\ pc' = "down"
  /\ UNCHANGED <<map, cursor, appended, committed, read>>

CommittedCursor(m) == IF m[0] > HeaderLen THEN m[0] ELSE HeaderLen

\* iter_records from HEADER_LEN to end.
IterRecords(m, end) ==
  LET From[off \in 0..Cap] ==
        IF off + 1 > end THEN <<>>
        ELSE IF off + 1 + m[off] > end THEN <<>>
        ELSE <<[i \in 1..m[off] |-> m[off + i]]>> \o From[off + 1 + m[off]]
  IN From[HeaderLen]

\* open_existing, then iter_records up to committed_cursor.
Recover ==
  /\ pc = "down"
  /\ cursor' = Cap
  /\ read' = IterRecords(map, CommittedCursor(map))
  /\ pc' = "readonly"
  /\ UNCHANGED <<map, disk, appended, committed>>

\* A recovered journal is only read, and can be interrupted and opened again.
RecoverAgain ==
  /\ pc = "readonly"
  /\ pc' = "down" /\ map' \in {map, disk}
  /\ UNCHANGED <<disk, cursor, appended, committed, read>>

\* create: the file is truncated and a new journal starts.
Create ==
  /\ pc \in {"down", "readonly"}
  /\ map' = [i \in Cells |-> 0] /\ disk' = map'
  /\ cursor' = HeaderLen /\ pc' = "open"
  /\ appended' = <<>> /\ committed' = 0 /\ read' = <<>>

Next ==
  \/ \E size \in Sizes : AppendRecord(size)
  \/ CommitData \/ CommitHeader \/ CommitFails
  \/ \E i \in Cells : WriteBack(i)
  \/ MachineCrash \/ ProcessKilled \/ Close
  \/ Recover \/ RecoverAgain \/ Create

Spec == Init /\ [][Next]_vars
----------------------------------------------------------------------------
(* Correctness *)

TypeOK ==
  /\ map \in [Cells -> Nat] /\ disk \in [Cells -> Nat]
  /\ cursor \in HeaderLen..Cap
  /\ pc \in {"open", "header", "down", "readonly"}
  /\ appended \in Seq(Seq(Nat)) /\ committed \in 0..Len(appended)

\* Recovery replays a prefix of what was appended, no record torn, invented
\* or out of order, wherever in append or commit the machine or the process
\* stopped and whatever the kernel had written back: "header visible means
\* the data is on disk".
RecoversPrefix == pc = "readonly" => IsPrefix(read, appended)

\* Everything a successful commit covered is replayed: commit is durable.
CommittedSurvives == pc = "readonly" => Len(read) >= committed

\* Both: recovery replays at least what was committed and nothing that was
\* not appended.
RecoverySound == TypeOK /\ RecoversPrefix /\ CommittedSurvives

\* What makes recovery sound: the cells below the header on disk are on disk
\* as they were appended (data before metadata, journal.rs:157).
HeaderCoversData ==
  \A i \in Cells : i >= HeaderLen /\ i < disk[0] => disk[i] = map[i]
=============================================================================
