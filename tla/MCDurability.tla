---------------------------- MODULE MCDurability ----------------------------
(* What keeps orders across a crash, in one model: the mmap journal, the   *)
(* crash test that replays it and the write-ahead log.  A behaviour is of  *)
(* one of them, as `part' says.                                            *)
EXTENDS Journal, FiniteSets

CONSTANTS Callers, QueueCap, Batch, MaxRecs, MaxFlushes, MaxFaults, MaxOpens

VARIABLES mode, handle, flusher, queue, buf, file, synced, call, next, base, promised,
          flushes, faults, opens

Log == INSTANCE Wal

walVars == <<mode, handle, flusher, queue, buf, file, synced, call, next, base, promised,
             flushes, faults, opens>>

(* JournalReplay: bytes of four values; a child that commits every four    *)
(* orders and one that commits every eight, both past three batches.       *)
VARIABLES every, scenario, stage, done, since, final, journal, header, book, ckpts, observed, verdict

Crash == INSTANCE JournalReplay WITH Base <- 4, Count <- 36, Batches <- {4, 8}

crashVars == <<every, scenario, stage, done, since, final, journal, header, book, ckpts, observed,
               verdict>>

VARIABLE part

allVars == <<vars, walVars, crashVars, part>>

\* The parts that do not run stand still in one initial state.
PartInit ==
    /\ part \in {"journal", "wal", "crash"}
    /\ Init /\ Log!Init /\ Crash!Init
    /\ part # "wal" => mode = "async"
    /\ part # "crash" => every = 4

PartNext ==
    \/ part = "journal" /\ Next /\ UNCHANGED <<walVars, crashVars, part>>
    \/ part = "wal" /\ Log!Next /\ UNCHANGED <<vars, crashVars, part>>
    \/ part = "crash" /\ Crash!Next /\ UNCHANGED <<vars, walVars, part>>

\* The fairness of Wal where there is a Wal.
WalFairness ==
    /\ WF_walVars(part = "wal" /\ Log!Flusher)
    /\ WF_walVars(part = "wal" /\ Log!Joined)
    /\ \A c \in Callers :
         /\ WF_walVars(part = "wal" /\ call[c] = "appended" /\ Log!SendFlush(c))
         /\ WF_walVars(part = "wal" /\ Log!CallClosed(c))

PartSpec == PartInit /\ [][PartNext]_allVars /\ WalFairness

\* What Sync appends, flush and Drop promise is on disk, and the log has no
\* hole, whatever writes failed and whenever power was lost.
DurableLog == part = "wal" => Log!DurableLog

\* The journal replays to the book the child had, wherever it was killed, and
\* the crash test says so and nothing else.
CrashTestSound == part = "crash" => Crash!ReplayGivesBook /\ Crash!NoFalseAlarm

\* Appends, flushes and Drop return, and a record the channel took becomes
\* durable by the flusher's timeout.
LogProgress == part = "wal" => Log!CallsReturn /\ Log!TakenIsWritten
=============================================================================
