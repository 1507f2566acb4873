--------------------------- MODULE JournalReplay ---------------------------
(***************************************************************************)
(* The crash test hp_journal_crash_test of crates/match-udp-order: a child *)
(* process journals and matches a fixed sequence of orders, commits every  *)
(* few of them and writes a checkpoint line after each commit; the parent  *)
(* lets it finish once, kills it once, replays the journal each time and   *)
(* compares the book with the checkpoints.                                 *)
(*                                                                         *)
(* The kill is a SIGKILL, so the page cache survives: `header' is the      *)
(* committed_cursor in the mapping, counted in records (module Journal     *)
(* treats the machine crash).  The prices 99950 < 99990 < 100000 < 100500  *)
(* are their ranks 1..4 and a byte has Base values.                        *)
(***************************************************************************)
EXTENDS Integers, SequencesExt, FiniteSetsExt

CONSTANTS
  Base,     \* values of a byte
  Count,    \* COUNT: orders of one child
  Batches   \* values of EVERY: orders between two commits

VARIABLES
  every,     \* EVERY of this execution
  scenario,  \* 1: the child finishes; 2: it is killed
  stage,     \* the child: "run", "commit", "header", "ckpt", "exited", "killed"
  done,      \* the child's i: orders journalled and matched
  since,     \* since_commit
  final,     \* the loop is over: the commit is the last one
  journal,   \* the records appended, as bytes
  header,    \* records the committed cursor covers
  book,      \* the child's engine
  ckpts,     \* the lines of the checkpoint file, each a sequence of fields
  observed,  \* the parent's last reading of the header
  verdict    \* what verify and the assertions after it say, "none" before

child == <<done, since, final, journal, header, book, ckpts>>
vars == <<every, scenario, stage, child, observed, verdict>>
----------------------------------------------------------------------------
(* The orders and their records *)

\* (faulty form of OrderAt) the cycle is not the one the comment gives
OrderAtThree(i) ==
  [side |-> IF i % 2 = 0 THEN "buy" ELSE "sell",
   price |-> <<3, 2, 1>>[(i % 3) + 1], qty |-> 1, ts |-> 0, client |-> i]

\* Of every four orders the first two trade and the last two rest.
OrderAt(i) ==
  [side |-> IF i % 2 = 0 THEN "buy" ELSE "sell",
   price |-> <<3, 2, 1, 4>>[(i % 4) + 1], qty |-> 1, ts |-> 0, client |-> i]

LeBytes(v) == [k \in 1..8 |-> (v \div Base^(k - 1)) % Base]

FromLe(bytes) == FoldRight(LAMBDA b, acc : acc * Base + b, bytes, 0)

\* tag, side, price, quantity, time, client and one byte of padding.
EncodeLimit(c) ==
  <<0, IF c.side = "buy" THEN 0 ELSE 1>> \o LeBytes(c.price) \o LeBytes(c.qty)
    \o LeBytes(0) \o LeBytes(c.client) \o <<0>>

\* (faulty form of DecodeLimit) the tag is read as the side
DecodeLimitTag(p) ==
  [side |-> IF p[1] = 0 THEN "buy" ELSE "sell",
   price |-> FromLe(SubSeq(p, 3, 10)), qty |-> FromLe(SubSeq(p, 11, 18)),
   ts |-> FromLe(SubSeq(p, 19, 26)), client |-> FromLe(SubSeq(p, 27, 34))]

DecodeLimit(p) ==
  [side |-> IF p[2] = 0 THEN "buy" ELSE "sell",
   price |-> FromLe(SubSeq(p, 3, 10)), qty |-> FromLe(SubSeq(p, 11, 18)),
   ts |-> FromLe(SubSeq(p, 19, 26)), client |-> FromLe(SubSeq(p, 27, 34))]
----------------------------------------------------------------------------
(* The engine, for limit orders of one lot *)

Empty == [buy |-> <<0, 0, 0, 0>>, sell |-> <<0, 0, 0, 0>>, fills |-> 0]

Levels(side) == {p \in 1..4 : side[p] > 0}
BestBid(b) == IF Levels(b.buy) = {} THEN -1 ELSE Max(Levels(b.buy))
BestAsk(b) == IF Levels(b.sell) = {} THEN -1 ELSE Min(Levels(b.sell))

\* An order that crosses fills one lot at the best price, any other one rests.
OnOrder(b, c) ==
  CASE c.side = "buy" /\ BestAsk(b) # -1 /\ BestAsk(b) <= c.price ->
         [b EXCEPT !.sell[BestAsk(b)] = @ - c.qty, !.fills = @ + 1]
    [] c.side = "sell" /\ BestBid(b) >= c.price ->
         [b EXCEPT !.buy[BestBid(b)] = @ - c.qty, !.fills = @ + 1]
    [] OTHER -> [b EXCEPT ![c.side][c.price] = @ + c.qty]

BookAfter(commands) ==
  LET after[n \in 0..Len(commands)] == IF n = 0 THEN Empty ELSE OnOrder(after[n - 1], commands[n])
  IN after[Len(commands)]
----------------------------------------------------------------------------
(* run_child *)

Fresh ==
  /\ done = 0 /\ since = 0 /\ final = FALSE /\ journal = <<>> /\ header = 0
  /\ book = Empty /\ ckpts = <<>>

Init ==
  /\ every \in Batches /\ scenario = 1 /\ stage = "run" /\ Fresh
  /\ observed = 0 /\ verdict = "none"

\* One round of the loop: append, then on_order, then perhaps a commit.
ChildOrder ==
  /\ stage = "run" /\ done < Count
  /\ journal' = Append(journal, EncodeLimit(OrderAt(done)))
  /\ book' = OnOrder(book, OrderAt(done))
  /\ done' = done + 1
  /\ since' = IF since + 1 >= every THEN 0 ELSE since + 1
  /\ stage' = IF since + 1 >= every THEN "commit" ELSE "run"
  /\ UNCHANGED <<every, scenario, final, header, ckpts, observed, verdict>>

ChildLoopEnds ==
  /\ stage = "run" /\ done = Count
  /\ final' = TRUE /\ stage' = "commit"
  /\ UNCHANGED <<every, scenario, done, since, journal, header, book, ckpts, observed, verdict>>

\* commit stores the cursor in the mapping: from here it survives a kill.
CommitStores ==
  /\ stage = "commit"
  /\ header' = Len(journal) /\ stage' = "header"
  /\ UNCHANGED <<every, scenario, done, since, final, journal, book, ckpts, observed, verdict>>

\* commit returns and writes_to_ckpt begins a line.
CommitReturns ==
  /\ stage = "header"
  /\ ckpts' = Append(ckpts, <<>>) /\ stage' = "ckpt"
  /\ UNCHANGED <<every, scenario, done, since, final, journal, header, book, observed, verdict>>

\* writeln! to the file writes the fields one after the other.
CkptField ==
  /\ stage = "ckpt"
  /\ LET k == Len(Last(ckpts)) + 1
         field == <<done, BestBid(book), BestAsk(book), book.fills>>[k]
     IN /\ ckpts' = [ckpts EXCEPT ![Len(ckpts)] = Append(@, field)]
        /\ stage' = IF k < 4 THEN "ckpt" ELSE IF final THEN "exited" ELSE "run"
  /\ UNCHANGED <<every, scenario, done, since, final, journal, header, book, observed, verdict>>
----------------------------------------------------------------------------
(* The parent *)

Replay == BookAfter([i \in 1..header |-> DecodeLimit(journal[i])])

\* (faulty form of ReadCkpts) a line that was cut short is read as zeros
ReadCkptsTorn ==
  LET lines == SelectSeq(ckpts, LAMBDA l : l # <<>>)
      At(l, k) == IF k \in DOMAIN l THEN l[k] ELSE 0
  IN [i \in DOMAIN lines |-> [orders |-> At(lines[i], 1), bid |-> At(lines[i], 2), ask |-> At(lines[i], 3)]]

\* A line that does not have its four fields is dropped.
ReadCkpts ==
  LET lines == SelectSeq(ckpts, LAMBDA l : Len(l) = 4)
  IN [i \in DOMAIN lines |-> [orders |-> lines[i][1], bid |-> lines[i][2], ask |-> lines[i][3]]]

\* verify, and the assertion on the number of orders after it.
Verify(expected) ==
  LET replayed == Replay
      covered == SelectSeq(ReadCkpts, LAMBDA c : c.orders <= header)
  IN CASE expected /\ header # Count -> "recovered orders"
       [] ReadCkpts = <<>> -> "no checkpoints"
       [] covered = <<>> -> "no covered checkpoint"
       [] BestBid(replayed) # Last(covered).bid -> "bid mismatch"
       [] BestAsk(replayed) # Last(covered).ask -> "ask mismatch"
       [] header = 0 -> "nothing recovered"
       [] ~expected /\ header >= Count -> "not partial"
       [] OTHER -> "ok"

VerifyFinished ==
  /\ scenario = 1 /\ stage = "exited" /\ verdict = "none"
  /\ verdict' = Verify(TRUE)
  /\ UNCHANGED <<every, scenario, stage, child, observed>>

\* The files are removed and a second child is started.
SecondChild ==
  /\ scenario = 1 /\ verdict = "ok"
  /\ scenario' = 2 /\ stage' = "run" /\ verdict' = "none" /\ observed' = 0
  /\ done' = 0 /\ since' = 0 /\ final' = FALSE /\ journal' = <<>> /\ header' = 0
  /\ book' = Empty /\ ckpts' = <<>>
  /\ UNCHANGED every

\* Three whole batches and more are committed.
SeenEnough == observed > 3 * every

Poll ==
  /\ scenario = 2 /\ stage # "killed" /\ ~SeenEnough /\ observed' = header
  /\ UNCHANGED <<every, scenario, stage, child, verdict>>

\* kill, once enough was seen or after 500 readings; the child may have gone
\* on, or even have finished, since the last reading.
Kill ==
  /\ scenario = 2 /\ stage # "killed"
  /\ stage' = "killed"
  /\ UNCHANGED <<every, scenario, child, observed, verdict>>

VerifyKilled ==
  /\ scenario = 2 /\ stage = "killed" /\ verdict = "none"
  /\ verdict' = Verify(FALSE)
  /\ UNCHANGED <<every, scenario, stage, child, observed>>

Next ==
  \/ ChildOrder \/ ChildLoopEnds \/ CommitStores \/ CommitReturns \/ CkptField
  \/ VerifyFinished \/ SecondChild \/ Poll \/ Kill \/ VerifyKilled

Spec == Init /\ [][Next]_vars
----------------------------------------------------------------------------
(* Correctness *)

\* Replay of the committed records, decoded from their bytes, gives the book
\* the child had after as many orders, at every moment and so wherever the
\* child is killed; and every whole checkpoint line tells that book's state.
ReplayGivesBook ==
  LET at(n) == BookAfter([i \in 1..n |-> OrderAt(i - 1)])
  IN /\ header <= done /\ Replay = at(header)
     /\ \A i \in DOMAIN ReadCkpts :
          LET c == ReadCkpts[i]
          IN c.orders <= header /\ c.bid = BestBid(at(c.orders)) /\ c.ask = BestAsk(at(c.orders))

\* The test raises no false alarm: a finished child always verifies, and so
\* does a killed one if the parent saw its three batches first and the child
\* had not committed everything.  This needs COUNT and EVERY to be multiples
\* of the cycle of four orders, as the defaults are.
NoFalseAlarm ==
  /\ scenario = 1 => verdict \in {"none", "ok"}
  /\ scenario = 2 /\ SeenEnough => verdict \in {"none", "ok", "not partial"}
=============================================================================
