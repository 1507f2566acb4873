---------------------------- MODULE GoldenReplay ----------------------------
(***************************************************************************)
(* match-replay: a golden trace is a file of lines, the inputs of an       *)
(* engine interleaved with the fills, revokes and depths it answered when  *)
(* the trace was recorded.  The tool feeds the inputs to a fresh engine    *)
(* and compares.  Here a trace is recorded, then edited by hand, and       *)
(* replayed from one file or with the expectations in a second file.       *)
(*                                                                         *)
(* The engine is a parameter: any deterministic function of the book and   *)
(* the order.  A number text is a record [m, e, ok] for m / Base^e; a text *)
(* that is no number has ok = FALSE and is told apart by m.                *)
(***************************************************************************)
EXTENDS Integers, Sequences, FiniteSets, SequencesExt, FiniteSetsExt

CONSTANTS Base, EmptyBook,
          OnOrder(_, _),       \* book, order -> [book, events]
          DepthLevels(_, _),   \* book, side -> levels, best first
          Inputs,              \* the orders a trace may hold
          Texts,               \* texts an editor may write in place of a number
          MaxLevels,           \* NO_DEAL_NUMBER
          MaxInputs, MaxDepths, MaxEdits

VARIABLES phase,    \* "record", "edit" or "done"
          book,     \* the recording engine's book
          golden,   \* the trace as it was recorded
          trace,    \* the trace as it is
          edits

vars == <<phase, book, golden, trace, edits>>

\* to_bb_order: the side and the price must be readable.  A market order has
\* no price and gear 1, an unknown form is a limit order, and the status and
\* gear of the line, if it has one, are written over those of the helper.
ReadableOrder(o) == o.side \in {1, 2} /\ o.price.ok

ToBbOrder(o) ==
    LET form == IF o.form \in 2..5 THEN o.form ELSE 1
    IN [side |-> IF o.side = 1 THEN "buy" ELSE "sell", form |-> form, no |-> o.no, qty |-> o.qty,
        price |-> IF form = 2 THEN 0 ELSE o.price.m, status |-> o.status,
        gear |-> IF o.gear # {} THEN o.gear ELSE IF form = 2 THEN {1} ELSE {}]

DecStr(n) == [m |-> n, e |-> 0, ok |-> TRUE]

\* The first MaxLevels levels of both sides, as texts.
SnapshotSide(b, side) ==
    LET levels == DepthLevels(b, side)
    IN [i \in 1..Min({Len(levels), MaxLevels}) |-> <<DecStr(levels[i][1]), DecStr(levels[i][2])>>]

SnapshotDepth(b) == [bids |-> SnapshotSide(b, "buy"), asks |-> SnapshotSide(b, "sell")]

InputLine(o) == [op |-> "input", order |-> o]
OutcomeLine(ev) == [op |-> ev.kind, event |-> ev]
DepthLine(d) == [op |-> "depth", depth |-> d]

FromMatchEvent(ev) ==
    IF ev.kind = "fill"
    THEN [kind |-> "fill", taker |-> ev.taker, maker |-> ev.maker, price |-> DecStr(ev.price),
          qty |-> DecStr(ev.qty), takerLeft |-> DecStr(ev.takerLeft),
          makerLeft |-> DecStr(ev.makerLeft), takerStatus |-> ev.takerStatus,
          makerStatus |-> ev.makerStatus]
    ELSE [kind |-> "revoke", no |-> ev.no, left |-> DecStr(ev.left), reason |-> ev.reason]

FromTraceLine(line) == IF line.op \in {"fill", "revoke"} THEN <<line.event>> ELSE <<>>

(***************************************************************************)
(* collect_replay: the lines of one file in order.                         *)
(***************************************************************************)
Nothing == [eng |-> EmptyBook, actual |-> <<>>, expected |-> <<>>, checks |-> <<>>, ok |-> TRUE]

ApplyInput(acc, line) ==
    IF ~ReadableOrder(line.order) THEN [acc EXCEPT !.ok = FALSE]
    ELSE LET r == OnOrder(acc.eng, ToBbOrder(line.order))
         IN [acc EXCEPT !.eng = r.book,
                        !.actual = @ \o [i \in DOMAIN r.events |-> FromMatchEvent(r.events[i])]]

ApplyExpected(acc, line) ==
    CASE line.op \in {"fill", "revoke"} -> [acc EXCEPT !.expected = @ \o FromTraceLine(line)]
      [] line.op = "depth" ->
            [acc EXCEPT !.checks = Append(@, [want |-> line.depth, got |-> SnapshotDepth(acc.eng)])]
      [] line.op = "input" -> acc

CollectReplay(ops) ==
    FoldLeft(LAMBDA acc, line : IF ~acc.ok THEN acc
                                ELSE IF line.op = "input" THEN ApplyInput(acc, line)
                                ELSE ApplyExpected(acc, line), Nothing, ops)

\* replay_paths with two files: all the inputs first, so that every depth
\* line is compared with the final book.
ReplayPaths(inputs, expected) ==
    LET fed == FoldLeft(LAMBDA acc, line : IF acc.ok /\ line.op = "input" THEN ApplyInput(acc, line)
                                           ELSE acc, Nothing, inputs)
    IN IF ~fed.ok THEN fed ELSE FoldLeft(ApplyExpected, fed, expected)

(***************************************************************************)
(* diff.rs.  Numbers are compared as numbers, everything else as text.     *)
(***************************************************************************)
DecimalsEqual(a, b) ==
    IF a.ok /\ b.ok THEN a.m * Base ^ b.e = b.m * Base ^ a.e ELSE a = b

LevelsEqual(want, got) ==
    /\ Len(want) = Len(got)
    /\ \A i \in DOMAIN want : \A j \in 1..2 : DecimalsEqual(want[i][j], got[i][j])

FillNumbers == {"price", "qty", "takerLeft", "makerLeft"}
FillTexts == {"taker", "maker", "takerStatus", "makerStatus"}

OutcomeEqual(want, got) ==
    /\ want.kind = got.kind
    /\ want.kind = "fill" => /\ \A f \in FillNumbers : DecimalsEqual(want[f], got[f])
                             /\ \A f \in FillTexts : want[f] = got[f]
    /\ want.kind = "revoke" => /\ DecimalsEqual(want.left, got.left)
                               /\ want.no = got.no /\ want.reason = got.reason

\* (faulty form of DiffOutcomes) only as many lines as both have are compared
DiffOutcomesShorter(want, got) ==
    {i \in 1..Min({Len(want), Len(got)}) : ~OutcomeEqual(want[i], got[i])}

\* The positions at which the two lists differ, up to the longer one's end.
DiffOutcomes(want, got) ==
    {i \in 1..Max({Len(want), Len(got)}) :
        IF i <= Len(want) /\ i <= Len(got) THEN ~OutcomeEqual(want[i], got[i]) ELSE TRUE}

DiffDepthCheck(c) ==
    ~(LevelsEqual(c.want.bids, c.got.bids) /\ LevelsEqual(c.want.asks, c.got.asks))

\* The tool exits 0.
Matches(c) ==
    /\ c.ok
    /\ DiffOutcomes(c.expected, c.actual) = {}
    /\ \A i \in DOMAIN c.checks : ~DiffDepthCheck(c.checks[i])

(***************************************************************************)
(* Recording and editing.                                                  *)
(***************************************************************************)
Count(ops, op) == Cardinality({i \in DOMAIN ops : ops[i].op = op})

Init ==
    /\ phase = "record"
    /\ book = EmptyBook
    /\ golden = <<>> /\ trace = <<>> /\ edits = 0

Record(o) ==
    /\ phase = "record" /\ Count(golden, "input") < MaxInputs
    /\ LET r == OnOrder(book, ToBbOrder(o))
       IN /\ book' = r.book
          /\ golden' = Append(golden, InputLine(o)) \o
                       [i \in DOMAIN r.events |-> OutcomeLine(FromMatchEvent(r.events[i]))]
    /\ trace' = golden'
    /\ UNCHANGED <<phase, edits>>

RecordDepth ==
    /\ phase = "record" /\ Count(golden, "depth") < MaxDepths
    /\ golden' = Append(golden, DepthLine(SnapshotDepth(book)))
    /\ trace' = golden'
    /\ UNCHANGED <<phase, book, edits>>

Finish ==
    /\ phase = "record"
    /\ phase' = "edit"
    /\ UNCHANGED <<book, golden, trace, edits>>

Edited(t) == edits < MaxEdits /\ edits' = edits + 1 /\ trace' = t /\ UNCHANGED <<phase, book, golden>>

\* A number of an outcome is written differently, or wrongly.
EditNumber(i) ==
    /\ phase = "edit" /\ trace[i].op \in {"fill", "revoke"}
    /\ \E f \in DOMAIN trace[i].event \cap {"price", "qty", "takerLeft", "makerLeft", "left"},
          t \in Texts : Edited([trace EXCEPT ![i].event[f] = t])

EditDepth(i) ==
    /\ phase = "edit" /\ trace[i].op = "depth" /\ trace[i].depth.bids # <<>>
    /\ \E t \in Texts : Edited([trace EXCEPT ![i].depth.bids[1][2] = t])

DropLine(i) ==
    /\ phase = "edit" /\ trace[i].op # "input"
    /\ Edited(RemoveAt(trace, i))

\* Two neighbouring lines change places.
SwapLines(i) ==
    /\ phase = "edit" /\ i + 1 \in DOMAIN trace
    /\ ~(trace[i].op = "input" /\ trace[i + 1].op = "input")
    /\ Edited([trace EXCEPT ![i] = trace[i + 1], ![i + 1] = trace[i]])

Next ==
    \/ \E o \in Inputs : Record(o)
    \/ RecordDepth \/ Finish
    \/ \E i \in DOMAIN trace : EditNumber(i) \/ EditDepth(i) \/ DropLine(i) \/ SwapLines(i)

Spec == Init /\ [][Next]_vars

(***************************************************************************)
(* Properties.                                                             *)
(***************************************************************************)
Outcomes(ops) == FlattenSeq([i \in DOMAIN ops |-> FromTraceLine(ops[i])])
InputsBefore(ops, i) == Count(SubSeq(ops, 1, i), "input")

\* The book's depth after the first k inputs of the recording, as far as a
\* golden depth line shows it.
GoldenDepths(k) == {golden[i].depth : i \in {j \in DOMAIN golden :
                        golden[j].op = "depth" /\ InputsBefore(golden, j) = k}}

SameDepth(d, c) == LevelsEqual(d.bids, c.bids) /\ LevelsEqual(d.asks, c.asks)

\* The tool accepts a trace when its outcomes are, in order and as numbers,
\* the recorded ones and every depth line shows a depth recorded after the
\* same inputs, and only then as far as a depth was recorded there: respelling a number or moving an outcome past an
\* input changes nothing, a missing, extra, altered or reordered outcome is
\* found.  With the expectations in a second file the tool gives the same
\* answer when the depth lines are at the end.
ReplayExact ==
    phase = "edit" =>
       LET c == CollectReplay(trace)
           outcomes == /\ Len(Outcomes(trace)) = Len(Outcomes(golden))
                       /\ \A i \in DOMAIN Outcomes(golden) :
                             OutcomeEqual(Outcomes(trace)[i], Outcomes(golden)[i])
           depths == \A i \in DOMAIN trace : trace[i].op = "depth" =>
                        \E d \in GoldenDepths(InputsBefore(trace, i)) : SameDepth(trace[i].depth, d)
           final == \A i \in DOMAIN trace :
                       trace[i].op = "depth" => InputsBefore(trace, i) = Count(trace, "input")
       IN  /\ Matches(c) => outcomes
           /\ outcomes /\ depths => Matches(c)
           /\ \A i \in DOMAIN trace : trace[i].op = "depth" =>
                 \A d \in GoldenDepths(InputsBefore(trace, i)) :
                    Matches(c) => SameDepth(trace[i].depth, d)
           /\ edits = 0 => Matches(c)
           /\ final => (Matches(c) <=> Matches(ReplayPaths(trace, trace)))
=============================================================================
