----------------------------- MODULE MCInbound -----------------------------
(* What comes in, in one model: the START_QUEUE window of match-contract,  *)
(* the start of the two services, the conversion of messages and rows into *)
(* orders and engine commands, and the replay of golden traces.  A         *)
(* behaviour is of one of them, as `part' says.                            *)
EXTENDS ContractInbound, SequencesExt, FiniteSetsExt

(* ContractInbound: the numbers of one symbol surround those of the other, *)
(* so that BigNo of one symbol covers messages of the other.               *)
MCSymbols == {"btcusdt", "ethusdt"}
MCThree == [n \in 1 .. 3 |-> IF n = 2 THEN "ethusdt" ELSE "btcusdt"]

(* ServiceStart: a market without a name, one of another shard, two with   *)
(* the same key; row 2 is invalid, row 4 is placed while the rows are read *)
Text(letters, plain) == [letters |-> letters, plain |-> plain]
Market(coin, symbol, origin, stream) ==
    [coin |-> coin, symbol |-> symbol, origin |-> origin, stream |-> stream]
Btc == Market({Text("btc", FALSE)}, {Text("btc", TRUE)}, {}, {1})
Eth == Market({Text("eth", FALSE)}, {}, {Text("ethx", FALSE)}, {1})
EthAgain == Market({Text("eth", FALSE)}, {Text("", TRUE)}, {}, {1})
Nameless == Market({}, {}, {}, {1})
Other == Market({Text("doge", FALSE)}, {}, {}, {2})
MCMarkets == {<<Btc, Other, Eth>>, <<Nameless, Eth, EthAgain>>, <<Other>>, <<Nameless>>}

VARIABLES flavour, whitelist, local, startPhase, ready, redis, open, placed, wanted, todo, commands,
          symbols, route, chans, inbox, startCursor, startRows, deduping, started, steady, shifted,
          starts, gone, faults

Start == INSTANCE ServiceStart
    WITH phase <- startPhase, cursor <- startCursor, rows <- startRows, startQueue <- deduping,
         Markets <- MCMarkets, Whitelists <- {{}, {Text("btc", FALSE)}}, Stream <- 1,
         Locals <- {{}, {<<Text("btc", TRUE), Text("btc", TRUE)>>}},
         OpenRows <- <<1, 2, 3>>, NewRows <- <<4>>,
         Symbol <- <<"btc", "btc", "eth", "btc", "eth">>,
         Side <- <<"buy", "buy", "sell", "buy", "sell">>,
         Valid <- {1, 3, 4, 5}, InFiles <- <<<<5, 2>>>>,
         Capacity <- 2, PageSize <- 1, MaxStarts <- 2, MaxGone <- 1, MaxFaults <- 1

startVars == <<flavour, whitelist, local, startPhase, ready, redis, open, placed, wanted, todo,
               commands, symbols, route, chans, inbox, startCursor, startRows, deduping, started,
               steady, shifted, starts, gone, faults>>

(* Protocol: every field of a usual message in the forms a client may give *)
(* it, three of them at a time.                                            *)
Dec(m, e) == [kind |-> "number", m |-> m, e |-> e]
Padded(m, e) == [kind |-> "padded", m |-> m, e |-> e]
Blank == [kind |-> "blank"]
Junk == [kind |-> "junk"]
Pair(slash, upper) == [kind |-> "text", letters |-> "btcusdt", slash |-> slash, upper |-> upper]
MCUsual ==
    [user |-> {1}, uid |-> {2}, dealType |-> {}, handicap |-> {}, type |-> {1}, side |-> {1},
     market |-> {1}, coin |-> {1}, symbol |-> {Pair(TRUE, TRUE)}, coinMarket |-> {Pair(TRUE, FALSE)},
     no |-> {Dec(42, 0)}, close |-> {1}, deposit |-> {Dec(0, 0)}, position |-> {1},
     rate |-> {Dec(1, 2)}, status |-> {0}, form |-> {1}, gear |-> {}, lever |-> {3},
     number |-> {Dec(15, 1)}, price |-> {Dec(2, 0)}, time |-> {9}]
MCChanges ==
    [user |-> {{}}, uid |-> {{}}, dealType |-> {{1}}, type |-> {{}, {3}, {8}, {9}},
     side |-> {{}, {0}, {2}}, market |-> {{}}, coin |-> {{}},
     symbol |-> {{}, {Blank}, {Pair(FALSE, FALSE)}}, coinMarket |-> {{}},
     no |-> {{}, {Blank}, {Junk}, {Padded(42, 0)}}, close |-> {{}}, deposit |-> {{}, {Junk}},
     position |-> {{}}, rate |-> {{}, {Blank}}, status |-> {{}, {1}, {2}, {3}},
     form |-> {{}, {2}, {3}, {6}}, gear |-> {{0}, {1}}, lever |-> {{}},
     number |-> {{}, {Junk}, {Padded(1, 0)}, {Dec(0, 0)}, {Dec(-1, 0)}, {Dec(120, 1)}, {Dec(1, 3)},
                 {Dec(125, 2)}, {Dec(400, 0)}, {Dec(3, -1)}},
     price |-> {{}, {Junk}, {Dec(0, 0)}, {Dec(-1, 0)}, {Dec(205, 1)}, {Dec(125, 2)}, {Dec(2000, 0)},
               {Dec(21, -2)}},
     time |-> {{}, {0}, {-1}}]

VARIABLES stage, market, mq, changes, order, live, scale, command

Convert == INSTANCE Protocol
    WITH Base <- 10, I64Max <- 9999, I8Max <- 127, LeadingZeros <- 1, TrailingZeros <- 2,
         Scales <- {[price |-> 0, qty |-> 3], [price |-> 2, qty |-> 1]},
         Usual <- MCUsual, Changes <- MCChanges, Remains <- {Dec(0, 0), Dec(5, 1), Dec(7, 0)},
         MaxChanges <- 3

convertVars == <<stage, market, mq, changes, order, live, scale, command>>

(* GoldenReplay: an engine with one place in its book.  A crossing order   *)
(* trades with the order there, and what is left of it is revoked.         *)
Line(side, form, no, qty, price) ==
    [side |-> side, form |-> form, no |-> no, qty |-> qty, status |-> 0, gear |-> {},
     price |-> [m |-> price, e |-> 0, ok |-> TRUE]]
MCInputs == {Line(1, 1, "b1", 2, 5), Line(2, 1, "s1", 1, 5), Line(2, 1, "s2", 3, 6), Line(1, 2, "m1", 2, 0)}

Revoked(o, left, reason) == [kind |-> "revoke", no |-> o.no, left |-> left, reason |-> reason]
Traded(o, m, q) ==
    [kind |-> "fill", taker |-> o.no, maker |-> m.no, price |-> m.price, qty |-> q,
     takerLeft |-> o.qty - q, makerLeft |-> m.qty - q,
     takerStatus |-> IF q = o.qty THEN 1 ELSE 2, makerStatus |-> IF q = m.qty THEN 1 ELSE 2]

Crosses(o, m) ==
    /\ o.side # m.side
    /\ o.form # 2 => IF o.side = "sell" THEN o.price <= m.price ELSE o.price >= m.price

MCOnOrder(b, o) ==
    IF b = <<>> /\ o.form # 2 THEN [book |-> <<o>>, events |-> <<>>]
    ELSE IF b = <<>> \/ ~Crosses(o, b[1]) THEN [book |-> b, events |-> <<Revoked(o, o.qty, "full")>>]
    ELSE LET q == Min({o.qty, b[1].qty})
         IN [book |-> IF q = b[1].qty THEN <<>> ELSE <<[b[1] EXCEPT !.qty = @ - q]>>,
             events |-> <<Traded(o, b[1], q)>>
                        \o (IF q = o.qty THEN <<>> ELSE <<Revoked(o, o.qty - q, "rest")>>)]
MCDepth(b, side) == IF b # <<>> /\ b[1].side = side THEN <<<<b[1].price, b[1].qty>>>> ELSE <<>>

VARIABLES tracePhase, traceBook, golden, trace, edits

Golden == INSTANCE GoldenReplay
    WITH phase <- tracePhase, book <- traceBook, Base <- 10, EmptyBook <- <<>>,
         OnOrder <- MCOnOrder, DepthLevels <- MCDepth, Inputs <- MCInputs,
         Texts <- {[m |-> 10, e |-> 1, ok |-> TRUE], [m |-> 1, e |-> 0, ok |-> TRUE],
                   [m |-> 0, e |-> 0, ok |-> FALSE]},
         MaxLevels <- 2, MaxInputs <- 3, MaxDepths <- 1, MaxEdits <- 2

goldenVars == <<tracePhase, traceBook, golden, trace, edits>>

VARIABLE part

allVars == <<vars, startVars, convertVars, goldenVars, part>>

\* The parts that do not run stand still in one initial state.
PartInit ==
    /\ part \in {"window", "start", "convert", "golden"}
    /\ Init /\ Start!Init /\ Convert!Init /\ Golden!Init
    /\ part # "window" => invalid = {1}
    /\ part # "start" => flavour = "spot" /\ whitelist = {} /\ local = {}
    /\ part # "convert" => market = "spot" /\ scale.price = 0

PartNext ==
    \/ part = "window" /\ Next /\ UNCHANGED <<startVars, convertVars, goldenVars, part>>
    \/ part = "start" /\ Start!Next /\ UNCHANGED <<vars, convertVars, goldenVars, part>>
    \/ part = "convert" /\ Convert!Next /\ UNCHANGED <<vars, startVars, goldenVars, part>>
    \/ part = "golden" /\ Golden!Next /\ UNCHANGED <<vars, startVars, convertVars, part>>

PartSpec == PartInit /\ [][PartNext]_allVars

\* When a service says it is ready, all it serves is set up and restored,
\* whatever earlier starts left behind.
StartSound == part = "start" => Start!StartSound

\* What check and convert accept the engine can execute, and a row restored
\* from the order service is the order that was live.
OrdersExecutable == part = "convert" => Convert!AcceptedIsExecutable /\ Convert!RestoredIsLive


\* An order whose amount and price are whole lots and ticks is converted.
FittingIsConverted == part = "convert" => Convert!FittingIsConverted

\* Replaying a trace finds no difference, unless the trace was edited.
ReplayExact == part = "golden" => Golden!ReplayExact
=============================================================================
