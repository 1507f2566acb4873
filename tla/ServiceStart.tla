---------------------------- MODULE ServiceStart ----------------------------
(***************************************************************************)
(* The start of the two services, match-spot and match-contract: main,     *)
(* build_transport with load_dir, bootstrap::run with its filter of the    *)
(* markets, the keys it resets in Redis, the queue and worker per symbol,  *)
(* the entrust list it pages through and restores from, the consumers, and *)
(* the readiness flag; bootstrap::run_local, which does without services;  *)
(* and what is left behind when a step fails and the process exits.        *)
(*                                                                         *)
(* External, modelled from how the crates use them: the market service     *)
(* (Markets), the order service (its open rows, which change while they    *)
(* are read), Redis, and the files of the memory transport's `in`          *)
(* directory.  A symbol text is a record [letters, plain]: `plain' says    *)
(* that it is written without slash and capitals.  An order is a number;   *)
(* Symbol, Side and Valid say what its message holds.                      *)
(***************************************************************************)
EXTENDS Naturals, Sequences, FiniteSets, SequencesExt, FiniteSetsExt

CONSTANTS Markets,      \* the lists the market service may return
          Whitelists,   \* the sets of coin markets match.symbols_whitelist may name
          Stream,       \* this shard
          Locals,       \* MATCH_*_LOCAL_SYMBOLS, {} when it is not set
          OpenRows,     \* the order service's open orders at the start, in its order
          NewRows,      \* orders placed meanwhile, in order
          Symbol,       \* order number -> the letters of its symbol
          Side,         \* order number -> "buy" or "sell"
          Valid,        \* numbers whose messages pass check and convert
          InFiles,      \* the bodies of the `in` directory: sequences of numbers
          Capacity,     \* match.queue_capacity
          PageSize,     \* rows of a page
          MaxStarts,    \* bound: starts of the process
          MaxGone,      \* bound: rows that close while the service is down
          MaxFaults     \* bound: failing calls

VARIABLES flavour,      \* "spot" or "contract"
          whitelist, local,
          phase,        \* what main is doing
          ready,        \* BootstrapReady
          redis,        \* key -> value
          open,         \* the order service's open rows
          placed,       \* how many of NewRows were placed
          wanted,       \* the filtered list
          todo,         \* markets of the filtered list not yet set up
          commands,     \* Redis commands not yet executed
          symbols,      \* Running.symbols
          route,        \* the router's queues: symbol -> channel
          chans,        \* the channels: [sym, buf, worker, done]
          inbox,        \* the memory source's buffered bodies
          cursor,       \* fetch_all_entrusts: [side, page] or the last number
          rows,         \* the rows fetched and not yet restored
          startQueue,   \* contract: StartQueueState
          started,      \* the consumers run
          steady,       \* ghost: the rows open during the whole fetch
          shifted,      \* ghost: a row closed during the fetch
          starts, gone, faults

vars == <<flavour, whitelist, local, phase, ready, redis, open, placed, wanted, todo, commands,
          symbols, route, chans, inbox, cursor, rows, startQueue, started, steady, shifted, starts, gone,
          faults>>

config == <<flavour, whitelist, local>>
service == <<open, placed, gone, steady, shifted>>
bounds == <<starts, faults>>
setup == <<wanted, todo, commands>>
router == <<symbols, route, startQueue>>

(***************************************************************************)
(* Texts and keys.                                                         *)
(***************************************************************************)
Empty == [letters |-> "", plain |-> TRUE]
NormalizeSymbolKey(text) == [letters |-> text.letters, plain |-> TRUE]

LinkListKey(sym) == <<"link", sym>>
DepthSuffixes == <<"detail", "trade", "paint">>
SpotDepthKey(sym, suffix) == <<"depth", sym, suffix>>
ContractDepthKey(origin, suffix) == <<"depth", NormalizeSymbolKey(origin), suffix>>

Del(key) == [op |-> "del", key |-> key]
Exists(key) == [op |-> "exists", key |-> key]
Set(key, value) == [op |-> "set", key |-> key, value |-> value]

\* The commands of wipe_depth_keys and reset_link_key.
SpotWipeDepthKeys(sym) == [i \in 1..3 |-> Del(SpotDepthKey(sym, DepthSuffixes[i]))]
ContractWipeDepthKeys(origin) == [i \in 1..3 |-> Del(ContractDepthKey(origin, DepthSuffixes[i]))]

SpotResetLinkKey(sym, label) == <<Del(LinkListKey(sym)), Set(LinkListKey(sym), label)>>
ContractResetLinkKey(sym, coin) ==
    <<Del(LinkListKey(sym)), Exists(LinkListKey(sym)), Set(LinkListKey(sym), coin)>>

(***************************************************************************)
(* Which markets this process serves.  A market of the list may lack any   *)
(* of its fields: an option is a set of at most one element.               *)
(***************************************************************************)
SpotFilterMarkets(list) ==
    SelectSeq(list, LAMBDA m : /\ m.stream = {Stream}
                               /\ whitelist = {} \/ \E c \in m.coin : c \in whitelist)

ContractFilterMarkets(list) ==
    SelectSeq(list, LAMBDA m : /\ m.stream = {Stream}
                               /\ whitelist = {} \/ \E c \in m.coin : c \in whitelist)

FilterMarkets(list) ==
    IF flavour = "spot" THEN SpotFilterMarkets(list) ELSE ContractFilterMarkets(list)

\* The key a queue is registered under: spot takes the market's own symbol
\* key as it is and derives one only when it is missing or empty.
SpotSymbolKey(m) ==
    CASE \E s \in m.symbol : s # Empty -> CHOOSE s \in m.symbol : TRUE
      [] \A s \in m.symbol : s = Empty ->
            IF \E c \in m.coin : c # Empty
            THEN NormalizeSymbolKey(CHOOSE c \in m.coin : TRUE) ELSE Empty

ContractSymbolKey(m) ==
    IF m.coin = {} THEN Empty ELSE NormalizeSymbolKey(CHOOSE c \in m.coin : TRUE)

SymbolKeyOf(m) == IF flavour = "spot" THEN SpotSymbolKey(m) ELSE ContractSymbolKey(m)

MarketLabel(m, derived) == IF m.symbol = {} THEN derived ELSE CHOOSE s \in m.symbol : TRUE

OriginOf(m) == CHOOSE o \in (IF m.origin # {} THEN m.origin ELSE m.coin) : TRUE

\* The Redis commands that one market costs.
SpotCommands(m) ==
    SpotWipeDepthKeys(SpotSymbolKey(m))
       \o SpotResetLinkKey(SpotSymbolKey(m), MarketLabel(m, SpotSymbolKey(m)))

ContractCommands(m) ==
    ContractWipeDepthKeys(OriginOf(m))
       \o ContractResetLinkKey(ContractSymbolKey(m), CHOOSE c \in m.coin : TRUE)

CommandsOf(m) == IF flavour = "spot" THEN SpotCommands(m) ELSE ContractCommands(m)

(***************************************************************************)
(* main and bootstrap, one step after the other.  A call that fails ends   *)
(* in process::exit, which loses what the process held: Stop.              *)
(***************************************************************************)
Init ==
    /\ flavour \in {"spot", "contract"}
    /\ whitelist \in Whitelists /\ local \in Locals
    /\ phase = "down" /\ ready = FALSE
    /\ redis = [k \in {LinkListKey(Empty)} |-> Empty]
    /\ open = OpenRows /\ placed = 0
    /\ wanted = <<>> /\ todo = <<>> /\ commands = <<>>
    /\ symbols = <<>> /\ route = [k \in {} |-> 0] /\ chans = <<>>
    /\ inbox = <<>> /\ cursor = <<>> /\ rows = <<>>
    /\ startQueue = {} /\ started = FALSE
    /\ steady = {} /\ shifted = FALSE
    /\ starts = 0 /\ gone = 0 /\ faults = 0

\* The process begins with nothing but its configuration.
Main ==
    /\ phase = "down" /\ starts < MaxStarts
    /\ starts' = starts + 1
    /\ phase' = "transport"
    /\ ready' = FALSE
    /\ wanted' = <<>> /\ todo' = <<>> /\ commands' = <<>>
    /\ symbols' = <<>> /\ route' = [k \in {} |-> 0] /\ chans' = <<>>
    /\ inbox' = <<>> /\ cursor' = <<>> /\ rows' = <<>>
    /\ startQueue' = {} /\ started' = FALSE /\ steady' = {} /\ shifted' = FALSE
    /\ UNCHANGED <<config, redis, open, placed, gone, faults>>

\* build_transport: load_dir publishes every file, and with no handler yet
\* the bodies are buffered.
BuildTransport ==
    /\ phase = "transport"
    /\ inbox' = FlattenSeq(InFiles)
    /\ phase' = IF local # {} THEN "local" ELSE IF flavour = "spot" THEN "connect" ELSE "markets"
    /\ UNCHANGED <<config, ready, redis, service, bounds, setup, router, chans, cursor, rows,
                   started>>

\* RedisStore::connect: before the markets are fetched in spot, after it in
\* contract.
ConnectRedis ==
    /\ phase = "connect"
    /\ phase' = IF flavour = "spot" THEN "markets" ELSE "setup"
    /\ UNCHANGED <<config, ready, redis, service, bounds, setup, router, chans, inbox, cursor,
                   rows, started>>

\* No market for this shard: BootstrapError::NoMarkets.
FetchMarkets(list) ==
    /\ phase = "markets"
    /\ LET filtered == FilterMarkets(list)
       IN  /\ phase' = IF filtered = <<>> THEN "down"
                       ELSE IF flavour = "spot" THEN "setup" ELSE "connect"
           /\ wanted' = filtered /\ todo' = filtered
    /\ UNCHANGED <<config, ready, redis, service, bounds, commands, router, chans, inbox, cursor,
                   rows, started>>

Register(sym) == [op |-> "register", key |-> sym]

\* The next market: its keys are reset, then its queue is registered.
NextMarket ==
    /\ phase = "setup" /\ commands = <<>> /\ todo # <<>>
    /\ todo' = Tail(todo)
    /\ commands' = LET m == Head(todo)
                   IN IF SymbolKeyOf(m) = Empty THEN <<>>
                      ELSE Append(CommandsOf(m), Register(SymbolKeyOf(m)))
    /\ UNCHANGED <<config, phase, ready, redis, service, bounds, wanted, router, chans, inbox,
                   cursor, rows, started>>

Without(key) == [k \in DOMAIN redis \ {key} |-> redis[k]]
With(key, value) == [k \in DOMAIN redis \cup {key} |-> IF k = key THEN value ELSE redis[k]]

RedisCommand ==
    /\ phase = "setup" /\ commands # <<>>
    /\ Head(commands).op \in {"del", "exists", "set"}
    /\ LET c == Head(commands)
       IN  CASE c.op = "del" -> redis' = Without(c.key) /\ commands' = Tail(commands)
             [] c.op = "exists" ->
                   /\ redis' = redis
                   /\ commands' = IF c.key \in DOMAIN redis THEN Tail(Tail(commands))
                                  ELSE Tail(commands)
             [] c.op = "set" -> redis' = With(c.key, c.value) /\ commands' = Tail(commands)
    /\ UNCHANGED <<config, phase, ready, service, bounds, wanted, todo, router, chans, inbox,
                   cursor, rows, started>>

Channel(sym, worker) == [sym |-> sym, buf |-> <<>>, worker |-> worker, done |-> <<>>]

\* A second market with the same key replaces the channel of the first.
RegisterQueue ==
    /\ phase = "setup" /\ commands # <<>> /\ Head(commands).op = "register"
    /\ LET sym == Head(commands).key
       IN  /\ chans' = Append(chans, Channel(sym, "none"))
           /\ route' = [k \in DOMAIN route \cup {sym} |->
                           IF k = sym THEN Len(chans) + 1 ELSE route[k]]
           /\ symbols' = Append(symbols, sym)
    /\ commands' = Tail(commands)
    /\ UNCHANGED <<config, phase, ready, redis, service, bounds, wanted, todo, inbox, cursor, rows,
                   startQueue, started>>

\* Every market is set up: the workers are spawned, if there are any.
SpawnWorkers ==
    /\ phase = "setup" /\ commands = <<>> /\ todo = <<>>
    /\ phase' = IF symbols = <<>> THEN "down" ELSE "fetch"
    /\ chans' = [i \in DOMAIN chans |-> [chans[i] EXCEPT !.worker = "running"]]
    /\ cursor' = IF flavour = "spot" THEN <<"buy", 1>> ELSE <<0>>
    /\ steady' = IF symbols = <<>> THEN {} ELSE ToSet(open)
    /\ UNCHANGED <<config, ready, redis, open, placed, gone, shifted, bounds, setup, router, inbox,
                   rows, started>>

\* run_local: the channels and workers of the symbols it was given.
RunLocal ==
    /\ phase = "local"
    /\ LET syms == CHOOSE l \in local : TRUE
       IN  /\ chans' = [i \in DOMAIN syms |-> Channel(syms[i], "running")]
           /\ route' = [k \in ToSet(syms) |-> Max({i \in DOMAIN syms : syms[i] = k})]
           /\ symbols' = syms
    /\ phase' = "consume"
    /\ UNCHANGED <<config, ready, redis, service, bounds, setup, inbox, cursor, rows, startQueue,
                   started>>

(***************************************************************************)
(* fetch_all_entrusts.  Spot counts pages of each side, so a row that      *)
(* closes meanwhile moves the later ones up; contract asks for the rows    *)
(* after the last number it has seen.                                      *)
(***************************************************************************)
PageOf(list, n) == SubSeq(list, (n - 1) * PageSize + 1, Min({n * PageSize, Len(list)}))

FetchSpotPage ==
    /\ phase = "fetch" /\ flavour = "spot"
    /\ LET page == PageOf(SelectSeq(open, LAMBDA n : Side[n] = cursor[1]), cursor[2])
       IN  /\ rows' = rows \o page
           /\ cursor' = IF page # <<>> THEN <<cursor[1], cursor[2] + 1>> ELSE <<"sell", 1>>
           /\ phase' = IF page = <<>> /\ cursor[1] = "sell" THEN "restore" ELSE "fetch"
    /\ UNCHANGED <<config, ready, redis, service, bounds, setup, router, chans, inbox, started>>

\* (faulty form of FetchContractPage) only the first page is read
FetchContractPageOnce ==
    /\ phase = "fetch" /\ flavour = "contract"
    /\ LET page == PageOf(SelectSeq(open, LAMBDA n : n > cursor[1]), 1)
       IN  /\ rows' = rows \o page
           /\ cursor' = IF page # <<>> THEN <<Last(page)>> ELSE cursor
           /\ phase' = IF Len(page) <= PageSize THEN "restore" ELSE "fetch"
    /\ UNCHANGED <<config, ready, redis, service, bounds, setup, router, chans, inbox, started>>

FetchContractPage ==
    /\ phase = "fetch" /\ flavour = "contract"
    /\ LET page == PageOf(SelectSeq(open, LAMBDA n : n > cursor[1]), 1)
       IN  /\ rows' = rows \o page
           /\ cursor' = IF page # <<>> THEN <<Last(page)>> ELSE cursor
           /\ phase' = IF page = <<>> THEN "restore" ELSE "fetch"
    /\ UNCHANGED <<config, ready, redis, service, bounds, setup, router, chans, inbox, started>>

(***************************************************************************)
(* The router: a queue is looked up by the symbol key of the converted     *)
(* order, which is plain, and try_send fails on a full channel.            *)
(***************************************************************************)
KeyOf(n) == [letters |-> Symbol[n], plain |-> TRUE]
Enqueues(n) == KeyOf(n) \in DOMAIN route /\ Len(chans[route[KeyOf(n)]].buf) < Capacity
Enqueued(n, from) ==
    [chans EXCEPT ![route[KeyOf(n)]].buf = Append(@, [no |-> n, from |-> from])]

\* One restored row.  An invalid row is skipped; a row that cannot be
\* enqueued ends the bootstrap.
RestoreRow ==
    /\ phase = "restore" /\ rows # <<>>
    /\ LET n == Head(rows)
           ok == n \in Valid /\ Enqueues(n)
       IN  /\ phase' = IF n \in Valid /\ ~ok THEN "down" ELSE "restore"
           /\ chans' = IF ok THEN Enqueued(n, "restore") ELSE chans
           /\ startQueue' = IF ok /\ flavour = "contract" THEN startQueue \cup {n} ELSE startQueue
    /\ rows' = Tail(rows)
    /\ UNCHANGED <<config, ready, redis, service, bounds, setup, symbols, route, inbox, cursor,
                   started>>

RestoreDone ==
    /\ phase = "restore" /\ rows = <<>>
    /\ phase' = "consume"
    /\ UNCHANGED <<config, ready, redis, service, bounds, setup, router, chans, inbox, cursor,
                   rows, started>>

\* contract: the START_QUEUE / BigNo test of handle_mq_order.
Deduped(n) == \E r \in startQueue : r >= n

\* start_consumers: MemoryMessageSource::start hands the buffered orders
\* over; an order that is refused is lost, the message is acknowledged.
Consume ==
    /\ phase = "consume" /\ inbox # <<>>
    /\ inbox' = Tail(inbox)
    /\ LET n == Head(inbox)
       IN chans' = IF n \in Valid /\ ~Deduped(n) /\ Enqueues(n) THEN Enqueued(n, "live") ELSE chans
    /\ started' = TRUE
    /\ UNCHANGED <<config, phase, ready, redis, service, bounds, setup, router, cursor, rows>>

Consuming ==
    /\ phase = "consume" /\ inbox = <<>>
    /\ phase' = "running" /\ started' = TRUE
    /\ UNCHANGED <<config, ready, redis, service, bounds, setup, router, chans, inbox, cursor, rows>>

MarkReady ==
    /\ phase = "running"
    /\ phase' = "serving" /\ ready' = TRUE
    /\ UNCHANGED <<config, redis, service, bounds, setup, router, chans, inbox, cursor, rows,
                   started>>

\* contract: the task that clears START_QUEUE and BigNo.
TtlExpires ==
    /\ phase \in {"running", "serving"} /\ startQueue # {}
    /\ startQueue' = {}
    /\ UNCHANGED <<config, phase, ready, redis, service, bounds, setup, symbols, route, chans,
                   inbox, cursor, rows, started>>

\* A symbol worker executes the next order of its channel; it ends when the
\* router has dropped the sender and the channel is empty.
WorkerStep(i) ==
    /\ phase # "down" /\ chans[i].worker = "running"
    /\ \/ /\ chans[i].buf # <<>>
          /\ chans' = [chans EXCEPT ![i].buf = Tail(@),
                                    ![i].done = Append(@, Head(chans[i].buf))]
       \/ /\ chans[i].buf = <<>> /\ i \notin {route[k] : k \in DOMAIN route}
          /\ chans' = [chans EXCEPT ![i].worker = "ended"]
    /\ UNCHANGED <<config, phase, ready, redis, service, bounds, setup, router, inbox, cursor, rows,
                   started>>

(***************************************************************************)
(* A failing call, a crash or ctrl_c; the order service; the market        *)
(* service, which fills the depth keys of a symbol that trades.            *)
(***************************************************************************)
Stop ==
    /\ phase # "down" /\ faults < MaxFaults
    /\ faults' = faults + 1
    /\ phase' = "down" /\ ready' = FALSE
    /\ UNCHANGED <<config, redis, service, starts, setup, router, chans, inbox, cursor, rows, started>>

CloseRow(i) ==
    /\ gone < MaxGone
    /\ gone' = gone + 1
    /\ open' = RemoveAt(open, i)
    /\ steady' = steady \ {open[i]}
    /\ shifted' = (shifted \/ phase = "fetch")
    /\ UNCHANGED <<config, phase, ready, redis, placed, bounds, setup, router, chans, inbox, cursor,
                   rows, started>>

PlaceRow ==
    /\ placed < Len(NewRows)
    /\ placed' = placed + 1
    /\ open' = Append(open, NewRows[placed + 1])
    /\ UNCHANGED <<config, phase, ready, redis, gone, steady, shifted, bounds, setup, router, chans,
                   inbox, cursor, rows, started>>

ShowDepth(m) ==
    /\ phase = "serving" /\ SymbolKeyOf(m) # Empty
    /\ LET key == IF flavour = "spot" THEN SpotDepthKey(SpotSymbolKey(m), "trade")
                  ELSE ContractDepthKey(OriginOf(m), "trade")
       IN key \notin DOMAIN redis /\ redis' = With(key, Empty)
    /\ UNCHANGED <<config, phase, ready, service, bounds, setup, router, chans, inbox, cursor, rows,
                   started>>

Next ==
    \/ Main \/ BuildTransport \/ ConnectRedis
    \/ \E list \in Markets : FetchMarkets(list)
    \/ NextMarket \/ RedisCommand \/ RegisterQueue \/ SpawnWorkers \/ RunLocal
    \/ FetchSpotPage \/ FetchContractPage \/ RestoreRow \/ RestoreDone
    \/ Consume \/ Consuming \/ MarkReady \/ TtlExpires
    \/ \E i \in DOMAIN chans : WorkerStep(i)
    \/ Stop
    \/ \E i \in DOMAIN open : CloseRow(i)
    \/ PlaceRow
    \/ \E m \in ToSet(wanted) : ShowDepth(m)

Spec == Init /\ [][Next]_vars

(***************************************************************************)
(* Properties.                                                             *)
(***************************************************************************)
History(i) == chans[i].done \o chans[i].buf
ServedKeys == {SymbolKeyOf(m) : m \in {x \in ToSet(wanted) : x.stream = {Stream}}} \ {Empty}

\* Whatever failed in earlier starts: when /readyz says ready, every market
\* of this shard has a queue with a running worker and its link key, and no
\* other symbol has a queue; when the consumers start, no depth of an
\* earlier life is left in Redis and every valid order that was open during
\* the whole fetch is in its symbol's channel, unless (spot) a row that
\* closed meanwhile moved it to a page already read; and in every channel
\* the restored orders precede the live ones.
StartSound ==
    /\ ready /\ local = {} =>
          /\ DOMAIN route = ServedKeys
          /\ \A k \in ServedKeys :
                /\ chans[route[k]].worker = "running"
                /\ LinkListKey(k) \in DOMAIN redis
    /\ phase = "consume" /\ local = {} =>
          /\ \A k \in DOMAIN redis : k[1] = "depth" =>
                \A m \in ToSet(wanted) :
                   SymbolKeyOf(m) # Empty => Del(k) \notin ToSet(CommandsOf(m))
          /\ ~(flavour = "spot" /\ shifted) =>
                \A n \in steady \cap Valid :
                   /\ KeyOf(n) \in DOMAIN route
                   /\ n \in {e.no : e \in ToSet(History(route[KeyOf(n)]))}
    /\ \A i \in DOMAIN chans :
          \A a, b \in DOMAIN History(i) :
             History(i)[a].from = "live" /\ History(i)[b].from = "restore" => b < a
=============================================================================
