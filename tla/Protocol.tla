------------------------------ MODULE Protocol ------------------------------
(***************************************************************************)
(* How an order message becomes an order of an engine: the checks and      *)
(* conversions of crates/match-protocol (check_mq_order and type_convert   *)
(* of the contract market, check_mq_order_spot and type_convert_spot of    *)
(* the spot market), the rows the two services restore their books from    *)
(* (build_mq_order, build_mq_order_spot), and the boundary of the HP       *)
(* engine (match-core-hp adapter.rs and scale.rs), which turns a decimal   *)
(* order into ticks and lots.                                              *)
(*                                                                         *)
(* An optional value is the empty set or a singleton.  A text field is a   *)
(* record: its kind is "blank" (empty or only white space), "junk" (not a  *)
(* number), "padded" (a number with white space around it) or "number";    *)
(* its number is m / Base^e, where e is negative if it was written with a  *)
(* positive exponent.  A symbol key keeps its letters, and whether it is   *)
(* written with a slash and in capitals.                                   *)
(***************************************************************************)
EXTENDS Integers, FiniteSets, FiniteSetsExt

CONSTANTS Base,         \* the base of written numbers (10 in the code)
          I64Max,       \* the largest i64, scaled down
          I8Max,        \* the largest i8, scaled down
          LeadingZeros,   \* most zeros after the point a decimal is printed with (5)
          TrailingZeros,  \* most zeros at its end an integer is printed with (15)
          Scales,       \* the symbol scales, [price, qty]
          Usual,        \* the message every other one is a change of
          Changes,      \* field -> the values it may be given instead
          Remains,      \* the remaining amounts a stored row may show
          MaxChanges    \* fields of a message that differ from Usual

VARIABLES stage,    \* "message", "order", "restored" or "command"
          market,   \* "contract" or "spot"
          mq,       \* the MqOrder
          changes,  \* how many of its fields were changed
          order,    \* what check and convert made of it, if anything
          live,     \* the order that was live before the restore, and what remained
          scale,    \* the scale of the symbol
          command   \* what the adapter made of the order

vars == <<stage, market, mq, changes, order, live, scale, command>>

(***************************************************************************)
(* Constants of the protocol.                                              *)
(***************************************************************************)
Types == 1..8
SpotTypes == 1..3
Buy == 1
Sell == 2
OrderTypes == {Buy, Sell}
StatusWait == 0
StatusSuccessPart == 2
StatusRevoke == 3
OrderStatus == {StatusWait, StatusSuccessPart, StatusRevoke}
FormLimit == 1
FormMarket == 2
OrderForms == 1..5
SpotOrderForms == {FormLimit, FormMarket}

IsSome(opt) == opt # {}
Value(opt) == CHOOSE v \in opt : TRUE
UnwrapOr(opt, default) == IF IsSome(opt) THEN Value(opt) ELSE default
Within(opt, values) == IsSome(opt) /\ opt \subseteq values
IsBlank(opt) == \A text \in opt : text.kind = "blank"

(***************************************************************************)
(* BigDecimal::from_str: no trimming, so a padded number is refused.       *)
(***************************************************************************)
ParseDecimal(text) == IF text.kind = "number" THEN {[m |-> text.m, e |-> text.e]} ELSE {}
Parsed(opt) == UNION {ParseDecimal(text) : text \in opt}
Zero == [m |-> 0, e |-> 0]
Positive(opt) == \E d \in opt : d.m > 0
Units(d, e) == d.m * Base ^ (e - d.e)
SameNumber(c, d) == LET e == Max({c.e, d.e}) IN Units(c, e) = Units(d, e)

\* What both markets ask of a message.
CheckCommon(m, types, forms) ==
    /\ IsSome(m.user)
    /\ Within(m.type, types)
    /\ Within(m.side, OrderTypes)
    /\ IsSome(m.market) /\ IsSome(m.coin)
    /\ Within(m.form, forms)
    /\ ~IsBlank(m.symbol) /\ ~IsBlank(m.coinMarket) /\ ~IsBlank(m.no)
    /\ Within(m.status, OrderStatus)
    /\ ~IsBlank(m.number) /\ ~IsBlank(m.price)
    /\ \E t \in m.time : t > 0

CheckMqOrder(m) ==
    /\ CheckCommon(m, Types, OrderForms)
    /\ m.form = {FormMarket} => \E g \in m.gear : g >= 1
    /\ IsSome(m.close)
    /\ ~IsBlank(m.deposit) /\ ~IsBlank(m.rate)
    /\ IsSome(m.position)

CheckMqOrderSpot(m) ==
    /\ CheckCommon(m, SpotTypes, SpotOrderForms)
    /\ m.form = {FormMarket} => IsSome(m.gear)

SymbolKey(text) == text.letters

\* The fields both conversions carry over unchanged.
Carried(m) ==
    [user |-> Value(m.user), type |-> Value(m.type), side |-> Value(m.side),
     market |-> Value(m.market), coin |-> Value(m.coin), symbol |-> SymbolKey(Value(m.symbol)),
     coinMarket |-> Value(m.coinMarket), no |-> Value(m.no), form |-> Value(m.form),
     status |-> Value(m.status), number |-> Value(Parsed(m.number)),
     price |-> Value(Parsed(m.price)), remaining |-> Value(Parsed(m.number)),
     consumed |-> Zero, deal |-> Zero, average |-> Zero, time |-> Value(m.time)]

CarriedSome(m) ==
    /\ \A f \in {"user", "type", "side", "market", "coin", "symbol", "coinMarket", "no",
                 "form", "status", "time"} : IsSome(m[f])
    /\ IsSome(Parsed(m.number)) /\ IsSome(Parsed(m.price))

Extend(rec, more) == [f \in DOMAIN rec \cup DOMAIN more |->
                         IF f \in DOMAIN more THEN more[f] ELSE rec[f]]

\* (faulty form of TypeConvert) the price is not asked to be positive.
TypeConvertAnyPrice(m) ==
    IF /\ CarriedSome(m)
       /\ Positive(Parsed(m.number))
       /\ \A f \in {"uid", "close", "position", "lever"} : IsSome(m[f])
       /\ IsSome(Parsed(m.deposit)) /\ IsSome(Parsed(m.rate))
    THEN {Extend(Carried(m), [uid |-> Value(m.uid), gear |-> m.gear, close |-> Value(m.close),
                              deposit |-> Value(Parsed(m.deposit)), rate |-> Value(Parsed(m.rate)),
                              position |-> Value(m.position), lever |-> Value(m.lever)])}
    ELSE {}

\* The contract market's own fields are all required; gear may be missing.
TypeConvert(m) ==
    IF /\ CarriedSome(m)
       /\ Positive(Parsed(m.number)) /\ Positive(Parsed(m.price))
       /\ \A f \in {"uid", "close", "position", "lever"} : IsSome(m[f])
       /\ IsSome(Parsed(m.deposit)) /\ IsSome(Parsed(m.rate))
    THEN {Extend(Carried(m), [uid |-> Value(m.uid), gear |-> m.gear, close |-> Value(m.close),
                              deposit |-> Value(Parsed(m.deposit)), rate |-> Value(Parsed(m.rate)),
                              position |-> Value(m.position), lever |-> Value(m.lever)])}
    ELSE {}

\* The spot market fills the contract's fields with zeros.
TypeConvertSpot(m) ==
    IF /\ CarriedSome(m)
       /\ Positive(Parsed(m.number))
       /\ Positive(Parsed(m.price)) \/ m.form = {FormMarket}
    THEN {Extend(Carried(m), [uid |-> UnwrapOr(m.uid, 0), gear |-> {UnwrapOr(m.gear, 0)},
                              close |-> UnwrapOr(m.close, 0),
                              deposit |-> UnwrapOr(Parsed(m.deposit), Zero),
                              rate |-> UnwrapOr(Parsed(m.rate), Zero),
                              position |-> UnwrapOr(m.position, 0), lever |-> UnwrapOr(m.lever, 0)])}
    ELSE {}

\* What a service makes of a message: an order, or nothing.
Accept(mk, m) ==
    CASE mk = "contract" /\ CheckMqOrder(m) -> TypeConvert(m)
      [] mk = "spot" /\ CheckMqOrderSpot(m) -> TypeConvertSpot(m)
      [] OTHER -> {}

(***************************************************************************)
(* The rows of the order service a book is restored from.  The spot row    *)
(* names its fields differently, keeps the four small numbers as i32, and  *)
(* has no contract fields; `as i8` wraps what does not fit.                *)
(***************************************************************************)
AsI8(n) == ((n + I8Max + 1) % (2 * (I8Max + 1))) - (I8Max + 1)

BuildMqOrder(row) == Extend(row, [dealType |-> {}, handicap |-> {}])

\* (faulty form of BuildMqOrderSpot) the row's type and user_type change places.
BuildMqOrderSpotSwapped(row) ==
    [user |-> row.user, uid |-> row.uid, dealType |-> {}, handicap |-> {},
     type |-> {AsI8(v) : v \in row.type}, side |-> {AsI8(v) : v \in row.userType},
     market |-> row.market, coin |-> row.coin, symbol |-> row.symbol,
     coinMarket |-> row.coinMarket, no |-> row.entrustNo, close |-> {}, deposit |-> {},
     position |-> {}, rate |-> {}, status |-> {AsI8(v) : v \in row.status},
     form |-> {AsI8(v) : v \in row.priceType}, gear |-> row.gear, lever |-> {},
     number |-> row.remainAmount, price |-> row.price, time |-> row.time]

BuildMqOrderSpot(row) ==
    [user |-> row.user, uid |-> row.uid, dealType |-> {}, handicap |-> {},
     type |-> {AsI8(v) : v \in row.userType}, side |-> {AsI8(v) : v \in row.type},
     market |-> row.market, coin |-> row.coin, symbol |-> row.symbol,
     coinMarket |-> row.coinMarket, no |-> row.entrustNo, close |-> {}, deposit |-> {},
     position |-> {}, rate |-> {}, status |-> {AsI8(v) : v \in row.status},
     form |-> {AsI8(v) : v \in row.priceType}, gear |-> row.gear, lever |-> {},
     number |-> row.remainAmount, price |-> row.price, time |-> row.time]

\* The rows the order services keep for a message of which `left` remains.
ContractRow(m, left) ==
    [f \in DOMAIN m \ {"dealType", "handicap"} |-> IF f = "number" THEN {left} ELSE m[f]]

SpotRow(m, left) ==
    [user |-> m.user, uid |-> m.uid, userType |-> m.type, type |-> m.side,
     market |-> m.market, coin |-> m.coin, symbol |-> m.symbol, coinMarket |-> m.coinMarket,
     entrustNo |-> m.no, priceType |-> m.form, gear |-> m.gear, status |-> m.status,
     remainAmount |-> {left}, price |-> m.price, time |-> m.time]

Restored(mk, m, left) ==
    IF mk = "contract" THEN BuildMqOrder(ContractRow(m, left)) ELSE BuildMqOrderSpot(SpotRow(m, left))

(***************************************************************************)
(* scale.rs: fixed-point integers from decimal text and back.              *)
(***************************************************************************)
Ok(v) == [ok |-> TRUE, v |-> v]
Err(e) == [ok |-> FALSE, e |-> e]
Abs(n) == IF n < 0 THEN -n ELSE n
MaxDigits == 9    \* bound: digits of a number


ParseFixed(text, s) ==
    CASE text.kind = "blank" -> Err("Empty")
      [] text.kind = "junk" -> Err("Invalid")
      [] text.kind \in {"number", "padded"} /\ text.e > s -> Err("ExcessFractionalDigits")
      [] text.kind \in {"number", "padded"} /\ text.e <= s ->
            LET v == text.m * Base ^ (s - text.e)
            IN IF Abs(v) > I64Max THEN Err("Overflow") ELSE Ok(v)

ToTick(sc, text) == ParseFixed(text, sc.price)
ToLot(sc, text) == ParseFixed(text, sc.qty)

\* The sign is written apart, so the value is split into sign and magnitude.
FormatFixed(v, s) ==
    LET factor == Base ^ s
        whole == Abs(v) \div factor
        frac == Abs(v) % factor
    IN [kind |-> "number", e |-> s,
        m |-> (IF v < 0 THEN -1 ELSE 1) * (whole * factor + frac)]

FromTick(sc, v) == FormatFixed(v, sc.price)
FromLot(sc, v) == FormatFixed(v, sc.qty)

(***************************************************************************)
(* BigDecimal::normalized takes all zeros from the end of the digits, the  *)
(* integral ones too.  Display writes a number with more than LeadingZeros *)
(* zeros after the point as "1E-7" and an integer with more than           *)
(* TrailingZeros zeros at its end as "1e+16", which parse_fixed refuses.   *)
(***************************************************************************)
DigitsOf(n) == Min({k \in 1..MaxDigits : Abs(n) < Base ^ k})

Normalized(d) ==
    IF d.m = 0 THEN Zero
    ELSE LET zeros == Max({k \in 0..DigitsOf(d.m) : d.m % Base ^ k = 0})
         IN [m |-> d.m \div Base ^ zeros, e |-> d.e - zeros]

Display(d) ==
    IF d.e - DigitsOf(d.m) > LeadingZeros \/ -d.e > TrailingZeros
    THEN [kind |-> "junk"]
    ELSE LET e == Max({d.e, 0}) IN [kind |-> "number", m |-> Units(d, e), e |-> e]

DecimalToTick(sc, d) == ToTick(sc, Display(Normalized(d)))
DecimalToLot(sc, d) == ToLot(sc, Display(Normalized(d)))

ParseId(text) ==
    IF text.kind = "number" /\ text.e = 0 /\ text.m >= 0 THEN Ok(text.m) ELSE Err("InvalidOrderId")

FromBbOrder(o, sc) ==
    LET id == ParseId(o.no)
        lot == DecimalToLot(sc, o.remaining)
        tick == DecimalToTick(sc, o.price)
        side == IF o.side = Buy THEN "buy" ELSE "sell"
    IN  CASE o.status = StatusRevoke ->
                IF id.ok THEN Ok([cmd |-> "cancel", id |-> id.v]) ELSE id
          [] o.status # StatusRevoke ->
                CASE o.side \notin OrderTypes -> Err("UnsupportedSide")
                  [] o.side \in OrderTypes /\ o.time < 0 -> Err("InvalidTimestamp")
                  [] o.side \in OrderTypes /\ o.time >= 0 /\ ~id.ok -> id
                  [] o.side \in OrderTypes /\ o.time >= 0 /\ id.ok /\ ~lot.ok -> lot
                  [] o.side \in OrderTypes /\ o.time >= 0 /\ id.ok /\ lot.ok ->
                        CASE o.form = FormLimit ->
                                IF ~tick.ok THEN tick
                                ELSE Ok([cmd |-> "limit", side |-> side, tick |-> tick.v,
                                         lot |-> lot.v, ts |-> o.time, id |-> id.v])
                          [] o.form = FormMarket ->
                                IF \E g \in o.gear : g >= 1
                                THEN Ok([cmd |-> "market", side |-> side, lot |-> lot.v,
                                         ts |-> o.time, max |-> o.gear, id |-> id.v])
                                ELSE Err("InvalidGear")
                          [] o.form \notin {FormLimit, FormMarket} -> Err("UnsupportedForm")

(***************************************************************************)
(* One message on its way.                                                 *)
(***************************************************************************)
Init ==
    /\ stage = "message"
    /\ market \in {"contract", "spot"}
    /\ mq = Usual
    /\ changes = 0
    /\ order = {} /\ live = {} /\ command = {}
    /\ scale \in Scales

\* The client writes one more field differently.
WriteField(f) ==
    /\ stage = "message"
    /\ changes < MaxChanges
    /\ mq[f] = Usual[f]
    /\ \E v \in Changes[f] : mq' = [mq EXCEPT ![f] = v]
    /\ changes' = changes + 1
    /\ UNCHANGED <<stage, market, order, live, scale, command>>

\* The service checks and converts it.
Receive ==
    /\ stage = "message"
    /\ order' = Accept(market, mq)
    /\ stage' = "order"
    /\ UNCHANGED <<market, mq, changes, live, scale, command>>

\* The service restarts; `left` of the order remains in the order service.
Restore(left) ==
    /\ stage = "order"
    /\ order # {}
    /\ live' = {[order |-> Value(order), left |-> left]}
    /\ mq' = Restored(market, mq, left)
    /\ order' = Accept(market, mq')
    /\ stage' = "restored"
    /\ UNCHANGED <<market, changes, scale, command>>

\* The order is handed to the HP engine.
Adapt ==
    /\ stage \in {"order", "restored"}
    /\ order # {}
    /\ command' = {FromBbOrder(Value(order), scale)}
    /\ stage' = "command"
    /\ UNCHANGED <<market, mq, changes, order, live, scale>>

Next ==
    \/ \E f \in DOMAIN Changes : WriteField(f)
    \/ Receive
    \/ \E left \in Remains : Restore(left)
    \/ Adapt

Spec == Init /\ [][Next]_vars

(***************************************************************************)
(* Properties.                                                             *)
(***************************************************************************)
\* The contract's own fields, which a spot order carries as zeros.
ContractOnly == {"uid", "gear", "close", "deposit", "rate", "position", "lever"}

SameBut(o, p, fields) == \A f \in DOMAIN o \ fields : o[f] = p[f]

\* An order that passed check and convert can be executed: something
\* remains of it, it has a price unless it is a spot market order, a
\* contract market order has a gear.  A message that the contract market
\* accepts, of an owner type and form the spot market knows, is accepted
\* there as the same order.
AcceptedIsExecutable ==
    /\ \A o \in order :
          /\ o.number.m > 0 /\ SameNumber(o.remaining, o.number)
          /\ o.price.m > 0 \/ (market = "spot" /\ o.form = FormMarket)
          /\ o.side \in OrderTypes /\ o.status \in OrderStatus /\ o.time > 0
          /\ o.form = FormMarket => o.gear # {}
          /\ market = "contract" /\ o.form = FormMarket => \A g \in o.gear : g >= 1
    /\ \A o \in Accept("contract", mq) :
          o.type \in SpotTypes /\ o.form \in SpotOrderForms =>
             \E p \in Accept("spot", mq) : SameBut(o, p, {"gear"})

\* A restored order is the live order with the remaining amount as its
\* number, and only an order of which nothing remains is not restored: the
\* services restore their books through build_mq_order and
\* build_mq_order_spot followed by the checks a live message passes.
RestoredIsLive ==
    stage = "restored" =>
       \A l \in live :
          IF Positive(ParseDecimal(l.left))
          THEN \E o \in order :
                  /\ SameBut(l.order, o, {"number", "remaining"} \cup
                                         IF market = "spot" THEN ContractOnly ELSE {})
                  /\ o.gear = l.order.gear
                  /\ {o.number, o.remaining} = ParseDecimal(l.left)
          ELSE order = {}

\* The decimal d is a whole number of units of scale s, and an i64 holds it.
Fits(d, s) ==
    LET e == Max({d.e, s})
        unit == Base ^ (e - s)
    IN Units(d, e) % unit = 0 /\ Abs(Units(d, e)) <= I64Max * unit

\* d is so small, or has so many zeros at its end, that it is printed with
\* an exponent.
Extreme(d) ==
    LET e == Max({d.e, LeadingZeros + 1})
    IN /\ d.m # 0
       /\ \/ Abs(Units(d, e)) < Base ^ (e - LeadingZeros - 1)
          \/ Units(d, e) % Base ^ (e + TrailingZeros + 1) = 0

\* The numbers of the order the HP command needs, with the scale of each.
Numbers(o) == {<<o.remaining, scale.qty>>}
              \cup IF o.form = FormLimit THEN {<<o.price, scale.price>>} ELSE {}

\* The order has an id, a form and a gear the HP engine can execute.
Executable(o) ==
    /\ ParseId(o.no).ok
    /\ \/ o.form = FormLimit
       \/ o.form = FormMarket /\ \E g \in o.gear : g >= 1


\* to_tick and to_lot reject excess fractional digits (and what overflows):
\* an order the HP engine can execute whose amount and price are whole
\* numbers of lots and ticks is converted.
FittingIsConverted ==
    \A c \in command, o \in order :
       Executable(o) /\ (\A n \in Numbers(o) : Fits(n[1], n[2])) => c.ok

TypeOK ==
    /\ stage \in {"message", "order", "restored", "command"}
    /\ market \in {"contract", "spot"}
    /\ changes \in 0..MaxChanges
    /\ Cardinality(order) <= 1 /\ Cardinality(command) <= 1
    /\ scale \in Scales
=============================================================================
