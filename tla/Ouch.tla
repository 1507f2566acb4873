-------------------------------- MODULE Ouch --------------------------------
(***************************************************************************)
(* The OUCH messages of match-soupbintcp: each encode_* function writes    *)
(* the fields of a message one behind the other, parse reads them back at  *)
(* fixed offsets.  A layout below is the order in which an encoder writes, *)
(* an offset table is what parse reads; that the two belong together is    *)
(* nowhere written down in the code.                                       *)
(*                                                                         *)
(* Bytes have Base values instead of 256, so a u32 ends at Base^4 - 1; the *)
(* byte 0 is the space that pads alpha fields.  The type byte is its       *)
(* letter.                                                                 *)
(***************************************************************************)
EXTENDS Integers, Sequences, SequencesExt, FiniteSetsExt

CONSTANTS
    Base,        \* number of values of a byte
    Values,      \* kind of field -> values a message may hold
    MaxChanges   \* bound: fields that differ from the base message

Space == 0

VARIABLES
    msg,      \* the message of the sender: type letter and fields
    changes,  \* fields changed so far
    cut       \* bytes missing at the end of the buffer, or more bytes behind it

vars == <<msg, changes, cut>>

Field(name, kind) == [name |-> name, kind |-> kind]
Alpha(width) == <<"alpha", width>>
Byte == <<"byte", 1>>
U32 == <<"u32", 4>>
I32 == <<"i32", 4>>
U64 == <<"u64", 8>>

-----------------------------------------------------------------------------
\* The messages and the order in which the encoders write them.
EnterOrder ==
    <<Field("token", Alpha(14)), Field("side", Byte), Field("shares", U32),
      Field("stock", Alpha(8)), Field("price", I32), Field("time_in_force", U32),
      Field("firm", Alpha(4)), Field("display", Byte), Field("capacity", Byte),
      Field("intermarket_sweep", Byte), Field("min_qty", U32), Field("cross_type", Byte),
      Field("customer_type", Byte)>>

CancelOrder == <<Field("token", Alpha(14)), Field("shares", U32)>>

ReplaceOrder ==
    <<Field("existing_token", Alpha(14)), Field("replacement_token", Alpha(14)),
      Field("shares", U32), Field("price", I32), Field("time_in_force", U32),
      Field("display", Byte), Field("intermarket_sweep", Byte), Field("min_qty", U32),
      Field("cross_type", Byte), Field("customer_type", Byte)>>

\* The fields behind ref_number are written and not part of the message,
\* apart from order_state.
Accepted ==
    <<Field("timestamp", U64), Field("token", Alpha(14)), Field("side", Byte),
      Field("shares", U32), Field("stock", Alpha(8)), Field("price", I32),
      Field("time_in_force", U32), Field("firm", Alpha(4)), Field("display", Byte),
      Field("ref_number", U64), Field("#capacity", Byte), Field("#ise", Byte),
      Field("#min_qty", U32), Field("#cross", Byte), Field("order_state", Byte),
      Field("#bbo_weight", Byte)>>

Executed ==
    <<Field("timestamp", U64), Field("token", Alpha(14)), Field("shares", U32),
      Field("match_number", U32), Field("price", I32)>>

Canceled ==
    <<Field("timestamp", U64), Field("token", Alpha(14)), Field("decrement", U32),
      Field("reason", Byte)>>

Layout ==
    [O |-> EnterOrder, X |-> CancelOrder, U |-> ReplaceOrder,
     A |-> Accepted, E |-> Executed, C |-> Canceled]

\* ENTER_LEN and the other length constants.
MessageLen == [O |-> 49, X |-> 19, U |-> 49, A |-> 66, E |-> 35, C |-> 28]

Placeholders == {"#capacity", "#ise", "#min_qty", "#cross", "#bbo_weight"}
FieldsOf(type) == {Layout[type][i].name : i \in DOMAIN Layout[type]} \ Placeholders

-----------------------------------------------------------------------------
\* n digits of v, the highest first: to_be_bytes.
Digits(v, n) == [i \in 1 .. n |-> (v \div Base ^ (n - i)) % Base]
Number(b) == FoldLeft(LAMBDA a, d : a * Base + d, 0, b)

\* (faulty form of PadAlpha) A text that is too long is written in full.
PadAlphaFull(s, n) == s \o [i \in 1 .. Max({n - Len(s), 0}) |-> Space]

\* pad_alpha: cut to the width, filled with spaces.
PadAlpha(s, n) ==
    LET take == Min({Len(s), n})
    IN  SubSeq(s, 1, take) \o [i \in 1 .. n - take |-> Space]

\* push_u32, push_i32 (two's complement), push_u64, pad_alpha or one byte.
Push(kind, v) ==
    CASE kind[1] = "alpha" -> PadAlpha(v, kind[2])
      [] kind[1] = "i32"   -> Digits(IF v < 0 THEN v + Base ^ 4 ELSE v, 4)
      [] kind[1] \in {"u32", "u64"} -> Digits(v, kind[2])
      [] kind[1] = "byte"  -> <<v>>

ValueOf(m, name) == IF name \in Placeholders THEN 0 ELSE m.fields[name]

\* The encoder of m.type.
Encode(m) ==
    FoldLeft(LAMBDA b, f : b \o Push(f.kind, ValueOf(m, f.name)), <<m.type>>, Layout[m.type])

-----------------------------------------------------------------------------
\* get_str, get_u32, get_i32, get_u64 and plain bytes, offsets from zero.
GetStr(b, off, n) ==
    LET s == SubSeq(b, off + 1, off + n)
        last == Max({0} \cup {i \in 1 .. n : s[i] # Space})
    IN  SubSeq(s, 1, last)

GetU32(b, off) == Number(SubSeq(b, off + 1, off + 4))
GetU64(b, off) == Number(SubSeq(b, off + 1, off + 8))

\* (faulty form of GetI32) Read as u32.
GetI32Unsigned(b, off) == GetU32(b, off)

GetI32(b, off) ==
    LET v == GetU32(b, off) IN IF v >= (Base ^ 4) \div 2 THEN v - Base ^ 4 ELSE v

ParseEnter(b) ==
    [token |-> GetStr(b, 1, 14), side |-> b[16], shares |-> GetU32(b, 16),
     stock |-> GetStr(b, 20, 8), price |-> GetI32(b, 28), time_in_force |-> GetU32(b, 32),
     firm |-> GetStr(b, 36, 4), display |-> b[41], capacity |-> b[42],
     intermarket_sweep |-> b[43], min_qty |-> GetU32(b, 43), cross_type |-> b[48],
     customer_type |-> b[49]]

ParseReplace(b) ==
    [existing_token |-> GetStr(b, 1, 14), replacement_token |-> GetStr(b, 15, 14),
     shares |-> GetU32(b, 29), price |-> GetI32(b, 33), time_in_force |-> GetU32(b, 37),
     display |-> b[42], intermarket_sweep |-> b[43], min_qty |-> GetU32(b, 43),
     cross_type |-> b[48], customer_type |-> b[49]]

\* (faulty form of ParseAccepted) The order state is read one byte too far.
ParseAcceptedShifted(b) ==
    [timestamp |-> GetU64(b, 1), token |-> GetStr(b, 9, 14), side |-> b[24],
     shares |-> GetU32(b, 24), stock |-> GetStr(b, 28, 8), price |-> GetI32(b, 36),
     time_in_force |-> GetU32(b, 40), firm |-> GetStr(b, 44, 4), display |-> b[49],
     ref_number |-> GetU64(b, 49), order_state |-> b[66]]

ParseAccepted(b) ==
    [timestamp |-> GetU64(b, 1), token |-> GetStr(b, 9, 14), side |-> b[24],
     shares |-> GetU32(b, 24), stock |-> GetStr(b, 28, 8), price |-> GetI32(b, 36),
     time_in_force |-> GetU32(b, 40), firm |-> GetStr(b, 44, 4), display |-> b[49],
     ref_number |-> GetU64(b, 49), order_state |-> b[65]]

ParseExecuted(b) ==
    [timestamp |-> GetU64(b, 1), token |-> GetStr(b, 9, 14), shares |-> GetU32(b, 23),
     match_number |-> GetU32(b, 27), price |-> GetI32(b, 31)]

ParseFields(type, b) ==
    CASE type = "O" -> ParseEnter(b)
      [] type = "X" -> [token |-> GetStr(b, 1, 14), shares |-> GetU32(b, 15)]
      [] type = "U" -> ParseReplace(b)
      [] type = "A" -> ParseAccepted(b)
      [] type = "E" -> ParseExecuted(b)
      [] type = "C" -> [timestamp |-> GetU64(b, 1), token |-> GetStr(b, 9, 14),
                        decrement |-> GetU32(b, 23), reason |-> b[28]]

\* parse: {} for an empty buffer, an unknown type or too few bytes, else {message}.
Parse(b) ==
    IF b = <<>> \/ b[1] \notin DOMAIN Layout \/ Len(b) < MessageLen[b[1]] THEN {}
    ELSE {[type |-> b[1], fields |-> ParseFields(b[1], b)]}

-----------------------------------------------------------------------------
\* A message whose alpha fields are empty and whose numbers are zero, changed
\* field by field.
Init ==
    /\ \E type \in DOMAIN Layout :
         msg = [type |-> type,
                fields |-> [n \in FieldsOf(type) |->
                   IF \E i \in DOMAIN Layout[type] :
                         Layout[type][i].name = n /\ Layout[type][i].kind[1] = "alpha"
                   THEN <<>> ELSE 0]]
    /\ changes = 0 /\ cut = 0

SetField(f) ==
    /\ changes < MaxChanges /\ cut = 0
    /\ f.name \notin Placeholders
    /\ \E v \in Values[f.kind[1]] : msg' = [msg EXCEPT !.fields[f.name] = v]
    /\ changes' = changes + 1
    /\ UNCHANGED cut

\* The buffer ends early, or the next message stands behind.
Cut(n) ==
    /\ cut = 0 /\ changes = 1
    /\ cut' = n
    /\ UNCHANGED <<msg, changes>>

Next ==
    \/ \E f \in ToSet(Layout[msg.type]) : SetField(f)
    \/ \E n \in {-1, 1, 4, 18} : Cut(n)

Spec == Init /\ [][Next]_vars

\* What a field can carry: texts lose what exceeds the width and the spaces
\* at their end.
Carried(type, name, v) ==
    LET f == CHOOSE g \in ToSet(Layout[type]) : g.name = name
        s == SubSeq(v, 1, Min({Len(v), f.kind[2]}))
    IN  IF f.kind[1] # "alpha" THEN v
        ELSE SubSeq(s, 1, Max({0} \cup {i \in DOMAIN s : s[i] # Space}))

\* An encoded message has the length its type promises, and parse gives it
\* back field by field, for every type and at both ends of the number ranges;
\* a buffer that ends early is refused and bytes behind it change nothing.
OuchExact ==
    LET bytes == Encode(msg)
        buffer == IF cut < 0 THEN bytes \o <<1>> ELSE SubSeq(bytes, 1, Len(bytes) - cut)
    IN  /\ Len(bytes) = MessageLen[msg.type]
        /\ cut > 0 => Parse(buffer) = {}
        /\ cut <= 0 =>
             Parse(buffer) =
                 {[msg EXCEPT !.fields =
                     [n \in DOMAIN msg.fields |-> Carried(msg.type, n, msg.fields[n])]]}
=============================================================================
