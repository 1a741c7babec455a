--------------------------- MODULE RustDeserializer ---------------------------
(***************************************************************************)
(* How the Rust Deserializer reads one integer from a slice: parse_u64 and *)
(* parse_i64, called with the limit of the narrower types, None for the    *)
(* 64-bit ones.  The slice still to read is `wire` from `offset` on: the   *)
(* code advances its slice and its offset in the same statements.          *)
(***************************************************************************)
EXTENDS VarintFormat

VARIABLES
  deState,   \* "first", "loop", "ok" or "err"
  offset,    \* bytes consumed
  more,      \* the continuation bit of the last byte read
  negative,  \* the sign bit of the first byte
  value,     \* the magnitude accumulated
  returned,  \* what parse_u64 or parse_i64 returned
  result,    \* the integer its caller makes of it
  error      \* the Error returned by an "err"

deVars ==
  <<deState, offset, more, negative, value, returned, result, error>>

DeInit ==
  /\ deState = "first"
  /\ offset = 0
  /\ more = FALSE
  /\ negative = FALSE
  /\ value = 0
  /\ returned = 0
  /\ result = 0
  /\ error = "none"

\* The width the magnitude is computed in, and `max: Option<_>`.
WidthMax == IF ty.signed THEN IMax ELSE UMax
HasLimit == ty.max # WidthMax
\* Mutant: the limit of the negative numbers for all.
Limit_OfNegatives == ty.max + 1

Limit == IF negative THEN ty.max + 1 ELSE ty.max

\* Mutant: offset counted twice.
Consume_Twice(b) ==
  /\ offset < Len(wire)
  /\ b = wire[offset + 1]
  /\ offset' = offset + 2

\* Mutant: the slice is not advanced.
Consume_Peek(b) ==
  /\ offset < Len(wire)
  /\ b = wire[offset + 1]
  /\ UNCHANGED offset

Consume(b) ==
  /\ offset < Len(wire)
  /\ b = wire[offset + 1]
  /\ offset' = offset + 1

\* The cast of parse_u16, parse_i16 and so on to the type asked for.
AsType(n) ==
  CASE n \in ValuesOf(ty) -> n
    [] n \notin ValuesOf(ty) /\ ty.signed ->
         ((n + ty.max + 1) % (2 * (ty.max + 1))) - (ty.max + 1)
    [] n \notin ValuesOf(ty) /\ ~ty.signed -> n % (ty.max + 1)

Return(n) ==
  /\ deState' = "ok"
  /\ returned' = n
  /\ result' = AsType(n)
  /\ UNCHANGED error

Fail(e) ==
  /\ deState' = "err"
  /\ error' = e
  /\ UNCHANGED <<returned, result>>

ReadFirst ==
  /\ deState = "first"
  /\ \E b \in Byte :
       /\ Consume(b)
       /\ more' = b.more
       /\ negative' = IsNegative(b)
       /\ value' = FirstGroup(b)
  /\ deState' = "loop"
  /\ UNCHANGED <<returned, result, error>>

\* Mutant: the end of the slice is only looked for before the first byte.
Truncated_AtFirst ==
  /\ deState = "first"
  /\ offset = Len(wire)
  /\ Fail("ValueTruncated")
  /\ UNCHANGED <<offset, more, negative, value>>

Truncated ==
  /\ deState = "first" \/ (deState = "loop" /\ more)
  /\ offset = Len(wire)
  /\ Fail("ValueTruncated")
  /\ UNCHANGED <<offset, more, negative, value>>

\* Mutant: any last group.
IsMin_AnyGroup(b) ==
  /\ ty.signed
  /\ ~b.more
  /\ negative
  /\ value = MinLead

\* i64::MIN, the one value whose magnitude does not fit.
IsMin(b) ==
  /\ ty.signed
  /\ ~b.more
  /\ negative
  /\ b.low = 0
  /\ value = MinLead

ReadMin(b) ==
  /\ IsMin(b)
  /\ Return(IMin)
  /\ UNCHANGED value

\* checked_mul(128) is None.
MulOverflows(b) ==
  /\ ~IsMin(b)
  /\ value * Group > WidthMax
  /\ Fail("IntegerOverflow")
  /\ UNCHANGED value

Exceeds(b) ==
  /\ ~IsMin(b)
  /\ value * Group <= WidthMax
  /\ value' = value * Group + b.low
  /\ HasLimit /\ value' > Limit
  /\ Fail("IntegerOverflow")

\* Mutant: `value *= 128` in place of checked_mul.
Accumulate_Unchecked(b) ==
  /\ ~IsMin(b)
  /\ value' = value * Group + b.low
  /\ HasLimit => value' <= Limit
  /\ UNCHANGED <<deState, returned, result, error>>

Accumulate(b) ==
  /\ ~IsMin(b)
  /\ value * Group <= WidthMax
  /\ value' = value * Group + b.low
  /\ HasLimit => value' <= Limit
  /\ UNCHANGED <<deState, returned, result, error>>

ReadNext ==
  /\ deState = "loop"
  /\ more
  /\ \E b \in Byte :
       /\ Consume(b)
       /\ more' = b.more
       /\ ReadMin(b) \/ MulOverflows(b) \/ Exceeds(b) \/ Accumulate(b)
  /\ UNCHANGED negative

\* Mutant: the sign is forgotten.
Finish_Positive ==
  /\ deState = "loop"
  /\ ~more
  /\ Return(value)
  /\ UNCHANGED <<offset, more, negative, value>>

Finish ==
  /\ deState = "loop"
  /\ ~more
  /\ Return(IF negative THEN -value ELSE value)
  /\ UNCHANGED <<offset, more, negative, value>>

DeNext == ReadFirst \/ Truncated \/ ReadNext \/ Finish
===============================================================================
