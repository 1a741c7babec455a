------------------------------- MODULE RustParse -------------------------------
(***************************************************************************)
(* The Rust integer parser alone, on any slice of bytes: what from_bytes   *)
(* does with input nobody's serializer wrote, overlong, truncated or out   *)
(* of range.                                                               *)
(***************************************************************************)
EXTENDS RustDeserializer

CONSTANT Wires  \* the slices given to the parser

ASSUME WiresAssumption == Wires \subseteq Seq(Byte)

vars == <<ty, input, wire, deVars>>

Init ==
  /\ ty \in Type
  /\ input = 0
  /\ wire \in Wires
  /\ DeInit

Next == DeNext /\ UNCHANGED <<ty, input, wire>>

Spec == Init /\ [][Next]_vars

FairSpec == Spec /\ WF_vars(Next)

-------------------------------------------------------------------------------
\* The type of every local and member of the parser, and what links them.
TypeOK ==
  /\ ty \in Type
  /\ wire \in Seq(Byte)
  /\ deState \in {"first", "loop", "ok", "err"}
  /\ offset \in 0 .. Len(wire)
  /\ more \in BOOLEAN
  /\ negative \in BOOLEAN
  /\ value \in Nat
  /\ returned \in Int
  /\ result \in ValuesOf(ty)
  /\ error \in {"none", "ValueTruncated", "IntegerOverflow"}

\* Only the multiplication is checked in the loops of parse_u64 and parse_i64.
\* The addition after it and the negation at the end cannot overflow their
\* 64-bit type either, whatever the bytes: no build panics, none wraps.
NoArithmeticOverflow ==
  /\ value <= WidthMax
  /\ ty.signed /\ negative => -value >= IMin

\* The limit is only checked inside the loop, never on the first byte, and the
\* i64::MIN special case returns past it; still, whatever the parser returns
\* fits the type, so that `as i16`, `as u32` and the like never cut it short.
CastsLossless == deState = "ok" => returned = result

Ends(n) == ~wire[n].more /\ \A k \in 1 .. n - 1 : wire[k].more
ReferenceLimit == IF IsNegative(wire[1]) THEN ty.max + 1 ELSE ty.max

\* The parser accepts exactly the slices that hold a finished integer within
\* the range of the type, returns that integer, i64::MIN included, and stops
\* behind its last byte; it reports an overflow only for an integer that has
\* left the range, a truncation only for one that has not ended.
ExactParse ==
  /\ deState = "ok" =>
       /\ Ends(offset)
       /\ Magnitude[offset] <= ReferenceLimit
       /\ result = Denotes(offset)
  /\ deState = "err" =>
       ~\E n \in 1 .. Len(wire) : Ends(n) /\ Magnitude[n] <= ReferenceLimit
  /\ error = "IntegerOverflow" =>
       \E n \in 1 .. Len(wire) : n <= offset /\ Magnitude[n] >= ty.max + 1
  /\ error = "ValueTruncated" => \A n \in 1 .. Len(wire) : wire[n].more

\* from_bytes returns, however long the run of continuation bytes.
Terminates == <>(deState \in {"ok", "err"})
===============================================================================
