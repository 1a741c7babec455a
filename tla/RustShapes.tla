------------------------------ MODULE RustShapes ------------------------------
(***************************************************************************)
(* The shapes serde gives to Rust types, and the bytes of their leaves.    *)
(* The format does not describe itself: both sides walk the same shape.    *)
(*                                                                         *)
(* A value is the sequence of what the calls of its walk carry: the leaf,  *)
(* the number of elements, the index of the variant.  "byte" is bool, i8   *)
(* or u8; "int" the other integers, up to two groups of seven bits here;   *)
(* "wide" an f32 or f64, of two bytes here; "tuple" a tuple, a struct, a   *)
(* newtype (one part) or a unit (none).                                    *)
(***************************************************************************)
EXTENDS Integers, Sequences, FiniteSets, SequencesExt

Shape(kind, parts) == [kind |-> kind, parts |-> parts]

Kinds == {"byte", "int", "wide", "char", "str", "bytes", "option", "seq", "map",
          "tuple", "enum"}

CONSTANT Shapes  \* the types, and those inside them

\* The index of a variant has two groups at most.
ASSUME ShapesAssumption ==
  \A s \in Shapes :
    /\ s.kind \in Kinds
    /\ s.parts \in Seq(Shapes)
    /\ s.kind = "enum" => Len(s.parts) <= 128 * 128

\* What is left of a sequence (its part) or map (key and value): n times the parts.
Elements(n, parts) == [kind |-> "elements", parts |-> parts, times |-> n]

\* The next of them, if there is one.
NextOf(e) ==
  IF e.times = 0 THEN <<>> ELSE Append(e.parts, Elements(e.times - 1, e.parts))

\* Mutant: the groups in the order they were split off.
IntBytes_Reversed(n) == IF n < 128 THEN <<n>> ELSE <<128 + (n % 128), n \div 128>>

\* The varint of n.
IntBytes(n) == IF n < 128 THEN <<n>> ELSE <<128 + n \div 128, n % 128>>

WideBytes(n) == <<0, n>>

\* UTF-8, of code points up to 0x7FF.
CharBytes(c) == IF c < 128 THEN <<c>> ELSE <<192 + c \div 64, 128 + (c % 64)>>

Copies(n, s) == [i \in 1 .. n * Len(s) |-> s[((i - 1) % Len(s)) + 1]]

\* What std::str::from_utf8 accepts, of code points up to 0x7FF: no byte here is
\* the first of a longer one, 0xE0 to 0xF7.
IsLead(b) == b \in 194 .. 223
IsContinuation(b) == b \in 128 .. 191
IsUtf8(s) ==
  \A i \in DOMAIN s :
    \/ s[i] < 128
    \/ IsLead(s[i]) /\ i < Len(s) /\ IsContinuation(s[i + 1])
    \/ IsContinuation(s[i]) /\ i > 1 /\ IsLead(s[i - 1])
===============================================================================
