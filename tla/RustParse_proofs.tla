---------------------------- MODULE RustParse_proofs ----------------------------
(***************************************************************************)
(* Proofs about the Rust integer parser, for every radix, every set of     *)
(* widths and every slice of bytes.                                        *)
(***************************************************************************)
EXTENDS RustParse, RustVarint_proofs

-------------------------------------------------------------------------------
(* The inductive invariant *)

IInv == ParserTyped /\ ParserInv

LEMMA InitIInv == Init => IInv
BY ParserInitially, WiresAssumption DEF Init, WiresAssumption, IInv

LEMMA NextIInv == IInv /\ [Next]_vars => IInv'
<1> SUFFICES ASSUME IInv, [Next]_vars PROVE IInv'
  OBVIOUS
<1>1. CASE Next
  BY <1>1, ParserStep DEF Next, IInv
<1>2. CASE UNCHANGED vars
  BY <1>2, ParserStutters DEF vars, IInv
<1> QED BY <1>1, <1>2

LEMMA Invariance == Spec => []IInv
<1> QED BY InitIInv, NextIInv, PTL DEF Spec

-------------------------------------------------------------------------------
(* The theorems *)

\* The locals of parse_u64 and parse_i64 keep their types, the magnitude never
\* leaves the naturals.
THEOREM TypeCorrect == Spec => []TypeOK
<1>1. IInv => TypeOK
  BY DEF IInv, ParserTyped, TypeOK
<1> QED BY <1>1, Invariance, PTL

\* The additions and the negation that parse_u64 and parse_i64 leave unchecked
\* never overflow, whatever the slice.
THEOREM ArithmeticSafe == Spec => []NoArithmeticOverflow
<1>1. ASSUME IInv PROVE NoArithmeticOverflow
  <2>1. value <= WidthMax /\ value \in Nat
    BY <1>1 DEF IInv, ParserInv, ParserTyped
  <2>2. ty.signed => WidthMax = IMax
    BY DEF WidthMax
  <2> QED BY <2>1, <2>2, WidthIsGroups DEF NoArithmeticOverflow, IMin
<1> QED BY <1>1, Invariance, PTL

\* The casts to the narrower types never lose a bit of what was parsed.
THEOREM CastsSafe == Spec => []CastsLossless
<1>1. IInv => CastsLossless
  BY DEF IInv, ParserInv, CastsLossless
<1> QED BY <1>1, Invariance, PTL

\* A slice that holds a finished integer in the range of its type is accepted,
\* as that integer and up to its last byte, and no other slice is.
THEOREM ParsesExactly == Spec => []ExactParse
<1>1. ASSUME IInv PROVE ExactParse
  <2>1. /\ ty \in Type /\ wire \in Seq(Byte) /\ Len(wire) \in Nat
        /\ offset \in Nat /\ offset <= Len(wire)
        /\ ty.max \in Nat
        /\ Limit = (IF negative THEN ty.max + 1 ELSE ty.max)
        /\ \A k \in 1 .. Len(wire) : Spelled[k] \in Nat
    BY <1>1, ParserContext DEF IInv
  <2>2. \A n \in 1 .. Len(wire) : Magnitude[n] = Spelled[n]
    <3>1. \A n \in 1 .. Len(wire) : n \in 0 .. Len(wire)
      OBVIOUS
    <3> QED BY <2>1, <3>1, MagnitudeIsSpelled
  <2>3. offset >= 1 => Limit = ReferenceLimit /\ negative = IsNegative(wire[1])
    BY <1>1, <2>1 DEF IInv, ParserInv, ReferenceLimit
  <2>4. ASSUME deState = "ok"
        PROVE  /\ Ends(offset)
               /\ Magnitude[offset] <= ReferenceLimit
               /\ result = Denotes(offset)
    <3>1. /\ offset >= 1 /\ ~wire[offset].more /\ Spelled[offset] <= Limit
          /\ result = (IF negative THEN -Spelled[offset] ELSE Spelled[offset])
          /\ Unfinished(offset - 1)
      BY <1>1, <2>4 DEF IInv, ParserInv
    <3>2. Magnitude[offset] = Spelled[offset]
      BY <2>1, <2>2, <3>1
    <3> QED BY <2>3, <3>1, <3>2 DEF Ends, Denotes, Unfinished
  <2>5. error = "ValueTruncated" => \A n \in 1 .. Len(wire) : wire[n].more
    BY <1>1, <2>1 DEF IInv, ParserInv, Unfinished
  <2>6. ASSUME error = "IntegerOverflow"
        PROVE  /\ \E n \in 1 .. Len(wire) : n <= offset /\ Magnitude[n] >= ty.max + 1
               /\ ~\E n \in 1 .. Len(wire) : Ends(n) /\ Magnitude[n] <= ReferenceLimit
    <3>1. /\ offset >= 1 /\ Unfinished(offset - 1)
          /\ \/ Spelled[offset] > Limit
             \/ Spelled[offset] = Limit /\ negative /\ wire[offset].more
      BY <1>1, <2>6 DEF IInv, ParserInv
    <3>2. offset \in 1 .. Len(wire)
      BY <2>1, <3>1
    <3>3. Spelled[offset] \in Nat /\ Spelled[offset] >= Limit /\ Limit \in Nat
          /\ Spelled[offset] >= ty.max + 1
      BY <2>1, <3>1, <3>2
    <3>4. ASSUME NEW n \in 1 .. Len(wire), Ends(n), Spelled[n] <= Limit
          PROVE  FALSE
      <4>1. ~(n < offset)
        <5>1. n < offset => n \in 1 .. offset - 1
          BY <2>1
        <5> QED BY <3>1, <3>4, <5>1 DEF Unfinished, Ends
      <4>2. CASE n = offset
        BY <2>1, <3>1, <3>3, <3>4, <4>2 DEF Ends
      <4>3. CASE offset < n
        <5>1. Spelled[n] >= 2 * Spelled[offset]
          BY <2>1, <3>2, <4>3, SpelledGrows
        <5>2. Spelled[n] \in Nat /\ Spelled[offset] >= 1
          BY <2>1, <3>3
        <5> QED BY <3>3, <3>4, <5>1, <5>2
      <4> QED BY <2>1, <4>1, <4>2, <4>3
    <3> QED BY <2>2, <2>3, <3>1, <3>2, <3>3, <3>4
  <2>7. ASSUME deState = "err"
        PROVE  ~\E n \in 1 .. Len(wire) : Ends(n) /\ Magnitude[n] <= ReferenceLimit
    <3>1. error \in {"ValueTruncated", "IntegerOverflow"}
      BY <1>1, <2>7 DEF IInv, ParserTyped, ParserInv
    <3> QED BY <2>5, <2>6, <3>1 DEF Ends
  <2> QED BY <2>4, <2>5, <2>6, <2>7 DEF ExactParse
<1> QED BY <1>1, Invariance, PTL
===============================================================================
