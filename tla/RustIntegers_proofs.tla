-------------------------- MODULE RustIntegers_proofs --------------------------
(***************************************************************************)
(* Proof that the Rust integer codec is lossless and prefix-free, for      *)
(* every radix, every set of widths and every value, on targets whose      *)
(* usize has 64 bits; and that it implements IntegerTransfer.              *)
(***************************************************************************)
EXTENDS RustIntegers, RustVarint_proofs

\* The reader is given nothing until the writer is done, and then what the
\* writer left or a part of it.
LinkInv ==
  /\ link \in {"idle", "whole", "cut"}
  /\ link = "idle" => wire = <<>> /\ DeInit
  /\ link # "idle" => Delivered /\ (link = "whole" <=> Len(wire) = Len(out))

IInv ==
  /\ CallType /\ SerType /\ SerInv
  /\ ParserTyped /\ ParserInv
  /\ LinkInv

LEMMA InitIInv == Init => IInv
<1> SUFFICES ASSUME Init PROVE IInv
  OBVIOUS
<1>1. CallType /\ ty \in Type /\ wire = <<>> /\ link = "idle" /\ DeInit
  BY DEF Init, CallType
<1>2. SerType /\ SerInv
  BY <1>1, InitSer DEF Init
<1>3. wire \in Seq(Byte)
  <2>1. <<>> \in Seq(Byte)
    OBVIOUS
  <2> QED BY <1>1, <2>1, Zenon
<1>4. ParserTyped /\ ParserInv
  BY <1>1, <1>3, ParserInitially
<1> QED BY <1>1, <1>2, <1>4 DEF IInv, LinkInv

\* While the writer is at work nothing has been delivered.
LEMMA SerializeStep ==
  ASSUME UsizeMax = UMax, IInv, Serialize
  PROVE  IInv'
<1>1. /\ SerNext /\ ty' = ty /\ input' = input /\ wire' = wire /\ link' = link
      /\ UNCHANGED deVars
  BY DEF Serialize
<1>2. CallType /\ SerType' /\ SerInv'
  BY <1>1, SerializeSer DEF IInv
<1>3. serState # "done"
  BY <1>1 DEF SerNext, SerializeU64, SerializeI64, NegationPanics, PushGroup,
              EmitFirst, EmitNext
<1>4. link = "idle" /\ wire = <<>> /\ DeInit
  BY <1>3 DEF IInv, LinkInv, Delivered
<1>5. CallType'
  BY <1>1, <1>2 DEF CallType, Type, ValuesOf
<1>6. DeInit'
  BY <1>1, <1>4 DEF DeInit, deVars
<1>7. ParserTyped' /\ ParserInv'
  BY <1>1, ParserStutters DEF IInv
<1> QED BY <1>1, <1>2, <1>4, <1>5, <1>6, <1>7 DEF IInv, LinkInv

\* Bytes are delivered only when the writer is done, and then they are its own.
LEMMA DeliverStep ==
  ASSUME IInv, DeliverWhole \/ DeliverCut
  PROVE  IInv'
<1>1. /\ serState = "done" /\ link = "idle" /\ ty' = ty /\ input' = input
      /\ UNCHANGED serVars /\ UNCHANGED deVars
  BY DEF DeliverWhole, DeliverCut
<1>2. CallType' /\ SerType' /\ SerInv'
  BY <1>1, SerStutters DEF IInv
<1>3. out \in Seq(Byte) /\ Len(out) \in Nat /\ Len(out) >= 1
      /\ out' = out /\ serState' = serState
  BY <1>1 DEF IInv, SerType, SerInv, serVars
<1>4. /\ wire' \in Seq(Byte) /\ Len(wire') <= Len(out) /\ Len(wire') \in Nat
      /\ \A j \in 1 .. Len(wire') : wire'[j] = out[j]
      /\ link' = "whole" <=> Len(wire') = Len(out)
      /\ link' \in {"whole", "cut"}
  <2>1. CASE DeliverWhole
    BY <2>1, <1>3 DEF DeliverWhole
  <2>2. CASE DeliverCut
    <3>1. PICK n \in 0 .. Len(out) - 1 : wire' = SubSeq(out, 1, n)
      BY <2>2 DEF DeliverCut
    <3>2. n \in 0 .. Len(out) /\ n \in Nat /\ n < Len(out)
      BY <3>1, <1>3
    <3>3. /\ wire' \in Seq(Byte) /\ Len(wire') = n
          /\ \A j \in 1 .. n : wire'[j] = out[j]
      BY <3>1, <3>2, <1>3, PrefixFacts
    <3>4. link' = "cut"
      BY <2>2 DEF DeliverCut
    <3> QED BY <3>2, <3>3, <3>4, <1>3
  <2> QED BY <2>1, <2>2
<1>5. DeInit'
  BY <1>1 DEF IInv, LinkInv, DeInit, deVars
<1>6. ty' \in Type'
  BY <1>2 DEF CallType
<1>7. ParserTyped' /\ ParserInv'
  BY <1>4, <1>5, <1>6, ParserBegins
<1>8. LinkInv'
  BY <1>1, <1>3, <1>4 DEF LinkInv, Delivered
<1> QED BY <1>2, <1>7, <1>8 DEF IInv

LEMMA DeserializeStep ==
  ASSUME IInv, Deserialize
  PROVE  IInv'
<1>1. /\ link # "idle" /\ DeNext /\ ty' = ty /\ input' = input /\ wire' = wire
      /\ link' = link /\ UNCHANGED serVars
  BY DEF Deserialize
<1>2. CallType' /\ SerType' /\ SerInv'
  BY <1>1, SerStutters DEF IInv
<1>3. ParserTyped' /\ ParserInv'
  BY <1>1, ParserStep DEF IInv
<1>4. LinkInv'
  BY <1>1 DEF IInv, LinkInv, Delivered, serVars
<1> QED BY <1>2, <1>3, <1>4 DEF IInv

LEMMA NextIInv ==
  ASSUME UsizeMax = UMax, IInv, [Next]_vars
  PROVE  IInv'
<1>1. CASE UNCHANGED vars
  <2>1. /\ ty' = ty /\ input' = input /\ wire' = wire /\ link' = link
        /\ UNCHANGED serVars /\ UNCHANGED deVars
    BY <1>1 DEF vars
  <2>2. CallType' /\ SerType' /\ SerInv'
    BY <2>1, SerStutters DEF IInv
  <2>3. ParserTyped' /\ ParserInv'
    BY <2>1, ParserStutters DEF IInv
  <2>4. LinkInv'
    BY <2>1 DEF IInv, LinkInv, Delivered, DeInit, serVars, deVars
  <2> QED BY <2>2, <2>3, <2>4 DEF IInv
<1> QED BY <1>1, SerializeStep, DeliverStep, DeserializeStep DEF Next

LEMMA Invariance == ASSUME UsizeMax = UMax PROVE Spec => []IInv
<1>1. IInv /\ [Next]_vars => IInv'
  BY NextIInv
<1> QED BY <1>1, InitIInv, PTL DEF Spec

-------------------------------------------------------------------------------
(* The shortest form *)

LEMMA TimesMonotone ==
  ASSUME NEW a \in Nat, NEW b \in Nat, NEW g \in Nat, a >= b
  PROVE  a * g >= b * g /\ a * g \in Nat /\ b * g \in Nat
OBVIOUS

LEMMA CapacityFacts ==
  ASSUME CallType
  PROVE  /\ Capacity[1] = FirstCap
         /\ \A n \in Nat \ {0} : /\ Capacity[n] \in Nat
                                 /\ Capacity[n + 1] = Capacity[n] * Group
<1> DEFINE Body(f) == [n \in Nat \ {0} |->
                         IF n = 1 THEN FirstCap ELSE f[n - 1] * Group]
           N == Nat
           cap == FirstCap
           next == [k \in Nat |-> [x \in Nat |-> x * Group]]
<1>1. cap \in N /\ next \in Steps(N) /\ Group \in Nat
  <2>1. Group \in Nat /\ FirstCap \in Nat
    BY WidthIsGroups, FirstCapFacts
  <2>2. \A x \in Nat : x * Group \in Nat
    BY <2>1
  <2> QED BY <2>1, <2>2 DEF Steps
<1>2. \A k \in Nat, x \in Nat : next[k][x] = x * Group
  OBVIOUS
<1>3. \E f \in [Nat -> N] : f[0] = cap /\ \A k \in Nat : f[k + 1] = next[k][f[k]]
  <2> HIDE DEF N, cap, next
  <2> QED BY ONLY <1>1, Recursion
<1>4. PICK f \in [Nat -> N] : f[0] = cap /\ \A k \in Nat : f[k + 1] = next[k][f[k]]
  BY <1>3
<1>5. \A k \in Nat : f[k] \in Nat /\ f[k + 1] = f[k] * Group
  BY <1>2, <1>4
<1> DEFINE g == [n \in Nat \ {0} |-> f[n - 1]]
<1>6. \A n \in Nat \ {0} : g[n] = f[n - 1]
  OBVIOUS
<1>7. g = Body(g)
  <2>1. ASSUME NEW n \in Nat \ {0} PROVE g[n] = Body(g)[n]
    <3>1. CASE n = 1
      <4>1. g[n] = cap
        <5>1. n - 1 = 0
          BY <3>1
        <5> QED BY <1>4, <1>6, <5>1
      <4> HIDE DEF g
      <4> QED BY <3>1, <4>1
    <3>2. CASE n # 1
      <4>1. n - 1 \in Nat \ {0} /\ (n - 1) - 1 \in Nat /\ ((n - 1) - 1) + 1 = n - 1
        BY <3>2
      <4>2. g[n] = f[n - 1] /\ g[n - 1] = f[(n - 1) - 1]
        BY <1>6, <4>1
      <4>3. f[n - 1] = f[(n - 1) - 1] * Group
        BY <1>5, <4>1
      <4>4. Body(g)[n] = g[n - 1] * Group
        <5> HIDE DEF g
        <5> QED BY <3>2
      <4> QED BY <4>2, <4>3, <4>4
    <3> QED BY <3>1, <3>2
  <2> QED BY <2>1
<1>8. Capacity = CHOOSE h : h = Body(h)
  BY DEF Capacity
<1>9. Capacity = Body(Capacity)
  <2> HIDE DEF g, Body
  <2> QED BY <1>7, <1>8
<1> DEFINE c == Capacity
<1>10. \A n \in Nat \ {0} : c[n] = IF n = 1 THEN FirstCap ELSE c[n - 1] * Group
  <2>1. c = Body(c)
    BY <1>9
  <2> HIDE DEF c
  <2> QED BY <2>1
<1> HIDE DEF c
<1>11. c[1] = FirstCap
  BY <1>10
<1>12. ASSUME NEW n \in Nat \ {0} PROVE c[n + 1] = c[n] * Group
  <2>1. n + 1 \in Nat \ {0} /\ n + 1 # 1 /\ (n + 1) - 1 = n
    OBVIOUS
  <2> QED BY <1>10, <2>1
<1>13. ASSUME NEW n \in Nat \ {0} PROVE c[n] \in Nat
  <2> DEFINE Good == {k \in Nat : c[k + 1] \in Nat}
  <2>1. 0 \in Good
    BY <1>11, FirstCapFacts
  <2>2. ASSUME NEW k \in Nat, k \in Good PROVE k + 1 \in Good
    <3>1. k + 1 \in Nat \ {0} /\ c[k + 1] \in Nat
      BY <2>2
    <3>2. c[(k + 1) + 1] = c[k + 1] * Group
      BY <1>12, <3>1
    <3>3. \A x \in Nat : x * Group \in Nat
      BY <1>1
    <3>4. c[k + 1] * Group \in Nat
      BY <3>1, <3>3
    <3> QED BY <3>1, <3>2, <3>4
  <2>3. \A k \in Good : c[k + 1] \in Nat
    OBVIOUS
  <2> HIDE DEF Good
  <2>4. \A k \in 0 .. n : k \in Good
    <3>1. n \in Nat /\ \A k \in Nat : k < n /\ k \in Good => k + 1 \in Good
      BY <2>2
    <3> QED BY <2>1, <3>1, UpTo
  <2>5. n - 1 \in 0 .. n /\ (n - 1) + 1 = n
    OBVIOUS
  <2> QED BY <2>3, <2>4, <2>5
<1> QED BY <1>11, <1>12, <1>13 DEF c

\* What is left of the magnitude after all but k of the groups takes k bytes.
LEMMA TrailNeedsBytes ==
  ASSUME CallType, SerType, SerInv, serState = "done", Len(trail) > 1
  PROVE  Mag >= Capacity[Len(trail) - 1]
<1> DEFINE n == Len(trail)
           Good == {k \in Nat : trail[n - (k + 1)] >= Capacity[k + 1]}
<1>1. /\ n \in Nat /\ n > 1 /\ trail[1] = Mag
      /\ \A i \in 1 .. n - 1 :
           trail[i] >= FirstCap /\ trail[i + 1] = trail[i] \div Group
      /\ \A i \in 1 .. n : trail[i] \in Nat
  <2>1. \A i \in 1 .. n : trail[i] \in Nat
    <3> SUFFICES ASSUME NEW i \in 1 .. n PROVE trail[i] \in Nat
      OBVIOUS
    <3>1. trail[i] \in 0 .. UMax
      BY ElementFacts DEF SerType
    <3> QED BY <3>1, WidthIsGroups
  <2> QED BY <2>1 DEF SerInv, SerType
<1>2. \A k \in Good : trail[n - (k + 1)] >= Capacity[k + 1]
  OBVIOUS
<1>3. \A k \in Nat : trail[n - (k + 1)] >= Capacity[k + 1] => k \in Good
  OBVIOUS
<1>4. Capacity[1] = FirstCap /\ Group \in Nat /\ Group >= 2
      /\ \A k \in Nat \ {0} : /\ Capacity[k] \in Nat
                              /\ Capacity[k + 1] = Capacity[k] * Group
  BY CapacityFacts, WidthIsGroups
<1> HIDE DEF Good, n
<1>5. 0 \in Good
  <2>1. n - 1 \in 1 .. n - 1 /\ 0 + 1 = 1
    BY <1>1
  <2> QED BY <1>1, <1>3, <1>4, <2>1
<1>6. ASSUME NEW k \in Nat, k < n - 2, k \in Good PROVE k + 1 \in Good
  <2> DEFINE i == n - (k + 2)
             v == trail[i]
             u == trail[i + 1]
             c == Capacity[k + 1]
  <2>1. /\ i \in 1 .. n - 1 /\ i \in 1 .. n /\ i + 1 \in 1 .. n
        /\ i + 1 = n - (k + 1) /\ i = n - ((k + 1) + 1) /\ k + 1 \in Nat \ {0}
    BY <1>1, <1>6
  <2>2. u >= c /\ u = v \div Group /\ v \in Nat /\ u \in Nat /\ c \in Nat
        /\ Capacity[(k + 1) + 1] = c * Group
    BY <1>1, <1>2, <1>4, <1>6, <2>1
  <2> HIDE DEF i, v, u, c
  <2>3. v >= u * Group
    <3>1. v = (v \div Group) * Group + (v % Group) /\ v % Group \in 0 .. Group - 1
      BY <1>4, <2>2, DivFacts
    <3>2. u * Group \in Nat
      BY <1>4, <2>2
    <3> QED BY <1>4, <2>2, <3>1, <3>2
  <2>4. u * Group >= c * Group /\ u * Group \in Nat /\ c * Group \in Nat
    BY <1>4, <2>2, TimesMonotone
  <2>5. v >= Capacity[(k + 1) + 1]
    BY <2>2, <2>3, <2>4
  <2>6. trail[n - ((k + 1) + 1)] >= Capacity[(k + 1) + 1]
    BY <2>1, <2>5 DEF v
  <2> QED BY <1>3, <2>6
<1>7. n - 2 \in Nat /\ n - 2 \in 0 .. n - 2 /\ (n - 2) + 1 = n - 1 /\ n - (n - 1) = 1
  BY <1>1
<1>8. n - 2 \in Good
  BY <1>5, <1>6, <1>7, UpTo
<1>9. trail[n - ((n - 2) + 1)] >= Capacity[(n - 2) + 1]
  BY <1>2, <1>8
<1> QED BY <1>1, <1>7, <1>9 DEF n

-------------------------------------------------------------------------------
(* The theorems *)

\* What the reader may have come to.
Outcomes ==
  /\ deState \in {"first", "loop", "ok", "err"}
  /\ deState = "ok" => link = "whole" /\ result = input /\ offset = Len(out)
  /\ deState = "err" => link = "cut" /\ error = "ValueTruncated"
  /\ deState # "ok" => result = 0

LEMMA OutcomesHold == IInv => Outcomes
<1> SUFFICES ASSUME IInv PROVE Outcomes
  OBVIOUS
<1>1. /\ deState # "ok" => result = 0
      /\ deState \in {"first", "loop", "ok", "err"}
  BY DEF IInv, ParserInv, ParserTyped
<1>2. CASE link = "idle"
  BY <1>1, <1>2 DEF IInv, LinkInv, DeInit, Outcomes
<1>3. CASE link # "idle"
  <2>1. /\ Delivered /\ (link = "whole" <=> Len(wire) = Len(out))
        /\ link \in {"whole", "cut"}
    BY <1>3 DEF IInv, LinkInv
  <2>2. /\ deState = "ok" =>
             Len(wire) = Len(out) /\ offset = Len(out) /\ result = input
        /\ deState = "err" => Len(wire) < Len(out) /\ error = "ValueTruncated"
    BY <2>1, DeliveredParse DEF IInv
  <2>3. Len(wire) < Len(out) => Len(wire) # Len(out)
    BY <2>1, DeliveredBytes DEF IInv
  <2> QED BY <1>1, <2>1, <2>2, <2>3 DEF Outcomes
<1> QED BY <1>2, <1>3

\* The state of writer, bytes and reader keeps its types.
THEOREM TypeCorrect == ASSUME UsizeMax = UMax PROVE Spec => []TypeOK
<1>1. IInv => TypeOK
  <2>1. LinkInv => link \in {"idle", "whole", "cut"}
    BY DEF LinkInv
  <2> QED BY <2>1 DEF IInv, CallType, SerType, ParserTyped, TypeOK
<1> QED BY <1>1, Invariance, PTL

\* A value whose bytes arrive is parsed into itself, to its last byte.
THEOREM Lossless == ASSUME UsizeMax = UMax PROVE Spec => []RoundTrip
<1>1. IInv => RoundTrip
  BY OutcomesHold DEF Outcomes, RoundTrip
<1> QED BY <1>1, Invariance, PTL

\* No proper prefix of a value's bytes is accepted: it is reported as truncated.
THEOREM PrefixFree == ASSUME UsizeMax = UMax PROVE Spec => []TruncationDetected
<1>1. IInv => TruncationDetected
  BY OutcomesHold DEF Outcomes, TruncationDetected
<1> QED BY <1>1, Invariance, PTL

\* One byte less would not do.
THEOREM Shortest == ASSUME UsizeMax = UMax PROVE Spec => []ShortestForm
<1>1. ASSUME IInv PROVE ShortestForm
  <2> SUFFICES ASSUME serState = "done", Len(out) > 1
               PROVE  Mag >= Capacity[Len(out) - 1]
    BY DEF ShortestForm, Mag
  <2>1. Len(out) = Len(trail)
    BY <1>1 DEF IInv, SerInv, SerType
  <2> QED BY <1>1, <2>1, TrailNeedsBytes DEF IInv
<1> QED BY <1>1, Invariance, PTL

-------------------------------------------------------------------------------
(* The codec implements the abstract transfer, its fairness aside *)

LEMMA InitTransfer == Init => Transfer!Init
<1> SUFFICES ASSUME Init PROVE Transfer!Init
  OBVIOUS
<1>1. ty \in Type /\ input \in ValuesOf(ty) /\ link = "idle"
      /\ deState = "first" /\ result = 0
  BY DEF Init, DeInit
<1>2. Outcome = "pending"
  BY <1>1 DEF Outcome
<1>3. input \in UNION {ValuesOf(t) : t \in Type}
  BY <1>1
<1> QED BY <1>1, <1>2, <1>3 DEF Transfer!Init

\* Every step of the codec loses bytes, hands over the value, refuses it, or
\* is invisible.
LEMMA NextTransfer ==
  ASSUME UsizeMax = UMax, IInv, IInv', [Next]_vars
  PROVE  [Transfer!Next]_(Transfer!vars)
<1>0. Outcomes /\ Outcomes'
  BY OutcomesHold, PTL
<1> DEFINE same == /\ input' = input /\ (link # "cut")' = (link # "cut")
                   /\ Outcome' = Outcome /\ result' = result
<1>1. same => [Transfer!Next]_(Transfer!vars)
  BY DEF Transfer!vars
<1>2. CASE Serialize
  <2>1. input' = input /\ link' = link /\ UNCHANGED deVars
    BY <1>2 DEF Serialize
  <2> QED BY <2>1, <1>1 DEF Outcome, deVars
<1>3. CASE DeliverWhole
  <2>1. input' = input /\ link = "idle" /\ link' = "whole" /\ UNCHANGED deVars
    BY <1>3 DEF DeliverWhole
  <2> QED BY <2>1, <1>1 DEF Outcome, deVars
<1>4. CASE DeliverCut
  <2>1. input' = input /\ link = "idle" /\ link' = "cut" /\ UNCHANGED deVars
    BY <1>4 DEF DeliverCut
  <2>2. deState = "first"
    BY <2>1 DEF IInv, LinkInv, DeInit
  <2>3. Outcome = "pending" /\ Outcome' = Outcome /\ result' = result
    BY <2>1, <2>2 DEF Outcome, deVars
  <2>4. Transfer!Lose
    BY <2>1, <2>3 DEF Transfer!Lose
  <2> QED BY <2>4 DEF Transfer!Next
<1>5. CASE Deserialize
  <2>1. input' = input /\ link' = link /\ DeNext
    BY <1>5 DEF Deserialize
  <2>2. deState \in {"first", "loop"}
    BY <2>1 DEF DeNext, ReadFirst, Truncated, ReadNext, Finish
  <2>3. Outcome = "pending" /\ result = 0
    BY <1>0, <2>2 DEF Outcome, Outcomes
  <2>4. deState' \in {"first", "loop", "ok", "err"}
    BY <1>0 DEF Outcomes
  <2>5. CASE deState' \in {"first", "loop"}
    <3>1. Outcome' = "pending" /\ result' = 0
      BY <1>0, <2>5 DEF Outcome, Outcomes
    <3> QED BY <1>1, <2>1, <2>3, <3>1
  <2>6. CASE deState' = "ok"
    <3>1. Outcome' = "received" /\ link # "cut" /\ result' = input
      BY <1>0, <2>1, <2>6 DEF Outcome, Outcomes
    <3>2. Transfer!Receive
      BY <2>1, <2>3, <3>1 DEF Transfer!Receive
    <3> QED BY <3>2 DEF Transfer!Next
  <2>7. CASE deState' = "err"
    <3>1. Outcome' = "refused" /\ link = "cut" /\ result' = 0
      BY <1>0, <2>1, <2>7 DEF Outcome, Outcomes
    <3>2. Transfer!Refuse
      BY <2>1, <2>3, <3>1 DEF Transfer!Refuse
    <3> QED BY <3>2 DEF Transfer!Next
  <2> QED BY <2>4, <2>5, <2>6, <2>7
<1>6. CASE UNCHANGED vars
  BY <1>6, <1>1 DEF vars, deVars, Outcome
<1> QED BY <1>2, <1>3, <1>4, <1>5, <1>6 DEF Next

\* The detailed codec implements the abstract one: a value is received as it
\* was sent or its loss is reported.
THEOREM Implements == ASSUME UsizeMax = UMax PROVE Spec => ImplementsTransfer
<1>1. IInv /\ IInv' /\ [Next]_vars => [Transfer!Next]_(Transfer!vars)
  BY NextTransfer
<1> QED BY <1>1, InitTransfer, Invariance, PTL
       DEF Spec, ImplementsTransfer, Transfer!Spec
===============================================================================
