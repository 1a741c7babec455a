--------------------------- MODULE RustVarint_proofs ---------------------------
(***************************************************************************)
(* Lemmas about the Rust integer codec: the widths of the varint format,   *)
(* the operators of the parser, the inductive invariants of the parser and *)
(* of the writer, serialize_u64 and serialize_i64, and what the parser     *)
(* makes of the bytes the writer leaves or of a part of them.              *)
(***************************************************************************)
EXTENDS RustSerializer, RustDeserializer, WellFoundedInduction, TLAPS

-------------------------------------------------------------------------------
(* Arithmetic of the constants *)

\* The widths are a whole number of groups: the greatest values are one below
\* a multiple of Group.
LEMMA WidthIsGroups ==
  /\ Group \in Nat /\ Half \in Nat /\ Group >= 2 /\ Half >= 1
  /\ IMax \in Nat /\ UMax \in Nat /\ MinLead \in Nat
  /\ IMax = Group * MinLead - 1
  /\ UMax = Group * (2 * MinLead) - 1
<1>1. Group \in Nat /\ Half \in Nat /\ Group >= 2 /\ Half >= 1
  BY RadixAssumption DEF RadixAssumption
<1>2. IMax \in Nat /\ UMax \in Nat /\ MinLead \in Nat /\ IMax = Group * MinLead - 1
  BY <1>1, WidthAssumption DEF WidthAssumption
<1>3. UMax = 2 * (Group * MinLead) - 1
  BY <1>1, <1>2, WidthAssumption DEF WidthAssumption
<1>4. 2 * (Group * MinLead) = Group * (2 * MinLead)
  BY <1>1, <1>2, SMT
<1> QED BY <1>1, <1>2, <1>3, <1>4

\* The addition after a checked multiplication: a multiple of g up to g*k - 1
\* leaves room for a group.
LEMMA RoomForGroup ==
  ASSUME NEW g \in Nat, NEW k \in Nat, NEW v \in Nat, NEW low \in 0 .. g - 1,
         v * g <= g * k - 1
  PROVE  v * g + low <= g * k - 1
<1>1. v < k
  <2> SUFFICES ASSUME v >= k PROVE FALSE
    OBVIOUS
  <2>1. v * g >= k * g
    OBVIOUS
  <2>2. k * g = g * k
    OBVIOUS
  <2> QED BY <2>1, <2>2
<1>2. (v + 1) * g <= k * g
  BY <1>1
<1>3. (v + 1) * g = v * g + g /\ k * g = g * k
  OBVIOUS
<1> QED BY <1>2, <1>3

\* What the assumptions say of one type.
LEMMA TypeFacts ==
  ASSUME ty \in Type
  PROVE  /\ ty.signed \in BOOLEAN
         /\ ty.max \in Nat
         /\ ty.max <= WidthMax
         /\ FirstCap \in Nat /\ FirstCap - 1 <= ty.max
         /\ WidthMax \in Nat
         /\ ty.signed /\ HasLimit => ty.max + 1 < MinLead
<1>1. CASE ty \in [signed : {TRUE}, max : SMaxes]
  <2>1. ty.signed = TRUE /\ ty.max \in SMaxes
    BY <1>1
  <2>2. WidthMax = IMax /\ FirstCap = Half
    BY <2>1 DEF WidthMax, FirstCap
  <2>3. ty.max \in Half - 1 .. IMax
    BY <2>1, TypesAssumption DEF TypesAssumption
  <2>4. HasLimit => ty.max + 1 < MinLead
    BY <2>1, <2>2, TypesAssumption DEF TypesAssumption, HasLimit
  <2>5. ty.max \in Nat /\ ty.max <= IMax /\ Half - 1 <= ty.max
    BY <2>3, WidthIsGroups
  <2> QED BY <2>1, <2>2, <2>4, <2>5, WidthIsGroups
<1>2. CASE ty \in [signed : {FALSE}, max : UMaxes]
  <2>1. ty.signed = FALSE /\ ty.max \in UMaxes
    BY <1>2
  <2>2. WidthMax = UMax /\ FirstCap = Group
    BY <2>1 DEF WidthMax, FirstCap
  <2>3. ty.max \in Group - 1 .. UMax
    BY <2>1, TypesAssumption DEF TypesAssumption
  <2>4. ty.max \in Nat /\ ty.max <= UMax /\ Group - 1 <= ty.max
    BY <2>3, WidthIsGroups
  <2> QED BY <2>1, <2>2, <2>4, WidthIsGroups
<1> QED BY <1>1, <1>2 DEF Type

\* The first group of a byte is below FirstCap.
LEMMA FirstGroupFacts ==
  ASSUME ty \in Type, NEW b \in Byte
  PROVE  /\ b.more \in BOOLEAN /\ b.low \in 0 .. Group - 1
         /\ FirstGroup(b) \in 0 .. FirstCap - 1
         /\ IsNegative(b) \in BOOLEAN
<1>1. b.more \in BOOLEAN /\ b.low \in 0 .. Group - 1
  BY DEF Byte
<1>2. IsNegative(b) \in BOOLEAN
  BY TypeFacts DEF IsNegative
<1>3. FirstGroup(b) \in 0 .. FirstCap - 1
  BY <1>1, TypeFacts, WidthIsGroups, RadixAssumption
    DEF RadixAssumption, FirstGroup, IsNegative, FirstCap
<1> QED BY <1>1, <1>2, <1>3

-------------------------------------------------------------------------------
(* Operators of the parser *)

\* What a finished parse hands to its caller is in the range of the type, and
\* the cast leaves it alone.
LEMMA ReturnInRange ==
  ASSUME NEW n \in ValuesOf(ty), Return(n)
  PROVE  /\ deState' = "ok" /\ returned' = n /\ result' = n
         /\ error' = error
<1>1. AsType(n) = n
  BY DEF AsType
<1> QED BY <1>1 DEF Return

\* Reading a byte leaves the offset within the slice.
LEMMA ConsumeFacts ==
  ASSUME wire \in Seq(Byte), offset \in 0 .. Len(wire), NEW b, Consume(b)
  PROVE  b \in Byte /\ offset' \in 0 .. Len(wire) /\ offset' = offset + 1
BY DEF Consume
-------------------------------------------------------------------------------
(* Recursion *)

LEMMA LeastNatural ==
  ASSUME NEW S \in SUBSET Nat, S # {}
  PROVE  \E n \in S : \A m \in S : n <= m
<1>1. S \subseteq Nat
  OBVIOUS
<1>2. PICK n \in S : \A m \in S : ~ (<<m, n>> \in OpToRel(<, Nat))
  BY <1>1, NatLessThanWellFounded, WFMin
<1>3. \A m \in S : ~ (m < n)
  BY <1>1, <1>2 DEF OpToRel
<1>4. \A m \in S : n <= m
  BY <1>1, <1>3
<1> QED BY <1>4

\* A set with 0 and with the successor of each of its members below n has all
\* numbers up to n.
LEMMA UpTo ==
  ASSUME NEW n \in Nat, NEW S, 0 \in S,
         \A k \in Nat : k < n /\ k \in S => k + 1 \in S
  PROVE  \A k \in 0 .. n : k \in S
<1> DEFINE Bad == {k \in 0 .. n : k \notin S}
<1>1. SUFFICES ASSUME Bad # {} PROVE FALSE
  OBVIOUS
<1>2. Bad \in SUBSET Nat
  OBVIOUS
<1>3. \A k \in Bad : k \in 0 .. n /\ k \notin S
  OBVIOUS
<1>4. \A k \in 0 .. n : k \notin Bad => k \in S
  OBVIOUS
<1> HIDE DEF Bad
<1>5. PICK k \in Bad : \A m \in Bad : k <= m
  BY <1>1, <1>2, LeastNatural
<1>6. k # 0 /\ k \in 0 .. n /\ k \notin S
  BY <1>3, <1>5
<1>7. k - 1 \in Nat /\ k - 1 < n /\ k - 1 \in 0 .. n /\ ~(k <= k - 1)
      /\ (k - 1) + 1 = k
  BY <1>6
<1>8. k - 1 \in S
  BY <1>4, <1>5, <1>7
<1> QED BY <1>6, <1>7, <1>8

\* What leads from the value for k to the one for k + 1.
Steps(S) == [Nat -> [S -> S]]

\* A function may be defined by recursion on the naturals.
LEMMA Recursion ==
  ASSUME NEW S, NEW a \in S, NEW step \in Steps(S)
  PROVE  \E f \in [Nat -> S] :
           f[0] = a /\ \A k \in Nat : f[k + 1] = step[k][f[k]]
<1>0. \A k \in Nat, x \in S : step[k][x] \in S
  BY DEF Steps
<1> DEFINE Good(g, n) ==
             g[0] = a /\ \A k \in 0 .. n - 1 : g[k + 1] = step[k][g[k]]
           Reached == {n \in Nat : \E g \in [0 .. n -> S] : Good(g, n)}
<1>1. ASSUME NEW n \in Nat PROVE \E g \in [0 .. n -> S] : Good(g, n)
  <2>1. 0 \in Reached
    <3> DEFINE g == [k \in 0 .. 0 |-> a]
    <3>1. g \in [0 .. 0 -> S] /\ g[0] = a
      OBVIOUS
    <3>2. Good(g, 0)
      BY <3>1
    <3> QED BY <3>1, <3>2
  <2>2. ASSUME NEW k \in Nat, k \in Reached PROVE k + 1 \in Reached
    <3>1. PICK g \in [0 .. k -> S] : Good(g, k)
      BY <2>2
    <3> DEFINE h == [i \in 0 .. k + 1 |->
                       IF i = k + 1 THEN step[k][g[k]] ELSE g[i]]
    <3>2. step[k][g[k]] \in S
      BY <1>0
    <3>3. h \in [0 .. k + 1 -> S]
      BY <3>2
    <3>4. h[k + 1] = step[k][g[k]] /\ \A i \in 0 .. k : h[i] = g[i]
      OBVIOUS
    <3>5. Good(h, k + 1)
      <4>1. h[0] = a
        BY <3>1, <3>4
      <4>2. ASSUME NEW i \in 0 .. (k + 1) - 1
            PROVE  h[i + 1] = step[i][h[i]]
        <5>1. CASE i = k
          <6>1. h[k + 1] = step[k][g[k]] /\ k \in 0 .. k
            BY <3>4
          <6>2. h[k] = g[k]
            BY <3>4, <6>1
          <6> HIDE DEF h
          <6> QED BY <5>1, <6>1, <6>2
        <5>2. CASE i # k
          <6>1. i \in 0 .. k - 1 /\ i \in 0 .. k /\ i + 1 \in 0 .. k
            BY <5>2
          <6> QED BY <6>1, <3>1, <3>4
        <5> QED BY <5>1, <5>2
      <4> QED BY <4>1, <4>2
    <3> HIDE DEF h
    <3> QED BY <3>3, <3>5
  <2> HIDE DEF Reached
  <2>3. n \in Reached
    <3>1. \A k \in Nat : k < n /\ k \in Reached => k + 1 \in Reached
      BY <2>2
    <3>2. n \in 0 .. n
      OBVIOUS
    <3> QED BY <2>1, <3>1, <3>2, UpTo
  <2> QED BY <2>3 DEF Reached
<1>2. ASSUME NEW n \in Nat, NEW m \in Nat, n <= m,
             NEW g \in [0 .. n -> S], NEW h \in [0 .. m -> S],
             Good(g, n), Good(h, m)
      PROVE  g[n] = h[n]
  <2> DEFINE Same == {k \in Nat : g[k] = h[k]}
  <2>1. 0 \in Same
    BY <1>2
  <2>2. ASSUME NEW k \in Nat, k < n, k \in Same PROVE k + 1 \in Same
    <3>1. k \in 0 .. n - 1 /\ k \in 0 .. m - 1 /\ g[k] = h[k]
      BY <1>2, <2>2
    <3>2. g[k + 1] = step[k][g[k]] /\ h[k + 1] = step[k][h[k]]
      BY <3>1, <1>2
    <3> QED BY <3>1, <3>2
  <2> HIDE DEF Same
  <2>3. n \in 0 .. n
    OBVIOUS
  <2>4. n \in Same
    BY <2>1, <2>2, <2>3, UpTo
  <2> QED BY <2>4 DEF Same
<1> DEFINE part(n) == CHOOSE g \in [0 .. n -> S] : Good(g, n)
           f == [n \in Nat |-> part(n)[n]]
<1>3. ASSUME NEW n \in Nat PROVE part(n) \in [0 .. n -> S] /\ Good(part(n), n)
  BY <1>1
<1>4. ASSUME NEW n \in Nat PROVE part(n)[n] \in S
  <2> DEFINE g == part(n)
  <2>1. g \in [0 .. n -> S]
    BY <1>3
  <2> HIDE DEF g
  <2>2. n \in 0 .. n
    OBVIOUS
  <2>3. g[n] \in S
    BY <2>1, <2>2
  <2> QED BY <2>3 DEF g
<1>5. f \in [Nat -> S] /\ \A n \in Nat : f[n] = part(n)[n]
  <2> HIDE DEF part
  <2> QED BY <1>4
<1>6. f[0] = a
  <2>1. f[0] = part(0)[0]
    BY <1>5
  <2>2. Good(part(0), 0)
    <3> HIDE DEF Good, part
    <3> QED BY <1>3
  <2> HIDE DEF f, part
  <2> QED BY <2>1, <2>2
<1>7. ASSUME NEW k \in Nat PROVE f[k + 1] = step[k][f[k]]
  <2> DEFINE g == part(k)
             h == part(k + 1)
  <2>1. g \in [0 .. k -> S] /\ Good(g, k)
    BY <1>3
  <2>2. h \in [0 .. k + 1 -> S] /\ Good(h, k + 1)
    <3>1. k + 1 \in Nat
      OBVIOUS
    <3> HIDE DEF Good, part
    <3> QED BY <1>3, <3>1
  <2>3. f[k] = g[k] /\ f[k + 1] = h[k + 1]
    <3>1. k + 1 \in Nat
      OBVIOUS
    <3> HIDE DEF f, part
    <3> QED BY <1>5, <3>1 DEF g, h
  <2> HIDE DEF g, h, f
  <2>4. g[k] = h[k]
    <3>1. k + 1 \in Nat /\ k <= k + 1
      OBVIOUS
    <3> HIDE DEF Good
    <3> QED BY <1>2, <2>1, <2>2, <3>1
  <2>5. k \in 0 .. (k + 1) - 1
    OBVIOUS
  <2>6. h[k + 1] = step[k][h[k]]
    BY <2>2, <2>5
  <2> QED BY <2>3, <2>4, <2>6
<1> HIDE DEF f
<1> QED BY <1>5, <1>6, <1>7

-------------------------------------------------------------------------------
(* The number a slice spells *)

SpellNext ==
  [k \in Nat |-> [x \in Nat |->
     IF k + 1 > Len(wire) THEN 0
     ELSE IF k = 0 THEN FirstGroup(wire[1])
     ELSE x * Group + wire[k + 1].low]]

\* The magnitude the first k bytes spell, without any width.
Spelled ==
  CHOOSE f \in [Nat -> Nat] :
    f[0] = 0 /\ \A k \in Nat : f[k + 1] = SpellNext[k][f[k]]

LEMMA SpelledFacts ==
  ASSUME ty \in Type, wire \in Seq(Byte)
  PROVE  /\ Spelled \in [Nat -> Nat]
         /\ Spelled[0] = 0
         /\ Len(wire) >= 1 => Spelled[1] = FirstGroup(wire[1])
         /\ \A k \in 1 .. Len(wire) - 1 :
              Spelled[k + 1] = Spelled[k] * Group + wire[k + 1].low
<1>1. Len(wire) \in Nat /\ Group \in Nat
  BY WidthIsGroups
<1>2. \A k \in 1 .. Len(wire) :
        wire[k] \in Byte /\ wire[k].low \in Nat /\ FirstGroup(wire[k]) \in Nat
  <2> SUFFICES ASSUME NEW k \in 1 .. Len(wire)
               PROVE  wire[k] \in Byte /\ wire[k].low \in Nat
                      /\ FirstGroup(wire[k]) \in Nat
    OBVIOUS
  <2>1. wire[k] \in Byte
    OBVIOUS
  <2>2. wire[k].low \in 0 .. Group - 1 /\ FirstGroup(wire[k]) \in 0 .. FirstCap - 1
    BY <2>1, FirstGroupFacts
  <2> QED BY <1>1, <2>1, <2>2, TypeFacts
<1>3. SpellNext \in [Nat -> [Nat -> Nat]]
  <2> SUFFICES ASSUME NEW k \in Nat, NEW x \in Nat
               PROVE  (IF k + 1 > Len(wire) THEN 0
                       ELSE IF k = 0 THEN FirstGroup(wire[1])
                       ELSE x * Group + wire[k + 1].low) \in Nat
    BY DEF SpellNext
  <2>1. CASE k + 1 > Len(wire)
    BY <2>1
  <2>2. CASE ~(k + 1 > Len(wire))
    <3>1. k + 1 \in 1 .. Len(wire) /\ 1 \in 1 .. Len(wire)
      BY <1>1, <2>2
    <3>2. wire[k + 1].low \in Nat /\ FirstGroup(wire[1]) \in Nat
      BY <1>2, <3>1
    <3>3. x * Group \in Nat
      BY <1>1
    <3> QED BY <2>2, <3>2, <3>3
  <2> QED BY <2>1, <2>2
<1>4. \A k, x \in Nat :
        SpellNext[k][x] = (IF k + 1 > Len(wire) THEN 0
                               ELSE IF k = 0 THEN FirstGroup(wire[1])
                               ELSE x * Group + wire[k + 1].low)
  BY DEF SpellNext
<1>5. /\ Spelled \in [Nat -> Nat] /\ Spelled[0] = 0
      /\ \A k \in Nat : Spelled[k + 1] = SpellNext[k][Spelled[k]]
  <2>1. \E f \in [Nat -> Nat] :
          f[0] = 0 /\ \A k \in Nat : f[k + 1] = SpellNext[k][f[k]]
    <3> DEFINE N == Nat
               zero == 0
               next == SpellNext
    <3>1. zero \in N /\ next \in Steps(N)
      BY <1>3 DEF Steps
    <3> HIDE DEF N, zero, next
    <3>2. \E f \in [Nat -> N] :
            f[0] = zero /\ \A k \in Nat : f[k + 1] = next[k][f[k]]
      BY ONLY <3>1, Recursion
    <3> QED BY <3>2 DEF N, zero, next
  <2> QED BY <2>1 DEF Spelled
<1>6. \A k \in Nat : Spelled[k] \in Nat
  BY <1>5
<1>7. Len(wire) >= 1 => Spelled[1] = FirstGroup(wire[1])
  <2>1. Spelled[0 + 1] = SpellNext[0][Spelled[0]]
    BY <1>5
  <2> QED BY <2>1, <1>1, <1>4, <1>6, SMTT(20)
<1>8. ASSUME NEW k \in 1 .. Len(wire) - 1
      PROVE  Spelled[k + 1] = Spelled[k] * Group + wire[k + 1].low
  <2>1. k \in Nat /\ ~(k + 1 > Len(wire)) /\ k # 0
    BY <1>1, <1>8
  <2>2. SpellNext[k][Spelled[k]] = Spelled[k] * Group + wire[k + 1].low
    BY <1>4, <1>6, <2>1
  <2> QED BY <1>5, <2>1, <2>2
<1> QED BY <1>5, <1>7, <1>8

\* A function that keeps the recurrence up to n is the number spelled.
LEMMA SpelledUnique ==
  ASSUME ty \in Type, wire \in Seq(Byte), NEW n \in 1 .. Len(wire), NEW f,
         f[1] = FirstGroup(wire[1]),
         \A k \in 1 .. n - 1 : f[k + 1] = f[k] * Group + wire[k + 1].low
  PROVE  \A k \in 1 .. n : f[k] = Spelled[k]
<1> DEFINE Same == {k \in Nat : f[k + 1] = Spelled[k + 1]}
<1>1. n \in Nat /\ n >= 1 /\ Len(wire) \in Nat /\ n - 1 \in Nat /\ n <= Len(wire)
  OBVIOUS
<1>2. 0 \in Same
  BY <1>1, SpelledFacts
<1>3. ASSUME NEW k \in Nat, k < n - 1, k \in Same PROVE k + 1 \in Same
  <2>1. k + 1 \in 1 .. n - 1 /\ k + 1 \in 1 .. Len(wire) - 1
    BY <1>1, <1>3
  <2>2. f[k + 1] = Spelled[k + 1]
    BY <1>3
  <2>3. f[(k + 1) + 1] = f[k + 1] * Group + wire[(k + 1) + 1].low
    BY <2>1
  <2>4. Spelled[(k + 1) + 1] = Spelled[k + 1] * Group + wire[(k + 1) + 1].low
    BY <2>1, SpelledFacts
  <2> QED BY <2>2, <2>3, <2>4
<1>4. \A k \in Same : f[k + 1] = Spelled[k + 1]
  OBVIOUS
<1> HIDE DEF Same
<1>5. \A k \in 0 .. n - 1 : k \in Same
  BY <1>1, <1>2, <1>3, UpTo
<1> SUFFICES ASSUME NEW k \in 1 .. n PROVE f[k] = Spelled[k]
  OBVIOUS
<1>6. k - 1 \in 0 .. n - 1 /\ (k - 1) + 1 = k
  BY <1>1
<1> QED BY <1>4, <1>5, <1>6

\* The reference exists, and is the number the proofs speak of.
LEMMA MagnitudeIsSpelled ==
  ASSUME ty \in Type, wire \in Seq(Byte)
  PROVE  \A n \in 0 .. Len(wire) : Magnitude[n] = Spelled[n]
<1> DEFINE Body(f) == [n \in 0 .. Len(wire) |->
                         CASE n = 0 -> 0
                           [] n = 1 -> FirstGroup(wire[1])
                           [] OTHER -> f[n - 1] * Group + wire[n].low]
           g == [n \in 0 .. Len(wire) |-> Spelled[n]]
<1>1. Len(wire) \in Nat
  OBVIOUS
<1>2. g = Body(g)
  <2>1. ASSUME NEW n \in 0 .. Len(wire) PROVE g[n] = Body(g)[n]
    <3>1. CASE n = 0
      BY <3>1, SpelledFacts
    <3>2. CASE n = 1
      BY <3>2, <1>1, SpelledFacts
    <3>3. CASE n > 1
      <4>1. n - 1 \in 1 .. Len(wire) - 1 /\ (n - 1) + 1 = n /\ n - 1 \in 0 .. Len(wire)
        BY <1>1, <3>3
      <4>2. Spelled[n] = Spelled[n - 1] * Group + wire[n].low
        BY <4>1, SpelledFacts
      <4> QED BY <3>3, <4>1, <4>2
    <3> QED BY <3>1, <3>2, <3>3
  <2> QED BY <2>1
<1>3. Magnitude = CHOOSE f : f = Body(f)
  BY DEF Magnitude
<1>4. Magnitude = Body(Magnitude)
  <2> HIDE DEF g, Body
  <2> QED BY <1>2, <1>3
<1> DEFINE m == Magnitude
<1>5. /\ Len(wire) >= 1 => m[1] = FirstGroup(wire[1])
      /\ m[0] = 0
      /\ \A k \in 1 .. Len(wire) - 1 : m[k + 1] = m[k] * Group + wire[k + 1].low
  <2> HIDE DEF m
  <2> SUFFICES ASSUME m = Body(m)
               PROVE  /\ Len(wire) >= 1 => m[1] = FirstGroup(wire[1])
                      /\ m[0] = 0
                      /\ \A k \in 1 .. Len(wire) - 1 :
                           m[k + 1] = m[k] * Group + wire[k + 1].low
    BY <1>4 DEF m
  <2>1. \A n \in 0 .. Len(wire) :
          m[n] = (CASE n = 0 -> 0
                    [] n = 1 -> FirstGroup(wire[1])
                    [] OTHER -> m[n - 1] * Group + wire[n].low)
    OBVIOUS
  <2>2. ASSUME NEW k \in 1 .. Len(wire) - 1
        PROVE  m[k + 1] = m[k] * Group + wire[k + 1].low
    <3>1. k + 1 \in 0 .. Len(wire) /\ k + 1 # 0 /\ k + 1 # 1 /\ (k + 1) - 1 = k
      BY <1>1
    <3> QED BY <2>1, <3>1
  <2>3. m[0] = 0 /\ (Len(wire) >= 1 => m[1] = FirstGroup(wire[1]))
    <3>1. 0 \in 0 .. Len(wire)
      BY <1>1
    <3>2. m[0] = 0
      <4>1. ASSUME NEW n \in 0 .. Len(wire), n = 0 PROVE m[n] = 0
        <5>1. m[n] = (CASE n = 0 -> 0
                        [] n = 1 -> FirstGroup(wire[1])
                        [] OTHER -> m[n - 1] * Group + wire[n].low)
          BY <2>1
        <5>2. n # 1
          BY <4>1
        <5> QED BY <4>1, <5>1, <5>2
      <4> QED BY <3>1, <4>1
    <3>3. Len(wire) >= 1 => 1 \in 0 .. Len(wire)
      BY <1>1
    <3>4. Len(wire) >= 1 => m[1] = FirstGroup(wire[1])
      <4>1. ASSUME NEW n \in 0 .. Len(wire), n = 1 PROVE m[n] = FirstGroup(wire[1])
        <5>1. m[n] = (CASE n = 0 -> 0
                        [] n = 1 -> FirstGroup(wire[1])
                        [] OTHER -> m[n - 1] * Group + wire[n].low)
          BY <2>1
        <5>2. n # 0
          BY <4>1
        <5> QED BY <4>1, <5>1, <5>2
      <4> QED BY <3>3, <4>1
    <3> QED BY <3>2, <3>4
  <2> QED BY <2>2, <2>3
<1> HIDE DEF m
<1> SUFFICES ASSUME NEW n \in 0 .. Len(wire) PROVE m[n] = Spelled[n]
  BY DEF m
<1>6. CASE n = 0
  BY <1>5, <1>6, SpelledFacts
<1>7. CASE n # 0
  <2>1. n \in 1 .. Len(wire) /\ Len(wire) >= 1
    BY <1>1, <1>7
  <2>2. n \in 1 .. n
    BY <2>1
  <2>3. \A k \in 1 .. n - 1 : k \in 1 .. Len(wire) - 1
    BY <1>1, <2>1
  <2> QED BY <1>5, <2>1, <2>2, <2>3, SpelledUnique
<1> QED BY <1>6, <1>7

LEMMA Doubles ==
  ASSUME NEW x \in Nat, NEW g \in Nat, g >= 2
  PROVE  x * g >= 2 * x /\ x * g \in Nat
OBVIOUS

LEMMA Chain ==
  ASSUME NEW x \in Nat, NEW y \in Nat, NEW z \in Nat, NEW g \in Nat,
         g >= 2 * x, x >= y
  PROVE  g + z >= 2 * y
OBVIOUS

\* Another byte more than doubles the number or leaves it 0.
LEMMA SpelledGrows ==
  ASSUME ty \in Type, wire \in Seq(Byte),
         NEW j \in 1 .. Len(wire), NEW k \in 1 .. Len(wire), j < k
  PROVE  Spelled[k] >= 2 * Spelled[j]
<1> DEFINE Bad == {m \in j + 1 .. Len(wire) : ~(Spelled[m] >= 2 * Spelled[j])}
<1>1. SUFFICES ASSUME Bad # {} PROVE FALSE
  OBVIOUS
<1>2. Bad \in SUBSET Nat
  OBVIOUS
<1>3. /\ \A m \in Bad : m \in j + 1 .. Len(wire) /\ ~(Spelled[m] >= 2 * Spelled[j])
      /\ \A m \in j + 1 .. Len(wire) : m \notin Bad => Spelled[m] >= 2 * Spelled[j]
  OBVIOUS
<1> HIDE DEF Bad
<1>4. PICK m \in Bad : \A l \in Bad : m <= l
  BY <1>1, <1>2, LeastNatural
<1> DEFINE l == m - 1
<1>5. /\ m \in j + 1 .. Len(wire) /\ l \in 1 .. Len(wire) - 1 /\ l + 1 = m
      /\ ~(m <= l) /\ l >= j /\ l \in Nat /\ j \in Nat /\ l \in 1 .. Len(wire)
  BY <1>3, <1>4
<1> HIDE DEF l
<1>6. l # j => Spelled[l] >= 2 * Spelled[j]
  BY <1>3, <1>4, <1>5
<1>7. Spelled[m] = Spelled[l] * Group + wire[m].low
  BY <1>5, SpelledFacts
<1>8. Spelled[l] \in Nat /\ Spelled[j] \in Nat /\ Group \in Nat /\ Group >= 2
      /\ wire[m].low \in Nat
  <2>1. wire[m] \in Byte
    <3>1. m \in 1 .. Len(wire)
      BY <1>5
    <3> QED BY <3>1
  <2>2. wire[m].low \in 0 .. Group - 1
    BY <2>1, FirstGroupFacts
  <2> QED BY <1>5, <2>2, SpelledFacts, WidthIsGroups
<1>9. Spelled[l] * Group >= 2 * Spelled[l] /\ Spelled[l] * Group \in Nat
  BY <1>8, Doubles
<1>10. Spelled[l] >= Spelled[j]
  BY <1>6, <1>8
<1>11. Spelled[m] >= 2 * Spelled[j]
  BY <1>7, <1>8, <1>9, <1>10, Chain
<1> QED BY <1>3, <1>4, <1>11

-------------------------------------------------------------------------------
(* The parser on any slice *)

ParserTyped ==
  /\ ty \in Type
  /\ wire \in Seq(Byte)
  /\ deState \in {"first", "loop", "ok", "err"}
  /\ offset \in 0 .. Len(wire)
  /\ more \in BOOLEAN
  /\ negative \in BOOLEAN
  /\ value \in Nat
  /\ returned \in Int
  /\ result \in ValuesOf(ty)
  /\ error \in {"none", "ValueTruncated", "IntegerOverflow"}

\* None of the first n bytes is an integer's last.
Unfinished(n) == \A k \in 1 .. n : wire[k].more

\* The magnitude is what the bytes read spell and stays within the width and
\* the type; a result is the number spelled, an error has its reason.
ParserInv ==
  /\ value <= WidthMax
  /\ deState = "first" => offset = 0 /\ value = 0 /\ error = "none"
  /\ offset = 0 => ~negative
  /\ offset >= 1 => negative = IsNegative(wire[1])
  /\ Unfinished(offset - 1)
  /\ deState = "loop" =>
       /\ offset >= 1 /\ more = wire[offset].more /\ error = "none"
       /\ value = Spelled[offset] /\ value <= Limit
  /\ deState = "ok" =>
       /\ offset >= 1 /\ ~wire[offset].more /\ error = "none"
       /\ Spelled[offset] <= Limit
       /\ returned = result
       /\ result = IF negative THEN -Spelled[offset] ELSE Spelled[offset]
  /\ deState # "ok" => result = 0
  /\ deState = "err" => error # "none"
  /\ error = "ValueTruncated" => offset = Len(wire) /\ Unfinished(offset)
  /\ error = "IntegerOverflow" =>
       /\ offset >= 1
       /\ \/ Spelled[offset] > Limit
          \/ Spelled[offset] = Limit /\ negative /\ wire[offset].more

LEMMA ParserInitially ==
  ASSUME ty \in Type, wire \in Seq(Byte), DeInit
  PROVE  ParserTyped /\ ParserInv
<1>1. /\ deState = "first" /\ offset = 0 /\ more = FALSE /\ negative = FALSE
      /\ value = 0 /\ returned = 0 /\ result = 0 /\ error = "none"
  BY DEF DeInit
<1>2. 0 \in ValuesOf(ty) /\ 0 <= WidthMax
  BY TypeFacts DEF ValuesOf
<1>3. Len(wire) \in Nat
  OBVIOUS
<1>4. ParserTyped
  <2>1. offset \in 0 .. Len(wire) /\ value \in Nat /\ returned \in Int
    BY <1>1, <1>3
  <2>2. more \in BOOLEAN /\ negative \in BOOLEAN /\ result \in ValuesOf(ty)
    BY <1>1, <1>2
  <2> QED BY <1>1, <2>1, <2>2 DEF ParserTyped
<1>5. Unfinished(offset - 1)
  BY <1>1 DEF Unfinished
<1>6. value <= WidthMax
  BY <1>1, <1>2
<1> QED BY <1>1, <1>4, <1>5, <1>6 DEF ParserInv

\* What a step of the parser finds.
LEMMA ParserContext ==
  ASSUME ParserTyped, ParserInv
  PROVE  /\ ty \in Type /\ wire \in Seq(Byte) /\ Len(wire) \in Nat
         /\ offset \in Nat /\ offset <= Len(wire)
         /\ \A k \in 1 .. Len(wire) :
              /\ wire[k] \in Byte /\ wire[k].more \in BOOLEAN
              /\ wire[k].low \in Nat /\ wire[k].low <= Group - 1
              /\ Spelled[k] \in Nat
         /\ ty.signed \in BOOLEAN /\ ty.max \in Nat /\ ty.max <= WidthMax
         /\ Limit = (IF negative THEN ty.max + 1 ELSE ty.max)
         /\ (~ty.signed => ~negative)
         /\ WidthMax \in Nat /\ (ty.signed => WidthMax = IMax)
<1>1. /\ ty \in Type /\ wire \in Seq(Byte) /\ offset \in 0 .. Len(wire)
      /\ negative \in BOOLEAN
  BY DEF ParserTyped
<1>2. Len(wire) \in Nat /\ offset \in Nat /\ offset <= Len(wire)
  BY <1>1
<1>3. ASSUME NEW k \in 1 .. Len(wire)
      PROVE  /\ wire[k] \in Byte /\ wire[k].more \in BOOLEAN
             /\ wire[k].low \in Nat /\ wire[k].low <= Group - 1
             /\ Spelled[k] \in Nat
  <2>1. wire[k] \in Byte
    BY <1>1
  <2>2. wire[k].more \in BOOLEAN /\ wire[k].low \in 0 .. Group - 1
    BY <1>1, <2>1, FirstGroupFacts
  <2>3. Spelled[k] \in Nat
    BY <1>1, SpelledFacts
  <2> QED BY <2>1, <2>2, <2>3, WidthIsGroups
<1>4. ~ty.signed => ~negative
  <2>1. CASE offset = 0
    BY <2>1 DEF ParserInv
  <2>2. CASE offset # 0
    <3>1. negative = IsNegative(wire[1])
      BY <1>2, <2>2 DEF ParserInv
    <3> QED BY <3>1 DEF IsNegative
  <2> QED BY <2>1, <2>2
<1> QED BY <1>1, <1>2, <1>3, <1>4, TypeFacts DEF Limit, WidthMax

LEMMA FirstStep ==
  ASSUME ParserTyped, ParserInv, ReadFirst, UNCHANGED <<ty, wire>>
  PROVE  ParserTyped' /\ ParserInv'
<1>1. /\ deState = "first" /\ deState' = "loop" /\ returned' = returned
      /\ result' = result /\ error' = error /\ ty' = ty /\ wire' = wire
  BY DEF ReadFirst
<1>2. PICK b \in Byte :
        /\ Consume(b) /\ more' = b.more
        /\ negative' = IsNegative(b) /\ value' = FirstGroup(b)
  BY DEF ReadFirst
<1>3. offset = 0 /\ error = "none"
  BY <1>1 DEF ParserInv
<1>4. /\ ty \in Type /\ wire \in Seq(Byte) /\ Len(wire) \in Nat
      /\ WidthMax \in Nat /\ ty.max \in Nat /\ ty.max <= WidthMax
  BY ParserContext
<1>5. offset' = 1 /\ b = wire[1] /\ Len(wire) >= 1
  BY <1>2, <1>3, <1>4 DEF Consume
<1>6. /\ value' \in Nat /\ value' <= ty.max /\ more' \in BOOLEAN
      /\ negative' \in BOOLEAN /\ value' = Spelled[1]
  <2>1. /\ FirstGroup(b) \in 0 .. FirstCap - 1 /\ FirstCap \in Nat
        /\ FirstCap - 1 <= ty.max /\ b.more \in BOOLEAN
        /\ IsNegative(b) \in BOOLEAN
    BY <1>4, FirstGroupFacts, TypeFacts
  <2>2. FirstGroup(b) \in Nat /\ FirstGroup(b) <= ty.max
    BY <1>4, <2>1
  <2>3. Spelled[1] = FirstGroup(wire[1])
    BY <1>4, <1>5, SpelledFacts
  <2> QED BY <1>2, <1>5, <2>1, <2>2, <2>3
<1>7. /\ Spelled' = Spelled /\ WidthMax' = WidthMax /\ Type' = Type
      /\ ValuesOf(ty)' = ValuesOf(ty)
  BY <1>1 DEF Spelled, SpellNext, FirstGroup, IsNegative, WidthMax, Type, ValuesOf
<1>8. ParserTyped'
  BY <1>1, <1>4, <1>5, <1>6, <1>7 DEF ParserTyped
<1>9. value' <= Limit'
  BY <1>1, <1>4, <1>6 DEF Limit
<1>10. Unfinished(offset - 1)'
  BY <1>5 DEF Unfinished
<1>11. more' = wire'[offset'].more /\ value' = Spelled'[offset']
  BY <1>1, <1>2, <1>5, <1>6, <1>7
<1>12. negative' = IsNegative(wire[1])'
  BY <1>1, <1>2, <1>5 DEF IsNegative
<1>13. value' <= WidthMax'
  BY <1>4, <1>6, <1>7
<1> QED BY <1>1, <1>3, <1>5, <1>8, <1>9, <1>10, <1>11, <1>12, <1>13 DEF ParserInv

LEMMA TruncatedStep ==
  ASSUME ParserTyped, ParserInv, Truncated, UNCHANGED <<ty, wire>>
  PROVE  ParserTyped' /\ ParserInv'
<1>1. /\ deState' = "err" /\ error' = "ValueTruncated" /\ returned' = returned
      /\ result' = result /\ offset' = offset /\ more' = more
      /\ negative' = negative /\ value' = value /\ ty' = ty /\ wire' = wire
      /\ deState = "first" \/ (deState = "loop" /\ more)
      /\ offset = Len(wire)
  BY DEF Truncated, Fail
<1>2. offset = Len(wire)
  BY DEF Truncated
<1>3. /\ Spelled' = Spelled /\ WidthMax' = WidthMax /\ Type' = Type
      /\ ValuesOf(ty)' = ValuesOf(ty)
  BY <1>1 DEF Spelled, SpellNext, FirstGroup, IsNegative, WidthMax, Type, ValuesOf
<1>4. Unfinished(offset)
  <2>1. CASE deState = "first"
    BY <2>1 DEF ParserInv, Unfinished
  <2>2. CASE deState = "loop" /\ more
    <3>1. Unfinished(offset - 1) /\ wire[offset].more
      BY <2>2 DEF ParserInv
    <3>2. \A k \in 1 .. offset : k \in 1 .. offset - 1 \/ k = offset
      BY ParserContext
    <3> QED BY <3>1, <3>2 DEF Unfinished
  <2> QED BY <1>1, <2>1, <2>2
<1>5. ParserTyped'
  BY <1>1, <1>3 DEF ParserTyped
<1>6. Unfinished(offset)' /\ Unfinished(offset - 1)'
  BY <1>1, <1>4 DEF ParserInv, Unfinished
<1> QED BY <1>1, <1>2, <1>3, <1>5, <1>6 DEF ParserInv, IsNegative

\* The last byte of i64::MIN: the magnitude is one more than the limit allows
\* for the positive.
LEMMA MinStep ==
  ASSUME ParserTyped, ParserInv, deState = "loop",
         NEW b, Consume(b), IsMin(b)
  PROVE  /\ ty.max = IMax /\ Spelled[offset + 1] = IMax + 1
         /\ IMin \in ValuesOf(ty) /\ IMin = -Spelled[offset + 1]
<1>1. /\ ty.signed /\ ~b.more /\ negative /\ b.low = 0 /\ value = MinLead
      /\ b = wire[offset + 1] /\ offset < Len(wire)
  BY DEF IsMin, Consume
<1>2. offset >= 1 /\ value = Spelled[offset] /\ value <= Limit
  BY DEF ParserInv
<1>3. /\ ty \in Type /\ wire \in Seq(Byte) /\ Len(wire) \in Nat /\ offset \in Nat
      /\ Limit = (IF negative THEN ty.max + 1 ELSE ty.max)
      /\ WidthMax = IMax /\ ty.max \in Nat
  BY <1>1, ParserContext
<1>4. ty.max = IMax
  <2>1. MinLead <= ty.max + 1
    BY <1>1, <1>2, <1>3
  <2>2. ~(ty.max + 1 < MinLead)
    BY <2>1, <1>3, WidthIsGroups
  <2>3. ~HasLimit
    BY <1>1, <1>3, <2>2, TypeFacts
  <2> QED BY <1>3, <2>3 DEF HasLimit
<1>5. Spelled[offset + 1] = Spelled[offset] * Group + wire[offset + 1].low
  <2>1. offset \in 1 .. Len(wire) - 1
    BY <1>1, <1>2, <1>3
  <2> QED BY <1>3, <2>1, SpelledFacts
<1>6. /\ MinLead * Group = Group * MinLead /\ IMax \in Nat
      /\ IMax = Group * MinLead - 1 /\ MinLead * Group \in Nat
  BY WidthIsGroups
<1>7. Spelled[offset + 1] = IMax + 1
  <2>1. Spelled[offset + 1] = MinLead * Group + 0
    BY <1>1, <1>2, <1>5
  <2> QED BY <1>6, <2>1
<1> QED BY <1>1, <1>4, <1>6, <1>7 DEF IMin, ValuesOf

\* The unchecked addition stays within the width.
LEMMA WithinWidth ==
  ASSUME NEW v \in Nat, NEW low \in 0 .. Group - 1, v * Group <= WidthMax
  PROVE  v * Group + low <= WidthMax
<1>1. PICK k \in Nat : WidthMax = Group * k - 1
  <2>1. CASE ty.signed
    BY <2>1, WidthIsGroups DEF WidthMax
  <2>2. CASE ~ty.signed
    <3>1. 2 * MinLead \in Nat /\ WidthMax = Group * (2 * MinLead) - 1
      BY <2>2, WidthIsGroups DEF WidthMax
    <3> QED BY <3>1
  <2> QED BY <2>1, <2>2
<1> QED BY <1>1, RoomForGroup, WidthIsGroups

\* A magnitude that no multiplication or addition fits is beyond the limit.
LEMMA OverflowIsReal ==
  ASSUME ParserTyped, ParserInv, deState = "loop", NEW b, Consume(b),
         MulOverflows(b)
  PROVE  \/ Spelled[offset + 1] > Limit
         \/ Spelled[offset + 1] = Limit /\ negative /\ b.more
<1>1. /\ ~IsMin(b) /\ value * Group > WidthMax /\ b = wire[offset + 1]
      /\ offset < Len(wire)
  BY DEF MulOverflows, Consume
<1>2. offset >= 1 /\ value = Spelled[offset]
  BY DEF ParserInv
<1>3. /\ ty \in Type /\ wire \in Seq(Byte) /\ Len(wire) \in Nat /\ offset \in Nat
      /\ Limit = (IF negative THEN ty.max + 1 ELSE ty.max)
      /\ ty.signed \in BOOLEAN /\ (~ty.signed => ~negative)
      /\ (ty.signed => WidthMax = IMax)
      /\ ty.max \in Nat /\ ty.max <= WidthMax /\ WidthMax \in Nat
  BY ParserContext
<1>4. offset + 1 \in 1 .. Len(wire) /\ offset \in 1 .. Len(wire) - 1
      /\ offset \in 1 .. Len(wire)
  BY <1>1, <1>2, <1>3
<1>5. Spelled[offset + 1] = Spelled[offset] * Group + wire[offset + 1].low
  BY <1>3, <1>4, SpelledFacts
<1>6. /\ b.low \in Nat /\ b.more \in BOOLEAN /\ value \in Nat /\ Group \in Nat
      /\ Group >= 2 /\ MinLead \in Nat /\ IMax = Group * MinLead - 1
      /\ Spelled[offset + 1] \in Nat /\ value * Group \in Nat
  <2>1. /\ wire[offset + 1].low \in Nat /\ wire[offset + 1].more \in BOOLEAN
        /\ Spelled[offset] \in Nat /\ Spelled[offset + 1] \in Nat
    BY <1>4, ParserContext
  <2> QED BY <2>1, <1>1, <1>2, WidthIsGroups, SMTT(20)
<1>7. Spelled[offset + 1] = value * Group + b.low
  BY <1>1, <1>2, <1>5
<1>8. CASE Spelled[offset + 1] > Limit
  BY <1>8
<1>9. CASE ~(Spelled[offset + 1] > Limit)
  <2>1. Limit <= WidthMax + 1 /\ Limit \in Nat
    BY <1>3
  <2>2. /\ value * Group = WidthMax + 1 /\ b.low = 0 /\ Limit = WidthMax + 1
        /\ Spelled[offset + 1] = Limit
    BY <1>1, <1>3, <1>6, <1>7, <1>9, <2>1, SMTT(20)
  <2>3. negative
    BY <1>3, <2>2
  <2>4. ty.signed /\ WidthMax = IMax
    BY <1>3, <2>3
  <2>5. value = MinLead
    <3>1. value * Group = MinLead * Group
      BY <1>6, <2>2, <2>4
    <3>2. value < MinLead => value * Group < MinLead * Group
      BY <1>6
    <3>3. value > MinLead => value * Group > MinLead * Group
      BY <1>6
    <3>4. value * Group \in Nat /\ MinLead * Group \in Nat
      BY <1>6
    <3> QED BY <1>6, <3>1, <3>2, <3>3, <3>4
  <2>6. b.more
    BY <1>1, <1>6, <2>2, <2>3, <2>4, <2>5 DEF IsMin
  <2> QED BY <2>2, <2>3, <2>6
<1> QED BY <1>8, <1>9

LEMMA NextStep ==
  ASSUME ParserTyped, ParserInv, ReadNext, UNCHANGED <<ty, wire>>
  PROVE  ParserTyped' /\ ParserInv'
<1>1. /\ deState = "loop" /\ more /\ negative' = negative /\ ty' = ty
      /\ wire' = wire
  BY DEF ReadNext
<1>2. PICK b \in Byte :
        /\ Consume(b) /\ more' = b.more
        /\ ReadMin(b) \/ MulOverflows(b) \/ Exceeds(b) \/ Accumulate(b)
  BY DEF ReadNext
<1>3. /\ offset >= 1 /\ more = wire[offset].more /\ error = "none"
      /\ value = Spelled[offset] /\ value <= Limit /\ value <= WidthMax
      /\ negative = IsNegative(wire[1]) /\ Unfinished(offset - 1)
  BY <1>1 DEF ParserInv
<1>4. /\ ty \in Type /\ wire \in Seq(Byte) /\ Len(wire) \in Nat /\ offset \in Nat
      /\ ty.signed \in BOOLEAN /\ (~ty.signed => ~negative)
      /\ Limit = (IF negative THEN ty.max + 1 ELSE ty.max)
      /\ ty.max \in Nat /\ ty.max <= WidthMax /\ WidthMax \in Nat
  BY ParserContext
<1>5. /\ b = wire[offset + 1] /\ offset' = offset + 1 /\ offset < Len(wire)
  BY <1>2 DEF Consume
<1>6. /\ offset + 1 \in 1 .. Len(wire) /\ offset \in 1 .. Len(wire) - 1
      /\ offset' \in 0 .. Len(wire) /\ offset' - 1 = offset /\ offset' >= 1
      /\ offset' # 0 /\ offset' \in 1 .. Len(wire) /\ offset \in 1 .. Len(wire)
  BY <1>3, <1>4, <1>5
<1>7. /\ Spelled' = Spelled /\ WidthMax' = WidthMax /\ Type' = Type
      /\ ValuesOf(ty)' = ValuesOf(ty) /\ Limit' = Limit
      /\ IsNegative(wire[1])' = IsNegative(wire[1])
  BY <1>1 DEF Spelled, SpellNext, FirstGroup, IsNegative, WidthMax, Type,
              ValuesOf, Limit
<1>8. /\ Spelled[offset'] = value * Group + b.low /\ Spelled[offset'] \in Nat
      /\ value \in Nat /\ b.low \in Nat /\ b.low \in 0 .. Group - 1
      /\ more' \in BOOLEAN /\ value * Group \in Nat
  <2>1. Spelled[offset + 1] = Spelled[offset] * Group + wire[offset + 1].low
    BY <1>4, <1>6, SpelledFacts
  <2>2. b.more \in BOOLEAN /\ b.low \in 0 .. Group - 1
    BY <1>4, FirstGroupFacts
  <2>3. Spelled[offset + 1] \in Nat /\ Spelled[offset] \in Nat
    BY <1>6, ParserContext
  <2>4. value * Group \in Nat
    BY <1>3, <2>3, WidthIsGroups
  <2> QED BY <1>2, <1>3, <1>5, <2>1, <2>2, <2>3, <2>4, WidthIsGroups
<1>9. Unfinished(offset - 1)'
  <2>1. \A k \in 1 .. offset : k \in 1 .. offset - 1 \/ k = offset
    BY <1>4
  <2>2. \A k \in 1 .. offset : wire[k].more
    BY <1>1, <1>3, <2>1 DEF Unfinished
  <2> QED BY <1>1, <1>6, <2>2 DEF Unfinished
<1>10. more' = wire'[offset'].more /\ negative' = IsNegative(wire[1])'
  BY <1>1, <1>2, <1>3, <1>5, <1>7
<1>11. /\ returned \in Int /\ result \in ValuesOf(ty) /\ negative \in BOOLEAN
       /\ error \in {"none", "ValueTruncated", "IntegerOverflow"}
  BY DEF ParserTyped
<1>12. CASE ReadMin(b)
  <2>1. /\ IsMin(b) /\ value' = value
    BY <1>12 DEF ReadMin
  <2>2. /\ ty.max = IMax /\ Spelled[offset'] = IMax + 1
        /\ IMin \in ValuesOf(ty) /\ IMin = -Spelled[offset']
    BY <1>1, <1>2, <1>5, <2>1, MinStep
  <2>3. deState' = "ok" /\ returned' = IMin /\ result' = IMin /\ error' = error
    BY <1>12, <2>2, ReturnInRange DEF ReadMin
  <2>4. ~b.more /\ negative
    BY <2>1 DEF IsMin
  <2>5. IMin \in Int /\ Spelled[offset'] <= Limit
    BY <1>4, <1>8, <2>2, <2>4
  <2>6. ParserTyped'
    BY <1>1, <1>4, <1>6, <1>7, <1>8, <1>11, <2>1, <2>2, <2>3, <2>5
       DEF ParserTyped
  <2>7. ~wire'[offset'].more
    BY <1>1, <1>5, <2>4
  <2> QED BY <1>1, <1>3, <1>6, <1>7, <1>9, <1>10, <2>1, <2>2, <2>3, <2>4, <2>5,
             <2>6, <2>7 DEF ParserInv
<1>13. CASE MulOverflows(b)
  <2>1. /\ deState' = "err" /\ error' = "IntegerOverflow" /\ value' = value
        /\ returned' = returned /\ result' = result
    BY <1>13 DEF MulOverflows, Fail
  <2>2. \/ Spelled[offset'] > Limit
        \/ Spelled[offset'] = Limit /\ negative /\ b.more
    BY <1>1, <1>2, <1>5, <1>13, OverflowIsReal
  <2>3. ParserTyped'
    BY <1>1, <1>4, <1>6, <1>7, <1>8, <1>11, <2>1 DEF ParserTyped
  <2> QED BY <1>1, <1>2, <1>3, <1>5, <1>6, <1>7, <1>9, <1>10, <2>1, <2>2, <2>3
          DEF ParserInv
<1>14. CASE Exceeds(b)
  <2>1. /\ deState' = "err" /\ error' = "IntegerOverflow"
        /\ value' = value * Group + b.low /\ value' > Limit
        /\ returned' = returned /\ result' = result
        /\ value * Group <= WidthMax
    BY <1>14 DEF Exceeds, Fail
  <2>2. value' = Spelled[offset'] /\ value' \in Nat /\ Spelled[offset'] > Limit
    BY <1>7, <1>8, <2>1
  <2>3. ParserTyped'
    BY <1>1, <1>4, <1>6, <1>7, <1>8, <1>11, <2>1, <2>2 DEF ParserTyped
  <2>4. value' <= WidthMax
    BY <1>4, <1>8, <2>1, WithinWidth
  <2> QED BY <1>1, <1>3, <1>6, <1>7, <1>9, <1>10, <2>1, <2>2, <2>3, <2>4
          DEF ParserInv
<1>15. CASE Accumulate(b)
  <2>1. /\ deState' = deState /\ error' = error
        /\ value' = value * Group + b.low /\ (HasLimit => value' <= Limit)
        /\ returned' = returned /\ result' = result
        /\ value * Group <= WidthMax
    BY <1>15 DEF Accumulate
  <2>2. value' = Spelled[offset'] /\ value' \in Nat
    BY <1>8, <2>1
  <2>3. value' <= WidthMax
    BY <1>4, <1>8, <2>1, WithinWidth
  <2>4. value' <= Limit
    BY <1>4, <1>7, <2>1, <2>2, <2>3 DEF HasLimit
  <2>5. ParserTyped'
    BY <1>1, <1>4, <1>6, <1>7, <1>8, <1>11, <2>1, <2>2 DEF ParserTyped
  <2> QED BY <1>1, <1>3, <1>6, <1>7, <1>9, <1>10, <2>1, <2>2, <2>3, <2>4, <2>5
          DEF ParserInv
<1> QED BY <1>2, <1>12, <1>13, <1>14, <1>15

LEMMA FinishStep ==
  ASSUME ParserTyped, ParserInv, Finish, UNCHANGED <<ty, wire>>
  PROVE  ParserTyped' /\ ParserInv'
<1> DEFINE n == IF negative THEN -value ELSE value
<1>1. /\ deState = "loop" /\ ~more /\ Return(n)
      /\ offset' = offset /\ more' = more /\ negative' = negative
      /\ value' = value /\ ty' = ty /\ wire' = wire
  BY DEF Finish
<1>2. /\ offset >= 1 /\ more = wire[offset].more /\ error = "none"
      /\ value = Spelled[offset] /\ value <= Limit /\ value <= WidthMax
  BY <1>1 DEF ParserInv
<1>3. /\ ty.signed \in BOOLEAN /\ (~ty.signed => ~negative)
      /\ Limit = (IF negative THEN ty.max + 1 ELSE ty.max) /\ ty.max \in Nat
  BY ParserContext
<1>4. value \in Nat /\ negative \in BOOLEAN
  BY DEF ParserTyped
<1>5. n \in Int /\ n \in ValuesOf(ty)
  BY <1>2, <1>3, <1>4 DEF ValuesOf
<1>6. n = IF negative THEN -Spelled[offset] ELSE Spelled[offset]
  BY <1>2
<1> HIDE DEF n
<1>7. deState' = "ok" /\ returned' = n /\ result' = n /\ error' = error
  BY <1>1, <1>5, ReturnInRange
<1>8. /\ Spelled' = Spelled /\ WidthMax' = WidthMax /\ Type' = Type
      /\ ValuesOf(ty)' = ValuesOf(ty) /\ Limit' = Limit
  BY <1>1 DEF Spelled, SpellNext, FirstGroup, IsNegative, WidthMax, Type,
              ValuesOf, Limit
<1>9. ParserTyped'
  BY <1>1, <1>5, <1>7, <1>8 DEF ParserTyped
<1>10. /\ offset' >= 1 /\ ~wire'[offset'].more /\ error' = "none"
       /\ Spelled'[offset'] <= Limit'
       /\ result' = IF negative' THEN -Spelled'[offset'] ELSE Spelled'[offset']
  BY <1>1, <1>2, <1>6, <1>7, <1>8
<1>11. /\ offset' = 0 => ~negative'
       /\ negative' = IsNegative(wire[1])'
       /\ Unfinished(offset - 1)'
  BY <1>1, <1>2 DEF ParserInv, IsNegative, Unfinished
<1>12. value' <= WidthMax'
  BY <1>1, <1>2, <1>8
<1> QED BY <1>7, <1>9, <1>10, <1>11, <1>12 DEF ParserInv

\* The parser keeps the invariant, whatever the slice.
LEMMA ParserStep ==
  ASSUME ParserTyped, ParserInv, DeNext, UNCHANGED <<ty, wire>>
  PROVE  ParserTyped' /\ ParserInv'
BY FirstStep, TruncatedStep, NextStep, FinishStep DEF DeNext

\* And so does leaving it alone.
LEMMA ParserStutters ==
  ASSUME ParserTyped, ParserInv, ty' = ty, wire' = wire, UNCHANGED deVars
  PROVE  ParserTyped' /\ ParserInv'
<1>1. /\ deState' = deState /\ offset' = offset /\ more' = more
      /\ negative' = negative /\ value' = value /\ returned' = returned
      /\ result' = result /\ error' = error
  BY DEF deVars
<1>2. /\ Spelled' = Spelled /\ WidthMax' = WidthMax /\ Type' = Type
      /\ ValuesOf(ty)' = ValuesOf(ty) /\ Limit' = Limit
      /\ IsNegative(wire[1])' = IsNegative(wire[1])
  BY <1>1 DEF Spelled, SpellNext, FirstGroup, IsNegative, WidthMax, Type,
              ValuesOf, Limit
<1>3. ParserTyped'
  BY <1>1, <1>2 DEF ParserTyped
<1>4. ParserInv'
  BY <1>1, <1>2 DEF ParserInv, Unfinished
<1> QED BY <1>3, <1>4

\* A parser that has read nothing may be given any slice.
LEMMA ParserBegins ==
  (ty \in Type /\ wire \in Seq(Byte) /\ DeInit)' => (ParserTyped /\ ParserInv)'
<1>1. ty \in Type /\ wire \in Seq(Byte) /\ DeInit => ParserTyped /\ ParserInv
  BY ParserInitially
<1> QED BY <1>1, PTL

-------------------------------------------------------------------------------
(* What the writer leaves on its stack and in the buffer *)

Mag == IF input < 0 THEN -input ELSE input

\* The byte the writer puts in the j-th place.
OutByte(j) ==
  [more |-> j < Len(trail),
   low |-> IF j = 1 THEN (IF sign THEN rest + Half ELSE rest)
           ELSE trail[Len(trail) + 1 - j] % Group]

\* The trail holds what is left of the magnitude after each shift, so its last
\* element is the first group on the wire and its first the whole magnitude;
\* the stack and the output hold its remainders.
SerInv ==
  /\ serState \notin {"call", "panic"} =>
       /\ Len(trail) >= 1
       /\ trail[1] = Mag
       /\ sign = (input < 0)
       /\ rest = trail[Len(trail)]
       /\ \A i \in 2 .. Len(trail) : trail[i] < Mag
       /\ \A i \in 1 .. Len(trail) - 1 :
            trail[i] >= FirstCap /\ trail[i + 1] = trail[i] \div Group
  /\ \A i \in 1 .. Len(stack) : stack[i] = trail[i] % Group
  /\ serState \in {"call", "panic"} => stack = <<>> /\ out = <<>>
  /\ serState = "split" => out = <<>> /\ Len(stack) = Len(trail) - 1
  /\ serState \in {"emit", "done"} =>
       /\ rest < FirstCap
       /\ Len(out) >= 1
       /\ Len(stack) + Len(out) = Len(trail)
       /\ \A j \in 1 .. Len(out) : out[j] = OutByte(j)
  /\ serState = "emit" => Len(stack) >= 1
  /\ serState = "done" => Len(stack) = 0

\* The types of the writer's variables.
SerType ==
  /\ serState \in {"call", "split", "emit", "done", "panic"}
  /\ sign \in BOOLEAN
  /\ rest \in 0 .. UMax
  /\ stack \in Seq(0 .. Group - 1)
  /\ out \in Seq(Byte)
  /\ trail \in Seq(0 .. UMax)

CallType == ty \in Type /\ input \in ValuesOf(ty)

-------------------------------------------------------------------------------
(* Values, division, sequences *)

LEMMA ValueFacts ==
  ASSUME CallType
  PROVE  /\ input \in Int /\ Mag \in 0 .. UMax
         /\ input < 0 => ty.signed
         /\ Mag <= (IF input < 0 THEN ty.max + 1 ELSE ty.max)
         /\ input = (IF input < 0 THEN -Mag ELSE Mag)
<1>1. CASE ty.signed
  <2>1. ty.max \in Nat /\ ty.max <= IMax
    BY <1>1, TypeFacts DEF CallType, WidthMax
  <2>2. input \in -(ty.max + 1) .. ty.max
    BY <1>1 DEF CallType, ValuesOf
  <2>3. ty.max + 1 <= UMax
    BY <2>1, WidthIsGroups, WidthAssumption DEF WidthAssumption
  <2> QED BY <1>1, <2>1, <2>2, <2>3, WidthIsGroups DEF Mag
<1>2. CASE ~ty.signed
  <2>1. ty.max \in Nat /\ ty.max <= UMax
    BY <1>2, TypeFacts DEF CallType, WidthMax
  <2>2. input \in 0 .. ty.max
    BY <1>2 DEF CallType, ValuesOf
  <2> QED BY <2>1, <2>2, WidthIsGroups DEF Mag
<1> QED BY <1>1, <1>2

LEMMA DivFacts ==
  ASSUME NEW n \in Nat, NEW g \in Nat, g >= 2
  PROVE  /\ n \div g \in Nat /\ n % g \in 0 .. g - 1
         /\ n = (n \div g) * g + (n % g)
         /\ n \div g <= n
         /\ n >= 1 => n \div g < n
<1>1. n \div g \in Nat /\ n % g \in 0 .. g - 1 /\ n = (n \div g) * g + (n % g)
  OBVIOUS
<1>2. ASSUME NEW q \in Nat PROVE q * g >= 2 * q
  OBVIOUS
<1>3. (n \div g) * g >= 2 * (n \div g)
  BY <1>1, <1>2
<1>4. (n \div g) * g \in Nat
  BY <1>1
<1> QED BY <1>1, <1>3, <1>4

LEMMA AppendFacts ==
  ASSUME NEW S, NEW s \in Seq(S), NEW e \in S
  PROVE  /\ Append(s, e) \in Seq(S)
         /\ Len(Append(s, e)) = Len(s) + 1 /\ Len(s) \in Nat
         /\ Append(s, e)[Len(s) + 1] = e
         /\ \A i \in 1 .. Len(s) : Append(s, e)[i] = s[i]
OBVIOUS

LEMMA ElementFacts ==
  ASSUME NEW S, NEW s \in Seq(S), NEW i \in 1 .. Len(s)
  PROVE  s[i] \in S
OBVIOUS

LEMMA FrontFacts ==
  ASSUME NEW S, NEW s \in Seq(S), Len(s) >= 1
  PROVE  /\ SubSeq(s, 1, Len(s) - 1) \in Seq(S)
         /\ Len(SubSeq(s, 1, Len(s) - 1)) = Len(s) - 1 /\ Len(s) \in Nat
         /\ \A i \in 1 .. Len(s) - 1 : SubSeq(s, 1, Len(s) - 1)[i] = s[i]
OBVIOUS

LEMMA PrefixFacts ==
  ASSUME NEW S, NEW s \in Seq(S), NEW n \in 0 .. Len(s)
  PROVE  /\ SubSeq(s, 1, n) \in Seq(S)
         /\ Len(SubSeq(s, 1, n)) = n
         /\ \A i \in 1 .. n : SubSeq(s, 1, n)[i] = s[i]
OBVIOUS

-------------------------------------------------------------------------------
(* The writer *)

LEMMA FirstCapFacts ==
  ASSUME CallType
  PROVE  FirstCap \in Nat /\ FirstCap >= 1 /\ FirstCap <= Group
         /\ (ty.signed => FirstCap = Half)
BY WidthIsGroups, RadixAssumption DEF RadixAssumption, FirstCap

LEMMA BeginSer ==
  ASSUME CallType, SerType, SerInv, serState = "call",
         Begin(Mag, input < 0), UNCHANGED ty, UNCHANGED input
  PROVE  SerType' /\ SerInv'
<1>1. Mag \in 0 .. UMax /\ Mag' = Mag
  BY ValueFacts DEF Mag
<1>2. /\ serState' = "split" /\ sign' = (input < 0) /\ rest' = Mag
      /\ trail' = <<Mag>> /\ stack' = stack /\ out' = out
  BY DEF Begin
<1>3. stack = <<>> /\ out = <<>>
  BY DEF SerInv
<1>4. (input < 0) \in BOOLEAN
  OBVIOUS
<1>5. trail' \in Seq(0 .. UMax) /\ Len(trail') = 1 /\ trail'[1] = Mag
  BY <1>1, <1>2
<1>6. SerType'
  BY <1>1, <1>2, <1>4, <1>5 DEF SerType
<1>7. Len(stack') = 0
  BY <1>2, <1>3
<1> QED BY <1>1, <1>2, <1>3, <1>5, <1>6, <1>7 DEF SerInv

LEMMA PushSer ==
  ASSUME CallType, SerType, SerInv, PushGroup, UNCHANGED ty, UNCHANGED input
  PROVE  SerType' /\ SerInv'
<1> DEFINE q == rest \div Group
           n == Len(trail)
<1>1. /\ serState = "split" /\ rest >= FirstCap /\ serState' = serState
      /\ stack' = Append(stack, rest % Group) /\ rest' = q
      /\ trail' = Append(trail, q) /\ sign' = sign /\ out' = out
  BY DEF PushGroup
<1>2. /\ n >= 1 /\ trail[1] = Mag /\ sign = (input < 0) /\ rest = trail[n]
      /\ \A i \in 2 .. n : trail[i] < Mag
      /\ \A i \in 1 .. n - 1 :
           trail[i] >= FirstCap /\ trail[i + 1] = trail[i] \div Group
      /\ \A i \in 1 .. Len(stack) : stack[i] = trail[i] % Group
      /\ out = <<>> /\ Len(stack) = n - 1
  BY <1>1 DEF SerInv
<1>3. Mag' = Mag /\ FirstCap' = FirstCap
  BY DEF Mag, FirstCap
<1>4. /\ rest \in Nat /\ rest \in 0 .. UMax /\ Group \in Nat /\ Group >= 2
      /\ UMax \in Nat /\ FirstCap \in Nat /\ FirstCap >= 1
  BY WidthIsGroups, FirstCapFacts DEF SerType
<1>5. /\ q \in Nat /\ rest % Group \in 0 .. Group - 1 /\ q < rest
  <2>1. rest >= 1
    BY <1>1, <1>4
  <2> QED BY <1>4, <2>1, DivFacts
<1>6. q \in 0 .. UMax
  BY <1>4, <1>5
<1>7. /\ trail' \in Seq(0 .. UMax) /\ Len(trail') = n + 1 /\ n \in Nat
      /\ trail'[n + 1] = q /\ \A i \in 1 .. n : trail'[i] = trail[i]
  BY <1>1, <1>6, AppendFacts DEF SerType
<1>8. /\ stack' \in Seq(0 .. Group - 1) /\ Len(stack') = n
      /\ stack'[n] = rest % Group /\ \A i \in 1 .. n - 1 : stack'[i] = stack[i]
  <2>1. /\ Append(stack, rest % Group) \in Seq(0 .. Group - 1)
        /\ Len(Append(stack, rest % Group)) = Len(stack) + 1
        /\ Append(stack, rest % Group)[Len(stack) + 1] = rest % Group
        /\ \A i \in 1 .. Len(stack) :
             Append(stack, rest % Group)[i] = stack[i]
    BY <1>5, AppendFacts DEF SerType
  <2> QED BY <1>1, <1>2, <1>7, <2>1
<1>9. SerType'
  BY <1>1, <1>6, <1>7, <1>8 DEF SerType
<1>10. q < Mag
  <2>1. CASE n = 1
    BY <2>1, <1>2, <1>5
  <2>2. CASE n # 1
    <3>1. rest < Mag
      BY <2>2, <1>2, <1>7
    <3>2. Mag \in Nat
      BY ValueFacts
    <3> QED BY <3>1, <3>2, <1>5, <1>4
  <2> QED BY <2>1, <2>2
<1>11. \A i \in 2 .. n + 1 : trail'[i] < Mag
  BY <1>2, <1>7, <1>10
<1>12. \A i \in 1 .. n :
         trail'[i] >= FirstCap /\ trail'[i + 1] = trail'[i] \div Group
  <2> SUFFICES ASSUME NEW i \in 1 .. n
               PROVE  trail'[i] >= FirstCap /\ trail'[i + 1] = trail'[i] \div Group
    OBVIOUS
  <2>1. CASE i = n
    BY <2>1, <1>1, <1>2, <1>7
  <2>2. CASE i # n
    <3>1. i \in 1 .. n - 1 /\ i + 1 \in 1 .. n
      BY <2>2, <1>7
    <3> QED BY <3>1, <1>2, <1>7
  <2> QED BY <2>1, <2>2
<1>13. \A i \in 1 .. n : stack'[i] = trail'[i] % Group
  <2> SUFFICES ASSUME NEW i \in 1 .. n PROVE stack'[i] = trail'[i] % Group
    OBVIOUS
  <2>1. CASE i = n
    BY <2>1, <1>2, <1>7, <1>8
  <2>2. CASE i # n
    <3>1. i \in 1 .. n - 1
      BY <2>2, <1>7
    <3> QED BY <3>1, <1>2, <1>7, <1>8
  <2> QED BY <2>1, <2>2
<1>14. Len(trail') >= 1 /\ trail'[1] = Mag /\ rest' = trail'[Len(trail')]
  BY <1>1, <1>2, <1>7
<1> HIDE DEF q, n
<1> QED
  <2>1. /\ Len(trail') = n + 1 /\ Len(stack') = n /\ n \in Nat
        /\ Len(trail') - 1 = n
    BY <1>7, <1>8
  <2> QED BY <1>1, <1>2, <1>3, <1>9, <1>11, <1>12, <1>13, <1>14, <2>1
          DEF SerInv

\* The groups of the writer's bytes fit in a byte.
LEMMA EmittedByte ==
  ASSUME NEW m \in BOOLEAN, NEW g \in 0 .. Group - 1
  PROVE  [more |-> m, low |-> g] \in Byte
BY DEF Byte

LEMMA EmitFirstSer ==
  ASSUME CallType, SerType, SerInv, EmitFirst, UNCHANGED ty, UNCHANGED input
  PROVE  SerType' /\ SerInv'
<1> DEFINE low == IF sign THEN rest + Half ELSE rest
           b == [more |-> stack # <<>>, low |-> low]
<1>1. /\ serState = "split" /\ rest < FirstCap
      /\ out' = Append(out, b)
      /\ serState' = (IF stack = <<>> THEN "done" ELSE "emit")
      /\ sign' = sign /\ rest' = rest /\ stack' = stack /\ trail' = trail
  BY DEF EmitFirst
<1>2. /\ sign = (input < 0) /\ out = <<>> /\ Len(stack) = Len(trail) - 1
      /\ Len(trail) >= 1
  BY <1>1 DEF SerInv
<1>3. Mag' = Mag /\ FirstCap' = FirstCap
  BY DEF Mag, FirstCap
<1>4. low \in 0 .. Group - 1
  <2>1. /\ rest \in Nat /\ Group \in Nat /\ Half \in Nat /\ Group = 2 * Half
        /\ FirstCap <= Group /\ FirstCap \in Nat
    BY WidthIsGroups, FirstCapFacts, RadixAssumption DEF SerType, RadixAssumption
  <2>2. sign => FirstCap = Half
    BY <1>2, ValueFacts, FirstCapFacts
  <2> QED BY <2>1, <2>2, <1>1
<1>5. (stack # <<>>) \in BOOLEAN
  OBVIOUS
<1>6. b \in Byte
  BY <1>4, <1>5, EmittedByte
<1>7. out' \in Seq(Byte) /\ Len(out') = 1 /\ out'[1] = b
  <2>1. Len(out) = 0 /\ out \in Seq(Byte)
    BY <1>2 DEF SerType
  <2> HIDE DEF b
  <2> QED BY <1>1, <1>6, <2>1, AppendFacts
<1>8. Len(stack) \in Nat /\ (stack = <<>> <=> Len(stack) = 0) /\ Len(trail) \in Nat
  BY DEF SerType
<1>9. SerType'
  <2>1. serState' \in {"done", "emit"}
    BY <1>1
  <2> QED BY <1>1, <1>7, <2>1 DEF SerType
<1>10. b = OutByte(1)
  <2>1. (stack # <<>>) = (1 < Len(trail))
    BY <1>2, <1>8
  <2> QED BY <2>1 DEF OutByte
<1>11. OutByte(1)' = OutByte(1)
  BY <1>1 DEF OutByte
<1>12. \A j \in 1 .. Len(out') : out'[j] = OutByte(j)'
  <2> SUFFICES ASSUME NEW j \in 1 .. Len(out') PROVE out'[j] = OutByte(j)'
    OBVIOUS
  <2>1. j = 1
    BY <1>7
  <2> QED BY <2>1, <1>7, <1>10, <1>11
<1> HIDE DEF b, low
<1>13. Len(stack') + Len(out') = Len(trail') /\ Len(out') >= 1
  BY <1>1, <1>2, <1>7, <1>8
<1>14. /\ serState' = "emit" => Len(stack') >= 1
       /\ serState' = "done" => Len(stack') = 0
       /\ serState' \in {"emit", "done"}
  BY <1>1, <1>8
<1> QED BY <1>1, <1>3, <1>9, <1>12, <1>13, <1>14 DEF SerInv

LEMMA EmitNextSer ==
  ASSUME CallType, SerType, SerInv, EmitNext, UNCHANGED ty, UNCHANGED input
  PROVE  SerType' /\ SerInv'
<1> DEFINE k == Len(stack)
           b == [more |-> k > 1, low |-> stack[k]]
<1>1. /\ serState = "emit"
      /\ stack' = SubSeq(stack, 1, k - 1)
      /\ out' = Append(out, b)
      /\ serState' = (IF k > 1 THEN "emit" ELSE "done")
      /\ sign' = sign /\ rest' = rest /\ trail' = trail
  BY DEF EmitNext
<1>2. /\ rest < FirstCap /\ Len(out) >= 1 /\ k + Len(out) = Len(trail)
      /\ \A j \in 1 .. Len(out) : out[j] = OutByte(j)
      /\ k >= 1 /\ \A i \in 1 .. k : stack[i] = trail[i] % Group
  BY <1>1 DEF SerInv
<1>3. Mag' = Mag /\ FirstCap' = FirstCap
  BY DEF Mag, FirstCap
<1>4. /\ stack' \in Seq(0 .. Group - 1) /\ Len(stack') = k - 1 /\ k \in Nat
      /\ \A i \in 1 .. k - 1 : stack'[i] = stack[i]
  <2>1. stack \in Seq(0 .. Group - 1)
    BY DEF SerType
  <2> QED BY <1>1, <1>2, <2>1, FrontFacts
<1>5. stack[k] \in 0 .. Group - 1 /\ (k > 1) \in BOOLEAN
  <2>1. stack \in Seq(0 .. Group - 1) /\ k \in 1 .. Len(stack)
    <3>1. stack \in Seq(0 .. Group - 1)
      BY DEF SerType
    <3>2. k \in Nat /\ k >= 1
      BY <1>2, <1>4
    <3> QED BY <3>1, <3>2
  <2>2. stack[k] \in 0 .. Group - 1
    BY <2>1, ElementFacts
  <2>3. (k > 1) \in BOOLEAN
    OBVIOUS
  <2> QED BY <2>1, <2>2, <2>3
<1>6. b \in Byte
  BY <1>5, EmittedByte
<1>7. /\ out' \in Seq(Byte) /\ Len(out') = Len(out) + 1 /\ Len(out) \in Nat
      /\ out'[Len(out) + 1] = b /\ \A i \in 1 .. Len(out) : out'[i] = out[i]
  <2> HIDE DEF b
  <2> QED BY <1>1, <1>6, AppendFacts DEF SerType
<1>8. SerType'
  <2>1. serState' \in {"done", "emit"}
    BY <1>1
  <2> QED BY <1>1, <1>4, <1>7, <2>1 DEF SerType
<1>9. Len(trail) \in Nat
  BY DEF SerType
<1>10. b = OutByte(Len(out) + 1)
  <2>1. Len(trail) + 1 - (Len(out) + 1) = k
    BY <1>2, <1>4, <1>7, <1>9
  <2>2. stack[k] = trail[k] % Group
    BY <1>2, <1>4
  <2>3. (k > 1) = (Len(out) + 1 < Len(trail))
    BY <1>2, <1>4, <1>7, <1>9
  <2>4. Len(out) + 1 # 1
    BY <1>2, <1>7
  <2> QED BY <2>1, <2>2, <2>3, <2>4 DEF OutByte
<1>11. ASSUME NEW j \in Nat PROVE OutByte(j)' = OutByte(j)
  BY <1>1 DEF OutByte
<1>12. \A j \in 1 .. Len(out') : out'[j] = OutByte(j)'
  <2> SUFFICES ASSUME NEW j \in 1 .. Len(out') PROVE out'[j] = OutByte(j)'
    OBVIOUS
  <2>1. j \in Nat
    BY <1>7
  <2>2. CASE j = Len(out) + 1
    BY <2>1, <2>2, <1>7, <1>10, <1>11
  <2>3. CASE j # Len(out) + 1
    <3>1. j \in 1 .. Len(out)
      BY <2>1, <2>3, <1>7
    <3> QED BY <2>1, <3>1, <1>2, <1>7, <1>11
  <2> QED BY <2>2, <2>3
<1>13. Len(stack') + Len(out') = Len(trail') /\ Len(out') >= 1
  <2>1. Len(trail') = Len(trail)
    BY <1>1
  <2>2. Len(stack') = k - 1 /\ Len(out') = Len(out) + 1 /\ k + Len(out) = Len(trail)
    BY <1>2, <1>4, <1>7
  <2>3. k \in Nat /\ Len(out) \in Nat
    BY <1>4, <1>7
  <2> HIDE DEF k
  <2> QED BY <2>1, <2>2, <2>3
<1>14. /\ serState' = "emit" => Len(stack') >= 1
       /\ serState' = "done" => Len(stack') = 0
       /\ serState' \in {"emit", "done"}
  BY <1>1, <1>2, <1>4
<1>15. \A i \in 1 .. Len(stack') : stack'[i] = trail'[i] % Group
  BY <1>1, <1>2, <1>4
<1> HIDE DEF b, k
<1> QED BY <1>1, <1>2, <1>3, <1>8, <1>12, <1>13, <1>14, <1>15 DEF SerInv

\* A cast to a usize of 64 bits keeps every value.
LEMMA AsUsizeKeeps ==
  ASSUME UsizeMax = UMax, NEW v \in 0 .. UMax
  PROVE  AsUsize(v) = v
BY WidthIsGroups DEF AsUsize

LEMMA SerializeSer ==
  ASSUME UsizeMax = UMax, CallType, SerType, SerInv, SerNext,
         UNCHANGED ty, UNCHANGED input
  PROVE  SerType' /\ SerInv'
<1>1. CASE SerializeU64
  <2>1. serState = "call" /\ ~ty.signed /\ Begin(AsUsize(input), FALSE)
    BY <1>1 DEF SerializeU64
  <2>2. ~(input < 0) /\ Mag = input /\ input \in 0 .. UMax
    BY <2>1, ValueFacts DEF Mag
  <2>3. AsUsize(input) = Mag /\ (input < 0) = FALSE
    BY <2>2, AsUsizeKeeps
  <2> QED BY <2>1, <2>3, BeginSer
<1>2. CASE SerializeI64
  <2>1. serState = "call" /\ Begin(Mag, input < 0)
    BY <1>2 DEF SerializeI64, Mag
  <2> QED BY <2>1, BeginSer
<1>3. CASE NegationPanics
  <2>1. /\ serState = "call" /\ serState' = "panic" /\ sign' = sign
        /\ rest' = rest /\ stack' = stack /\ out' = out /\ trail' = trail
    BY <1>3 DEF NegationPanics
  <2>2. stack = <<>> /\ out = <<>>
    BY <2>1 DEF SerInv
  <2>3. Len(stack') = 0
    BY <2>1, <2>2
  <2> QED BY <2>1, <2>2, <2>3 DEF SerType, SerInv
<1> QED BY <1>1, <1>2, <1>3, PushSer, EmitFirstSer, EmitNextSer DEF SerNext

LEMMA InitSer ==
  ASSUME SerInit
  PROVE  SerType /\ SerInv
<1>1. /\ serState = "call" /\ sign = FALSE /\ rest = 0 /\ stack = <<>>
      /\ out = <<>> /\ trail = <<>>
  BY DEF SerInit
<1>2. Len(stack) = 0
  BY <1>1
<1>3. SerType
  <2>1. rest \in 0 .. UMax
    BY <1>1, WidthIsGroups
  <2>2. stack \in Seq(0 .. Group - 1) /\ out \in Seq(Byte) /\ trail \in Seq(0 .. UMax)
    BY <1>1
  <2>3. sign \in BOOLEAN
    BY <1>1
  <2> QED BY <1>1, <2>1, <2>2, <2>3 DEF SerType
<1>4. SerInv
  BY <1>1, <1>2 DEF SerInv
<1> QED BY <1>3, <1>4

LEMMA SerStutters ==
  ASSUME CallType, SerType, SerInv,
         ty' = ty, input' = input, UNCHANGED serVars
  PROVE  CallType' /\ SerType' /\ SerInv'
<1>1. /\ serState' = serState /\ sign' = sign /\ rest' = rest /\ stack' = stack
      /\ out' = out /\ trail' = trail
  BY DEF serVars
<1>2. CallType' /\ SerType'
  BY <1>1 DEF CallType, SerType, Type, ValuesOf
<1>3. \A j : OutByte(j)' = OutByte(j)
  BY <1>1 DEF OutByte
<1> QED BY <1>1, <1>2, <1>3 DEF SerInv, Mag, FirstCap

-------------------------------------------------------------------------------
(* The bytes delivered *)

\* The reader is given what the writer left, or its first part.
Delivered ==
  /\ serState = "done"
  /\ wire \in Seq(Byte)
  /\ Len(wire) <= Len(out)
  /\ \A j \in 1 .. Len(wire) : wire[j] = out[j]

LEMMA DeliveredBytes ==
  ASSUME CallType, SerType, SerInv, Delivered
  PROVE  /\ Len(trail) \in Nat /\ Len(trail) >= 1 /\ Len(out) = Len(trail)
         /\ Len(wire) \in Nat /\ Len(wire) <= Len(trail)
         /\ \A j \in 1 .. Len(wire) : wire[j] = OutByte(j)
         /\ trail[1] = Mag /\ sign = (input < 0) /\ rest = trail[Len(trail)]
         /\ rest \in Nat /\ rest < FirstCap
         /\ \A i \in 2 .. Len(trail) : trail[i] < Mag
         /\ \A i \in 1 .. Len(trail) - 1 :
              trail[i] >= FirstCap /\ trail[i + 1] = trail[i] \div Group
         /\ \A i \in 1 .. Len(trail) : trail[i] \in Nat
<1>1. /\ serState = "done" /\ Len(wire) <= Len(out)
      /\ \A j \in 1 .. Len(wire) : wire[j] = out[j]
      /\ wire \in Seq(Byte)
  BY DEF Delivered
<1>2. /\ Len(stack) + Len(out) = Len(trail) /\ Len(stack) = 0 /\ rest < FirstCap
      /\ \A j \in 1 .. Len(out) : out[j] = OutByte(j)
      /\ Len(trail) >= 1 /\ trail[1] = Mag /\ sign = (input < 0)
      /\ rest = trail[Len(trail)]
      /\ \A i \in 2 .. Len(trail) : trail[i] < Mag
      /\ \A i \in 1 .. Len(trail) - 1 :
           trail[i] >= FirstCap /\ trail[i + 1] = trail[i] \div Group
  BY <1>1 DEF SerInv
<1>3. Len(trail) \in Nat /\ Len(out) \in Nat /\ Len(wire) \in Nat
  BY <1>1 DEF SerType
<1>4. rest \in Nat
  BY WidthIsGroups DEF SerType
<1>5. Len(out) = Len(trail)
  BY <1>2, <1>3
<1>6. \A j \in 1 .. Len(wire) : wire[j] = OutByte(j)
  <2> SUFFICES ASSUME NEW j \in 1 .. Len(wire) PROVE wire[j] = OutByte(j)
    OBVIOUS
  <2>1. j \in 1 .. Len(out)
    BY <1>1, <1>3
  <2> QED BY <1>1, <1>2, <2>1
<1>7. ASSUME NEW i \in 1 .. Len(trail) PROVE trail[i] \in Nat
  <2>1. trail \in Seq(0 .. UMax)
    BY DEF SerType
  <2>2. trail[i] \in 0 .. UMax
    BY <2>1, ElementFacts
  <2> QED BY <2>2, WidthIsGroups
<1> QED BY <1>1, <1>2, <1>3, <1>4, <1>5, <1>6, <1>7

\* The first byte gives the sign and the last element of the trail.
LEMMA FirstByte ==
  ASSUME CallType, SerType, SerInv, Delivered, Len(wire) >= 1
  PROVE  /\ wire[1].more = (1 < Len(trail))
         /\ IsNegative(wire[1]) = sign
         /\ FirstGroup(wire[1]) = trail[Len(trail)]
<1>1. wire[1] = OutByte(1)
  BY DeliveredBytes
<1>2. /\ wire[1].more = (1 < Len(trail))
      /\ wire[1].low = (IF sign THEN rest + Half ELSE rest)
  BY <1>1 DEF OutByte
<1>3. CallType /\ sign \in BOOLEAN
  BY DEF SerType
<1>4. /\ rest \in Nat /\ rest < FirstCap /\ Half \in Nat /\ FirstCap \in Nat
      /\ rest = trail[Len(trail)] /\ (ty.signed => FirstCap = Half)
  BY DeliveredBytes, WidthIsGroups, <1>3, FirstCapFacts
<1>5. sign => ty.signed
  BY DeliveredBytes, <1>3, ValueFacts
<1>6. CASE sign
  <2>1. wire[1].low = rest + Half /\ ty.signed
    BY <1>2, <1>5, <1>6
  <2>2. IsNegative(wire[1])
    BY <2>1, <1>4 DEF IsNegative
  <2>3. FirstGroup(wire[1]) = rest
    BY <2>1, <2>2, <1>4 DEF FirstGroup
  <2>4. IsNegative(wire[1]) = TRUE /\ sign = TRUE
    BY <2>1, <2>2, <1>3, <1>4, <1>6 DEF IsNegative
  <2> QED BY <1>2, <1>4, <2>3, <2>4
<1>7. CASE ~sign
  <2>1. wire[1].low = rest
    BY <1>2, <1>7
  <2>2. ~IsNegative(wire[1])
    BY <2>1, <1>4 DEF IsNegative
  <2>3. FirstGroup(wire[1]) = rest
    BY <2>1, <2>2 DEF FirstGroup
  <2>4. IsNegative(wire[1]) \in BOOLEAN
    BY <1>3, TypeFacts DEF IsNegative, CallType
  <2> QED BY <1>2, <1>3, <1>4, <1>7, <2>2, <2>3, <2>4
<1> QED BY <1>6, <1>7

\* The bytes spell the trail backwards.
LEMMA DeliveredSpells ==
  ASSUME CallType, SerType, SerInv, Delivered
  PROVE  \A j \in 1 .. Len(wire) :
           /\ Spelled[j] = trail[Len(trail) + 1 - j]
           /\ wire[j].more = (j < Len(trail))
<1> DEFINE n == Len(trail)
           f == [j \in 1 .. n |-> trail[n + 1 - j]]
<1>1. /\ n \in Nat /\ n >= 1 /\ Len(wire) \in Nat /\ Len(wire) <= n
      /\ \A j \in 1 .. Len(wire) : wire[j] = OutByte(j)
      /\ \A i \in 1 .. n - 1 : trail[i + 1] = trail[i] \div Group
      /\ \A i \in 1 .. n : trail[i] \in Nat
  BY DeliveredBytes
<1>2. \A j \in 1 .. n : f[j] = trail[n + 1 - j]
  OBVIOUS
<1> HIDE DEF f, n
<1>3. ASSUME NEW j \in 1 .. Len(wire) PROVE wire[j].more = (j < Len(trail))
  <2>1. wire[j] = OutByte(j)
    BY <1>1
  <2> QED BY <2>1 DEF OutByte
<1>4. ASSUME NEW j \in 1 .. Len(wire) PROVE Spelled[j] = trail[n + 1 - j]
  <2>1. ty \in Type /\ wire \in Seq(Byte) /\ Len(wire) >= 1
    BY <1>1 DEF CallType, Delivered
  <2>2. f[1] = FirstGroup(wire[1])
    <3>1. f[1] = trail[n]
      BY <1>1, <1>2
    <3> QED BY <2>1, <3>1, FirstByte DEF n
  <2>3. ASSUME NEW k \in 1 .. Len(wire) - 1
        PROVE  f[k + 1] = f[k] * Group + wire[k + 1].low
    <3> DEFINE i == n - k
    <3>1. /\ i \in 1 .. n - 1 /\ n + 1 - (k + 1) = i /\ n + 1 - k = i + 1
          /\ k + 1 \in 1 .. n /\ k \in 1 .. n /\ k + 1 \in 1 .. Len(wire)
          /\ k + 1 # 1 /\ i \in 1 .. n
      BY <1>1
    <3> HIDE DEF i
    <3>2. f[k + 1] = trail[i] /\ f[k] = trail[i] \div Group
      BY <1>1, <1>2, <3>1
    <3>3. wire[k + 1].low = trail[i] % Group
      <4>1. wire[k + 1] = OutByte(k + 1) /\ Len(trail) + 1 - (k + 1) = i
        BY <1>1, <3>1 DEF n
      <4> QED BY <3>1, <4>1 DEF OutByte
    <3>4. trail[i] = (trail[i] \div Group) * Group + (trail[i] % Group)
      BY <1>1, <3>1, WidthIsGroups, DivFacts, ZenonT(30)
    <3> QED BY <3>2, <3>3, <3>4
  <2>4. Len(wire) \in 1 .. Len(wire)
    BY <1>1, <2>1
  <2>5. f[j] = Spelled[j]
    BY <2>1, <2>2, <2>3, <2>4, SpelledUnique
  <2>6. j \in 1 .. n
    BY <1>1
  <2> QED BY <1>2, <2>5, <2>6
<1> QED BY <1>3, <1>4 DEF n

\* No prefix of the bytes spells more than the magnitude, and only all of them
\* are a finished integer.
LEMMA DeliveredPrefix ==
  ASSUME CallType, SerType, SerInv, Delivered, NEW j \in 1 .. Len(wire)
  PROVE  /\ Spelled[j] \in Nat /\ Spelled[j] <= Mag /\ Mag \in Nat
         /\ j < Len(out) => wire[j].more /\ Spelled[j] < Mag
         /\ j = Len(out) => ~wire[j].more /\ Spelled[j] = Mag
         /\ IsNegative(wire[1]) = (input < 0)
<1>1. /\ Len(trail) \in Nat /\ Len(trail) >= 1 /\ Len(out) = Len(trail)
      /\ Len(wire) \in Nat /\ Len(wire) <= Len(trail)
      /\ trail[1] = Mag /\ sign = (input < 0)
      /\ \A i \in 2 .. Len(trail) : trail[i] < Mag
      /\ \A i \in 1 .. Len(trail) : trail[i] \in Nat
  BY DeliveredBytes
<1>2. Spelled[j] = trail[Len(trail) + 1 - j] /\ wire[j].more = (j < Len(trail))
  BY DeliveredSpells
<1>3. IsNegative(wire[1]) = (input < 0)
  <2>1. Len(wire) >= 1
    BY <1>1
  <2> QED BY <1>1, <2>1, FirstByte
<1>4. Mag \in Nat
  BY <1>1
<1>5. CASE j = Len(trail)
  <2>1. Len(trail) + 1 - j = 1 /\ ~(j < Len(trail))
    BY <1>1, <1>5
  <2>2. ~wire[j].more
    BY <1>2, <2>1, Zenon
  <2>3. Spelled[j] = Mag
    BY <1>1, <1>2, <2>1
  <2> QED BY <1>1, <1>3, <1>4, <1>5, <2>2, <2>3
<1>6. CASE j # Len(trail)
  <2>1. Len(trail) + 1 - j \in 2 .. Len(trail) /\ Len(trail) + 1 - j \in 1 .. Len(trail)
        /\ j < Len(trail) /\ j # Len(trail)
    BY <1>1, <1>6
  <2>2. wire[j].more
    BY <1>2, <2>1, Zenon
  <2>3. Spelled[j] < Mag /\ Spelled[j] \in Nat
    BY <1>1, <1>2, <2>1
  <2> QED BY <1>1, <1>3, <1>4, <1>6, <2>2, <2>3
<1> QED BY <1>5, <1>6

\* All the bytes are parsed into the value written; a part of them is reported
\* as truncated.
LEMMA DeliveredParse ==
  ASSUME CallType, SerType, SerInv, Delivered, ParserTyped, ParserInv
  PROVE  /\ deState = "ok" =>
              Len(wire) = Len(out) /\ offset = Len(out) /\ result = input
         /\ deState = "err" =>
              Len(wire) < Len(out) /\ error = "ValueTruncated"
<1>1. /\ Len(out) \in Nat /\ Len(out) >= 1 /\ Len(wire) \in Nat
      /\ Len(wire) <= Len(out)
  BY DeliveredBytes
<1>2. offset \in Nat /\ offset <= Len(wire)
      /\ Limit = (IF negative THEN ty.max + 1 ELSE ty.max)
  BY ParserContext
<1>3. /\ input \in Int
      /\ Mag <= (IF input < 0 THEN ty.max + 1 ELSE ty.max)
      /\ input = (IF input < 0 THEN -Mag ELSE Mag)
      /\ ty.max \in Nat
  BY ValueFacts, TypeFacts DEF CallType
<1>4. offset >= 1 => /\ offset \in 1 .. Len(wire)
                     /\ negative = (input < 0)
  <2> SUFFICES ASSUME offset >= 1
               PROVE  offset \in 1 .. Len(wire) /\ negative = (input < 0)
    OBVIOUS
  <2>1. offset \in 1 .. Len(wire)
    BY <1>1, <1>2
  <2>2. negative = IsNegative(wire[1])
    BY DEF ParserInv
  <2>3. IsNegative(wire[1]) = (input < 0)
    BY <2>1, DeliveredPrefix
  <2> QED BY <2>1, <2>2, <2>3
<1>5. ASSUME deState = "ok"
      PROVE  Len(wire) = Len(out) /\ offset = Len(out) /\ result = input
  <2>1. /\ offset >= 1 /\ ~wire[offset].more
        /\ result = (IF negative THEN -Spelled[offset] ELSE Spelled[offset])
    BY <1>5 DEF ParserInv
  <2>2. offset \in 1 .. Len(wire)
    BY <1>4, <2>1
  <2>3. ~(offset < Len(out))
    BY <2>1, <2>2, DeliveredPrefix
  <2>4. offset = Len(out) /\ Len(wire) = Len(out)
    BY <1>1, <1>2, <2>3
  <2>5. Spelled[offset] = Mag
    BY <2>2, <2>4, DeliveredPrefix
  <2> QED BY <1>3, <1>4, <2>1, <2>4, <2>5
<1>6. ASSUME deState = "err"
      PROVE  Len(wire) < Len(out) /\ error = "ValueTruncated"
  <2>1. error \in {"ValueTruncated", "IntegerOverflow"}
    BY <1>6 DEF ParserTyped, ParserInv
  <2>2. error # "IntegerOverflow"
    <3> SUFFICES ASSUME error = "IntegerOverflow" PROVE FALSE
      OBVIOUS
    <3>1. /\ offset >= 1
          /\ \/ Spelled[offset] > Limit
             \/ Spelled[offset] = Limit /\ negative /\ wire[offset].more
      BY DEF ParserInv
    <3>2. offset \in 1 .. Len(wire) /\ negative = (input < 0)
      BY <1>4, <3>1
    <3>3. /\ Spelled[offset] \in Nat /\ Spelled[offset] <= Mag /\ Mag \in Nat
          /\ offset < Len(out) => Spelled[offset] < Mag
          /\ offset = Len(out) => ~wire[offset].more
      BY <3>2, DeliveredPrefix
    <3>4. Mag <= Limit /\ Limit \in Nat
      <4>1. CASE input < 0
        <5>1. negative
          BY <3>2, <4>1, Zenon
        <5> QED BY <1>2, <1>3, <4>1, <5>1
      <4>2. CASE ~(input < 0)
        <5>1. ~negative
          BY <3>2, <4>2, Zenon
        <5> QED BY <1>2, <1>3, <4>2, <5>1
      <4> QED BY <4>1, <4>2
    <3>5. Spelled[offset] = Limit /\ wire[offset].more
      BY <3>1, <3>3, <3>4
    <3>6. ~(offset < Len(out)) /\ offset # Len(out)
      BY <3>3, <3>4, <3>5
    <3> QED BY <1>1, <1>2, <3>6
  <2>3. error = "ValueTruncated"
    BY <2>1, <2>2
  <2>4. \A k \in 1 .. Len(wire) : wire[k].more
    BY <2>3 DEF ParserInv, Unfinished
  <2>5. Len(wire) # Len(out)
    <3> SUFFICES ASSUME Len(wire) = Len(out) PROVE FALSE
      OBVIOUS
    <3>1. Len(wire) \in 1 .. Len(wire)
      BY <1>1
    <3> QED BY <2>4, <3>1, DeliveredPrefix
  <2> QED BY <1>1, <2>3, <2>5
<1> QED BY <1>5, <1>6

===============================================================================
