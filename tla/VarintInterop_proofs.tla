-------------------------- MODULE VarintInterop_proofs --------------------------
(***************************************************************************)
(* Proof that the two implementations write the same bytes, read each      *)
(* other's, and agree on every slice, for every radix and set of widths,   *)
(* every int and every uint64_t.                                           *)
(***************************************************************************)
EXTENDS VarintInterop, RustVarint_proofs

-------------------------------------------------------------------------------
(* Arithmetic modulo the width of a type *)

Width == IF ty.signed THEN 2 * (ty.max + 1) ELSE ty.max + 1

Congruent(a, b) == \E q \in Int : a = b + q * Width

LEMMA Distribute ==
  ASSUME NEW a \in Int, NEW b \in Int, NEW w \in Int
  PROVE  /\ (a + b) * w = a * w + b * w
         /\ (a - b) * w = a * w - b * w
         /\ (-a) * w = -(a * w)
         /\ a * w \in Int
OBVIOUS

LEMMA Regroup ==
  ASSUME NEW a \in Int, NEW b \in Int, NEW w \in Int
  PROVE  (a * b) * w = (a * w) * b
OBVIOUS

LEMMA SmallMultiple ==
  ASSUME NEW q \in Int, NEW w \in Nat, q * w < w, q * w > -w
  PROVE  q = 0
<1>1. q >= 1 => q * w >= w
  OBVIOUS
<1>2. q <= -1 => q * w <= -w
  OBVIOUS
<1> QED BY <1>1, <1>2

LEMMA ModFacts ==
  ASSUME NEW n \in Int, NEW w \in Nat, w >= 1
  PROVE  /\ n % w \in 0 .. w - 1 /\ n \div w \in Int
         /\ n = (n \div w) * w + (n % w)
OBVIOUS

LEMMA MultipleMod ==
  ASSUME NEW q \in Int, NEW w \in Nat, w >= 1
  PROVE  (q * w) % w = 0
<1> DEFINE n == q * w
           d == n \div w
           r == n % w
<1>1. n \in Int
  OBVIOUS
<1>2. r \in 0 .. w - 1 /\ d \in Int /\ n = d * w + r
  BY <1>1, ModFacts
<1>3. n = q * w
  OBVIOUS
<1> HIDE DEF n, d, r
<1>4. (q - d) * w = r
  BY <1>2, <1>3, Distribute
<1>5. q - d = 0
  <2>1. q - d \in Int /\ r < w /\ r > -w
    BY <1>2
  <2> QED BY <1>4, <2>1, SmallMultiple
<1>6. r = 0
  BY <1>4, <1>5, <1>2
<1> QED BY <1>6 DEF r, n

LEMMA WidthFacts ==
  ASSUME ty \in Type
  PROVE  /\ Width \in Nat /\ Width >= 1 /\ ValuesOf(ty) \subseteq Int
         /\ 0 \in ValuesOf(ty)
         /\ \A a, b \in ValuesOf(ty) : a - b < Width /\ a - b > -Width
<1>1. ty.max \in Nat /\ ty.signed \in BOOLEAN
  BY TypeFacts
<1> QED BY <1>1 DEF Width, ValuesOf

LEMMA CongruentFacts ==
  ASSUME ty \in Type, NEW a \in Int, NEW b \in Int
  PROVE  /\ Congruent(a, a)
         /\ Congruent(a, b) => (a - b) % Width = 0
         /\ a \in ValuesOf(ty) /\ b \in ValuesOf(ty) /\ Congruent(a, b) => a = b
<1>1. Width \in Nat /\ Width >= 1 /\ Width \in Int
  BY WidthFacts
<1>2. Congruent(a, a)
  <2>1. 0 \in Int /\ a = a + 0 * Width
    BY <1>1
  <2> QED BY <2>1 DEF Congruent
<1>3. ASSUME Congruent(a, b)
      PROVE  /\ (a - b) % Width = 0
             /\ a \in ValuesOf(ty) /\ b \in ValuesOf(ty) => a = b
  <2>1. PICK q \in Int : a = b + q * Width
    BY <1>3 DEF Congruent
  <2>2. q * Width \in Int
    BY <1>1
  <2>3. a - b = q * Width
    BY <2>1, <2>2
  <2>4. (q * Width) % Width = 0
    BY <1>1, MultipleMod
  <2>5. ASSUME a \in ValuesOf(ty), b \in ValuesOf(ty) PROVE a = b
    <3>1. q * Width < Width /\ q * Width > -Width
      BY <2>3, <2>5, WidthFacts
    <3>2. q = 0
      BY <1>1, <3>1, SmallMultiple
    <3> QED BY <1>1, <2>1, <3>2
  <2> QED BY <2>3, <2>4, <2>5
<1> QED BY <1>2, <1>3

LEMMA CongruentSums ==
  ASSUME ty \in Type, NEW a \in Int, NEW b \in Int, Congruent(a, b)
  PROVE  /\ Congruent(-a, -b)
         /\ \A g, l \in Int : Congruent(a * g + l, b * g + l)
         /\ \A c \in Int : Congruent(b, c) => Congruent(a, c)
<1>1. Width \in Int
  BY WidthFacts
<1>2. PICK q \in Int : a = b + q * Width
  BY DEF Congruent
<1>3. q * Width \in Int
  BY <1>1
<1>4. Congruent(-a, -b)
  <2>1. -q \in Int /\ (-q) * Width = -(q * Width)
    BY <1>1, Distribute
  <2>2. -a = -b + (-q) * Width
    BY <1>2, <1>3, <2>1
  <2> QED BY <2>1, <2>2 DEF Congruent
<1>5. ASSUME NEW g \in Int, NEW l \in Int PROVE Congruent(a * g + l, b * g + l)
  <2>1. a * g = b * g + (q * Width) * g
    BY <1>2, <1>3, Distribute
  <2>2. (q * g) * Width = (q * Width) * g /\ q * g \in Int
    BY <1>1, Regroup
  <2>3. b * g \in Int /\ (q * g) * Width \in Int
    BY <1>1, <2>2
  <2> DEFINE A == a * g
             B == b * g
             C == (q * g) * Width
  <2>4. A = B + C /\ B \in Int /\ C \in Int
    BY <2>1, <2>2, <2>3
  <2> HIDE DEF A, B, C
  <2>5. A + l = (B + l) + C
    BY <2>4
  <2> QED BY <2>2, <2>5 DEF Congruent, A, B, C
<1>6. ASSUME NEW c \in Int, Congruent(b, c) PROVE Congruent(a, c)
  <2>1. PICK p \in Int : b = c + p * Width
    BY <1>6 DEF Congruent
  <2>2. (p + q) * Width = p * Width + q * Width /\ p + q \in Int /\ p * Width \in Int
    BY <1>1, Distribute
  <2>3. a = c + (p + q) * Width
    BY <1>2, <1>3, <2>1, <2>2
  <2> QED BY <2>2, <2>3 DEF Congruent
<1> QED BY <1>4, <1>5, <1>6

\* The members' arithmetic stays in their type and drops whole widths.
LEMMA WrapFacts ==
  ASSUME ty \in Type, NEW n \in Int
  PROVE  Wrap(n) \in ValuesOf(ty) /\ Wrap(n) \in Int /\ Congruent(n, Wrap(n))
<1>1. Width \in Nat /\ Width >= 1 /\ ty.max \in Nat /\ ty.signed \in BOOLEAN
  BY WidthFacts, TypeFacts
<1>2. CASE ty.signed
  <2> DEFINE m == n + ty.max + 1
             d == m \div Width
             r == m % Width
  <2>1. m \in Int /\ Width = 2 * (ty.max + 1)
    BY <1>1, <1>2 DEF Width
  <2>2. r \in 0 .. Width - 1 /\ d \in Int /\ m = d * Width + r
    BY <1>1, <2>1, ModFacts
  <2>3. Wrap(n) = r - (ty.max + 1) /\ n = m - (ty.max + 1)
    BY <1>1, <1>2, <2>1 DEF Wrap
  <2> HIDE DEF m, d, r
  <2>4. Wrap(n) \in ValuesOf(ty) /\ Wrap(n) \in Int
    BY <1>1, <1>2, <2>1, <2>2, <2>3 DEF ValuesOf
  <2>5. d * Width \in Int
    BY <1>1, <2>2
  <2>6. n = Wrap(n) + d * Width
    BY <1>1, <2>1, <2>2, <2>3, <2>5
  <2> QED BY <2>2, <2>4, <2>6 DEF Congruent
<1>3. CASE ~ty.signed
  <2> DEFINE d == n \div Width
             r == n % Width
  <2>1. Width = ty.max + 1
    BY <1>3 DEF Width
  <2>2. r \in 0 .. Width - 1 /\ d \in Int /\ n = d * Width + r
    BY <1>1, ModFacts
  <2>3. Wrap(n) = r
    BY <1>3, <2>1 DEF Wrap
  <2> HIDE DEF d, r
  <2>4. Wrap(n) \in ValuesOf(ty) /\ Wrap(n) \in Int
    BY <1>1, <1>3, <2>1, <2>2, <2>3 DEF ValuesOf
  <2>5. d * Width \in Int
    BY <1>1, <2>2
  <2>6. n = Wrap(n) + d * Width
    BY <2>2, <2>3, <2>4, <2>5
  <2> QED BY <2>2, <2>4, <2>6 DEF Congruent
<1> QED BY <1>1, <1>2, <1>3

-------------------------------------------------------------------------------
(* The C++ reader on any slice *)

CppReadTyped ==
  /\ crState \in {"first", "loop", "true", "false"}
  /\ position \in 0 .. Len(wire)
  /\ crMore \in BOOLEAN
  /\ crNegative \in BOOLEAN
  /\ value_ \in ValuesOf(ty)

\* The number the first n bytes denote, without any width.
Denoted(n) == IF IsNegative(wire[1]) THEN -Spelled[n] ELSE Spelled[n]

\* The member is what the bytes taken spell, up to whole widths; it stops at
\* the first byte without a continuation bit or at the end.
CppReadInv ==
  /\ crState = "first" => position = 0 /\ value_ = 0
  /\ crState \in {"loop", "true"} =>
       /\ position >= 1 /\ crNegative = IsNegative(wire[1])
       /\ Unfinished(position - 1)
  /\ crState = "loop" =>
       crMore = wire[position].more /\ Congruent(Spelled[position], value_)
  /\ crState = "true" =>
       ~wire[position].more /\ Congruent(Denoted(position), value_)
  /\ crState = "false" => position = Len(wire) /\ Unfinished(position)

CppReadInit ==
  crState = "first" /\ position = 0 /\ crMore = TRUE /\ crNegative = FALSE
  /\ value_ = 0

LEMMA CppReadInitially ==
  ASSUME ty \in Type, wire \in Seq(Byte), CppReadInit
  PROVE  CppReadTyped /\ CppReadInv
<1>1. /\ crState = "first" /\ position = 0 /\ crMore = TRUE
      /\ crNegative = FALSE /\ value_ = 0
  BY DEF CppReadInit
<1>2. position \in 0 .. Len(wire) /\ value_ \in ValuesOf(ty)
  BY <1>1, WidthFacts
<1> QED BY <1>1, <1>2 DEF CppReadTyped, CppReadInv

LEMMA CppReadBegins ==
  (ty \in Type /\ wire \in Seq(Byte) /\ CppReadInit)'
    => (CppReadTyped /\ CppReadInv)'
<1>1. ty \in Type /\ wire \in Seq(Byte) /\ CppReadInit
        => CppReadTyped /\ CppReadInv
  BY CppReadInitially
<1> QED BY <1>1, PTL

\* What is about the slice alone keeps while the reader moves.
LEMMA SliceKeeps ==
  ASSUME ty' = ty, wire' = wire
  PROVE  /\ Spelled' = Spelled /\ Width' = Width /\ Type' = Type
         /\ ValuesOf(ty)' = ValuesOf(ty)
         /\ IsNegative(wire[1])' = IsNegative(wire[1])
BY DEF Spelled, SpellNext, FirstGroup, IsNegative, Width, Type, ValuesOf

LEMMA CppReadStutters ==
  ASSUME CppReadTyped, CppReadInv, ty' = ty, wire' = wire, UNCHANGED crVars
  PROVE  CppReadTyped' /\ CppReadInv'
<1>1. /\ crState' = crState /\ position' = position /\ crMore' = crMore
      /\ crNegative' = crNegative /\ value_' = value_
  BY DEF crVars
<1>2. /\ Spelled' = Spelled /\ Width' = Width /\ ValuesOf(ty)' = ValuesOf(ty)
      /\ IsNegative(wire[1])' = IsNegative(wire[1])
  BY SliceKeeps
<1>3. CppReadTyped'
  BY <1>1, <1>2 DEF CppReadTyped
<1>4. Congruent(Spelled[position], value_)' = Congruent(Spelled[position], value_)
  BY <1>1, <1>2 DEF Congruent
<1>5. Congruent(Denoted(position), value_)' = Congruent(Denoted(position), value_)
  BY <1>1, <1>2 DEF Congruent, Denoted
<1>6. CppReadInv'
  BY <1>1, <1>2, <1>4, <1>5 DEF CppReadInv, Unfinished
<1> QED BY <1>3, <1>6

LEMMA CppFirstStep ==
  ASSUME ty \in Type, wire \in Seq(Byte), CppReadTyped, CppReadInv,
         CppReadFirst, ty' = ty, wire' = wire
  PROVE  CppReadTyped' /\ CppReadInv'
<1> DEFINE b == wire[1]
<1>1. /\ crState = "first" /\ crState' = "loop" /\ position = 0
      /\ position' = 1 /\ Len(wire) >= 1 /\ Len(wire) \in Nat
      /\ crMore' = b.more /\ crNegative' = IsNegative(b)
      /\ value_' = FirstGroup(b)
  BY DEF CppReadFirst, CppReadInv
<1>2. b \in Byte /\ position' \in 0 .. Len(wire)
  <2>1. 1 \in 1 .. Len(wire)
    BY <1>1
  <2> QED BY <1>1, <2>1, ElementFacts
<1> HIDE DEF b
<1>3. /\ FirstGroup(b) \in 0 .. FirstCap - 1 /\ b.more \in BOOLEAN
      /\ IsNegative(b) \in BOOLEAN
  BY <1>2, FirstGroupFacts
<1>4. FirstGroup(b) \in Int /\ FirstGroup(b) \in ValuesOf(ty)
  <2>1. /\ FirstCap \in Nat /\ FirstCap - 1 <= ty.max /\ ty.max \in Nat
        /\ ty.signed \in BOOLEAN
    BY TypeFacts
  <2> QED BY <1>3, <2>1 DEF ValuesOf
<1>5. /\ Spelled' = Spelled /\ Width' = Width /\ ValuesOf(ty)' = ValuesOf(ty)
      /\ IsNegative(wire[1])' = IsNegative(wire[1])
  BY SliceKeeps
<1>6. CppReadTyped'
  BY <1>1, <1>2, <1>3, <1>4, <1>5 DEF CppReadTyped
<1>7. Spelled[1] = FirstGroup(b)
  BY <1>1, SpelledFacts DEF b
<1>8. Congruent(Spelled[1], value_')
  BY <1>1, <1>4, <1>7, CongruentFacts
<1>9. Congruent(Spelled[position], value_)'
  BY <1>1, <1>5, <1>8 DEF Congruent
<1>10. Unfinished(position - 1)'
  BY <1>1 DEF Unfinished
<1>11. crMore' = wire'[position'].more /\ crNegative' = IsNegative(wire[1])'
  BY <1>1, <1>5 DEF b
<1> QED BY <1>1, <1>6, <1>9, <1>10, <1>11 DEF CppReadInv

LEMMA CppNextStep ==
  ASSUME ty \in Type, wire \in Seq(Byte), CppReadTyped, CppReadInv,
         CppReadNext, ty' = ty, wire' = wire
  PROVE  CppReadTyped' /\ CppReadInv'
<1> DEFINE p == position
           b == wire[p + 1]
           s == Spelled[p]
<1>1. /\ crState = "loop" /\ crMore /\ p < Len(wire) /\ p >= 1
      /\ Len(wire) \in Nat /\ p \in Nat
      /\ crState' = "loop" /\ crNegative' = crNegative /\ position' = p + 1
      /\ crMore' = b.more /\ value_' = Wrap(value_ * Group + b.low)
      /\ crNegative = IsNegative(wire[1]) /\ Unfinished(p - 1)
      /\ crMore = wire[p].more /\ Congruent(s, value_)
  <2>1. /\ crState = "loop" /\ crMore /\ p < Len(wire)
        /\ crState' = crState /\ crNegative' = crNegative /\ position' = p + 1
        /\ crMore' = b.more /\ value_' = Wrap(value_ * Group + b.low)
    BY Zenon DEF CppReadNext
  <2>2. /\ p >= 1 /\ crNegative = IsNegative(wire[1]) /\ Unfinished(p - 1)
        /\ crMore = wire[p].more /\ Congruent(s, value_)
    BY <2>1, Zenon DEF CppReadInv
  <2>3. Len(wire) \in Nat /\ p \in Nat
    BY DEF CppReadTyped
  <2> QED BY <2>1, <2>2, <2>3, Zenon
<1>2. /\ b \in Byte /\ p \in 1 .. Len(wire) - 1 /\ position' \in 0 .. Len(wire)
      /\ position' - 1 = p /\ position' >= 1
  <2>1. p + 1 \in 1 .. Len(wire)
    BY <1>1
  <2> QED BY <1>1, <2>1, ElementFacts
<1>3. Spelled[p + 1] = s * Group + b.low /\ s \in Int
  <2>1. Spelled[p + 1] = s * Group + b.low
    BY <1>2, SpelledFacts, Zenon
  <2>2. Spelled \in [Nat -> Nat]
    BY SpelledFacts
  <2>3. Spelled[p] \in Nat
    BY <1>1, <2>2
  <2> QED BY <2>1, <2>3
<1> HIDE DEF b, s, p
<1>4. /\ b.more \in BOOLEAN /\ b.low \in Int /\ Group \in Int
      /\ value_ \in Int /\ crNegative \in BOOLEAN
  <2>1. b.more \in BOOLEAN /\ b.low \in 0 .. Group - 1 /\ Group \in Nat
    BY <1>2, FirstGroupFacts, WidthIsGroups
  <2>2. value_ \in ValuesOf(ty) /\ ValuesOf(ty) \subseteq Int /\ crNegative \in BOOLEAN
    BY WidthFacts DEF CppReadTyped
  <2> QED BY <2>1, <2>2
<1> DEFINE m == value_ * Group + b.low
<1>5. m \in Int /\ s * Group + b.low \in Int
  BY <1>3, <1>4
<1>6. Congruent(s * Group + b.low, m)
  BY <1>1, <1>3, <1>4, CongruentSums
<1>7. Wrap(m) \in ValuesOf(ty) /\ Wrap(m) \in Int /\ Congruent(m, Wrap(m))
  BY <1>5, WrapFacts
<1>8. value_' = Wrap(m)
  BY <1>1
<1> HIDE DEF m
<1>9. Congruent(Spelled[p + 1], value_')
  BY <1>3, <1>5, <1>6, <1>7, <1>8, CongruentSums
<1>10. /\ Spelled' = Spelled /\ Width' = Width /\ ValuesOf(ty)' = ValuesOf(ty)
       /\ IsNegative(wire[1])' = IsNegative(wire[1])
  BY SliceKeeps
<1>11. CppReadTyped'
  BY <1>1, <1>2, <1>4, <1>7, <1>8, <1>10 DEF CppReadTyped
<1>12. Congruent(Spelled[position], value_)'
  BY <1>1, <1>9, <1>10 DEF Congruent
<1>13. Unfinished(position - 1)'
  <2>1. \A k \in 1 .. p : k \in 1 .. p - 1 \/ k = p
    BY <1>1
  <2>2. \A k \in 1 .. p : wire[k].more
    BY <1>1, <2>1 DEF Unfinished
  <2> QED BY <1>2, <2>2 DEF Unfinished
<1>14. crMore' = wire'[position'].more /\ crNegative' = IsNegative(wire[1])'
  BY <1>1, <1>10 DEF b
<1> QED BY <1>1, <1>2, <1>11, <1>12, <1>13, <1>14 DEF CppReadInv

LEMMA CppShortStep ==
  ASSUME ty \in Type, wire \in Seq(Byte), CppReadTyped, CppReadInv,
         CppReadShort, ty' = ty, wire' = wire
  PROVE  CppReadTyped' /\ CppReadInv'
<1>1. /\ crState' = "false" /\ position' = position /\ crMore' = crMore
      /\ crNegative' = crNegative /\ value_' = value_ /\ position = Len(wire)
      /\ crState = "first" \/ (crState = "loop" /\ crMore)
  BY DEF CppReadShort
<1>2. Unfinished(position)
  <2>1. CASE crState = "first"
    BY <2>1 DEF CppReadInv, Unfinished
  <2>2. CASE crState = "loop" /\ crMore
    <3>1. Unfinished(position - 1) /\ wire[position].more
      BY <2>2 DEF CppReadInv
    <3>2. \A k \in 1 .. position : k \in 1 .. position - 1 \/ k = position
      BY DEF CppReadTyped
    <3> QED BY <3>1, <3>2 DEF Unfinished
  <2> QED BY <1>1, <2>1, <2>2
<1>3. ValuesOf(ty)' = ValuesOf(ty)
  BY SliceKeeps
<1>4. CppReadTyped'
  BY <1>1, <1>3 DEF CppReadTyped
<1>5. Unfinished(position)'
  BY <1>1, <1>2 DEF Unfinished
<1> QED BY <1>1, <1>4, <1>5 DEF CppReadInv

LEMMA CppFinishStep ==
  ASSUME ty \in Type, wire \in Seq(Byte), CppReadTyped, CppReadInv,
         CppFinish, ty' = ty, wire' = wire
  PROVE  CppReadTyped' /\ CppReadInv'
<1> DEFINE s == Spelled[position]
<1>1. /\ crState = "loop" /\ ~crMore /\ crState' = "true"
      /\ value_' = (IF crNegative THEN Wrap(-value_) ELSE value_)
      /\ position' = position /\ crMore' = crMore /\ crNegative' = crNegative
      /\ position >= 1 /\ crNegative = IsNegative(wire[1])
      /\ Unfinished(position - 1) /\ crMore = wire[position].more
      /\ Congruent(s, value_)
  BY DEF CppFinish, CppReadInv
<1>2. value_ \in Int /\ value_ \in ValuesOf(ty) /\ position \in Nat
  BY WidthFacts DEF CppReadTyped
<1>3. s \in Int
  BY <1>2, SpelledFacts
<1>4. Denoted(position) = IF crNegative THEN -s ELSE s
  BY <1>1 DEF Denoted
<1> HIDE DEF s
<1>5. value_' \in ValuesOf(ty) /\ Congruent(Denoted(position), value_')
  <2>1. CASE crNegative
    <3>1. -s \in Int /\ -value_ \in Int /\ Congruent(-s, -value_)
      BY <1>1, <1>2, <1>3, CongruentSums
    <3>2. /\ Wrap(-value_) \in ValuesOf(ty) /\ Wrap(-value_) \in Int
          /\ Congruent(-value_, Wrap(-value_))
      BY <3>1, WrapFacts
    <3>3. Congruent(-s, Wrap(-value_))
      BY <3>1, <3>2, CongruentSums
    <3> QED BY <1>1, <1>4, <2>1, <3>2, <3>3
  <2>2. CASE ~crNegative
    BY <1>1, <1>2, <1>4, <2>2
  <2> QED BY <2>1, <2>2
<1>6. /\ Spelled' = Spelled /\ Width' = Width /\ ValuesOf(ty)' = ValuesOf(ty)
      /\ IsNegative(wire[1])' = IsNegative(wire[1])
  BY SliceKeeps
<1>7. CppReadTyped'
  BY <1>1, <1>5, <1>6 DEF CppReadTyped
<1>8. Congruent(Denoted(position), value_)'
  BY <1>1, <1>5, <1>6 DEF Congruent, Denoted
<1>9. Unfinished(position - 1)' /\ ~wire'[position'].more
      /\ crNegative' = IsNegative(wire[1])'
  BY <1>1, <1>6 DEF Unfinished
<1> QED BY <1>1, <1>7, <1>8, <1>9 DEF CppReadInv

LEMMA CppReaderStep ==
  ASSUME ty \in Type, wire \in Seq(Byte), CppReadTyped, CppReadInv,
         CppReaderNext, ty' = ty, wire' = wire
  PROVE  CppReadTyped' /\ CppReadInv'
BY CppFirstStep, CppNextStep, CppShortStep, CppFinishStep DEF CppReaderNext

-------------------------------------------------------------------------------
(* The C++ writer beside a Rust writer that is done *)

CppWriteTyped ==
  /\ cwState \in {"call", "split", "emit", "write", "true", "false"}
  /\ bits \in 0 .. UMax
  /\ bytes \in Seq(0 .. Group - 1)
  /\ serialization \in Seq(Byte)
  /\ file \in Seq(Byte)

\* Its stack holds the groups of Rust's last bytes, its buffer Rust's first
\* bytes, and what is left to split is on Rust's trail.
CppWriteInv ==
  /\ cwState # "call" => serState = "done"
  /\ cwState \in {"call", "split"} => serialization = <<>>
  /\ cwState \in {"call", "split", "emit", "write"} => file = <<>>
  /\ cwState = "call" => bytes = <<>>
  /\ cwState = "split" =>
       Len(bytes) < Len(out) /\ bits = trail[Len(bytes) + 1]
  /\ \A i \in 1 .. Len(bytes) : bytes[i] = out[Len(out) + 1 - i].low
  /\ \A j \in 1 .. Len(serialization) : serialization[j] = out[j]
  /\ cwState = "emit" => Len(bytes) >= 1
  /\ cwState \in {"emit", "write", "true", "false"} =>
       Len(bytes) + Len(serialization) = Len(out)
  /\ cwState \in {"write", "true", "false"} => Len(bytes) = 0
  /\ cwState \in {"true", "false"} =>
       /\ Len(file) <= Len(out)
       /\ \A j \in 1 .. Len(file) : file[j] = out[j]
       /\ cwState = "true" <=> Len(file) = Len(out)

\* What a finished Rust writer has left.
LEMMA DoneFacts ==
  ASSUME CallType, SerType, SerInv, serState = "done"
  PROVE  /\ Len(out) \in Nat /\ Len(out) >= 1 /\ out \in Seq(Byte)
         /\ trail[1] = Mag /\ Mag \in 0 .. UMax
         /\ \A i \in 1 .. Len(out) :
              trail[i] \in 0 .. UMax /\ (trail[i] < FirstCap <=> i = Len(out))
         /\ \A i \in 1 .. Len(out) - 1 :
              /\ trail[i + 1] = trail[i] \div Group
              /\ out[Len(out) + 1 - i].low = trail[i] % Group
         /\ out[1].low = (IF input < 0 THEN trail[Len(out)] + Half
                          ELSE trail[Len(out)])
         /\ \A j \in 1 .. Len(out) :
              /\ out[j] = [more |-> j < Len(out), low |-> out[j].low]
              /\ out[j].low \in 0 .. Group - 1
<1>1. /\ Len(stack) + Len(out) = Len(trail) /\ Len(stack) = 0 /\ rest < FirstCap
      /\ \A j \in 1 .. Len(out) : out[j] = OutByte(j)
      /\ Len(trail) >= 1 /\ trail[1] = Mag /\ sign = (input < 0)
      /\ rest = trail[Len(trail)]
      /\ \A i \in 1 .. Len(trail) - 1 :
           trail[i] >= FirstCap /\ trail[i + 1] = trail[i] \div Group
  BY DEF SerInv
<1>2. /\ Len(trail) \in Nat /\ Len(out) \in Nat /\ out \in Seq(Byte)
      /\ trail \in Seq(0 .. UMax)
  BY DEF SerType
<1>3. Len(out) = Len(trail)
  BY <1>1, <1>2
<1>4. Mag \in 0 .. UMax /\ UMax \in Nat /\ FirstCap \in Nat
  BY ValueFacts, FirstCapFacts, WidthIsGroups
<1>5. ASSUME NEW i \in 1 .. Len(out)
      PROVE  trail[i] \in 0 .. UMax /\ (trail[i] < FirstCap <=> i = Len(out))
  <2>1. trail[i] \in 0 .. UMax
    BY <1>2, <1>3, ElementFacts
  <2>2. CASE i = Len(out)
    BY <1>1, <1>3, <2>1, <2>2
  <2>3. CASE i # Len(out)
    <3>1. i \in 1 .. Len(trail) - 1
      BY <1>2, <1>3, <2>3
    <3>2. trail[i] >= FirstCap
      BY <1>1, <3>1
    <3> QED BY <1>4, <2>1, <2>3, <3>2
  <2> QED BY <2>2, <2>3
<1>6. ASSUME NEW i \in 1 .. Len(out) - 1
      PROVE  /\ trail[i + 1] = trail[i] \div Group
             /\ out[Len(out) + 1 - i].low = trail[i] % Group
  <2> DEFINE j == Len(out) + 1 - i
  <2>1. j \in 1 .. Len(out) /\ j # 1 /\ Len(trail) + 1 - j = i
        /\ i \in 1 .. Len(trail) - 1
    BY <1>2, <1>3
  <2> HIDE DEF j
  <2>2. out[j] = OutByte(j)
    BY <1>1, <2>1
  <2>3. out[j].low = trail[i] % Group
    BY <2>1, <2>2 DEF OutByte
  <2> QED BY <1>1, <2>1, <2>3 DEF j
<1>7. out[1].low = (IF input < 0 THEN trail[Len(out)] + Half ELSE trail[Len(out)])
  <2>1. out[1] = OutByte(1)
    BY <1>1, <1>2, <1>3
  <2>2. out[1].low = (IF sign THEN rest + Half ELSE rest)
    BY <2>1 DEF OutByte
  <2>3. rest = trail[Len(out)] /\ (sign <=> input < 0)
    BY <1>1, <1>3
  <2> QED BY <2>2, <2>3
<1>8. ASSUME NEW j \in 1 .. Len(out)
      PROVE  /\ out[j] = [more |-> j < Len(out), low |-> out[j].low]
             /\ out[j].low \in 0 .. Group - 1
  <2>1. out[j] = OutByte(j)
    BY <1>1
  <2>2. out[j] \in Byte
    BY <1>2, ElementFacts
  <2>3. out[j].low \in 0 .. Group - 1
    BY <2>2 DEF Byte
  <2>4. out[j] = [more |-> j < Len(out), low |-> out[j].low]
    BY <1>3, <2>1 DEF OutByte
  <2> QED BY <2>3, <2>4
<1> QED BY <1>1, <1>2, <1>3, <1>4, <1>5, <1>6, <1>7, <1>8

LEMMA CppWriteInitially ==
  ASSUME cwState = "call", bits = 0, bytes = <<>>, serialization = <<>>,
         file = <<>>
  PROVE  CppWriteTyped /\ CppWriteInv
<1>1. bits \in 0 .. UMax /\ Len(bytes) = 0 /\ Len(serialization) = 0
  BY WidthIsGroups
<1>2. /\ bytes \in Seq(0 .. Group - 1) /\ serialization \in Seq(Byte)
      /\ file \in Seq(Byte)
  OBVIOUS
<1>3. CppWriteTyped
  BY <1>1, <1>2 DEF CppWriteTyped
<1> QED BY <1>1, <1>3 DEF CppWriteInv

\* What the writers leave alone while the C++ writer moves.
RustDone == serState' = "done" /\ out' = out /\ trail' = trail

LEMMA CppBeginStep ==
  ASSUME CallType, SerType, SerInv, serState = "done", RustDone,
         CppWriteTyped, CppWriteInv, CppBegin
  PROVE  CppWriteTyped' /\ CppWriteInv'
<1>1. /\ cwState = "call" /\ cwState' = "split" /\ bits' = Mag
      /\ bytes' = bytes /\ serialization' = serialization /\ file' = file
  BY DEF CppBegin, Mag
<1>2. bytes = <<>> /\ serialization = <<>> /\ file = <<>>
  BY <1>1 DEF CppWriteInv
<1>3. /\ Len(out) \in Nat /\ Len(out) >= 1 /\ trail[1] = Mag
      /\ Mag \in 0 .. UMax
  BY DoneFacts
<1>4. CppWriteTyped'
  BY <1>1, <1>3 DEF CppWriteTyped
<1>5. Len(bytes') = 0 /\ Len(serialization') = 0
  BY <1>1, <1>2
<1>6. Len(bytes') < Len(out') /\ bits' = trail'[Len(bytes') + 1]
  BY <1>1, <1>3, <1>5 DEF RustDone
<1> QED BY <1>1, <1>2, <1>4, <1>5, <1>6 DEF CppWriteInv, RustDone

\* One more group on the stack, of the right byte; more are to come, or none.
LEMMA CppPushed ==
  ASSUME CallType, SerType, SerInv, serState = "done", RustDone,
         CppWriteTyped, CppWriteInv, cwState = "split",
         NEW g \in 0 .. Group - 1, g = out[Len(out) - Len(bytes)].low,
         bytes' = Append(bytes, g), bits' \in 0 .. UMax,
         serialization' = serialization, file' = file,
         \/ /\ cwState' = "split" /\ Len(bytes) + 1 < Len(out)
            /\ bits' = trail[Len(bytes) + 2]
         \/ cwState' = "emit" /\ Len(bytes) + 1 = Len(out)
  PROVE  CppWriteTyped' /\ CppWriteInv'
<1> DEFINE k == Len(bytes)
           n == Len(out)
<1>1. k \in Nat /\ n \in Nat /\ k < n /\ serialization = <<>> /\ file = <<>>
      /\ \A i \in 1 .. k : bytes[i] = out[n + 1 - i].low
  BY DoneFacts DEF CppWriteTyped, CppWriteInv
<1>2. /\ bytes' \in Seq(0 .. Group - 1) /\ Len(bytes') = k + 1
      /\ bytes'[k + 1] = g /\ \A i \in 1 .. k : bytes'[i] = bytes[i]
  BY AppendFacts DEF CppWriteTyped
<1>3. CppWriteTyped'
  BY <1>2 DEF CppWriteTyped
<1>4. \A i \in 1 .. Len(bytes') : bytes'[i] = out'[Len(out') + 1 - i].low
  <2> SUFFICES ASSUME NEW i \in 1 .. k + 1 PROVE bytes'[i] = out[n + 1 - i].low
    BY <1>2 DEF RustDone
  <2>1. CASE i = k + 1
    <3>1. n + 1 - (k + 1) = n - k
      BY <1>1
    <3> QED BY <1>2, <2>1, <3>1
  <2>2. CASE i # k + 1
    <3>1. i \in 1 .. k
      BY <1>1, <2>2
    <3> QED BY <1>1, <1>2, <3>1
  <2> QED BY <2>1, <2>2
<1>5. Len(serialization') = 0 /\ serialization' = <<>> /\ file' = <<>>
  BY <1>1
<1>6. CASE cwState' = "split" /\ k + 1 < n /\ bits' = trail[k + 2]
  <2>1. Len(bytes') < Len(out') /\ bits' = trail'[Len(bytes') + 1]
    <3>1. (k + 1) + 1 = k + 2
      BY <1>1
    <3> QED BY <1>2, <1>6, <3>1 DEF RustDone
  <2> QED BY <1>3, <1>4, <1>5, <1>6, <2>1 DEF CppWriteInv, RustDone
<1>7. CASE cwState' = "emit" /\ k + 1 = n
  <2>1. Len(bytes') >= 1 /\ Len(bytes') + Len(serialization') = Len(out')
    BY <1>1, <1>2, <1>5, <1>7 DEF RustDone
  <2> QED BY <1>3, <1>4, <1>5, <1>7, <2>1 DEF CppWriteInv, RustDone
<1> QED BY <1>6, <1>7

LEMMA CppPushSignedStep ==
  ASSUME CallType, SerType, SerInv, serState = "done", RustDone,
         CppWriteTyped, CppWriteInv, CppPushSigned
  PROVE  CppWriteTyped' /\ CppWriteInv'
<1> DEFINE i == Len(bytes) + 1
           n == Len(out)
<1>1. /\ cwState = "split" /\ cwState' = "split" /\ ty.signed /\ bits >= Half
      /\ bytes' = Append(bytes, bits % Group) /\ bits' = bits \div Group
      /\ serialization' = serialization /\ file' = file
  BY DEF CppPushSigned
<1>2. /\ n \in Nat /\ Len(bytes) \in Nat /\ i \in 1 .. n /\ bits = trail[i]
  BY <1>1, DoneFacts DEF CppWriteInv, CppWriteTyped
<1>3. FirstCap = Half /\ FirstCap \in Nat /\ bits \in 0 .. UMax
  BY <1>1, FirstCapFacts DEF CppWriteTyped
<1>4. i # n
  BY <1>1, <1>2, <1>3, WidthIsGroups, DoneFacts
<1>5. i \in 1 .. n - 1 /\ i + 1 \in 1 .. n
      /\ n + 1 - i = n - Len(bytes) /\ i < n /\ i + 1 = Len(bytes) + 2
  BY <1>2, <1>4
<1>6. trail[i + 1] = bits \div Group /\ out[n + 1 - i].low = bits % Group
  BY <1>2, <1>5, DoneFacts
<1>7. bits' \in 0 .. UMax
  BY <1>1, <1>5, <1>6, DoneFacts
<1>8. bits % Group \in 0 .. Group - 1
  BY <1>3, WidthIsGroups, DivFacts
<1>9. /\ bits % Group = out[Len(out) - Len(bytes)].low
      /\ Len(bytes) + 1 < Len(out) /\ bits' = trail[Len(bytes) + 2]
  BY <1>1, <1>5, <1>6
<1> QED BY <1>1, <1>7, <1>8, <1>9, CppPushed

LEMMA CppPushSignStep ==
  ASSUME CallType, SerType, SerInv, serState = "done", RustDone,
         CppWriteTyped, CppWriteInv, CppPushSign
  PROVE  CppWriteTyped' /\ CppWriteInv'
<1> DEFINE i == Len(bytes) + 1
           n == Len(out)
           g == IF input < 0 THEN bits + Half ELSE bits
<1>1. /\ cwState = "split" /\ cwState' = "emit" /\ ty.signed /\ bits < Half
      /\ bytes' = Append(bytes, g) /\ bits' = bits
      /\ serialization' = serialization /\ file' = file
  BY DEF CppPushSign
<1>2. /\ n \in Nat /\ Len(bytes) \in Nat /\ i \in 1 .. n /\ bits = trail[i]
  BY <1>1, DoneFacts DEF CppWriteInv, CppWriteTyped
<1>3. FirstCap = Half /\ bits \in 0 .. UMax
  BY <1>1, FirstCapFacts DEF CppWriteTyped
<1>4. i = n /\ n - Len(bytes) = 1
  <2>1. i = n
    BY <1>1, <1>2, <1>3, DoneFacts
  <2> QED BY <1>2, <2>1
<1>5. g = out[1].low
  BY <1>2, <1>4, DoneFacts
<1>6. g \in 0 .. Group - 1
  <2>1. 1 \in 1 .. n
    BY <1>2, <1>4
  <2> QED BY <1>5, <2>1, DoneFacts
<1> HIDE DEF g
<1>7. g = out[Len(out) - Len(bytes)].low /\ Len(bytes) + 1 = Len(out)
  BY <1>4, <1>5
<1> QED BY <1>1, <1>3, <1>6, <1>7, CppPushed

LEMMA CppPushUnsignedStep ==
  ASSUME CallType, SerType, SerInv, serState = "done", RustDone,
         CppWriteTyped, CppWriteInv, CppPushUnsigned
  PROVE  CppWriteTyped' /\ CppWriteInv'
<1> DEFINE i == Len(bytes) + 1
           n == Len(out)
           q == bits \div Group
           r == bits % Group
<1>1. /\ cwState = "split" /\ ~ty.signed /\ bits' = q
      /\ cwState' = (IF q > 0 THEN "split" ELSE "emit")
      /\ bytes' = Append(bytes, r)
      /\ serialization' = serialization /\ file' = file
  BY DEF CppPushUnsigned
<1>2. /\ n \in Nat /\ Len(bytes) \in Nat /\ i \in 1 .. n /\ bits = trail[i]
  BY <1>1, DoneFacts DEF CppWriteInv, CppWriteTyped
<1>3. /\ FirstCap = Group /\ bits \in 0 .. UMax /\ bits \in Nat
      /\ Group \in Nat /\ Group >= 2 /\ UMax \in Nat
  BY <1>1, WidthIsGroups DEF FirstCap, CppWriteTyped
<1>4. q \in Nat /\ r \in 0 .. Group - 1 /\ bits = q * Group + r /\ q <= bits
  BY <1>3, DivFacts
<1>5. q \in 0 .. UMax
  BY <1>3, <1>4
<1>6. CASE i = n
  <2>1. bits < Group /\ n - Len(bytes) = 1
    BY <1>2, <1>3, <1>6, DoneFacts
  <2>2. q = 0 /\ r = bits
    <3>1. q >= 1 => q * Group >= Group
      BY <1>3, <1>4
    <3>2. q * Group \in Nat
      BY <1>3, <1>4
    <3>3. q = 0
      BY <1>3, <1>4, <2>1, <3>1, <3>2
    <3>4. 0 * Group = 0
      BY <1>3
    <3> QED BY <1>3, <1>4, <3>3, <3>4
  <2>3. ~(input < 0)
    BY <1>1, ValueFacts
  <2>4. r = out[1].low
    BY <1>2, <1>6, <2>2, <2>3, DoneFacts
  <2>5. cwState' = "emit" /\ r = out[Len(out) - Len(bytes)].low
        /\ Len(bytes) + 1 = Len(out)
    BY <1>1, <1>6, <2>1, <2>2, <2>4
  <2> HIDE DEF q, r
  <2> QED BY <1>1, <1>4, <1>5, <2>5, CppPushed
<1>7. CASE i # n
  <2>1. i \in 1 .. n - 1 /\ i + 1 \in 1 .. n
        /\ n + 1 - i = n - Len(bytes) /\ i < n /\ i + 1 = Len(bytes) + 2
    BY <1>2, <1>7
  <2>2. trail[i + 1] = q /\ out[n + 1 - i].low = r
    BY <1>2, <2>1, DoneFacts
  <2>3. bits >= Group
    BY <1>2, <1>3, <1>7, DoneFacts
  <2>4. q > 0
    <3>1. q = 0 => q * Group = 0
      BY <1>3
    <3> QED BY <1>3, <1>4, <2>3, <3>1
  <2>5. /\ cwState' = "split" /\ r = out[Len(out) - Len(bytes)].low
        /\ Len(bytes) + 1 < Len(out) /\ bits' = trail[Len(bytes) + 2]
    BY <1>1, <2>1, <2>2, <2>4
  <2> HIDE DEF q, r
  <2> QED BY <1>1, <1>4, <1>5, <2>5, CppPushed
<1> QED BY <1>6, <1>7

LEMMA CppEmitStep ==
  ASSUME CallType, SerType, SerInv, serState = "done", RustDone,
         CppWriteTyped, CppWriteInv, CppEmit
  PROVE  CppWriteTyped' /\ CppWriteInv'
<1> DEFINE k == Len(bytes)
           m == Len(serialization)
           n == Len(out)
           b == [more |-> bytes' # <<>>, low |-> bytes[k]]
<1>1. /\ cwState = "emit" /\ bytes' = SubSeq(bytes, 1, k - 1)
      /\ serialization' = Append(serialization, b)
      /\ cwState' = (IF bytes' # <<>> THEN "emit" ELSE "write")
      /\ bits' = bits /\ file' = file
  BY DEF CppEmit
<1>2. /\ k \in Nat /\ m \in Nat /\ n \in Nat /\ k >= 1 /\ k + m = n
      /\ file = <<>>
      /\ \A i \in 1 .. k : bytes[i] = out[n + 1 - i].low
      /\ \A j \in 1 .. m : serialization[j] = out[j]
  BY <1>1, DoneFacts DEF CppWriteTyped, CppWriteInv
<1>3. /\ bytes' \in Seq(0 .. Group - 1) /\ Len(bytes') = k - 1
      /\ \A i \in 1 .. k - 1 : bytes'[i] = bytes[i]
  <2>1. bytes \in Seq(0 .. Group - 1)
    BY DEF CppWriteTyped
  <2> QED BY <1>1, <1>2, <2>1, FrontFacts
<1>4. (bytes' # <<>>) = (m + 1 < n)
  <2>1. bytes' # <<>> <=> Len(bytes') # 0
    BY <1>3
  <2>2. bytes' # <<>> <=> m + 1 < n
    BY <1>2, <1>3, <2>1
  <2> QED BY <2>2
<1>5. b = out[m + 1] /\ b \in Byte
  <2>1. m + 1 \in 1 .. n /\ n + 1 - k = m + 1 /\ k \in 1 .. k
    <3>1. k \in Nat /\ m \in Nat /\ n \in Nat /\ k >= 1 /\ k + m = n
      BY <1>2
    <3> HIDE DEF k, m, n
    <3> QED BY <3>1
  <2>2. bytes[k] = out[m + 1].low
    <3>1. bytes[k] = out[n + 1 - k].low
      BY <1>2, <2>1
    <3> HIDE DEF k, m, n
    <3> QED BY <2>1, <3>1
  <2>3. out[m + 1] = [more |-> m + 1 < n, low |-> out[m + 1].low]
    BY <2>1, DoneFacts
  <2>4. b = out[m + 1]
    BY <1>4, <2>2, <2>3
  <2>5. out[m + 1] \in Byte
    BY <2>1, DoneFacts, ElementFacts
  <2> QED BY <2>4, <2>5
<1> HIDE DEF b
<1>6. /\ serialization' \in Seq(Byte) /\ Len(serialization') = m + 1
      /\ serialization'[m + 1] = b
      /\ \A j \in 1 .. m : serialization'[j] = serialization[j]
  BY <1>1, <1>5, AppendFacts DEF CppWriteTyped
<1>7. CppWriteTyped'
  BY <1>1, <1>3, <1>6 DEF CppWriteTyped
<1>8. \A i \in 1 .. Len(bytes') : bytes'[i] = out'[Len(out') + 1 - i].low
  <2> SUFFICES ASSUME NEW i \in 1 .. k - 1 PROVE bytes'[i] = out[n + 1 - i].low
    BY <1>3 DEF RustDone
  <2>1. i \in 1 .. k
    BY <1>2
  <2> QED BY <1>2, <1>3, <2>1
<1>9. \A j \in 1 .. Len(serialization') : serialization'[j] = out'[j]
  <2> SUFFICES ASSUME NEW j \in 1 .. m + 1 PROVE serialization'[j] = out[j]
    BY <1>6 DEF RustDone
  <2>1. j \in 1 .. m \/ j = m + 1
    BY <1>2
  <2> QED BY <1>2, <1>5, <1>6, <2>1
<1>10. Len(bytes') + Len(serialization') = Len(out')
  <2>1. k \in Nat /\ m \in Nat /\ k + m = n
    BY <1>2
  <2>2. /\ Len(bytes') = k - 1 /\ Len(serialization') = m + 1
        /\ Len(out') = n
    BY <1>3, <1>6 DEF RustDone
  <2> HIDE DEF k, m, n
  <2> QED BY <2>1, <2>2
<1>11. /\ cwState' = "emit" => Len(bytes') >= 1
       /\ cwState' = "write" => Len(bytes') = 0
       /\ cwState' \in {"emit", "write"}
  <2>1. bytes' # <<>> <=> Len(bytes') # 0
    BY <1>3
  <2> QED BY <1>1, <1>2, <1>3, <2>1
<1> HIDE DEF k, m, n
<1> QED BY <1>1, <1>2, <1>7, <1>8, <1>9, <1>10, <1>11 DEF CppWriteInv, RustDone

LEMMA CppWriteStep ==
  ASSUME CallType, SerType, SerInv, serState = "done", RustDone,
         CppWriteTyped, CppWriteInv, CppWrite
  PROVE  CppWriteTyped' /\ CppWriteInv'
<1>1. /\ cwState = "write" /\ bits' = bits /\ bytes' = bytes
      /\ serialization' = serialization
  BY DEF CppWrite
<1>2. PICK m \in 0 .. Len(serialization) :
        /\ file' = SubSeq(serialization, 1, m)
        /\ cwState' = IF m = Len(serialization) THEN "true" ELSE "false"
  BY DEF CppWrite
<1>3. /\ serialization \in Seq(Byte) /\ Len(serialization) \in Nat
      /\ Len(bytes) = 0 /\ Len(bytes) + Len(serialization) = Len(out)
      /\ \A j \in 1 .. Len(serialization) : serialization[j] = out[j]
  BY <1>1 DEF CppWriteTyped, CppWriteInv
<1>4. Len(serialization) = Len(out)
  BY <1>3
<1>5. /\ file' \in Seq(Byte) /\ Len(file') = m
      /\ \A j \in 1 .. m : file'[j] = serialization[j]
  BY <1>2, <1>3, PrefixFacts
<1>6. CppWriteTyped'
  BY <1>1, <1>2, <1>5 DEF CppWriteTyped
<1>7. /\ cwState' \in {"true", "false"} /\ Len(file') <= Len(out)
      /\ cwState' = "true" <=> Len(file') = Len(out)
  <2> DEFINE n == Len(serialization)
             w == Len(file')
  <2>1. n = Len(out) /\ w = m /\ m \in 0 .. n /\ n \in Nat
        /\ cwState' = IF m = n THEN "true" ELSE "false"
    BY <1>2, <1>3, <1>4, <1>5
  <2> HIDE DEF n, w
  <2>2. w <= Len(out) /\ (w = Len(out) <=> m = n)
    BY <2>1
  <2> QED BY <2>1, <2>2 DEF w
<1>8. \A j \in 1 .. Len(file') : file'[j] = out[j]
  <2> SUFFICES ASSUME NEW j \in 1 .. m PROVE file'[j] = out[j]
    BY <1>5
  <2>1. j \in 1 .. Len(serialization)
    BY <1>2, <1>3
  <2> QED BY <1>3, <1>5, <2>1
<1> QED BY <1>1, <1>3, <1>6, <1>7, <1>8 DEF CppWriteInv, RustDone

LEMMA CppWriterStep ==
  ASSUME CallType, SerType, SerInv, serState = "done", RustDone,
         CppWriteTyped, CppWriteInv, CppWriterNext
  PROVE  CppWriteTyped' /\ CppWriteInv'
BY CppBeginStep, CppPushSignedStep, CppPushSignStep, CppPushUnsignedStep,
   CppEmitStep, CppWriteStep DEF CppWriterNext

LEMMA CppWriteStutters ==
  ASSUME CppWriteTyped, CppWriteInv, UNCHANGED cwVars,
         cwState = "call" \/ RustDone
  PROVE  CppWriteTyped' /\ CppWriteInv'
<1>1. /\ cwState' = cwState /\ bits' = bits /\ bytes' = bytes
      /\ serialization' = serialization /\ file' = file
  BY DEF cwVars
<1>2. CppWriteTyped'
  BY <1>1 DEF CppWriteTyped
<1>3. CASE cwState = "call"
  <2>1. bytes = <<>> /\ serialization = <<>> /\ file = <<>>
    BY <1>3 DEF CppWriteInv
  <2>2. Len(bytes') = 0 /\ Len(serialization') = 0
    BY <1>1, <2>1
  <2> QED BY <1>1, <1>2, <1>3, <2>1, <2>2 DEF CppWriteInv
<1>4. CASE RustDone
  BY <1>1, <1>2, <1>4 DEF CppWriteInv, RustDone
<1> QED BY <1>3, <1>4

-------------------------------------------------------------------------------
(* The four codecs together *)

\* The readers are given nothing until both writers are done, and then what
\* one of them left, or bytes neither wrote.
SourceInv ==
  /\ source \in {"none", "rust", "cpp", "neither"}
  /\ source = "none" => wire = <<>> /\ DeInit /\ CppReadInit
  /\ source \in {"rust", "cpp"} =>
       /\ Delivered
       /\ cwState \in {"true", "false"}
       /\ Len(wire) = Len(out) <=> source = "rust" \/ cwState = "true"
  /\ crState # "first" => deState \in {"ok", "err"}

IInv ==
  /\ CallType /\ SerType /\ SerInv
  /\ CppWriteTyped /\ CppWriteInv
  /\ ParserTyped /\ ParserInv
  /\ CppReadTyped /\ CppReadInv
  /\ SourceInv

LEMMA InitIInv == Init => IInv
<1> SUFFICES ASSUME Init PROVE IInv
  OBVIOUS
<1>1. /\ ty \in CppTypes /\ SerInit /\ DeInit /\ CppInit
      /\ \/ input \in ValuesOf(ty) /\ wire = <<>> /\ source = "none"
         \/ input = 0 /\ wire \in Wires /\ source = "neither"
  BY DEF Init
<1>2. ty \in Type
  <2>1. IntMax \in SMaxes /\ UMax \in UMaxes
    BY IntAssumption, TypesAssumption DEF IntAssumption, TypesAssumption
  <2>2. [signed |-> TRUE, max |-> IntMax] \in [signed : {TRUE}, max : SMaxes]
    BY <2>1
  <2>3. [signed |-> FALSE, max |-> UMax] \in [signed : {FALSE}, max : UMaxes]
    BY <2>1
  <2> QED BY <1>1, <2>2, <2>3, Zenon DEF CppTypes, Type
<1>3. CallType
  BY <1>1, <1>2, WidthFacts DEF CallType
<1>4. wire \in Seq(Byte)
  <2>1. CASE wire = <<>>
    <3>1. <<>> \in Seq(Byte)
      OBVIOUS
    <3> QED BY <2>1, <3>1, Zenon
  <2>2. CASE wire \in Wires
    <3>1. PICK n \in 0 .. MaxWire : wire \in [1 .. n -> Byte]
      BY <2>2 DEF Wires
    <3>2. n \in Nat
      BY <3>1
    <3> QED BY <3>1, <3>2
  <2> QED BY <1>1, <2>1, <2>2
<1>5. /\ cwState = "call" /\ bits = 0 /\ bytes = <<>> /\ serialization = <<>>
      /\ file = <<>> /\ CppReadInit
  BY <1>1 DEF CppInit, CppReadInit
<1>6. SerType /\ SerInv
  BY <1>1, InitSer
<1>7. CppWriteTyped /\ CppWriteInv
  BY <1>5, CppWriteInitially
<1>8. ParserTyped /\ ParserInv
  BY <1>1, <1>2, <1>4, ParserInitially
<1>9. CppReadTyped /\ CppReadInv
  BY <1>2, <1>4, <1>5, CppReadInitially
<1>10. SourceInv
  BY <1>1, <1>5 DEF SourceInv, CppReadInit
<1> QED BY <1>3, <1>6, <1>7, <1>8, <1>9, <1>10 DEF IInv

\* Rust's side at rest, what the C++ writer knows of it keeps.
LEMMA RestingRust ==
  ASSUME CppWriteTyped, CppWriteInv, UNCHANGED serVars, UNCHANGED cwVars
  PROVE  CppWriteTyped' /\ CppWriteInv'
<1>1. cwState # "call" => serState = "done"
  BY DEF CppWriteInv
<1>2. serState' = serState /\ out' = out /\ trail' = trail
  BY DEF serVars
<1>3. cwState = "call" \/ RustDone
  BY <1>1, <1>2 DEF RustDone
<1> QED BY <1>3, CppWriteStutters

LEMMA RustWritesStep ==
  ASSUME UsizeMax = UMax, IInv, RustWrites
  PROVE  IInv'
<1>1. /\ SerNext /\ ty' = ty /\ input' = input /\ wire' = wire
      /\ source = "none" /\ source' = source
      /\ UNCHANGED deVars /\ UNCHANGED cwVars /\ UNCHANGED crVars
  BY DEF RustWrites, cppVars
<1>2. serState # "done"
  BY <1>1 DEF SerNext, SerializeU64, SerializeI64, NegationPanics, PushGroup,
              EmitFirst, EmitNext
<1>3. CallType' /\ SerType' /\ SerInv'
  <2>1. SerType' /\ SerInv'
    BY <1>1, SerializeSer DEF IInv
  <2> QED BY <1>1, <2>1 DEF IInv, CallType, Type, ValuesOf
<1>4. cwState = "call"
  BY <1>2 DEF IInv, CppWriteInv, CppWriteTyped
<1>5. CppWriteTyped' /\ CppWriteInv'
  BY <1>1, <1>4, CppWriteStutters DEF IInv
<1>6. ParserTyped' /\ ParserInv'
  BY <1>1, ParserStutters DEF IInv
<1>7. CppReadTyped' /\ CppReadInv'
  BY <1>1, CppReadStutters DEF IInv
<1>8. SourceInv'
  <2>1. wire = <<>> /\ DeInit /\ CppReadInit
    BY <1>1 DEF IInv, SourceInv
  <2>2. wire' = <<>> /\ DeInit' /\ CppReadInit'
    BY <1>1, <2>1 DEF DeInit, deVars, CppReadInit, crVars
  <2> QED BY <1>1, <2>2 DEF SourceInv, CppReadInit
<1> QED BY <1>3, <1>5, <1>6, <1>7, <1>8 DEF IInv

LEMMA CppWritesStep ==
  ASSUME IInv, CppWrites
  PROVE  IInv'
<1>1. /\ CppWriterNext /\ ty' = ty /\ input' = input /\ wire' = wire
      /\ source = "none" /\ source' = source /\ serState = "done"
      /\ UNCHANGED serVars /\ UNCHANGED deVars /\ UNCHANGED crVars
  BY DEF CppWrites, rustVars
<1>2. CallType' /\ SerType' /\ SerInv'
  BY <1>1, SerStutters DEF IInv
<1>3. RustDone
  BY <1>1 DEF RustDone, serVars
<1>4. CppWriteTyped' /\ CppWriteInv'
  BY <1>1, <1>3, CppWriterStep DEF IInv
<1>5. ParserTyped' /\ ParserInv'
  BY <1>1, ParserStutters DEF IInv
<1>6. CppReadTyped' /\ CppReadInv'
  BY <1>1, CppReadStutters DEF IInv
<1>7. SourceInv'
  <2>1. wire = <<>> /\ DeInit /\ CppReadInit
    BY <1>1 DEF IInv, SourceInv
  <2>2. wire' = <<>> /\ DeInit' /\ CppReadInit'
    BY <1>1, <2>1 DEF DeInit, deVars, CppReadInit, crVars
  <2> QED BY <1>1, <2>2 DEF SourceInv, CppReadInit
<1> QED BY <1>2, <1>4, <1>5, <1>6, <1>7 DEF IInv

LEMMA ToBothStep ==
  ASSUME IInv, RustToBoth \/ CppToBoth
  PROVE  IInv'
<1>1. /\ ty' = ty /\ input' = input /\ source = "none"
      /\ source' \in {"rust", "cpp"} /\ cwState \in {"true", "false"}
      /\ wire' = IF source' = "rust" THEN out ELSE file
      /\ UNCHANGED serVars /\ UNCHANGED deVars
      /\ UNCHANGED cwVars /\ UNCHANGED crVars
  BY DEF RustToBoth, CppToBoth, rustVars, cppVars
<1>2. CallType' /\ SerType' /\ SerInv'
  BY <1>1, SerStutters DEF IInv
<1>3. CppWriteTyped' /\ CppWriteInv'
  BY <1>1, RestingRust DEF IInv
<1>4. /\ out \in Seq(Byte) /\ file \in Seq(Byte) /\ serState = "done"
      /\ Len(out) \in Nat
      /\ Len(file) <= Len(out) /\ \A j \in 1 .. Len(file) : file[j] = out[j]
      /\ cwState = "true" <=> Len(file) = Len(out)
  <2>1. out \in Seq(Byte) /\ file \in Seq(Byte)
    BY DEF IInv, SerType, CppWriteTyped
  <2>2. Len(out) \in Nat
    BY <2>1
  <2> QED BY <1>1, <2>1, <2>2 DEF IInv, CppWriteInv
<1>5. /\ wire' \in Seq(Byte) /\ Len(wire') <= Len(out)
      /\ \A j \in 1 .. Len(wire') : wire'[j] = out[j]
      /\ Len(wire') = Len(out) <=> source' = "rust" \/ cwState = "true"
  <2>1. CASE source' = "rust"
    BY <1>1, <1>4, <2>1
  <2>2. CASE source' # "rust"
    BY <1>1, <1>4, <2>2
  <2> QED BY <2>1, <2>2
<1>6. DeInit' /\ CppReadInit'
  BY <1>1 DEF IInv, SourceInv, DeInit, deVars, CppReadInit, crVars
<1>7. ty' \in Type'
  BY <1>2 DEF CallType
<1>8. ParserTyped' /\ ParserInv'
  BY <1>5, <1>6, <1>7, ParserBegins
<1>9. CppReadTyped' /\ CppReadInv'
  BY <1>5, <1>6, <1>7, CppReadBegins
<1>10. serState' = serState /\ out' = out /\ cwState' = cwState
  BY <1>1 DEF serVars, cwVars
<1>11. Delivered'
  BY <1>4, <1>5, <1>10 DEF Delivered
<1>12. crState' = "first" /\ source' # "none"
  BY <1>1, <1>6 DEF CppReadInit
<1>13. SourceInv'
  BY <1>1, <1>5, <1>10, <1>11, <1>12 DEF SourceInv
<1> QED BY <1>2, <1>3, <1>8, <1>9, <1>13 DEF IInv

\* What was delivered stays while the writers rest.
LEMMA DeliveredKeeps ==
  ASSUME wire' = wire, UNCHANGED serVars
  PROVE  Delivered' = Delivered /\ Len(out)' = Len(out)
BY DEF Delivered, serVars

LEMMA RustReadsStep ==
  ASSUME IInv, RustReads
  PROVE  IInv'
<1>1. /\ source # "none" /\ DeNext /\ ty' = ty /\ input' = input
      /\ wire' = wire /\ source' = source
      /\ UNCHANGED serVars /\ UNCHANGED cwVars /\ UNCHANGED crVars
  BY DEF RustReads, cppVars
<1>2. CallType' /\ SerType' /\ SerInv'
  BY <1>1, SerStutters DEF IInv
<1>3. CppWriteTyped' /\ CppWriteInv'
  BY <1>1, RestingRust DEF IInv
<1>4. ParserTyped' /\ ParserInv'
  BY <1>1, ParserStep DEF IInv
<1>5. CppReadTyped' /\ CppReadInv'
  BY <1>1, CppReadStutters DEF IInv
<1>6. deState \notin {"ok", "err"}
  BY <1>1 DEF DeNext, ReadFirst, Truncated, ReadNext, Finish
<1>7. crState' = "first" /\ cwState' = cwState
  BY <1>1, <1>6 DEF IInv, SourceInv, crVars, cwVars
<1>8. SourceInv'
  BY <1>1, <1>7, DeliveredKeeps DEF IInv, SourceInv
<1> QED BY <1>2, <1>3, <1>4, <1>5, <1>8 DEF IInv

LEMMA CppReadsStep ==
  ASSUME IInv, CppReads
  PROVE  IInv'
<1>1. /\ source # "none" /\ CppReaderNext /\ ty' = ty /\ input' = input
      /\ wire' = wire /\ source' = source /\ deState \in {"ok", "err"}
      /\ UNCHANGED serVars /\ UNCHANGED deVars /\ UNCHANGED cwVars
  BY DEF CppReads, rustVars
<1>2. CallType' /\ SerType' /\ SerInv'
  BY <1>1, SerStutters DEF IInv
<1>3. CppWriteTyped' /\ CppWriteInv'
  BY <1>1, RestingRust DEF IInv
<1>4. ParserTyped' /\ ParserInv'
  BY <1>1, ParserStutters DEF IInv
<1>5. CppReadTyped' /\ CppReadInv'
  BY <1>1, CppReaderStep DEF IInv, ParserTyped
<1>6. deState' \in {"ok", "err"} /\ cwState' = cwState
  BY <1>1 DEF deVars, cwVars
<1>7. SourceInv'
  BY <1>1, <1>6, DeliveredKeeps DEF IInv, SourceInv
<1> QED BY <1>2, <1>3, <1>4, <1>5, <1>7 DEF IInv

LEMMA NextIInv ==
  ASSUME UsizeMax = UMax, IInv, [Next]_vars
  PROVE  IInv'
<1>1. CASE UNCHANGED vars
  <2>1. /\ ty' = ty /\ input' = input /\ wire' = wire /\ source' = source
        /\ UNCHANGED serVars /\ UNCHANGED deVars
        /\ UNCHANGED cwVars /\ UNCHANGED crVars
    BY <1>1 DEF vars, rustVars, cppVars
  <2>2. CallType' /\ SerType' /\ SerInv'
    BY <2>1, SerStutters DEF IInv
  <2>3. CppWriteTyped' /\ CppWriteInv'
    BY <2>1, RestingRust DEF IInv
  <2>4. ParserTyped' /\ ParserInv'
    BY <2>1, ParserStutters DEF IInv
  <2>5. CppReadTyped' /\ CppReadInv'
    BY <2>1, CppReadStutters DEF IInv
  <2>6. /\ deState' = deState /\ cwState' = cwState /\ crState' = crState
        /\ DeInit' = DeInit /\ CppReadInit' = CppReadInit
    BY <2>1 DEF DeInit, deVars, CppReadInit, crVars, cwVars
  <2>7. SourceInv'
    BY <2>1, <2>6, DeliveredKeeps DEF IInv, SourceInv
  <2> QED BY <2>2, <2>3, <2>4, <2>5, <2>7 DEF IInv
<1> QED BY <1>1, RustWritesStep, CppWritesStep, ToBothStep, RustReadsStep,
           CppReadsStep DEF Next

LEMMA Invariance == ASSUME UsizeMax = UMax PROVE Spec => []IInv
<1>1. IInv /\ [Next]_vars => IInv'
  BY NextIInv
<1> QED BY <1>1, InitIInv, PTL DEF Spec

-------------------------------------------------------------------------------
(* The theorems *)

\* The locals and buffers of the C++ codecs keep their types; in particular
\* the reader's member never leaves the width of an int or a uint64_t.
THEOREM CppTypeCorrect == ASSUME UsizeMax = UMax PROVE Spec => []CppTypeOK
<1>1. IInv => CppTypeOK
  BY DEF IInv, CppWriteTyped, CppReadTyped, CppTypeOK
<1> QED BY <1>1, Invariance, PTL

\* Serialize of the C++ library and to_bytes of the Rust crate leave the same
\* bytes, for every int and every uint64_t.
THEOREM WritersAgree == ASSUME UsizeMax = UMax PROVE Spec => []SameBytes
<1>1. ASSUME IInv PROVE SameBytes
  <2> SUFFICES ASSUME cwState = "true" PROVE file = out
    BY DEF SameBytes
  <2>1. file \in Seq(Byte) /\ out \in Seq(Byte)
    BY <1>1 DEF IInv, CppWriteTyped, SerType
  <2>2. /\ Len(file) = Len(out)
        /\ \A j \in 1 .. Len(file) : file[j] = out[j]
    BY <1>1 DEF IInv, CppWriteInv
  <2> QED BY <2>1, <2>2
<1> QED BY <1>1, Invariance, PTL

\* All the bytes are read into the value written; a part of them is refused.
LEMMA CppDelivered ==
  ASSUME IInv, Delivered
  PROVE  /\ crState = "true" =>
              Len(wire) = Len(out) /\ position = Len(out) /\ value_ = input
         /\ crState = "false" => Len(wire) < Len(out)
<1>1. CallType /\ SerType /\ SerInv /\ ty \in Type /\ wire \in Seq(Byte)
  BY DEF IInv, CallType, ParserTyped
<1>2. /\ Len(out) \in Nat /\ Len(out) >= 1 /\ Len(wire) \in Nat
      /\ Len(wire) <= Len(out)
  BY <1>1, DeliveredBytes
<1>3. position \in 0 .. Len(wire) /\ value_ \in ValuesOf(ty)
  BY DEF IInv, CppReadTyped
<1>4. ASSUME crState = "true"
      PROVE  Len(wire) = Len(out) /\ position = Len(out) /\ value_ = input
  <2>1. /\ position >= 1 /\ ~wire[position].more
        /\ Congruent(Denoted(position), value_)
    BY <1>4 DEF IInv, CppReadInv
  <2>2. position \in 1 .. Len(wire)
    BY <1>2, <1>3, <2>1
  <2>3. ~(position < Len(out))
    BY <1>1, <2>1, <2>2, DeliveredPrefix
  <2>4. position = Len(out) /\ Len(wire) = Len(out)
    BY <1>2, <2>2, <2>3
  <2>5. Spelled[position] = Mag /\ (IsNegative(wire[1]) <=> input < 0)
    BY <1>1, <2>2, <2>4, DeliveredPrefix
  <2>6. Denoted(position) = input
    BY <1>1, <2>5, ValueFacts DEF Denoted
  <2>7. input \in ValuesOf(ty) /\ input \in Int /\ value_ \in Int
    BY <1>1, <1>3, WidthFacts DEF CallType
  <2>8. input = value_
    BY <1>1, <1>3, <2>1, <2>6, <2>7, CongruentFacts
  <2> QED BY <2>4, <2>8
<1>5. ASSUME crState = "false" PROVE Len(wire) < Len(out)
  <2>1. position = Len(wire) /\ Unfinished(position)
    BY <1>5 DEF IInv, CppReadInv
  <2>2. Len(wire) # Len(out)
    <3> SUFFICES ASSUME Len(wire) = Len(out) PROVE FALSE
      OBVIOUS
    <3>1. Len(wire) \in 1 .. Len(wire)
      BY <1>2
    <3>2. wire[Len(wire)].more
      BY <2>1, <3>1 DEF Unfinished
    <3> QED BY <1>1, <3>1, <3>2, DeliveredPrefix
  <2> QED BY <1>2, <2>2
<1> QED BY <1>4, <1>5

\* Either reader gives back what either writer was handed and stops behind its
\* last byte; both notice a short Write.
THEOREM EitherReads == ASSUME UsizeMax = UMax PROVE Spec => []SameReading
<1>1. ASSUME IInv PROVE SameReading
  <2> SUFFICES ASSUME source \in {"rust", "cpp"}
               PROVE
      LET whole == source = "rust" \/ (source = "cpp" /\ cwState = "true") IN
      /\ deState = "ok" => whole /\ result = input /\ offset = Len(wire)
      /\ crState = "true" => whole /\ value_ = input /\ position = Len(wire)
      /\ whole => deState # "err" /\ crState # "false"
    BY DEF SameReading
  <2>1. /\ Delivered
        /\ Len(wire) = Len(out) <=> source = "rust" \/ cwState = "true"
    BY <1>1 DEF IInv, SourceInv
  <2>2. /\ deState = "ok" =>
             Len(wire) = Len(out) /\ offset = Len(out) /\ result = input
        /\ deState = "err" => Len(wire) < Len(out)
    BY <1>1, <2>1, DeliveredParse DEF IInv
  <2>3. /\ crState = "true" =>
             Len(wire) = Len(out) /\ position = Len(out) /\ value_ = input
        /\ crState = "false" => Len(wire) < Len(out)
    BY <1>1, <2>1, CppDelivered
  <2>4. Len(wire) < Len(out) => Len(wire) # Len(out)
    BY <1>1, <2>1, DeliveredBytes DEF IInv
  <2> QED BY <2>1, <2>2, <2>3, <2>4
<1> QED BY <1>1, Invariance, PTL

\* On any slice: what Rust parses C++ reads alike, what C++ cannot read Rust
\* calls truncated, and the rest are Rust's overflows.
THEOREM Agreement == ASSUME UsizeMax = UMax PROVE Spec => []ReadersAgree
<1>1. ASSUME IInv PROVE ReadersAgree
  <2> SUFFICES ASSUME crState \in {"true", "false"}
               PROVE
      CASE deState = "ok" ->
             crState = "true" /\ value_ = result /\ position = offset
        [] error = "ValueTruncated" -> crState = "false"
        [] error = "IntegerOverflow" -> position >= offset
    BY DEF ReadersAgree
  <2>1. /\ deState \in {"ok", "err"}
        /\ ty \in Type /\ wire \in Seq(Byte) /\ Len(wire) \in Nat
        /\ position \in 0 .. Len(wire) /\ offset \in 0 .. Len(wire)
        /\ value_ \in ValuesOf(ty) /\ result \in ValuesOf(ty)
        /\ error \in {"none", "ValueTruncated", "IntegerOverflow"}
    BY <1>1 DEF IInv, SourceInv, ParserTyped, CppReadTyped
  <2>2. /\ crState = "true" =>
             /\ position >= 1 /\ ~wire[position].more
             /\ Unfinished(position - 1) /\ Congruent(Denoted(position), value_)
        /\ crState = "false" => position = Len(wire) /\ Unfinished(position)
    BY <1>1 DEF IInv, CppReadInv
  <2>3. Unfinished(offset - 1)
    BY <1>1 DEF IInv, ParserInv
  <2>4. ASSUME deState = "ok"
        PROVE  /\ crState = "true" /\ value_ = result /\ position = offset
               /\ error = "none"
    <3>1. /\ offset >= 1 /\ ~wire[offset].more /\ error = "none"
          /\ negative = IsNegative(wire[1])
          /\ result = IF negative THEN -Spelled[offset] ELSE Spelled[offset]
      BY <1>1, <2>4 DEF IInv, ParserInv
    <3>2. result = Denoted(offset)
      BY <3>1 DEF Denoted
    <3>3. crState = "true"
      <4> SUFFICES ASSUME crState = "false" PROVE FALSE
        OBVIOUS
      <4>1. offset \in 1 .. position
        BY <2>1, <2>2, <3>1
      <4> QED BY <2>2, <3>1, <4>1 DEF Unfinished
    <3>4. position = offset
      <4>1. ~(position < offset)
        <5>1. position < offset => position \in 1 .. offset - 1
          BY <2>1, <2>2, <3>3
        <5> QED BY <2>2, <2>3, <3>3, <5>1 DEF Unfinished
      <4>2. ~(offset < position)
        <5>1. offset < position => offset \in 1 .. position - 1
          BY <2>1, <3>1
        <5> QED BY <2>2, <3>1, <3>3, <5>1 DEF Unfinished
      <4> QED BY <2>1, <4>1, <4>2
    <3>5. result \in Int /\ value_ \in Int
      BY <2>1, WidthFacts
    <3>6. result = value_
      BY <2>1, <2>2, <3>2, <3>3, <3>4, <3>5, CongruentFacts
    <3> QED BY <3>1, <3>3, <3>4, <3>6
  <2>5. ASSUME error = "ValueTruncated" PROVE crState = "false"
    <3> SUFFICES ASSUME crState = "true" PROVE FALSE
      OBVIOUS
    <3>1. offset = Len(wire) /\ Unfinished(offset)
      BY <1>1, <2>5 DEF IInv, ParserInv
    <3>2. position \in 1 .. offset
      BY <2>1, <2>2, <3>1
    <3> QED BY <2>2, <3>1, <3>2 DEF Unfinished
  <2>6. ASSUME error = "IntegerOverflow" PROVE position >= offset
    <3>1. CASE crState = "false"
      BY <2>1, <2>2, <3>1
    <3>2. CASE crState = "true"
      <4>1. position < offset => position \in 1 .. offset - 1
        BY <2>1, <2>2, <3>2
      <4>2. ~(position < offset)
        BY <2>2, <2>3, <3>2, <4>1 DEF Unfinished
      <4> QED BY <2>1, <4>2
    <3> QED BY <3>1, <3>2
  <2>7. deState = "err" => error # "none"
    BY <1>1 DEF IInv, ParserInv
  <2>8. CASE deState = "ok"
    BY <2>4, <2>8
  <2>9. CASE deState = "err" /\ error = "ValueTruncated"
    BY <2>5, <2>9
  <2>10. CASE deState = "err" /\ error = "IntegerOverflow"
    BY <2>6, <2>10
  <2> QED BY <2>1, <2>7, <2>8, <2>9, <2>10
<1> QED BY <1>1, Invariance, PTL

\* Where the C++ reader overflows it keeps the spelled number modulo the width
\* of its type, and where it does not, the number itself.
THEOREM OverflowWraps == ASSUME UsizeMax = UMax PROVE Spec => []WrapsToLowBits
<1>1. ASSUME IInv PROVE WrapsToLowBits
  <2> SUFFICES ASSUME crState = "true"
               PROVE  (Denotes(position) - value_) % Width = 0
    BY DEF WrapsToLowBits, Width
  <2>1. /\ ty \in Type /\ wire \in Seq(Byte) /\ position \in 0 .. Len(wire)
        /\ value_ \in ValuesOf(ty) /\ Congruent(Denoted(position), value_)
    BY <1>1 DEF IInv, ParserTyped, CppReadTyped, CppReadInv
  <2>2. Denotes(position) = Denoted(position)
    BY <2>1, MagnitudeIsSpelled DEF Denotes, Denoted
  <2>3. Denoted(position) \in Int /\ value_ \in Int
    <3>1. Spelled \in [Nat -> Nat] /\ position \in Nat
      BY <2>1, SpelledFacts
    <3>2. Spelled[position] \in Nat
      BY <3>1
    <3>3. Denoted(position) \in Int
      BY <3>2 DEF Denoted
    <3>4. ValuesOf(ty) \subseteq Int
      BY <2>1, WidthFacts
    <3> QED BY <2>1, <3>3, <3>4
  <2> QED BY <2>1, <2>2, <2>3, CongruentFacts
<1> QED BY <1>1, Invariance, PTL

===============================================================================
