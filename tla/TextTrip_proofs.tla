---------------------------- MODULE TextTrip_proofs ----------------------------
(***************************************************************************)
(* Proofs about the texts of serialized objects, for objects nested to any *)
(* depth, any line width and any edits: Render writes a text, an object    *)
(* under construction stays a map in the order of its keys, no index       *)
(* leaves its text, and every step of Parse brings it nearer to its end.   *)
(***************************************************************************)
EXTENDS TextTrip, FiniteSetTheorems, SequenceTheorems, WellFoundedInduction, TLAPS

-------------------------------------------------------------------------------
(* Natural numbers and concatenations *)

\* A set of naturals that is not empty has a least element.
LEMMA LeastNatural ==
  ASSUME NEW S \in SUBSET Nat, S # {}
  PROVE  \E n \in S : \A m \in S : n <= m
<1>1. S \subseteq Nat
  OBVIOUS
<1>2. PICK n \in S : \A m \in S : ~ (<<m, n>> \in OpToRel(<, Nat))
  BY <1>1, NatLessThanWellFounded, WFMin
<1>3. \A m \in S : ~ (m < n)
  BY <1>1, <1>2 DEF OpToRel
<1>4. \A m \in S : n <= m
  BY <1>1, <1>3
<1> QED BY <1>4

\* What FlattenSeq recurses through exists and consists of sequences.
LEMMA FlattenExists ==
  ASSUME NEW S, NEW s \in Seq(Seq(S))
  PROVE  \E f \in [1 .. Len(s) -> Seq(S)] :
           \A i \in 1 .. Len(s) : f[i] = IF i = 1 THEN s[i] ELSE f[i - 1] \o s[i]
<1> DEFINE T == Seq(S)
           Good(f, m) ==
             \A i \in 1 .. m : f[i] = IF i = 1 THEN s[i] ELSE f[i - 1] \o s[i]
           Bad == {m \in 0 .. Len(s) : ~\E f \in [1 .. m -> T] : Good(f, m)}
<1>0. Len(s) \in Nat /\ \A i \in 1 .. Len(s) : s[i] \in T
  OBVIOUS
<1>a. \A p, q \in T : p \o q \in T
  BY ConcatProperties
<1> HIDE DEF T
<1>1. Bad = {}
  <2> SUFFICES ASSUME Bad # {} PROVE FALSE
    OBVIOUS
  <2>1. \E m \in Bad : \A k \in Bad : m <= k
    <3>1. Bad \in SUBSET Nat
      BY <1>0
    <3> HIDE DEF Bad
    <3> QED BY <3>1, LeastNatural
  <2>2. PICK m \in Bad : \A k \in Bad : m <= k
    BY <2>1
  <2>3. m \in 0 .. Len(s) /\ ~\E f \in [1 .. m -> T] : Good(f, m)
    OBVIOUS
  <2>4. m # 0
    <3>1. [i \in 1 .. 0 |-> <<>>] \in [1 .. 0 -> T] /\ Good([i \in 1 .. 0 |-> <<>>], 0)
      OBVIOUS
    <3> QED BY <2>3, <3>1
  <2>5. m \in Nat \ {0} /\ m - 1 \in 0 .. Len(s)
    BY <1>0, <2>3, <2>4
  <2>6. ~ (m <= m - 1)
    BY <2>5
  <2>7. m - 1 \notin Bad
    BY <2>2, <2>6
  <2>8. PICK f \in [1 .. m - 1 -> T] : Good(f, m - 1)
    BY <2>5, <2>7
  <2> DEFINE last == IF m = 1 THEN s[m] ELSE f[m - 1] \o s[m]
             g == [i \in 1 .. m |-> IF i = m THEN last ELSE f[i]]
  <2>9. s[m] \in T /\ (m # 1 => f[m - 1] \in T)
    BY <1>0, <2>3, <2>5, <2>8
  <2>10. last \in T
    BY <1>a, <2>9
  <2>11. \A i \in 1 .. m : i = m \/ i \in 1 .. m - 1
    BY <2>5
  <2>12. g \in [1 .. m -> T]
    <3> HIDE DEF last
    <3> QED BY <2>8, <2>10, <2>11
  <2>13. Good(g, m)
    <3> SUFFICES ASSUME NEW i \in 1 .. m
                 PROVE  g[i] = IF i = 1 THEN s[i] ELSE g[i - 1] \o s[i]
      OBVIOUS
    <3>1. i # 1 => i - 1 \in 1 .. m /\ i - 1 # m
      BY <2>5
    <3>2. i # 1 => g[i - 1] = f[i - 1]
      BY <3>1
    <3>3. CASE i = m
      BY <3>2, <3>3
    <3>4. CASE i # m
      <4>1. i \in 1 .. m - 1
        BY <2>11, <3>4
      <4>2. f[i] = IF i = 1 THEN s[i] ELSE f[i - 1] \o s[i]
        BY <2>8, <4>1
      <4> QED BY <3>2, <3>4, <4>2
    <3> QED BY <3>3, <3>4
  <2> HIDE DEF g, Good
  <2> QED BY <2>3, <2>12, <2>13
<1>2. Len(s) \notin Bad
  BY <1>1
<1> QED BY <1>0, <1>2 DEF T

\* It is the last of the concatenations it is built from.
LEMMA FlattenBuilt ==
  ASSUME NEW S, NEW s \in Seq(Seq(S)), Len(s) # 0
  PROVE  \E f \in [1 .. Len(s) -> Seq(S)] :
           /\ \A i \in 1 .. Len(s) : f[i] = IF i = 1 THEN s[i] ELSE f[i - 1] \o s[i]
           /\ FlattenSeq(s) = f[Len(s)]
<1> DEFINE Def(f) == [i \in 1 .. Len(s) |->
                        IF i = 1 THEN s[i] ELSE f[i - 1] \o s[i]]
           flatten == CHOOSE f : f = Def(f)
           T == Seq(S)
<1>0. Len(s) \in Nat /\ \A i \in 1 .. Len(s) : s[i] \in T
  OBVIOUS
<1>a. \A p, q \in T : p \o q \in T
  BY ConcatProperties
<1>1. PICK f \in [1 .. Len(s) -> T] :
        \A i \in 1 .. Len(s) : f[i] = IF i = 1 THEN s[i] ELSE f[i - 1] \o s[i]
  BY FlattenExists
<1>2. f = Def(f)
  BY <1>1
<1>3. flatten = Def(flatten)
  <2> HIDE DEF Def
  <2> QED BY <1>2
<1>4. FlattenSeq(s) = flatten[Len(s)]
  BY DEF FlattenSeq
<1> HIDE DEF flatten, T
<1>5. \A i \in 1 .. Len(s) :
        flatten[i] = IF i = 1 THEN s[i] ELSE flatten[i - 1] \o s[i]
  BY <1>3
<1> DEFINE Bad == {i \in 1 .. Len(s) : flatten[i] \notin T}
<1>6. Bad = {}
  <2> SUFFICES ASSUME Bad # {} PROVE FALSE
    OBVIOUS
  <2>1. \E i \in Bad : \A j \in Bad : i <= j
    <3>1. Bad \in SUBSET Nat
      BY <1>0
    <3> HIDE DEF Bad
    <3> QED BY <3>1, LeastNatural
  <2>2. PICK i \in Bad : \A j \in Bad : i <= j
    BY <2>1
  <2>3. i \in 1 .. Len(s) /\ flatten[i] \notin T
    OBVIOUS
  <2>4. i # 1
    BY <1>0, <1>5, <2>3
  <2>5. i - 1 \in 1 .. Len(s) /\ ~ (i <= i - 1)
    BY <1>0, <2>3, <2>4
  <2>6. flatten[i - 1] \in T
    BY <2>2, <2>5
  <2>7. flatten[i] = flatten[i - 1] \o s[i] /\ s[i] \in T
    BY <1>0, <1>5, <2>3, <2>4
  <2> QED BY <1>a, <2>3, <2>6, <2>7
<1>7. flatten \in [1 .. Len(s) -> T]
  <2>1. flatten = [i \in 1 .. Len(s) |-> flatten[i]]
    BY <1>3
  <2> QED BY <1>6, <2>1
<1> QED BY <1>4, <1>5, <1>7 DEF T

\* Concatenating sequences over S gives one over S.
LEMMA FlattenSeqType ==
  ASSUME NEW S, NEW s \in Seq(Seq(S))
  PROVE  FlattenSeq(s) \in Seq(S)
<1>1. CASE Len(s) = 0
  <2>1. s = <<>>
    BY <1>1
  <2> QED BY <1>1, <2>1 DEF FlattenSeq
<1>2. CASE Len(s) # 0
  <2> DEFINE T == Seq(S)
  <2>1. Len(s) \in 1 .. Len(s)
    BY <1>2
  <2> HIDE DEF T
  <2>2. \E f \in [1 .. Len(s) -> T] : FlattenSeq(s) = f[Len(s)]
    BY <1>2, FlattenBuilt DEF T
  <2> QED BY <2>1, <2>2 DEF T
<1> QED BY <1>1, <1>2

-------------------------------------------------------------------------------
(* Nested and Rendering are defined by recursion on the depth *)

\* f has the objects of each depth up to n.
Nesting(f, n) ==
  f = [m \in 0 .. n |-> Holds(IF m = 0 THEN {} ELSE f[m - 1])]

\* Up to any depth the objects can be listed depth by depth ...
LEMMA NestingExists == \A n \in Nat : \E f : Nesting(f, n)
<1> DEFINE Bad == {n \in Nat : ~\E f : Nesting(f, n)}
<1>1. SUFFICES Bad = {}
  OBVIOUS
<1>2. SUFFICES ASSUME Bad # {} PROVE FALSE
  OBVIOUS
<1>3. Bad \in SUBSET Nat
  OBVIOUS
<1>4. PICK n \in Bad : \A m \in Bad : n <= m
  <2> HIDE DEF Bad
  <2> QED BY <1>2, <1>3, LeastNatural
<1>5. n \in Nat /\ ~\E f : Nesting(f, n)
  OBVIOUS
<1>6. n # 0
  <2> DEFINE f == [m \in 0 .. 0 |-> Holds({})]
  <2>1. f = [m \in 0 .. 0 |-> Holds(IF m = 0 THEN {} ELSE f[m - 1])]
    OBVIOUS
  <2> QED BY <1>5, <2>1 DEF Nesting
<1>7. n - 1 \in Nat /\ ~(n <= n - 1)
  BY <1>5, <1>6
<1>8. PICK f : Nesting(f, n - 1)
  BY <1>4, <1>7
<1> DEFINE g == [m \in 0 .. n |-> IF m = n THEN Holds(f[n - 1]) ELSE f[m]]
<1>9. ASSUME NEW m \in 0 .. n PROVE g[m] = Holds(IF m = 0 THEN {} ELSE g[m - 1])
  <2>1. CASE m = n
    <3>1. n - 1 \in 0 .. n /\ n - 1 # n
      BY <1>5, <1>6
    <3>2. g[n - 1] = f[n - 1]
      BY <3>1
    <3> QED BY <1>6, <2>1, <3>2
  <2>2. CASE m # n
    <3>1. m \in 0 .. n - 1 /\ (m # 0 => m - 1 \in 0 .. n /\ m - 1 # n)
      BY <1>5, <2>2
    <3>2. f[m] = Holds(IF m = 0 THEN {} ELSE f[m - 1])
      BY <1>8, <3>1 DEF Nesting
    <3>3. m # 0 => g[m - 1] = f[m - 1]
      BY <3>1
    <3> QED BY <2>2, <3>2, <3>3
  <2> QED BY <2>1, <2>2
<1>10. Nesting(g, n)
  <2>1. g = [m \in 0 .. n |-> g[m]]
    OBVIOUS
  <2> HIDE DEF g
  <2> QED BY <1>9, <2>1 DEF Nesting
<1> QED BY <1>5, <1>10

\* ... in one way only ...
LEMMA NestingsAgree ==
  ASSUME NEW k \in Nat, NEW l \in Nat, NEW f, NEW g, Nesting(f, k), Nesting(g, l)
  PROVE  \A n \in Nat : n <= k /\ n <= l => f[n] = g[n]
<1> DEFINE Bad == {n \in Nat : n <= k /\ n <= l /\ f[n] # g[n]}
<1>1. SUFFICES ASSUME Bad # {} PROVE FALSE
  OBVIOUS
<1>2. Bad \in SUBSET Nat
  OBVIOUS
<1>3. PICK n \in Bad : \A m \in Bad : n <= m
  <2> HIDE DEF Bad
  <2> QED BY <1>1, <1>2, LeastNatural
<1>4. n \in Nat /\ n <= k /\ n <= l /\ f[n] # g[n]
  OBVIOUS
<1>5. n # 0 => f[n - 1] = g[n - 1]
  <2> SUFFICES ASSUME n # 0 PROVE f[n - 1] = g[n - 1]
    OBVIOUS
  <2>1. n - 1 \in Nat /\ n - 1 <= k /\ n - 1 <= l /\ ~(n <= n - 1)
    BY <1>4
  <2> QED BY <1>3, <2>1
<1>6. n \in 0 .. k /\ n \in 0 .. l
  BY <1>4
<1>7. /\ f[n] = Holds(IF n = 0 THEN {} ELSE f[n - 1])
      /\ g[n] = Holds(IF n = 0 THEN {} ELSE g[n - 1])
  BY <1>6 DEF Nesting
<1> QED BY <1>4, <1>5, <1>7

\* ... so Nested satisfies the equation it is defined by.
LEMMA NestedEquation ==
  \A n \in Nat : Nested[n] = Holds(IF n = 0 THEN {} ELSE Nested[n - 1])
<1> DEFINE Body(f) == [n \in Nat |-> Holds(IF n = 0 THEN {} ELSE f[n - 1])]
           Up(n) == CHOOSE f : Nesting(f, n)
           g == [n \in Nat |-> Up(n)[n]]
<1>1. \A n \in Nat : Nesting(Up(n), n)
  BY NestingExists
<1> HIDE DEF Up
<1>2. ASSUME NEW n \in Nat PROVE g[n] = Holds(IF n = 0 THEN {} ELSE g[n - 1])
  <2>1. n \in 0 .. n
    OBVIOUS
  <2>2. Up(n)[n] = Holds(IF n = 0 THEN {} ELSE Up(n)[n - 1])
    BY <1>1, <2>1 DEF Nesting
  <2>3. n # 0 => Up(n)[n - 1] = Up(n - 1)[n - 1]
    <3> SUFFICES ASSUME n # 0 PROVE Up(n)[n - 1] = Up(n - 1)[n - 1]
      OBVIOUS
    <3>1. n - 1 \in Nat /\ n - 1 <= n /\ n - 1 <= n - 1
      OBVIOUS
    <3>2. Nesting(Up(n), n) /\ Nesting(Up(n - 1), n - 1)
      BY <1>1, <3>1
    <3> QED BY <3>1, <3>2, NestingsAgree
  <2>4. n # 0 => n - 1 \in Nat
    OBVIOUS
  <2> QED BY <2>2, <2>3, <2>4
<1>3. g = Body(g)
  <2>1. g = [n \in Nat |-> g[n]]
    OBVIOUS
  <2> HIDE DEF g
  <2> QED BY <1>2, <2>1
<1>4. Nested = CHOOSE f : f = Body(f)
  BY DEF Nested
<1>5. Nested = Body(Nested)
  <2> HIDE DEF g, Body
  <2> QED BY <1>3, <1>4
<1> QED BY <1>5

-------------------------------------------------------------------------------
(* What Render writes is a text *)

\* The elements of a concatenation are those of its two sides.
LEMMA ToSetConcat ==
  ASSUME NEW S, NEW s \in Seq(S), NEW t \in Seq(S)
  PROVE  s \o t \in Seq(S) /\ ToSet(s \o t) = ToSet(s) \cup ToSet(t)
<1>1. /\ s \o t \in Seq(S) /\ Len(s \o t) = Len(s) + Len(t)
      /\ \A i \in 1 .. Len(s) + Len(t) :
           (s \o t)[i] = IF i <= Len(s) THEN s[i] ELSE t[i - Len(s)]
  BY ConcatProperties
<1>2. Len(s) \in Nat /\ Len(t) \in Nat /\ DOMAIN s = 1 .. Len(s) /\ DOMAIN t = 1 .. Len(t)
  OBVIOUS
<1> DEFINE u == s \o t
<1>3. DOMAIN u = 1 .. Len(s) + Len(t)
  BY <1>1
<1>4. \A i \in 1 .. Len(s) + Len(t) : u[i] = IF i <= Len(s) THEN s[i] ELSE t[i - Len(s)]
  BY <1>1
<1> HIDE DEF u
<1>5. ASSUME NEW i \in DOMAIN u PROVE u[i] \in ToSet(s) \cup ToSet(t)
  <2>1. CASE i <= Len(s)
    <3>1. i \in DOMAIN s /\ u[i] = s[i]
      BY <1>2, <1>3, <1>4, <2>1
    <3> QED BY <3>1 DEF ToSet
  <2>2. CASE ~(i <= Len(s))
    <3>1. i - Len(s) \in DOMAIN t /\ u[i] = t[i - Len(s)]
      BY <1>2, <1>3, <1>4, <2>2
    <3> QED BY <3>1 DEF ToSet
  <2> QED BY <2>1, <2>2
<1>6. ASSUME NEW i \in DOMAIN s PROVE s[i] \in ToSet(u)
  <2>1. i \in DOMAIN u /\ u[i] = s[i]
    BY <1>2, <1>3, <1>4
  <2> QED BY <2>1 DEF ToSet
<1>7. ASSUME NEW i \in DOMAIN t PROVE t[i] \in ToSet(u)
  <2>1. Len(s) + i \in 1 .. Len(s) + Len(t) /\ ~(Len(s) + i <= Len(s)) /\ Len(s) + i - Len(s) = i
    BY <1>2
  <2>2. Len(s) + i \in DOMAIN u /\ u[Len(s) + i] = t[i]
    BY <1>3, <1>4, <2>1
  <2> QED BY <2>2 DEF ToSet
<1>8. ToSet(u) = ToSet(s) \cup ToSet(t)
  BY <1>5, <1>6, <1>7 DEF ToSet
<1> QED BY <1>1, <1>8 DEF u

LEMMA DigitsFacts ==
  LET D == {"0", "1", "2", "3", "4", "5", "6", "7", "8", "9"} IN
  /\ Digits \in Seq(D) /\ ToSet(Digits) = D
  /\ \A i \in 1 .. 10 : Digits[i] \in ToSet(Digits)
<1> DEFINE D == {"0", "1", "2", "3", "4", "5", "6", "7", "8", "9"}
<1>1. Digits \in Seq(D) /\ ToSet(Digits) = D
  BY DEF Digits, ToSet
<1>2. DOMAIN Digits = 1 .. 10
  BY DEF Digits
<1>3. \A i \in 1 .. 10 : Digits[i] \in ToSet(Digits)
  BY <1>2 DEF ToSet
<1> QED BY <1>1, <1>3

LEMMA FirstTokens ==
  /\ <<"line", "space", "quote", "(", ")", "+", ",", "-", ".">>
       \in Seq({"line", "space", "quote", "(", ")", "+", ",", "-", "."})
  /\ ToSet(<<"line", "space", "quote", "(", ")", "+", ",", "-", ".">>)
       = {"line", "space", "quote", "(", ")", "+", ",", "-", "."}
<1> DEFINE a == "line"
           b == "space"
           c == "quote"
           d == "("
           e == ")"
           f == "+"
           g == ","
           h == "-"
           i == "."
<1> HIDE DEF a, b, c, d, e, f, g, h, i
<1>1. <<a, b, c, d, e, f, g, h, i>> \in Seq({a, b, c, d, e, f, g, h, i})
  OBVIOUS
<1>2. ToSet(<<a, b, c, d, e, f, g, h, i>>) = {a, b, c, d, e, f, g, h, i}
  BY DEF ToSet
<1> QED BY <1>1, <1>2 DEF a, b, c, d, e, f, g, h, i

LEMMA LastTokens ==
  /\ <<":", "<", ">", "Empty", "False", "True", "[", "]", "z", "{", "}">>
       \in Seq({":", "<", ">", "Empty", "False", "True", "[", "]", "z", "{", "}"})
  /\ ToSet(<<":", "<", ">", "Empty", "False", "True", "[", "]", "z", "{", "}">>)
       = {":", "<", ">", "Empty", "False", "True", "[", "]", "z", "{", "}"}
<1> DEFINE a == ":"
           b == "<"
           c == ">"
           d == "Empty"
           e == "False"
           f == "True"
           g == "["
           h == "]"
           i == "z"
           j == "{"
           k == "}"
<1> HIDE DEF a, b, c, d, e, f, g, h, i, j, k
<1>1. <<a, b, c, d, e, f, g, h, i, j, k>> \in Seq({a, b, c, d, e, f, g, h, i, j, k})
  OBVIOUS
<1>2. ToSet(<<a, b, c, d, e, f, g, h, i, j, k>>) = {a, b, c, d, e, f, g, h, i, j, k}
  BY DEF ToSet
<1> QED BY <1>1, <1>2 DEF a, b, c, d, e, f, g, h, i, j, k

\* Every token the form writes is one of Tokens.
LEMMA TokensFacts ==
  /\ ToSet(Digits) \subseteq Tokens
  /\ {"line", "space", "quote", "(", ")", "+", ",", "-", "."} \subseteq Tokens
  /\ {":", "<", ">", "Empty", "False", "True", "[", "]", "z", "{", "}"} \subseteq Tokens
  /\ Order \in Seq(Tokens)
<1> DEFINE first == <<"line", "space", "quote", "(", ")", "+", ",", "-", ".">>
           last == <<":", "<", ">", "Empty", "False", "True", "[", "]", "z", "{", "}">>
           F == {"line", "space", "quote", "(", ")", "+", ",", "-", "."}
           D == {"0", "1", "2", "3", "4", "5", "6", "7", "8", "9"}
           L == {":", "<", ">", "Empty", "False", "True", "[", "]", "z", "{", "}"}
           S == (F \cup D) \cup L
<1>1. first \in Seq(F) /\ ToSet(first) = F
  BY FirstTokens
<1>2. last \in Seq(L) /\ ToSet(last) = L
  BY LastTokens
<1>3. Digits \in Seq(D) /\ ToSet(Digits) = D
  BY DigitsFacts
<1>4. Order = (first \o Digits) \o last
  BY DEF Order
<1> HIDE DEF first, last, F, D, L
<1>5. first \in Seq(S) /\ Digits \in Seq(S) /\ last \in Seq(S)
  BY <1>1, <1>2, <1>3, SeqMonotonic
<1> HIDE DEF S
<1>6. first \o Digits \in Seq(S) /\ ToSet(first \o Digits) = F \cup D
  BY <1>1, <1>3, <1>5, ToSetConcat
<1> DEFINE front == first \o Digits
<1> HIDE DEF front
<1>7. front \o last \in Seq(S) /\ ToSet(front \o last) = ToSet(front) \cup ToSet(last)
  <2>1. front \in Seq(S)
    BY <1>6 DEF front
  <2> QED BY <1>5, <2>1, ToSetConcat
<1>8. Order \in Seq(S) /\ ToSet(Order) = (F \cup D) \cup L
  BY <1>2, <1>4, <1>6, <1>7 DEF front
<1> QED BY <1>3, <1>8 DEF Tokens, S, F, L

\* A text, and a key.
Text == Seq(Tokens)

\* Texts are closed under concatenation.
LEMMA TextFacts ==
  /\ <<>> \in Text
  /\ \A t \in Tokens : <<t>> \in Text
  /\ \A t, u \in Tokens : <<t, u>> \in Text
  /\ \A s, t \in Text : s \o t \in Text
  /\ \A s \in Seq(Text) : FlattenSeq(s) \in Text
<1>1. \A s, t \in Text : s \o t \in Text
  BY ConcatProperties DEF Text
<1>2. \A s \in Seq(Text) : FlattenSeq(s) \in Text
  BY FlattenSeqType DEF Text
<1>3. /\ <<>> \in Text
      /\ \A t \in Tokens : <<t>> \in Text
      /\ \A t, u \in Tokens : <<t, u>> \in Text
  BY DEF Text
<1> QED BY <1>1, <1>2, <1>3

\* Indenting a text leaves a text.
LEMMA IndentType ==
  ASSUME NEW t \in Text
  PROVE  Indent(t) \in Text
<1> DEFINE s == [i \in DOMAIN t |-> IF t[i] = "line" THEN <<"line", "space">> ELSE <<t[i]>>]
<1>1. Len(t) \in Nat /\ DOMAIN t = 1 .. Len(t) /\ \A i \in DOMAIN t : t[i] \in Tokens
  BY DEF Text
<1>2. <<"line", "space">> \in Text
  BY TextFacts, TokensFacts
<1>3. \A i \in 1 .. Len(t) : s[i] \in Text
  BY <1>1, <1>2, TextFacts
<1>4. s = [i \in 1 .. Len(t) |-> s[i]]
  BY <1>1
<1> HIDE DEF s
<1>5. s \in Seq(Text)
  BY <1>1, <1>3, <1>4
<1> QED BY <1>5, TextFacts DEF Indent, s

\* So does laying out texts on one line or on several.
LEMMA LayoutType ==
  ASSUME NEW elements \in Seq(Text)
  PROVE  Layout(elements) \in Text
<1> DEFINE n == Len(elements)
           separators == IF elements = <<>> THEN 0 ELSE 2 * (Len(elements) - 1)
           long == Len(FlattenSeq(elements)) + separators >= LineWidth
           Separated(i) == IF i = 1 THEN <<>> ELSE IF long THEN <<",">> ELSE <<",", "space">>
           Element(i) == IF long THEN <<"line", "space">> \o Indent(elements[i]) ELSE elements[i]
           s == [i \in DOMAIN elements |-> Separated(i) \o Element(i)]
<1>1. n \in Nat /\ DOMAIN elements = 1 .. n /\ \A i \in 1 .. n : elements[i] \in Text
  OBVIOUS
<1>2. <<"line", "space">> \in Text /\ <<",">> \in Text /\ <<",", "space">> \in Text
        /\ <<"line">> \in Text
  BY TextFacts, TokensFacts
<1>3. Layout(elements) = FlattenSeq(s) \o IF long THEN <<"line">> ELSE <<>>
  BY DEF Layout
<1>4. ASSUME NEW i \in 1 .. n PROVE Separated(i) \o Element(i) \in Text
  <2>1. Separated(i) \in Text
    BY <1>2, TextFacts
  <2>2. Element(i) \in Text
    <3>1. Indent(elements[i]) \in Text
      BY <1>1, IndentType
    <3> HIDE DEF long
    <3> QED BY <1>1, <1>2, <3>1, TextFacts
  <2> HIDE DEF Separated, Element
  <2> QED BY <2>1, <2>2, TextFacts
<1>5. s = [i \in 1 .. n |-> Separated(i) \o Element(i)]
  BY <1>1
<1> HIDE DEF s, Separated, Element, long
<1>6. s \in Seq(Text)
  <2>1. \A i \in 1 .. n : s[i] \in Text
    BY <1>4, <1>5
  <2> HIDE DEF n
  <2> QED BY <1>1, <1>5, <2>1
<1>7. FlattenSeq(s) \in Text
  BY <1>6, TextFacts
<1> QED BY <1>2, <1>3, <1>7, TextFacts

\* A number a numeral stands for is written as one.
LEMMA NumeralType ==
  /\ \A n \in 0 .. 9 : Numeral(n) \in Text
  /\ \A n \in -9 .. 9 : Signed(n) \in Text
<1>1. ASSUME NEW n \in 0 .. 9 PROVE Numeral(n) \in Text
  <2>1. n + 1 \in 1 .. 10
    OBVIOUS
  <2>2. Digits[n + 1] \in Tokens
    BY <2>1, DigitsFacts, TokensFacts
  <2> QED BY <2>2, TextFacts DEF Numeral
<1>2. ASSUME NEW n \in -9 .. 9 PROVE Signed(n) \in Text
  <2>1. <<"-">> \in Text /\ <<"+">> \in Text
    BY TextFacts, TokensFacts
  <2>2. CASE n < 0
    <3>1. -n \in 0 .. 9
      BY <2>2
    <3> QED BY <1>1, <2>1, <2>2, <3>1, TextFacts DEF Signed
  <2>3. CASE ~(n < 0)
    <3>1. n \in 0 .. 9
      BY <2>3
    <3> QED BY <1>1, <2>1, <2>3, <3>1, TextFacts DEF Signed
  <2> QED BY <2>2, <2>3
<1> QED BY <1>1, <1>2

-------------------------------------------------------------------------------
(* Render, type by type *)

LEMMA FunctionIsSeq ==
  ASSUME NEW S, NEW n \in Nat, NEW f \in [1 .. n -> S]
  PROVE  f \in Seq(S) /\ Len(f) = n
OBVIOUS

\* The renderings of the parts, when f has those of the values.
PartsOf(o, f) == [i \in DOMAIN o.parts |-> f[o.parts[i].value]]

\* What the fields of an object are, type by type.
LEMMA HoldsFacts ==
  ASSUME NEW V, NEW o \in Holds(V)
  PROVE  /\ o.type = "Boolean" => o.numbers[1] \in 0 .. 1
         /\ o.type = "Integer" => o.numbers[1] \in -9 .. 9
         /\ o.type = "UnsignedInteger" => o.numbers[1] \in 0 .. 9
         /\ o.type \in {"Decimal", "IpAddress"} => o.numbers \in [1 .. 4 -> 0 .. 9]
         /\ o.type = "IntegerVector" => o.numbers \in Seq(-9 .. 9)
         /\ o.type = "UnsignedIntegerVector" => o.numbers \in Seq(0 .. 9)
         /\ o.type = "String" => o.chars \in Text
         /\ o.parts \in Seq([key : Text, value : V])
         /\ o.type \in {"Empty", "Boolean", "Integer", "UnsignedInteger", "Decimal",
                        "IpAddress", "IntegerVector", "UnsignedIntegerVector", "String",
                        "Vector", "Collection"}
<1> DEFINE P == Seq([key : Text, value : V])
           Q == Seq([key : {<<>>}, value : V])
<1>1. <<>> \in P
  OBVIOUS
<1>2. Q \subseteq P
  <2>1. [key : {<<>>}, value : V] \subseteq [key : Text, value : V]
    BY TextFacts
  <2> DEFINE R == [key : {<<>>}, value : V]
             W == [key : Text, value : V]
  <2> HIDE DEF R, W
  <2>2. R \subseteq W => Seq(R) \subseteq Seq(W)
    BY SeqMonotonic
  <2> QED BY <2>1, <2>2 DEF R, W
<1>3. \/ o \in Numbers("Empty", {<<>>})
      \/ o \in Numbers("Boolean", [1 .. 1 -> 0 .. 1])
      \/ o \in Numbers("Integer", [1 .. 1 -> -9 .. 9])
      \/ o \in Numbers("UnsignedInteger", [1 .. 1 -> 0 .. 9])
      \/ o \in Numbers("Decimal", [1 .. 4 -> 0 .. 9])
      \/ o \in Numbers("IpAddress", [1 .. 4 -> 0 .. 9])
      \/ o \in Numbers("IntegerVector", Seq(-9 .. 9))
      \/ o \in Numbers("UnsignedIntegerVector", Seq(0 .. 9))
      \/ o \in Holding("String", Text, {<<>>}, {<<>>})
      \/ o \in Holding("Vector", {<<>>}, {<<>>}, Q)
      \/ o \in Holding("Collection", {<<>>}, {<<>>}, P)
  BY DEF Holds, Text
<1> HIDE DEF P, Q
<1>4. o.parts \in P
  BY <1>1, <1>2, <1>3 DEF Numbers, Holding
<1>5. /\ o.type = "Boolean" => o.numbers \in [1 .. 1 -> 0 .. 1]
      /\ o.type = "Integer" => o.numbers \in [1 .. 1 -> -9 .. 9]
      /\ o.type = "UnsignedInteger" => o.numbers \in [1 .. 1 -> 0 .. 9]
      /\ o.type \in {"Decimal", "IpAddress"} => o.numbers \in [1 .. 4 -> 0 .. 9]
  BY <1>3 DEF Numbers, Holding
<1>6. /\ o.type = "IntegerVector" => o.numbers \in Seq(-9 .. 9)
      /\ o.type = "UnsignedIntegerVector" => o.numbers \in Seq(0 .. 9)
      /\ o.type = "String" => o.chars \in Text
  BY <1>3 DEF Numbers, Holding
<1>7. o.type \in {"Empty", "Boolean", "Integer", "UnsignedInteger", "Decimal",
                  "IpAddress", "IntegerVector", "UnsignedIntegerVector", "String",
                  "Vector", "Collection"}
  BY <1>3 DEF Numbers, Holding
<1>8. 1 \in 1 .. 1
  OBVIOUS
<1>9. /\ o.type = "Boolean" => o.numbers[1] \in 0 .. 1
      /\ o.type = "Integer" => o.numbers[1] \in -9 .. 9
      /\ o.type = "UnsignedInteger" => o.numbers[1] \in 0 .. 9
  BY <1>5, <1>8
<1> QED BY <1>4, <1>5, <1>6, <1>7, <1>9 DEF P

\* The elements of a vector of integers render to a text.
LEMMA NumberVectorsType ==
  /\ \A n \in Seq(-9 .. 9) : RenderIntegerVector(n) \in Text
  /\ \A n \in Seq(0 .. 9) : RenderUnsignedIntegerVector(n) \in Text
<1>1. ASSUME NEW n \in Seq(-9 .. 9) PROVE RenderIntegerVector(n) \in Text
  <2> DEFINE s == [i \in DOMAIN n |-> Signed(n[i])]
  <2>1. Len(n) \in Nat /\ DOMAIN n = 1 .. Len(n) /\ \A i \in 1 .. Len(n) : n[i] \in -9 .. 9
    OBVIOUS
  <2>2. s = [i \in 1 .. Len(n) |-> Signed(n[i])] /\ \A i \in 1 .. Len(n) : Signed(n[i]) \in Text
    BY <2>1, NumeralType
  <2> HIDE DEF s
  <2>3. s \in Seq(Text)
    BY <2>1, <2>2
  <2>4. Layout(s) \in Text /\ <<"(">> \in Text /\ <<")">> \in Text
    BY <2>3, LayoutType, TextFacts, TokensFacts
  <2>5. RenderIntegerVector(n) = <<"(">> \o Layout(s) \o <<")">>
    BY DEF RenderIntegerVector, s
  <2> QED BY <2>4, <2>5, TextFacts
<1>2. ASSUME NEW n \in Seq(0 .. 9) PROVE RenderUnsignedIntegerVector(n) \in Text
  <2> DEFINE s == [i \in DOMAIN n |-> Numeral(n[i])]
  <2>1. Len(n) \in Nat /\ DOMAIN n = 1 .. Len(n) /\ \A i \in 1 .. Len(n) : n[i] \in 0 .. 9
    OBVIOUS
  <2>2. s = [i \in 1 .. Len(n) |-> Numeral(n[i])] /\ \A i \in 1 .. Len(n) : Numeral(n[i]) \in Text
    BY <2>1, NumeralType
  <2> HIDE DEF s
  <2>3. s \in Seq(Text)
    BY <2>1, <2>2
  <2>4. Layout(s) \in Text /\ <<"<">> \in Text /\ <<">">> \in Text
    BY <2>3, LayoutType, TextFacts, TokensFacts
  <2>5. RenderUnsignedIntegerVector(n) = <<"<">> \o Layout(s) \o <<">">>
    BY DEF RenderUnsignedIntegerVector, s
  <2> QED BY <2>4, <2>5, TextFacts
<1> QED BY <1>1, <1>2

\* So do a decimal and an address.
LEMMA FoursType ==
  ASSUME NEW n \in [1 .. 4 -> 0 .. 9]
  PROVE  RenderDecimal(n) \in Text /\ RenderIpAddress(n) \in Text
<1>1. \A k \in 1 .. 4 : Numeral(n[k]) \in Text
  BY NumeralType
<1>2. <<"-">> \in Text /\ <<".">> \in Text /\ <<>> \in Text
  BY TextFacts, TokensFacts
<1>3. RenderDecimal(n) \in Text
  <2>1. (IF n[1] = 1 THEN <<"-">> ELSE <<>>) \in Text
    BY <1>2
  <2>2. Numeral(n[2]) \in Text /\ Numeral(n[3]) \in Text
    BY <1>1
  <2> QED BY <1>2, <2>1, <2>2, TextFacts DEF RenderDecimal
<1> DEFINE s == [k \in 1 .. 4 |-> (IF k = 1 THEN <<>> ELSE <<".">>) \o Numeral(n[k])]
<1>4. \A k \in 1 .. 4 : (IF k = 1 THEN <<>> ELSE <<".">>) \o Numeral(n[k]) \in Text
  BY <1>1, <1>2, TextFacts
<1>5. s \in [1 .. 4 -> Text]
  BY <1>4
<1> HIDE DEF s
<1>6. s \in Seq(Text)
  BY <1>5, FunctionIsSeq
<1> QED BY <1>3, <1>6, TextFacts DEF RenderIpAddress, s

\* So do a vector and a collection whose parts do.
LEMMA ContainersType ==
  ASSUME NEW n \in Nat, NEW keys \in [1 .. n -> Text], NEW values \in [1 .. n -> Text]
  PROVE  RenderVector(values) \in Text /\ RenderCollection(keys, values) \in Text
<1>1. values \in Seq(Text) /\ keys \in Seq(Text) /\ DOMAIN keys = 1 .. n
  OBVIOUS
<1>2. RenderVector(values) \in Text
  <2>1. Layout(values) \in Text /\ <<"[">> \in Text /\ <<"]">> \in Text
    BY <1>1, LayoutType, TextFacts, TokensFacts
  <2> QED BY <2>1, TextFacts DEF RenderVector
<1> DEFINE Pair(i) == (IF i = 1 THEN <<>> ELSE <<",", "line">>)
             \o <<"space">> \o keys[i] \o <<":", "space">> \o Indent(values[i])
           s == [i \in DOMAIN keys |-> Pair(i)]
<1>3. <<",", "line">> \in Text /\ <<"space">> \in Text /\ <<":", "space">> \in Text
        /\ <<"{", "}">> \in Text /\ <<"{", "line">> \in Text /\ <<"line", "}">> \in Text
        /\ <<>> \in Text
  BY TextFacts, TokensFacts
<1>4. ASSUME NEW i \in 1 .. n PROVE Pair(i) \in Text
  <2>1. keys[i] \in Text /\ Indent(values[i]) \in Text
    BY IndentType
  <2>2. (IF i = 1 THEN <<>> ELSE <<",", "line">>) \in Text
    BY <1>3
  <2> QED BY <1>3, <2>1, <2>2, TextFacts
<1>5. s = [i \in 1 .. n |-> Pair(i)]
  BY <1>1
<1>6. RenderCollection(keys, values)
        = IF keys = <<>> THEN <<"{", "}">> ELSE <<"{", "line">> \o FlattenSeq(s) \o <<"line", "}">>
  BY DEF RenderCollection
<1> HIDE DEF s, Pair
<1>7. s \in Seq(Text)
  BY <1>4, <1>5
<1>8. FlattenSeq(s) \in Text
  BY <1>7, TextFacts
<1>9. <<"{", "line">> \o FlattenSeq(s) \o <<"line", "}">> \in Text
  BY <1>3, <1>8, TextFacts
<1> QED BY <1>2, <1>3, <1>6, <1>9

\* So does any object whose parts do.
LEMMA RenderOfType ==
  ASSUME NEW V, NEW o \in Holds(V), NEW values \in [DOMAIN o.parts -> Text]
  PROVE  RenderOf(o, values) \in Text
<1> DEFINE n == Len(o.parts)
           keys == [i \in DOMAIN o.parts |-> o.parts[i].key]
<1>1. n \in Nat /\ DOMAIN o.parts = 1 .. n /\ \A i \in 1 .. n : o.parts[i].key \in Text
  <2> DEFINE R == [key : Text, value : V]
  <2>1. o.parts \in Seq(R)
    BY HoldsFacts
  <2> HIDE DEF R
  <2>2. n \in Nat /\ DOMAIN o.parts = 1 .. n /\ \A i \in 1 .. n : o.parts[i] \in R
    BY <2>1
  <2> QED BY <2>2 DEF R
<1>2. keys \in [1 .. n -> Text] /\ values \in [1 .. n -> Text]
  BY <1>1
<1> HIDE DEF n, keys
<1>3. RenderVector(values) \in Text /\ RenderCollection(keys, values) \in Text
  BY <1>1, <1>2, ContainersType
<1>4. CASE o.type \in {"Vector", "Collection"}
  BY <1>3, <1>4 DEF RenderOf, keys
<1>5. CASE o.type \in {"IntegerVector", "UnsignedIntegerVector"}
  BY <1>5, HoldsFacts, NumberVectorsType DEF RenderOf
<1>6. CASE o.type \in {"Decimal", "IpAddress"}
  BY <1>6, HoldsFacts, FoursType DEF RenderOf
<1>7. CASE o.type \in {"Integer", "UnsignedInteger"}
  BY <1>7, HoldsFacts, NumeralType DEF RenderOf
<1>8. CASE o.type \in {"Empty", "Boolean", "String"}
  <2>1. <<"Empty">> \in Text /\ <<"True">> \in Text /\ <<"False">> \in Text /\ <<"quote">> \in Text
    BY TextFacts, TokensFacts
  <2>2. o.type = "String" => RenderString(o.chars) \in Text
    BY <2>1, HoldsFacts, TextFacts DEF RenderString
  <2>3. RenderBoolean(o.numbers[1]) \in Text
    BY <2>1 DEF RenderBoolean
  <2> QED BY <1>8, <2>1, <2>2, <2>3 DEF RenderOf
<1> QED BY <1>4, <1>5, <1>6, <1>7, <1>8, HoldsFacts

\* One level of Rendering, by that below.
Level(n, r) == [o \in Nested[n] |-> RenderOf(o, PartsOf(o, r))]

\* f has the renderings of the objects of each depth up to n.
Rendered(f, n) == f = [m \in 0 .. n |-> Level(m, f[m - 1])]

\* The level below the lowest is of no consequence.
LEMMA LowestLevel == \A r, s : Level(0, r) = Level(0, s)
<1> SUFFICES ASSUME NEW r, NEW s PROVE Level(0, r) = Level(0, s)
  OBVIOUS
<1>1. ASSUME NEW o \in Nested[0] PROVE PartsOf(o, r) = PartsOf(o, s)
  <2>1. o \in Holds({})
    BY NestedEquation
  <2>2. o.parts \in Seq([key : Text, value : {}])
    BY <2>1, HoldsFacts
  <2> DEFINE R == [key : Text, value : {}]
  <2>3. R = {}
    OBVIOUS
  <2> HIDE DEF R
  <2>4. \A i \in DOMAIN o.parts : o.parts[i] \in R
    BY <2>2 DEF R
  <2>5. DOMAIN o.parts = {}
    BY <2>3, <2>4
  <2> QED BY <2>5 DEF PartsOf
<1> QED BY <1>1 DEF Level

\* Up to any depth the objects can be rendered depth by depth ...
LEMMA RenderedExists == \A n \in Nat : \E f : Rendered(f, n)
<1> DEFINE Bad == {n \in Nat : ~\E f : Rendered(f, n)}
<1>1. SUFFICES Bad = {}
  OBVIOUS
<1>2. SUFFICES ASSUME Bad # {} PROVE FALSE
  OBVIOUS
<1>3. Bad \in SUBSET Nat
  OBVIOUS
<1>4. PICK n \in Bad : \A m \in Bad : n <= m
  <2> HIDE DEF Bad
  <2> QED BY <1>2, <1>3, LeastNatural
<1>5. n \in Nat /\ ~\E f : Rendered(f, n)
  OBVIOUS
<1>6. n # 0
  <2> DEFINE f == [m \in 0 .. 0 |-> Level(0, <<>>)]
  <2>1. ASSUME NEW m \in 0 .. 0 PROVE f[m] = Level(m, f[m - 1])
    <3>1. m = 0
      OBVIOUS
    <3>2. Level(0, <<>>) = Level(0, f[m - 1])
      BY LowestLevel
    <3> QED BY <3>1, <3>2
  <2>2. f = [m \in 0 .. 0 |-> f[m]]
    OBVIOUS
  <2> HIDE DEF f
  <2>3. f = [m \in 0 .. 0 |-> Level(m, f[m - 1])]
    BY <2>1, <2>2
  <2> QED BY <1>5, <2>3 DEF Rendered
<1>7. n - 1 \in Nat /\ ~(n <= n - 1)
  BY <1>5, <1>6
<1>8. PICK f : Rendered(f, n - 1)
  BY <1>4, <1>7
<1> DEFINE g == [m \in 0 .. n |-> IF m = n THEN Level(n, f[n - 1]) ELSE f[m]]
<1>9. ASSUME NEW m \in 0 .. n PROVE g[m] = Level(m, g[m - 1])
  <2>1. CASE m = n
    <3>1. n - 1 \in 0 .. n /\ n - 1 # n
      BY <1>5, <1>6
    <3>2. g[n - 1] = f[n - 1]
      BY <3>1
    <3> QED BY <1>6, <2>1, <3>2
  <2>2. CASE m # n /\ m # 0
    <3>1. m \in 0 .. n - 1 /\ m - 1 \in 0 .. n /\ m - 1 # n
      BY <1>5, <2>2
    <3>2. f[m] = Level(m, f[m - 1])
      BY <1>8, <3>1 DEF Rendered
    <3>3. g[m - 1] = f[m - 1]
      BY <3>1
    <3> QED BY <2>2, <3>2, <3>3
  <2>3. CASE m # n /\ m = 0
    <3>1. 0 \in 0 .. n - 1
      BY <1>7
    <3>2. f[0] = Level(0, f[0 - 1])
      BY <1>8, <3>1 DEF Rendered
    <3>3. g[0] = Level(0, f[0 - 1])
      BY <2>3, <3>2
    <3>4. Level(0, f[0 - 1]) = Level(0, g[m - 1])
      BY LowestLevel
    <3> QED BY <2>3, <3>3, <3>4
  <2> QED BY <2>1, <2>2, <2>3
<1>10. Rendered(g, n)
  <2>1. g = [m \in 0 .. n |-> g[m]]
    OBVIOUS
  <2> HIDE DEF g
  <2> QED BY <1>9, <2>1 DEF Rendered
<1> QED BY <1>5, <1>10

\* ... in one way only ...
LEMMA RenderedAgree ==
  ASSUME NEW k \in Nat, NEW l \in Nat, NEW f, NEW g, Rendered(f, k), Rendered(g, l)
  PROVE  \A n \in Nat : n <= k /\ n <= l => f[n] = g[n]
<1> DEFINE Bad == {n \in Nat : n <= k /\ n <= l /\ f[n] # g[n]}
<1>1. SUFFICES ASSUME Bad # {} PROVE FALSE
  OBVIOUS
<1>2. Bad \in SUBSET Nat
  OBVIOUS
<1>3. PICK n \in Bad : \A m \in Bad : n <= m
  <2> HIDE DEF Bad
  <2> QED BY <1>1, <1>2, LeastNatural
<1>4. n \in Nat /\ n <= k /\ n <= l /\ f[n] # g[n]
  OBVIOUS
<1>5. n \in 0 .. k /\ n \in 0 .. l
  BY <1>4
<1>6. f[n] = Level(n, f[n - 1]) /\ g[n] = Level(n, g[n - 1])
  BY <1>5 DEF Rendered
<1>7. CASE n = 0
  <2>1. Level(0, f[n - 1]) = Level(0, g[n - 1])
    BY LowestLevel
  <2> QED BY <1>4, <1>6, <1>7, <2>1
<1>8. CASE n # 0
  <2>1. n - 1 \in Nat /\ n - 1 <= k /\ n - 1 <= l /\ ~(n <= n - 1)
    BY <1>4, <1>8
  <2>2. f[n - 1] = g[n - 1]
    BY <1>3, <2>1
  <2> QED BY <1>4, <1>6, <2>2
<1> QED BY <1>7, <1>8

\* ... so Rendering satisfies the equation it is defined by.
LEMMA RenderingEquation ==
  \A n \in Nat : Rendering[n] = Level(n, Rendering[n - 1])
<1> DEFINE Body(f) == [n \in Nat |-> [o \in Nested[n] |->
                RenderOf(o, [i \in DOMAIN o.parts |-> f[n - 1][o.parts[i].value]])]]
           Up(n) == CHOOSE f : Rendered(f, n)
           g == [n \in Nat |-> Up(n)[n]]
<1>1. \A n \in Nat : Rendered(Up(n), n)
  BY RenderedExists
<1> HIDE DEF Up
<1>2. ASSUME NEW n \in Nat PROVE g[n] = Level(n, g[n - 1])
  <2>1. n \in 0 .. n
    OBVIOUS
  <2>2. Up(n)[n] = Level(n, Up(n)[n - 1])
    BY <1>1, <2>1 DEF Rendered
  <2>3. CASE n # 0
    <3>1. n - 1 \in Nat /\ n - 1 <= n /\ n - 1 <= n - 1
      BY <2>3
    <3>2. Rendered(Up(n), n) /\ Rendered(Up(n - 1), n - 1)
      BY <1>1, <3>1
    <3>3. Up(n)[n - 1] = Up(n - 1)[n - 1]
      BY <3>1, <3>2, RenderedAgree
    <3> QED BY <2>2, <3>1, <3>3
  <2>4. CASE n = 0
    <3>1. Level(0, Up(n)[n - 1]) = Level(0, g[n - 1])
      BY LowestLevel
    <3> QED BY <2>2, <2>4, <3>1
  <2> QED BY <2>3, <2>4
<1>3. g = Body(g)
  <2>1. g = [n \in Nat |-> g[n]]
    OBVIOUS
  <2> HIDE DEF g
  <2> QED BY <1>2, <2>1 DEF Level, PartsOf
<1>4. Rendering = CHOOSE f : f = Body(f)
  BY DEF Rendering
<1>5. Rendering = Body(Rendering)
  <2> HIDE DEF g, Body
  <2> QED BY <1>3, <1>4
<1> DEFINE r == Rendering
<1>6. r = Body(r)
  BY <1>5
<1> HIDE DEF r
<1>7. \A n \in Nat : r[n] = Level(n, r[n - 1])
  BY <1>6 DEF Level, PartsOf
<1> QED BY <1>7 DEF r

\* The text of any object is a sequence of tokens.
LEMMA RenderType ==
  ASSUME NEW o \in Nested[MaxDepth]
  PROVE  Render(o) \in Text
<1> DEFINE Bad == {n \in Nat : \E p \in Nested[n] : Rendering[n][p] \notin Text}
<1>1. SUFFICES Bad = {}
  BY <1>1, DepthAssumption DEF Render, DepthAssumption
<1>2. SUFFICES ASSUME Bad # {} PROVE FALSE
  OBVIOUS
<1>3. Bad \in SUBSET Nat
  OBVIOUS
<1>4. PICK n \in Bad : \A m \in Bad : n <= m
  <2> HIDE DEF Bad
  <2> QED BY <1>2, <1>3, LeastNatural
<1>5. n \in Nat
  OBVIOUS
<1>6. PICK p \in Nested[n] : Rendering[n][p] \notin Text
  OBVIOUS
<1> DEFINE below == IF n = 0 THEN {} ELSE Nested[n - 1]
<1>7. p \in Holds(below)
  BY <1>5, <1>6, NestedEquation
<1>8. Rendering[n][p] = RenderOf(p, PartsOf(p, Rendering[n - 1]))
  <2>1. Rendering[n] = Level(n, Rendering[n - 1])
    BY <1>5, RenderingEquation
  <2> QED BY <1>6, <2>1 DEF Level
<1>9. ASSUME NEW i \in DOMAIN p.parts PROVE Rendering[n - 1][p.parts[i].value] \in Text
  <2> DEFINE R == [key : Text, value : below]
  <2>1. p.parts \in Seq(R)
    <3> HIDE DEF below
    <3> QED BY <1>7, HoldsFacts
  <2> HIDE DEF R
  <2>2. p.parts[i] \in R
    BY <2>1
  <2>3. p.parts[i].value \in below
    BY <2>2 DEF R
  <2>4. n # 0 /\ p.parts[i].value \in Nested[n - 1]
    BY <2>3
  <2>5. n - 1 \in Nat /\ ~(n <= n - 1)
    BY <1>5, <2>4
  <2> QED BY <1>4, <2>4, <2>5
<1>10. PartsOf(p, Rendering[n - 1]) \in [DOMAIN p.parts -> Text]
  BY <1>9 DEF PartsOf
<1>11. RenderOf(p, PartsOf(p, Rendering[n - 1])) \in Text
  <2> HIDE DEF below
  <2> QED BY <1>7, <1>10, RenderOfType
<1> QED BY <1>6, <1>8, <1>11

-------------------------------------------------------------------------------
(* Pieces of a text *)

\* The least element of a set of naturals, and the greatest of a bounded one.
LEMMA MinFacts ==
  ASSUME NEW S \in SUBSET Nat, S # {}
  PROVE  Min(S) \in S /\ \A n \in S : Min(S) <= n
<1>1. \E x \in S : \A y \in S : x <= y
  BY LeastNatural
<1> QED BY <1>1 DEF Min

LEMMA MaxFacts ==
  ASSUME NEW n \in Nat, NEW S \in SUBSET (0 .. n), S # {}
  PROVE  Max(S) \in S /\ \A m \in S : m <= Max(S)
<1> DEFINE U == {k \in Nat : \A m \in S : m <= k}
<1>0. S \subseteq Nat /\ n \in Nat
  OBVIOUS
<1>1. U \in SUBSET Nat /\ n \in U
  OBVIOUS
<1>2. PICK k \in U : \A l \in U : k <= l
  <2> HIDE DEF U
  <2> QED BY <1>1, LeastNatural
<1>3. k \in Nat /\ \A m \in S : m <= k
  OBVIOUS
<1>4. k \in S
  <2> SUFFICES ASSUME k \notin S PROVE FALSE
    OBVIOUS
  <2>1. \A m \in S : m \in Nat /\ m <= k /\ m # k
    BY <1>0, <1>3
  <2>2. k # 0
    <3>1. PICK m \in S : TRUE
      OBVIOUS
    <3>2. m \in Nat /\ m <= k /\ m # k
      BY <2>1, <3>1
    <3> QED BY <1>3, <3>2
  <2>3. k - 1 \in Nat /\ ~(k <= k - 1) /\ \A m \in S : m <= k - 1
    BY <1>3, <2>1, <2>2
  <2> QED BY <1>2, <2>3
<1>5. \E x \in S : \A y \in S : x >= y
  BY <1>3, <1>4
<1>6. Max(S) \in S /\ \A y \in S : Max(S) >= y
  BY <1>5 DEF Max
<1> QED BY <1>6

\* A piece of a text is a text.
LEMMA PieceFacts ==
  ASSUME NEW t \in Text, NEW i \in 1 .. Len(t) + 1, NEW j \in 0 .. Len(t), i <= j + 1
  PROVE  SubSeq(t, i, j) \in Text /\ Len(SubSeq(t, i, j)) = j - i + 1
<1>1. Len(t) \in Nat /\ \A k \in 1 .. Len(t) : t[k] \in Tokens
  BY DEF Text
<1>2. \A k \in i .. j : t[k] \in Tokens
  BY <1>1
<1>3. /\ SubSeq(t, i, j) \in Seq(Tokens)
      /\ Len(SubSeq(t, i, j)) = IF i <= j THEN j - i + 1 ELSE 0
  BY <1>1, <1>2, SubSeqProperties
<1> QED BY <1>1, <1>3 DEF Text

\* A trimmed text is no longer than it was.
LEMMA TrimFacts ==
  ASSUME NEW t \in Text
  PROVE  Trim(t) \in Text /\ Len(Trim(t)) <= Len(t)
<1> DEFINE solid == {i \in DOMAIN t : t[i] \notin Blank}
<1>1. Len(t) \in Nat /\ DOMAIN t = 1 .. Len(t)
  BY DEF Text
<1>2. CASE solid = {}
  <2>1. Trim(t) = <<>> /\ Len(<<>>) = 0
    BY <1>2 DEF Trim
  <2> QED BY <1>1, <2>1, TextFacts
<1>3. CASE solid # {}
  <2>1. solid \in SUBSET Nat /\ solid \in SUBSET (0 .. Len(t)) /\ solid \subseteq 1 .. Len(t)
    BY <1>1
  <2>2. Trim(t) = SubSeq(t, Min(solid), Max(solid))
    BY <1>3 DEF Trim
  <2> HIDE DEF solid
  <2>3. Min(solid) \in solid /\ Max(solid) \in solid /\ Min(solid) <= Max(solid)
    BY <1>1, <1>3, <2>1, MinFacts, MaxFacts
  <2> DEFINE a == Min(solid)
             b == Max(solid)
  <2>4. a \in 1 .. Len(t) /\ b \in 1 .. Len(t) /\ a <= b
    BY <2>1, <2>3
  <2> HIDE DEF a, b
  <2>5. a \in 1 .. Len(t) + 1 /\ b \in 0 .. Len(t) /\ a <= b + 1
    BY <1>1, <2>4
  <2>6. SubSeq(t, a, b) \in Text /\ Len(SubSeq(t, a, b)) = b - a + 1
    BY <2>5, PieceFacts
  <2> QED BY <1>1, <2>2, <2>4, <2>6 DEF a, b
<1> QED BY <1>2, <1>3

\* A component ends at a comma or at the given end.
LEMMA ComponentFacts ==
  ASSUME NEW t \in Text, NEW i \in 2 .. Len(t)
  PROVE  LET element == ParseComponent(t, i, Len(t)) IN
         /\ element \in Text
         /\ i + Len(element) \in i .. Len(t)
         /\ i + Len(element) = Len(t) \/ t[i + Len(element)] = ","
<1> DEFINE n == Len(t)
           Unquoted(j) == Cardinality({k \in i .. j - 1 : t[k] = "quote"}) % 2 = 0
           Count(tokens, j) == Cardinality({k \in i .. j - 1 : t[k] \in tokens /\ Unquoted(k)})
           Outside(j) == Unquoted(j) /\ Count(DOMAIN Closing, j) <= Count(Range(Closing), j)
           ends == {j \in i .. n : j = n \/ (t[j] = "," /\ Outside(j))}
           last == Min(ends)
<1>1. n \in Nat /\ i \in Nat /\ i <= n /\ i >= 2
  BY DEF Text
<1>2. ParseComponent(t, i, n) = SubSeq(t, i, last - 1)
  BY DEF ParseComponent
<1> HIDE DEF Unquoted, Count, Outside
<1>3. ends \in SUBSET Nat
  <2>1. i .. n \subseteq Nat
    BY <1>1
  <2> QED BY <2>1
<1>4. n \in ends
  <2>1. n \in i .. n
    BY <1>1
  <2> QED BY <2>1
<1>5. \A k \in ends : k \in i .. n /\ (k = n \/ t[k] = ",")
  OBVIOUS
<1> HIDE DEF ends
<1>6. last \in ends
  BY <1>3, <1>4, MinFacts
<1>7. last \in i .. n /\ (last = n \/ t[last] = ",")
  BY <1>5, <1>6
<1> HIDE DEF last
<1>a. last \in Nat /\ last >= i /\ last <= n
  <2>1. last \in i .. n
    BY <1>7
  <2> HIDE DEF n
  <2> QED BY <1>1, <2>1
<1>8. i \in 1 .. n + 1 /\ last - 1 \in 0 .. n /\ i <= last - 1 + 1
  <2> HIDE DEF n
  <2> QED BY <1>1, <1>a
<1>9. SubSeq(t, i, last - 1) \in Text /\ Len(SubSeq(t, i, last - 1)) = last - 1 - i + 1
  BY <1>8, PieceFacts
<1>10. i + Len(SubSeq(t, i, last - 1)) = last
  <2> HIDE DEF n
  <2> QED BY <1>1, <1>9, <1>a
<1> QED BY <1>2, <1>7, <1>9, <1>10

-------------------------------------------------------------------------------
(* The order of the keys *)

\* Tokens with the same rank are the same.
LEMMA RankFacts ==
  /\ \A t \in Tokens : Rank(t) \in Nat
  /\ \A t, u \in Tokens : Rank(t) = Rank(u) => t = u
<1>1. DOMAIN Order \subseteq Nat
  <2>1. Order \in Seq(Tokens)
    BY TokensFacts
  <2> QED BY <2>1
<1>2. ASSUME NEW t \in Tokens PROVE Rank(t) \in DOMAIN Order /\ Order[Rank(t)] = t
  <2>1. \E n \in DOMAIN Order : Order[n] = t
    BY DEF Tokens, ToSet
  <2> QED BY <2>1 DEF Rank
<1> QED BY <1>1, <1>2

\* k and l are alike up to i.
Alike(k, l, i) == \A j \in 1 .. i : k[j] = l[j]

\* To have the same first i tokens is to be alike up to i.
LEMMA PrefixesAlike ==
  ASSUME NEW k \in Text, NEW l \in Text, NEW i \in Nat, i <= Len(k), i <= Len(l)
  PROVE  SubSeq(k, 1, i) = SubSeq(l, 1, i) <=> Alike(k, l, i)
<1>1. Len(k) \in Nat /\ Len(l) \in Nat
  BY DEF Text
<1>2. /\ SubSeq(k, 1, i) = [j \in 1 .. i |-> k[j]]
      /\ SubSeq(l, 1, i) = [j \in 1 .. i |-> l[j]]
  BY <1>1 DEF Text
<1> QED BY <1>2 DEF Alike

\* A key is before another if it is a proper prefix of it, or if it is smaller
\* where they part.
LEMMA BeforeMeans ==
  ASSUME NEW k \in Text, NEW l \in Text
  PROVE  Before(k, l) <=>
           \/ Len(k) < Len(l) /\ Alike(k, l, Len(k))
           \/ \E i \in Nat : /\ i < Len(k) /\ i < Len(l) /\ Alike(k, l, i)
                             /\ Rank(k[i + 1]) < Rank(l[i + 1])
<1>1. /\ Len(k) \in Nat /\ Len(l) \in Nat /\ DOMAIN k = 1 .. Len(k) /\ DOMAIN l = 1 .. Len(l)
      /\ k = [j \in 1 .. Len(k) |-> k[j]] /\ l = [j \in 1 .. Len(l) |-> l[j]]
  BY DEF Text
<1>2. IsStrictPrefix(k, l) <=> Len(k) < Len(l) /\ Alike(k, l, Len(k))
  <2>1. IsPrefix(k, l) <=> Len(k) <= Len(l) /\ Alike(k, l, Len(k))
    <3>1. Len(k) <= Len(l) =>
            (SubSeq(k, 1, Len(k)) = SubSeq(l, 1, Len(k)) <=> Alike(k, l, Len(k)))
      BY <1>1, PrefixesAlike
    <3> QED BY <3>1 DEF IsPrefix
  <2>2. Len(k) = Len(l) /\ Alike(k, l, Len(k)) => k = l
    BY <1>1 DEF Alike
  <2>3. k = l => ~(Len(k) < Len(l))
    BY <1>1
  <2>4. Len(k) <= Len(l) /\ Len(k) # Len(l) <=> Len(k) < Len(l)
    <3>1. Len(k) \in Nat /\ Len(l) \in Nat
      BY <1>1
    <3> QED BY <3>1
  <2> QED BY <2>1, <2>2, <2>3, <2>4 DEF IsStrictPrefix
<1>3. ASSUME NEW i \in DOMAIN k \cap DOMAIN l,
             SubSeq(k, 1, i - 1) = SubSeq(l, 1, i - 1), Rank(k[i]) < Rank(l[i])
      PROVE  \E m \in Nat : /\ m < Len(k) /\ m < Len(l) /\ Alike(k, l, m)
                            /\ Rank(k[m + 1]) < Rank(l[m + 1])
  <2> DEFINE m == i - 1
  <2>1. m \in Nat /\ m < Len(k) /\ m < Len(l) /\ m + 1 = i
    BY <1>1, <1>3
  <2>2. Alike(k, l, m)
    <3>1. m <= Len(k) /\ m <= Len(l)
      BY <1>1, <2>1
    <3> QED BY <1>3, <2>1, <3>1, PrefixesAlike
  <2> HIDE DEF m
  <2> QED BY <1>3, <2>1, <2>2
<1>4. ASSUME NEW m \in Nat, m < Len(k), m < Len(l), Alike(k, l, m),
             Rank(k[m + 1]) < Rank(l[m + 1])
      PROVE  \E i \in DOMAIN k \cap DOMAIN l :
               SubSeq(k, 1, i - 1) = SubSeq(l, 1, i - 1) /\ Rank(k[i]) < Rank(l[i])
  <2>1. m + 1 \in DOMAIN k \cap DOMAIN l /\ m + 1 - 1 = m /\ m <= Len(k) /\ m <= Len(l)
    BY <1>1, <1>4
  <2>2. SubSeq(k, 1, m) = SubSeq(l, 1, m)
    BY <1>4, <2>1, PrefixesAlike
  <2> QED BY <1>4, <2>1, <2>2
<1> QED BY <1>2, <1>3, <1>4 DEF Before

\* Keys that are not the same are in an order.
LEMMA BeforeTotal ==
  ASSUME NEW k \in Text, NEW l \in Text, k # l, ~Before(k, l)
  PROVE  Before(l, k)
<1>1. /\ Len(k) \in Nat /\ Len(l) \in Nat
      /\ k = [j \in 1 .. Len(k) |-> k[j]] /\ l = [j \in 1 .. Len(l) |-> l[j]]
      /\ \A j \in 1 .. Len(k) : k[j] \in Tokens
      /\ \A j \in 1 .. Len(l) : l[j] \in Tokens
  BY DEF Text
<1> DEFINE D == {i \in Nat : i < Len(k) /\ i < Len(l) /\ k[i + 1] # l[i + 1]}
<1>2. CASE D = {}
  <2>1. \A j \in 1 .. Len(k) : j <= Len(l) => k[j] = l[j]
    <3> SUFFICES ASSUME NEW j \in 1 .. Len(k), j <= Len(l) PROVE k[j] = l[j]
      OBVIOUS
    <3>1. j - 1 \in Nat /\ j - 1 < Len(k) /\ j - 1 < Len(l) /\ j - 1 + 1 = j
      BY <1>1
    <3>2. j - 1 \notin D
      BY <1>2
    <3> QED BY <3>1, <3>2
  <2>2. CASE Len(k) < Len(l)
    <3>1. Alike(k, l, Len(k))
      BY <1>1, <2>1, <2>2 DEF Alike
    <3> QED BY <2>2, <3>1, BeforeMeans
  <2>3. CASE Len(l) < Len(k)
    <3>1. Alike(l, k, Len(l))
      BY <1>1, <2>1, <2>3 DEF Alike
    <3> QED BY <2>3, <3>1, BeforeMeans
  <2>4. CASE Len(k) = Len(l)
    <3>1. \A j \in 1 .. Len(k) : k[j] = l[j]
      BY <1>1, <2>1, <2>4
    <3>2. k = l
      BY <1>1, <2>4, <3>1
    <3> QED BY <3>2
  <2>5. Len(k) < Len(l) \/ Len(l) < Len(k) \/ Len(k) = Len(l)
    <3>1. Len(k) \in Nat /\ Len(l) \in Nat
      BY <1>1
    <3> QED BY <3>1
  <2> QED BY <2>2, <2>3, <2>4, <2>5
<1>3. CASE D # {}
  <2>1. D \in SUBSET Nat
    OBVIOUS
  <2>2. PICK i \in D : \A m \in D : i <= m
    <3> HIDE DEF D
    <3> QED BY <1>3, <2>1, LeastNatural
  <2>3. i \in Nat /\ i < Len(k) /\ i < Len(l) /\ k[i + 1] # l[i + 1]
    OBVIOUS
  <2>4. ASSUME NEW j \in 1 .. i PROVE k[j] = l[j]
    <3>1. j - 1 \in Nat /\ j - 1 < Len(k) /\ j - 1 < Len(l) /\ j - 1 + 1 = j /\ ~(i <= j - 1)
      BY <1>1, <2>3
    <3>2. j - 1 \notin D
      BY <2>2, <3>1
    <3> QED BY <3>1, <3>2
  <2>5. Alike(k, l, i) /\ Alike(l, k, i)
    BY <2>4 DEF Alike
  <2>6. i + 1 \in 1 .. Len(k) /\ i + 1 \in 1 .. Len(l)
    BY <1>1, <2>3
  <2>7. k[i + 1] \in Tokens /\ l[i + 1] \in Tokens
    BY <1>1, <2>6
  <2> DEFINE a == Rank(k[i + 1])
             b == Rank(l[i + 1])
  <2>8. a \in Nat /\ b \in Nat /\ a # b
    BY <2>3, <2>7, RankFacts
  <2> HIDE DEF a, b
  <2>9. a < b \/ b < a
    BY <2>8
  <2>10. ~(a < b)
    BY <2>3, <2>5, BeforeMeans DEF a, b
  <2> QED BY <2>3, <2>5, <2>9, <2>10, BeforeMeans DEF a, b
<1> QED BY <1>2, <1>3

\* ... and the order is transitive.
LEMMA BeforeTransitive ==
  ASSUME NEW k \in Text, NEW l \in Text, NEW m \in Text, Before(k, l), Before(l, m)
  PROVE  Before(k, m)
<1>1. /\ Len(k) \in Nat /\ Len(l) \in Nat /\ Len(m) \in Nat
      /\ \A j \in 1 .. Len(k) : k[j] \in Tokens
      /\ \A j \in 1 .. Len(l) : l[j] \in Tokens
      /\ \A j \in 1 .. Len(m) : m[j] \in Tokens
  BY DEF Text
<1>2. CASE Len(k) < Len(l) /\ Alike(k, l, Len(k))
  <2>1. CASE Len(l) < Len(m) /\ Alike(l, m, Len(l))
    <3>1. Len(k) < Len(m) /\ Alike(k, m, Len(k))
      BY <1>1, <1>2, <2>1 DEF Alike
    <3> QED BY <3>1, BeforeMeans
  <2>2. ASSUME NEW i \in Nat, i < Len(l), i < Len(m), Alike(l, m, i),
               Rank(l[i + 1]) < Rank(m[i + 1])
        PROVE  Before(k, m)
    <3>1. CASE i < Len(k)
      <4>1. Alike(k, m, i) /\ k[i + 1] = l[i + 1]
        BY <1>1, <1>2, <2>2, <3>1 DEF Alike
      <4> QED BY <2>2, <3>1, <4>1, BeforeMeans
    <3>2. CASE ~(i < Len(k))
      <4>1. Len(k) < Len(m) /\ Alike(k, m, Len(k))
        BY <1>1, <1>2, <2>2, <3>2 DEF Alike
      <4> QED BY <4>1, BeforeMeans
    <3> QED BY <3>1, <3>2
  <2> QED BY <2>1, <2>2, BeforeMeans
<1>3. ASSUME NEW h \in Nat, h < Len(k), h < Len(l), Alike(k, l, h),
             Rank(k[h + 1]) < Rank(l[h + 1])
      PROVE  Before(k, m)
  <2>1. CASE Len(l) < Len(m) /\ Alike(l, m, Len(l))
    <3>1. h < Len(m) /\ Alike(k, m, h) /\ l[h + 1] = m[h + 1]
      BY <1>1, <1>3, <2>1 DEF Alike
    <3> QED BY <1>3, <3>1, BeforeMeans
  <2>2. ASSUME NEW i \in Nat, i < Len(l), i < Len(m), Alike(l, m, i),
               Rank(l[i + 1]) < Rank(m[i + 1])
        PROVE  Before(k, m)
    <3>1. CASE i < h
      <4>1. i < Len(k) /\ Alike(k, m, i) /\ k[i + 1] = l[i + 1]
        BY <1>1, <1>3, <2>2, <3>1 DEF Alike
      <4> QED BY <2>2, <4>1, BeforeMeans
    <3>2. CASE h < i
      <4>1. h < Len(m) /\ Alike(k, m, h) /\ l[h + 1] = m[h + 1]
        BY <1>1, <1>3, <2>2, <3>2 DEF Alike
      <4> QED BY <1>3, <4>1, BeforeMeans
    <3>3. CASE i = h
      <4>1. Alike(k, m, h)
        BY <1>1, <1>3, <2>2, <3>3 DEF Alike
      <4>2. h + 1 \in 1 .. Len(k) /\ h + 1 \in 1 .. Len(l) /\ h + 1 \in 1 .. Len(m)
        BY <1>1, <1>3, <2>2, <3>3
      <4> DEFINE a == Rank(k[h + 1])
                 b == Rank(l[h + 1])
                 c == Rank(m[h + 1])
      <4>3. a \in Nat /\ b \in Nat /\ c \in Nat
        BY <1>1, <4>2, RankFacts
      <4>4. a < b /\ b < c
        BY <1>3, <2>2, <3>3
      <4> HIDE DEF a, b, c
      <4>5. a < c
        BY <4>3, <4>4
      <4> QED BY <1>3, <2>2, <3>3, <4>1, <4>5, BeforeMeans DEF a, c
    <3> QED BY <3>1, <3>2, <3>3
  <2> QED BY <2>1, <2>2, BeforeMeans
<1> QED BY <1>2, <1>3, BeforeMeans

-------------------------------------------------------------------------------
(* Sequences whose elements may be anything *)

IsSeq(s) == s \in Seq({s[i] : i \in DOMAIN s})

LEMMA SeqIsSeq ==
  ASSUME NEW S, NEW s \in Seq(S)
  PROVE  IsSeq(s)
BY SeqOfRange DEF IsSeq, Range

LEMMA SeqFacts ==
  ASSUME NEW s, IsSeq(s)
  PROVE  Len(s) \in Nat /\ DOMAIN s = 1 .. Len(s) /\ (s = <<>> <=> Len(s) = 0)
<1> DEFINE S == {s[i] : i \in DOMAIN s}
<1>1. s \in Seq(S)
  BY DEF IsSeq
<1> HIDE DEF S
<1> QED BY <1>1

LEMMA EmptyIsSeq == IsSeq(<<>>) /\ Len(<<>>) = 0 /\ DOMAIN <<>> = {}
<1>1. <<>> \in Seq(Nat)
  OBVIOUS
<1>2. IsSeq(<<>>)
  BY <1>1, SeqIsSeq
<1> QED BY <1>2

LEMMA AppendIsSeq ==
  ASSUME NEW s, IsSeq(s), NEW e
  PROVE  /\ IsSeq(Append(s, e))
         /\ Len(Append(s, e)) = Len(s) + 1
         /\ \A i \in 1 .. Len(s) : Append(s, e)[i] = s[i]
         /\ Append(s, e)[Len(s) + 1] = e
<1> DEFINE S == {s[i] : i \in DOMAIN s}
           T == S \cup {e}
<1>1. s \in Seq(S) /\ S \subseteq T /\ e \in T
  BY DEF IsSeq
<1> HIDE DEF S, T
<1>2. s \in Seq(T)
  BY <1>1, SeqMonotonic
<1>3. Append(s, e) \in Seq(T)
  BY <1>1, <1>2, AppendProperties
<1>4. IsSeq(Append(s, e))
  BY <1>3, SeqIsSeq
<1> QED BY <1>1, <1>2, <1>4, AppendProperties

Put(s, i, e) == [s EXCEPT ![i] = e]

LEMMA PutIsSeq ==
  ASSUME NEW s, IsSeq(s), NEW i \in 1 .. Len(s), NEW e
  PROVE  /\ IsSeq(Put(s, i, e))
         /\ Len(Put(s, i, e)) = Len(s)
         /\ \A j \in 1 .. Len(s) : Put(s, i, e)[j] = IF j = i THEN e ELSE s[j]
<1> USE DEF Put
<1> DEFINE S == {s[j] : j \in DOMAIN s}
           T == S \cup {e}
<1>1. s \in Seq(S) /\ S \subseteq T /\ e \in T
  BY DEF IsSeq
<1> HIDE DEF S, T
<1>2. s \in Seq(T)
  BY <1>1, SeqMonotonic
<1>3. [s EXCEPT ![i] = e] \in Seq(T)
  BY <1>1, <1>2, ExceptSeq
<1>4. IsSeq([s EXCEPT ![i] = e])
  BY <1>3, SeqIsSeq
<1> QED BY <1>1, <1>2, <1>4, ExceptSeq

LEMMA FrontIsSeq ==
  ASSUME NEW s, IsSeq(s), s # <<>>
  PROVE  /\ IsSeq(Front(s))
         /\ Len(Front(s)) = Len(s) - 1
         /\ \A i \in 1 .. Len(s) - 1 : Front(s)[i] = s[i]
<1> DEFINE S == {s[i] : i \in DOMAIN s}
<1>1. s \in Seq(S)
  BY DEF IsSeq
<1>2. Len(s) \in Nat \ {0} /\ DOMAIN s = 1 .. Len(s)
  BY SeqFacts
<1>3. \A i \in 1 .. Len(s) - 1 : s[i] \in S
  BY <1>2
<1> HIDE DEF S
<1>4. /\ SubSeq(s, 1, Len(s) - 1) \in Seq(S)
      /\ Len(SubSeq(s, 1, Len(s) - 1)) = IF 1 <= Len(s) - 1 THEN Len(s) - 1 - 1 + 1 ELSE 0
      /\ \A i \in 1 .. Len(s) - 1 - 1 + 1 : SubSeq(s, 1, Len(s) - 1)[i] = s[1 + i - 1]
  BY <1>2, <1>3, SubSeqProperties
<1>5. IsSeq(SubSeq(s, 1, Len(s) - 1))
  BY <1>4, SeqIsSeq
<1> DEFINE t == SubSeq(s, 1, Len(s) - 1)
<1>6. Front(s) = t
  BY DEF Front
<1>7. Len(t) = Len(s) - 1
  <2> HIDE DEF t
  <2> QED BY <1>2, <1>4 DEF t
<1>8. ASSUME NEW i \in 1 .. Len(s) - 1 PROVE t[i] = s[i]
  <2>1. i \in 1 .. Len(s) - 1 - 1 + 1 /\ 1 + i - 1 = i
    BY <1>2
  <2> QED BY <1>4, <2>1
<1> HIDE DEF t
<1> QED BY <1>5, <1>6, <1>7, <1>8 DEF t

\* Inserting an element at i moves those from i on up by one.
LEMMA InsertIsSeq ==
  ASSUME NEW s, IsSeq(s), NEW i \in 1 .. Len(s) + 1, NEW e
  PROVE  /\ IsSeq(InsertAt(s, i, e))
         /\ Len(InsertAt(s, i, e)) = Len(s) + 1
         /\ \A j \in 1 .. Len(s) + 1 :
              InsertAt(s, i, e)[j] = IF j < i THEN s[j] ELSE IF j = i THEN e ELSE s[j - 1]
<1> DEFINE S == {s[j] : j \in DOMAIN s}
           T == S \cup {e}
           n == Len(s)
           front == SubSeq(s, 1, i - 1)
           back == SubSeq(s, i, n)
           one == <<e>>
<1>1. s \in Seq(S) /\ S \subseteq T /\ e \in T
  BY DEF IsSeq
<1>2. n \in Nat /\ DOMAIN s = 1 .. n
  BY SeqFacts
<1> HIDE DEF S, T
<1>3. s \in Seq(T)
  BY <1>1, SeqMonotonic
<1>4. \A j \in 1 .. n : s[j] \in T
  BY <1>2, <1>3
<1> HIDE DEF n
<1>a. i \in Nat /\ i >= 1 /\ i <= n + 1
  BY <1>2 DEF n
<1>5. /\ front \in Seq(T) /\ Len(front) = i - 1
      /\ \A j \in 1 .. i - 1 : front[j] = s[j]
  <2>1. \A j \in 1 .. i - 1 : s[j] \in T
    BY <1>2, <1>4, <1>a
  <2>2. /\ front \in Seq(T)
        /\ Len(front) = IF 1 <= i - 1 THEN i - 1 - 1 + 1 ELSE 0
        /\ \A j \in 1 .. i - 1 - 1 + 1 : front[j] = s[1 + j - 1]
    BY <1>a, <2>1, SubSeqProperties
  <2>3. i - 1 - 1 + 1 = i - 1
    BY <1>a
  <2> HIDE DEF front
  <2>4. Len(front) = i - 1
    BY <1>a, <2>2
  <2>5. \A j \in 1 .. i - 1 : front[j] = s[j]
    <3> SUFFICES ASSUME NEW j \in 1 .. i - 1 PROVE front[j] = s[j]
      OBVIOUS
    <3>1. 1 + j - 1 = j
      OBVIOUS
    <3> QED BY <2>2, <2>3, <3>1
  <2> QED BY <2>2, <2>4, <2>5
<1>6. /\ back \in Seq(T) /\ Len(back) = n - i + 1
      /\ \A j \in 1 .. n - i + 1 : back[j] = s[i + j - 1]
  <2>1. \A j \in i .. n : s[j] \in T
    BY <1>2, <1>4, <1>a
  <2>2. /\ back \in Seq(T)
        /\ Len(back) = IF i <= n THEN n - i + 1 ELSE 0
        /\ \A j \in 1 .. n - i + 1 : back[j] = s[i + j - 1]
    BY <1>2, <1>a, <2>1, SubSeqProperties
  <2> HIDE DEF back
  <2>3. Len(back) = n - i + 1
    BY <1>2, <1>a, <2>2
  <2> QED BY <2>2, <2>3
<1>7. one \in Seq(T) /\ Len(one) = 1 /\ one[1] = e
  BY <1>1
<1>8. InsertAt(s, i, e) = front \o one \o back
  BY DEF InsertAt, n
<1> HIDE DEF front, back, one
<1>9. /\ front \o one \in Seq(T) /\ Len(front \o one) = i
      /\ \A j \in 1 .. i : (front \o one)[j] = IF j < i THEN s[j] ELSE e
  <2>1. /\ front \o one \in Seq(T) /\ Len(front \o one) = Len(front) + Len(one)
        /\ \A j \in 1 .. Len(front) + Len(one) :
             (front \o one)[j] = IF j <= Len(front) THEN front[j] ELSE one[j - Len(front)]
    BY <1>5, <1>7, ConcatProperties
  <2>2. Len(front) + Len(one) = i
    BY <1>5, <1>7, <1>a
  <2>3. ASSUME NEW j \in 1 .. i PROVE (front \o one)[j] = IF j < i THEN s[j] ELSE e
    <3>1. (front \o one)[j] = IF j <= i - 1 THEN front[j] ELSE one[j - (i - 1)]
      BY <1>5, <2>1, <2>2
    <3>2. CASE j < i
      <4>1. j <= i - 1 /\ j \in 1 .. i - 1
        BY <1>a, <3>2
      <4> QED BY <1>5, <3>1, <3>2, <4>1
    <3>3. CASE ~(j < i)
      <4>1. ~(j <= i - 1) /\ j - (i - 1) = 1
        BY <1>a, <3>3
      <4> QED BY <1>7, <3>1, <3>3, <4>1
    <3> QED BY <3>2, <3>3
  <2> QED BY <2>1, <2>2, <2>3
<1> DEFINE u == front \o one
<1> HIDE DEF u
<1>10. /\ u \o back \in Seq(T) /\ Len(u \o back) = Len(u) + Len(back)
       /\ \A j \in 1 .. Len(u) + Len(back) :
            (u \o back)[j] = IF j <= Len(u) THEN u[j] ELSE back[j - Len(u)]
  <2>1. u \in Seq(T)
    BY <1>9 DEF u
  <2> QED BY <1>6, <2>1, ConcatProperties
<1>11. Len(u) = i /\ Len(u) + Len(back) = n + 1
  BY <1>2, <1>6, <1>9, <1>a DEF u
<1>12. ASSUME NEW j \in 1 .. n + 1
       PROVE  (u \o back)[j] = IF j < i THEN s[j] ELSE IF j = i THEN e ELSE s[j - 1]
  <2>1. (u \o back)[j] = IF j <= i THEN u[j] ELSE back[j - i]
    BY <1>10, <1>11
  <2>2. CASE j <= i
    <3>1. j \in 1 .. i
      BY <1>2, <1>a, <2>2
    <3>2. u[j] = IF j < i THEN s[j] ELSE e
      BY <1>9, <3>1 DEF u
    <3>3. j < i \/ j = i
      BY <1>a, <2>2, <3>1
    <3> QED BY <1>a, <2>1, <2>2, <3>2, <3>3
  <2>3. CASE ~(j <= i)
    <3>1. j - i \in 1 .. n - i + 1 /\ i + (j - i) - 1 = j - 1 /\ ~(j < i) /\ j # i
      BY <1>2, <1>a, <2>3
    <3>2. back[j - i] = s[i + (j - i) - 1]
      BY <1>6, <3>1
    <3> QED BY <2>1, <2>3, <3>1, <3>2
  <2> QED BY <2>2, <2>3
<1>13. InsertAt(s, i, e) = u \o back
  BY <1>8 DEF u
<1>14. IsSeq(u \o back)
  BY <1>10, SeqIsSeq
<1>15. Len(u \o back) = n + 1
  BY <1>10, <1>11
<1> QED BY <1>12, <1>13, <1>14, <1>15 DEF n

-------------------------------------------------------------------------------
(* An object under construction *)

\* The parts of a vector or collection and their keys, which for a vector are empty.
PartsOK(o) == IsSeq(o.parts) /\ \A i \in DOMAIN o.parts : o.parts[i].key \in Text

\* std::map: each key once, in their order.
InOrder(o) ==
  o.type = "Collection" =>
    \A i, j \in DOMAIN o.parts : i < j => Before(o.parts[i].key, o.parts[j].key)

\* What a loop has read so far.
ObjectOK(o) ==
  /\ o = Object(o.type, o.chars, o.numbers, o.parts)
  /\ o.type \in Looping
  /\ PartsOK(o) /\ InOrder(o)

\* The place of a key in a map: the first whose key is not before it.
LEMMA PlaceFacts ==
  ASSUME NEW parts, IsSeq(parts), NEW key
  PROVE  LET n == Len(parts)
             place == Min({i \in 1 .. n + 1 : i = n + 1 \/ ~Before(parts[i].key, key)})
         IN /\ place \in 1 .. n + 1
            /\ place <= n => ~Before(parts[place].key, key)
            /\ \A i \in 1 .. n : i < place => Before(parts[i].key, key)
<1> DEFINE n == Len(parts)
           S == {i \in 1 .. n + 1 : i = n + 1 \/ ~Before(parts[i].key, key)}
           place == Min(S)
<1>1. n \in Nat
  BY SeqFacts
<1> HIDE DEF n
<1>2. S \in SUBSET Nat /\ n + 1 \in S
  BY <1>1
<1>3. /\ \A i \in S : i \in 1 .. n + 1 /\ (i = n + 1 \/ ~Before(parts[i].key, key))
      /\ \A i \in 1 .. n + 1 : i \notin S => Before(parts[i].key, key)
  OBVIOUS
<1> HIDE DEF S
<1>4. place \in S /\ \A i \in S : place <= i
  BY <1>2, MinFacts
<1> HIDE DEF place
<1>5. place \in 1 .. n + 1 /\ (place <= n => ~Before(parts[place].key, key))
  <2>1. place \in 1 .. n + 1 /\ (place = n + 1 \/ ~Before(parts[place].key, key))
    BY <1>3, <1>4
  <2>2. place <= n => place # n + 1
    BY <1>1
  <2> QED BY <2>1, <2>2
<1>6. ASSUME NEW i \in 1 .. n, i < place PROVE Before(parts[i].key, key)
  <2>1. i \in 1 .. n + 1 /\ ~(place <= i)
    BY <1>1, <1>5, <1>6
  <2> QED BY <1>3, <1>4, <2>1
<1> QED BY <1>5, <1>6 DEF n, S, place

\* Adding a part, or replacing that of the same key, keeps a collection a map in
\* the order of its keys.
LEMMA WithPartKeeps ==
  ASSUME NEW o, ObjectOK(o), NEW key \in Text, NEW part
  PROVE  ObjectOK(WithPart(o, key, part)) /\ WithPart(o, key, part).type = o.type
<1> DEFINE parts == o.parts
           n == Len(o.parts)
           first == Min({i \in 1 .. n + 1 : i = n + 1 \/ ~Before(parts[i].key, key)})
           place == IF o.type = "Vector" THEN n + 1 ELSE first
           new == [key |-> key, value |-> part]
           there == place <= n /\ parts[place].key = key
           after == IF there THEN ReplaceAt(parts, place, new) ELSE InsertAt(parts, place, new)
           q == WithPart(o, key, part)
<1>1. /\ IsSeq(parts) /\ n \in Nat /\ DOMAIN parts = 1 .. n
      /\ \A i \in 1 .. n : parts[i].key \in Text
  BY SeqFacts DEF ObjectOK, PartsOK
<1>2. q = [o EXCEPT !.parts = after]
  BY DEF WithPart
<1>3. q = Object(o.type, o.chars, o.numbers, after)
  <2> HIDE DEF after, q
  <2> QED BY <1>2 DEF ObjectOK, Object
<1>4. q.type = o.type /\ q.parts = after /\ q = Object(q.type, q.chars, q.numbers, q.parts)
  <2> HIDE DEF after, q
  <2> QED BY <1>3 DEF Object
<1>b. q.type \in Looping
  BY <1>4 DEF ObjectOK
<1>c. q = Object(q.type, q.chars, q.numbers, q.parts)
  BY <1>4
<1> HIDE DEF q
<1>5. /\ first \in 1 .. n + 1
      /\ first <= n => ~Before(parts[first].key, key)
      /\ \A i \in 1 .. n : i < first => Before(parts[i].key, key)
  <2> HIDE DEF parts
  <2>1. n = Len(parts)
    BY DEF parts
  <2> QED BY <1>1, <2>1, PlaceFacts
<1> HIDE DEF first
<1>6. place \in 1 .. n + 1
  BY <1>1, <1>5
<1>7. new.key = key
  OBVIOUS
<1> HIDE DEF new, place
<1>8. CASE there
  <2>1. place \in 1 .. Len(parts)
    BY <1>1, <1>6, <1>8
  <2>2. after = Put(parts, place, new)
    BY <1>8 DEF ReplaceAt, Put
  <2> HIDE DEF after, parts
  <2>3. /\ IsSeq(after) /\ Len(after) = Len(parts)
        /\ \A j \in 1 .. Len(parts) : after[j] = IF j = place THEN new ELSE parts[j]
    BY <1>1, <2>1, <2>2, PutIsSeq
  <2>4. DOMAIN after = 1 .. n
    BY <2>3, SeqFacts DEF parts
  <2>5. \A j \in 1 .. n : after[j].key = parts[j].key
    BY <1>7, <1>8, <2>3 DEF parts
  <2>6. PartsOK(q)
    BY <1>1, <1>4, <2>3, <2>4, <2>5 DEF PartsOK
  <2>7. InOrder(q)
    <3> SUFFICES ASSUME o.type = "Collection", NEW i \in 1 .. n, NEW j \in 1 .. n, i < j
                 PROVE  Before(after[i].key, after[j].key)
      BY <1>4, <2>4 DEF InOrder
    <3>1. Before(parts[i].key, parts[j].key)
      BY <1>1 DEF ObjectOK, InOrder, parts
    <3> QED BY <2>5, <3>1
  <2>8. ObjectOK(q)
    BY <1>b, <1>c, <2>6, <2>7 DEF ObjectOK
  <2> QED BY <1>4, <2>8 DEF q
<1>9. CASE ~there
  <2>1. after = InsertAt(parts, place, new)
    BY <1>9
  <2>2. place \in 1 .. Len(parts) + 1
    BY <1>6
  <2>a. place <= n => parts[place].key # key
    BY <1>9
  <2> HIDE DEF after, parts, there
  <2>3. /\ IsSeq(after) /\ Len(after) = Len(parts) + 1
        /\ \A j \in 1 .. Len(parts) + 1 :
             after[j] = IF j < place THEN parts[j] ELSE IF j = place THEN new ELSE parts[j - 1]
    BY <1>1, <2>1, <2>2, InsertIsSeq
  <2>4. DOMAIN after = 1 .. n + 1 /\ Len(parts) = n
    BY <2>3, SeqFacts DEF parts
  <2>5. ASSUME NEW j \in 1 .. n + 1
        PROVE  /\ j < place => j \in 1 .. n /\ after[j].key = parts[j].key
               /\ j = place => after[j].key = key
               /\ j > place => j - 1 \in 1 .. n /\ after[j].key = parts[j - 1].key
    <3>1. after[j] = IF j < place THEN parts[j] ELSE IF j = place THEN new ELSE parts[j - 1]
      BY <2>3, <2>4
    <3>2. j < place => j \in 1 .. n
      BY <1>1, <1>6
    <3>3. j > place => j - 1 \in 1 .. n /\ ~(j < place) /\ j # place
      BY <1>1, <1>6
    <3>4. j = place => ~(j < place)
      BY <1>6
    <3> QED BY <1>7, <3>1, <3>2, <3>3, <3>4
  <2>6. \A j \in 1 .. n + 1 : j < place \/ j = place \/ j > place
    BY <1>1, <1>6
  <2>7. PartsOK(q)
    <3>1. \A j \in 1 .. n + 1 : after[j].key \in Text
      BY <1>1, <2>5, <2>6
    <3> QED BY <1>4, <2>3, <2>4, <3>1 DEF PartsOK
  <2>8. InOrder(q)
    <3> SUFFICES ASSUME o.type = "Collection", NEW i \in 1 .. n + 1, NEW j \in 1 .. n + 1, i < j
                 PROVE  Before(after[i].key, after[j].key)
      BY <1>4, <2>4 DEF InOrder
    <3>1. \A k, l \in 1 .. n : k < l => Before(parts[k].key, parts[l].key)
      BY <1>1 DEF ObjectOK, InOrder, parts
    <3>2. place = first
      BY DEF place
    <3>3. \A k \in 1 .. n : k < place => Before(parts[k].key, key)
      BY <1>5, <3>2
    <3>4. ASSUME NEW l \in 1 .. n, place <= l PROVE Before(key, parts[l].key)
      <4>1. place <= n /\ place \in 1 .. n
        BY <1>1, <1>6, <3>4
      <4>2. ~Before(parts[place].key, key) /\ parts[place].key # key /\ parts[place].key \in Text
        BY <1>1, <1>5, <2>a, <3>2, <4>1
      <4>3. Before(key, parts[place].key)
        BY <4>2, BeforeTotal
      <4>4. CASE place = l
        BY <4>3, <4>4
      <4>5. CASE place < l
        <5>1. Before(parts[place].key, parts[l].key)
          BY <3>1, <4>1, <4>5
        <5>2. parts[l].key \in Text
          BY <1>1
        <5> QED BY <4>2, <4>3, <5>1, <5>2, BeforeTransitive
      <4> QED BY <1>1, <1>6, <3>4, <4>4, <4>5
    <3>5. CASE j < place
      <4>1. i < place /\ i \in 1 .. n /\ j \in 1 .. n
        BY <1>1, <1>6, <3>5
      <4> QED BY <2>5, <3>1, <3>5, <4>1
    <3>6. CASE j = place
      <4>1. i < place /\ i \in 1 .. n
        BY <1>1, <1>6, <3>6
      <4> QED BY <2>5, <3>3, <3>6, <4>1
    <3>7. CASE j > place
      <4>1. j - 1 \in 1 .. n /\ place <= j - 1 /\ after[j].key = parts[j - 1].key
        BY <1>1, <1>6, <2>5, <3>7
      <4>2. CASE i < place
        <5>1. i \in 1 .. n /\ i < j - 1 /\ after[i].key = parts[i].key
          BY <1>1, <1>6, <2>5, <4>1, <4>2
        <5> QED BY <3>1, <4>1, <5>1
      <4>3. CASE i = place
        <5>1. after[i].key = key
          BY <2>5, <4>3
        <5>2. Before(key, parts[j - 1].key)
          BY <3>4, <4>1
        <5> QED BY <4>1, <5>1, <5>2
      <4>4. CASE i > place
        <5>1. i - 1 \in 1 .. n /\ i - 1 < j - 1 /\ after[i].key = parts[i - 1].key
          BY <1>1, <1>6, <2>5, <4>1, <4>4
        <5> QED BY <3>1, <4>1, <5>1
      <4> QED BY <2>6, <4>2, <4>3, <4>4
    <3> QED BY <2>6, <3>5, <3>6, <3>7
  <2>9. ObjectOK(q)
    BY <1>b, <1>c, <2>7, <2>8 DEF ObjectOK
  <2> QED BY <1>4, <2>9 DEF q
<1> QED BY <1>8, <1>9

-------------------------------------------------------------------------------
(* The inductive invariant *)

\* An activation of Parse: its index is within its text, which ends with a
\* bracket, once it loops.
CallOK(c) ==
  /\ c = [phase |-> c.phase, text |-> c.text, i |-> c.i, key |-> c.key,
          object |-> c.object]
  /\ c.phase \in {"text", "loop", "failed"}
  /\ c.text \in Text
  /\ c.key \in Text
  /\ c.phase = "text" => c.i = 2 /\ c.object = EmptyObject
  /\ c.phase # "text" =>
       /\ c.i \in 2 .. Len(c.text)
       /\ Last(c.text) \in {"]", "}", ")", ">"}
       /\ ObjectOK(c.object)

\* Those that wait for another are in their loop.
CallsOK ==
  /\ IsSeq(calls)
  /\ \A i \in DOMAIN calls :
       CallOK(calls[i]) /\ (i < Len(calls) => calls[i].phase = "loop")

TextInv ==
  /\ mode \in {"rendering", "editing", "parsing", "parsed"}
  /\ ok \in BOOLEAN
  /\ turn \in 0 .. 1
  /\ object.type \in Types
  /\ text \in Text
  /\ CallsOK

\* The innermost call, when there is one.
LEMMA CallsFacts ==
  ASSUME CallsOK
  PROVE  /\ Len(calls) \in Nat /\ DOMAIN calls = 1 .. Len(calls)
         /\ calls = <<>> <=> Len(calls) = 0
         /\ calls # <<>> => Len(calls) \in 1 .. Len(calls) /\ CallOK(Top)
<1>1. Len(calls) \in Nat /\ DOMAIN calls = 1 .. Len(calls) /\ (calls = <<>> <=> Len(calls) = 0)
  BY SeqFacts DEF CallsOK
<1>2. calls # <<>> => Len(calls) \in 1 .. Len(calls)
  BY <1>1
<1> QED BY <1>1, <1>2 DEF CallsOK, Top

LEMMA NewCallOK ==
  ASSUME NEW t \in Text
  PROVE  CallOK(NewCall(t))
BY TextFacts DEF CallOK, NewCall

\* The invariant is at least the type invariant.
LEMMA TextInvTypes == TextInv => TypeOK
<1> SUFFICES ASSUME TextInv PROVE TypeOK
  OBVIOUS
<1>1. ASSUME NEW c \in ToSet(calls)
      PROVE  /\ c.phase \in {"text", "loop", "failed"}
             /\ c.phase # "text" => c.i \in 2 .. Len(c.text)
             /\ c.object.type = "Collection" =>
                  \A i, j \in DOMAIN c.object.parts :
                    i < j => Before(c.object.parts[i].key, c.object.parts[j].key)
  <2>1. CallOK(c)
    BY DEF TextInv, CallsOK, ToSet
  <2>2. CASE c.phase = "text"
    BY <2>1, <2>2 DEF CallOK, EmptyObject, Object
  <2>3. CASE c.phase # "text"
    BY <2>1, <2>3 DEF CallOK, ObjectOK, InOrder
  <2> QED BY <2>2, <2>3, <2>1 DEF CallOK
<1> QED BY <1>1 DEF TypeOK, TextInv

-------------------------------------------------------------------------------
(* What becomes of the calls *)

\* The innermost call goes on.
LEMMA ContinueKeeps ==
  ASSUME CallsOK, calls # <<>>, NEW c, CallOK(c), calls' = Put(calls, Len(calls), c)
  PROVE  CallsOK' /\ Len(calls') = Len(calls) /\ calls'[Len(calls)] = c
<1> DEFINE n == Len(calls)
<1>1. n \in Nat /\ n \in 1 .. n /\ DOMAIN calls = 1 .. n /\ IsSeq(calls)
  BY CallsFacts DEF CallsOK
<1>a. n \in Nat
  BY <1>1
<1>2. /\ IsSeq(calls') /\ Len(calls') = n
      /\ \A i \in 1 .. n : calls'[i] = IF i = n THEN c ELSE calls[i]
  <2>1. IsSeq(calls) /\ n \in 1 .. Len(calls) /\ n = Len(calls)
    BY <1>1
  <2> HIDE DEF n
  <2> QED BY <2>1, PutIsSeq
<1>3. DOMAIN calls' = 1 .. n
  BY <1>2, SeqFacts
<1>4. \A i \in 1 .. n : CallOK(calls'[i]) /\ (i < n => calls'[i].phase = "loop")
  <2> SUFFICES ASSUME NEW i \in 1 .. n
               PROVE  CallOK(calls'[i]) /\ (i < n => calls'[i].phase = "loop")
    OBVIOUS
  <2>1. CASE i = n
    <3>1. calls'[i] = c
      BY <1>2, <2>1
    <3>2. ~(i < n)
      BY <1>a, <2>1
    <3> QED BY <3>1, <3>2
  <2>2. CASE i # n
    <3>1. calls'[i] = calls[i]
      BY <1>2, <2>2
    <3>2. CallOK(calls[i]) /\ (i < n => calls[i].phase = "loop")
      BY <1>1 DEF CallsOK
    <3> QED BY <3>1, <3>2
  <2> QED BY <2>1, <2>2
<1> QED BY <1>1, <1>2, <1>3, <1>4 DEF CallsOK

\* It goes on and calls Parse.
LEMMA PushKeeps ==
  ASSUME CallsOK, calls # <<>>, NEW c, CallOK(c), c.phase = "loop", NEW t \in Text,
         calls' = Append(Put(calls, Len(calls), c), NewCall(t))
  PROVE  /\ CallsOK' /\ Len(calls') = Len(calls) + 1 /\ calls'[Len(calls)] = c
         /\ calls'[Len(calls) + 1] = NewCall(t)
<1> DEFINE n == Len(calls)
           q == Put(calls, n, c)
<1>1. n \in Nat /\ n \in 1 .. n /\ DOMAIN calls = 1 .. n /\ IsSeq(calls)
  BY CallsFacts DEF CallsOK
<1>a. n \in Nat
  BY <1>1
<1>2. /\ IsSeq(q) /\ Len(q) = n
      /\ \A i \in 1 .. n : q[i] = IF i = n THEN c ELSE calls[i]
  <2>1. IsSeq(calls) /\ n \in 1 .. Len(calls) /\ n = Len(calls)
    BY <1>1
  <2> HIDE DEF n
  <2> QED BY <2>1, PutIsSeq
<1> HIDE DEF q
<1>3. /\ IsSeq(calls') /\ Len(calls') = n + 1
      /\ \A i \in 1 .. n : calls'[i] = q[i]
      /\ calls'[n + 1] = NewCall(t)
  BY <1>2, AppendIsSeq DEF q
<1>4. DOMAIN calls' = 1 .. n + 1
  BY <1>3, SeqFacts
<1>5. \A i \in 1 .. n + 1 : CallOK(calls'[i]) /\ (i < n + 1 => calls'[i].phase = "loop")
  <2> SUFFICES ASSUME NEW i \in 1 .. n + 1
               PROVE  CallOK(calls'[i]) /\ (i < n + 1 => calls'[i].phase = "loop")
    OBVIOUS
  <2>1. CASE i = n + 1
    BY <1>1, <1>3, <2>1, NewCallOK
  <2>2. CASE i = n
    BY <1>1, <1>2, <1>3, <2>2
  <2>3. CASE i # n + 1 /\ i # n
    <3>1. i \in 1 .. n /\ i < n
      <4> HIDE DEF n
      <4> QED BY <1>a, <2>3
    <3>2. calls'[i] = calls[i]
      BY <1>2, <1>3, <2>3, <3>1
    <3>3. CallOK(calls[i]) /\ calls[i].phase = "loop"
      BY <1>1, <3>1 DEF CallsOK
    <3> QED BY <3>2, <3>3
  <2> QED BY <2>1, <2>2, <2>3
<1>6. calls'[n] = c
  BY <1>1, <1>2, <1>3
<1> QED BY <1>3, <1>4, <1>5, <1>6 DEF CallsOK

\* It returns, and its caller takes what it returns.
LEMMA ReturnKeeps ==
  ASSUME TextInv, mode = "parsing", calls # <<>>,
         NEW result \in BOOLEAN, NEW o, o.type \in Types, Return(result, o)
  PROVE  /\ CallsOK' /\ Len(calls') = Len(calls) - 1
         /\ mode' \in {"rendering", "editing", "parsing", "parsed"}
         /\ ok' \in BOOLEAN /\ object'.type \in Types
<1> DEFINE n == Len(calls)
           outer == Front(calls)
           caller == Last(outer)
           c == IF result THEN [caller EXCEPT !.object = WithPart(@, caller.key, o)]
                ELSE [caller EXCEPT !.phase = "failed"]
<1>1. n \in Nat /\ n \in 1 .. n /\ DOMAIN calls = 1 .. n /\ IsSeq(calls)
  BY CallsFacts DEF CallsOK, TextInv
<1>a. n \in Nat
  BY <1>1
<1>2. /\ IsSeq(outer) /\ Len(outer) = n - 1
      /\ \A i \in 1 .. n - 1 : outer[i] = calls[i]
  BY <1>1, FrontIsSeq
<1>3. CASE outer = <<>>
  <2>1. mode' = "parsed" /\ calls' = <<>> /\ object' = o /\ ok' = result
    BY <1>3 DEF Return
  <2>2. n = 1
    <3>1. n - 1 = 0
      BY <1>2, <1>3, EmptyIsSeq
    <3> HIDE DEF n
    <3> QED BY <1>a, <3>1
  <2>3. CallsOK' /\ Len(calls') = 0
    BY <2>1, EmptyIsSeq DEF CallsOK
  <2> QED BY <2>1, <2>2, <2>3
<1>4. CASE outer # <<>>
  <2>1. calls' = Put(outer, Len(outer), c) /\ UNCHANGED <<mode, object, ok>>
    BY <1>4 DEF Return, Put
  <2> HIDE DEF outer
  <2>2. n - 1 \in 1 .. n - 1
    <3>1. Len(outer) # 0
      BY <1>2, <1>4, SeqFacts
    <3> QED BY <1>1, <1>2, <3>1
  <2>3. caller = calls[n - 1]
    BY <1>2, <2>2 DEF Last
  <2>4. CallOK(caller) /\ caller.phase = "loop"
    <3>1. n - 1 \in DOMAIN calls /\ n - 1 < n
      BY <1>1, <2>2
    <3> QED BY <2>3, <3>1 DEF TextInv, CallsOK
  <2> HIDE DEF caller
  <2>5. CallOK(c)
    <3>1. CASE result
      <4>1. c = [caller EXCEPT !.object = WithPart(@, caller.key, o)]
        BY <3>1
      <4>2. ObjectOK(WithPart(caller.object, caller.key, o))
        BY <2>4, WithPartKeeps DEF CallOK
      <4>3. c = [phase |-> caller.phase, text |-> caller.text, i |-> caller.i,
                 key |-> caller.key, object |-> WithPart(caller.object, caller.key, o)]
        BY <2>4, <4>1 DEF CallOK
      <4> HIDE DEF c
      <4> QED BY <2>4, <4>2, <4>3 DEF CallOK
    <3>2. CASE ~result
      <4>1. c = [caller EXCEPT !.phase = "failed"]
        BY <3>2
      <4>2. c = [phase |-> "failed", text |-> caller.text, i |-> caller.i,
                 key |-> caller.key, object |-> caller.object]
        BY <2>4, <4>1 DEF CallOK
      <4> HIDE DEF c
      <4> QED BY <2>4, <4>2 DEF CallOK
    <3> QED BY <3>1, <3>2
  <2> HIDE DEF c
  <2>6. /\ IsSeq(calls') /\ Len(calls') = n - 1
        /\ \A i \in 1 .. n - 1 : calls'[i] = IF i = n - 1 THEN c ELSE outer[i]
    BY <1>2, <2>1, <2>2, PutIsSeq
  <2>7. DOMAIN calls' = 1 .. n - 1
    BY <2>6, SeqFacts
  <2>8. ASSUME NEW i \in 1 .. n - 1
        PROVE  CallOK(calls'[i]) /\ (i < n - 1 => calls'[i].phase = "loop")
    <3>1. CASE i = n - 1
      <4>1. calls'[i] = c
        BY <2>6, <3>1
      <4>2. ~(i < n - 1)
        BY <1>a, <3>1
      <4> QED BY <2>5, <4>1, <4>2
    <3>2. CASE i # n - 1
      <4>1. calls'[i] = calls[i]
        BY <1>2, <2>6, <3>2
      <4>2. i \in DOMAIN calls /\ i < n
        BY <1>1
      <4>3. CallOK(calls[i]) /\ calls[i].phase = "loop"
        BY <4>2 DEF TextInv, CallsOK
      <4> QED BY <4>1, <4>3
    <3> QED BY <3>1, <3>2
  <2>9. CallsOK'
    BY <2>6, <2>7, <2>8 DEF CallsOK
  <2> QED BY <2>1, <2>6, <2>9 DEF TextInv
<1> QED BY <1>3, <1>4

-------------------------------------------------------------------------------
(* The steps of Parse *)

\* The invariant after a step of Parse, but for what no step changes.
Stepped ==
  /\ CallsOK'
  /\ mode' \in {"rendering", "editing", "parsing", "parsed"}
  /\ ok' \in BOOLEAN
  /\ object'.type \in Types
  /\ NearerToItsEnd

\* Returning is a step towards the end ...
LEMMA ReturnSteps ==
  ASSUME TextInv, mode = "parsing", calls # <<>>,
         NEW result \in BOOLEAN, NEW o, o.type \in Types, Return(result, o)
  PROVE  Stepped
<1>1. /\ CallsOK' /\ Len(calls') = Len(calls) - 1
      /\ mode' \in {"rendering", "editing", "parsing", "parsed"}
      /\ ok' \in BOOLEAN /\ object'.type \in Types
  BY ReturnKeeps
<1>2. NearerToItsEnd
  BY <1>1 DEF NearerToItsEnd
<1> QED BY <1>1, <1>2 DEF Stepped

\* ... so is going on in a loop, or to it, or to its failure ...
LEMMA ContinueSteps ==
  ASSUME TextInv, calls # <<>>, NEW c, CallOK(c), Continue(c),
         \/ <<Top.phase, c.phase>> \in {<<"text", "loop">>, <<"loop", "failed">>}
         \/ c.phase = Top.phase /\ c.text = Top.text /\ c.i > Top.i
  PROVE  Stepped
<1>1. calls' = Put(calls, Len(calls), c) /\ UNCHANGED <<mode, object, ok>>
  BY DEF Continue, Put
<1>2. CallsOK' /\ Len(calls') = Len(calls) /\ calls'[Len(calls)] = c
  BY <1>1, ContinueKeeps DEF TextInv
<1>3. NearerToItsEnd
  BY <1>2 DEF NearerToItsEnd
<1> QED BY <1>1, <1>2, <1>3 DEF Stepped, TextInv

\* ... and so is going on and parsing a piece of the text.
LEMMA PushSteps ==
  ASSUME TextInv, calls # <<>>, NEW c, CallOK(c), c.phase = "loop", NEW t \in Text,
         calls' = Append(Put(calls, Len(calls), c), NewCall(t)),
         UNCHANGED <<mode, object, ok>>,
         c.phase = Top.phase, c.text = Top.text, c.i > Top.i, Len(t) < Len(Top.text)
  PROVE  Stepped
<1>1. /\ CallsOK' /\ Len(calls') = Len(calls) + 1 /\ calls'[Len(calls)] = c
      /\ calls'[Len(calls) + 1] = NewCall(t)
  BY PushKeeps DEF TextInv
<1>2. NewCall(t).text = t
  BY DEF NewCall
<1>3. NearerToItsEnd
  BY <1>1, <1>2 DEF NearerToItsEnd
<1> QED BY <1>1, <1>3 DEF Stepped, TextInv

-------------------------------------------------------------------------------
(* Types and brackets *)

\* What the text of a call that loops ends with.
Closers == {"]", "}", ")", ">"}

\* A closing bracket is no comma and no colon.
LEMMA ClosersFacts ==
  /\ \A x \in {"[", "{", "(", "<"} : Closing[x] \in Closers
  /\ \A y \in Closers : y # "," /\ y # ":"
<1>1. \A x \in {"[", "{", "(", "<"} : Closing[x] \in Closers
  BY DEF Closing, Closers
<1>2. \A y \in Closers : y # "," /\ y # ":"
  BY DEF Closers
<1> QED BY <1>1, <1>2

\* Only a text that begins with an opening bracket is taken for a container.
LEMMA TypeOfFacts ==
  ASSUME NEW t \in Text
  PROVE  /\ TypeOf(t) \in Types \ {"Empty"}
         /\ TypeOf(t) \in Looping => t[1] \in {"[", "{", "(", "<"}
<1> DEFINE S == {i \in DOMAIN t : t[i] = "."}
           points == Cardinality(S)
           rest == CASE points = 1 -> "Decimal"
                     [] points > 1 -> "IpAddress"
                     [] points = 0 -> IF \A i \in DOMAIN t : IsNumeral(t[i])
                                      THEN "UnsignedInteger" ELSE "Boolean"
<1>1. points \in Nat
  <2>1. DOMAIN t = 1 .. Len(t) /\ Len(t) \in Nat
    BY DEF Text
  <2>2. IsFiniteSet(1 .. Len(t))
    BY <2>1, FS_Interval
  <2>3. S \subseteq 1 .. Len(t)
    BY <2>1
  <2> HIDE DEF S
  <2> QED BY <2>2, <2>3, FS_Subset, FS_CardinalityType
<1> HIDE DEF points
<1>2. rest \in {"Decimal", "IpAddress", "UnsignedInteger", "Boolean"}
  BY <1>1
<1> HIDE DEF rest
<1>3. TypeOf(t) = CASE t[1] = "quote" -> "String"
                    [] t[1] = "[" -> "Vector"
                    [] t[1] = "{" -> "Collection"
                    [] t[1] = "(" -> "IntegerVector"
                    [] t[1] = "<" -> "UnsignedIntegerVector"
                    [] t[1] \in {"+", "-"} -> "Integer"
                    [] OTHER -> rest
  BY DEF TypeOf, rest, points
<1>4. CASE t[1] \in {"quote", "[", "{", "(", "<", "+", "-"}
  BY <1>3, <1>4 DEF Types, Looping
<1>5. CASE t[1] \notin {"quote", "[", "{", "(", "<", "+", "-"}
  <2>1. TypeOf(t) = rest
    BY <1>3, <1>5
  <2> QED BY <1>2, <2>1 DEF Types, Looping
<1> QED BY <1>4, <1>5

\* A scalar keeps its type whether its Parse succeeds or not.
LEMMA ParseScalarFacts ==
  ASSUME NEW type, NEW t
  PROVE  ParseScalar(type, t).ok \in BOOLEAN /\ ParseScalar(type, t).object.type = type
<1> DEFINE parsed ==
        CASE type = "Boolean" -> ParseBoolean(t)
          [] type = "Integer" -> ParseInteger(t)
          [] type = "UnsignedInteger" -> ParseUnsigned(t)
          [] type = "Decimal" -> ParseDecimal(t)
          [] type = "IpAddress" -> ParseIpAddress(t)
      blanks == type # "Boolean" /\ ToSet(t) \cap Blank # {}
<1>1. ParseScalar(type, t) =
        IF type = "String" THEN ParseString(t)
        ELSE IF blanks \/ ~parsed.ok
        THEN [ok |-> FALSE,
              object |-> OfNumbers(type, [i \in DOMAIN parsed.numbers |-> 0])]
        ELSE [ok |-> TRUE, object |-> OfNumbers(type, parsed.numbers)]
  BY DEF ParseScalar
<1> HIDE DEF parsed, blanks
<1>2. CASE type = "String"
  BY <1>1, <1>2 DEF ParseString, Object
<1>3. CASE type # "String"
  BY <1>1, <1>3 DEF OfNumbers, Object
<1> QED BY <1>2, <1>3

\* A container before its first part.
LEMMA NewObjectOK ==
  ASSUME NEW type \in Looping
  PROVE  ObjectOK(OfNumbers(type, <<>>)) /\ OfNumbers(type, <<>>).type = type
<1> DEFINE o == OfNumbers(type, <<>>)
<1>1. /\ o = Object(type, <<>>, <<>>, <<>>) /\ o.type = type /\ o.parts = <<>>
      /\ o = Object(o.type, o.chars, o.numbers, o.parts)
  BY DEF OfNumbers, Object
<1> HIDE DEF o
<1>2. PartsOK(o) /\ InOrder(o)
  BY <1>1, EmptyIsSeq DEF PartsOK, InOrder
<1> QED BY <1>1, <1>2 DEF ObjectOK, o

-------------------------------------------------------------------------------
(* A turn of a loop *)

\* What is known when a call looks at its text ...
LEMMA TextPhase ==
  ASSUME TextInv, In("text")
  PROVE  /\ mode = "parsing" /\ calls # <<>> /\ CallOK(Top) /\ Top.phase = "text"
         /\ Top.i = 2 /\ Trim(Top.text) \in Text
<1>1. mode = "parsing" /\ calls # <<>> /\ CallOK(Top) /\ Top.phase = "text"
  BY CallsFacts DEF In, TextInv
<1> QED BY <1>1, TrimFacts DEF CallOK

\* ... and when it loops: its text ends with a bracket.
LEMMA LoopPhase ==
  ASSUME TextInv, In("loop") \/ In("failed")
  PROVE  /\ mode = "parsing" /\ calls # <<>> /\ CallOK(Top)
         /\ Top.text \in Text /\ Top.i \in 2 .. Len(Top.text)
         /\ Len(Top.text) \in Nat
         /\ Top.text[Len(Top.text)] \in Closers
         /\ ObjectOK(Top.object) /\ Top.object.type \in Types
<1>1. mode = "parsing" /\ calls # <<>> /\ CallOK(Top) /\ Top.phase # "text"
  BY CallsFacts DEF In, TextInv
<1>2. Top.text \in Text /\ Top.i \in 2 .. Len(Top.text) /\ Last(Top.text) \in Closers
      /\ ObjectOK(Top.object)
  BY <1>1 DEF CallOK, Closers
<1>3. Len(Top.text) \in Nat
  BY <1>2 DEF Text
<1>4. Top.object.type \in Types
  BY <1>2 DEF ObjectOK, Types
<1> QED BY <1>1, <1>2, <1>3, <1>4 DEF Last

\* The place behind an element is within the text, for the bracket is no comma, and
\* further on unless the loop is at the bracket.
LEMMA BehindFacts ==
  ASSUME NEW t \in Text, NEW i \in 2 .. Len(t), t[Len(t)] \in Closers
  PROVE  LET element == ParseComponent(t, i, Len(t)) IN
         /\ element \in Text /\ Len(element) < Len(t)
         /\ Behind(t, i, element) \in i .. Len(t)
         /\ i < Len(t) => Behind(t, i, element) > i
<1> DEFINE n == Len(t)
           element == ParseComponent(t, i, Len(t))
           j == i + Len(element)
<1>1. n \in Nat /\ i \in 2 .. n
  BY DEF Text
<1>0. element \in Text
  BY ComponentFacts
<1>2. element \in Text /\ j \in i .. n /\ (j = n \/ t[j] = ",")
  BY ComponentFacts
<1>3. Len(element) \in Nat
  <2> HIDE DEF element, j, n
  <2> QED BY <1>0 DEF Text
<1>4. t[n] # ","
  BY ClosersFacts
<1>5. Behind(t, i, element) = IF t[j] = "," THEN j + 1 ELSE j
  BY DEF Behind
<1> DEFINE m == Len(element)
<1>6. m \in Nat /\ i + m \in i .. n
  BY <1>2, <1>3
<1>7. m < n
  <2> HIDE DEF m, n
  <2> QED BY <1>1, <1>6
<1>a. j = n \/ t[j] = ","
  BY <1>2
<1>b. j \in i .. n
  BY <1>2
<1> HIDE DEF m, j, n
<1>8. /\ Behind(t, i, element) \in i .. n
      /\ i < n => Behind(t, i, element) > i
  <2>1. CASE t[j] = ","
    <3>1. j # n
      BY <1>4, <2>1
    <3>2. j + 1 \in i .. n /\ j + 1 > i
      BY <1>1, <1>b, <3>1
    <3>3. Behind(t, i, element) = j + 1
      BY <1>5, <2>1
    <3> QED BY <3>2, <3>3
  <2>2. CASE t[j] # ","
    <3>1. j = n
      BY <2>2, <1>a
    <3>2. j \in i .. n /\ (i < n => j > i)
      BY <1>1, <1>b, <3>1
    <3>3. Behind(t, i, element) = j
      BY <1>5, <2>2
    <3> QED BY <3>2, <3>3
  <2> QED BY <2>1, <2>2
<1> QED BY <1>2, <1>7, <1>8 DEF m, n

\* The record of a call that fails.
LEMMA FailedCall ==
  ASSUME NEW c, CallOK(c), c.phase = "loop", NEW d, d = [c EXCEPT !.phase = "failed"]
  PROVE  CallOK(d) /\ d.phase = "failed"
<1>1. c = [phase |-> c.phase, text |-> c.text, i |-> c.i, key |-> c.key, object |-> c.object]
  BY DEF CallOK
<1>2. d = [phase |-> "failed", text |-> c.text, i |-> c.i, key |-> c.key,
           object |-> c.object]
  BY <1>1
<1> QED BY <1>2 DEF CallOK

\* The record of a call that begins to loop.
LEMMA LoopingCall ==
  ASSUME NEW c, CallOK(c), c.i = 2, NEW t \in Text, 2 \in 2 .. Len(t), Last(t) \in Closers,
         NEW o, ObjectOK(o),
         NEW d, d = [c EXCEPT !.phase = "loop", !.text = t, !.object = o]
  PROVE  CallOK(d) /\ d.phase = "loop"
<1>1. c = [phase |-> c.phase, text |-> c.text, i |-> c.i, key |-> c.key, object |-> c.object]
  BY DEF CallOK
<1>2. d = [phase |-> "loop", text |-> t, i |-> c.i, key |-> c.key, object |-> o]
  BY <1>1
<1>3. d.phase = "loop" /\ d.text = t /\ d.i = 2 /\ d.key = c.key /\ d.object = o
  BY <1>2
<1>4. d = [phase |-> d.phase, text |-> d.text, i |-> d.i, key |-> d.key, object |-> d.object]
  BY <1>2
<1>5. c.key \in Text
  BY DEF CallOK
<1> QED BY <1>3, <1>4, <1>5 DEF CallOK, Closers

\* The record of a call that has moved on, with a key and an object that may be others.
LEMMA MovedCall ==
  ASSUME NEW c, CallOK(c), c.phase = "loop", NEW i \in 2 .. Len(c.text),
         NEW key \in Text, NEW o, ObjectOK(o), NEW d,
         d = [phase |-> c.phase, text |-> c.text, i |-> i, key |-> key, object |-> o]
  PROVE  CallOK(d) /\ d.phase = c.phase /\ d.text = c.text /\ d.i = i
<1>1. d.phase = "loop" /\ d.text = c.text /\ d.i = i /\ d.key = key /\ d.object = o
  OBVIOUS
<1>2. d = [phase |-> d.phase, text |-> d.text, i |-> d.i, key |-> d.key, object |-> d.object]
  OBVIOUS
<1>3. c.text \in Text /\ Last(c.text) \in {"]", "}", ")", ">"}
  BY DEF CallOK
<1> QED BY <1>1, <1>2, <1>3 DEF CallOK

\* A loop that fails.
LEMMA FailSteps ==
  ASSUME TextInv, In("loop"), Continue([Top EXCEPT !.phase = "failed"])
  PROVE  Stepped
<1> DEFINE c == [Top EXCEPT !.phase = "failed"]
<1>1. calls # <<>> /\ CallOK(Top) /\ Top.phase = "loop"
  BY LoopPhase DEF In
<1>3. Continue(c) /\ c = [Top EXCEPT !.phase = "failed"]
  OBVIOUS
<1> HIDE DEF c
<1>2. CallOK(c) /\ c.phase = "failed"
  BY <1>1, <1>3, FailedCall
<1>4. <<Top.phase, c.phase>> \in {<<"text", "loop">>, <<"loop", "failed">>}
  BY <1>1, <1>2
<1> QED BY <1>1, <1>2, <1>3, <1>4, ContinueSteps

-------------------------------------------------------------------------------
(* Each step of Parse *)

\* Parse of a blank text or of Empty.
LEMMA WordSteps ==
  ASSUME TextInv, ParseWord
  PROVE  Stepped
<1>1. mode = "parsing" /\ calls # <<>>
  BY TextPhase DEF ParseWord
<1>2. EmptyObject.type \in Types
  BY DEF EmptyObject, Object, Types
<1>3. CASE Return(FALSE, EmptyObject)
  BY <1>1, <1>2, <1>3, ReturnSteps
<1>4. CASE Return(TRUE, EmptyObject)
  BY <1>1, <1>2, <1>4, ReturnSteps
<1> QED BY <1>3, <1>4 DEF ParseWord

\* Parse of a scalar, or the first look at a container.
LEMMA TypedSteps ==
  ASSUME TextInv, ParseTyped
  PROVE  Stepped
<1> DEFINE t == Trim(Top.text)
           type == TypeOf(t)
<1>1. /\ mode = "parsing" /\ calls # <<>> /\ CallOK(Top) /\ Top.phase = "text"
      /\ Top.i = 2 /\ t \in Text
  BY TextPhase DEF ParseTyped
<1>2. /\ type \in Types
      /\ type \in Looping => t[1] \in {"[", "{", "(", "<"}
  BY <1>1, TypeOfFacts
<1>3. IF type \notin Looping
      THEN Return(ParseScalar(type, t).ok, ParseScalar(type, t).object)
      ELSE IF Len(t) >= 2 /\ Last(t) = Closing[t[1]]
      THEN Continue([Top EXCEPT !.phase = "loop", !.text = t,
                                !.object = OfNumbers(type, <<>>)])
      ELSE Return(FALSE, OfNumbers(type, <<>>))
  BY DEF ParseTyped
<1> HIDE DEF type, t
<1>4. CASE type \notin Looping
  <2>1. Return(ParseScalar(type, t).ok, ParseScalar(type, t).object)
    BY <1>3, <1>4
  <2>2. ParseScalar(type, t).ok \in BOOLEAN /\ ParseScalar(type, t).object.type \in Types
    BY <1>2, ParseScalarFacts
  <2> QED BY <1>1, <2>1, <2>2, ReturnSteps
<1>5. CASE type \in Looping /\ Len(t) >= 2 /\ Last(t) = Closing[t[1]]
  <2> DEFINE o == OfNumbers(type, <<>>)
             c == [Top EXCEPT !.phase = "loop", !.text = t, !.object = o]
  <2>1. ObjectOK(o)
    BY <1>5, NewObjectOK
  <2>2. Continue(c) /\ c = [Top EXCEPT !.phase = "loop", !.text = t, !.object = o]
    BY <1>3, <1>5
  <2> HIDE DEF o, c
  <2>3. Last(t) \in Closers
    BY <1>2, <1>5, ClosersFacts
  <2>4. 2 \in 2 .. Len(t)
    <3>1. Len(t) \in Nat
      BY <1>1 DEF Text
    <3> QED BY <1>5, <3>1
  <2>5. CallOK(c) /\ c.phase = "loop"
    BY <1>1, <2>1, <2>2, <2>3, <2>4, LoopingCall
  <2> QED BY <1>1, <2>2, <2>5, ContinueSteps
<1>6. CASE type \in Looping /\ ~(Len(t) >= 2 /\ Last(t) = Closing[t[1]])
  <2>1. Return(FALSE, OfNumbers(type, <<>>))
    BY <1>3, <1>6
  <2>2. OfNumbers(type, <<>>).type \in Types
    BY <1>2, <1>6, NewObjectOK
  <2> QED BY <1>1, <2>1, <2>2, ReturnSteps
<1> QED BY <1>4, <1>5, <1>6

\* The end of a loop.
LEMMA EndSteps ==
  ASSUME TextInv, EndLoop \/ FailLoop
  PROVE  Stepped
<1>1. mode = "parsing" /\ calls # <<>> /\ Top.object.type \in Types
  BY LoopPhase DEF EndLoop, FailLoop
<1>2. Return(TRUE, Top.object) \/ Return(FALSE, Top.object)
  BY DEF EndLoop, FailLoop
<1> QED BY <1>1, <1>2, ReturnSteps

-------------------------------------------------------------------------------
(* The turns of the loops *)

\* What is known at each turn.
LEMMA Turn ==
  ASSUME TextInv, NEW type, Loops(type)
  PROVE  /\ In("loop") /\ mode = "parsing" /\ calls # <<>> /\ Len(calls) \in DOMAIN calls
         /\ CallOK(Top) /\ Top.phase = "loop" /\ Top.object.type = type
         /\ ObjectOK(Top.object)
         /\ Top.text \in Text /\ Len(Top.text) \in Nat
         /\ Top.i \in 2 .. Len(Top.text) /\ Top.i < Len(Top.text)
         /\ Top.text[Len(Top.text)] \in Closers
<1>1. In("loop") /\ Top.phase = "loop" /\ Top.object.type = type /\ Top.i < Len(Top.text)
  BY DEF Loops, In
<1>2. Len(calls) \in DOMAIN calls
  BY <1>1, LoopPhase, CallsFacts DEF TextInv
<1> QED BY <1>1, <1>2, LoopPhase

\* Not a number: nothing.
LEMMA NothingIsNoNumber == ~ParseInteger(<<>>).ok /\ ~ParseUnsigned(<<>>).ok
<1>1. Number(<<>>).ok = FALSE
  BY DEF Number
<1> QED BY <1>1 DEF ParseInteger, ParseUnsigned

LEMMA TrimNothing == Trim(<<>>) = <<>>
<1>1. {i \in DOMAIN <<>> : <<>>[i] \notin Blank} = {}
  BY EmptyIsSeq
<1> QED BY <1>1 DEF Trim

\* The record of a loop that has read a number.
LEMMA NumberFields ==
  ASSUME NEW c, CallOK(c), NEW i, NEW numbers, NEW d,
         d = [c EXCEPT !.i = i, !.object.numbers = @ \o numbers]
  PROVE  d = [phase |-> c.phase, text |-> c.text, i |-> i, key |-> c.key,
              object |-> [c.object EXCEPT !.numbers = @ \o numbers]]
<1>1. c = [phase |-> c.phase, text |-> c.text, i |-> c.i, key |-> c.key, object |-> c.object]
  BY DEF CallOK
<1> QED BY <1>1

\* Numbers do not disturb the parts.
LEMMA NumbersKeep ==
  ASSUME NEW o, ObjectOK(o), NEW numbers, NEW q, q = [o EXCEPT !.numbers = numbers]
  PROVE  ObjectOK(q)
<1>1. o = [type |-> o.type, chars |-> o.chars, numbers |-> o.numbers, parts |-> o.parts]
  BY DEF ObjectOK, Object
<1>2. q = [type |-> o.type, chars |-> o.chars, numbers |-> numbers, parts |-> o.parts]
  BY <1>1
<1>3. q.type = o.type /\ q.parts = o.parts
  BY <1>2
<1>4. q = Object(q.type, q.chars, q.numbers, q.parts)
  BY <1>2 DEF Object
<1>5. o.type \in Looping /\ PartsOK(o) /\ InOrder(o)
  BY DEF ObjectOK
<1>6. PartsOK(q) /\ InOrder(q)
  BY <1>3, <1>5 DEF PartsOK, InOrder
<1> QED BY <1>3, <1>4, <1>5, <1>6 DEF ObjectOK

\* A vector of integers moves on with each number, for an empty piece is none.
LEMMA NumberSteps ==
  ASSUME TextInv, NEW type \in {"IntegerVector", "UnsignedIntegerVector"}, ParseNumber(type)
  PROVE  Stepped
<1> DEFINE t == Top.text
           from == Top.i
           n == Len(t)
           ends == {k \in from .. n : t[k] \in {",", t[n]}}
           j == Min(ends)
           element == Trim(SubSeq(t, from, j - 1))
           parsed == IF type = "IntegerVector" THEN ParseInteger(element)
                     ELSE ParseUnsigned(element)
           behind == IF t[j] = "," THEN j + 1 ELSE j
           c == [Top EXCEPT !.i = behind, !.object.numbers = @ \o parsed.numbers]
<1>1. /\ In("loop") /\ calls # <<>> /\ CallOK(Top) /\ Top.phase = "loop"
      /\ ObjectOK(Top.object)
      /\ t \in Text /\ n \in Nat /\ from \in 2 .. n /\ from < n /\ t[n] \in Closers
  BY Turn DEF ParseNumber
<1>2. IF ToSet(element) \cap Blank = {} /\ parsed.ok THEN Continue(c)
      ELSE Continue([Top EXCEPT !.phase = "failed"])
  BY DEF ParseNumber, Last
<1>a. n \in Nat /\ from \in 2 .. n /\ from < n
  BY <1>1
<1>b. n = Len(t)
  OBVIOUS
<1>3. CASE Continue([Top EXCEPT !.phase = "failed"])
  BY <1>1, <1>3, FailSteps
<1>4. CASE parsed.ok /\ Continue(c)
  <2>1. j \in from .. n /\ (t[j] = "," \/ t[j] = t[n])
    <3>1. ends \in SUBSET Nat /\ n \in ends
      <4> HIDE DEF t, from, n
      <4>1. n \in from .. n /\ from .. n \in SUBSET Nat
        BY <1>a
      <4>2. n \in ends
        BY <4>1
      <4> QED BY <4>1, <4>2
    <3>2. \A k \in ends : k \in from .. n /\ (t[k] = "," \/ t[k] = t[n])
      OBVIOUS
    <3> HIDE DEF ends
    <3>3. j \in ends
      BY <3>1, MinFacts
    <3> QED BY <3>2, <3>3
  <2>2. j # from
    <3> SUFFICES ASSUME j = from PROVE FALSE
      OBVIOUS
    <3> HIDE DEF j, t, from, n, parsed
    <3>1. from \in 1 .. n + 1 /\ from - 1 \in 0 .. n /\ from <= from - 1 + 1
      BY <1>1
    <3>2. SubSeq(t, from, from - 1) \in Text /\ Len(SubSeq(t, from, from - 1)) = 0
      <4>1. /\ SubSeq(t, from, from - 1) \in Text
            /\ Len(SubSeq(t, from, from - 1)) = from - 1 - from + 1
        BY <1>1, <1>b, <3>1, PieceFacts
      <4> QED BY <1>1, <4>1
    <3>3. SubSeq(t, from, j - 1) = <<>>
      <4> DEFINE s == SubSeq(t, from, from - 1)
      <4>1. s \in Seq(Tokens) /\ Len(s) = 0
        BY <3>2 DEF Text
      <4> HIDE DEF s
      <4>2. s = <<>>
        BY <4>1
      <4> QED BY <4>2 DEF s
    <3>4. element = <<>>
      BY <3>3, TrimNothing
    <3> HIDE DEF element
    <3> QED BY <1>4, <3>4, NothingIsNoNumber DEF parsed
  <2>3. t[j] = "," => j # n
    BY <1>1, ClosersFacts
  <2>4. behind \in 2 .. n /\ behind > from
    <3> HIDE DEF j, from, n, t
    <3>1. j \in from .. n
      BY <2>1
    <3>2. j + 1 > from /\ (j # n => j + 1 \in 2 .. n)
      BY <1>a, <3>1
    <3>3. j > from /\ j \in 2 .. n
      BY <1>a, <2>2, <3>1
    <3> QED BY <2>3, <3>2, <3>3
  <2> DEFINE numbers == parsed.numbers
  <2>5. c = [Top EXCEPT !.i = behind, !.object.numbers = @ \o numbers]
    OBVIOUS
  <2> HIDE DEF c, behind, parsed, numbers
  <2> DEFINE o == [Top.object EXCEPT !.numbers = @ \o numbers]
  <2>6. c = [phase |-> Top.phase, text |-> Top.text, i |-> behind, key |-> Top.key, object |-> o]
    BY <1>1, <2>5, NumberFields
  <2>7. ObjectOK(o)
    <3>1. o = [Top.object EXCEPT !.numbers = Top.object.numbers \o numbers]
      OBVIOUS
    <3> HIDE DEF o
    <3> QED BY <1>1, <3>1, NumbersKeep
  <2> HIDE DEF o
  <2>8. Top.key \in Text
    BY <1>1 DEF CallOK
  <2>9. CallOK(c) /\ c.phase = Top.phase /\ c.text = Top.text /\ c.i = behind
    BY <1>1, <2>4, <2>6, <2>7, <2>8, MovedCall
  <2>10. Continue(c) /\ c.i > Top.i
    BY <1>4, <2>4, <2>9
  <2> QED BY <1>1, <2>9, <2>10, ContinueSteps
<1> HIDE DEF c, parsed
<1> QED BY <1>2, <1>3, <1>4

\* A vector moves on behind each element, and parses a shorter text.
LEMMA ElementSteps ==
  ASSUME TextInv, ParseElement
  PROVE  Stepped
<1> DEFINE t == Top.text
           element == ParseComponent(t, Top.i, Len(t))
           behind == Behind(t, Top.i, element)
           c == [phase |-> Top.phase, text |-> t, i |-> behind, key |-> Top.key,
                 object |-> Top.object]
<1>1. /\ mode = "parsing" /\ calls # <<>> /\ Len(calls) \in DOMAIN calls
      /\ CallOK(Top) /\ Top.phase = "loop" /\ ObjectOK(Top.object)
      /\ t \in Text /\ Len(t) \in Nat /\ Top.i \in 2 .. Len(t) /\ Top.i < Len(t)
      /\ t[Len(t)] \in Closers
  BY Turn DEF ParseElement
<1>2. /\ element \in Text /\ Len(element) < Len(t)
      /\ behind \in Top.i .. Len(t) /\ behind > Top.i
  BY <1>1, BehindFacts
<1>3. /\ calls' = Append([calls EXCEPT ![Len(calls)].i = behind], NewCall(element))
      /\ UNCHANGED <<mode, object, ok>>
  BY DEF ParseElement
<1> HIDE DEF behind, element
<1>4. calls' = Append(Put(calls, Len(calls), c), NewCall(element))
  <2>1. [Top EXCEPT !.i = behind] = c
    <3> DEFINE d == [Top EXCEPT !.i = behind]
    <3>1. d = [Top EXCEPT !.i = behind]
      OBVIOUS
    <3>2. Top = [phase |-> Top.phase, text |-> Top.text, i |-> Top.i, key |-> Top.key,
                 object |-> Top.object]
      BY <1>1 DEF CallOK
    <3> HIDE DEF d
    <3>3. d = c
      BY <3>1, <3>2
    <3> QED BY <3>3 DEF d
  <2>2. [calls EXCEPT ![Len(calls)].i = behind] = Put(calls, Len(calls), [Top EXCEPT !.i = behind])
    BY DEF Put, Top
  <2> QED BY <1>3, <2>1, <2>2
<1>5. behind \in 2 .. Len(Top.text)
  BY <1>1, <1>2
<1>6. c = [phase |-> Top.phase, text |-> Top.text, i |-> behind, key |-> Top.key,
           object |-> Top.object]
  OBVIOUS
<1> HIDE DEF c
<1>7. Top.key \in Text
  BY <1>1 DEF CallOK
<1>8. CallOK(c) /\ c.phase = Top.phase /\ c.text = Top.text /\ c.i = behind
  BY <1>1, <1>5, <1>6, <1>7, MovedCall
<1>9. c.phase = "loop" /\ c.i > Top.i /\ Len(element) < Len(Top.text)
  BY <1>1, <1>2, <1>8
<1> QED BY <1>1, <1>2, <1>3, <1>4, <1>8, <1>9, PushSteps

-------------------------------------------------------------------------------
(* The turns of the loop of a collection *)

\* A key ends within its text, at a colon or at the bracket.
LEMMA KeyFacts ==
  ASSUME TextInv, Loops("Collection")
  PROVE  /\ KeyEnd \in Top.i .. Len(Top.text)
         /\ HasColon => KeyEnd + 1 \in 2 .. Len(Top.text)
         /\ ~HasColon => KeyEnd = Len(Top.text)
         /\ Key \in Text
<1> DEFINE t == Top.text
           from == Top.i
           n == Len(t)
           ends == {k \in from .. n : t[k] = ":" \/ k = n}
           j == Min(ends)
<1>1. t \in Text /\ n \in Nat /\ from \in 2 .. n /\ from < n /\ t[n] \in Closers
  BY Turn
<1>2. KeyEnd = j /\ (HasColon <=> t[KeyEnd] = ":") /\ Key = Trim(SubSeq(t, from, KeyEnd - 1))
  BY DEF KeyEnd, HasColon, Key
<1>3. Top.text = t /\ Top.i = from /\ n = Len(t)
  OBVIOUS
<1>4. ends \in SUBSET Nat /\ n \in ends
  <2> HIDE DEF t, from, n
  <2>1. n \in from .. n /\ from .. n \in SUBSET Nat
    BY <1>1
  <2> QED BY <2>1
<1>5. \A k \in ends : k \in from .. n /\ (t[k] = ":" \/ k = n)
  OBVIOUS
<1> HIDE DEF ends
<1>6. j \in ends
  BY <1>4, MinFacts
<1>7. j \in from .. n /\ (t[j] = ":" \/ j = n)
  BY <1>5, <1>6
<1>8. t[n] # ":"
  BY <1>1, ClosersFacts
<1> HIDE DEF j, t, from, n
<1>a. from \in 2 .. n /\ n \in Nat
  BY <1>1
<1>b. j \in from .. n
  BY <1>7
<1>9. t[j] = ":" => j # n
  BY <1>8
<1>10. (j # n => j + 1 \in 2 .. n) /\ from \in 1 .. n + 1 /\ j - 1 \in 0 .. n /\ from <= j - 1 + 1
  BY <1>a, <1>b
<1>11. Trim(SubSeq(t, from, j - 1)) \in Text
  BY <1>1, <1>3, <1>10, PieceFacts, TrimFacts
<1> QED BY <1>2, <1>3, <1>7, <1>9, <1>10, <1>11

\* A collection moves on behind an empty key ...
LEMMA SkipSteps ==
  ASSUME TextInv, SkipEmptyKey
  PROVE  Stepped
<1> DEFINE i == IF HasColon THEN KeyEnd + 1 ELSE KeyEnd
           c == [Top EXCEPT !.i = i]
<1>1. /\ Loops("Collection") /\ calls # <<>> /\ CallOK(Top) /\ Top.phase = "loop"
      /\ ObjectOK(Top.object)
      /\ Len(Top.text) \in Nat /\ Top.i \in 2 .. Len(Top.text) /\ Top.i < Len(Top.text)
  BY Turn DEF SkipEmptyKey
<1>2. Continue(c) /\ c = [Top EXCEPT !.i = i]
  BY DEF SkipEmptyKey
<1>3. i \in 2 .. Len(Top.text) /\ i > Top.i
  <2>1. /\ KeyEnd \in Top.i .. Len(Top.text)
        /\ HasColon => KeyEnd + 1 \in 2 .. Len(Top.text)
        /\ ~HasColon => KeyEnd = Len(Top.text)
    BY <1>1, KeyFacts
  <2>2. /\ Len(Top.text) \in Nat /\ Top.i \in 2 .. Len(Top.text) /\ Top.i < Len(Top.text)
    BY <1>1
  <2>3. CASE HasColon
    <3>1. KeyEnd + 1 > Top.i
      BY <2>1, <2>2
    <3> QED BY <2>1, <2>3, <3>1
  <2>4. CASE ~HasColon
    BY <2>1, <2>2, <2>4
  <2> QED BY <2>3, <2>4
<1> HIDE DEF i, c
<1>4. c = [phase |-> Top.phase, text |-> Top.text, i |-> i, key |-> Top.key,
           object |-> Top.object]
  <2>1. Top = [phase |-> Top.phase, text |-> Top.text, i |-> Top.i, key |-> Top.key,
               object |-> Top.object]
    BY <1>1 DEF CallOK
  <2> QED BY <1>2, <2>1
<1>5. Top.key \in Text
  BY <1>1 DEF CallOK
<1>6. CallOK(c) /\ c.phase = Top.phase /\ c.text = Top.text /\ c.i = i
  BY <1>1, <1>3, <1>4, <1>5, MovedCall
<1> QED BY <1>1, <1>2, <1>3, <1>6, ContinueSteps

\* ... fails at a key without a colon ...
LEMMA AloneSteps ==
  ASSUME TextInv, KeyAlone
  PROVE  Stepped
<1>1. In("loop") /\ Continue([Top EXCEPT !.phase = "failed"])
  BY DEF KeyAlone, Loops
<1> QED BY <1>1, FailSteps

\* ... and moves on behind each pair, and parses a shorter text.
LEMMA PairSteps ==
  ASSUME TextInv, ParsePair
  PROVE  Stepped
<1> DEFINE t == Top.text
           i == KeyEnd + 1
           element == ParseComponent(t, i, Len(t))
           behind == Behind(t, i, element)
           c == [phase |-> Top.phase, text |-> t, i |-> behind, key |-> Key,
                 object |-> Top.object]
<1>1. /\ mode = "parsing" /\ calls # <<>> /\ Len(calls) \in DOMAIN calls
      /\ CallOK(Top) /\ Top.phase = "loop" /\ ObjectOK(Top.object)
      /\ t \in Text /\ Len(t) \in Nat /\ Top.i \in 2 .. Len(t) /\ Top.i < Len(t)
      /\ t[Len(t)] \in Closers
  BY Turn DEF ParsePair
<1>2. i \in 2 .. Len(t) /\ KeyEnd \in Top.i .. Len(t) /\ Key \in Text
  BY KeyFacts DEF ParsePair
<1>3. /\ calls' = Append([calls EXCEPT ![Len(calls)].key = Key,
                                       ![Len(calls)].i = behind], NewCall(element))
      /\ UNCHANGED <<mode, object, ok>>
  BY DEF ParsePair
<1> HIDE DEF i
<1>4. element \in Text /\ Len(element) < Len(t) /\ behind \in i .. Len(t)
  BY <1>1, <1>2, BehindFacts
<1> HIDE DEF behind, element
<1>5. behind \in 2 .. Len(Top.text) /\ behind > Top.i
  <2>1. KeyEnd \in Nat /\ KeyEnd >= Top.i /\ i = KeyEnd + 1
    BY <1>1, <1>2 DEF i
  <2> QED BY <1>1, <1>4, <2>1
<1>6. calls' = Append(Put(calls, Len(calls), c), NewCall(element))
  <2> DEFINE d == [Top EXCEPT !.key = Key]
             e == [d EXCEPT !.i = behind]
             n == Len(calls)
  <2>1. Top = [phase |-> Top.phase, text |-> Top.text, i |-> Top.i, key |-> Top.key,
               object |-> Top.object]
    BY <1>1 DEF CallOK
  <2>2. d = [Top EXCEPT !.key = Key] /\ e = [d EXCEPT !.i = behind]
    OBVIOUS
  <2>3. [calls EXCEPT ![n].key = Key, ![n].i = behind] = Put(calls, n, e)
    <3>1. [calls EXCEPT ![n].key = Key] = [calls EXCEPT ![n] = d]
      BY DEF Top
    <3> DEFINE f == [calls EXCEPT ![n] = d]
    <3>2. [calls EXCEPT ![n].key = Key, ![n].i = behind] = [f EXCEPT ![n].i = behind]
      BY <3>1
    <3>3. f[n] = d
      BY <1>1
    <3> HIDE DEF d
    <3>4. [f EXCEPT ![n].i = behind] = [f EXCEPT ![n] = e]
      BY <3>3
    <3> HIDE DEF e
    <3>5. [f EXCEPT ![n] = e] = [calls EXCEPT ![n] = e]
      OBVIOUS
    <3> QED BY <3>2, <3>4, <3>5 DEF Put
  <2> HIDE DEF d, e
  <2>4. e = c
    <3>1. d = [phase |-> Top.phase, text |-> Top.text, i |-> Top.i, key |-> Key,
               object |-> Top.object]
      BY <2>1, <2>2
    <3> QED BY <2>2, <3>1
  <2> QED BY <1>3, <2>3, <2>4
<1>7. c = [phase |-> Top.phase, text |-> Top.text, i |-> behind, key |-> Key,
           object |-> Top.object]
  OBVIOUS
<1> HIDE DEF c
<1>8. CallOK(c) /\ c.phase = Top.phase /\ c.text = Top.text /\ c.i = behind
  BY <1>1, <1>2, <1>5, <1>7, MovedCall
<1>9. c.phase = "loop" /\ c.i > Top.i /\ Len(element) < Len(Top.text)
  BY <1>1, <1>4, <1>5, <1>8
<1> QED BY <1>1, <1>3, <1>4, <1>6, <1>8, <1>9, PushSteps

-------------------------------------------------------------------------------
(* The program, and whoever changes the text *)

\* A text changed by hand is still one of tokens.
LEMMA EditedType ==
  ASSUME NEW t \in Text, NEW i \in DOMAIN t
  PROVE  /\ RemoveAt(t, i) \in Text
         /\ \A x \in Tokens : InsertAt(t, i, x) \in Text /\ ReplaceAt(t, i, x) \in Text
<1>1. Len(t) \in Nat /\ i \in 1 .. Len(t)
  BY DEF Text
<1>2. SubSeq(t, 1, i - 1) \in Text
  <2>1. 1 \in 1 .. Len(t) + 1 /\ i - 1 \in 0 .. Len(t) /\ 1 <= i - 1 + 1
    BY <1>1
  <2> QED BY <2>1, PieceFacts
<1>3. SubSeq(t, i, Len(t)) \in Text
  <2>1. i \in 1 .. Len(t) + 1 /\ Len(t) \in 0 .. Len(t) /\ i <= Len(t) + 1
    BY <1>1
  <2> QED BY <2>1, PieceFacts
<1>4. SubSeq(t, i + 1, Len(t)) \in Text
  <2>1. i + 1 \in 1 .. Len(t) + 1 /\ Len(t) \in 0 .. Len(t) /\ i + 1 <= Len(t) + 1
    BY <1>1
  <2> QED BY <2>1, PieceFacts
<1>5. RemoveAt(t, i) \in Text
  BY <1>2, <1>4, TextFacts DEF RemoveAt
<1>6. ASSUME NEW x \in Tokens PROVE InsertAt(t, i, x) \in Text
  BY <1>2, <1>3, TextFacts DEF InsertAt
<1>7. ASSUME NEW x \in Tokens PROVE ReplaceAt(t, i, x) \in Text
  BY <1>1, ExceptSeq DEF ReplaceAt, Text
<1> QED BY <1>5, <1>6, <1>7

\* Every object is of one of the types.
LEMMA NestedTypes ==
  ASSUME NEW o \in Nested[MaxDepth]
  PROVE  o.type \in Types
<1>1. Nested[MaxDepth] = Holds(IF MaxDepth = 0 THEN {} ELSE Nested[MaxDepth - 1])
  BY NestedEquation, DepthAssumption
<1>2. \A V : o \in Holds(V) => o.type \in Types
  BY DEF Holds, Numbers, Holding, Types, Looping
<1> QED BY <1>1, <1>2

LEMMA InitTextInv == Init => TextInv
<1> SUFFICES ASSUME Init PROVE TextInv
  OBVIOUS
<1>1. object.type \in Types
  BY ObjectsAssumption, NestedTypes DEF Init
<1>2. CallsOK
  BY EmptyIsSeq DEF Init, CallsOK
<1>3. text \in Text
  BY TextFacts DEF Init
<1> QED BY <1>1, <1>2, <1>3 DEF Init, TextInv

\* Each step of Parse keeps the invariant and brings it nearer to its end.
LEMMA ParseSteps ==
  ASSUME TextInv, ParseStep
  PROVE  TextInv' /\ NearerToItsEnd
<1>1. Stepped
  <2>1. CASE ParseWord
    BY <2>1, WordSteps
  <2>2. CASE ParseTyped
    BY <2>2, TypedSteps
  <2>3. CASE ParseIntegerElement
    BY <2>3, NumberSteps DEF ParseIntegerElement
  <2>4. CASE ParseUnsignedElement
    BY <2>4, NumberSteps DEF ParseUnsignedElement
  <2>5. CASE ParseElement
    BY <2>5, ElementSteps
  <2>6. CASE SkipEmptyKey
    BY <2>6, SkipSteps
  <2>7. CASE KeyAlone
    BY <2>7, AloneSteps
  <2>8. CASE ParsePair
    BY <2>8, PairSteps
  <2>9. CASE EndLoop \/ FailLoop
    BY <2>9, EndSteps
  <2> QED BY <2>1, <2>2, <2>3, <2>4, <2>5, <2>6, <2>7, <2>8, <2>9 DEF ParseStep
<1>2. turn' \in 0 .. 1
  BY DEF ParseStep, TextInv
<1>3. text' \in Text
  BY DEF ParseStep, TextInv, callerVars
<1> QED BY <1>1, <1>2, <1>3 DEF Stepped, TextInv

\* So does every other step.
LEMMA NextTextInv == TextInv /\ [Next]_vars => TextInv'
<1> SUFFICES ASSUME TextInv, [Next]_vars PROVE TextInv'
  OBVIOUS
<1>a. calls' = calls => CallsOK'
  BY DEF CallsOK, TextInv
<1>1. CASE RenderObject
  <2>1. text' \in Text
    BY <1>1, RenderType DEF RenderObject
  <2> QED BY <1>1, <1>a, <2>1 DEF RenderObject, TextInv
<1>2. CASE Edit
  <2>1. text' \in Text
    BY <1>2, EditedType, EditsAssumption DEF Edit, TextInv
  <2> QED BY <1>2, <1>a, <2>1 DEF Edit, TextInv
<1>3. CASE CallParse
  <2> DEFINE s == <<NewCall(text)>>
  <2>1. CallOK(NewCall(text))
    BY NewCallOK DEF TextInv
  <2>2. IsSeq(s)
    <3>1. s \in Seq({NewCall(text)})
      OBVIOUS
    <3> QED BY <3>1, SeqIsSeq
  <2>3. Len(s) = 1 /\ DOMAIN s = 1 .. 1 /\ s[1] = NewCall(text)
    OBVIOUS
  <2>4. calls' = s
    BY <1>3 DEF CallParse
  <2> HIDE DEF s
  <2>5. CallsOK'
    <3>1. \A i \in DOMAIN s : i = 1 /\ ~(i < Len(s)) /\ CallOK(s[i])
      BY <2>1, <2>3
    <3>2. \A i \in DOMAIN calls' :
            CallOK(calls'[i]) /\ (i < Len(calls') => calls'[i].phase = "loop")
      BY <2>4, <3>1
    <3> QED BY <2>2, <2>4, <3>2 DEF CallsOK
  <2>6. EmptyObject.type \in Types
    BY DEF EmptyObject, Object, Types
  <2> QED BY <1>3, <2>5, <2>6 DEF CallParse, callerVars, TextInv
<1>4. CASE ParseStep
  BY <1>4, ParseSteps
<1>5. CASE UNCHANGED vars
  BY <1>5, <1>a DEF vars, callerVars, TextInv
<1> QED BY <1>1, <1>2, <1>3, <1>4, <1>5 DEF Next, Done

\* Whatever object was rendered and however its text was changed, Parse keeps every
\* index within its text, every object of a known type, and the parts of a collection
\* a map in the order of its keys (collection_[key] = ... of SerializedCollection::Parse).
THEOREM TextTyped == Spec => []TypeOK
<1>1. Spec => []TextInv
  BY InitTextInv, NextTextInv, PTL DEF Spec
<1> QED BY <1>1, TextInvTypes, PTL

\* Whatever the text, no turn of a loop of Parse is spent in place: each step returns,
\* moves on in its text, or parses a shorter one.
THEOREM ParseAdvances == Spec => Advances
<1>1. Spec => []TextInv
  BY InitTextInv, NextTextInv, PTL DEF Spec
<1>2. TextInv /\ [Next]_vars => [ParseStep => NearerToItsEnd]_vars
  BY ParseSteps
<1> QED BY <1>1, <1>2, PTL DEF Spec, Advances

===============================================================================
