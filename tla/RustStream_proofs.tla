--------------------------- MODULE RustStream_proofs ---------------------------
(***************************************************************************)
(* The stream of values, for any types, however deep, any number of values *)
(* cut anywhere, and any spoilt byte.  The reader keeps to the walk along  *)
(* which the writer made the bytes it reads.                               *)
(***************************************************************************)
EXTENDS RustStream, SequenceTheorems, WellFoundedInduction, TLAPS

Bytes == 0 .. 255
Codes == 0 .. 2047
\* Numbers of two groups at most.
Lengths == {n \in Nat : n < 16384}

-------------------------------------------------------------------------------
(* The bytes of leaves *)

LEMMA LengthIsNat ==
  ASSUME NEW v \in Lengths
  PROVE  v \in Nat /\ v < 16384 /\ (v < 128 => v \in Bytes)
<1>1. v \in Nat /\ v < 16384
  BY DEF Lengths
<1>2. v < 128 => v \in Bytes
  BY <1>1 DEF Bytes
<1> QED BY <1>1, <1>2

LEMMA BelowIsLength ==
  ASSUME NEW v \in Nat, v < 16384
  PROVE  v \in Lengths
BY DEF Lengths

LEMMA GroupsOf ==
  ASSUME NEW v \in Lengths
  PROVE  /\ v \div 128 \in 0 .. 127 /\ v % 128 \in 0 .. 127
         /\ (v \div 128) * 128 + (v % 128) = v
<1>1. v \in Nat /\ v < 16384
  BY LengthIsNat
<1> QED BY <1>1

LEMMA IntBytesFacts ==
  ASSUME NEW v \in Lengths
  PROVE  /\ IntBytes(v) \in Seq(Bytes)
         /\ v < 128 => /\ Len(IntBytes(v)) = 1 /\ IntBytes(v)[1] = v
         /\ ~(v < 128) => /\ Len(IntBytes(v)) = 2
                          /\ IntBytes(v)[1] = 128 + v \div 128
                          /\ IntBytes(v)[2] = v % 128
<1>1. v \div 128 \in 0 .. 127 /\ v % 128 \in 0 .. 127
  BY GroupsOf
<1>2. v \in Nat /\ (v < 128 => v \in Bytes)
  BY LengthIsNat
<1>3. 128 + v \div 128 \in Bytes /\ v % 128 \in Bytes
  BY <1>1 DEF Bytes
<1>4. CASE v < 128
  BY <1>2, <1>4 DEF IntBytes
<1>5. CASE ~(v < 128)
  <2>1. IntBytes(v) = <<128 + v \div 128, v % 128>>
    BY <1>5 DEF IntBytes
  <2> DEFINE a == 128 + v \div 128
             b == v % 128
  <2>2. a \in Bytes /\ b \in Bytes /\ IntBytes(v) = <<a, b>>
    BY <1>3, <2>1
  <2> HIDE DEF a, b
  <2>3. <<a, b>> \in Seq(Bytes) /\ Len(<<a, b>>) = 2
        /\ <<a, b>>[1] = a /\ <<a, b>>[2] = b
    BY <2>2
  <2>4. /\ IntBytes(v) \in Seq(Bytes) /\ Len(IntBytes(v)) = 2
        /\ IntBytes(v)[1] = a /\ IntBytes(v)[2] = b
    BY <2>2, <2>3
  <2> QED BY <1>5, <2>4 DEF a, b
<1> QED BY <1>4, <1>5

\* A repeated text has that many times its length, and its bytes.
LEMMA CopiesFacts ==
  ASSUME NEW n \in Nat, NEW s \in Seq(Bytes), Len(s) >= 1
  PROVE  /\ Copies(n, s) \in Seq(Bytes)
         /\ Len(Copies(n, s)) = n * Len(s)
         /\ \A i \in 1 .. n * Len(s) : Copies(n, s)[i] = s[((i - 1) % Len(s)) + 1]
<1> DEFINE m == n * Len(s)
<1>1. m \in Nat /\ Len(s) \in Nat \ {0}
  BY SMT
<1>2. ASSUME NEW i \in 1 .. m PROVE s[((i - 1) % Len(s)) + 1] \in Bytes
  <2>1. i - 1 \in Nat
    BY <1>1, <1>2
  <2>2. (i - 1) % Len(s) \in 0 .. Len(s) - 1
    BY <1>1, <2>1
  <2>3. ((i - 1) % Len(s)) + 1 \in 1 .. Len(s)
    BY <1>1, <2>2
  <2> QED BY <2>3
<1>3. Copies(n, s) = [i \in 1 .. m |-> s[((i - 1) % Len(s)) + 1]]
  BY DEF Copies
<1> HIDE DEF m
<1>4. Copies(n, s) \in [1 .. m -> Bytes]
  BY <1>2, <1>3
<1> QED BY <1>1, <1>3, <1>4 DEF m

\* A character's bytes are a character.
LEMMA CharBytesFacts ==
  ASSUME NEW c \in Codes
  PROVE  /\ CharBytes(c) \in Seq(Bytes)
         /\ c < 128 => /\ Len(CharBytes(c)) = 1 /\ CharBytes(c)[1] = c
         /\ ~(c < 128) => /\ Len(CharBytes(c)) = 2
                          /\ IsLead(CharBytes(c)[1])
                          /\ IsContinuation(CharBytes(c)[2])
                          /\ CharBytes(c)[1] >= 192
                          /\ (CharBytes(c)[1] - 192) * 64 + CharBytes(c)[2] - 128 = c
<1>0. c \in Nat /\ c < 2048
  BY DEF Codes
<1>1. CASE c < 128
  <2>1. c \in Bytes
    BY <1>0, <1>1 DEF Bytes
  <2>2. CharBytes(c) = <<c>>
    BY <1>1 DEF CharBytes
  <2> QED BY <1>1, <2>1, <2>2
<1>2. CASE ~(c < 128)
  <2> DEFINE a == c \div 64
             b == c % 64
  <2>1. a \in 2 .. 31 /\ b \in 0 .. 63 /\ a * 64 + b = c
    BY <1>0, <1>2
  <2>2. CharBytes(c) = <<192 + a, 128 + b>>
    BY <1>2 DEF CharBytes
  <2> HIDE DEF a, b
  <2>3. 192 + a \in Bytes /\ 128 + b \in Bytes
    BY <2>1 DEF Bytes
  <2>4. CharBytes(c) \in Seq(Bytes) /\ Len(CharBytes(c)) = 2
        /\ CharBytes(c)[1] = 192 + a /\ CharBytes(c)[2] = 128 + b
    BY <2>2, <2>3
  <2>5. IsLead(192 + a) /\ IsContinuation(128 + b) /\ 192 + a >= 192
    BY <2>1 DEF IsLead, IsContinuation
  <2>6. ((192 + a) - 192) * 64 + (128 + b) - 128 = c
    BY <2>1
  <2> QED BY <1>2, <2>4, <2>5, <2>6
<1> QED BY <1>1, <1>2

LEMMA CharIsUtf8 ==
  ASSUME NEW c \in Codes
  PROVE  IsUtf8(CharBytes(c))
<1> DEFINE s == CharBytes(c)
<1>1. /\ s \in Seq(Bytes)
      /\ c < 128 => Len(s) = 1 /\ s[1] = c
      /\ ~(c < 128) => Len(s) = 2 /\ IsLead(s[1]) /\ IsContinuation(s[2])
  BY CharBytesFacts
<1> HIDE DEF s
<1>2. DOMAIN s = 1 .. Len(s)
  BY <1>1
<1> SUFFICES ASSUME NEW i \in 1 .. Len(s)
             PROVE  \/ s[i] < 128
                    \/ IsLead(s[i]) /\ i < Len(s) /\ IsContinuation(s[i + 1])
                    \/ IsContinuation(s[i]) /\ i > 1 /\ IsLead(s[i - 1])
  BY <1>2 DEF IsUtf8, s
<1>3. CASE c < 128
  <2>1. Len(s) = 1 /\ s[1] = c
    BY <1>1, <1>3, Zenon
  <2>2. i = 1
    BY <2>1
  <2> QED BY <1>3, <2>1, <2>2
<1>4. CASE ~(c < 128)
  <2>1. Len(s) = 2 /\ IsLead(s[1]) /\ IsContinuation(s[2])
    BY <1>1, <1>4, Zenon
  <2>2. CASE i = 1
    BY <2>1, <2>2
  <2>3. CASE i = 2
    BY <2>1, <2>3
  <2>4. i = 1 \/ i = 2
    BY <2>1
  <2> QED BY <2>2, <2>3, <2>4
<1> QED BY <1>3, <1>4

\* So are those of a repeated one.
LEMMA TextIsUtf8 ==
  ASSUME NEW n \in Nat, NEW c \in Codes
  PROVE  IsUtf8(Copies(n, CharBytes(c)))
<1> DEFINE s == CharBytes(c)
           t == Copies(n, s)
           l == Len(s)
<1>0. /\ s \in Seq(Bytes)
      /\ c < 128 => Len(s) = 1 /\ s[1] = c
      /\ ~(c < 128) => Len(s) = 2 /\ IsLead(s[1]) /\ IsContinuation(s[2])
  BY CharBytesFacts
<1> HIDE DEF s
<1>1. s \in Seq(Bytes) /\ l \in {1, 2}
  BY <1>0
<1>2. /\ t \in Seq(Bytes) /\ Len(t) = n * l /\ DOMAIN t = 1 .. n * l
      /\ \A i \in 1 .. n * l : t[i] = s[((i - 1) % l) + 1]
  <2>1. Len(s) >= 1
    BY <1>1
  <2>2. /\ t \in Seq(Bytes) /\ Len(t) = n * l
        /\ \A i \in 1 .. n * l : t[i] = s[((i - 1) % l) + 1]
    BY ONLY <1>1, <2>1, n \in Nat, CopiesFacts
  <2> HIDE DEF t, l
  <2> QED BY <2>2
<1> SUFFICES ASSUME NEW i \in DOMAIN t
             PROVE  \/ t[i] < 128
                    \/ IsLead(t[i]) /\ i < Len(t) /\ IsContinuation(t[i + 1])
                    \/ IsContinuation(t[i]) /\ i > 1 /\ IsLead(t[i - 1])
  BY DEF IsUtf8, s
<1> HIDE DEF t
<1>3. i \in 1 .. n * l /\ i \in Nat \ {0}
  BY <1>1, <1>2
<1>4. CASE c < 128
  <2>1. l = 1 /\ s[1] = c
    BY <1>0, <1>4
  <2>2. ((i - 1) % l) + 1 = 1
    BY <1>3, <2>1
  <2>3. t[i] = c
    BY <1>2, <1>3, <2>1, <2>2
  <2> QED BY <1>4, <2>3
<1>5. CASE ~(c < 128)
  <2>1. l = 2 /\ IsLead(s[1]) /\ IsContinuation(s[2])
    BY <1>0, <1>5
  <2> HIDE DEF l
  <2>2. n * l = 2 * n /\ Len(t) = 2 * n
    BY <1>2, <2>1
  <2>3. CASE (i - 1) % 2 = 0
    <3>1. i < 2 * n /\ i + 1 \in 1 .. 2 * n /\ ((i + 1) - 1) % 2 = 1
      BY <1>3, <2>2, <2>3
    <3>2. ((i - 1) % 2) + 1 = 1 /\ (((i + 1) - 1) % 2) + 1 = 2
      BY <2>3, <3>1
    <3>3. /\ t[i] = s[((i - 1) % 2) + 1]
          /\ t[i + 1] = s[(((i + 1) - 1) % 2) + 1]
      BY <1>2, <1>3, <2>1, <2>2, <3>1
    <3>4. t[i] = s[1] /\ t[i + 1] = s[2]
      BY <3>2, <3>3
    <3> QED BY <2>1, <2>2, <3>1, <3>4
  <2>4. CASE (i - 1) % 2 = 1
    <3>1. i > 1 /\ i - 1 \in 1 .. 2 * n /\ ((i - 1) - 1) % 2 = 0
      <4>1. PICK k \in Nat : k = i - 1
        BY <1>3
      <4>2. k % 2 = 1
        BY <2>4, <4>1
      <4>3. k >= 1 /\ (k - 1) % 2 = 0
        BY ONLY k \in Nat, <4>2
      <4> QED BY <1>3, <2>2, <4>1, <4>3
    <3>2. ((i - 1) % 2) + 1 = 2 /\ (((i - 1) - 1) % 2) + 1 = 1
      BY <2>4, <3>1
    <3>3. /\ t[i] = s[((i - 1) % 2) + 1]
          /\ t[i - 1] = s[(((i - 1) - 1) % 2) + 1]
      BY <1>2, <1>3, <2>1, <2>2, <3>1
    <3>4. t[i] = s[2] /\ t[i - 1] = s[1]
      BY <3>2, <3>3
    <3> QED BY <2>1, <3>1, <3>4
  <2> QED BY <1>3, <2>3, <2>4
<1> QED BY <1>4, <1>5

-------------------------------------------------------------------------------
(* The walk of a value *)

\* What one call for the shape s may carry, append and leave to be walked.
Wrote(s, token, bytes, shapes) ==
  \/ /\ s.kind = "byte"
     /\ token \in Bytes /\ bytes = <<token>> /\ shapes = <<>>
  \/ /\ s.kind = "int"
     /\ token \in Lengths /\ bytes = IntBytes(token) /\ shapes = <<>>
  \/ /\ s.kind = "wide"
     /\ token \in Bytes /\ bytes = WideBytes(token) /\ shapes = <<>>
  \/ /\ s.kind = "char"
     /\ token \in Codes /\ bytes = CharBytes(token) /\ shapes = <<>>
  \/ /\ s.kind \in {"str", "bytes"} /\ (s.kind = "str" => IsUtf8(token))
     /\ token \in Seq(Bytes) /\ Len(token) \in Lengths
     /\ bytes = IntBytes(Len(token)) \o token /\ shapes = <<>>
  \/ /\ s.kind = "option"
     /\ token = 0 /\ bytes = <<0>> /\ shapes = <<>>
  \/ /\ s.kind = "option"
     /\ token = 1 /\ bytes = <<1>> /\ shapes = s.parts
  \/ /\ s.kind \in {"seq", "map"}
     /\ token \in Lengths /\ bytes = IntBytes(token)
     /\ shapes = <<Elements(token, s.parts)>>
  \/ /\ s.kind = "tuple"
     /\ token = 0 /\ bytes = <<>> /\ shapes = s.parts
  \/ /\ s.kind = "enum"
     /\ token \in Lengths /\ token + 1 \in DOMAIN s.parts
     /\ bytes = IntBytes(token) /\ shapes = <<s.parts[token + 1]>>

\* Where a walk is: what is to be walked, what was, and the bytes behind it.
Point(todo, tokens, at) == [todo |-> todo, tokens |-> tokens, at |-> at]

\* One call leads from p to q through the bytes in b.
Calls(b, p, q) ==
  \E token, bytes, shapes :
    /\ Wrote(Head(p.todo), token, bytes, shapes)
    /\ q = Point(shapes \o Tail(p.todo), Append(p.tokens, token), p.at + Len(bytes))
    /\ \A i \in 1 .. Len(bytes) : b[p.at + i] = bytes[i]

Unrolls(p, q) ==
  /\ Head(p.todo).kind = "elements"
  /\ q = Point(NextOf(Head(p.todo)) \o Tail(p.todo), p.tokens, p.at)

Step(b, p, q) == p.todo # <<>> /\ (Calls(b, p, q) \/ Unrolls(p, q))

\* t[0] .. t[m] is a walk along the shape through the bytes s + 1 .. e of b.
IsWalk(b, t, m, s, e) ==
  /\ t[0] = Point(<<shape>>, <<>>, s)
  /\ \A i \in 0 .. m - 1 : Step(b, t[i], t[i + 1])
  /\ \A i \in 0 .. m : t[i].at \in s .. e

\* One leads to p in m steps.
Leads(b, m, s, e, p) == \E t : IsWalk(b, t, m, s, e) /\ t[m] = p

\* The first e bytes of b are in c, behind d others.
Holds(c, b, d, e) == \A i \in 1 .. e : c[d + i] = b[i]

LEMMA BytesWritten ==
  ASSUME NEW s, NEW token, NEW bytes, NEW shapes, Wrote(s, token, bytes, shapes)
  PROVE  bytes \in Seq(Bytes)
<1>0. 0 \in Bytes /\ 1 \in Bytes /\ <<>> \in Seq(Bytes)
  BY DEF Bytes
<1>1. CASE token \in Bytes /\ bytes = <<token>>
  BY <1>1
<1>2. CASE token \in Lengths /\ bytes = IntBytes(token)
  BY <1>2, IntBytesFacts
<1>3. CASE token \in Bytes /\ bytes = WideBytes(token)
  BY <1>0, <1>3 DEF WideBytes
<1>4. CASE token \in Codes /\ bytes = CharBytes(token)
  BY <1>4, CharBytesFacts
<1>5. CASE /\ token \in Seq(Bytes) /\ Len(token) \in Lengths
           /\ bytes = IntBytes(Len(token)) \o token
  <2>1. IntBytes(Len(token)) \in Seq(Bytes)
    BY <1>5, IntBytesFacts
  <2> QED BY <1>5, <2>1, ConcatProperties
<1>6. CASE bytes = <<0>> \/ bytes = <<1>> \/ bytes = <<>>
  <2>1. <<0>> \in Seq(Bytes)
    BY <1>0
  <2>2. <<1>> \in Seq(Bytes)
    BY <1>0
  <2> QED BY <1>0, <1>6, <2>1, <2>2, Zenon
<1> QED BY <1>1, <1>2, <1>3, <1>4, <1>5, <1>6, Zenon DEF Wrote

-------------------------------------------------------------------------------
(* What the reader finds at its position *)

SliceOK ==
  /\ stream \in Seq(Bytes)
  /\ position \in Nat /\ limit \in Nat
  /\ position <= limit /\ limit <= Len(stream)

LEMMA LeastNatural ==
  ASSUME NEW S \in SUBSET Nat, S # {}
  PROVE  Min(S) \in S /\ \A n \in S : Min(S) <= n
<1>1. S \subseteq Nat
  OBVIOUS
<1>2. PICK n \in S : \A m \in S : ~ (<<m, n>> \in OpToRel(<, Nat))
  BY <1>1, NatLessThanWellFounded, WFMin
<1>3. \A m \in S : ~ (m < n)
  BY <1>1, <1>2 DEF OpToRel
<1>4. \A m \in S : n <= m
  BY <1>1, <1>3
<1> QED BY <1>4 DEF Min

LEMMA SliceFacts ==
  ASSUME SliceOK
  PROVE  /\ Left \in Nat /\ position + Left = limit
         /\ \A i \in 1 .. Left : At(i) \in Bytes /\ At(i) = stream[position + i]
<1>1. /\ stream \in Seq(Bytes) /\ position \in Nat /\ limit \in Nat
      /\ position <= limit /\ limit <= Len(stream)
  BY DEF SliceOK
<1>2. Left \in Nat /\ position + Left = limit
  BY <1>1 DEF Left
<1>3. ASSUME NEW i \in 1 .. Left
      PROVE  At(i) \in Bytes /\ At(i) = stream[position + i]
  <2>1. position + i \in 1 .. Len(stream)
    BY <1>1, <1>2
  <2>2. stream[position + i] \in Bytes
    BY ONLY <1>1, <2>1, ElementOfSeq
  <2> QED BY <2>2 DEF At
<1> QED BY <1>2, <1>3

Ends == {i \in 1 .. Left : At(i) < 128}

\* An integer that ends in the slice is taken up to its end.
LEMMA IntAtFacts ==
  ASSUME SliceOK
  PROVE  /\ IntAt.ok = (Ends # {})
         /\ IntAt.taken \in 0 .. Left
         /\ Ends = {} => IntAt.taken = Left
         /\ Ends # {} => IntAt.taken = Min(Ends) /\ Min(Ends) \in Ends
         /\ IntAt.ok => IntAt.number \in Nat
<1> DEFINE n == IF Ends = {} THEN Left ELSE Min(Ends)
           group(i) == At(i) % 128
           number == IF \E i \in 1 .. n - 2 : group(i) # 0 THEN Huge
                     ELSE (IF n < 2 THEN 0 ELSE group(n - 1) * 128) + group(n)
<1>1. IntAt = [ok |-> Ends # {}, taken |-> n, number |-> number]
  BY DEF IntAt, Ends
<1>2. Ends # {} => Min(Ends) \in Ends
  <2>1. Ends \in SUBSET Nat
    BY DEF Ends
  <2> QED BY <2>1, LeastNatural
<1>3. Left \in Nat /\ \A i \in 1 .. Left : At(i) \in Bytes
  BY SliceFacts
<1>4. n \in 0 .. Left /\ (Ends # {} => n \in 1 .. Left)
  BY <1>2, <1>3 DEF Ends
<1>5. \A i \in 1 .. Left : group(i) \in Nat
  <2> SUFFICES ASSUME NEW i \in 1 .. Left PROVE At(i) % 128 \in Nat
    OBVIOUS
  <2>1. At(i) \in Nat
    BY <1>3 DEF Bytes
  <2> QED BY <2>1
<1> HIDE DEF group
<1>6. Ends # {} => number \in Nat
  <2> SUFFICES ASSUME Ends # {} PROVE number \in Nat
    OBVIOUS
  <2> HIDE DEF n
  <2>1. group(n) \in Nat
    BY <1>4, <1>5
  <2>2. ~(n < 2) => group(n - 1) * 128 \in Nat
    <3> SUFFICES ASSUME ~(n < 2) PROVE group(n - 1) * 128 \in Nat
      OBVIOUS
    <3>1. n - 1 \in 1 .. Left
      BY <1>3, <1>4
    <3>2. group(n - 1) \in Nat
      BY <1>5, <3>1
    <3> QED BY <3>2
  <2>3. Huge \in Nat
    BY DEF Huge
  <2> QED BY <2>1, <2>2, <2>3
<1> HIDE DEF number
<1>7. /\ IntAt.ok = (Ends # {}) /\ IntAt.taken = n /\ IntAt.number = number
  BY <1>1
<1> QED BY <1>2, <1>4, <1>6, <1>7

\* Where the bytes of v begin, and are all there, v is read.
LEMMA IntAtReads ==
  ASSUME SliceOK, NEW v \in Lengths, Len(IntBytes(v)) <= Left,
         \A i \in 1 .. Len(IntBytes(v)) : At(i) = IntBytes(v)[i]
  PROVE  IntAt.ok /\ IntAt.taken = Len(IntBytes(v)) /\ IntAt.number = v
<1> DEFINE n == IF Ends = {} THEN Left ELSE Min(Ends)
           group(i) == At(i) % 128
           number == IF \E i \in 1 .. n - 2 : group(i) # 0 THEN Huge
                     ELSE (IF n < 2 THEN 0 ELSE group(n - 1) * 128) + group(n)
<1>1. IntAt.ok = (Ends # {}) /\ IntAt.taken = n /\ IntAt.number = number
  <2>1. IntAt = [ok |-> Ends # {}, taken |-> n, number |-> number]
    BY DEF IntAt, Ends
  <2> HIDE DEF n, number
  <2> QED BY <2>1
<1>2. v \in Nat /\ Left \in Nat
  BY LengthIsNat, SliceFacts
<1>3. Ends # {} => Min(Ends) \in Ends /\ \A m \in Ends : Min(Ends) <= m
  <2>1. Ends \in SUBSET Nat
    BY DEF Ends
  <2> QED BY <2>1, LeastNatural
<1>4. CASE v < 128
  <2>1. Len(IntBytes(v)) = 1 /\ IntBytes(v)[1] = v
    BY <1>4, IntBytesFacts
  <2>2. At(1) = v /\ 1 \in 1 .. Left
    BY <1>2, <2>1
  <2>3. 1 \in Ends
    BY <1>4, <2>2 DEF Ends
  <2>4. Min(Ends) = 1
    <3>1. Min(Ends) \in 1 .. Left /\ Min(Ends) <= 1
      BY <1>3, <2>3 DEF Ends
    <3> QED BY <1>2, <3>1
  <2>5. Ends # {} /\ n = 1
    BY <2>3, <2>4
  <2>6. group(1) = v
    BY <1>2, <1>4, <2>2
  <2> HIDE DEF n, group
  <2>7. number = v
    BY <1>2, <2>5, <2>6
  <2> QED BY <1>1, <2>1, <2>5, <2>7
<1>5. CASE ~(v < 128)
  <2>1. /\ Len(IntBytes(v)) = 2 /\ IntBytes(v)[1] = 128 + v \div 128
        /\ IntBytes(v)[2] = v % 128
    BY <1>5, IntBytesFacts
  <2>2. /\ v \div 128 \in 0 .. 127 /\ v % 128 \in 0 .. 127
        /\ (v \div 128) * 128 + (v % 128) = v
    BY GroupsOf
  <2> DEFINE a == v \div 128
             b == v % 128
  <2>3. At(1) = 128 + a /\ At(2) = b /\ 2 <= Left
    BY <2>1
  <2>4. a \in 0 .. 127 /\ b \in 0 .. 127 /\ a * 128 + b = v
    BY <2>2
  <2> HIDE DEF a, b
  <2>5. 2 \in Ends /\ 1 \notin Ends
    BY <1>2, <2>3, <2>4 DEF Ends
  <2>6. Min(Ends) = 2
    <3>1. Min(Ends) \in 1 .. Left /\ Min(Ends) <= 2 /\ Min(Ends) # 1
      BY <1>3, <2>5 DEF Ends
    <3> QED BY <1>2, <3>1
  <2>7. Ends # {} /\ n = 2
    BY <2>5, <2>6
  <2>8. group(1) = a /\ group(2) = b
    <3>1. \A x \in 0 .. 127 : (128 + x) % 128 = x /\ x % 128 = x
      BY ONLY TRUE
    <3> QED BY <2>3, <2>4, <3>1
  <2> HIDE DEF n, group
  <2>9. number = a * 128 + b
    <3>1. n - 1 = 1 /\ ~(n < 2) /\ ~\E i \in 1 .. n - 2 : group(i) # 0
      BY <2>7
    <3> QED BY <2>7, <2>8, <3>1
  <2> HIDE DEF number
  <2> QED BY <1>1, <2>1, <2>4, <2>7, <2>9
<1> QED BY <1>4, <1>5

\* Where they are cut, nothing is.
LEMMA IntAtCut ==
  ASSUME SliceOK, NEW v \in Lengths, Left < Len(IntBytes(v)),
         \A i \in 1 .. Left : At(i) = IntBytes(v)[i]
  PROVE  ~IntAt.ok
<1>1. v \in Nat /\ Left \in Nat
  BY LengthIsNat, SliceFacts
<1>2. ASSUME NEW i \in Ends PROVE FALSE
  <2>1. i \in 1 .. Left /\ At(i) < 128 /\ At(i) = IntBytes(v)[i]
    BY <1>2 DEF Ends
  <2>2. CASE v < 128
    <3>1. Len(IntBytes(v)) = 1
      BY <2>2, IntBytesFacts
    <3> QED BY <1>1, <2>1, <3>1
  <2>3. CASE ~(v < 128)
    <3>1. Len(IntBytes(v)) = 2 /\ IntBytes(v)[1] = 128 + v \div 128
          /\ v \div 128 \in 0 .. 127
      BY <2>3, IntBytesFacts, GroupsOf
    <3>2. i = 1
      BY <1>1, <2>1, <3>1
    <3>3. At(i) = 128 + v \div 128
      BY <2>1, <3>1, <3>2
    <3> DEFINE a == v \div 128
    <3>4. a \in 0 .. 127 /\ At(i) = 128 + a
      BY <3>1, <3>3
    <3> HIDE DEF a
    <3> QED BY <2>1, <3>4
  <2> QED BY <2>2, <2>3
<1> QED BY <1>2, IntAtFacts

-------------------------------------------------------------------------------
(* The reader's request follows the writer's call *)

\* As far as the slice goes, these bytes are at the reader's position.
Facing(bytes) == \A i \in 1 .. Len(bytes) : i <= Left => At(i) = bytes[i]

\* The request takes the reader to q, or fails because q is behind the slice.
Follows(q) ==
  \/ q.at <= limit /\ ~failed' /\ q = Point(rTodo', rTokens', position')
  \/ q.at > limit /\ failed' /\ rTodo' = rTodo

\* Where a call leads that wrote these bytes.
After(token, bytes, shapes) ==
  Point(shapes \o Tail(rTodo), Append(rTokens, token), position + Len(bytes))

LEMMA TakeFollows ==
  ASSUME SliceOK, ~failed, NEW token, NEW bytes, NEW shapes, NEW n,
         n = Len(bytes), n \in Nat, n <= Left, Take(token, n, shapes)
  PROVE  Follows(After(token, bytes, shapes))
<1>1. position + n <= limit
  BY SliceFacts DEF SliceOK
<1> QED BY <1>1 DEF Take, Follows, After, Point

LEMMA RefuseFollows ==
  ASSUME SliceOK, NEW token, NEW bytes, NEW shapes, NEW n,
         Len(bytes) \in Nat, Len(bytes) > Left, Refuse(n)
  PROVE  Follows(After(token, bytes, shapes))
<1>1. position + Len(bytes) > limit
  BY SliceFacts DEF SliceOK
<1> QED BY <1>1 DEF Refuse, Follows, After, Point

LEMMA FacingInt ==
  ASSUME SliceOK, NEW v \in Lengths, Facing(IntBytes(v))
  PROVE  /\ Len(IntBytes(v)) \in {1, 2}
         /\ Len(IntBytes(v)) <= Left
              => IntAt.ok /\ IntAt.taken = Len(IntBytes(v)) /\ IntAt.number = v
         /\ Len(IntBytes(v)) > Left => ~IntAt.ok
<1>1. Len(IntBytes(v)) \in {1, 2} /\ Left \in Nat
  BY IntBytesFacts, SliceFacts
<1>2. CASE Len(IntBytes(v)) <= Left
  <2>1. \A i \in 1 .. Len(IntBytes(v)) : At(i) = IntBytes(v)[i]
    BY <1>1, <1>2 DEF Facing
  <2> QED BY <1>1, <1>2, <2>1, IntAtReads
<1>3. CASE Len(IntBytes(v)) > Left
  <2>1. \A i \in 1 .. Left : At(i) = IntBytes(v)[i]
    BY <1>1, <1>3 DEF Facing
  <2>2. Left < Len(IntBytes(v))
    BY <1>1, <1>3
  <2>3. ~IntAt.ok
    BY <2>1, <2>2, IntAtCut
  <2> QED BY <1>1, <1>3, <2>3
<1> QED BY <1>1, <1>2, <1>3

LEMMA FollowByte ==
  ASSUME SliceOK, ~failed, DeserializeByte, NEW token \in Bytes, Facing(<<token>>)
  PROVE  Follows(After(token, <<token>>, <<>>))
<1>1. Left \in Nat /\ Len(<<token>>) = 1 /\ <<token>>[1] = token
  BY SliceFacts
<1>2. CASE Left > 0
  <2>1. At(1) = token
    BY <1>1, <1>2 DEF Facing
  <2>2. Take(token, 1, <<>>)
    BY <1>2, <2>1 DEF DeserializeByte
  <2>3. 1 \in Nat /\ 1 <= Left
    BY <1>1, <1>2
  <2> QED BY <1>1, <2>2, <2>3, TakeFollows
<1>3. CASE ~(Left > 0)
  BY <1>1, <1>3, RefuseFollows DEF DeserializeByte
<1> QED BY <1>2, <1>3

LEMMA FollowInt ==
  ASSUME SliceOK, ~failed, DeserializeInt, NEW v \in Lengths, Facing(IntBytes(v))
  PROVE  Follows(After(v, IntBytes(v), <<>>))
<1>1. Left \in Nat /\ Len(IntBytes(v)) \in Nat
  BY SliceFacts, FacingInt
<1>2. CASE Len(IntBytes(v)) <= Left
  <2>1. Take(v, Len(IntBytes(v)), <<>>)
    BY <1>2, FacingInt DEF DeserializeInt
  <2> QED BY <1>1, <1>2, <2>1, TakeFollows
<1>3. CASE Len(IntBytes(v)) > Left
  BY <1>1, <1>3, FacingInt, RefuseFollows DEF DeserializeInt
<1> QED BY <1>1, <1>2, <1>3

LEMMA FollowWide ==
  ASSUME SliceOK, ~failed, DeserializeWide, NEW token \in Bytes,
         Facing(WideBytes(token))
  PROVE  Follows(After(token, WideBytes(token), <<>>))
<1>1. /\ Left \in Nat /\ Len(WideBytes(token)) = 2 /\ WideBytes(token)[2] = token
  BY SliceFacts DEF WideBytes
<1>2. CASE Left >= 2
  <2>1. At(2) = token
    BY <1>1, <1>2 DEF Facing
  <2>2. Take(token, 2, <<>>)
    BY <1>2, <2>1 DEF DeserializeWide
  <2> DEFINE n == 2
  <2>3. n = Len(WideBytes(token)) /\ n \in Nat /\ n <= Left /\ Take(token, n, <<>>)
    BY <1>1, <1>2, <2>2
  <2> HIDE DEF n
  <2> QED BY <2>3, TakeFollows
<1>3. CASE ~(Left >= 2)
  BY <1>1, <1>3, RefuseFollows DEF DeserializeWide
<1> QED BY <1>2, <1>3

LEMMA FollowChar ==
  ASSUME SliceOK, ~failed, DeserializeChar, NEW c \in Codes, Facing(CharBytes(c))
  PROVE  Follows(After(c, CharBytes(c), <<>>))
<1> DEFINE s == CharBytes(c)
           n == IF Left > 0 /\ At(1) >= 192 THEN 2 ELSE 1
           Read == [i \in 1 .. n |-> At(i)]
           Value == IF n = 1 THEN At(1) ELSE (At(1) - 192) * 64 + At(2) - 128
<1>1. IF Left < n \/ ~IsUtf8(Read) THEN Refuse(0) ELSE Take(Value, n, <<>>)
  BY DEF DeserializeChar
<1>2. /\ s \in Seq(Bytes) /\ IsUtf8(s)
      /\ c < 128 => Len(s) = 1 /\ s[1] = c
      /\ ~(c < 128) => /\ Len(s) = 2 /\ IsLead(s[1]) /\ IsContinuation(s[2])
                       /\ s[1] >= 192 /\ (s[1] - 192) * 64 + s[2] - 128 = c
  BY CharBytesFacts, CharIsUtf8
<1>3. Left \in Nat /\ c \in Nat
  BY SliceFacts DEF Codes
<1>4. Facing(s)
  OBVIOUS
<1> HIDE DEF s
<1>5. Len(s) \in {1, 2}
  BY <1>2
<1>6. Left > 0 => At(1) = s[1]
  BY <1>3, <1>4, <1>5 DEF Facing
<1>7. Left > 0 => n = Len(s)
  BY <1>2, <1>3, <1>6
<1>8. CASE Len(s) <= Left
  <2>1. Left > 0 /\ n = Len(s)
    BY <1>3, <1>5, <1>7, <1>8
  <2>2. \A i \in 1 .. n : At(i) = s[i]
    BY <1>3, <1>4, <1>5, <1>8, <2>1 DEF Facing
  <2> HIDE DEF n
  <2>3. Read = s
    <3>1. Read = [i \in 1 .. n |-> s[i]]
      BY <2>2
    <3>2. s = [i \in 1 .. Len(s) |-> s[i]]
      BY <1>2
    <3> QED BY <2>1, <3>1, <3>2
  <2>4. Value = c
    <3>1. CASE c < 128
      BY <1>2, <2>1, <2>2, <3>1
    <3>2. CASE ~(c < 128)
      <4>1. Len(s) = 2 /\ (s[1] - 192) * 64 + s[2] - 128 = c
        BY <1>2, <3>2
      <4>2. n = 2 /\ At(1) = s[1] /\ At(2) = s[2]
        BY <2>1, <2>2, <4>1
      <4> QED BY <4>1, <4>2
    <3> QED BY <3>1, <3>2
  <2> HIDE DEF Read, Value
  <2>5. Take(c, Len(s), <<>>)
    BY <1>1, <1>2, <1>3, <1>5, <1>8, <2>1, <2>3, <2>4
  <2>6. Follows(After(c, s, <<>>))
    BY <1>3, <1>5, <1>8, <2>5, TakeFollows
  <2> QED BY <2>6 DEF s
<1>9. CASE Len(s) > Left
  <2>1. Left < n
    <3>1. CASE Left > 0
      <4>1. n = Len(s)
        BY <1>7, <3>1
      <4> HIDE DEF n
      <4> QED BY <1>3, <1>5, <1>9, <4>1
    <3>2. CASE ~(Left > 0)
      <4>1. n = 1 /\ Left = 0
        BY <1>3, <3>2
      <4> QED BY <4>1
    <3> QED BY <3>1, <3>2
  <2> HIDE DEF n, Read, Value
  <2>2. Refuse(0)
    BY <1>1, <2>1
  <2>3. Follows(After(c, s, <<>>))
    BY <1>3, <1>5, <1>9, <2>2, RefuseFollows
  <2> QED BY <2>3 DEF s
<1> QED BY <1>3, <1>5, <1>8, <1>9

LEMMA FollowText ==
  ASSUME SliceOK, ~failed, NEW kind, TakeBytes(kind),
         NEW s \in Seq(Bytes), Len(s) \in Lengths, kind = "str" => IsUtf8(s),
         Facing(IntBytes(Len(s)) \o s)
  PROVE  Follows(After(s, IntBytes(Len(s)) \o s, <<>>))
<1> DEFINE h == IntBytes(Len(s))
           n == IntAt.number
           value == [i \in 1 .. n |-> At(IntAt.taken + i)]
<1>1. IF IntAt.ok /\ Left - IntAt.taken >= n /\ (kind = "str" => IsUtf8(value))
      THEN Take(value, IntAt.taken + n, <<>>) ELSE Refuse(IntAt.taken)
  BY DEF TakeBytes
<1>2. h \in Seq(Bytes) /\ Len(h) \in {1, 2}
  BY IntBytesFacts
<1>3. /\ h \o s \in Seq(Bytes) /\ Len(h \o s) = Len(h) + Len(s)
      /\ \A i \in 1 .. Len(h) + Len(s) :
           (h \o s)[i] = IF i <= Len(h) THEN h[i] ELSE s[i - Len(h)]
  BY <1>2, ConcatProperties
<1>4. Left \in Nat /\ Len(s) \in Nat
  BY SliceFacts
<1>5. Facing(h \o s)
  OBVIOUS
<1>6. Facing(h)
  <2>1. \A i \in 1 .. Len(h) : i \in 1 .. Len(h \o s) /\ (h \o s)[i] = h[i]
    BY <1>2, <1>3, <1>4
  <2> QED BY <1>5, <2>1 DEF Facing
<1>7. /\ Len(h) <= Left => IntAt.ok /\ IntAt.taken = Len(h) /\ n = Len(s)
      /\ Len(h) > Left => ~IntAt.ok
  BY <1>6, FacingInt
<1> HIDE DEF h
<1>8. CASE Len(h) + Len(s) <= Left
  <2>1. IntAt.ok /\ IntAt.taken = Len(h) /\ n = Len(s)
    BY <1>2, <1>4, <1>7, <1>8
  <2>2. ASSUME NEW i \in 1 .. Len(s) PROVE At(Len(h) + i) = s[i]
    <3>1. /\ Len(h) + i \in 1 .. Len(h) + Len(s) /\ Len(h) + i <= Left
          /\ ~(Len(h) + i <= Len(h)) /\ (Len(h) + i) - Len(h) = i
      BY <1>2, <1>4, <1>8
    <3>2. (h \o s)[Len(h) + i] = s[i]
      BY <1>3, <3>1
    <3> QED BY <1>3, <1>5, <3>1, <3>2 DEF Facing
  <2>3. value = s
    <3>1. value = [i \in 1 .. Len(s) |-> s[i]]
      BY <2>1, <2>2
    <3>2. s = [i \in 1 .. Len(s) |-> s[i]]
      OBVIOUS
    <3> QED BY <3>1, <3>2
  <2> HIDE DEF value, n
  <2>4. Take(s, Len(h) + Len(s), <<>>)
    <3>1. Left - IntAt.taken >= n
      BY <1>2, <1>4, <1>8, <2>1
    <3> QED BY <1>1, <2>1, <2>3, <3>1
  <2>5. Len(h) + Len(s) \in Nat
    BY <1>2, <1>4
  <2>6. Follows(After(s, h \o s, <<>>))
    BY <1>3, <1>8, <2>4, <2>5, TakeFollows
  <2> QED BY <2>6 DEF h
<1>9. CASE Len(h) + Len(s) > Left
  <2>1. ~(IntAt.ok /\ Left - IntAt.taken >= n)
    <3>1. CASE Len(h) > Left
      BY <1>7, <3>1
    <3>2. CASE Len(h) <= Left
      BY <1>2, <1>4, <1>7, <1>9, <3>2
    <3> QED BY <1>2, <1>4, <3>1, <3>2
  <2> HIDE DEF value, n
  <2>2. Refuse(IntAt.taken)
    BY <1>1, <2>1
  <2>3. Len(h \o s) \in Nat /\ Len(h \o s) > Left
    BY <1>2, <1>3, <1>4, <1>9
  <2>4. Follows(After(s, h \o s, <<>>))
    BY <2>2, <2>3, RefuseFollows
  <2> QED BY <2>4 DEF h
<1> QED BY <1>2, <1>4, <1>8, <1>9

LEMMA FollowOption ==
  ASSUME SliceOK, ~failed, DeserializeOption, NEW token, NEW shapes,
         \/ token = 0 /\ shapes = <<>>
         \/ token = 1 /\ shapes = AskedParts,
         Facing(<<token>>)
  PROVE  Follows(After(token, <<token>>, shapes))
<1>1. Left \in Nat /\ Len(<<token>>) = 1 /\ <<token>>[1] = token
  BY SliceFacts
<1>2. CASE Left = 0
  BY <1>1, <1>2, RefuseFollows DEF DeserializeOption
<1>3. CASE Left # 0
  <2>1. At(1) = token
    BY <1>1, <1>3 DEF Facing
  <2>2. Take(token, 1, shapes)
    BY <1>3, <2>1 DEF DeserializeOption
  <2>3. 1 \in Nat /\ 1 <= Left
    BY <1>1, <1>3
  <2> QED BY <1>1, <2>2, <2>3, TakeFollows
<1> QED BY <1>2, <1>3

LEMMA FollowElements ==
  ASSUME SliceOK, ~failed, TakeElements, NEW v \in Lengths, Facing(IntBytes(v))
  PROVE  Follows(After(v, IntBytes(v), <<Elements(v, AskedParts)>>))
<1>1. Left \in Nat /\ Len(IntBytes(v)) \in Nat
  BY SliceFacts, FacingInt
<1>2. CASE Len(IntBytes(v)) <= Left
  <2>1. Take(v, Len(IntBytes(v)), <<Elements(v, AskedParts)>>)
    BY <1>2, FacingInt DEF TakeElements
  <2> QED BY <1>1, <1>2, <2>1, TakeFollows
<1>3. CASE Len(IntBytes(v)) > Left
  BY <1>1, <1>3, FacingInt, RefuseFollows DEF TakeElements
<1> QED BY <1>1, <1>2, <1>3

LEMMA FollowTuple ==
  ASSUME SliceOK, ~failed, DeserializeTuple
  PROVE  Follows(After(0, <<>>, AskedParts))
<1>1. Take(0, 0, AskedParts) /\ Left \in Nat /\ Len(<<>>) = 0
  BY SliceFacts DEF DeserializeTuple
<1> QED BY <1>1, TakeFollows

LEMMA FollowEnum ==
  ASSUME SliceOK, ~failed, DeserializeEnum, NEW v \in Lengths,
         v + 1 \in DOMAIN AskedParts, Facing(IntBytes(v))
  PROVE  Follows(After(v, IntBytes(v), <<AskedParts[v + 1]>>))
<1>1. Left \in Nat /\ Len(IntBytes(v)) \in Nat
  BY SliceFacts, FacingInt
<1>2. CASE Len(IntBytes(v)) <= Left
  <2>1. Take(v, Len(IntBytes(v)), <<AskedParts[v + 1]>>)
    BY <1>2, FacingInt DEF DeserializeEnum
  <2> QED BY <1>1, <1>2, <2>1, TakeFollows
<1>3. CASE Len(IntBytes(v)) > Left
  BY <1>1, <1>3, FacingInt, RefuseFollows DEF DeserializeEnum
<1> QED BY <1>1, <1>2, <1>3

\* Whatever is asked for is asked for as its kind demands.
LEMMA RequestIs ==
  ASSUME DeserializeRequest
  PROVE  LET kind == Head(rTodo).kind IN
         /\ rTodo # <<>> /\ ~failed
         /\ kind = "byte" => DeserializeByte
         /\ kind = "int" => DeserializeInt
         /\ kind = "wide" => DeserializeWide
         /\ kind = "char" => DeserializeChar
         /\ kind = "str" => TakeBytes("str")
         /\ kind = "bytes" => TakeBytes("bytes")
         /\ kind = "option" => DeserializeOption
         /\ kind \in {"seq", "map"} => TakeElements
         /\ kind = "elements" => DeserializeNext
         /\ kind = "tuple" => DeserializeTuple
         /\ kind = "enum" => DeserializeEnum
<1> DEFINE kind == Head(rTodo).kind
           is(k) == rTodo # <<>> /\ ~failed /\ kind = k
<1>1. /\ DeserializeByte => is("byte")
      /\ DeserializeInt => is("int")
      /\ DeserializeWide => is("wide")
      /\ DeserializeChar => is("char")
      /\ TakeBytes("str") => is("str")
      /\ TakeBytes("bytes") => is("bytes")
      /\ DeserializeOption => is("option")
      /\ DeserializeSeq => is("seq") /\ TakeElements
      /\ DeserializeMap => is("map") /\ TakeElements
      /\ DeserializeNext => is("elements")
      /\ DeserializeTuple => is("tuple")
      /\ DeserializeEnum => is("enum")
  BY Zenon DEF DeserializeByte, DeserializeInt, DeserializeWide, DeserializeChar,
     TakeBytes, DeserializeOption, DeserializeSeq, DeserializeMap,
     DeserializeNext, DeserializeTuple, DeserializeEnum, Asking
<1>2. \/ DeserializeByte \/ DeserializeInt \/ DeserializeWide \/ DeserializeChar
      \/ TakeBytes("str") \/ TakeBytes("bytes") \/ DeserializeOption
      \/ DeserializeSeq \/ DeserializeMap \/ DeserializeNext
      \/ DeserializeTuple \/ DeserializeEnum
  BY DEF DeserializeRequest, DeserializeStr, DeserializeBytes
<1> HIDE DEF kind
<1>3. /\ rTodo # <<>> /\ ~failed
      /\ kind = "byte" => DeserializeByte
      /\ kind = "int" => DeserializeInt
      /\ kind = "wide" => DeserializeWide
      /\ kind = "char" => DeserializeChar
      /\ kind = "str" => TakeBytes("str")
      /\ kind = "bytes" => TakeBytes("bytes")
      /\ kind = "option" => DeserializeOption
      /\ kind \in {"seq", "map"} => TakeElements
      /\ kind = "elements" => DeserializeNext
      /\ kind = "tuple" => DeserializeTuple
      /\ kind = "enum" => DeserializeEnum
  BY <1>1, <1>2
<1> QED BY <1>3 DEF kind

\* The reader keeps to the walk of the writer, to the end of the slice.
LEMMA RequestFollows ==
  ASSUME SliceOK, DeserializeRequest,
         NEW q, Step(stream, Point(rTodo, rTokens, position), q)
  PROVE  Follows(q)
<1> DEFINE p == Point(rTodo, rTokens, position)
<1>1. p.todo = rTodo /\ p.tokens = rTokens /\ p.at = position
  BY DEF Point
<1>2. rTodo # <<>> /\ ~failed
  BY RequestIs
<1>3. CASE Unrolls(p, q)
  <2>1. /\ Head(rTodo).kind = "elements"
        /\ q = Point(NextOf(Head(rTodo)) \o Tail(rTodo), rTokens, position)
    BY <1>1, <1>3 DEF Unrolls
  <2>2. DeserializeNext
    BY <2>1, RequestIs
  <2>3. q = Point(rTodo', rTokens', position') /\ failed' = failed
    BY <2>1, <2>2 DEF DeserializeNext
  <2>4. q.at <= limit
    BY <2>1 DEF Point, SliceOK
  <2> QED BY <1>2, <2>3, <2>4 DEF Follows
<1>4. CASE Calls(stream, p, q)
  <2> DEFINE s == Head(rTodo)
  <2>1. PICK token, bytes, shapes :
          /\ Wrote(s, token, bytes, shapes)
          /\ q = Point(shapes \o Tail(rTodo), Append(rTokens, token), position + Len(bytes))
          /\ \A i \in 1 .. Len(bytes) : stream[position + i] = bytes[i]
    BY <1>1, <1>4 DEF Calls
  <2>2. q = After(token, bytes, shapes)
    BY <2>1 DEF After
  <2>3. Facing(bytes)
    <3>1. Len(bytes) \in Nat
      BY <2>1, BytesWritten, LenProperties
    <3> SUFFICES ASSUME NEW i \in 1 .. Len(bytes), i <= Left PROVE At(i) = bytes[i]
      BY DEF Facing
    <3> QED BY <2>1 DEF At
  <2>4. AskedParts = s.parts
    BY DEF AskedParts
  <2> HIDE DEF s
  <2>5. CASE s.kind = "byte" /\ token \in Bytes /\ bytes = <<token>> /\ shapes = <<>>
    <3>1. DeserializeByte
      BY <2>5, RequestIs DEF s
    <3> QED BY <1>2, <2>2, <2>3, <2>5, <3>1, FollowByte
  <2>6. CASE s.kind = "int" /\ token \in Lengths /\ bytes = IntBytes(token) /\ shapes = <<>>
    <3>1. DeserializeInt
      BY <2>6, RequestIs DEF s
    <3> QED BY <1>2, <2>2, <2>3, <2>6, <3>1, FollowInt
  <2>7. CASE s.kind = "wide" /\ token \in Bytes /\ bytes = WideBytes(token) /\ shapes = <<>>
    <3>1. DeserializeWide
      BY <2>7, RequestIs DEF s
    <3> QED BY <1>2, <2>2, <2>3, <2>7, <3>1, FollowWide
  <2>8. CASE s.kind = "char" /\ token \in Codes /\ bytes = CharBytes(token) /\ shapes = <<>>
    <3>1. DeserializeChar
      BY <2>8, RequestIs DEF s
    <3> QED BY <1>2, <2>2, <2>3, <2>8, <3>1, FollowChar
  <2>9. CASE /\ s.kind \in {"str", "bytes"} /\ (s.kind = "str" => IsUtf8(token))
             /\ token \in Seq(Bytes) /\ Len(token) \in Lengths
             /\ bytes = IntBytes(Len(token)) \o token /\ shapes = <<>>
    <3>1. TakeBytes(s.kind)
      BY <2>9, RequestIs DEF s
    <3> QED BY <1>2, <2>2, <2>3, <2>9, <3>1, FollowText
  <2>10. CASE s.kind = "option" /\ token = 0 /\ bytes = <<0>> /\ shapes = <<>>
    <3>1. DeserializeOption
      BY <2>10, RequestIs DEF s
    <3> QED BY <1>2, <2>2, <2>3, <2>10, <3>1, FollowOption
  <2>11. CASE s.kind = "option" /\ token = 1 /\ bytes = <<1>> /\ shapes = s.parts
    <3>1. DeserializeOption
      BY <2>11, RequestIs DEF s
    <3> QED BY <1>2, <2>2, <2>3, <2>4, <2>11, <3>1, FollowOption
  <2>12. CASE /\ s.kind \in {"seq", "map"} /\ token \in Lengths
              /\ bytes = IntBytes(token) /\ shapes = <<Elements(token, s.parts)>>
    <3>1. TakeElements
      BY <2>12, RequestIs DEF s
    <3> QED BY <1>2, <2>2, <2>3, <2>4, <2>12, <3>1, FollowElements
  <2>13. CASE s.kind = "tuple" /\ token = 0 /\ bytes = <<>> /\ shapes = s.parts
    <3>1. DeserializeTuple
      BY <2>13, RequestIs DEF s
    <3> QED BY <1>2, <2>2, <2>4, <2>13, <3>1, FollowTuple
  <2>14. CASE /\ s.kind = "enum" /\ token \in Lengths /\ token + 1 \in DOMAIN s.parts
              /\ bytes = IntBytes(token) /\ shapes = <<s.parts[token + 1]>>
    <3>1. DeserializeEnum
      BY <2>14, RequestIs DEF s
    <3> QED BY <1>2, <2>2, <2>3, <2>4, <2>14, <3>1, FollowEnum
  <2> QED BY <2>1, <2>5, <2>6, <2>7, <2>8, <2>9, <2>10, <2>11, <2>12, <2>13, <2>14
          DEF Wrote
<1> QED BY <1>3, <1>4 DEF Step

Stays ==
  /\ position' \in position .. limit
  /\ failed' => rTodo' = rTodo /\ rTodo # <<>>

LEMMA TakeStays ==
  ASSUME SliceOK, ~failed, NEW token, NEW n \in 0 .. Left, NEW shapes,
         Take(token, n, shapes)
  PROVE  Stays
<1>1. position \in Nat /\ limit \in Nat /\ Left \in Nat /\ position + Left = limit
  BY SliceFacts DEF SliceOK
<1>2. position' = position + n /\ failed' = failed
  BY DEF Take
<1> QED BY <1>1, <1>2 DEF Stays

LEMMA RefuseStays ==
  ASSUME SliceOK, rTodo # <<>>, NEW n \in 0 .. Left, Refuse(n)
  PROVE  Stays
<1>1. position \in Nat /\ limit \in Nat /\ Left \in Nat /\ position + Left = limit
  BY SliceFacts DEF SliceOK
<1>2. position' = position + n /\ rTodo' = rTodo
  BY DEF Refuse
<1> QED BY <1>1, <1>2 DEF Stays

\* Whatever the bytes, a request stays within the slice.
LEMMA RequestStays ==
  ASSUME SliceOK, DeserializeRequest
  PROVE  Stays
<1>0. rTodo # <<>> /\ ~failed
  BY RequestIs
<1>1. Left \in Nat /\ position \in Nat /\ limit \in Nat /\ position + Left = limit
  BY SliceFacts DEF SliceOK
<1>2. \A token, shapes : \A n \in 0 .. Left : Take(token, n, shapes) => Stays
  BY <1>0, TakeStays
<1>3. \A n \in 0 .. Left : Refuse(n) => Stays
  BY <1>0, RefuseStays
<1>4. 0 \in 0 .. Left /\ (Left > 0 => 1 \in 0 .. Left) /\ (Left >= 2 => 2 \in 0 .. Left)
  BY <1>1
<1>5. IntAt.taken \in 0 .. Left /\ (IntAt.ok => IntAt.number \in Nat)
  BY IntAtFacts
<1>6. CASE DeserializeByte
  BY <1>2, <1>3, <1>4, <1>6 DEF DeserializeByte
<1>7. CASE DeserializeInt
  BY <1>2, <1>3, <1>5, <1>7 DEF DeserializeInt
<1>8. CASE DeserializeWide
  BY <1>2, <1>3, <1>4, <1>8 DEF DeserializeWide
<1>9. CASE DeserializeChar
  <2> DEFINE n == IF Left > 0 /\ At(1) >= 192 THEN 2 ELSE 1
             v == IF n = 1 THEN At(1) ELSE (At(1) - 192) * 64 + At(2) - 128
             u == ~IsUtf8([i \in 1 .. n |-> At(i)])
  <2>1. IF Left < n \/ u THEN Refuse(0) ELSE Take(v, n, <<>>)
    BY <1>9 DEF DeserializeChar
  <2>2. n \in {1, 2}
    OBVIOUS
  <2> HIDE DEF n, v, u
  <2>3. ~(Left < n) => n \in 0 .. Left
    BY <1>1, <2>2
  <2> QED BY <1>2, <1>3, <1>4, <2>1, <2>3
<1>10. ASSUME NEW kind, TakeBytes(kind) PROVE Stays
  <2> DEFINE n == IntAt.number
             v == [i \in 1 .. n |-> At(IntAt.taken + i)]
             u == kind = "str" => IsUtf8(v)
  <2>1. IF IntAt.ok /\ Left - IntAt.taken >= n /\ u
        THEN Take(v, IntAt.taken + n, <<>>) ELSE Refuse(IntAt.taken)
    BY <1>10 DEF TakeBytes
  <2> HIDE DEF v, u
  <2>2. IntAt.ok /\ Left - IntAt.taken >= n => IntAt.taken + n \in 0 .. Left
    BY <1>1, <1>5
  <2> HIDE DEF n
  <2> QED BY <1>2, <1>3, <1>5, <2>1, <2>2
<1>11. CASE DeserializeOption
  <2>1. Left # 0 => 1 \in 0 .. Left
    BY <1>1
  <2> QED BY <1>2, <1>3, <1>4, <1>11, <2>1 DEF DeserializeOption
<1>12. CASE TakeElements
  BY <1>2, <1>3, <1>5, <1>12 DEF TakeElements
<1>13. CASE DeserializeNext
  BY <1>0, <1>1, <1>13 DEF DeserializeNext, Stays
<1>14. CASE DeserializeTuple
  BY <1>2, <1>4, <1>14 DEF DeserializeTuple
<1>15. CASE DeserializeEnum
  BY <1>2, <1>3, <1>5, <1>15 DEF DeserializeEnum
<1>16. \/ DeserializeByte \/ DeserializeInt \/ DeserializeWide \/ DeserializeChar
       \/ TakeBytes("str") \/ TakeBytes("bytes") \/ DeserializeOption
       \/ TakeElements \/ DeserializeNext \/ DeserializeTuple \/ DeserializeEnum
  BY DEF DeserializeRequest, DeserializeStr, DeserializeBytes, DeserializeSeq,
         DeserializeMap
<1> QED BY <1>6, <1>7, <1>8, <1>9, <1>10, <1>11, <1>12, <1>13, <1>14, <1>15, <1>16

-------------------------------------------------------------------------------
(* Walks *)

LEMMA PointFacts ==
  ASSUME NEW todo, NEW tokens, NEW at
  PROVE  /\ Point(todo, tokens, at).todo = todo
         /\ Point(todo, tokens, at).tokens = tokens
         /\ Point(todo, tokens, at).at = at
BY DEF Point

\* A walk reads only its own bytes.
LEMMA WalkAgrees ==
  ASSUME NEW b, NEW c, NEW t, NEW m \in Nat, NEW s \in Nat, NEW e \in Nat,
         IsWalk(b, t, m, s, e), \A i \in 1 .. e : c[i] = b[i]
  PROVE  IsWalk(c, t, m, s, e)
<1>1. ASSUME NEW j \in 0 .. m - 1 PROVE Step(c, t[j], t[j + 1])
  <2>1. /\ Step(b, t[j], t[j + 1])
        /\ t[j].at \in s .. e /\ t[j + 1].at \in s .. e
    <3>1. j \in 0 .. m /\ j + 1 \in 0 .. m
      OBVIOUS
    <3> QED BY <3>1 DEF IsWalk
  <2>2. CASE Unrolls(t[j], t[j + 1])
    BY <2>1, <2>2 DEF Step
  <2>3. CASE Calls(b, t[j], t[j + 1])
    <3>1. PICK token, bytes, shapes :
            /\ Wrote(Head(t[j].todo), token, bytes, shapes)
            /\ t[j + 1] = Point(shapes \o Tail(t[j].todo), Append(t[j].tokens, token),
                                t[j].at + Len(bytes))
            /\ \A i \in 1 .. Len(bytes) : b[t[j].at + i] = bytes[i]
      BY <2>3 DEF Calls
    <3>2. t[j].at + Len(bytes) <= e
      BY <2>1, <3>1 DEF Point
    <3>3. Len(bytes) \in Nat
      BY <3>1, BytesWritten, LenProperties
    <3>4. ASSUME NEW i \in 1 .. Len(bytes) PROVE c[t[j].at + i] = bytes[i]
      <4>1. t[j].at + i \in 1 .. e
        BY <2>1, <3>2, <3>3
      <4> QED BY <3>1, <4>1
    <3>5. Calls(c, t[j], t[j + 1])
      BY <3>1, <3>4 DEF Calls
    <3> QED BY <2>1, <3>5 DEF Step
  <2> QED BY <2>1, <2>2, <2>3 DEF Step
<1> QED BY <1>1 DEF IsWalk

\* A walk may be moved with its bytes.
LEMMA WalkMoves ==
  ASSUME NEW b, NEW c, NEW t, NEW m \in Nat, NEW e \in Nat, NEW d \in Nat,
         IsWalk(b, t, m, 0, e), Holds(c, b, d, e)
  PROVE  Leads(c, m, d, d + e, Point(t[m].todo, t[m].tokens, t[m].at + d))
<1> DEFINE u == [i \in 0 .. m |-> Point(t[i].todo, t[i].tokens, t[i].at + d)]
<1>1. \A i \in 0 .. m : /\ u[i] = Point(t[i].todo, t[i].tokens, t[i].at + d)
                        /\ u[i].todo = t[i].todo /\ u[i].tokens = t[i].tokens
                        /\ u[i].at = t[i].at + d
  BY DEF Point
<1> HIDE DEF u
<1>2. ASSUME NEW j \in 0 .. m - 1 PROVE Step(c, u[j], u[j + 1])
  <2>0. j \in 0 .. m /\ j + 1 \in 0 .. m
    OBVIOUS
  <2>1. /\ Step(b, t[j], t[j + 1])
        /\ t[j].at \in 0 .. e /\ t[j + 1].at \in 0 .. e
    BY <2>0 DEF IsWalk
  <2>2. CASE Unrolls(t[j], t[j + 1])
    <3>1. t[j + 1].todo = NextOf(Head(t[j].todo)) \o Tail(t[j].todo)
          /\ t[j + 1].tokens = t[j].tokens /\ t[j + 1].at = t[j].at
          /\ Head(t[j].todo).kind = "elements"
      <4> DEFINE p == t[j]
                 q == t[j + 1]
      <4>1. /\ Head(p.todo).kind = "elements"
            /\ q = Point(NextOf(Head(p.todo)) \o Tail(p.todo), p.tokens, p.at)
        BY <2>2 DEF Unrolls
      <4> HIDE DEF p, q
      <4>2. /\ q.todo = NextOf(Head(p.todo)) \o Tail(p.todo)
            /\ q.tokens = p.tokens /\ q.at = p.at
        BY ONLY <4>1 DEF Point
      <4> QED BY <4>1, <4>2 DEF p, q
    <3>2. Unrolls(u[j], u[j + 1])
      BY <1>1, <2>0, <3>1 DEF Unrolls
    <3> QED BY <1>1, <2>0, <2>1, <3>2 DEF Step
  <2>3. CASE Calls(b, t[j], t[j + 1])
    <3>1. PICK token, bytes, shapes :
            /\ Wrote(Head(t[j].todo), token, bytes, shapes)
            /\ t[j + 1] = Point(shapes \o Tail(t[j].todo), Append(t[j].tokens, token),
                                t[j].at + Len(bytes))
            /\ \A i \in 1 .. Len(bytes) : b[t[j].at + i] = bytes[i]
      BY <2>3 DEF Calls
    <3>2. /\ t[j + 1].todo = shapes \o Tail(t[j].todo)
          /\ t[j + 1].tokens = Append(t[j].tokens, token)
          /\ t[j + 1].at = t[j].at + Len(bytes)
      <4> DEFINE p == t[j]
                 q == t[j + 1]
      <4>1. q = Point(shapes \o Tail(p.todo), Append(p.tokens, token), p.at + Len(bytes))
        BY <3>1
      <4> HIDE DEF p, q
      <4>2. /\ q.todo = shapes \o Tail(p.todo) /\ q.tokens = Append(p.tokens, token)
            /\ q.at = p.at + Len(bytes)
        BY ONLY <4>1 DEF Point
      <4> QED BY <4>2 DEF p, q
    <3>3. Len(bytes) \in Nat
      BY <3>1, BytesWritten, LenProperties
    <3>4. ASSUME NEW i \in 1 .. Len(bytes) PROVE c[u[j].at + i] = bytes[i]
      <4> DEFINE a == t[j].at
                 l == Len(bytes)
      <4>0. a \in 0 .. e /\ a + l <= e /\ l \in Nat /\ i \in 1 .. l
        BY <2>1, <3>2, <3>3
      <4> HIDE DEF a, l
      <4>3. a + i \in 1 .. e
        BY ONLY <4>0, e \in Nat
      <4>1. t[j].at + i \in 1 .. e
        BY <4>3 DEF a
      <4>2. u[j].at + i = d + (t[j].at + i)
        <5>1. u[j].at = a + d
          BY <1>1, <2>0 DEF a
        <5>2. a \in Nat /\ i \in Nat
          BY ONLY <4>0
        <5>3. (a + d) + i = d + (a + i)
          BY ONLY <5>2, d \in Nat
        <5> QED BY <5>1, <5>3 DEF a
      <4>4. c[d + (t[j].at + i)] = b[t[j].at + i]
        BY <4>1 DEF Holds
      <4> QED BY <3>1, <4>2, <4>4
    <3>5. u[j + 1].at = u[j].at + Len(bytes)
      <4>1. u[j].at = t[j].at + d /\ u[j + 1].at = t[j + 1].at + d
        BY <1>1, <2>0
      <4> QED BY <2>1, <3>2, <3>3, <4>1
    <3>6. u[j + 1] = Point(shapes \o Tail(u[j].todo), Append(u[j].tokens, token),
                           u[j].at + Len(bytes))
      BY <1>1, <2>0, <3>2, <3>5
    <3>7. Calls(c, u[j], u[j + 1])
      BY <1>1, <2>0, <3>1, <3>4, <3>6 DEF Calls
    <3> QED BY <1>1, <2>0, <2>1, <3>7 DEF Step
  <2> QED BY <2>1, <2>2, <2>3 DEF Step
<1>3. u[0] = Point(<<shape>>, <<>>, d)
  <2>1. t[0] = Point(<<shape>>, <<>>, 0) /\ 0 \in 0 .. m
    BY DEF IsWalk
  <2> QED BY <1>1, <2>1 DEF Point
<1>4. \A i \in 0 .. m : u[i].at \in d .. d + e
  <2> SUFFICES ASSUME NEW i \in 0 .. m PROVE u[i].at \in d .. d + e
    OBVIOUS
  <2>1. t[i].at \in 0 .. e /\ u[i].at = t[i].at + d
    BY <1>1 DEF IsWalk
  <2> QED BY <2>1
<1>5. m \in 0 .. m
  OBVIOUS
<1>6. IsWalk(c, u, m, d, d + e)
  BY <1>2, <1>3, <1>4 DEF IsWalk
<1> QED BY <1>1, <1>5, <1>6 DEF Leads

\* A walk goes on by one step.
LEMMA WalkGrows ==
  ASSUME NEW b, NEW c, NEW t, NEW m \in Nat, NEW s \in Nat, NEW e \in Nat,
         IsWalk(b, t, m, s, e), Holds(c, b, 0, e),
         NEW q, Step(c, t[m], q), q.at \in Nat, q.at >= e, q.at >= s
  PROVE  Leads(c, m + 1, s, q.at, q)
<1> DEFINE u == [i \in 0 .. m + 1 |-> IF i = m + 1 THEN q ELSE t[i]]
<1>1. u[m + 1] = q /\ \A i \in 0 .. m : u[i] = t[i]
  OBVIOUS
<1> HIDE DEF u
<1>2. IsWalk(c, t, m, s, e)
  BY WalkAgrees DEF Holds
<1>3. ASSUME NEW j \in 0 .. (m + 1) - 1 PROVE Step(c, u[j], u[j + 1])
  <2>1. CASE j = m
    BY <1>1, <2>1
  <2>2. CASE j # m
    <3>1. j \in 0 .. m - 1 /\ j \in 0 .. m /\ j + 1 \in 0 .. m
      BY <2>2
    <3> QED BY <1>1, <1>2, <3>1 DEF IsWalk
  <2> QED BY <2>1, <2>2
<1>4. ASSUME NEW i \in 0 .. m + 1 PROVE u[i].at \in s .. q.at
  <2>1. CASE i = m + 1
    BY <1>1, <2>1
  <2>2. CASE i # m + 1
    <3>1. i \in 0 .. m
      BY <2>2
    <3>2. u[i].at \in s .. e
      BY <1>1, <3>1 DEF IsWalk
    <3> QED BY <3>2
  <2> QED BY <2>1, <2>2
<1>5. u[0] = Point(<<shape>>, <<>>, s)
  BY <1>1 DEF IsWalk
<1>6. IsWalk(c, u, m + 1, s, q.at)
  BY <1>3, <1>4, <1>5 DEF IsWalk
<1> QED BY <1>1, <1>6 DEF Leads

-------------------------------------------------------------------------------
(* The writer's call is a step of a walk *)

\* What may be left to be walked.
Walkable ==
  Shapes \cup [kind : {"elements"}, parts : Seq(Shapes), times : Nat]

LEMMA PartsAreWalkable ==
  ASSUME NEW s \in Walkable
  PROVE  s.parts \in Seq(Shapes) /\ s.parts \in Seq(Walkable)
<1>1. s.parts \in Seq(Shapes)
  <2>1. CASE s \in Shapes
    BY <2>1, ShapesAssumption DEF ShapesAssumption
  <2>2. CASE s \in [kind : {"elements"}, parts : Seq(Shapes), times : Nat]
    BY <2>2
  <2> QED BY <2>1, <2>2 DEF Walkable
<1>2. Shapes \subseteq Walkable
  BY DEF Walkable
<1> QED BY <1>1, <1>2, SeqMonotonic

LEMMA ElementsAreWalkable ==
  ASSUME NEW n \in Nat, NEW parts \in Seq(Shapes)
  PROVE  Elements(n, parts) \in Walkable
BY DEF Elements, Walkable

LEMMA NextIsWalkable ==
  ASSUME NEW s \in Walkable, s.kind = "elements"
  PROVE  NextOf(s) \in Seq(Walkable)
<1>1. s \notin Shapes
  BY ShapesAssumption DEF ShapesAssumption, Kinds
<1>2. s.times \in Nat /\ s.parts \in Seq(Shapes) /\ s.parts \in Seq(Walkable)
  BY <1>1, PartsAreWalkable DEF Walkable
<1>3. CASE s.times = 0
  BY <1>3 DEF NextOf
<1>4. CASE s.times # 0
  <2>1. s.times - 1 \in Nat
    BY <1>2, <1>4
  <2>2. Elements(s.times - 1, s.parts) \in Walkable
    BY <1>2, <2>1, ElementsAreWalkable
  <2>3. NextOf(s) = Append(s.parts, Elements(s.times - 1, s.parts))
    BY <1>4 DEF NextOf
  <2> QED BY <1>2, <2>2, <2>3, AppendProperties
<1> QED BY <1>3, <1>4

WriterTyped == buffer \in Seq(Bytes) /\ wTodo \in Seq(Walkable)

\* One step of the walk, and the bytes it appends.
Grows ==
  /\ WriterTyped'
  /\ Step(buffer', Point(wTodo, wTokens, Len(buffer)), Point(wTodo', wTokens', Len(buffer')))
  /\ Len(buffer') >= Len(buffer)
  /\ \A i \in 1 .. Len(buffer) : buffer'[i] = buffer[i]

LEMMA PutGrows ==
  ASSUME WriterTyped, wTodo # <<>>, NEW token, NEW bytes, NEW shapes \in Seq(Walkable),
         Wrote(Head(wTodo), token, bytes, shapes), Put(token, bytes, shapes)
  PROVE  Grows
<1>1. bytes \in Seq(Bytes)
  BY BytesWritten
<1>2. /\ buffer' = buffer \o bytes /\ wTokens' = Append(wTokens, token)
      /\ wTodo' = shapes \o Tail(wTodo)
  BY DEF Put
<1>3. /\ buffer' \in Seq(Bytes) /\ Len(buffer') = Len(buffer) + Len(bytes)
      /\ \A i \in 1 .. Len(buffer) + Len(bytes) :
           buffer'[i] = IF i <= Len(buffer) THEN buffer[i] ELSE bytes[i - Len(buffer)]
  BY <1>1, <1>2, ConcatProperties DEF WriterTyped
<1>4. Len(buffer) \in Nat /\ Len(bytes) \in Nat
  BY <1>1 DEF WriterTyped
<1>5. wTodo' \in Seq(Walkable)
  <2>1. Tail(wTodo) \in Seq(Walkable)
    BY HeadTailProperties DEF WriterTyped
  <2> QED BY <1>2, <2>1, ConcatProperties
<1>6. \A i \in 1 .. Len(buffer) : buffer'[i] = buffer[i]
  BY <1>3, <1>4
<1>7. \A i \in 1 .. Len(bytes) : buffer'[Len(buffer) + i] = bytes[i]
  <2> SUFFICES ASSUME NEW i \in 1 .. Len(bytes)
               PROVE  buffer'[Len(buffer) + i] = bytes[i]
    OBVIOUS
  <2>1. /\ Len(buffer) + i \in 1 .. Len(buffer) + Len(bytes)
        /\ ~(Len(buffer) + i <= Len(buffer)) /\ (Len(buffer) + i) - Len(buffer) = i
    BY <1>4
  <2> QED BY <1>3, <2>1
<1> DEFINE p == Point(wTodo, wTokens, Len(buffer))
           q == Point(wTodo', wTokens', Len(buffer'))
<1>8. p.todo = wTodo /\ p.tokens = wTokens /\ p.at = Len(buffer)
  BY DEF Point
<1>9. q = Point(shapes \o Tail(wTodo), Append(wTokens, token), Len(buffer) + Len(bytes))
  BY <1>2, <1>3
<1> HIDE DEF p, q
<1>10. Calls(buffer', p, q)
  BY <1>7, <1>8, <1>9 DEF Calls
<1>11. Step(buffer', p, q)
  BY <1>8, <1>10 DEF Step
<1>12. Len(buffer') >= Len(buffer)
  BY <1>3, <1>4
<1> QED BY <1>3, <1>5, <1>6, <1>11, <1>12 DEF Grows, WriterTyped, p, q

\* What is written is within the bounds of the model.
LEMMA Leaves ==
  /\ Small \subseteq Bytes /\ Numbers \subseteq Lengths /\ Chars \subseteq Codes
  /\ Numbers \cap 0 .. 255 \subseteq Bytes
  /\ MaxLen \in Nat
  /\ \A n \in 0 .. MaxLen : n \in Nat /\ n \in Lengths /\ n + n \in Lengths
<1>1. Numbers \subseteq Lengths
  <2> SUFFICES ASSUME NEW n \in Numbers PROVE n \in Lengths
    OBVIOUS
  <2>1. n \in Nat /\ n < 128 * 128
    BY LeavesAssumption DEF LeavesAssumption
  <2>2. n < 16384
    BY ONLY <2>1
  <2> QED BY <2>1, <2>2, BelowIsLength
<1>2. Chars \subseteq Codes
  <2> SUFFICES ASSUME NEW c \in Chars PROVE c \in Codes
    OBVIOUS
  <2>1. c \in Nat /\ c < 2048
    BY LeavesAssumption DEF LeavesAssumption
  <2> QED BY <2>1 DEF Codes
<1>3. Small \subseteq Bytes
  <2> SUFFICES ASSUME NEW n \in Small PROVE n \in Bytes
    OBVIOUS
  <2>1. n \in Lengths /\ n < 128
    BY <1>1 DEF Small
  <2> QED BY <2>1, LengthIsNat
<1>4. MaxLen \in Nat /\ MaxLen < 8192
  <2>1. MaxLen \in Nat /\ MaxLen < 64 * 128
    BY LeavesAssumption DEF LeavesAssumption
  <2> QED BY ONLY <2>1
<1>5. ASSUME NEW n \in 0 .. MaxLen PROVE n \in Nat /\ n \in Lengths /\ n + n \in Lengths
  <2>1. n \in Nat /\ n < 8192
    BY ONLY <1>4, n \in 0 .. MaxLen
  <2>2. n + n \in Nat /\ n + n < 16384 /\ n < 16384
    BY ONLY <2>1
  <2> QED BY <2>1, <2>2, BelowIsLength
<1> QED BY <1>1, <1>2, <1>3, <1>4, <1>5 DEF Bytes

LEMMA CallGrows ==
  ASSUME WriterTyped, SerializeCall
  PROVE  Grows
<1> DEFINE s == Head(wTodo)
<1>0. <<>> \in Seq(Walkable)
  OBVIOUS
<1>1. ASSUME wTodo # <<>>
      PROVE  s \in Walkable /\ Parts = s.parts /\ Parts \in Seq(Shapes)
             /\ Parts \in Seq(Walkable)
  <2>1. s \in Walkable
    BY <1>1, HeadTailProperties DEF WriterTyped
  <2>2. Parts = s.parts
    BY DEF Parts
  <2> HIDE DEF s
  <2> QED BY <2>1, <2>2, PartsAreWalkable
<1>2. ASSUME NEW kind, Walking(kind) PROVE wTodo # <<>> /\ s.kind = kind
  BY <1>2 DEF Walking
<1> HIDE DEF s
<1>3. CASE SerializeByte
  <2>1. wTodo # <<>> /\ s.kind = "byte"
    BY <1>2, <1>3 DEF SerializeByte
  <2>2. PICK n \in Small : Put(n, <<n>>, <<>>)
    BY <1>3 DEF SerializeByte
  <2>3. Wrote(s, n, <<n>>, <<>>)
    BY <2>1, Leaves DEF Wrote
  <2> QED BY <1>0, <2>1, <2>2, <2>3, PutGrows DEF s
<1>4. CASE SerializeInt
  <2>1. wTodo # <<>> /\ s.kind = "int"
    BY <1>2, <1>4 DEF SerializeInt
  <2>2. PICK n \in Numbers : Put(n, IntBytes(n), <<>>)
    BY <1>4 DEF SerializeInt
  <2>3. Wrote(s, n, IntBytes(n), <<>>)
    BY <2>1, Leaves DEF Wrote
  <2> QED BY <1>0, <2>1, <2>2, <2>3, PutGrows DEF s
<1>5. CASE SerializeWide
  <2>1. wTodo # <<>> /\ s.kind = "wide"
    BY <1>2, <1>5 DEF SerializeWide
  <2>2. PICK n \in Small : Put(n, WideBytes(n), <<>>)
    BY <1>5 DEF SerializeWide
  <2>3. Wrote(s, n, WideBytes(n), <<>>)
    BY <2>1, Leaves DEF Wrote
  <2> QED BY <1>0, <2>1, <2>2, <2>3, PutGrows DEF s
<1>6. CASE SerializeChar
  <2>1. wTodo # <<>> /\ s.kind = "char"
    BY <1>2, <1>6 DEF SerializeChar
  <2>2. PICK c \in Chars : Put(c, CharBytes(c), <<>>)
    BY <1>6 DEF SerializeChar
  <2>3. Wrote(s, c, CharBytes(c), <<>>)
    BY <2>1, Leaves DEF Wrote
  <2> QED BY <1>0, <2>1, <2>2, <2>3, PutGrows DEF s
<1>7. CASE SerializeStr
  <2>1. wTodo # <<>> /\ s.kind = "str"
    BY <1>2, <1>7 DEF SerializeStr
  <2>2. PICK n \in 0 .. MaxLen, c \in Chars :
          Put(Copies(n, CharBytes(c)),
              IntBytes(Len(Copies(n, CharBytes(c)))) \o Copies(n, CharBytes(c)), <<>>)
    BY <1>7 DEF SerializeStr
  <2> DEFINE text == Copies(n, CharBytes(c))
  <2>3. n \in Nat /\ n \in Lengths /\ n + n \in Lengths /\ c \in Codes
    BY Leaves
  <2>4. CharBytes(c) \in Seq(Bytes) /\ Len(CharBytes(c)) \in {1, 2}
    BY <2>3, CharBytesFacts
  <2>5. Len(CharBytes(c)) >= 1
    BY <2>4
  <2>6. text \in Seq(Bytes) /\ Len(text) = n * Len(CharBytes(c))
    BY <2>3, <2>4, <2>5, CopiesFacts
  <2>7. Len(text) \in Lengths
    <3>1. n * 1 = n /\ n * 2 = n + n
      BY <2>3
    <3> QED BY <2>3, <2>4, <2>6, <3>1
  <2>8. IsUtf8(text)
    BY <2>3, TextIsUtf8
  <2>9. Put(text, IntBytes(Len(text)) \o text, <<>>)
    BY <2>2
  <2> HIDE DEF text
  <2>10. Wrote(s, text, IntBytes(Len(text)) \o text, <<>>)
    BY <2>1, <2>6, <2>7, <2>8 DEF Wrote
  <2> QED BY <1>0, <2>1, <2>9, <2>10, PutGrows DEF s
<1>8. CASE SerializeBytes
  <2>1. wTodo # <<>> /\ s.kind = "bytes"
    BY <1>2, <1>8 DEF SerializeBytes
  <2>2. PICK n \in 0 .. MaxLen, b \in Numbers \cap 0 .. 255 :
          Put(Copies(n, <<b>>), IntBytes(n) \o Copies(n, <<b>>), <<>>)
    BY <1>8 DEF SerializeBytes
  <2> DEFINE text == Copies(n, <<b>>)
  <2>3. n \in Nat /\ n \in Lengths /\ b \in Bytes
    BY Leaves
  <2>4. <<b>> \in Seq(Bytes) /\ Len(<<b>>) = 1 /\ n * 1 = n
    BY <2>3
  <2>5. Len(<<b>>) >= 1
    BY <2>4
  <2>6. text \in Seq(Bytes) /\ Len(text) = n * Len(<<b>>)
    BY <2>3, <2>4, <2>5, CopiesFacts
  <2>7. Len(text) = n
    BY <2>4, <2>6
  <2>8. Put(text, IntBytes(Len(text)) \o text, <<>>)
    BY <2>2, <2>7
  <2> HIDE DEF text
  <2>9. Wrote(s, text, IntBytes(Len(text)) \o text, <<>>)
    BY <2>1, <2>3, <2>6, <2>7 DEF Wrote
  <2> QED BY <1>0, <2>1, <2>8, <2>9, PutGrows DEF s
<1>9. CASE SerializeOption
  <2>1. wTodo # <<>> /\ s.kind = "option"
    BY <1>2, <1>9 DEF SerializeOption
  <2>2. CASE Put(0, <<0>>, <<>>)
    <3>1. Wrote(s, 0, <<0>>, <<>>)
      BY <2>1 DEF Wrote
    <3> QED BY <1>0, <2>1, <2>2, <3>1, PutGrows DEF s
  <2>3. CASE Put(1, <<1>>, Parts)
    <3>1. Wrote(s, 1, <<1>>, Parts)
      BY <1>1, <2>1 DEF Wrote
    <3> QED BY <1>1, <2>1, <2>3, <3>1, PutGrows DEF s
  <2> QED BY <1>9, <2>2, <2>3 DEF SerializeOption
<1>10. CASE SerializeSeq \/ SerializeMap
  <2>1. wTodo # <<>> /\ s.kind \in {"seq", "map"}
    BY <1>2, <1>10 DEF SerializeSeq, SerializeMap
  <2>2. PICK n \in 0 .. MaxLen : Put(n, IntBytes(n), <<Elements(n, Parts)>>)
    BY <1>10 DEF SerializeSeq, SerializeMap
  <2>3. n \in Nat /\ n \in Lengths
    BY Leaves
  <2>4. Wrote(s, n, IntBytes(n), <<Elements(n, Parts)>>)
    BY <1>1, <2>1, <2>3 DEF Wrote
  <2>5. <<Elements(n, Parts)>> \in Seq(Walkable)
    BY <1>1, <2>1, <2>3, ElementsAreWalkable
  <2> QED BY <2>1, <2>2, <2>4, <2>5, PutGrows DEF s
<1>11. CASE SerializeNext
  <2>1. /\ wTodo # <<>> /\ s.kind = "elements"
        /\ wTodo' = NextOf(s) \o Tail(wTodo)
        /\ wTokens' = wTokens /\ buffer' = buffer
    BY <1>2, <1>11 DEF SerializeNext, s
  <2>2. NextOf(s) \in Seq(Walkable) /\ Tail(wTodo) \in Seq(Walkable)
    BY <1>1, <2>1, NextIsWalkable, HeadTailProperties DEF WriterTyped
  <2>3. WriterTyped'
    BY <2>1, <2>2, ConcatProperties DEF WriterTyped
  <2> DEFINE p == Point(wTodo, wTokens, Len(buffer))
             q == Point(wTodo', wTokens', Len(buffer'))
  <2>4. p.todo = wTodo /\ p.tokens = wTokens /\ p.at = Len(buffer)
    BY DEF Point
  <2>5. q = Point(NextOf(s) \o Tail(wTodo), wTokens, Len(buffer))
    BY <2>1
  <2> HIDE DEF p, q
  <2>6. Step(buffer', p, q)
    BY <2>1, <2>4, <2>5 DEF Step, Unrolls, s
  <2>7. Len(buffer) \in Nat
    BY DEF WriterTyped
  <2> QED BY <2>1, <2>3, <2>6, <2>7 DEF Grows, p, q
<1>12. CASE SerializeTuple
  <2>1. wTodo # <<>> /\ s.kind = "tuple" /\ Put(0, <<>>, Parts)
    BY <1>2, <1>12 DEF SerializeTuple
  <2>2. Wrote(s, 0, <<>>, Parts)
    BY <1>1, <2>1 DEF Wrote
  <2> QED BY <1>1, <2>1, <2>2, PutGrows DEF s
<1>13. CASE SerializeVariant
  <2>1. wTodo # <<>> /\ s.kind = "enum"
    BY <1>2, <1>13 DEF SerializeVariant
  <2>2. PICK i \in DOMAIN Parts : Put(i - 1, IntBytes(i - 1), <<Parts[i]>>)
    BY <1>13 DEF SerializeVariant
  <2>3. /\ s \in Walkable /\ Parts = s.parts /\ Parts \in Seq(Shapes)
        /\ Parts \in Seq(Walkable)
    BY <1>1, <2>1
  <2>4. s \in Shapes
    BY <2>1, <2>3 DEF Walkable
  <2>5. Len(Parts) <= 128 * 128
    BY <2>1, <2>3, <2>4, ShapesAssumption DEF ShapesAssumption
  <2>6. i \in 1 .. Len(Parts) /\ Len(Parts) \in Nat
    BY <2>3
  <2>7. i - 1 \in Lengths /\ (i - 1) + 1 = i
    <3> DEFINE l == Len(Parts)
               top == 128 * 128
    <3>1. i \in 1 .. l /\ l \in Nat /\ l <= top /\ top \in Nat
      BY <2>5, <2>6
    <3> HIDE DEF l, top
    <3>2. i - 1 \in 0 .. top - 1 /\ (i - 1) + 1 = i
      BY ONLY <3>1
    <3>3. top = 16384
      BY DEF top
    <3>4. i - 1 \in Nat /\ i - 1 < 16384
      BY ONLY <3>1, <3>2, <3>3
    <3> QED BY <3>2, <3>4, BelowIsLength
  <2>8. Wrote(s, i - 1, IntBytes(i - 1), <<Parts[i]>>)
    BY <2>1, <2>3, <2>7 DEF Wrote
  <2>9. <<Parts[i]>> \in Seq(Walkable)
    <3>1. Parts[i] \in Walkable
      BY <2>3, <2>6, ElementOfSeq
    <3> QED BY <3>1
  <2> QED BY <2>1, <2>2, <2>8, <2>9, PutGrows DEF s
<1> QED BY <1>3, <1>4, <1>5, <1>6, <1>7, <1>8, <1>9, <1>10, <1>11, <1>12, <1>13
        DEF SerializeCall

-------------------------------------------------------------------------------
(* The inductive invariant *)

\* Where the n-th value ends, and the next one begins.
EndOf(n) == IF n = 0 THEN 0 ELSE ends[n]

IsSeq(s) == s \in Seq({s[i] : i \in DOMAIN s})

WriterOK ==
  /\ shape \in Streamed
  /\ wState \in {"idle", "walking"}
  /\ WriterTyped
  /\ wState = "walking" =>
       \E m \in Nat :
         Leads(buffer, m, 0, Len(buffer), Point(wTodo, wTokens, Len(buffer)))

\* The bytes of a value that was sent are those of its walk.
Walked(n, t, m) ==
  /\ IsWalk(stream, t, m, EndOf(n - 1), ends[n])
  /\ t[m] = Point(<<>>, values[n], ends[n])

SentOK ==
  /\ stream \in Seq(Bytes)
  /\ IsSeq(values) /\ ends \in Seq(Nat) /\ Len(values) = Len(ends)
  /\ \A n \in DOMAIN ends : ends[n] <= Len(stream)
  /\ EndOf(Len(ends)) = Len(stream)
  /\ broken \in 0 .. Len(ends)
  /\ \A n \in DOMAIN ends : Intact(n) => \E m \in Nat : \E t : Walked(n, t, m)

\* The value being read, if it is intact, is read along the walk that wrote it,
\* and refused only where the slice ends before it.
Reading ==
  LET n == Len(items) + 1 IN
  /\ n <= Len(ends)
  /\ failed => ends[n] > limit
  /\ ~failed => \E m \in Nat : \E t : \E k \in 0 .. m :
       Walked(n, t, m) /\ t[k] = Point(rTodo, rTokens, position)

ReaderOK ==
  /\ SliceOK
  /\ base \in Nat /\ offset \in Nat /\ base <= offset /\ offset <= position
  /\ IsSeq(items)
  /\ rState \in {"waiting", "iterating", "value"}
  /\ limit = 0 => items = <<>> /\ rState = "waiting" /\ offset = 0
  /\ rState = "waiting" => base = offset
  /\ rState = "iterating" => position = offset /\ ~failed
  /\ rState = "value" /\ failed => rTodo # <<>>
  /\ Intact(Len(items)) => Len(items) <= Len(ends) /\ offset = EndOf(Len(items))
  /\ rState = "value" /\ Intact(Len(items) + 1) => Reading

IInv == WriterOK /\ SentOK /\ ReaderOK

-------------------------------------------------------------------------------
(* The steps *)

LEMMA SeqFacts ==
  ASSUME NEW s, IsSeq(s)
  PROVE  Len(s) \in Nat /\ DOMAIN s = 1 .. Len(s) /\ (s = <<>> <=> Len(s) = 0)
<1> DEFINE S == {s[i] : i \in DOMAIN s}
<1>1. s \in Seq(S)
  BY DEF IsSeq
<1> HIDE DEF S
<1> QED BY <1>1

LEMMA EmptyIsSeq == IsSeq(<<>>) /\ Len(<<>>) = 0 /\ DOMAIN <<>> = {}
<1>1. <<>> \in Seq(Nat)
  OBVIOUS
<1>2. IsSeq(<<>>)
  BY <1>1, SeqOfRange DEF IsSeq, Range
<1> QED BY <1>2

LEMMA AppendIsSeq ==
  ASSUME NEW s, IsSeq(s), NEW e
  PROVE  /\ IsSeq(Append(s, e))
         /\ Len(Append(s, e)) = Len(s) + 1
         /\ \A i \in 1 .. Len(s) : Append(s, e)[i] = s[i]
         /\ Append(s, e)[Len(s) + 1] = e
<1> DEFINE S == {s[i] : i \in DOMAIN s}
           T == S \cup {e}
<1>1. s \in Seq(S) /\ S \subseteq T /\ e \in T
  BY DEF IsSeq
<1> HIDE DEF S, T
<1>2. s \in Seq(T)
  BY <1>1, SeqMonotonic
<1>3. Append(s, e) \in Seq(T)
  BY <1>1, <1>2, AppendProperties
<1>4. IsSeq(Append(s, e))
  BY <1>3, SeqOfRange DEF IsSeq, Range
<1> QED BY <1>1, <1>2, <1>4, AppendProperties

LEMMA InitIInv == Init => IInv
<1> SUFFICES ASSUME Init PROVE IInv
  OBVIOUS
<1>0. /\ shape \in Streamed /\ wTodo = <<>> /\ wTokens = <<>> /\ buffer = <<>>
      /\ stream = <<>> /\ wState = "idle" /\ values = <<>> /\ ends = <<>>
      /\ broken = 0 /\ position = 0 /\ limit = 0 /\ rState = "waiting"
      /\ base = 0 /\ offset = 0 /\ items = <<>>
  BY DEF Init
<1>1. WriterOK
  BY <1>0 DEF WriterOK, WriterTyped
<1>2. SentOK
  BY <1>0, EmptyIsSeq DEF SentOK, EndOf
<1>3. ReaderOK
  BY <1>0, EmptyIsSeq DEF ReaderOK, SliceOK, EndOf
<1> QED BY <1>1, <1>2, <1>3 DEF IInv

LEMMA SentStutters ==
  ASSUME SentOK, UNCHANGED <<shape, stream, values, ends, broken>>
  PROVE  SentOK'
BY DEF SentOK, EndOf, Intact, Walked, IsWalk

LEMMA ReaderStutters ==
  ASSUME ReaderOK, UNCHANGED <<shape, stream, values, ends, broken, receiverVars>>
  PROVE  ReaderOK'
BY DEF ReaderOK, SliceOK, Reading, EndOf, Intact, Walked, IsWalk, receiverVars,
       requestVars, Left

LEMMA WriterStutters ==
  ASSUME WriterOK, UNCHANGED <<shape, walkVars, wState>>
  PROVE  WriterOK'
BY DEF WriterOK, WriterTyped, Leads, IsWalk, walkVars

-------------------------------------------------------------------------------
(* The sender's steps *)

LEMMA ToBytesWriter ==
  ASSUME WriterOK, ToBytes
  PROVE  WriterOK'
<1>1. /\ shape' = shape /\ wState' = "walking" /\ wTodo' = <<shape>>
      /\ wTokens' = <<>> /\ buffer' = <<>>
  BY DEF ToBytes
<1>2. shape \in Streamed /\ shape \in Walkable
  BY StreamAssumption DEF WriterOK, StreamAssumption, Walkable
<1>3. WriterTyped'
  <2>1. <<shape>> \in Seq(Walkable)
    BY <1>2
  <2>2. <<>> \in Seq(Bytes)
    OBVIOUS
  <2> QED BY <1>1, <2>1, <2>2 DEF WriterTyped
<1>4. Len(buffer') = 0
  BY <1>1
<1>5. PICK t : t[0] = Point(<<shape>>, <<>>, 0)
  <2> DEFINE t == [i \in {0} |-> Point(<<shape>>, <<>>, 0)]
  <2>1. t[0] = Point(<<shape>>, <<>>, 0)
    OBVIOUS
  <2> QED BY <2>1
<1>6. t[0].at = 0
  BY <1>5, PointFacts
<1>7. IsWalk(buffer, t, 0, 0, Len(buffer))'
  BY <1>1, <1>4, <1>5, <1>6 DEF IsWalk
<1>8. t[0] = Point(wTodo', wTokens', Len(buffer'))
  BY <1>1, <1>4, <1>5
<1>9. Leads(buffer, 0, 0, Len(buffer), Point(wTodo, wTokens, Len(buffer)))'
  BY <1>7, <1>8 DEF Leads
<1> QED BY <1>1, <1>2, <1>3, <1>9 DEF WriterOK

LEMMA CallWriter ==
  ASSUME WriterOK, Call
  PROVE  WriterOK'
<1>1. shape' = shape /\ wState = "walking" /\ wState' = "walking" /\ SerializeCall
  BY DEF Call
<1>2. WriterTyped /\ shape \in Streamed
  BY DEF WriterOK
<1>3. PICK m \in Nat : Leads(buffer, m, 0, Len(buffer), Point(wTodo, wTokens, Len(buffer)))
  BY <1>1 DEF WriterOK
<1>4. PICK t : /\ IsWalk(buffer, t, m, 0, Len(buffer))
               /\ t[m] = Point(wTodo, wTokens, Len(buffer))
  BY <1>3 DEF Leads
<1>5. Grows
  BY <1>1, <1>2, CallGrows
<1> DEFINE q == Point(wTodo', wTokens', Len(buffer'))
<1>6. q.at = Len(buffer')
  BY PointFacts
<1>7. Len(buffer) \in Nat /\ Len(buffer') \in Nat
  BY <1>2, <1>5 DEF WriterTyped, Grows
<1>8. /\ Step(buffer', t[m], q) /\ Len(buffer') >= Len(buffer)
      /\ \A i \in 1 .. Len(buffer) : buffer'[i] = buffer[i]
  BY <1>4, <1>5 DEF Grows
<1> HIDE DEF q
<1>9. q.at \in Nat /\ q.at >= Len(buffer) /\ q.at >= 0
  BY <1>6, <1>7, <1>8
<1>10. 0 \in Nat
  OBVIOUS
<1>11. Holds(buffer', buffer, 0, Len(buffer))
  BY <1>8 DEF Holds
<1>12. Leads(buffer', m + 1, 0, q.at, q)
  BY ONLY m \in Nat, <1>4, <1>7, <1>8, <1>9, <1>10, <1>11, WalkGrows
<1>13. Leads(buffer, m + 1, 0, Len(buffer), Point(wTodo, wTokens, Len(buffer)))'
  BY <1>1, <1>6, <1>12 DEF Leads, IsWalk, q
<1>14. m + 1 \in Nat /\ WriterTyped'
  BY <1>5 DEF Grows
<1> QED BY <1>1, <1>2, <1>13, <1>14 DEF WriterOK

\* What was sent before stays where it is while its bytes do.
LEMMA WalkedStays ==
  ASSUME NEW n \in Nat, n > 0, NEW t, NEW m \in Nat, Walked(n, t, m),
         EndOf(n - 1) \in Nat, ends[n] \in Nat, shape' = shape,
         EndOf(n - 1)' = EndOf(n - 1), ends'[n] = ends[n], values'[n] = values[n],
         \A i \in 1 .. ends[n] : stream'[i] = stream[i]
  PROVE  Walked(n, t, m)'
<1> DEFINE s == EndOf(n - 1)
           e == ends[n]
<1>1. IsWalk(stream, t, m, s, e) /\ t[m] = Point(<<>>, values[n], e)
  BY DEF Walked
<1>2. s \in Nat /\ e \in Nat /\ \A i \in 1 .. e : stream'[i] = stream[i]
  OBVIOUS
<1>3. s' = s /\ e' = e
  OBVIOUS
<1> HIDE DEF s, e
<1>4. IsWalk(stream', t, m, s, e)
  BY ONLY m \in Nat, <1>1, <1>2, WalkAgrees
<1>5. IsWalk(stream, t, m, s, e)'
  BY <1>3, <1>4 DEF IsWalk
<1> QED BY <1>1, <1>3, <1>5 DEF Walked, s, e

LEMMA SentFacts ==
  ASSUME SentOK
  PROVE  /\ Len(ends) \in Nat /\ DOMAIN ends = 1 .. Len(ends)
         /\ Len(stream) \in Nat /\ Len(values) = Len(ends)
         /\ \A n \in 1 .. Len(ends) : ends[n] \in Nat
         /\ \A n \in 0 .. Len(ends) : EndOf(n) \in Nat
<1>1. ends \in Seq(Nat) /\ stream \in Seq(Bytes) /\ Len(values) = Len(ends)
  BY DEF SentOK
<1>2. \A n \in 1 .. Len(ends) : ends[n] \in Nat
  BY <1>1
<1>3. Len(ends) \in Nat
  BY <1>1
<1>4. ASSUME NEW n \in 0 .. Len(ends) PROVE EndOf(n) \in Nat
  BY <1>2, <1>3 DEF EndOf
<1> QED BY <1>1, <1>2, <1>4

\* What Send leaves as it was.
LEMMA SendKeeps ==
  ASSUME WriterOK, SentOK, Send
  PROVE  /\ stream' \in Seq(Bytes) /\ Len(stream') = Len(stream) + Len(buffer)
         /\ \A i \in 1 .. Len(stream) : stream'[i] = stream[i]
         /\ \A i \in 1 .. Len(buffer) : stream'[Len(stream) + i] = buffer[i]
         /\ Len(ends') = Len(ends) + 1 /\ ends' \in Seq(Nat)
         /\ ends'[Len(ends) + 1] = Len(stream')
         /\ \A n \in 1 .. Len(ends) : ends'[n] = ends[n] /\ values'[n] = values[n]
         /\ \A n \in 0 .. Len(ends) : EndOf(n)' = EndOf(n)
         /\ IsSeq(values') /\ Len(values') = Len(ends) + 1
         /\ values'[Len(ends) + 1] = wTokens
<1>1. /\ stream' = stream \o buffer /\ values' = Append(values, wTokens)
      /\ ends' = Append(ends, Len(stream'))
  BY DEF Send
<1>2. stream \in Seq(Bytes) /\ ends \in Seq(Nat) /\ IsSeq(values) /\ Len(values) = Len(ends)
  BY DEF SentOK
<1>3. buffer \in Seq(Bytes)
  BY DEF WriterOK, WriterTyped
<1>4. Len(stream) \in Nat /\ Len(buffer) \in Nat /\ Len(ends) \in Nat
  BY <1>2, <1>3
<1>5. /\ stream' \in Seq(Bytes) /\ Len(stream') = Len(stream) + Len(buffer)
      /\ \A i \in 1 .. Len(stream) + Len(buffer) :
           stream'[i] = IF i <= Len(stream) THEN stream[i] ELSE buffer[i - Len(stream)]
  BY <1>1, <1>2, <1>3, ConcatProperties
<1>6. \A i \in 1 .. Len(stream) : stream'[i] = stream[i]
  BY <1>4, <1>5
<1>7. \A i \in 1 .. Len(buffer) : stream'[Len(stream) + i] = buffer[i]
  <2> SUFFICES ASSUME NEW i \in 1 .. Len(buffer)
               PROVE  stream'[Len(stream) + i] = buffer[i]
    OBVIOUS
  <2>1. /\ Len(stream) + i \in 1 .. Len(stream) + Len(buffer)
        /\ ~(Len(stream) + i <= Len(stream)) /\ (Len(stream) + i) - Len(stream) = i
    BY <1>4
  <2> QED BY <1>5, <2>1
<1>8. Len(stream') \in Nat
  BY <1>4, <1>5
<1>9. /\ ends' \in Seq(Nat) /\ Len(ends') = Len(ends) + 1
      /\ ends'[Len(ends) + 1] = Len(stream')
      /\ \A n \in 1 .. Len(ends) : ends'[n] = ends[n]
  BY <1>1, <1>2, <1>8, AppendProperties
<1>10. /\ IsSeq(values') /\ Len(values') = Len(ends) + 1
       /\ values'[Len(ends) + 1] = wTokens
       /\ \A n \in 1 .. Len(ends) : values'[n] = values[n]
  BY <1>1, <1>2, AppendIsSeq
<1>11. \A n \in 0 .. Len(ends) : EndOf(n)' = EndOf(n)
  BY <1>4, <1>9 DEF EndOf
<1> QED BY <1>5, <1>6, <1>7, <1>9, <1>10, <1>11

LEMMA SendWalked ==
  ASSUME WriterOK, SentOK, Send,
         NEW n \in 1 .. Len(ends), NEW t, NEW m \in Nat, Walked(n, t, m)
  PROVE  Walked(n, t, m)'
<1>1. n \in Nat /\ n > 0 /\ n - 1 \in 0 .. Len(ends) /\ Len(stream) \in Nat
  BY SentFacts
<1>2. ends[n] \in Nat /\ EndOf(n - 1) \in Nat /\ ends[n] <= Len(stream)
  BY <1>1, SentFacts DEF SentOK
<1>3. \A i \in 1 .. ends[n] : stream'[i] = stream[i]
  <2>1. \A i \in 1 .. ends[n] : i \in 1 .. Len(stream)
    BY <1>1, <1>2
  <2> QED BY <2>1, SendKeeps
<1>4. EndOf(n - 1)' = EndOf(n - 1) /\ ends'[n] = ends[n] /\ values'[n] = values[n]
  BY <1>1, SendKeeps
<1>5. shape' = shape
  BY DEF Send
<1> QED BY <1>1, <1>2, <1>3, <1>4, <1>5, WalkedStays

LEMMA SendSent ==
  ASSUME WriterOK, SentOK, Send
  PROVE  SentOK'
<1>1. PICK l \in Nat, d \in Nat, e \in Nat :
        l = Len(ends) /\ d = Len(stream) /\ e = Len(buffer)
  <2>1. Len(buffer) \in Nat
    BY DEF WriterOK, WriterTyped
  <2> QED BY <2>1, SentFacts
<1>2. DOMAIN ends = 1 .. l
  BY <1>1, SentFacts
<1>3. /\ stream' \in Seq(Bytes) /\ Len(stream') = d + e
      /\ ends' \in Seq(Nat) /\ Len(ends') = l + 1 /\ ends'[l + 1] = d + e
      /\ \A n \in 1 .. l : ends'[n] = ends[n]
      /\ IsSeq(values') /\ Len(values') = l + 1 /\ values'[l + 1] = wTokens
  BY <1>1, SendKeeps
<1>4. DOMAIN ends' = 1 .. l + 1
  BY <1>3
<1>5. broken' = broken /\ shape' = shape /\ wTodo = <<>> /\ wState = "walking"
  BY DEF Send
<1>6. EndOf(l)' = d /\ EndOf(l + 1)' = d + e
  <2>1. l \in 0 .. Len(ends)
    BY <1>1
  <2>2. EndOf(l) = d /\ EndOf(l)' = EndOf(l)
    BY <1>1, <2>1, SendKeeps DEF SentOK
  <2> QED BY <1>3, <2>2 DEF EndOf
<1>7. PICK m \in Nat : Leads(buffer, m, 0, e, Point(<<>>, wTokens, e))
  BY <1>1, <1>5 DEF WriterOK
<1>8. PICK t : IsWalk(buffer, t, m, 0, e) /\ t[m] = Point(<<>>, wTokens, e)
  BY <1>7 DEF Leads
<1>9. t[m].todo = <<>> /\ t[m].tokens = wTokens /\ t[m].at = e
  BY <1>8, PointFacts
<1>10. Holds(stream', buffer, d, e)
  BY <1>1, SendKeeps DEF Holds
<1>11. Leads(stream', m, d, d + e, Point(t[m].todo, t[m].tokens, t[m].at + d))
  BY ONLY m \in Nat, d \in Nat, e \in Nat, <1>8, <1>10, WalkMoves
<1>12. PICK u : IsWalk(stream', u, m, d, d + e) /\ u[m] = Point(<<>>, wTokens, d + e)
  <2>1. e + d = d + e
    OBVIOUS
  <2> QED BY <1>9, <1>11, <2>1 DEF Leads
<1>13. Walked(l + 1, u, m)'
  <2>1. EndOf((l + 1) - 1)' = d
    <3>1. (l + 1) - 1 = l
      OBVIOUS
    <3> QED BY <1>6, <3>1
  <2>2. IsWalk(stream, u, m, EndOf((l + 1) - 1), ends[l + 1])'
    BY <1>3, <1>5, <1>12, <2>1 DEF IsWalk
  <2> QED BY <1>3, <1>12, <2>2 DEF Walked
<1>14. \A n \in 1 .. l + 1 : Intact(n)' => (\E k \in Nat : \E v : Walked(n, v, k))'
  <2> SUFFICES ASSUME NEW n \in 1 .. l + 1, Intact(n)'
               PROVE  (\E k \in Nat : \E v : Walked(n, v, k))'
    OBVIOUS
  <2>1. CASE n = l + 1
    BY <1>13, <2>1
  <2>2. CASE n # l + 1
    <3>1. n \in 1 .. Len(ends) /\ n \in DOMAIN ends
      BY <1>1, <1>2, <2>2
    <3>2. Intact(n)
      BY <1>5 DEF Intact
    <3>3. PICK k \in Nat : \E v : Walked(n, v, k)
      BY <3>1, <3>2 DEF SentOK
    <3>4. PICK v : Walked(n, v, k)
      BY <3>3
    <3>5. Walked(n, v, k)'
      BY <3>1, <3>4, SendWalked
    <3> QED BY <3>5
  <2> QED BY <2>1, <2>2
<1>15. \A n \in 1 .. l + 1 : ends'[n] <= Len(stream')
  <2>1. \A n \in 1 .. l : ends[n] \in Nat /\ ends[n] <= d
    BY <1>1, <1>2, SentFacts DEF SentOK
  <2>2. ASSUME NEW n \in 1 .. l + 1 PROVE ends'[n] <= d + e
    <3>1. CASE n = l + 1
      BY <1>3, <3>1
    <3>2. CASE n # l + 1
      <4>1. n \in 1 .. l
        BY <3>2
      <4>2. ends'[n] = ends[n] /\ ends[n] \in Nat /\ ends[n] <= d
        BY <1>3, <2>1, <4>1
      <4> QED BY <4>2
    <3> QED BY <3>1, <3>2
  <2> QED BY <1>3, <2>2
<1>16. broken' \in 0 .. Len(ends')
  BY <1>1, <1>3, <1>5 DEF SentOK
<1>17. EndOf(Len(ends))' = Len(stream')
  <2>1. Len(ends)' = l + 1
    BY <1>3
  <2>2. EndOf(Len(ends))' = EndOf(l + 1)'
    BY <2>1 DEF EndOf
  <2> QED BY <1>3, <1>6, <2>2
<1> QED BY <1>3, <1>4, <1>14, <1>15, <1>16, <1>17 DEF SentOK

LEMMA SendReader ==
  ASSUME WriterOK, SentOK, ReaderOK, Send
  PROVE  ReaderOK'
<1>1. UNCHANGED <<shape, broken, position, rTodo, rTokens, failed, limit, rState,
                  base, offset, items>>
  BY DEF Send, receiverVars, requestVars
<1>2. PICK n \in Nat : n = Len(items)
  BY SeqFacts DEF ReaderOK
<1>3. SliceOK'
  <2>1. Len(stream') = Len(stream) + Len(buffer) /\ stream' \in Seq(Bytes)
    BY SendKeeps
  <2>2. Len(stream) \in Nat /\ Len(buffer) \in Nat
    BY DEF SentOK, WriterOK, WriterTyped
  <2>3. SliceOK
    BY DEF ReaderOK
  <2>4. limit <= Len(stream')
    BY <2>1, <2>2, <2>3 DEF SliceOK
  <2> QED BY <1>1, <2>1, <2>3, <2>4 DEF SliceOK
<1>4. Len(ends) \in Nat /\ Len(ends') = Len(ends) + 1
  BY SentFacts, SendKeeps
<1>5. Intact(n)' => n <= Len(ends') /\ offset' = EndOf(n)'
  <2> SUFFICES ASSUME Intact(n)' PROVE n <= Len(ends') /\ offset' = EndOf(n)'
    OBVIOUS
  <2>1. n <= Len(ends) /\ offset = EndOf(n)
    BY <1>1, <1>2 DEF ReaderOK, Intact
  <2>2. n \in 0 .. Len(ends) /\ n <= Len(ends')
    BY <1>4, <2>1
  <2> QED BY <1>1, <2>1, <2>2, SendKeeps
<1>6. rState = "value" /\ Intact(n + 1)' => Reading'
  <2> SUFFICES ASSUME rState = "value", Intact(n + 1)' PROVE Reading'
    OBVIOUS
  <2>1. Reading
    BY <1>1, <1>2 DEF ReaderOK, Intact
  <2>2. n + 1 <= Len(ends) /\ (failed => ends[n + 1] > limit)
    BY <1>2, <2>1 DEF Reading
  <2>3. n + 1 \in 1 .. Len(ends) /\ n + 1 <= Len(ends')
    BY <1>4, <2>2
  <2>4. ends'[n + 1] = ends[n + 1]
    BY <2>3, SendKeeps
  <2>5. ~failed => \E m \in Nat : \E t : \E k \in 0 .. m :
           Walked(n + 1, t, m)' /\ t[k] = Point(rTodo', rTokens', position')
    <3> SUFFICES ASSUME ~failed
                 PROVE  \E m \in Nat : \E t : \E k \in 0 .. m :
                   Walked(n + 1, t, m)' /\ t[k] = Point(rTodo', rTokens', position')
      OBVIOUS
    <3>1. PICK m \in Nat : \E t : \E k \in 0 .. m :
            Walked(n + 1, t, m) /\ t[k] = Point(rTodo, rTokens, position)
      BY <1>2, <2>1 DEF Reading
    <3>2. PICK t : \E k \in 0 .. m :
            Walked(n + 1, t, m) /\ t[k] = Point(rTodo, rTokens, position)
      BY <3>1
    <3>3. Walked(n + 1, t, m)'
      BY <2>3, <3>2, SendWalked
    <3> QED BY <1>1, <3>2, <3>3
  <2>6. Len(items)' + 1 = n + 1
    BY <1>1, <1>2
  <2> QED BY <1>1, <2>2, <2>3, <2>4, <2>5, <2>6 DEF Reading
<1>7. Len(items)' = n
  BY <1>1, <1>2
<1>8. (Intact(Len(items)) => Len(items) <= Len(ends) /\ offset = EndOf(Len(items)))'
  BY <1>5, <1>7 DEF Intact, EndOf
<1>9. (rState = "value" /\ Intact(Len(items) + 1) => Reading)'
  BY <1>1, <1>6, <1>7 DEF Intact
<1>10. IsSeq(items)'
  BY <1>1 DEF ReaderOK, IsSeq
<1> QED BY <1>1, <1>3, <1>8, <1>9, <1>10 DEF ReaderOK

-------------------------------------------------------------------------------
(* The medium's step *)

\* Before the first byte arrives, the medium spoils one of a value, and none of
\* those before it.
LEMMA SpoilFacts ==
  ASSUME SentOK, ReaderOK, Spoil
  PROVE  /\ stream' \in Seq(Bytes) /\ Len(stream') = Len(stream)
         /\ broken = 0 /\ broken' \in 1 .. Len(ends)
         /\ \A n \in 1 .. broken' - 1, j \in 1 .. Len(stream) :
              j <= ends[n] => stream'[j] = stream[j]
<1>1. PICK i \in DOMAIN stream, d \in Flips :
        /\ stream' = [stream EXCEPT ![i] = (@ + d) % 256]
        /\ broken' = Min({n \in DOMAIN ends : i <= ends[n]})
  BY DEF Spoil
<1>2. stream \in Seq(Bytes) /\ DOMAIN stream = 1 .. Len(stream)
  BY DEF SentOK
<1>3. /\ Len(ends) \in Nat /\ Len(stream) \in Nat /\ DOMAIN ends = 1 .. Len(ends)
      /\ \A n \in 1 .. Len(ends) : ends[n] \in Nat
  BY SentFacts
<1> DEFINE S == {n \in DOMAIN ends : i <= ends[n]}
<1>4. i \in 1 .. Len(stream)
  BY <1>2
<1>5. Len(ends) \in S
  <2>1. EndOf(Len(ends)) = Len(stream)
    BY DEF SentOK
  <2>2. Len(ends) # 0
    BY <1>3, <1>4, <2>1 DEF EndOf
  <2>3. ends[Len(ends)] = Len(stream)
    BY <2>1, <2>2 DEF EndOf
  <2> QED BY <1>3, <1>4, <2>2, <2>3
<1>6. S \in SUBSET Nat /\ S # {}
  BY <1>3, <1>5
<1>7. broken' \in S /\ \A n \in S : broken' <= n
  <2> HIDE DEF S
  <2>1. Min(S) \in S /\ \A n \in S : Min(S) <= n
    BY <1>6, LeastNatural
  <2> QED BY <1>1, <2>1 DEF S
<1>8. broken' \in 1 .. Len(ends)
  BY <1>3, <1>7
<1>9. (stream[i] + d) % 256 \in Bytes
  <2>1. stream[i] \in Bytes /\ d \in Nat
    BY <1>2, <1>4, ElementOfSeq, StreamAssumption DEF StreamAssumption
  <2>2. PICK b \in Nat : b = stream[i]
    BY <2>1 DEF Bytes
  <2>3. PICK a \in Nat : a = b + d
    BY <2>1
  <2>4. a % 256 \in 0 .. 255
    BY ONLY a \in Nat
  <2> QED BY <2>2, <2>3, <2>4 DEF Bytes
<1>10. stream' \in Seq(Bytes) /\ Len(stream') = Len(stream)
  <2> DEFINE b == (stream[i] + d) % 256
  <2>1. stream' = [stream EXCEPT ![i] = b] /\ b \in Bytes
    BY <1>1, <1>9
  <2> HIDE DEF b
  <2> QED BY <1>2, <1>4, <2>1, ExceptSeq
<1>11. ASSUME NEW n \in 1 .. broken' - 1, NEW j \in 1 .. Len(stream), j <= ends[n]
       PROVE  stream'[j] = stream[j]
  <2>0. PICK k \in Nat, l \in Nat : k = broken' /\ l = Len(ends)
    <3>1. Len(ends) \in Nat
      BY SentFacts
    <3>2. broken' \in Nat
      BY ONLY <1>8, <3>1
    <3> QED BY ONLY <3>1, <3>2
  <2>1. n \in 1 .. Len(ends) /\ ~(broken' <= n)
    <3>1. n \in 1 .. k - 1 /\ k \in 1 .. l
      BY <1>8, <2>0
    <3>2. n \in 1 .. l /\ ~(k <= n)
      BY ONLY k \in Nat, l \in Nat, <3>1
    <3> QED BY <2>0, <3>2
  <2>2. ~(i <= ends[n]) /\ ends[n] \in Nat
    BY <1>3, <1>7, <2>1
  <2>3. j # i
    BY <1>4, <1>11, <2>2
  <2> QED BY <1>1, <1>2, <2>3
<1>12. broken = 0
  BY DEF Spoil
<1> QED BY <1>8, <1>10, <1>11, <1>12

LEMMA SpoilSent ==
  ASSUME SentOK, ReaderOK, Spoil
  PROVE  SentOK'
<1>1. UNCHANGED <<shape, values, ends>>
  BY DEF Spoil
<1>2. /\ stream' \in Seq(Bytes) /\ Len(stream') = Len(stream)
      /\ broken = 0 /\ broken' \in 1 .. Len(ends)
  BY SpoilFacts
<1>3. /\ Len(ends) \in Nat /\ Len(stream) \in Nat /\ DOMAIN ends = 1 .. Len(ends)
      /\ \A n \in 1 .. Len(ends) : ends[n] \in Nat
      /\ \A n \in 0 .. Len(ends) : EndOf(n) \in Nat
  BY SentFacts
<1>4. ASSUME NEW n \in DOMAIN ends, Intact(n)'
      PROVE  (\E m \in Nat : \E t : Walked(n, t, m))'
  <2>1. n \in 1 .. broken' - 1
    BY <1>2, <1>3, <1>4 DEF Intact
  <2>2. Intact(n)
    BY <1>2 DEF Intact
  <2>3. PICK m \in Nat : \E t : Walked(n, t, m)
    BY <1>1, <2>2 DEF SentOK
  <2>4. PICK t : Walked(n, t, m)
    BY <2>3
  <2>5. n \in Nat /\ n > 0 /\ n - 1 \in 0 .. Len(ends) /\ ends[n] \in Nat
    BY <1>3
  <2>6. ends[n] <= Len(stream)
    BY DEF SentOK
  <2>7. \A j \in 1 .. ends[n] : stream'[j] = stream[j]
    <3>1. \A j \in 1 .. ends[n] : j \in 1 .. Len(stream) /\ j <= ends[n]
      BY <1>3, <2>5, <2>6
    <3> QED BY <2>1, <3>1, SpoilFacts
  <2>8. EndOf(n - 1) \in Nat /\ EndOf(n - 1)' = EndOf(n - 1)
        /\ ends'[n] = ends[n] /\ values'[n] = values[n]
    BY <1>1, <1>3, <2>5 DEF EndOf
  <2>9. Walked(n, t, m)'
    BY <1>1, <2>4, <2>5, <2>7, <2>8, WalkedStays
  <2> QED BY <2>9
<1>5. broken' \in 0 .. Len(ends)
  BY <1>2, <1>3
<1> QED BY <1>1, <1>2, <1>4, <1>5 DEF SentOK, IsSeq, EndOf

LEMMA SpoilReader ==
  ASSUME SentOK, ReaderOK, Spoil
  PROVE  ReaderOK'
<1>1. UNCHANGED <<shape, values, ends, position, rTodo, rTokens, failed, limit,
                  rState, base, offset, items>> /\ limit = 0
  BY DEF Spoil, receiverVars, requestVars
<1>2. items = <<>> /\ rState = "waiting" /\ offset = 0 /\ Len(items) = 0
  BY <1>1, EmptyIsSeq DEF ReaderOK
<1>3. SliceOK'
  BY <1>1, SpoilFacts DEF ReaderOK, SliceOK
<1>4. Len(ends) \in Nat
  BY SentFacts
<1> QED BY <1>1, <1>2, <1>3, <1>4 DEF ReaderOK, IsSeq, EndOf

-------------------------------------------------------------------------------
(* The receiver's steps *)

LEMMA IterateReader ==
  ASSUME SentOK, ReaderOK, Iterate
  PROVE  ReaderOK'
<1>1. /\ rState = "waiting" /\ rState' = "iterating" /\ limit' \in limit + 1 .. Len(stream)
      /\ position' = base /\ offset' = base /\ ~failed' /\ base' = base /\ items' = items
      /\ UNCHANGED <<stream, ends, broken>>
  BY DEF Iterate, senderVars
<1>2. /\ stream \in Seq(Bytes) /\ position \in Nat /\ limit \in Nat
      /\ position <= limit /\ limit <= Len(stream) /\ Len(stream) \in Nat
  BY DEF ReaderOK, SliceOK
<1>3. /\ base \in Nat /\ offset \in Nat /\ base <= offset /\ offset <= position
      /\ base = offset
  BY <1>1 DEF ReaderOK
<1>4. limit' \in Nat /\ limit' # 0 /\ limit' <= Len(stream') /\ position' <= limit'
  BY <1>1, <1>2, <1>3
<1>5. SliceOK'
  BY <1>1, <1>2, <1>3, <1>4 DEF SliceOK
<1>6. (Intact(Len(items)) => Len(items) <= Len(ends) /\ offset = EndOf(Len(items)))'
  BY <1>1, <1>3 DEF ReaderOK, Intact, EndOf
<1> QED BY <1>1, <1>3, <1>4, <1>5, <1>6 DEF ReaderOK, IsSeq

LEMMA StopReader ==
  ASSUME ReaderOK, Next_None \/ Next_Err
  PROVE  ReaderOK'
<1>1. /\ rState # "waiting" /\ rState' = "waiting" /\ base' = offset
      /\ UNCHANGED <<stream, ends, broken, position, rTodo, rTokens, failed, limit,
                     offset, items>>
  BY DEF Next_None, Next_Err, StopIterating, senderVars, requestVars
<1>2. limit # 0
  BY <1>1 DEF ReaderOK
<1>3. SliceOK'
  BY <1>1 DEF ReaderOK, SliceOK
<1>4. (Intact(Len(items)) => Len(items) <= Len(ends) /\ offset = EndOf(Len(items)))'
  BY <1>1 DEF ReaderOK, Intact, EndOf
<1>5. offset \in Nat /\ offset <= offset /\ offset <= position
  BY DEF ReaderOK
<1> QED BY <1>1, <1>2, <1>3, <1>4, <1>5 DEF ReaderOK, IsSeq

LEMMA BeginReader ==
  ASSUME SentOK, ReaderOK, Next_Begin
  PROVE  ReaderOK'
<1>1. /\ rState = "iterating" /\ Left > 0 /\ rState' = "value"
      /\ rTodo' = <<shape>> /\ rTokens' = <<>>
      /\ UNCHANGED <<shape, stream, values, ends, broken, position, failed, limit,
                     base, offset, items>>
  BY DEF Next_Begin, senderVars
<1>2. position = offset /\ ~failed /\ limit # 0
  BY <1>1 DEF ReaderOK
<1>3. PICK n \in Nat : n = Len(items)
  BY SeqFacts DEF ReaderOK
<1>4. Intact(n + 1) => Reading'
  <2> SUFFICES ASSUME Intact(n + 1) PROVE Reading'
    OBVIOUS
  <2>1. broken \in Nat /\ Len(ends) \in Nat /\ Len(stream) \in Nat
    BY SentFacts DEF SentOK
  <2>2. Intact(n)
    BY <2>1 DEF Intact
  <2>3. n <= Len(ends) /\ offset = EndOf(n)
    BY <1>3, <2>2 DEF ReaderOK
  <2>4. n # Len(ends)
    <3>1. EndOf(Len(ends)) = Len(stream)
      BY DEF SentOK
    <3>2. position < Len(stream)
      BY <1>1, <2>1 DEF ReaderOK, SliceOK, Left
    <3>3. position \in Nat
      BY DEF ReaderOK, SliceOK
    <3> QED BY <1>2, <2>1, <2>3, <3>1, <3>2, <3>3
  <2>5. n + 1 \in 1 .. Len(ends) /\ n + 1 \in DOMAIN ends
    <3>1. n + 1 \in 1 .. Len(ends)
      BY ONLY n \in Nat, <2>1, <2>3, <2>4
    <3> QED BY <3>1, SentFacts
  <2>6. PICK m \in Nat : \E t : Walked(n + 1, t, m)
    BY <2>5 DEF SentOK
  <2>7. PICK t : Walked(n + 1, t, m)
    BY <2>6
  <2>8. t[0] = Point(<<shape>>, <<>>, position)
    <3>1. (n + 1) - 1 = n
      OBVIOUS
    <3> QED BY <1>2, <2>3, <2>7, <3>1 DEF Walked, IsWalk
  <2>9. Walked(n + 1, t, m)'
    BY <1>1, <2>7 DEF Walked, IsWalk, EndOf
  <2>10. t[0] = Point(rTodo', rTokens', position') /\ 0 \in 0 .. m
    BY <1>1, <2>8
  <2>11. Len(items)' + 1 = n + 1 /\ n + 1 <= Len(ends)'
    BY <1>1, <1>3, <2>5
  <2> QED BY <1>1, <1>2, <2>9, <2>10, <2>11 DEF Reading
<1>5. SliceOK'
  BY <1>1 DEF ReaderOK, SliceOK
<1>6. (Intact(Len(items)) => Len(items) <= Len(ends) /\ offset = EndOf(Len(items)))'
  BY <1>1 DEF ReaderOK, Intact, EndOf
<1>7. (rState = "value" /\ Intact(Len(items) + 1) => Reading)'
  BY <1>1, <1>3, <1>4 DEF Intact
<1> QED BY <1>1, <1>2, <1>5, <1>6, <1>7 DEF ReaderOK, IsSeq

LEMMA RequestReader ==
  ASSUME SentOK, ReaderOK, Request
  PROVE  ReaderOK'
<1>1. /\ rState = "value" /\ rState' = "value" /\ DeserializeRequest
      /\ UNCHANGED <<shape, stream, values, ends, broken, limit, base, offset, items>>
  BY DEF Request, senderVars
<1>2. SliceOK /\ limit # 0
  BY <1>1 DEF ReaderOK
<1>3. Stays
  BY <1>1, <1>2, RequestStays
<1>4. rTodo # <<>> /\ ~failed
  BY <1>1, RequestIs
<1>5. /\ stream \in Seq(Bytes) /\ position \in Nat /\ limit \in Nat
      /\ limit <= Len(stream) /\ Len(stream) \in Nat
  BY <1>2 DEF SliceOK
<1>6. position' \in Nat /\ position <= position' /\ position' <= limit
  BY <1>3, <1>5 DEF Stays
<1>7. SliceOK'
  BY <1>1, <1>5, <1>6 DEF SliceOK
<1>8. base \in Nat /\ offset \in Nat /\ base <= offset /\ offset <= position'
  BY <1>5, <1>6 DEF ReaderOK
<1>9. PICK n \in Nat : n = Len(items)
  BY SeqFacts DEF ReaderOK
<1>10. Intact(n + 1) => Reading'
  <2> SUFFICES ASSUME Intact(n + 1) PROVE Reading'
    OBVIOUS
  <2>1. Reading
    BY <1>1, <1>9 DEF ReaderOK
  <2>2. n + 1 <= Len(ends)
    BY <1>9, <2>1 DEF Reading
  <2>3. PICK m \in Nat : \E t : \E k \in 0 .. m :
          Walked(n + 1, t, m) /\ t[k] = Point(rTodo, rTokens, position)
    BY <1>4, <1>9, <2>1 DEF Reading
  <2>4. PICK t : \E k \in 0 .. m :
          Walked(n + 1, t, m) /\ t[k] = Point(rTodo, rTokens, position)
    BY <2>3
  <2>5. PICK k \in 0 .. m :
          Walked(n + 1, t, m) /\ t[k] = Point(rTodo, rTokens, position)
    BY <2>4
  <2>6. t[m].todo = <<>> /\ t[k].todo = rTodo
    BY <2>5, PointFacts DEF Walked
  <2>7. k \in 0 .. m - 1 /\ k + 1 \in 0 .. m
    <3>1. k # m
      BY <1>4, <2>6
    <3> QED BY <3>1
  <2>8. Step(stream, Point(rTodo, rTokens, position), t[k + 1])
        /\ t[k + 1].at \in EndOf(n) .. ends[n + 1]
    <3>1. (n + 1) - 1 = n
      OBVIOUS
    <3> QED BY <2>5, <2>7, <3>1 DEF Walked, IsWalk
  <2>9. Follows(t[k + 1])
    BY <1>1, <1>2, <2>8, RequestFollows
  <2>10. Walked(n + 1, t, m)'
    BY <1>1, <2>5 DEF Walked, IsWalk, EndOf
  <2>11. Len(items)' + 1 = n + 1 /\ n + 1 <= Len(ends)'
    BY <1>1, <1>9, <2>2
  <2>12. CASE ~failed' /\ t[k + 1] = Point(rTodo', rTokens', position')
    BY <2>7, <2>10, <2>11, <2>12 DEF Reading
  <2>13. CASE t[k + 1].at > limit /\ failed'
    <3>1. n \in 0 .. Len(ends) /\ n + 1 \in 1 .. Len(ends)
      BY <2>2, SentFacts
    <3>2. EndOf(n) \in Nat /\ ends[n + 1] \in Nat
      BY <3>1, SentFacts
    <3>3. ends[n + 1] > limit
      BY <1>5, <2>8, <2>13, <3>2
    <3> QED BY <1>1, <2>11, <2>13, <3>3 DEF Reading
  <2> QED BY <2>9, <2>12, <2>13 DEF Follows
<1>11. (Intact(Len(items)) => Len(items) <= Len(ends) /\ offset = EndOf(Len(items)))'
  BY <1>1 DEF ReaderOK, Intact, EndOf
<1>12. (rState = "value" /\ Intact(Len(items) + 1) => Reading)'
  BY <1>1, <1>9, <1>10 DEF Intact
<1>13. failed' => rTodo' # <<>>
  BY <1>3 DEF Stays
<1> QED BY <1>1, <1>2, <1>7, <1>8, <1>11, <1>12, <1>13 DEF ReaderOK, IsSeq

\* A value that is intact and all read is the one that was sent.
LEMMA ReadAsSent ==
  ASSUME SentOK, ReaderOK, Next_Ok, Intact(Len(items) + 1)
  PROVE  /\ Len(items) + 1 \in 1 .. Len(ends)
         /\ rTokens = values[Len(items) + 1] /\ position = ends[Len(items) + 1]
<1>1. rState = "value" /\ rTodo = <<>>
  BY DEF Next_Ok
<1>2. ~failed
  BY <1>1 DEF ReaderOK
<1>3. PICK n \in Nat : n = Len(items)
  BY SeqFacts DEF ReaderOK
<1>4. Reading
  BY <1>1 DEF ReaderOK
<1>5. PICK m \in Nat : \E t : \E k \in 0 .. m :
        Walked(n + 1, t, m) /\ t[k] = Point(rTodo, rTokens, position)
  BY <1>2, <1>3, <1>4 DEF Reading
<1>6. PICK t : \E k \in 0 .. m :
        Walked(n + 1, t, m) /\ t[k] = Point(rTodo, rTokens, position)
  BY <1>5
<1>7. PICK k \in 0 .. m :
        Walked(n + 1, t, m) /\ t[k] = Point(rTodo, rTokens, position)
  BY <1>6
<1>8. k = m
  <2> SUFFICES ASSUME k # m PROVE FALSE
    OBVIOUS
  <2>1. k \in 0 .. m - 1
    OBVIOUS
  <2>2. Step(stream, t[k], t[k + 1])
    BY <1>7, <2>1 DEF Walked, IsWalk
  <2>3. t[k].todo = <<>>
    BY <1>1, <1>7, PointFacts
  <2> QED BY <2>2, <2>3 DEF Step
<1>9. Point(<<>>, rTokens, position) = Point(<<>>, values[n + 1], ends[n + 1])
  BY <1>1, <1>7, <1>8 DEF Walked
<1>10. rTokens = values[n + 1] /\ position = ends[n + 1]
  <2> DEFINE p == Point(<<>>, rTokens, position)
  <2>1. p = Point(<<>>, rTokens, position) /\ p = Point(<<>>, values[n + 1], ends[n + 1])
    BY <1>9
  <2> HIDE DEF p
  <2>2. p.tokens = rTokens /\ p.at = position
    BY <2>1, PointFacts
  <2>3. p.tokens = values[n + 1] /\ p.at = ends[n + 1]
    BY <2>1, PointFacts
  <2> QED BY <2>2, <2>3
<1>11. n + 1 \in 1 .. Len(ends)
  <2>1. n + 1 <= Len(ends) /\ Len(ends) \in Nat
    BY <1>3, <1>4, SentFacts DEF Reading
  <2> QED BY <2>1
<1> QED BY <1>3, <1>10, <1>11

LEMMA OkReader ==
  ASSUME SentOK, ReaderOK, Next_Ok
  PROVE  ReaderOK'
<1>1. /\ rState = "value" /\ rTodo = <<>> /\ rState' = "iterating"
      /\ offset' = position /\ items' = Append(items, rTokens)
      /\ UNCHANGED <<stream, ends, broken, position, rTodo, rTokens, failed, limit, base>>
  BY DEF Next_Ok, senderVars, requestVars
<1>2. ~failed /\ limit # 0 /\ SliceOK
  BY <1>1 DEF ReaderOK
<1>3. PICK n \in Nat : n = Len(items)
  BY SeqFacts DEF ReaderOK
<1>4. IsSeq(items') /\ Len(items') = n + 1
  BY <1>1, <1>3, AppendIsSeq DEF ReaderOK
<1>5. SliceOK'
  BY <1>1, <1>2 DEF SliceOK
<1>6. /\ base \in Nat /\ position \in Nat /\ base <= position /\ position <= position
  <2>1. /\ base \in Nat /\ offset \in Nat /\ base <= offset /\ offset <= position
        /\ position \in Nat
    BY <1>2 DEF ReaderOK, SliceOK
  <2> QED BY <2>1
<1>7. Intact(n + 1) => n + 1 <= Len(ends) /\ position = EndOf(n + 1)
  <2> SUFFICES ASSUME Intact(n + 1)
               PROVE  n + 1 <= Len(ends) /\ position = EndOf(n + 1)
    OBVIOUS
  <2>1. n + 1 \in 1 .. Len(ends) /\ position = ends[n + 1] /\ Len(ends) \in Nat
    BY <1>3, ReadAsSent, SentFacts
  <2> QED BY <2>1 DEF EndOf
<1>8. (Intact(Len(items)) => Len(items) <= Len(ends) /\ offset = EndOf(Len(items)))'
  <2>1. Len(items)' = n + 1
    BY <1>4
  <2> QED BY <1>1, <1>7, <2>1 DEF Intact, EndOf
<1>9. IsSeq(items)'
  BY <1>4 DEF IsSeq
<1> QED BY <1>1, <1>2, <1>5, <1>6, <1>8, <1>9 DEF ReaderOK

-------------------------------------------------------------------------------
(* Every step *)

LEMMA NextIInv == IInv /\ [Next]_vars => IInv'
<1> SUFFICES ASSUME WriterOK, SentOK, ReaderOK, [Next]_vars
             PROVE  WriterOK' /\ SentOK' /\ ReaderOK'
  BY DEF IInv
<1>1. CASE ToBytes
  BY <1>1, ToBytesWriter, SentStutters, ReaderStutters DEF ToBytes
<1>2. CASE Call
  BY <1>2, CallWriter, SentStutters, ReaderStutters DEF Call
<1>3. CASE CallFails
  <2>1. WriterOK'
    <3>1. <<>> \in Seq(Walkable)
      OBVIOUS
    <3> QED BY <1>3, <3>1 DEF CallFails, WriterOK, WriterTyped
  <2> QED BY <1>3, <2>1, SentStutters, ReaderStutters DEF CallFails
<1>4. CASE Send
  <2>1. WriterOK'
    BY <1>4 DEF Send, WriterOK, WriterTyped, walkVars
  <2> QED BY <1>4, <2>1, SendSent, SendReader
<1>5. CASE Spoil
  <2>1. WriterOK'
    BY <1>5, WriterStutters DEF Spoil
  <2> QED BY <1>5, <2>1, SpoilSent, SpoilReader
<1>6. CASE Receiver
  <2>1. UNCHANGED senderVars /\ UNCHANGED broken
    BY <1>6 DEF Receiver, Iterate, Next_None, Next_Begin, Request, Next_Ok, Next_Err
  <2>2. WriterOK'
    BY <2>1, WriterStutters DEF senderVars
  <2>3. SentOK'
    BY <2>1, SentStutters DEF senderVars
  <2>4. ReaderOK'
    BY <1>6, IterateReader, StopReader, BeginReader, RequestReader, OkReader
       DEF Receiver
  <2> QED BY <2>2, <2>3, <2>4
<1>7. CASE UNCHANGED vars
  <2>1. UNCHANGED <<shape, walkVars, stream, wState, values, ends, broken, receiverVars>>
    BY <1>7 DEF vars, senderVars
  <2> QED BY <2>1, WriterStutters, SentStutters, ReaderStutters
<1> QED BY <1>1, <1>2, <1>3, <1>4, <1>5, <1>6, <1>7 DEF Next, Sender

LEMMA Invariance == Spec => []IInv
<1>1. Init => IInv
  BY InitIInv
<1>2. IInv /\ [Next]_vars => IInv'
  BY NextIInv
<1> QED BY <1>1, <1>2, PTL DEF Spec

-------------------------------------------------------------------------------
(* The results *)

\* The positions of both sides stay in order, and every byte is one: the reader
\* never moves behind its slice, whatever the bytes.
THEOREM TypeCorrect == Spec => []TypeOK
<1>1. IInv => TypeOK
  <2> SUFFICES ASSUME WriterOK, SentOK, ReaderOK PROVE TypeOK
    BY DEF IInv
  <2>1. /\ base \in Nat /\ base <= offset /\ offset <= position
        /\ position <= limit /\ limit <= Len(stream)
    BY DEF ReaderOK, SliceOK
  <2>2. \A i \in DOMAIN stream : stream[i] \in 0 .. 255
    <3>1. stream \in Seq(Bytes)
      BY DEF SentOK
    <3>2. \A i \in DOMAIN stream : stream[i] \in Bytes
      BY <3>1
    <3> QED BY <3>2 DEF Bytes
  <2>3. wState \in {"idle", "walking"} /\ rState \in {"waiting", "iterating", "value"}
    BY DEF WriterOK, ReaderOK
  <2> QED BY <2>1, <2>2, <2>3 DEF TypeOK
<1> QED BY <1>1, Invariance, PTL

\* Wherever the stream was cut, what the receiver keeps begins with the first
\* byte of a value.
THEOREM BoundarySafe == Spec => []OffsetAtBoundary
<1>1. IInv => OffsetAtBoundary
  <2> SUFFICES ASSUME SentOK, ReaderOK, Intact(Len(items))
               PROVE  offset = IF items = <<>> THEN 0 ELSE ends[Len(items)]
    BY DEF IInv, OffsetAtBoundary
  <2>1. offset = EndOf(Len(items))
    BY DEF ReaderOK
  <2>2. items = <<>> <=> Len(items) = 0
    BY SeqFacts DEF ReaderOK
  <2> QED BY <2>1, <2>2 DEF EndOf
<1> QED BY <1>1, Invariance, PTL

\* No value is refused that is all there and as it was sent.
THEOREM RefusalSound == Spec => []RefusedOnlyIfCut
<1>1. IInv => RefusedOnlyIfCut
  BY DEF IInv, ReaderOK, Reading, RefusedOnlyIfCut
<1> QED BY <1>1, Invariance, PTL

LEMMA SubSeqOfAppend ==
  ASSUME NEW s, IsSeq(s), NEW e
  PROVE  SubSeq(Append(s, e), 1, Len(s)) = s
<1> DEFINE S == {s[i] : i \in DOMAIN s}
           T == S \cup {e}
<1>1. s \in Seq(S) /\ S \subseteq T /\ e \in T
  BY DEF IsSeq
<1> HIDE DEF S, T
<1>2. s \in Seq(T)
  BY <1>1, SeqMonotonic
<1>3. /\ Append(s, e) \in Seq(T) /\ Len(Append(s, e)) = Len(s) + 1
      /\ \A i \in 1 .. Len(s) : Append(s, e)[i] = s[i]
  BY <1>1, <1>2, AppendProperties
<1>4. Len(s) \in Nat
  BY <1>1
<1> DEFINE u == SubSeq(Append(s, e), 1, Len(s))
<1>5. u \in Seq(T) /\ Len(u) = Len(s) /\ \A i \in 1 .. Len(s) : u[i] = s[i]
  BY <1>3, <1>4, SubSeqProperties
<1> HIDE DEF u
<1>6. u = s
  BY <1>2, <1>5, SeqEqual
<1> QED BY <1>6 DEF u

LEMMA InitChannel == Init => Channel!Init
BY DEF Init, Channel!Init

LEMMA NextChannel == IInv /\ [Next]_vars => [Channel!Next]_(Channel!vars)
<1> SUFFICES ASSUME WriterOK, SentOK, ReaderOK, [Next]_vars
             PROVE  Channel!Next \/ UNCHANGED <<values, items, broken>>
  BY DEF IInv, Channel!vars
<1>1. CASE ToBytes \/ Call \/ CallFails
  BY <1>1 DEF ToBytes, Call, CallFails, receiverVars
<1>2. CASE Send
  <2>1. values' = Append(values, wTokens) /\ UNCHANGED <<items, broken>>
    BY <1>2 DEF Send, receiverVars
  <2>2. Channel!Send
    BY <2>1, AppendIsSeq, SubSeqOfAppend DEF SentOK, Channel!Send
  <2> QED BY <2>2 DEF Channel!Next
<1>3. CASE Spoil
  <2>1. UNCHANGED <<values, items>> /\ items = <<>>
    BY <1>3 DEF Spoil, receiverVars, ReaderOK
  <2>2. broken = 0 /\ broken' \in 1 .. Len(values) /\ Len(items) + 1 = 1
    BY <1>3, <2>1, SpoilFacts, EmptyIsSeq DEF SentOK
  <2>3. Channel!Break
    BY <2>1, <2>2 DEF Channel!Break
  <2> QED BY <2>3 DEF Channel!Next
<1>4. CASE Iterate \/ Next_None \/ Next_Begin \/ Request \/ Next_Err
  BY <1>4 DEF Iterate, Next_None, Next_Begin, Request, Next_Err, senderVars
<1>5. CASE Next_Ok
  <2>1. items' = Append(items, rTokens) /\ UNCHANGED <<values, broken>>
    BY <1>5 DEF Next_Ok, senderVars
  <2>2. Len(items) \in Nat /\ Len(ends) \in Nat /\ Len(values) = Len(ends)
        /\ broken \in Nat
    BY SeqFacts, SentFacts DEF ReaderOK, SentOK
  <2>3. CASE Intact(Len(items) + 1)
    <3>1. Len(items) < Len(values) /\ rTokens = values[Len(items) + 1]
      BY <1>5, <2>2, <2>3, ReadAsSent
    <3>2. Channel!Receive
      BY <2>1, <2>3, <3>1 DEF Channel!Receive, Intact
    <3> QED BY <3>2 DEF Channel!Next
  <2>4. CASE ~Intact(Len(items) + 1)
    <3>1. broken # 0 /\ Len(items) + 1 >= broken
      BY <2>2, <2>4 DEF Intact
    <3>2. Len(items') = Len(items) + 1 /\ SubSeq(items', 1, Len(items)) = items
      BY <2>1, AppendIsSeq, SubSeqOfAppend DEF ReaderOK
    <3>3. Channel!ReceiveAnything
      BY <2>1, <3>1, <3>2 DEF Channel!ReceiveAnything
    <3> QED BY <3>3 DEF Channel!Next
  <2> QED BY <2>3, <2>4
<1>6. CASE UNCHANGED vars
  BY <1>6 DEF vars, senderVars, receiverVars
<1> QED BY <1>1, <1>2, <1>3, <1>4, <1>5, <1>6 DEF Next, Sender, Receiver

\* Every value received is the one that was sent in its place, once and in
\* order, up to the one that was spoilt: the safety of ImplementsChannel.
THEOREM ChannelSafe == Spec => Channel!Init /\ [][Channel!Next]_(Channel!vars)
<1>1. Init => Channel!Init
  BY InitChannel
<1>2. IInv /\ [Next]_vars => [Channel!Next]_(Channel!vars)
  BY NextChannel
<1> QED BY <1>1, <1>2, Invariance, PTL DEF Spec
===============================================================================
