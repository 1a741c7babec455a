-------------------------- MODULE ObjectStream_proofs --------------------------
(***************************************************************************)
(* The file of objects, for any objects, however deep, any number of them, *)
(* of failed Writes and of damaged bytes.                                  *)
(*                                                                         *)
(* In three parts: that both sides keep to their types and the reader in   *)
(* step with the frames (SInv, HeadsOK and InStep, to FramesResynchronize); *)
(* what bytes a frame has and where they lie in the file (to ContentsOK);  *)
(* and the reader on its way through them (to FramesImplementLog).         *)
(***************************************************************************)
EXTENDS ObjectStream, FiniteSetTheorems, SequenceTheorems, WellFoundedInduction, TLAPS

-------------------------------------------------------------------------------
(* Lemmas about sequences *)

\* A set of naturals that is not empty has a least element.
LEMMA LeastNatural ==
  ASSUME NEW S \in SUBSET Nat, S # {}
  PROVE  \E n \in S : \A m \in S : n <= m
<1>1. S \subseteq Nat
  OBVIOUS
<1>2. PICK n \in S : \A m \in S : ~ (<<m, n>> \in OpToRel(<, Nat))
  BY <1>1, NatLessThanWellFounded, WFMin
<1>3. \A m \in S : ~ (m < n)
  BY <1>1, <1>2 DEF OpToRel
<1>4. \A m \in S : n <= m
  BY <1>1, <1>3
<1> QED BY <1>4

\* What FlattenSeq recurses through exists and consists of sequences.
LEMMA FlattenExists ==
  ASSUME NEW S, NEW s \in Seq(Seq(S))
  PROVE  \E f \in [1 .. Len(s) -> Seq(S)] :
           \A i \in 1 .. Len(s) : f[i] = IF i = 1 THEN s[i] ELSE f[i - 1] \o s[i]
<1> DEFINE T == Seq(S)
           Good(f, m) ==
             \A i \in 1 .. m : f[i] = IF i = 1 THEN s[i] ELSE f[i - 1] \o s[i]
           Bad == {m \in 0 .. Len(s) : ~\E f \in [1 .. m -> T] : Good(f, m)}
<1>0. Len(s) \in Nat /\ \A i \in 1 .. Len(s) : s[i] \in T
  OBVIOUS
<1>a. \A p, q \in T : p \o q \in T
  BY ConcatProperties
<1> HIDE DEF T
<1>1. Bad = {}
  <2> SUFFICES ASSUME Bad # {} PROVE FALSE
    OBVIOUS
  <2>1. \E m \in Bad : \A k \in Bad : m <= k
    <3>1. Bad \in SUBSET Nat
      BY <1>0
    <3> HIDE DEF Bad
    <3> QED BY <3>1, LeastNatural
  <2>2. PICK m \in Bad : \A k \in Bad : m <= k
    BY <2>1
  <2>3. m \in 0 .. Len(s) /\ ~\E f \in [1 .. m -> T] : Good(f, m)
    OBVIOUS
  <2>4. m # 0
    <3>1. [i \in 1 .. 0 |-> <<>>] \in [1 .. 0 -> T] /\ Good([i \in 1 .. 0 |-> <<>>], 0)
      OBVIOUS
    <3> QED BY <2>3, <3>1
  <2>5. m \in Nat \ {0} /\ m - 1 \in 0 .. Len(s)
    BY <1>0, <2>3, <2>4
  <2>6. ~ (m <= m - 1)
    BY <2>5
  <2>7. m - 1 \notin Bad
    BY <2>2, <2>6
  <2>8. PICK f \in [1 .. m - 1 -> T] : Good(f, m - 1)
    BY <2>5, <2>7
  <2> DEFINE last == IF m = 1 THEN s[m] ELSE f[m - 1] \o s[m]
             g == [i \in 1 .. m |-> IF i = m THEN last ELSE f[i]]
  <2>9. s[m] \in T /\ (m # 1 => f[m - 1] \in T)
    BY <1>0, <2>3, <2>5, <2>8
  <2>10. last \in T
    BY <1>a, <2>9
  <2>11. \A i \in 1 .. m : i = m \/ i \in 1 .. m - 1
    BY <2>5
  <2>12. g \in [1 .. m -> T]
    <3> HIDE DEF last
    <3> QED BY <2>8, <2>10, <2>11
  <2>13. Good(g, m)
    <3> SUFFICES ASSUME NEW i \in 1 .. m
                 PROVE  g[i] = IF i = 1 THEN s[i] ELSE g[i - 1] \o s[i]
      OBVIOUS
    <3>1. i # 1 => i - 1 \in 1 .. m /\ i - 1 # m
      BY <2>5
    <3>2. i # 1 => g[i - 1] = f[i - 1]
      BY <3>1
    <3>3. CASE i = m
      BY <3>2, <3>3
    <3>4. CASE i # m
      <4>1. i \in 1 .. m - 1
        BY <2>11, <3>4
      <4>2. f[i] = IF i = 1 THEN s[i] ELSE f[i - 1] \o s[i]
        BY <2>8, <4>1
      <4> QED BY <3>2, <3>4, <4>2
    <3> QED BY <3>3, <3>4
  <2> HIDE DEF g, Good
  <2> QED BY <2>3, <2>12, <2>13
<1>2. Len(s) \notin Bad
  BY <1>1
<1> QED BY <1>0, <1>2 DEF T

\* It is the last of the concatenations it is built from.
LEMMA FlattenBuilt ==
  ASSUME NEW S, NEW s \in Seq(Seq(S)), Len(s) # 0
  PROVE  \E f \in [1 .. Len(s) -> Seq(S)] :
           /\ \A i \in 1 .. Len(s) : f[i] = IF i = 1 THEN s[i] ELSE f[i - 1] \o s[i]
           /\ FlattenSeq(s) = f[Len(s)]
<1> DEFINE Def(f) == [i \in 1 .. Len(s) |->
                        IF i = 1 THEN s[i] ELSE f[i - 1] \o s[i]]
           flatten == CHOOSE f : f = Def(f)
           T == Seq(S)
<1>0. Len(s) \in Nat /\ \A i \in 1 .. Len(s) : s[i] \in T
  OBVIOUS
<1>a. \A p, q \in T : p \o q \in T
  BY ConcatProperties
<1>1. PICK f \in [1 .. Len(s) -> T] :
        \A i \in 1 .. Len(s) : f[i] = IF i = 1 THEN s[i] ELSE f[i - 1] \o s[i]
  BY FlattenExists
<1>2. f = Def(f)
  BY <1>1
<1>3. flatten = Def(flatten)
  <2> HIDE DEF Def
  <2> QED BY <1>2
<1>4. FlattenSeq(s) = flatten[Len(s)]
  BY DEF FlattenSeq
<1> HIDE DEF flatten, T
<1>5. \A i \in 1 .. Len(s) :
        flatten[i] = IF i = 1 THEN s[i] ELSE flatten[i - 1] \o s[i]
  BY <1>3
<1> DEFINE Bad == {i \in 1 .. Len(s) : flatten[i] \notin T}
<1>6. Bad = {}
  <2> SUFFICES ASSUME Bad # {} PROVE FALSE
    OBVIOUS
  <2>1. \E i \in Bad : \A j \in Bad : i <= j
    <3>1. Bad \in SUBSET Nat
      BY <1>0
    <3> HIDE DEF Bad
    <3> QED BY <3>1, LeastNatural
  <2>2. PICK i \in Bad : \A j \in Bad : i <= j
    BY <2>1
  <2>3. i \in 1 .. Len(s) /\ flatten[i] \notin T
    OBVIOUS
  <2>4. i # 1
    BY <1>0, <1>5, <2>3
  <2>5. i - 1 \in 1 .. Len(s) /\ ~ (i <= i - 1)
    BY <1>0, <2>3, <2>4
  <2>6. flatten[i - 1] \in T
    BY <2>2, <2>5
  <2>7. flatten[i] = flatten[i - 1] \o s[i] /\ s[i] \in T
    BY <1>0, <1>5, <2>3, <2>4
  <2> QED BY <1>a, <2>3, <2>6, <2>7
<1>7. flatten \in [1 .. Len(s) -> T]
  <2>1. flatten = [i \in 1 .. Len(s) |-> flatten[i]]
    BY <1>3
  <2> QED BY <1>6, <2>1
<1> QED BY <1>4, <1>5, <1>7 DEF T

LEMMA FlattenSeqType ==
  ASSUME NEW S, NEW s \in Seq(Seq(S))
  PROVE  FlattenSeq(s) \in Seq(S)
<1>1. CASE Len(s) = 0
  <2>1. s = <<>>
    BY <1>1
  <2> QED BY <1>1, <2>1 DEF FlattenSeq
<1>2. CASE Len(s) # 0
  <2> DEFINE T == Seq(S)
  <2>1. Len(s) \in 1 .. Len(s)
    BY <1>2
  <2> HIDE DEF T
  <2>2. \E f \in [1 .. Len(s) -> T] : FlattenSeq(s) = f[Len(s)]
    BY <1>2, FlattenBuilt DEF T
  <2> QED BY <2>1, <2>2 DEF T
<1> QED BY <1>1, <1>2

-------------------------------------------------------------------------------
(* The frames: Frame is defined by recursion on the parts of an object, which *)
(* ends because no object holds itself                                        *)

Inside(o) == {o.parts[i].value : i \in DOMAIN o.parts}
FramedWith(f, o) == FrameOf(o, [i \in DOMAIN o.parts |-> f[o.parts[i].value]])

\* f gives every object of D its frame.
Framing(D, f) ==
  /\ D \subseteq Objects
  /\ f \in [D -> Seq(Nat)]
  /\ \A o \in D : Inside(o) \subseteq D /\ f[o] = FramedWith(f, o)

LEMMA InsideIsObjects ==
  ASSUME NEW o \in Objects
  PROVE  /\ Inside(o) \subseteq Objects
         /\ o.parts \in Seq([key : Seq(Nat), value : Objects])
         /\ o.bytes \in Seq(Nat)
         /\ o.type \in DOMAIN TypeId
<1>1. o.parts \in Seq([key : Seq(Nat), value : Objects])
  BY ObjectsAssumption DEF ObjectsAssumption
<1>2. \A i \in DOMAIN o.parts : o.parts[i] \in [key : Seq(Nat), value : Objects]
  <2> DEFINE T == [key : Seq(Nat), value : Objects]
  <2>1. o.parts \in Seq(T)
    BY <1>1
  <2> HIDE DEF T
  <2>2. \A i \in DOMAIN o.parts : o.parts[i] \in T
    BY <2>1
  <2> QED BY <2>2 DEF T
<1>3. \A i \in DOMAIN o.parts : o.parts[i].value \in Objects
  BY <1>2
<1> QED BY <1>1, <1>3, ObjectsAssumption DEF ObjectsAssumption, Inside

\* Some object of any set of objects holds none of them.
LEMMA Innermost ==
  ASSUME NEW S \in SUBSET Objects, S # {}
  PROVE  \E o \in S : Inside(o) \cap S = {}
<1>1. S \in (SUBSET Objects) \ {{}}
  OBVIOUS
<1>2. PICK o \in S : \A i \in DOMAIN o.parts : o.parts[i].value \notin S
  BY <1>1, ObjectsAssumption DEF ObjectsAssumption
<1>3. Inside(o) \cap S = {}
  BY <1>2 DEF Inside
<1> QED BY <1>3

LEMMA StringBytesType ==
  ASSUME NEW s \in Seq(Nat)
  PROVE  StringBytes(s) \in Seq(Nat) /\ Len(StringBytes(s)) = Len(s) + 1
<1>1. <<Len(s)>> \in Seq(Nat) /\ Len(<<Len(s)>>) = 1
  OBVIOUS
<1> QED BY <1>1, ConcatProperties DEF StringBytes

\* The payload of a frame, when the parts have these frames.
PayloadWith(o, parts) ==
  CASE o.type \in Counted -> StringBytes(o.bytes)
    [] o.type = "Vector" -> VectorBytes(parts)
    [] o.type = "Collection" ->
         CollectionBytes([i \in DOMAIN o.parts |-> o.parts[i].key], parts)
    [] OTHER -> o.bytes

\* A frame is the length of the rest, the type identifier as a string, and a
\* payload, which is empty for the Empty type.
LEMMA FrameOfForm ==
  ASSUME NEW o \in Objects, NEW parts \in [DOMAIN o.parts -> Seq(Nat)]
  PROVE  LET payload == PayloadWith(o, parts) IN
           /\ payload \in Seq(Nat)
           /\ o.type = "Empty" => payload = <<>>
           /\ FrameOf(o, parts) = StringBytes(StringBytes(<<TypeId[o.type]>>) \o payload)
<1> DEFINE T == Seq(Nat)
           n == Len(o.parts)
           keys == [i \in DOMAIN o.parts |-> o.parts[i].key]
           strings == [i \in DOMAIN parts |-> StringBytes(keys[i]) \o parts[i]]
           payload == PayloadWith(o, parts)
<1>1. n \in Nat /\ DOMAIN o.parts = 1 .. n /\ \A i \in 1 .. n : o.parts[i].key \in T
  <2> DEFINE R == [key : Seq(Nat), value : Objects]
  <2>1. o.parts \in Seq(R)
    BY InsideIsObjects
  <2> HIDE DEF R
  <2>2. n \in Nat /\ DOMAIN o.parts = 1 .. n /\ \A i \in 1 .. n : o.parts[i] \in R
    BY <2>1
  <2> QED BY <2>2 DEF R
<1>2. o.bytes \in T
  BY InsideIsObjects
<1>3. parts \in [1 .. n -> T]
  BY <1>1
<1>4. \A s \in T : StringBytes(s) \in T
  BY StringBytesType
<1>5. \A s, t \in T : s \o t \in T
  BY ConcatProperties
<1>6. \A k \in Nat : <<k>> \in T
  OBVIOUS
<1>7. parts \in Seq(T) /\ Len(parts) = n
  <2> HIDE DEF T, n
  <2> QED BY <1>1, <1>3
<1>8. FlattenSeq(parts) \in T
  BY <1>7, FlattenSeqType
<1>9. strings \in Seq(T) /\ Len(strings) = n
  <2>1. \A i \in 1 .. n : StringBytes(o.parts[i].key) \o parts[i] \in T
    <3> HIDE DEF T
    <3> QED BY <1>1, <1>3, <1>4, <1>5
  <2>2. strings = [i \in 1 .. n |-> StringBytes(o.parts[i].key) \o parts[i]]
    BY <1>1, <1>3
  <2>3. strings \in [1 .. n -> T]
    BY <2>1, <2>2
  <2> HIDE DEF T, n, strings
  <2> QED BY <1>1, <2>3
<1>10. FlattenSeq(strings) \in T
  BY <1>9, FlattenSeqType
<1>11. VectorBytes(parts) \in T
  <2> HIDE DEF T, n
  <2> QED BY <1>1, <1>5, <1>6, <1>7, <1>8 DEF VectorBytes
<1>12. CollectionBytes(keys, parts) \in T
  <2>1. CollectionBytes(keys, parts) = <<Len(parts)>> \o FlattenSeq(strings)
    BY DEF CollectionBytes
  <2> HIDE DEF T, n, strings, keys
  <2> QED BY <1>1, <1>5, <1>6, <1>7, <1>10, <2>1
<1>13. payload \in T
  <2> HIDE DEF T, keys
  <2> QED BY <1>2, <1>4, <1>11, <1>12 DEF PayloadWith, keys
<1>14. o.type = "Empty" => payload = <<>>
  BY ObjectsAssumption DEF ObjectsAssumption, Counted, PayloadWith
<1>15. FrameOf(o, parts) = StringBytes(StringBytes(<<TypeId[o.type]>>) \o payload)
  BY DEF FrameOf, PayloadWith
<1> QED BY <1>13, <1>14, <1>15

LEMMA FrameOfType ==
  ASSUME NEW o \in Objects, NEW parts \in [DOMAIN o.parts -> Seq(Nat)]
  PROVE  FrameOf(o, parts) \in Seq(Nat)
<1>1. PICK payload \in Seq(Nat) :
        FrameOf(o, parts) = StringBytes(StringBytes(<<TypeId[o.type]>>) \o payload)
  BY FrameOfForm
<1>2. <<TypeId[o.type]>> \in Seq(Nat)
  BY InsideIsObjects DEF TypeId
<1>3. StringBytes(<<TypeId[o.type]>>) \o payload \in Seq(Nat)
  BY <1>2, StringBytesType, ConcatProperties
<1> QED BY <1>1, <1>3, StringBytesType

LEMMA FramingsAgree ==
  ASSUME NEW D, NEW f, NEW E, NEW g, Framing(D, f), Framing(E, g)
  PROVE  \A o \in D \cap E : f[o] = g[o]
<1> DEFINE S == {o \in D \cap E : f[o] # g[o]}
<1>1. SUFFICES ASSUME S # {} PROVE FALSE
  OBVIOUS
<1>2. S \in SUBSET Objects
  BY DEF Framing
<1>3. PICK o \in S : Inside(o) \cap S = {}
  <2> HIDE DEF S
  <2> QED BY <1>1, <1>2, Innermost
<1>4. \A p \in Inside(o) : f[p] = g[p]
  BY <1>3 DEF Framing
<1>5. FramedWith(f, o) = FramedWith(g, o)
  <2>1. \A i \in DOMAIN o.parts : o.parts[i].value \in Inside(o)
    BY DEF Inside
  <2>2. [i \in DOMAIN o.parts |-> f[o.parts[i].value]]
          = [i \in DOMAIN o.parts |-> g[o.parts[i].value]]
    BY <1>4, <2>1
  <2> QED BY <2>2 DEF FramedWith
<1> QED BY <1>5 DEF Framing

\* A framing of all objects: the union of all framings is one, and an object
\* left out with everything in it framed could be added.
LEMMA AllFramed == \E f : Framing(Objects, f)
<1> DEFINE FramedAs(o, y) ==
             \E D \in SUBSET Objects : \E f \in [D -> Seq(Nat)] :
               Framing(D, f) /\ o \in D /\ y = f[o]
           Covered == {o \in Objects : \E y \in Seq(Nat) : FramedAs(o, y)}
           F == [o \in Covered |-> CHOOSE y \in Seq(Nat) : FramedAs(o, y)]
<1>1. ASSUME NEW D, NEW f, Framing(D, f), NEW o \in D
      PROVE  o \in Covered /\ F[o] = f[o]
  <2>1. f[o] \in Seq(Nat) /\ FramedAs(o, f[o]) /\ o \in Objects
    BY <1>1 DEF Framing
  <2>2. o \in Covered
    <3> HIDE DEF FramedAs
    <3> QED BY <2>1
  <2>3. \A y : FramedAs(o, y) => y = f[o]
    BY <1>1, FramingsAgree
  <2>4. F[o] = CHOOSE y \in Seq(Nat) : FramedAs(o, y)
    <3> HIDE DEF FramedAs
    <3> QED BY <2>2
  <2>5. FramedAs(o, CHOOSE y \in Seq(Nat) : FramedAs(o, y))
    <3> HIDE DEF FramedAs
    <3> QED BY <2>1
  <2> HIDE DEF FramedAs, F
  <2> QED BY <2>2, <2>3, <2>4, <2>5
<1>2. ASSUME NEW o \in Covered
      PROVE  \E D, f : Framing(D, f) /\ o \in D
  OBVIOUS
<1>3. Covered \subseteq Objects
  OBVIOUS
<1> HIDE DEF Covered, F
<1>4. Framing(Covered, F)
  <2>1. ASSUME NEW o \in Covered
        PROVE  F[o] \in Seq(Nat) /\ Inside(o) \subseteq Covered /\ F[o] = FramedWith(F, o)
    <3>1. PICK D, f : Framing(D, f) /\ o \in D
      BY <1>2
    <3>2. \A p \in Inside(o) : p \in Covered /\ F[p] = f[p]
      BY <1>1, <3>1 DEF Framing
    <3>3. FramedWith(F, o) = FramedWith(f, o)
      <4>1. \A i \in DOMAIN o.parts : F[o.parts[i].value] = f[o.parts[i].value]
        BY <3>2 DEF Inside
      <4>2. [i \in DOMAIN o.parts |-> F[o.parts[i].value]]
              = [i \in DOMAIN o.parts |-> f[o.parts[i].value]]
        BY <4>1
      <4> QED BY <4>2 DEF FramedWith
    <3>4. F[o] = f[o] /\ f[o] = FramedWith(f, o) /\ f[o] \in Seq(Nat)
      BY <1>1, <3>1 DEF Framing
    <3> QED BY <3>2, <3>3, <3>4
  <2>2. F = [o \in Covered |-> F[o]]
    BY SMTT(30) DEF F
  <2> QED BY <1>3, <2>1, <2>2 DEF Framing
<1>5. Objects \subseteq Covered
  <2> SUFFICES ASSUME Objects \ Covered # {} PROVE FALSE
    OBVIOUS
  <2>1. PICK o \in Objects \ Covered : Inside(o) \cap (Objects \ Covered) = {}
    <3>1. Objects \ Covered \in SUBSET Objects
      OBVIOUS
    <3> QED BY <3>1, Innermost
  <2>2. Inside(o) \subseteq Covered /\ o \notin Covered /\ o \in Objects
    BY <2>1, InsideIsObjects
  <2> DEFINE D == Covered \cup {o}
             frame == FramedWith(F, o)
             f == [x \in D |-> IF x = o THEN frame ELSE F[x]]
  <2>3. ASSUME NEW x \in D
        PROVE  Inside(x) \subseteq Covered /\ FramedWith(f, x) = FramedWith(F, x)
    <3>1. Inside(x) \subseteq Covered
      BY <1>4, <2>2 DEF Framing
    <3>2. \A p \in Inside(x) : f[p] = F[p]
      <4> HIDE DEF frame
      <4> QED BY <2>2, <3>1
    <3> HIDE DEF f
    <3>3. \A i \in DOMAIN x.parts : f[x.parts[i].value] = F[x.parts[i].value]
      BY <3>2 DEF Inside
    <3>4. [i \in DOMAIN x.parts |-> f[x.parts[i].value]]
            = [i \in DOMAIN x.parts |-> F[x.parts[i].value]]
      BY <3>3
    <3> QED BY <3>1, <3>4 DEF FramedWith
  <2>4. frame \in Seq(Nat)
    <3>1. [i \in DOMAIN o.parts |-> F[o.parts[i].value]] \in [DOMAIN o.parts -> Seq(Nat)]
      BY <1>4, <2>2 DEF Framing, Inside
    <3> QED BY <2>2, <3>1, FrameOfType DEF FramedWith
  <2>5. \A x \in D : f[x] = FramedWith(f, x) /\ f[x] \in Seq(Nat)
    <3>1. \A x \in Covered : F[x] = FramedWith(F, x) /\ F[x] \in Seq(Nat)
      BY <1>4 DEF Framing
    <3>2. frame = FramedWith(F, o)
      OBVIOUS
    <3>3. \A x \in D : f[x] = FramedWith(F, x) /\ f[x] \in Seq(Nat)
      <4> HIDE DEF frame
      <4> QED BY <2>2, <2>4, <3>1, <3>2
    <3> HIDE DEF f
    <3> QED BY <2>3, <3>3
  <2>6. f \in [D -> Seq(Nat)] /\ D \subseteq Objects
    <3> HIDE DEF frame
    <3> QED BY <1>3, <2>2, <2>5
  <2>7. Framing(D, f)
    <3> HIDE DEF f
    <3> QED BY <2>3, <2>5, <2>6 DEF Framing
  <2>8. o \in Covered
    <3> HIDE DEF f
    <3> QED BY <1>1, <2>7
  <2> QED BY <2>2, <2>8
<1>6. Covered = Objects
  BY <1>3, <1>5
<1> QED BY <1>4, <1>6

LEMMA FrameEquation ==
  /\ Frame \in [Objects -> Seq(Nat)]
  /\ \A o \in Objects : Frame[o] = FramedWith(Frame, o)
<1> DEFINE Def(f) == [o \in Objects |->
                       FrameOf(o, [i \in DOMAIN o.parts |-> f[o.parts[i].value]])]
<1>1. PICK f : Framing(Objects, f)
  BY AllFramed
<1>2. f = Def(f)
  BY <1>1 DEF Framing, FramedWith
<1>3. Frame = CHOOSE g : g = Def(g)
  BY DEF Frame
<1>4. Frame = Def(Frame)
  <2> HIDE DEF Def
  <2> QED BY <1>2, <1>3
<1>5. \A o \in Objects : Frame[o] = FramedWith(Frame, o)
  BY <1>4 DEF FramedWith
<1>6. \A o \in Objects : Frame[o] \in Seq(Nat)
  <2> DEFINE S == {o \in Objects : Frame[o] \notin Seq(Nat)}
  <2> SUFFICES ASSUME S # {} PROVE FALSE
    OBVIOUS
  <2>1. PICK o \in S : Inside(o) \cap S = {}
    <3>1. S \in SUBSET Objects
      OBVIOUS
    <3> HIDE DEF S
    <3> QED BY <3>1, Innermost
  <2>2. \A p \in Inside(o) : Frame[p] \in Seq(Nat)
    BY <2>1, InsideIsObjects
  <2>3. [i \in DOMAIN o.parts |-> Frame[o.parts[i].value]] \in [DOMAIN o.parts -> Seq(Nat)]
    BY <2>2 DEF Inside
  <2>4. FramedWith(Frame, o) \in Seq(Nat)
    BY <2>3, FrameOfType DEF FramedWith
  <2> QED BY <1>5, <2>4
<1>7. Frame = [o \in Objects |-> Frame[o]]
  BY <1>4
<1> QED BY <1>5, <1>6, <1>7

\* The three bytes every frame begins with; the Empty type has no others.
LEMMA FrameHead ==
  ASSUME NEW o \in Objects
  PROVE  /\ Frame[o] \in Seq(Nat)
         /\ Len(Frame[o]) \in Nat /\ Len(Frame[o]) >= 3
         /\ Frame[o][1] = Len(Frame[o]) - 1
         /\ Frame[o][2] = 1
         /\ Frame[o][3] = TypeId[o.type]
         /\ o.type = "Empty" => Len(Frame[o]) = 3
<1> DEFINE parts == [i \in DOMAIN o.parts |-> Frame[o.parts[i].value]]
           id == StringBytes(<<TypeId[o.type]>>)
<1>1. parts \in [DOMAIN o.parts -> Seq(Nat)]
  BY FrameEquation, InsideIsObjects DEF Inside
<1>2. PICK payload \in Seq(Nat) :
        /\ o.type = "Empty" => payload = <<>>
        /\ FrameOf(o, parts) = StringBytes(id \o payload)
  <2> HIDE DEF parts
  <2> QED BY <1>1, FrameOfForm
<1>3. Frame[o] = StringBytes(id \o payload) /\ Frame[o] \in Seq(Nat)
  BY <1>2, FrameEquation DEF FramedWith
<1>4. TypeId[o.type] \in Nat
  BY InsideIsObjects DEF TypeId
<1>5. <<TypeId[o.type]>> \in Seq(Nat) /\ Len(<<TypeId[o.type]>>) = 1
  BY <1>4
<1>6. id = <<1>> \o <<TypeId[o.type]>>
  BY <1>5 DEF StringBytes
<1>7. id \in Seq(Nat) /\ Len(id) = 2 /\ id[1] = 1 /\ id[2] = TypeId[o.type]
  <2>1. <<1>> \in Seq(Nat) /\ Len(<<1>>) = 1 /\ <<1>>[1] = 1
    OBVIOUS
  <2>2. /\ id \in Seq(Nat) /\ Len(id) = 2
        /\ \A i \in 1 .. 2 : id[i] = IF i <= 1 THEN <<1>>[i] ELSE <<TypeId[o.type]>>[i - 1]
    <3> HIDE DEF id
    <3> QED BY <1>5, <1>6, <2>1, ConcatProperties
  <2> HIDE DEF id
  <2> QED BY <1>5, <2>1, <2>2
<1> HIDE DEF id
<1> DEFINE s == id \o payload
<1>8. s \in Seq(Nat) /\ Len(s) = 2 + Len(payload) /\ Len(payload) \in Nat
        /\ s[1] = 1 /\ s[2] = TypeId[o.type]
  <2>1. Len(payload) \in Nat
    OBVIOUS
  <2>2. /\ s \in Seq(Nat) /\ Len(s) = 2 + Len(payload)
        /\ \A i \in 1 .. 2 + Len(payload) :
             s[i] = IF i <= 2 THEN id[i] ELSE payload[i - 2]
    <3>1. /\ s \in Seq(Nat) /\ Len(s) = Len(id) + Len(payload)
          /\ \A i \in 1 .. Len(id) + Len(payload) :
               s[i] = IF i <= Len(id) THEN id[i] ELSE payload[i - Len(id)]
      BY <1>7, ConcatProperties
    <3> HIDE DEF s
    <3> QED BY <1>7, <3>1
  <2> HIDE DEF s
  <2> QED BY <1>7, <2>1, <2>2
<1> HIDE DEF s
<1>9. Frame[o] = <<Len(s)>> \o s
  BY <1>3 DEF StringBytes, s
<1>10. <<Len(s)>> \in Seq(Nat) /\ Len(<<Len(s)>>) = 1 /\ <<Len(s)>>[1] = Len(s)
  BY <1>8
<1>11. /\ Len(Frame[o]) = 1 + Len(s)
       /\ \A i \in 1 .. 1 + Len(s) :
            Frame[o][i] = IF i <= 1 THEN <<Len(s)>>[i] ELSE s[i - 1]
  BY <1>8, <1>9, <1>10, ConcatProperties
<1>12. 1 \in 1 .. 1 + Len(s) /\ 2 \in 1 .. 1 + Len(s) /\ 3 \in 1 .. 1 + Len(s)
  BY <1>8
<1>13. o.type = "Empty" => Len(payload) = 0
  BY <1>2
<1> QED BY <1>3, <1>8, <1>10, <1>11, <1>12, <1>13, SMTT(20)

-------------------------------------------------------------------------------
(* The inductive invariants *)

\* A sequence of anything.
IsSeq(s) == s \in Seq({s[i] : i \in DOMAIN s})

FrameRecord == [object : Objects, start : Nat, end : Nat]

\* Where the k-th frame ends; the first begins where the "0-th" ends.
EndOf(k) == IF k = 0 THEN 0 ELSE frames[k].end

\* The frames lie one behind the other in the file.
StoreOK ==
  /\ file \in Seq(Nat)
  /\ frames \in Seq(FrameRecord)
  /\ \A k \in DOMAIN frames :
       /\ frames[k].start = EndOf(k - 1)
       /\ frames[k].start + 3 <= frames[k].end
       /\ frames[k].end <= Len(file)
       /\ \A j \in 1 .. k - 1 : frames[j].end <= frames[k].start

\* The writer is behind the last of them, or behind the length it wrote there.
WriterOK ==
  /\ wState \in {"idle", "length", "data", "failed"}
  /\ wPosition \in 0 .. Len(file)
  /\ startingPosition \in 0 .. wPosition
  /\ wState \in {"idle", "failed"} => wPosition = EndOf(Len(frames))
  /\ wState = "length" =>
       /\ pending \in Objects
       /\ wPosition = EndOf(Len(frames)) /\ startingPosition = wPosition
  /\ wState = "data" =>
       /\ pending \in Objects
       /\ startingPosition = EndOf(Len(frames)) /\ wPosition = startingPosition + 1
       /\ mode = "writing" => file[wPosition] = Len(Frame[pending]) - 1

CallOK(c) ==
  /\ c = [phase |-> c.phase, end |-> c.end, type |-> c.type, left |-> c.left,
          key |-> c.key, bytes |-> c.bytes, parts |-> c.parts]
  /\ c.phase \in {"length", "typeId", "payload", "parts", "verify", "failed"}
  /\ c.end \in Nat
  /\ c.type \in KnownTypes
  /\ c.left \in Nat

Waits(c) == c.phase = "parts" /\ c.left > 0

ReaderOK ==
  /\ position \in Nat
  /\ IsSeq(calls)
  /\ \A i \in DOMAIN calls : CallOK(calls[i]) /\ (i < Len(calls) => Waits(calls[i]))
  /\ IsSeq(received)
  /\ mode # "reading" => position = 0 /\ calls = <<>> /\ received = <<>>

SInv ==
  /\ mode \in {"writing", "closed", "reading"}
  /\ damaged \subseteq DOMAIN frames
  /\ StoreOK
  /\ WriterOK
  /\ ReaderOK

\* Damage has left the lengths of the frames alone, and made none of them Empty.
HeadsOK ==
  \A k \in DOMAIN frames :
    /\ file[frames[k].start + 1] = frames[k].end - frames[k].start - 1
    /\ file[frames[k].start + 2] = 1
    /\ file[frames[k].start + 3] = TypeId["Empty"] => frames[k].end = frames[k].start + 3

\* What an outermost call knows of the frame it reads, with the reader at p.
Outermost(p, c, f) ==
  /\ c.phase = "length" => p = f.start
  /\ c.phase = "typeId" => p = f.start + 1 /\ c.end = f.end
  /\ c.phase \notin {"length", "typeId"} => c.end = f.end

InStep ==
  /\ calls = <<>> /\ Len(received) <= Len(frames) => position = EndOf(Len(received))
  /\ calls # <<>> /\ Len(received) < Len(frames)
       => Outermost(position, calls[1], frames[Len(received) + 1])

-------------------------------------------------------------------------------
(* Lemmas about sequences of anything *)

LEMMA SeqIsSeq ==
  ASSUME NEW S, NEW s \in Seq(S)
  PROVE  IsSeq(s)
BY SeqOfRange DEF IsSeq, Range

LEMMA FunctionIsSeq ==
  ASSUME NEW S, NEW n \in Nat, NEW f \in [1 .. n -> S]
  PROVE  f \in Seq(S) /\ Len(f) = n
OBVIOUS

LEMMA SeqFacts ==
  ASSUME NEW s, IsSeq(s)
  PROVE  Len(s) \in Nat /\ DOMAIN s = 1 .. Len(s) /\ (s = <<>> <=> Len(s) = 0)
<1> DEFINE S == {s[i] : i \in DOMAIN s}
<1>1. s \in Seq(S)
  BY DEF IsSeq
<1> HIDE DEF S
<1> QED BY <1>1

LEMMA EmptyIsSeq == IsSeq(<<>>) /\ Len(<<>>) = 0 /\ DOMAIN <<>> = {}
<1>1. <<>> \in Seq(Nat)
  OBVIOUS
<1>2. IsSeq(<<>>)
  BY <1>1, SeqIsSeq
<1> QED BY <1>2

LEMMA AppendIsSeq ==
  ASSUME NEW s, IsSeq(s), NEW e
  PROVE  /\ IsSeq(Append(s, e))
         /\ Len(Append(s, e)) = Len(s) + 1
         /\ \A i \in 1 .. Len(s) : Append(s, e)[i] = s[i]
         /\ Append(s, e)[Len(s) + 1] = e
<1> DEFINE S == {s[i] : i \in DOMAIN s}
           T == S \cup {e}
<1>1. s \in Seq(S) /\ S \subseteq T /\ e \in T
  BY DEF IsSeq
<1> HIDE DEF S, T
<1>2. s \in Seq(T)
  BY <1>1, SeqMonotonic
<1>3. Append(s, e) \in Seq(T)
  BY <1>1, <1>2, AppendProperties
<1>4. IsSeq(Append(s, e))
  BY <1>3, SeqIsSeq
<1> QED BY <1>1, <1>2, <1>4, AppendProperties

Put(s, i, e) == [s EXCEPT ![i] = e]

LEMMA PutIsSeq ==
  ASSUME NEW s, IsSeq(s), NEW i \in 1 .. Len(s), NEW e
  PROVE  /\ IsSeq(Put(s, i, e))
         /\ Len(Put(s, i, e)) = Len(s)
         /\ \A j \in 1 .. Len(s) : Put(s, i, e)[j] = IF j = i THEN e ELSE s[j]
<1> USE DEF Put
<1> DEFINE S == {s[j] : j \in DOMAIN s}
           T == S \cup {e}
<1>1. s \in Seq(S) /\ S \subseteq T /\ e \in T
  BY DEF IsSeq
<1> HIDE DEF S, T
<1>2. s \in Seq(T)
  BY <1>1, SeqMonotonic
<1>3. [s EXCEPT ![i] = e] \in Seq(T)
  BY <1>1, <1>2, ExceptSeq
<1>4. IsSeq([s EXCEPT ![i] = e])
  BY <1>3, SeqIsSeq
<1> QED BY <1>1, <1>2, <1>4, ExceptSeq

LEMMA FrontIsSeq ==
  ASSUME NEW s, IsSeq(s), s # <<>>
  PROVE  /\ IsSeq(Front(s))
         /\ Len(Front(s)) = Len(s) - 1
         /\ \A i \in 1 .. Len(s) - 1 : Front(s)[i] = s[i]
<1> DEFINE S == {s[i] : i \in DOMAIN s}
<1>1. s \in Seq(S)
  BY DEF IsSeq
<1>2. Len(s) \in Nat \ {0} /\ DOMAIN s = 1 .. Len(s)
  BY SeqFacts
<1>3. \A i \in 1 .. Len(s) - 1 : s[i] \in S
  BY <1>2
<1> HIDE DEF S
<1>4. /\ SubSeq(s, 1, Len(s) - 1) \in Seq(S)
      /\ Len(SubSeq(s, 1, Len(s) - 1)) = IF 1 <= Len(s) - 1 THEN Len(s) - 1 - 1 + 1 ELSE 0
      /\ \A i \in 1 .. Len(s) - 1 - 1 + 1 : SubSeq(s, 1, Len(s) - 1)[i] = s[1 + i - 1]
  BY <1>2, <1>3, SubSeqProperties
<1>5. IsSeq(SubSeq(s, 1, Len(s) - 1))
  BY <1>4, SeqIsSeq
<1> DEFINE t == SubSeq(s, 1, Len(s) - 1)
<1>6. Front(s) = t
  BY DEF Front
<1>7. Len(t) = Len(s) - 1
  <2> HIDE DEF t
  <2> QED BY <1>2, <1>4 DEF t
<1>8. ASSUME NEW i \in 1 .. Len(s) - 1 PROVE t[i] = s[i]
  <2>1. i \in 1 .. Len(s) - 1 - 1 + 1 /\ 1 + i - 1 = i
    BY <1>2
  <2> QED BY <1>4, <2>1
<1> HIDE DEF t
<1> QED BY <1>5, <1>6, <1>7, <1>8 DEF t

\* The file f after n bytes of s were written at w.
Overwrite(f, w, s, n) ==
  [i \in 1 .. Len(f) \cup 1 .. (w + n) |->
     IF i \in w + 1 .. w + n THEN s[i - w] ELSE f[i]]

LEMMA Overwritten ==
  ASSUME NEW f \in Seq(Nat), NEW w \in 0 .. Len(f), NEW s \in Seq(Nat),
         NEW n \in 0 .. Len(s)
  PROVE  LET g == Overwrite(f, w, s, n) IN
         /\ g \in Seq(Nat)
         /\ Len(g) \in Nat /\ Len(g) >= Len(f) /\ Len(g) >= w + n
         /\ \A i \in 1 .. w : g[i] = f[i]
         /\ \A i \in 1 .. n : g[w + i] = s[i]
<1>1. Len(f) \in Nat /\ Len(s) \in Nat /\ w \in Nat /\ n \in Nat
  OBVIOUS
<1> USE DEF Overwrite
<1> DEFINE g == Overwrite(f, w, s, n)
           m == IF Len(f) < w + n THEN w + n ELSE Len(f)
<1>2. m \in Nat /\ m >= Len(f) /\ m >= w + n
  BY <1>1
<1>3. 1 .. Len(f) \cup 1 .. (w + n) = 1 .. m
  BY <1>1
<1>4. \A i \in 1 .. m : i \notin w + 1 .. w + n => i \in 1 .. Len(f)
  BY <1>1
<1>5. \A i \in w + 1 .. w + n : i - w \in 1 .. Len(s) /\ s[i - w] \in Nat
  <2>1. \A j \in 1 .. Len(s) : s[j] \in Nat
    OBVIOUS
  <2>2. \A i \in w + 1 .. w + n : i - w \in 1 .. Len(s)
    BY <1>1
  <2> QED BY <2>1, <2>2
<1>6. \A i \in 1 .. Len(f) : f[i] \in Nat
  OBVIOUS
<1> HIDE DEF m
<1>7. g \in [1 .. m -> Nat]
  BY <1>3, <1>4, <1>5, <1>6
<1>8. g \in Seq(Nat) /\ Len(g) = m
  BY <1>2, <1>7, FunctionIsSeq
<1>9. \A i \in 1 .. w : g[i] = f[i]
  BY <1>1, <1>2, <1>3
<1>10. \A i \in 1 .. n : g[w + i] = s[i]
  <2> SUFFICES ASSUME NEW i \in 1 .. n PROVE g[w + i] = s[i]
    OBVIOUS
  <2>1. w + i \in w + 1 .. w + n /\ w + i \in 1 .. m /\ (w + i) - w = i
    BY <1>1, <1>2
  <2> QED BY <1>3, <2>1
<1> HIDE DEF g
<1> QED BY <1>2, <1>8, <1>9, <1>10 DEF g

-------------------------------------------------------------------------------
(* The writer *)

LEMMA InitSInv == Init => SInv /\ HeadsOK /\ InStep
<1> SUFFICES ASSUME Init PROVE SInv /\ HeadsOK /\ InStep
  OBVIOUS
<1>1. <<>> \in Seq(Nat) /\ <<>> \in Seq(FrameRecord) /\ IsSeq(<<>>)
        /\ Len(<<>>) = 0 /\ DOMAIN <<>> = {}
  <2>1. <<>> \in Seq(Nat) /\ <<>> \in Seq(FrameRecord)
    OBVIOUS
  <2>2. IsSeq(<<>>)
    BY <2>1, SeqIsSeq
  <2> QED BY <2>1, <2>2
<1>2. StoreOK /\ HeadsOK
  BY <1>1 DEF Init, StoreOK, HeadsOK
<1>3. WriterOK
  BY <1>1 DEF Init, WriterOK, EndOf
<1>4. ReaderOK
  BY <1>1 DEF Init, ReaderInit, ReaderOK
<1>5. InStep
  BY <1>1 DEF Init, ReaderInit, InStep, EndOf
<1> QED BY <1>1, <1>2, <1>3, <1>4, <1>5 DEF SInv, Init

\* The last frame ends where the next one will begin.
LEMMA EndFacts ==
  ASSUME StoreOK
  PROVE  /\ Len(frames) \in Nat /\ DOMAIN frames = 1 .. Len(frames)
         /\ \A k \in DOMAIN frames : frames[k] \in FrameRecord
         /\ \A k \in 0 .. Len(frames) : EndOf(k) \in Nat /\ EndOf(k) <= Len(file)
         /\ \A j \in DOMAIN frames : frames[j].end <= EndOf(Len(frames))
         /\ Len(file) \in Nat
<1> DEFINE R == FrameRecord
<1>1. frames \in Seq(R) /\ file \in Seq(Nat)
  BY DEF StoreOK
<1> HIDE DEF R
<1>2. Len(frames) \in Nat /\ DOMAIN frames = 1 .. Len(frames)
        /\ \A k \in DOMAIN frames : frames[k] \in R
  BY <1>1
<1>3. Len(file) \in Nat
  BY <1>1
<1>4. \A k \in DOMAIN frames : frames[k].end \in Nat /\ frames[k].start \in Nat
  BY <1>2 DEF R, FrameRecord
<1>5. \A k \in 0 .. Len(frames) : EndOf(k) \in Nat /\ EndOf(k) <= Len(file)
  BY <1>2, <1>3, <1>4 DEF EndOf, StoreOK
<1>6. ASSUME NEW j \in DOMAIN frames
      PROVE  frames[j].end <= EndOf(Len(frames))
  <2> DEFINE n == Len(frames)
  <2>1. n \in 1 .. n /\ n # 0
    BY <1>2
  <2>2. CASE j = n
    BY <1>4, <2>1, <2>2 DEF EndOf
  <2>3. CASE j # n
    <3>1. j \in 1 .. n - 1
      BY <1>2, <2>3
    <3>2. frames[j].end <= frames[n].start /\ frames[n].start + 3 <= frames[n].end
      BY <1>2, <2>1, <3>1 DEF StoreOK
    <3>3. frames[j].end \in Nat /\ frames[n].start \in Nat /\ frames[n].end \in Nat
      BY <1>2, <1>4, <2>1
    <3> QED BY <2>1, <3>2, <3>3 DEF EndOf
  <2> QED BY <2>2, <2>3
<1> QED BY <1>2, <1>3, <1>5, <1>6 DEF R

\* A file written to behind the frames only holds them as before.
LEMMA BehindFrames ==
  ASSUME StoreOK, UNCHANGED frames, file' \in Seq(Nat), Len(file') >= Len(file),
         \A i \in 1 .. EndOf(Len(frames)) : file'[i] = file[i]
  PROVE  StoreOK' /\ (HeadsOK => HeadsOK')
<1>1. /\ Len(frames) \in Nat /\ DOMAIN frames = 1 .. Len(frames)
      /\ \A j \in DOMAIN frames : frames[j].end <= EndOf(Len(frames))
      /\ Len(file) \in Nat /\ Len(file') \in Nat
      /\ \A k \in 0 .. Len(frames) : EndOf(k) \in Nat
  BY EndFacts
<1>2. \A k : EndOf(k)' = EndOf(k)
  BY DEF EndOf
<1>3. \A k \in DOMAIN frames : frames[k].end \in Nat /\ frames[k].start \in Nat
  BY EndFacts DEF FrameRecord
<1>4. StoreOK'
  <2>1. \A k \in DOMAIN frames : frames[k].end <= Len(file')
    BY <1>1, <1>3 DEF StoreOK
  <2> QED BY <1>2, <2>1 DEF StoreOK
<1>5. ASSUME HeadsOK PROVE HeadsOK'
  <2> SUFFICES ASSUME NEW k \in DOMAIN frames
               PROVE  /\ file'[frames[k].start + 1] = file[frames[k].start + 1]
                      /\ file'[frames[k].start + 2] = file[frames[k].start + 2]
                      /\ file'[frames[k].start + 3] = file[frames[k].start + 3]
    BY <1>5 DEF HeadsOK
  <2>0. EndOf(Len(frames)) \in Nat
    BY EndFacts
  <2>1. frames[k].start + 3 <= EndOf(Len(frames))
    <3>1. frames[k].start + 3 <= frames[k].end /\ frames[k].end <= EndOf(Len(frames))
      BY <1>1 DEF StoreOK
    <3> QED BY <1>3, <2>0, <3>1
  <2>2. \A i \in 1 .. 3 : frames[k].start + i \in 1 .. EndOf(Len(frames))
    BY <1>3, <2>0, <2>1, SMTT(20)
  <2> QED BY <2>2, SMTT(20)
<1> QED BY <1>4, <1>5

\* A writer's step that leaves the frames and the reader alone.
LEMMA WriterLeavesReader ==
  ASSUME SInv, InStep, UNCHANGED <<readerVars, mode, frames, damaged>>
  PROVE  /\ ReaderOK' /\ InStep'
         /\ mode' \in {"writing", "closed", "reading"} /\ damaged' \subseteq (DOMAIN frames)'
<1>1. ReaderOK'
  BY DEF SInv, ReaderOK, readerVars
<1>2. \A k : EndOf(k)' = EndOf(k)
  BY DEF EndOf
<1>3. InStep'
  BY <1>2 DEF InStep, readerVars, Outermost
<1> QED BY <1>1, <1>3 DEF SInv

LEMMA SerializeKeeps ==
  ASSUME SInv, InStep, NEW o \in Written, Serialize(o)
  PROVE  SInv' /\ InStep' /\ (HeadsOK => HeadsOK')
<1>1. o \in Objects
  BY WrittenAssumption DEF WrittenAssumption
<1>2. \A k : EndOf(k)' = EndOf(k)
  BY DEF EndOf, Serialize
<1>3. WriterOK'
  BY <1>1, <1>2 DEF SInv, WriterOK, Serialize
<1>4. StoreOK' /\ (HeadsOK => HeadsOK')
  BY <1>2 DEF SInv, StoreOK, HeadsOK, Serialize
<1> QED BY <1>3, <1>4, WriterLeavesReader DEF SInv, Serialize

\* A Write that fails puts the position back, whatever it left behind.
LEMMA WriteFailsKeeps ==
  ASSUME SInv, InStep, wState \in {"length", "data"}, WriteFails,
         file' \in Seq(Nat), Len(file') >= Len(file),
         \A i \in 1 .. wPosition : file'[i] = file[i],
         UNCHANGED <<pending, startingPosition, frames, torn, mode, damaged, readerVars>>
  PROVE  SInv' /\ InStep' /\ (HeadsOK => HeadsOK')
<1>1. StoreOK /\ Len(frames) \in Nat /\ EndOf(Len(frames)) \in Nat /\ Len(file) \in Nat
        /\ Len(file') \in Nat
  BY EndFacts DEF SInv
<1>2. startingPosition = EndOf(Len(frames)) /\ startingPosition <= wPosition
        /\ wPosition \in Nat /\ wPosition <= Len(file)
  BY <1>1 DEF SInv, WriterOK
<1>3. \A i \in 1 .. EndOf(Len(frames)) : file'[i] = file[i]
  BY <1>1, <1>2
<1>4. StoreOK' /\ (HeadsOK => HeadsOK')
  BY <1>1, <1>3, BehindFrames
<1>5. EndOf(Len(frames))' = EndOf(Len(frames))
  BY DEF EndOf
<1>6. WriterOK'
  BY <1>1, <1>2, <1>5 DEF WriterOK, WriteFails
<1> QED BY <1>4, <1>6, WriterLeavesReader DEF SInv

LEMMA WriteLengthKeeps ==
  ASSUME SInv, InStep, WriteLength
  PROVE  SInv' /\ InStep' /\ (HeadsOK => HeadsOK')
<1>1. /\ StoreOK /\ Len(frames) \in Nat /\ EndOf(Len(frames)) \in Nat
      /\ file \in Seq(Nat) /\ Len(file) \in Nat
  BY EndFacts DEF SInv, StoreOK
<1>2. wState = "length" /\ pending \in Objects /\ wPosition = EndOf(Len(frames))
        /\ startingPosition = wPosition /\ wPosition \in 0 .. Len(file) /\ mode = "writing"
  BY DEF SInv, WriterOK, WriteLength
<1>3. CASE WriteFails /\ UNCHANGED file
  BY <1>1, <1>2, <1>3, WriteFailsKeeps DEF WriteLength
<1>4. CASE /\ Write(SubSeq(Frame[pending], 1, 1))
           /\ wState' = "data"
           /\ UNCHANGED failures
  <2> DEFINE s == SubSeq(Frame[pending], 1, 1)
  <2>1. s \in Seq(Nat) /\ Len(s) = 1 /\ s[1] = Len(Frame[pending]) - 1
    <3>1. Frame[pending] \in Seq(Nat) /\ Frame[pending][1] \in Nat
            /\ Frame[pending][1] = Len(Frame[pending]) - 1
      BY <1>2, FrameHead, SMTT(20)
    <3>2. \A i \in 1 .. 1 : Frame[pending][i] \in Nat
      BY <3>1
    <3>3. /\ s \in Seq(Nat) /\ Len(s) = IF 1 <= 1 THEN 1 - 1 + 1 ELSE 0
          /\ \A i \in 1 .. 1 - 1 + 1 : s[i] = Frame[pending][1 + i - 1]
      BY <3>2, SubSeqProperties
    <3> HIDE DEF s
    <3>4. 1 \in 1 .. 1 - 1 + 1 /\ 1 + 1 - 1 = 1
      OBVIOUS
    <3> QED BY <3>1, <3>3, <3>4
  <2>2. file' = Overwrite(file, wPosition, s, 1) /\ wPosition' = wPosition + 1
    BY <1>4, <2>1 DEF Write, Overwrite
  <2> HIDE DEF s
  <2>3. 1 \in 0 .. Len(s)
    BY <2>1
  <2>4. /\ file' \in Seq(Nat) /\ Len(file') \in Nat /\ Len(file') >= Len(file)
        /\ Len(file') >= wPosition + 1
        /\ \A i \in 1 .. wPosition : file'[i] = file[i]
        /\ \A i \in 1 .. 1 : file'[wPosition + i] = s[i]
    <3> DEFINE g == Overwrite(file, wPosition, s, 1)
    <3>1. /\ g \in Seq(Nat) /\ Len(g) \in Nat /\ Len(g) >= Len(file)
          /\ Len(g) >= wPosition + 1
          /\ \A i \in 1 .. wPosition : g[i] = file[i]
          /\ \A i \in 1 .. 1 : g[wPosition + i] = s[i]
      BY ONLY <1>1, <1>2, <2>1, <2>3, Overwritten, ZenonT(30)
    <3>2. file' = g
      BY <2>2
    <3> HIDE DEF g
    <3> QED BY <3>1, <3>2
  <2>5. StoreOK' /\ (HeadsOK => HeadsOK')
    BY <1>1, <1>2, <2>4, BehindFrames DEF WriteLength
  <2>6. EndOf(Len(frames))' = EndOf(Len(frames))
    BY DEF EndOf, WriteLength
  <2>7. file'[wPosition + 1] = Len(Frame[pending]) - 1
    BY <2>1, <2>4
  <2>8. WriterOK'
    BY <1>1, <1>2, <1>4, <2>2, <2>4, <2>6, <2>7 DEF WriterOK, WriteLength
  <2> QED BY <2>5, <2>8, WriterLeavesReader DEF SInv, WriteLength
<1> QED BY <1>3, <1>4 DEF WriteLength

LEMMA WriteDataShortKeeps ==
  ASSUME SInv, InStep, WriteDataShort
  PROVE  SInv' /\ InStep' /\ (HeadsOK => HeadsOK')
<1>1. /\ StoreOK /\ file \in Seq(Nat) /\ Len(file) \in Nat /\ wPosition \in 0 .. Len(file)
      /\ wState = "data" /\ pending \in Objects
  BY EndFacts DEF SInv, StoreOK, WriterOK, WriteDataShort
<1>2. PICK n \in ShortWrites \cap 0 .. Len(Frame[pending]) - 2 :
        file' = [i \in 1 .. Len(file) \cup 1 .. (wPosition + n) |->
                   IF i \in wPosition + 1 .. wPosition + n
                   THEN Frame[pending][i - wPosition + 1] ELSE file[i]]
  BY DEF WriteDataShort
<1> DEFINE s == Tail(Frame[pending])
<1>3. Frame[pending] \in Seq(Nat) /\ Frame[pending] # <<>> /\ Len(Frame[pending]) \in Nat
        /\ Len(Frame[pending]) >= 3
  BY <1>1, FrameHead
<1>4. s \in Seq(Nat) /\ Len(s) = Len(Frame[pending]) - 1
        /\ \A i \in 1 .. Len(s) : s[i] = Frame[pending][i + 1]
  BY <1>3, HeadTailProperties
<1> HIDE DEF s
<1>5. n \in 0 .. Len(s) /\ n \in Nat
  BY <1>3, <1>4
<1>6. \A i \in wPosition + 1 .. wPosition + n :
        Frame[pending][i - wPosition + 1] = s[i - wPosition]
  BY <1>1, <1>4, <1>5
<1>7. file' = Overwrite(file, wPosition, s, n)
  BY <1>2, <1>6 DEF Overwrite
<1>8. /\ file' \in Seq(Nat) /\ Len(file') >= Len(file)
      /\ \A i \in 1 .. wPosition : file'[i] = file[i]
  BY <1>1, <1>4, <1>5, <1>7, Overwritten
<1> QED BY <1>1, <1>8, WriteFailsKeeps DEF WriteDataShort

\* The object is complete: its frame joins the others.
LEMMA WriteDataKeeps ==
  ASSUME SInv, InStep, WriteData
  PROVE  SInv' /\ InStep' /\ (HeadsOK => HeadsOK')
<1> DEFINE s == Tail(Frame[pending])
           n == Len(frames)
           f == [object |-> pending, start |-> startingPosition, end |-> wPosition']
<1>1. /\ StoreOK /\ n \in Nat /\ EndOf(n) \in Nat /\ DOMAIN frames = 1 .. n
      /\ file \in Seq(Nat) /\ Len(file) \in Nat /\ frames \in Seq(FrameRecord)
      /\ \A k \in DOMAIN frames : frames[k] \in FrameRecord
      /\ \A j \in DOMAIN frames : frames[j].end <= EndOf(n)
  BY EndFacts DEF SInv, StoreOK
<1>2. /\ wState = "data" /\ pending \in Objects /\ mode = "writing"
      /\ startingPosition = EndOf(n) /\ wPosition = startingPosition + 1
      /\ wPosition \in 0 .. Len(file)
      /\ file[wPosition] = Len(Frame[pending]) - 1
  BY DEF SInv, WriterOK, WriteData
<1>3. /\ Frame[pending] \in Seq(Nat) /\ Len(Frame[pending]) \in Nat /\ Len(Frame[pending]) >= 3
      /\ Frame[pending][2] = 1 /\ Frame[pending][3] = TypeId[pending.type]
      /\ pending.type = "Empty" => Len(Frame[pending]) = 3
      /\ Frame[pending] # <<>>
  BY <1>2, FrameHead
<1>4. /\ s \in Seq(Nat) /\ Len(s) = Len(Frame[pending]) - 1 /\ Len(s) \in Nat
      /\ \A i \in 1 .. Len(s) : s[i] = Frame[pending][i + 1]
  BY <1>3, HeadTailProperties
<1>5. /\ file' = Overwrite(file, wPosition, s, Len(s))
      /\ wPosition' = wPosition + Len(s)
      /\ frames' = Append(frames, f)
      /\ wState' = "idle"
  BY DEF WriteData, Write, Overwrite
<1> HIDE DEF s
<1>6. /\ file' \in Seq(Nat) /\ Len(file') \in Nat /\ Len(file') >= Len(file)
      /\ Len(file') >= wPosition + Len(s)
      /\ \A i \in 1 .. wPosition : file'[i] = file[i]
      /\ \A i \in 1 .. Len(s) : file'[wPosition + i] = s[i]
  <2>1. Len(s) \in 0 .. Len(s)
    BY <1>4
  <2> DEFINE g == Overwrite(file, wPosition, s, Len(s))
  <2>2. /\ g \in Seq(Nat) /\ Len(g) \in Nat /\ Len(g) >= Len(file)
        /\ Len(g) >= wPosition + Len(s)
        /\ \A i \in 1 .. wPosition : g[i] = file[i]
        /\ \A i \in 1 .. Len(s) : g[wPosition + i] = s[i]
    BY ONLY <1>1, <1>2, <1>4, <2>1, Overwritten, ZenonT(30)
  <2>3. file' = g
    BY <1>5
  <2> HIDE DEF g
  <2> QED BY <2>2, <2>3
<1>7. f \in FrameRecord /\ f.start = EndOf(n) /\ f.start + 3 <= f.end /\ f.end <= Len(file')
        /\ f.end = f.start + 1 + Len(s)
  <2>1. startingPosition \in Nat /\ wPosition \in Nat
    BY <1>1, <1>2
  <2>2. wPosition' = wPosition + Len(s) /\ wPosition = startingPosition + 1
          /\ Len(s) \in Nat /\ Len(s) >= 2
    BY <1>2, <1>3, <1>4, <1>5
  <2>3. wPosition' \in Nat /\ wPosition' = startingPosition + 1 + Len(s)
    BY <2>1, <2>2
  <2>4. f \in FrameRecord
    BY <1>2, <2>1, <2>3 DEF FrameRecord
  <2>5. startingPosition + 3 <= wPosition'
    BY <2>1, <2>2, <2>3
  <2> QED BY <1>2, <1>6, <2>2, <2>3, <2>4, <2>5
<1>8. /\ file'[f.start + 1] = f.end - f.start - 1
      /\ file'[f.start + 2] = 1
      /\ file'[f.start + 3] = TypeId["Empty"] => f.end = f.start + 3
  <2> HIDE DEF f
  <2>0. startingPosition \in Nat /\ wPosition \in Nat /\ wPosition \in 1 .. wPosition
    BY <1>1, <1>2
  <2>1. file'[wPosition] = Len(s)
    <3>1. file'[wPosition] = file[wPosition]
      BY <1>6, <2>0
    <3> QED BY <1>2, <1>4, <3>1
  <2>2. 1 \in 1 .. Len(s) /\ 2 \in 1 .. Len(s)
    BY <1>3, <1>4
  <2>3. file'[wPosition + 1] = 1 /\ file'[wPosition + 2] = TypeId[pending.type]
    <3>1. file'[wPosition + 1] = s[1] /\ file'[wPosition + 2] = s[2]
      BY <1>6, <2>2
    <3>2. s[1] = Frame[pending][1 + 1] /\ s[2] = Frame[pending][2 + 1]
      BY <1>4, <2>2
    <3>3. s[1] = Frame[pending][2] /\ s[2] = Frame[pending][3]
      BY <3>2
    <3> QED BY <1>3, <3>1, <3>3
  <2>4. TypeId[pending.type] = TypeId["Empty"] => pending.type = "Empty"
    BY <1>2, InsideIsObjects DEF TypeId
  <2>5. f.start = startingPosition /\ f.end = f.start + 1 + Len(s)
          /\ wPosition = startingPosition + 1 /\ f.end \in Nat /\ Len(s) \in Nat
    BY <1>2, <1>4, <1>7 DEF FrameRecord
  <2>6. f.start + 1 = wPosition /\ f.start + 2 = wPosition + 1 /\ f.start + 3 = wPosition + 2
          /\ f.end - f.start - 1 = Len(s)
    BY ONLY <2>0, <2>5
  <2>7. pending.type = "Empty" => f.end = f.start + 3
    <3>1. pending.type = "Empty" => Len(s) = 2
      BY <1>3, <1>4
    <3>2. Len(s) = 2 => f.start + 1 + Len(s) = f.start + 3
      BY ONLY <2>0, <2>5
    <3> QED BY ONLY <2>5, <3>1, <3>2
  <2> QED BY <2>1, <2>3, <2>4, <2>6, <2>7
<1> HIDE DEF f
<1>9. /\ frames' \in Seq(FrameRecord) /\ Len(frames') = n + 1 /\ DOMAIN frames' = 1 .. n + 1
      /\ \A i \in 1 .. n : frames'[i] = frames[i]
      /\ frames'[n + 1] = f
  <2> DEFINE R == FrameRecord
  <2>1. frames \in Seq(R) /\ f \in R
    BY <1>1, <1>7
  <2> HIDE DEF R
  <2>2. frames' \in Seq(R) /\ Len(frames') = n + 1
    BY <1>1, <1>5, <2>1, AppendProperties
  <2>3. DOMAIN frames' = 1 .. n + 1
    BY <2>2
  <2>4. (\A i \in 1 .. n : frames'[i] = frames[i]) /\ frames'[n + 1] = f
    BY <1>1, <1>5, <2>1, AppendProperties
  <2> QED BY <2>2, <2>3, <2>4 DEF R
<1>10. (\A k \in 0 .. n : EndOf(k)' = EndOf(k)) 
          /\ \A k : k = n + 1 => EndOf(k)' = f.end
  <2>1. ASSUME NEW k \in 0 .. n PROVE EndOf(k)' = EndOf(k)
    <3>1. k # 0 => k \in 1 .. n
      BY <1>1
    <3> QED BY <1>9, <3>1 DEF EndOf
  <2>2. n + 1 # 0
    BY <1>1
  <2>3. \A k : k = n + 1 => EndOf(k)' = frames'[k].end
    BY <2>2 DEF EndOf
  <2> QED BY <1>9, <2>1, <2>3
<1>11. \A k \in DOMAIN frames : frames[k].end \in Nat /\ frames[k].start \in Nat
         /\ frames[k].start + 3 <= frames[k].end
  BY <1>1 DEF FrameRecord, StoreOK
<1>12. StoreOK'
  <2>1. ASSUME NEW k \in 1 .. n + 1
        PROVE  /\ frames'[k].start = EndOf(k - 1)'
               /\ frames'[k].start + 3 <= frames'[k].end
               /\ frames'[k].end <= Len(file')
               /\ \A j \in 1 .. k - 1 : frames'[j].end <= frames'[k].start
    <3>1. CASE k = n + 1
      <4>1. k - 1 = n
        BY <1>1, <3>1
      <4>2. \A j \in 1 .. n : frames'[j].end <= f.start
        BY <1>1, <1>7, <1>9
      <4> QED BY <1>1, <1>7, <1>9, <1>10, <3>1, <4>1, <4>2
    <3>2. CASE k # n + 1
      <4>1. k \in 1 .. n /\ k - 1 \in 0 .. n
        BY <1>1, <3>2
      <4>2. \A j \in 1 .. k - 1 : j \in 1 .. n
        BY <1>1, <4>1
      <4>3. /\ frames[k].start = EndOf(k - 1) /\ frames[k].start + 3 <= frames[k].end
            /\ frames[k].end <= Len(file)
            /\ \A j \in 1 .. k - 1 : frames[j].end <= frames[k].start
        BY <1>1, <4>1 DEF StoreOK
      <4>4. frames[k].end <= Len(file')
        <5>1. frames[k].end \in Nat
          BY <1>1, <1>11, <4>1
        <5> QED BY <1>1, <1>6, <4>3, <5>1
      <4> QED BY <1>9, <1>10, <4>1, <4>2, <4>3, <4>4
    <3> QED BY <3>1, <3>2
  <2> QED BY <1>6, <1>9, <2>1 DEF StoreOK
<1>13. ASSUME HeadsOK PROVE HeadsOK'
  <2> DEFINE g == file'
             r == frames'
             e == TypeId["Empty"]
  <2>1. ASSUME NEW k \in 1 .. n
        PROVE  /\ g[r[k].start + 1] = r[k].end - r[k].start - 1
               /\ g[r[k].start + 2] = 1
               /\ g[r[k].start + 3] = e => r[k].end = r[k].start + 3
    <3> DEFINE a == frames[k].start
               b == frames[k].end
    <3>1. a \in Nat /\ b \in Nat /\ a + 3 <= b /\ b <= EndOf(n)
      BY <1>1, <1>11
    <3>2. wPosition = EndOf(n) + 1 /\ EndOf(n) \in Nat
      BY <1>1, <1>2
    <3>3. /\ file[a + 1] = b - a - 1 /\ file[a + 2] = 1
          /\ file[a + 3] = e => b = a + 3
      BY <1>1, <1>13, Zenon DEF HeadsOK
    <3>4. r[k] = frames[k]
      BY <1>9
    <3>5. \A i \in 1 .. wPosition : g[i] = file[i]
      BY <1>6
    <3> HIDE DEF a, b, g, r, e
    <3>6. a + 1 \in 1 .. wPosition /\ a + 2 \in 1 .. wPosition /\ a + 3 \in 1 .. wPosition
      BY ONLY <3>1, <3>2
    <3>7. g[a + 1] = file[a + 1] /\ g[a + 2] = file[a + 2] /\ g[a + 3] = file[a + 3]
      BY ONLY <3>5, <3>6
    <3>8. r[k].start = a /\ r[k].end = b
      BY ONLY <3>4, Zenon DEF a, b
    <3> QED BY ONLY <3>3, <3>7, <3>8
  <2>2. ASSUME NEW k, k = n + 1
        PROVE  /\ g[r[k].start + 1] = r[k].end - r[k].start - 1
               /\ g[r[k].start + 2] = 1
               /\ g[r[k].start + 3] = e => r[k].end = r[k].start + 3
    <3>1. r[k] = f
      BY <1>9, <2>2
    <3> HIDE DEF g, r, e
    <3> QED BY ONLY <1>8, <3>1, Zenon DEF g, e
  <2>3. DOMAIN r = 1 .. n + 1 /\ n \in Nat
    BY <1>1, <1>9
  <2> HIDE DEF g, r, e
  <2>4. \A k \in 1 .. n + 1 : k \in 1 .. n \/ k = n + 1
    BY ONLY <2>3
  <2> QED BY ONLY <2>1, <2>2, <2>3, <2>4, Zenon DEF HeadsOK, g, r, e
<1>14. WriterOK'
  <2>1. EndOf(Len(frames))' = f.end /\ f.end = wPosition'
    <3>1. f.end = wPosition'
      BY DEF f
    <3>2. Len(frames') # 0 /\ frames'[Len(frames')] = f
      BY <1>1, <1>9
    <3> QED BY <3>1, <3>2 DEF EndOf
  <2>2. startingPosition' = startingPosition /\ startingPosition \in Nat /\ wPosition \in Nat
    BY <1>1, <1>2 DEF WriteData
  <2>3. wPosition' \in 0 .. Len(file') /\ startingPosition' \in 0 .. wPosition'
    <3>1. wPosition' = wPosition + Len(s) /\ Len(s) \in Nat
            /\ Len(file') \in Nat /\ Len(file') >= wPosition + Len(s)
            /\ wPosition = startingPosition + 1
      BY <1>2, <1>4, <1>5, <1>6
    <3> QED BY <2>2, <3>1
  <2> QED BY <1>5, <2>1, <2>3 DEF WriterOK
<1>15. ReaderOK' /\ mode' = "writing" /\ position = 0 /\ calls' = <<>> /\ received' = <<>>
         /\ position' = 0
  BY <1>2 DEF SInv, ReaderOK, WriteData, readerVars
<1>16. InStep'
  <2>1. Len(<<>>) = 0 /\ EndOf(0)' = 0
    BY DEF EndOf
  <2> QED BY <1>15, <2>1 DEF InStep
<1>17. damaged' \subseteq DOMAIN frames'
  BY <1>1, <1>9 DEF SInv, WriteData
<1> QED BY <1>12, <1>13, <1>14, <1>15, <1>16, <1>17 DEF SInv

LEMMA CloseKeeps ==
  ASSUME SInv, InStep, Close
  PROVE  SInv' /\ InStep' /\ (HeadsOK => HeadsOK')
<1>1. /\ mode = "writing" /\ mode' = "closed"
      /\ UNCHANGED <<file, frames, damaged, wState, wPosition, startingPosition, pending>>
      /\ UNCHANGED <<position, calls, received>>
  BY DEF Close, writerVars, readerVars
<1>2. \A k : EndOf(k)' = EndOf(k)
  BY <1>1 DEF EndOf
<1>3. StoreOK' /\ (HeadsOK => HeadsOK')
  BY <1>1, <1>2 DEF SInv, StoreOK, HeadsOK
<1>4. WriterOK'
  BY <1>1, <1>2 DEF SInv, WriterOK
<1>5. ReaderOK' /\ InStep'
  BY <1>1, <1>2 DEF SInv, ReaderOK, InStep, Outermost
<1> QED BY <1>1, <1>3, <1>4, <1>5 DEF SInv

-------------------------------------------------------------------------------
(* Damage *)

\* A byte damaged is one of a frame, and not the first of it.
LEMMA DamagedByte ==
  ASSUME SInv, NEW k \in DOMAIN frames, NEW kind \in DamageKinds,
         NEW d \in DamageAt(frames[k], kind)
  PROVE  /\ frames[k].start \in Nat /\ frames[k].end \in Nat
         /\ d[1] \in frames[k].start + 2 .. frames[k].end /\ d[2] \in Nat
         /\ d[1] \in 1 .. Len(file)
         /\ kind = "payload" => d[1] \in frames[k].start + 4 .. frames[k].end
         /\ kind = "typeId" => d[1] = frames[k].start + 3 /\ d[2] # TypeId["Empty"]
<1> DEFINE a == frames[k].start
           b == frames[k].end
<1>1. a \in Nat /\ b \in Nat
  BY EndFacts DEF SInv, FrameRecord
<1>2. a + 3 <= b /\ b <= Len(file) /\ Len(file) \in Nat
  BY EndFacts DEF SInv, StoreOK
<1>3. kind \in {"payload", "typeId", "toEmpty", "typeIdLength"} /\ DamageBytes \subseteq Nat
  BY DamageAssumption DEF DamageAssumption
<1>4. TypeId["Empty"] \in Nat
  BY DEF TypeId
<1>5. /\ kind = "payload" => d \in (a + 4 .. b) \X DamageBytes
      /\ kind = "typeId" => d \in {a + 3} \X (DamageBytes \ {TypeId["Empty"]})
      /\ kind = "toEmpty" => d \in {a + 3} \X {TypeId["Empty"]}
      /\ kind = "typeIdLength" => d \in {a + 2} \X DamageBytes
  BY DEF DamageAt
<1> HIDE DEF a, b
<1>6. /\ kind = "payload" => d[1] \in a + 4 .. b /\ d[2] \in Nat
      /\ kind = "typeId" => d[1] = a + 3 /\ d[2] \in Nat /\ d[2] # TypeId["Empty"]
      /\ kind = "toEmpty" => d[1] = a + 3 /\ d[2] \in Nat
      /\ kind = "typeIdLength" => d[1] = a + 2 /\ d[2] \in Nat
  BY <1>3, <1>4, <1>5
<1>7. d[1] \in a + 2 .. b /\ d[2] \in Nat
  BY <1>1, <1>2, <1>3, <1>6
<1>8. d[1] \in 1 .. Len(file)
  BY <1>1, <1>2, <1>7
<1> QED BY <1>1, <1>6, <1>7, <1>8 DEF a, b

LEMMA DamageKeeps ==
  ASSUME SInv, InStep, Damage
  PROVE  /\ SInv' /\ InStep'
         /\ DamageKinds \subseteq {"payload", "typeId"} /\ HeadsOK => HeadsOK'
<1>1. PICK k \in DOMAIN frames \ damaged : \E kind \in DamageKinds :
        \E d \in DamageAt(frames[k], kind) :
          /\ file' = [file EXCEPT ![d[1]] = d[2]]
          /\ damaged' = damaged \cup {k}
  BY DEF Damage
<1>2. PICK kind \in DamageKinds : \E d \in DamageAt(frames[k], kind) :
        /\ file' = [file EXCEPT ![d[1]] = d[2]]
        /\ damaged' = damaged \cup {k}
  BY <1>1
<1>3. PICK d \in DamageAt(frames[k], kind) :
        /\ file' = [file EXCEPT ![d[1]] = d[2]]
        /\ damaged' = damaged \cup {k}
  BY <1>2
<1>4. /\ mode = "closed" /\ mode' = "closed"
      /\ UNCHANGED <<frames, wState, wPosition, startingPosition, pending>>
      /\ UNCHANGED <<position, calls, received>>
  BY DEF Damage, writerVars, readerVars
<1>5. /\ frames[k].start \in Nat /\ frames[k].end \in Nat
      /\ d[1] \in frames[k].start + 2 .. frames[k].end /\ d[2] \in Nat
      /\ d[1] \in 1 .. Len(file)
      /\ kind = "payload" => d[1] \in frames[k].start + 4 .. frames[k].end
      /\ kind = "typeId" => d[1] = frames[k].start + 3 /\ d[2] # TypeId["Empty"]
  BY DamagedByte
<1>6. /\ file' \in Seq(Nat) /\ Len(file') = Len(file)
      /\ \A j \in 1 .. Len(file) : file'[j] = IF j = d[1] THEN d[2] ELSE file[j]
  <2>1. file \in Seq(Nat)
    BY DEF SInv, StoreOK
  <2> QED BY <1>3, <1>5, <2>1, ExceptSeq, SMTT(20)
<1>7. \A j : EndOf(j)' = EndOf(j)
  BY <1>4 DEF EndOf
<1>8. StoreOK'
  BY <1>4, <1>6, <1>7 DEF SInv, StoreOK
<1>9. WriterOK'
  BY <1>4, <1>6, <1>7 DEF SInv, WriterOK
<1>10. ReaderOK' /\ InStep'
  BY <1>4, <1>7 DEF SInv, ReaderOK, InStep, Outermost
<1>11. damaged' \subseteq DOMAIN frames'
  BY <1>1, <1>3, <1>4 DEF SInv
<1>12. ASSUME DamageKinds \subseteq {"payload", "typeId"}, HeadsOK PROVE HeadsOK'
  <2>1. ASSUME NEW j \in DOMAIN frames
        PROVE  /\ file'[frames[j].start + 1] = frames[j].end - frames[j].start - 1
               /\ file'[frames[j].start + 2] = 1
               /\ file'[frames[j].start + 3] = TypeId["Empty"]
                    => frames[j].end = frames[j].start + 3
    <3> DEFINE a == frames[j].start
               b == frames[j].end
    <3>1. a \in Nat /\ b \in Nat /\ a + 3 <= b /\ b <= Len(file) /\ Len(file) \in Nat
      BY EndFacts DEF SInv, StoreOK, FrameRecord
    <3>2. /\ file[a + 1] = b - a - 1 /\ file[a + 2] = 1
          /\ file[a + 3] = TypeId["Empty"] => b = a + 3
      BY <1>12 DEF HeadsOK
    <3>3. a + 1 \in 1 .. Len(file) /\ a + 2 \in 1 .. Len(file) /\ a + 3 \in 1 .. Len(file)
      BY <3>1
    <3>4. d[1] # a + 1 /\ d[1] # a + 2 /\ (d[1] = a + 3 => d[2] # TypeId["Empty"])
      <4>1. kind \in {"payload", "typeId"}
        BY <1>12
      <4>2. d[1] \in frames[k].start + 3 .. frames[k].end
              /\ (d[1] = frames[k].start + 3 => d[2] # TypeId["Empty"])
        BY <1>5, <4>1
      <4>3. CASE j = k
        BY <3>1, <4>2, <4>3
      <4>4. CASE j # k
        <5>1. DOMAIN frames = 1 .. Len(frames) /\ Len(frames) \in Nat
          BY EndFacts DEF SInv
        <5>2. j \in 1 .. k - 1 \/ k \in 1 .. j - 1
          BY <4>4, <5>1
        <5>3. b <= frames[k].start \/ frames[k].end <= a
          BY <5>2 DEF SInv, StoreOK
        <5> HIDE DEF a, b
        <5> QED BY <1>5, <3>1, <4>2, <5>3, SMTT(20)
      <4> QED BY <4>3, <4>4
    <3>5. file'[a + 1] = file[a + 1] /\ file'[a + 2] = file[a + 2]
            /\ (file'[a + 3] = file[a + 3] \/ file'[a + 3] # TypeId["Empty"])
      BY <1>6, <3>3, <3>4
    <3> QED BY <3>2, <3>5
  <2> QED BY <1>4, <2>1 DEF HeadsOK
<1> QED BY <1>4, <1>8, <1>9, <1>10, <1>11, <1>12 DEF SInv

LEMMA OpenKeeps ==
  ASSUME SInv, InStep, Open
  PROVE  SInv' /\ InStep' /\ (HeadsOK => HeadsOK')
<1>1. /\ mode = "closed" /\ mode' = "reading"
      /\ UNCHANGED <<file, frames, damaged, wState, wPosition, startingPosition, pending>>
      /\ UNCHANGED <<position, calls, received>>
  BY DEF Open, writerVars, readerVars
<1>2. \A k : EndOf(k)' = EndOf(k)
  BY <1>1 DEF EndOf
<1>3. StoreOK' /\ (HeadsOK => HeadsOK')
  BY <1>1, <1>2 DEF SInv, StoreOK, HeadsOK
<1>4. WriterOK'
  BY <1>1, <1>2 DEF SInv, WriterOK
<1>5. ReaderOK' /\ InStep'
  BY <1>1, <1>2 DEF SInv, ReaderOK, InStep, Outermost
<1> QED BY <1>1, <1>3, <1>4, <1>5 DEF SInv

-------------------------------------------------------------------------------
(* The reader: what a step of it does to the stack of calls *)

\* The innermost call is replaced.
Sets(c) ==
  /\ calls # <<>> /\ CallOK(c)
  /\ SetTop(c)
  /\ UNCHANGED received

\* The innermost call, its count and perhaps its key in order, calls another.
Pushes ==
  /\ calls # <<>>
  /\ \E c : /\ CallOK(c) /\ Waits(c) /\ c.end = Top.end
            /\ calls' = Append([calls EXCEPT ![Len(calls)] = c], NewCall)
  /\ UNCHANGED received

\* The innermost call returns to the one around it.
Returns ==
  /\ calls # <<>>
  /\ ReturnFalse \/ \E o : ReturnTrue(o)

LEMMA CallsFacts ==
  ASSUME ReaderOK
  PROVE  /\ Len(calls) \in Nat /\ DOMAIN calls = 1 .. Len(calls)
         /\ calls = <<>> <=> Len(calls) = 0
         /\ Len(received) \in Nat
         /\ calls # <<>> => Len(calls) \in 1 .. Len(calls) /\ CallOK(Top)
<1>1. Len(calls) \in Nat /\ DOMAIN calls = 1 .. Len(calls) /\ (calls = <<>> <=> Len(calls) = 0)
  BY SeqFacts DEF ReaderOK
<1>2. Len(received) \in Nat
  BY SeqFacts DEF ReaderOK
<1>3. calls # <<>> => Len(calls) \in 1 .. Len(calls)
  BY <1>1
<1> QED BY <1>1, <1>2, <1>3 DEF ReaderOK, Top

LEMMA NewCallOK == CallOK(NewCall)
BY DEF CallOK, NewCall, KnownTypes, TypeId

\* The calls as the invariant wants them.
CallsOK ==
  /\ IsSeq(calls)
  /\ \A i \in DOMAIN calls : CallOK(calls[i]) /\ (i < Len(calls) => Waits(calls[i]))

LEMMA SetsKeeps ==
  ASSUME ReaderOK, NEW c, Sets(c)
  PROVE  /\ CallsOK' /\ calls' # <<>> /\ Len(calls') = Len(calls)
         /\ \A i \in 1 .. Len(calls) : calls'[i] = IF i = Len(calls) THEN c ELSE calls[i]
<1> DEFINE n == Len(calls)
<1>0. n \in Nat /\ n > 0 /\ n \in 1 .. n
  BY CallsFacts DEF Sets
<1>1. DOMAIN calls = 1 .. n
  BY CallsFacts
<1>2. calls' = Put(calls, n, c) /\ IsSeq(calls) /\ CallOK(c)
  BY DEF Sets, SetTop, ReaderOK, Put
<1>3. /\ IsSeq(calls') /\ Len(calls') = n
      /\ \A i \in 1 .. n : calls'[i] = IF i = n THEN c ELSE calls[i]
  BY <1>0, <1>2, PutIsSeq
<1>4. DOMAIN calls' = 1 .. n /\ calls' # <<>>
  BY <1>0, <1>3, SeqFacts
<1>5. \A i \in 1 .. n : CallOK(calls'[i]) /\ (i < n => Waits(calls'[i]))
  <2> SUFFICES ASSUME NEW i \in 1 .. n
               PROVE  CallOK(calls'[i]) /\ (i < n => Waits(calls'[i]))
    OBVIOUS
  <2>1. CASE i = n
    BY <1>0, <1>2, <1>3, <2>1
  <2>2. CASE i # n
    <3>1. calls'[i] = calls[i]
      BY <1>3, <2>2
    <3>2. CallOK(calls[i]) /\ (i < n => Waits(calls[i]))
      BY <1>1 DEF ReaderOK
    <3> QED BY <3>1, <3>2
  <2> QED BY <2>1, <2>2
<1>6. CallsOK'
  BY <1>3, <1>4, <1>5 DEF CallsOK
<1> QED BY <1>3, <1>4, <1>6

LEMMA PushesKeeps ==
  ASSUME ReaderOK, Pushes
  PROVE  /\ CallsOK' /\ Len(calls') > 1 /\ calls' # <<>>
         /\ calls'[1].end = calls[1].end /\ calls'[1].phase = "parts"
<1> DEFINE n == Len(calls)
<1>0. n \in Nat /\ n > 0
  BY CallsFacts DEF Pushes
<1>1. n \in 1 .. n /\ DOMAIN calls = 1 .. n /\ 1 \in 1 .. n
  BY CallsFacts DEF Pushes
<1>2. PICK c : /\ CallOK(c) /\ Waits(c) /\ c.end = Top.end
               /\ calls' = Append([calls EXCEPT ![n] = c], NewCall)
  BY DEF Pushes
<1> DEFINE q == Put(calls, n, c)
<1>3. /\ IsSeq(q) /\ Len(q) = n
      /\ \A i \in 1 .. n : q[i] = IF i = n THEN c ELSE calls[i]
  <2>1. IsSeq(calls)
    BY DEF ReaderOK
  <2>2. n \in 1 .. Len(calls)
    BY <1>1
  <2> QED BY <2>1, <2>2, PutIsSeq
<1>4. calls' = Append(q, NewCall)
  BY <1>2 DEF Put
<1>5. \A i \in 1 .. n : CallOK(q[i]) /\ Waits(q[i])
  <2> SUFFICES ASSUME NEW i \in 1 .. n PROVE CallOK(q[i]) /\ Waits(q[i])
    OBVIOUS
  <2>1. CASE i = n
    BY <1>2, <1>3, <2>1
  <2>2. CASE i # n
    <3>1. q[i] = calls[i] /\ i < n
      <4>1. i < n
        BY <1>0, <2>2
      <4> HIDE DEF q
      <4> QED BY <1>3, <2>2, <4>1
    <3> QED BY <1>1, <3>1 DEF ReaderOK
  <2> QED BY <2>1, <2>2
<1>6. q[1].end = calls[1].end
  <2>1. Top.end = calls[n].end
    BY DEF Top
  <2> QED BY <1>1, <1>2, <1>3, <2>1
<1> HIDE DEF q
<1>7. /\ IsSeq(calls') /\ Len(calls') = n + 1
      /\ \A i \in 1 .. n : calls'[i] = q[i]
      /\ calls'[n + 1] = NewCall
  BY <1>3, <1>4, AppendIsSeq
<1>8. DOMAIN calls' = 1 .. n + 1 /\ calls' # <<>> /\ Len(calls') > 1
  BY <1>0, <1>7, SeqFacts
<1>9. ASSUME NEW i \in 1 .. n + 1
      PROVE  CallOK(calls'[i]) /\ (i < n + 1 => Waits(calls'[i]))
  <2>1. CASE i = n + 1
    BY <1>0, <1>7, <2>1, NewCallOK
  <2>2. CASE i # n + 1
    <3>1. i \in 1 .. n
      BY <1>0, <2>2
    <3> QED BY <1>5, <1>7, <3>1
  <2> QED BY <2>1, <2>2
<1>10. CallsOK'
  BY <1>7, <1>8, <1>9 DEF CallsOK
<1>11. calls'[1] = q[1] /\ q[1].phase = "parts"
  BY <1>1, <1>5, <1>7 DEF Waits
<1> QED BY <1>6, <1>8, <1>10, <1>11

LEMMA ReturnsKeeps ==
  ASSUME ReaderOK, Returns
  PROVE  /\ CallsOK' /\ IsSeq(received')
         /\ Len(calls) = 1 => calls' = <<>> /\ Len(received') = Len(received) + 1
         /\ Len(calls) # 1 => /\ calls' # <<>> /\ received' = received
                              /\ calls'[1].end = calls[1].end
                              /\ calls'[1].phase \in {"parts", "failed"}
<1> DEFINE n == Len(calls)
           outer == Front(calls)
<1>1. n \in Nat /\ n > 0 /\ DOMAIN calls = 1 .. n /\ n \in 1 .. n
  BY CallsFacts DEF Returns
<1>2. /\ IsSeq(outer) /\ Len(outer) = n - 1
      /\ \A i \in 1 .. n - 1 : outer[i] = calls[i]
  BY FrontIsSeq DEF ReaderOK, Returns
<1>3. DOMAIN outer = 1 .. n - 1 /\ (outer = <<>> <=> n = 1)
  BY <1>1, <1>2, SeqFacts
<1>4. CASE n = 1
  <2>1. calls' = <<>> /\ \E r : received' = Append(received, r)
    BY <1>3, <1>4 DEF Returns, ReturnTrue, ReturnFalse
  <2>2. IsSeq(received') /\ Len(received') = Len(received) + 1
    BY <2>1, AppendIsSeq DEF ReaderOK
  <2>3. IsSeq(<<>>) /\ DOMAIN <<>> = {}
    BY EmptyIsSeq
  <2> QED BY <1>4, <2>1, <2>2, <2>3 DEF CallsOK
<1>5. CASE n # 1
  <2> DEFINE m == n - 1
             c == outer[m]
  <2>1. m \in 1 .. m /\ m \in Nat /\ m < n /\ m \in 1 .. n /\ 1 \in 1 .. m
    BY <1>1, <1>5
  <2>2. c = calls[m] /\ CallOK(c) /\ Waits(c)
    BY <1>1, <1>2, <2>1 DEF ReaderOK
  <2>3. \E e : /\ calls' = Put(outer, m, e) /\ CallOK(e) /\ e.end = c.end
               /\ e.phase \in {"parts", "failed"}
    <3>1. CASE ReturnFalse
      <4> DEFINE e == [c EXCEPT !.phase = "failed"]
      <4>1. CallOK(e) /\ e.end = c.end /\ e.phase = "failed"
        <5> HIDE DEF c
        <5> QED BY <2>2 DEF CallOK
      <4>2. calls' = Put(outer, m, e)
        BY <1>2, <1>3, <1>5, <3>1 DEF ReturnFalse, Put
      <4> HIDE DEF e
      <4> QED BY <4>1, <4>2
    <3>2. ASSUME NEW o, ReturnTrue(o)
          PROVE  \E e : /\ calls' = Put(outer, m, e) /\ CallOK(e) /\ e.end = c.end
                        /\ e.phase \in {"parts", "failed"}
      <4> DEFINE e == WithPart(c, o)
      <4>1. c.left - 1 \in Nat
        BY <2>2 DEF CallOK, Waits
      <4>2. CallOK(e) /\ e.end = c.end /\ e.phase = "parts"
        <5> HIDE DEF c
        <5>1. e = [phase |-> c.phase, end |-> c.end, type |-> c.type, left |-> c.left - 1,
                   key |-> c.key, bytes |-> c.bytes, parts |-> PutPart(c, o)]
          <6> DEFINE p == PutPart(c, o)
          <6> HIDE DEF c, p
          <6>1. e = [c EXCEPT !.parts = p, !.left = c.left - 1]
            BY DEF WithPart, p
          <6>2. e = [phase |-> c.phase, end |-> c.end, type |-> c.type, left |-> c.left - 1,
                     key |-> c.key, bytes |-> c.bytes, parts |-> p]
            <7> HIDE DEF e
            <7> QED BY <2>2, <6>1 DEF CallOK
          <6> QED BY <6>2 DEF p
        <5> HIDE DEF e
        <5> QED BY <2>2, <4>1, <5>1 DEF CallOK, Waits
      <4>3. calls' = Put(outer, m, e)
        BY <1>2, <1>3, <1>5, <3>2 DEF ReturnTrue, Put
      <4> HIDE DEF e
      <4> QED BY <4>2, <4>3
    <3> QED BY <3>1, <3>2 DEF Returns
  <2>4. PICK e : /\ calls' = Put(outer, m, e) /\ CallOK(e) /\ e.end = c.end
                 /\ e.phase \in {"parts", "failed"}
    BY <2>3
  <2>5. /\ IsSeq(calls') /\ Len(calls') = m
        /\ \A i \in 1 .. m : calls'[i] = IF i = m THEN e ELSE outer[i]
    <3>1. m \in 1 .. Len(outer)
      BY <1>2, <2>1
    <3>2. Len(outer) = m /\ IsSeq(outer)
      BY <1>2
    <3> HIDE DEF outer, m
    <3>3. /\ IsSeq(Put(outer, m, e)) /\ Len(Put(outer, m, e)) = Len(outer)
          /\ \A i \in 1 .. Len(outer) : Put(outer, m, e)[i] = IF i = m THEN e ELSE outer[i]
      BY <3>1, <3>2, PutIsSeq
    <3> QED BY <2>4, <3>2, <3>3
  <2>6. DOMAIN calls' = 1 .. m /\ calls' # <<>>
    BY <2>1, <2>5, SeqFacts
  <2>7. ASSUME NEW i \in 1 .. m
        PROVE  /\ CallOK(calls'[i]) /\ (i < m => Waits(calls'[i]))
               /\ calls'[i].end = calls[i].end
               /\ calls'[i].phase \in {"parts", "failed"}
    <3>1. CASE i = m
      BY <2>1, <2>2, <2>4, <2>5, <3>1
    <3>2. CASE i # m
      <4>1. calls'[i] = calls[i] /\ i \in 1 .. n /\ i < n
        <5>1. i \in 1 .. n /\ i < n /\ i \in 1 .. n - 1
          BY <1>1, <2>1
        <5>2. calls'[i] = outer[i]
          BY <2>5, <3>2
        <5>3. outer[i] = calls[i]
          BY <1>2, <5>1
        <5> QED BY <5>1, <5>2, <5>3
      <4> QED BY <1>1, <4>1 DEF ReaderOK, Waits
    <3> QED BY <3>1, <3>2
  <2>8. CallsOK'
    BY <2>5, <2>6, <2>7 DEF CallsOK
  <2>9. received' = received
    <3>1. outer # <<>>
      BY <1>3, <1>5
    <3> QED BY <3>1 DEF Returns, ReturnTrue, ReturnFalse
  <2>10. IsSeq(received')
    BY <2>9 DEF ReaderOK
  <2>11. calls'[1].end = calls[1].end /\ calls'[1].phase \in {"parts", "failed"}
    BY <2>1, <2>7
  <2> QED BY <1>5, <2>6, <2>8, <2>9, <2>10, <2>11
<1> QED BY <1>4, <1>5

-------------------------------------------------------------------------------
(* The reader: the steps *)

LEMMA AvailableFacts ==
  ASSUME file \in Seq(Nat), NEW p \in Nat
  PROVE  /\ Available(p) \in Nat
         /\ Available(p) > 0 <=> p < Len(file)
         /\ Available(p) > 0 => p + 1 \in 1 .. Len(file) /\ file[p + 1] \in Nat
<1>1. Len(file) \in Nat
  OBVIOUS
<1>2. p < Len(file) => p + 1 \in 1 .. Len(file)
  BY <1>1
<1>3. p < Len(file) => file[p + 1] \in Nat
  BY <1>2
<1>4. Available(p) \in Nat /\ (Available(p) > 0 <=> p < Len(file))
  BY <1>1 DEF Available
<1> QED BY <1>2, <1>3, <1>4

LEMMA ReadStringNext ==
  ASSUME file \in Seq(Nat), NEW p \in Nat
  PROVE  ReadString(p).next \in Nat
<1> DEFINE length == IF Available(p) > 0 THEN file[p + 1] ELSE 0
           got == IF Available(p + 1) < length THEN Available(p + 1) ELSE length
<1>1. length \in Nat
  BY AvailableFacts
<1>2. p + 1 \in Nat
  OBVIOUS
<1>3. Available(p + 1) \in Nat
  BY <1>2, AvailableFacts
<1>4. got \in Nat
  BY <1>1, <1>3
<1>5. ReadString(p).next = IF Available(p) = 0 THEN p ELSE p + 1 + got
  BY DEF ReadString
<1> HIDE DEF got
<1>6. p + 1 + got \in Nat
  BY <1>4
<1> QED BY <1>5, <1>6

\* What the steps change in a call leaves the rest of it.
LEMMA CallWithEnd ==
  ASSUME NEW t, CallOK(t), NEW phase, NEW end
  PROVE  [t EXCEPT !.phase = phase, !.end = end]
           = [phase |-> phase, end |-> end, type |-> t.type, left |-> t.left,
              key |-> t.key, bytes |-> t.bytes, parts |-> t.parts]
<1> DEFINE d == [phase |-> phase, end |-> t.end, type |-> t.type, left |-> t.left,
                 key |-> t.key, bytes |-> t.bytes, parts |-> t.parts]
<1>1. [t EXCEPT !.phase = phase] = d
  BY DEF CallOK
<1>2. [d EXCEPT !.end = end]
        = [phase |-> phase, end |-> end, type |-> t.type, left |-> t.left,
           key |-> t.key, bytes |-> t.bytes, parts |-> t.parts]
  OBVIOUS
<1> HIDE DEF d
<1> QED BY <1>1, <1>2

LEMMA CallWithType ==
  ASSUME NEW t, CallOK(t), NEW phase, NEW type
  PROVE  [t EXCEPT !.phase = phase, !.type = type]
           = [phase |-> phase, end |-> t.end, type |-> type, left |-> t.left,
              key |-> t.key, bytes |-> t.bytes, parts |-> t.parts]
<1> DEFINE d == [phase |-> phase, end |-> t.end, type |-> t.type, left |-> t.left,
                 key |-> t.key, bytes |-> t.bytes, parts |-> t.parts]
<1>1. [t EXCEPT !.phase = phase] = d
  BY DEF CallOK
<1>2. [d EXCEPT !.type = type]
        = [phase |-> phase, end |-> t.end, type |-> type, left |-> t.left,
           key |-> t.key, bytes |-> t.bytes, parts |-> t.parts]
  OBVIOUS
<1> HIDE DEF d
<1> QED BY <1>1, <1>2

LEMMA CallWithBytes ==
  ASSUME NEW t, CallOK(t), NEW phase, NEW left, NEW bytes
  PROVE  [t EXCEPT !.phase = phase, !.left = left, !.bytes = bytes]
           = [phase |-> phase, end |-> t.end, type |-> t.type, left |-> left,
              key |-> t.key, bytes |-> bytes, parts |-> t.parts]
<1> DEFINE d == [phase |-> phase, end |-> t.end, type |-> t.type, left |-> t.left,
                 key |-> t.key, bytes |-> t.bytes, parts |-> t.parts]
           e == [phase |-> phase, end |-> t.end, type |-> t.type, left |-> left,
                 key |-> t.key, bytes |-> t.bytes, parts |-> t.parts]
<1>1. [t EXCEPT !.phase = phase] = d
  BY DEF CallOK
<1>2. [d EXCEPT !.left = left] = e
  OBVIOUS
<1>3. [e EXCEPT !.bytes = bytes]
        = [phase |-> phase, end |-> t.end, type |-> t.type, left |-> left,
           key |-> t.key, bytes |-> bytes, parts |-> t.parts]
  OBVIOUS
<1> HIDE DEF d, e
<1> QED BY <1>1, <1>2, <1>3

\* What a step may do, as far as the frames go.
Begins ==
  /\ In("length") /\ position < Len(file) /\ position' = position + 1
  /\ \E c : Sets(c) /\ c.phase = "typeId" /\ c.end = position + 1 + file[position + 1]

Identifies ==
  /\ In("typeId")
  /\ \E c : Sets(c) /\ c.phase \in {"payload", "failed"} /\ c.end = Top.end

GoesOn ==
  /\ calls # <<>> /\ Top.phase \notin {"length", "typeId"}
  /\ \E c : Sets(c) /\ c.phase \notin {"length", "typeId"} /\ c.end = Top.end

Nests == Pushes /\ Top.phase = "parts"

Cut ==
  /\ Returns
  /\ \/ In("length") /\ ~ (position < Len(file))
     \/ In("typeId") /\ ~ReadString(position).ok

FindsEmpty ==
  /\ Returns /\ In("typeId") /\ ReadString(position).ok
  /\ ReadString(position).value = <<TypeId["Empty"]>>
  /\ position' = ReadString(position).next

Ends ==
  /\ Returns /\ Top.phase \notin {"length", "typeId"}
  /\ position' = Top.end

Effect ==
  Begins \/ Identifies \/ GoesOn \/ Nests \/ Cut \/ FindsEmpty \/ Ends

\* A call in its canonical form, and what the reads give.
LEMMA TopFacts ==
  ASSUME SInv, calls # <<>>
  PROVE  /\ CallOK(Top)
         /\ Top = [phase |-> Top.phase, end |-> Top.end, type |-> Top.type,
                   left |-> Top.left, key |-> Top.key, bytes |-> Top.bytes,
                   parts |-> Top.parts]
         /\ Top.end \in Nat /\ Top.left \in Nat /\ Top.type \in KnownTypes
         /\ file \in Seq(Nat) /\ position \in Nat
  BY CallsFacts DEF SInv, StoreOK, ReaderOK, CallOK

LEMMA ReadLengthEffect ==
  ASSUME SInv, ReadLength
  PROVE  position' \in Nat /\ Effect
<1>1. calls # <<>> /\ Top.phase = "length" /\ In("length")
  BY DEF ReadLength, In
<1>2. file \in Seq(Nat) /\ position \in Nat
  BY <1>1, TopFacts
<1>3. /\ Available(position) > 0 <=> position < Len(file)
      /\ Available(position) > 0 => file[position + 1] \in Nat
  BY <1>2, AvailableFacts
<1>4. CASE Available(position) > 0
  <2> DEFINE e == position + 1 + file[position + 1]
             c == [Top EXCEPT !.phase = "typeId", !.end = e]
  <2>1. e \in Nat
    BY <1>2, <1>3, <1>4
  <2>2. position' = position + 1 /\ SetTop(c) /\ UNCHANGED received
    BY <1>4 DEF ReadLength
  <2> HIDE DEF e
  <2>3. CallOK(c) /\ c.phase = "typeId" /\ c.end = e
    <3> DEFINE t == Top
    <3>1. c = [phase |-> "typeId", end |-> e, type |-> t.type, left |-> t.left,
               key |-> t.key, bytes |-> t.bytes, parts |-> t.parts]
      BY <1>1, TopFacts, CallWithEnd
    <3>2. t.left \in Nat /\ t.type \in KnownTypes
      BY <1>1, TopFacts
    <3> HIDE DEF c, t
    <3> QED BY <2>1, <3>1, <3>2 DEF CallOK
  <2> HIDE DEF c
  <2>4. Begins
    BY <1>1, <1>3, <1>4, <2>2, <2>3 DEF Begins, Sets, e
  <2> QED BY <1>2, <2>2, <2>4 DEF Effect
<1>5. CASE ~ (Available(position) > 0)
  <2>1. Returns /\ position' = position
    BY <1>1, <1>5 DEF ReadLength, Returns
  <2>2. Cut
    BY <1>1, <1>3, <1>5, <2>1 DEF Cut
  <2> QED BY <1>2, <2>1, <2>2 DEF Effect
<1> QED BY <1>4, <1>5

LEMMA ReadTypeIdEffect ==
  ASSUME SInv, ReadTypeIdFails \/ ReadEmpty \/ ReadTypeId \/ ReadUnknownTypeId
  PROVE  position' \in Nat /\ Effect
<1>1. calls # <<>> /\ Top.phase = "typeId" /\ In("typeId")
  BY DEF ReadTypeIdFails, ReadEmpty, ReadTypeId, ReadUnknownTypeId, In
<1>2. file \in Seq(Nat) /\ position \in Nat
  BY <1>1, TopFacts
<1>3. position' = ReadString(position).next
  BY DEF ReadTypeIdFails, ReadEmpty, ReadTypeId, ReadUnknownTypeId
<1>4. position' \in Nat
  BY <1>2, <1>3, ReadStringNext
<1> DEFINE t == Top
<1>5. /\ t.end \in Nat /\ t.left \in Nat /\ t.type \in KnownTypes
      /\ t = [phase |-> t.phase, end |-> t.end, type |-> t.type, left |-> t.left,
              key |-> t.key, bytes |-> t.bytes, parts |-> t.parts]
  BY <1>1, TopFacts
<1>6. CASE ReadTypeIdFails
  <2>1. Cut
    BY <1>1, <1>6 DEF ReadTypeIdFails, Cut, Returns
  <2> QED BY <1>4, <2>1 DEF Effect
<1>7. CASE ReadEmpty
  <2>1. FindsEmpty
    BY <1>1, <1>3, <1>7 DEF ReadEmpty, FindsEmpty, Returns
  <2> QED BY <1>4, <2>1 DEF Effect
<1>8. CASE ReadTypeId
  <2>1. PICK type \in KnownTypes \ {"Empty"} :
          SetTop([t EXCEPT !.phase = "payload", !.type = type])
    BY <1>8 DEF ReadTypeId
  <2> DEFINE c == [t EXCEPT !.phase = "payload", !.type = type]
  <2>2. CallOK(c) /\ c.phase = "payload" /\ c.end = t.end
    <3>1. c = [phase |-> "payload", end |-> t.end, type |-> type, left |-> t.left,
               key |-> t.key, bytes |-> t.bytes, parts |-> t.parts]
      BY <1>1, TopFacts, CallWithType
    <3> HIDE DEF c, t
    <3> QED BY <1>5, <3>1 DEF CallOK
  <2>3. SetTop(c) /\ UNCHANGED received
    BY <1>8, <2>1 DEF ReadTypeId
  <2> HIDE DEF c
  <2>4. Identifies
    BY <1>1, <2>2, <2>3 DEF Identifies, Sets
  <2> QED BY <1>4, <2>4 DEF Effect
<1>9. CASE ReadUnknownTypeId
  <2> DEFINE c == [t EXCEPT !.phase = "failed"]
  <2>1. CallOK(c) /\ c.phase = "failed" /\ c.end = t.end
    <3> HIDE DEF t
    <3> QED BY <1>5 DEF CallOK
  <2>2. SetTop(c) /\ UNCHANGED received
    BY <1>9 DEF ReadUnknownTypeId
  <2> HIDE DEF c
  <2>3. Identifies
    BY <1>1, <2>1, <2>2 DEF Identifies, Sets
  <2> QED BY <1>4, <2>3 DEF Effect
<1> QED BY <1>6, <1>7, <1>8, <1>9

\* A payload read in one go goes on to the verification, or to the skip.
LEMMA OnePieceEffect ==
  ASSUME SInv, calls # <<>>, Top.phase \notin {"length", "typeId"}, UNCHANGED received,
         NEW phase \in {"payload", "parts", "verify", "failed"},
         NEW left \in Nat, NEW bytes,
         SetTop([Top EXCEPT !.phase = phase, !.left = left, !.bytes = bytes])
  PROVE  GoesOn
<1> DEFINE t == Top
           c == [t EXCEPT !.phase = phase, !.left = left, !.bytes = bytes]
<1>1. /\ t.end \in Nat /\ t.left \in Nat /\ t.type \in KnownTypes
      /\ t = [phase |-> t.phase, end |-> t.end, type |-> t.type, left |-> t.left,
              key |-> t.key, bytes |-> t.bytes, parts |-> t.parts]
  BY TopFacts
<1>2. CallOK(c) /\ c.phase = phase /\ c.end = t.end
  <2>1. c = [phase |-> phase, end |-> t.end, type |-> t.type, left |-> left,
             key |-> t.key, bytes |-> bytes, parts |-> t.parts]
    <3>1. CallOK(t)
      BY TopFacts
    <3> HIDE DEF t
    <3> QED BY <3>1, CallWithBytes
  <2> HIDE DEF c, t
  <2> QED BY <1>1, <2>1 DEF CallOK
<1> HIDE DEF c
<1> QED BY <1>2 DEF GoesOn, Sets, c

LEMMA PayloadEffect ==
  ASSUME SInv, NEW type, NEW read, Payload(type, read)
  PROVE  GoesOn
<1>1. calls # <<>> /\ Top.phase = "payload" /\ UNCHANGED received
  BY DEF Payload, In
<1> DEFINE t == Top
<1>2. /\ t = [phase |-> t.phase, end |-> t.end, type |-> t.type, left |-> t.left,
              key |-> t.key, bytes |-> t.bytes, parts |-> t.parts]
      /\ t.left \in Nat
  BY <1>1, TopFacts
<1>3. CASE read.ok
  <2>1. SetTop([t EXCEPT !.phase = "verify", !.bytes = read.value])
    BY <1>3 DEF Payload
  <2>2. [t EXCEPT !.phase = "verify", !.bytes = read.value]
          = [t EXCEPT !.phase = "verify", !.left = t.left, !.bytes = read.value]
    <3> HIDE DEF t
    <3> QED BY <1>2
  <2> QED BY <1>1, <1>2, <2>1, <2>2, OnePieceEffect
<1>4. CASE ~ read.ok
  <2>1. SetTop([t EXCEPT !.phase = "failed"])
    BY <1>4 DEF Payload
  <2>2. [t EXCEPT !.phase = "failed"]
          = [t EXCEPT !.phase = "failed", !.left = t.left, !.bytes = t.bytes]
    <3> HIDE DEF t
    <3> QED BY <1>2
  <2> QED BY <1>1, <1>2, <2>1, <2>2, OnePieceEffect
<1> QED BY <1>3, <1>4

LEMMA ReadPayloadEffect ==
  ASSUME SInv, \/ ReadBoolean \/ ReadStringPayload \/ ReadIpAddress
               \/ ReadIntegerVector \/ ReadUnsignedIntegerVector \/ ReadCount
  PROVE  position' \in Nat /\ Effect
<1>1. calls # <<>> /\ Top.phase = "payload" /\ UNCHANGED received
  BY DEF ReadBoolean, ReadStringPayload, ReadIpAddress, ReadIntegerVector,
         ReadUnsignedIntegerVector, ReadNumbers, ReadCount, Payload, In
<1>2. file \in Seq(Nat) /\ position \in Nat /\ CallOK(Top) /\ Top.left \in Nat
  BY <1>1, TopFacts
<1>3. /\ Available(position) \in Nat
      /\ Available(position) > 0 => file[position + 1] \in Nat
  BY <1>2, AvailableFacts
<1> DEFINE t == Top
<1>4. [t EXCEPT !.phase = "failed"]
        = [t EXCEPT !.phase = "failed", !.left = t.left, !.bytes = t.bytes]
  <2> HIDE DEF t
  <2> QED BY <1>2 DEF CallOK, t
<1>5. ASSUME SetTop([t EXCEPT !.phase = "failed"]) PROVE GoesOn
  BY <1>1, <1>2, <1>4, <1>5, OnePieceEffect
<1>6. CASE ReadBoolean
  <2>1. CASE Available(position) > 0
    <3> DEFINE b == IF file[position + 1] = 0 THEN <<0>> ELSE <<1>>
    <3>1. SetTop([t EXCEPT !.phase = "verify", !.bytes = b]) /\ position' = position + 1
      BY <1>6, <2>1 DEF ReadBoolean
    <3> HIDE DEF b
    <3>2. [t EXCEPT !.phase = "verify", !.bytes = b]
            = [t EXCEPT !.phase = "verify", !.left = t.left, !.bytes = b]
      <4> HIDE DEF t
      <4> QED BY <1>2 DEF CallOK, t
    <3>3. GoesOn
      BY <1>1, <1>2, <3>1, <3>2, OnePieceEffect
    <3> QED BY <1>2, <3>1, <3>3 DEF Effect
  <2>2. CASE ~ (Available(position) > 0)
    BY <1>2, <1>5, <1>6, <2>2 DEF ReadBoolean, Effect
  <2> QED BY <2>1, <2>2
<1>7. CASE ReadStringPayload
  <2>1. position' = ReadString(position).next /\ GoesOn
    BY <1>7, PayloadEffect DEF ReadStringPayload, Payload
  <2> QED BY <1>2, <2>1, ReadStringNext DEF Effect
<1>8. CASE ReadIpAddress
  <2> DEFINE got == IF Available(position) < AddressSize THEN Available(position) ELSE AddressSize
  <2>1. got \in Nat
    BY <1>3 DEF AddressSize
  <2>2. position' = position + got /\ GoesOn
    BY <1>8, PayloadEffect DEF ReadIpAddress, Payload
  <2> HIDE DEF got
  <2> QED BY <1>2, <2>1, <2>2 DEF Effect
<1>9. ASSUME NEW type, ReadNumbers(type)
      PROVE  position' \in Nat /\ GoesOn
  <2> DEFINE count == IF Available(position) > 0 THEN file[position + 1] ELSE 0
             numbers == {i \in 1 .. count : i <= Available(position) - 1}
             one == IF Available(position) > 0 THEN 1 ELSE 0
  <2>1. count \in Nat /\ one \in Nat
    BY <1>3
  <2>2. position' = position + one + Cardinality(numbers) /\ GoesOn
    BY <1>9, PayloadEffect DEF ReadNumbers, Payload
  <2>3. Cardinality(numbers) \in Nat
    <3> HIDE DEF count
    <3>1. IsFiniteSet(1 .. count)
      BY <2>1, FS_Interval
    <3>2. IsFiniteSet(numbers)
      BY <3>1, FS_Subset
    <3> QED BY <3>2, FS_CardinalityType
  <2> HIDE DEF one, numbers
  <2> QED BY <1>2, <2>1, <2>2, <2>3
<1>10. CASE ReadIntegerVector \/ ReadUnsignedIntegerVector
  BY <1>9, <1>10 DEF ReadIntegerVector, ReadUnsignedIntegerVector, Effect
<1>11. CASE ReadCount
  <2>1. CASE Available(position) > 0
    <3> DEFINE l == file[position + 1]
    <3>1. SetTop([t EXCEPT !.phase = "parts", !.left = l]) /\ position' = position + 1
      BY <1>11, <2>1 DEF ReadCount
    <3>2. l \in Nat
      BY <1>3, <2>1
    <3> HIDE DEF l
    <3>3. [t EXCEPT !.phase = "parts", !.left = l]
            = [t EXCEPT !.phase = "parts", !.left = l, !.bytes = t.bytes]
      <4> HIDE DEF t
      <4> QED BY <1>2 DEF CallOK, t
    <3>4. GoesOn
      BY <1>1, <1>2, <3>1, <3>2, <3>3, OnePieceEffect
    <3> QED BY <1>2, <3>1, <3>4 DEF Effect
  <2>2. CASE ~ (Available(position) > 0)
    BY <1>2, <1>5, <1>11, <2>2 DEF ReadCount, Effect
  <2> QED BY <2>1, <2>2
<1> QED BY <1>6, <1>7, <1>8, <1>10, <1>11

LEMMA ReadPartEffect ==
  ASSUME SInv, ReadVectorPart \/ ReadCollectionPart \/ EndParts
  PROVE  position' \in Nat /\ Effect
<1>1. calls # <<>> /\ Top.phase = "parts" /\ UNCHANGED received
  BY DEF ReadVectorPart, ReadCollectionPart, EndParts, In
<1>2. file \in Seq(Nat) /\ position \in Nat /\ CallOK(Top) /\ Top.left \in Nat
  BY <1>1, TopFacts
<1> DEFINE t == Top
           n == Len(calls)
<1>3. calls[n] = t /\ n \in 1 .. n /\ DOMAIN calls = 1 .. n /\ IsSeq(calls)
  BY <1>1, CallsFacts DEF SInv, ReaderOK, Top
<1>4. CASE ReadVectorPart
  <2>1. Waits(t)
    BY <1>1, <1>4 DEF ReadVectorPart, Waits
  <2>2. [calls EXCEPT ![n] = t] = calls
    <3> DEFINE S == {calls[i] : i \in DOMAIN calls}
    <3>1. calls \in Seq(S)
      BY <1>3 DEF IsSeq
    <3> HIDE DEF S
    <3> QED BY <1>3, <3>1
  <2>3. calls' = Append([calls EXCEPT ![n] = t], NewCall) /\ position' = position
    BY <1>4, <2>2 DEF ReadVectorPart
  <2>4. Pushes
    BY <1>1, <1>2, <2>1, <2>3 DEF Pushes
  <2> QED BY <1>1, <1>2, <2>3, <2>4 DEF Effect, Nests
<1>5. CASE ReadCollectionPart
  <2> DEFINE s == ReadString(position)
             k == s.value
             c == [t EXCEPT !.key = k]
  <2>1. position' \in Nat
    BY <1>2, <1>5, ReadStringNext DEF ReadCollectionPart
  <2>2. CASE s.ok
    <3>1. calls' = Append([calls EXCEPT ![n].key = k], NewCall)
      BY <1>5, <2>2 DEF ReadCollectionPart
    <3>2. [calls EXCEPT ![n].key = k] = [calls EXCEPT ![n] = c]
      BY <1>3
    <3>3. Top.left > 0
      BY <1>5 DEF ReadCollectionPart
    <3>4. CallOK(c) /\ c.phase = "parts" /\ c.left > 0 /\ c.end = t.end
      <4>1. c = [phase |-> t.phase, end |-> t.end, type |-> t.type, left |-> t.left,
                 key |-> k, bytes |-> t.bytes, parts |-> t.parts]
        <5>1. CallOK(t)
          BY <1>2
        <5> HIDE DEF t, k
        <5> QED BY <5>1 DEF CallOK
      <4>2. t.left \in Nat /\ t.end \in Nat /\ t.type \in KnownTypes
        BY <1>2 DEF CallOK
      <4> HIDE DEF c, k
      <4> QED BY <1>1, <3>3, <4>1, <4>2 DEF CallOK
    <3>5. calls' = Append([calls EXCEPT ![n] = c], NewCall)
      BY <3>1, <3>2
    <3> HIDE DEF c
    <3>6. Pushes
      BY <1>1, <3>4, <3>5 DEF Pushes, Waits
    <3> QED BY <1>1, <2>1, <3>6 DEF Effect, Nests
  <2>3. CASE ~s.ok
    <3>1. SetTop([t EXCEPT !.phase = "failed"])
      BY <1>5, <2>3 DEF ReadCollectionPart
    <3>2. [t EXCEPT !.phase = "failed"]
            = [t EXCEPT !.phase = "failed", !.left = t.left, !.bytes = t.bytes]
      <4> HIDE DEF t
      <4> QED BY <1>2 DEF CallOK, t
    <3>3. GoesOn
      BY <1>1, <1>2, <3>1, <3>2, OnePieceEffect
    <3> QED BY <2>1, <3>3 DEF Effect
  <2> QED BY <2>2, <2>3
<1>6. CASE EndParts
  <2>1. SetTop([t EXCEPT !.phase = "verify"]) /\ position' = position
    BY <1>6 DEF EndParts
  <2>2. [t EXCEPT !.phase = "verify"]
          = [t EXCEPT !.phase = "verify", !.left = t.left, !.bytes = t.bytes]
    <3> HIDE DEF t
    <3> QED BY <1>2 DEF CallOK, t
  <2>3. GoesOn
    BY <1>1, <1>2, <2>1, <2>2, OnePieceEffect
  <2> QED BY <1>2, <2>1, <2>3 DEF Effect
<1> QED BY <1>4, <1>5, <1>6

LEMMA LeaveEffect ==
  ASSUME SInv, VerifyLength \/ Skip
  PROVE  position' \in Nat /\ Effect
<1>1. calls # <<>> /\ Top.phase \in {"verify", "failed"}
  BY DEF VerifyLength, Skip, In
<1>2. position \in Nat /\ CallOK(Top) /\ Top.end \in Nat /\ Top.left \in Nat
  BY <1>1, TopFacts
<1>3. CASE VerifyLength /\ position = Top.end
  <2>1. position' = Top.end /\ Returns
    BY <1>1, <1>3 DEF VerifyLength, Returns
  <2> QED BY <1>1, <1>2, <2>1 DEF Effect, Ends
<1>4. CASE VerifyLength /\ position # Top.end
  <2> DEFINE t == Top
  <2>1. SetTop([t EXCEPT !.phase = "failed"]) /\ position' = position /\ UNCHANGED received
    BY <1>4 DEF VerifyLength
  <2>2. [t EXCEPT !.phase = "failed"]
          = [t EXCEPT !.phase = "failed", !.left = t.left, !.bytes = t.bytes]
    <3> HIDE DEF t
    <3> QED BY <1>2 DEF CallOK, t
  <2>3. GoesOn
    BY <1>1, <1>2, <2>1, <2>2, OnePieceEffect
  <2> QED BY <1>2, <2>1, <2>3 DEF Effect
<1>5. CASE Skip
  <2>1. position' = Top.end /\ Returns
    BY <1>1, <1>5 DEF Skip, Returns
  <2> QED BY <1>1, <1>2, <2>1 DEF Effect, Ends
<1> QED BY <1>3, <1>4, <1>5

LEMMA ReaderStepEffect ==
  ASSUME SInv, ReaderStep
  PROVE  position' \in Nat /\ Effect
BY ReadLengthEffect, ReadTypeIdEffect, ReadPayloadEffect, ReadPartEffect, LeaveEffect
   DEF ReaderStep

-------------------------------------------------------------------------------
(* The reader keeps in step with the frames *)

LEMMA EffectKeepsTypes ==
  ASSUME SInv, mode = "reading", position' \in Nat, Effect,
         UNCHANGED <<file, mode, damaged, writerVars>>
  PROVE  SInv'
<1>0. ReaderOK
  BY DEF SInv
<1>1. CallsOK' /\ IsSeq(received')
  <2>1. CASE \E c : Sets(c)
    <3>1. CallsOK'
      BY <1>0, <2>1, SetsKeeps
    <3>2. received' = received
      BY <2>1 DEF Sets
    <3> QED BY <1>0, <3>1, <3>2 DEF ReaderOK
  <2>2. CASE Pushes
    <3>1. CallsOK'
      BY <1>0, <2>2, PushesKeeps
    <3>2. received' = received
      BY <2>2 DEF Pushes
    <3> QED BY <1>0, <3>1, <3>2 DEF ReaderOK
  <2>3. CASE Returns
    BY <1>0, <2>3, ReturnsKeeps
  <2> QED BY <2>1, <2>2, <2>3
        DEF Effect, Begins, Identifies, GoesOn, Nests, Cut, FindsEmpty, Ends
<1>2. ReaderOK'
  BY <1>1 DEF CallsOK, ReaderOK
<1>3. /\ UNCHANGED <<file, mode, damaged, frames, wState, wPosition>>
      /\ UNCHANGED <<startingPosition, pending>>
  BY DEF writerVars
<1>4. \A k : EndOf(k)' = EndOf(k)
  BY <1>3 DEF EndOf
<1>5. StoreOK' /\ WriterOK'
  BY <1>3, <1>4 DEF SInv, StoreOK, WriterOK
<1> QED BY <1>2, <1>3, <1>5 DEF SInv

LEMMA CallKeeps ==
  ASSUME SInv, mode = "reading", Call, UNCHANGED <<file, mode, damaged, writerVars>>
  PROVE  SInv' /\ (InStep => InStep')
<1>1. /\ calls = <<>> /\ calls' = <<NewCall>> /\ UNCHANGED <<position, received>>
      /\ UNCHANGED <<file, mode, damaged, frames, wState, wPosition>>
      /\ UNCHANGED <<startingPosition, pending>>
  BY DEF Call, writerVars
<1>2. IsSeq(<<NewCall>>) /\ Len(<<NewCall>>) = 1 /\ <<NewCall>>[1] = NewCall
        /\ DOMAIN <<NewCall>> = 1 .. 1 /\ <<NewCall>> # <<>>
  <2> DEFINE S == {NewCall}
  <2>1. <<NewCall>> \in Seq(S)
    OBVIOUS
  <2>2. IsSeq(<<NewCall>>)
    BY <2>1, SeqIsSeq
  <2> QED BY <2>2
<1>3. \A k : EndOf(k)' = EndOf(k)
  BY <1>1 DEF EndOf
<1>4. StoreOK' /\ WriterOK'
  BY <1>1, <1>3 DEF SInv, StoreOK, WriterOK
<1>5. ReaderOK'
  <2>1. \A i \in DOMAIN calls' : CallOK(calls'[i]) /\ (i < Len(calls') => Waits(calls'[i]))
    BY <1>1, <1>2, NewCallOK
  <2> QED BY <1>1, <1>2, <2>1 DEF SInv, ReaderOK
<1>6. ASSUME InStep PROVE InStep'
  <2> DEFINE r == Len(received)
  <2>1. r \in Nat /\ Len(frames) \in Nat /\ DOMAIN frames = 1 .. Len(frames)
    BY CallsFacts, EndFacts DEF SInv
  <2>2. ASSUME r < Len(frames) PROVE position = frames[r + 1].start
    <3>1. position = EndOf(r)
      BY <1>1, <1>6, <2>1, <2>2 DEF InStep
    <3>2. r + 1 \in DOMAIN frames /\ (r + 1) - 1 = r
      BY <2>1, <2>2
    <3> QED BY <3>1, <3>2 DEF SInv, StoreOK
  <2>3. NewCall.phase = "length"
    BY DEF NewCall
  <2> QED BY <1>1, <1>2, <2>2, <2>3 DEF InStep, Outermost
<1> QED BY <1>1, <1>4, <1>5, <1>6 DEF SInv

\* The type identifier of a frame whose lengths are intact is read.
LEMMA HeadRead ==
  ASSUME SInv, HeadsOK, NEW k \in DOMAIN frames
  PROVE  LET p == frames[k].start + 1 IN
         /\ frames[k].start < Len(file)
         /\ frames[k].start \in Nat
         /\ frames[k].end = p + file[p]
         /\ ReadString(p).ok
         /\ ReadString(p).value = <<TypeId["Empty"]>> => ReadString(p).next = frames[k].end
<1> DEFINE a == frames[k].start
           p == a + 1
           b == frames[k].end
<1>1. a \in Nat /\ b \in Nat /\ a + 3 <= b /\ b <= Len(file) /\ Len(file) \in Nat
  BY EndFacts DEF SInv, StoreOK, FrameRecord
<1>2. /\ file[a + 1] = b - a - 1 /\ file[a + 2] = 1
      /\ file[a + 3] = TypeId["Empty"] => b = a + 3
  BY DEF HeadsOK
<1> HIDE DEF a, b
<1>3. b = p + file[p] /\ a < Len(file)
  BY <1>1, <1>2
<1>4. Available(p) = Len(file) - p /\ Available(p + 1) = Len(file) - (p + 1)
        /\ Len(file) - p > 0 /\ Len(file) - (p + 1) > 0
  BY <1>1 DEF Available
<1> DEFINE length == IF Available(p) > 0 THEN file[p + 1] ELSE 0
           got == IF Available(p + 1) < length THEN Available(p + 1) ELSE length
<1>5. length = 1
  <2>1. p + 1 = a + 2
    BY <1>1
  <2> QED BY <1>2, <1>4, <2>1
<1>6. got = 1
  <2>1. ~ (Len(file) - (p + 1) < 1)
    BY <1>1
  <2> HIDE DEF length
  <2> QED BY <1>4, <1>5, <2>1
<1>7. /\ ReadString(p).ok = (Available(p) > 0 /\ got = length)
      /\ ReadString(p).next = IF Available(p) = 0 THEN p ELSE p + 1 + got
      /\ ReadString(p).value = SubSeq(file, p + 2, p + 1 + got)
  BY DEF ReadString
<1> HIDE DEF got, length
<1>8. ReadString(p).ok
  BY <1>4, <1>5, <1>6, <1>7
<1>9. ReadString(p).next = p + 1 + 1
  <2>1. Available(p) # 0
    BY <1>1, <1>4
  <2> QED BY <1>6, <1>7, <2>1
<1>10. Head(SubSeq(file, a + 3, a + 3)) = file[a + 3]
  <2>1. file \in Seq(Nat)
    BY DEF SInv, StoreOK
  <2>2. a + 3 \in 1 .. Len(file) /\ a + 3 \in a + 3 .. Len(file)
    BY <1>1
  <2> QED BY <2>1, <2>2, HeadTailOfSubSeq
<1>11. ReadString(p).value = <<TypeId["Empty"]>> => file[a + 3] = TypeId["Empty"]
  <2>1. p + 2 = a + 3 /\ p + 1 + 1 = a + 3
    BY <1>1
  <2>2. ReadString(p).value = SubSeq(file, a + 3, a + 3)
    BY <1>6, <1>7, <2>1
  <2>3. Head(<<TypeId["Empty"]>>) = TypeId["Empty"]
    OBVIOUS
  <2> QED BY <1>10, <2>2, <2>3
<1>12. p + 1 + 1 = a + 3
  BY <1>1
<1>13. ReadString(p).value = <<TypeId["Empty"]>> => ReadString(p).next = b
  BY <1>2, <1>9, <1>11, <1>12
<1> QED BY <1>1, <1>3, <1>8, <1>13 DEF a, b

LEMMA EffectKeepsStep ==
  ASSUME SInv, HeadsOK, InStep, Effect, UNCHANGED frames
  PROVE  InStep'
<1> DEFINE r == Len(received)
           n == Len(calls)
           f == frames[r + 1]
<1>1. r \in Nat /\ n \in Nat /\ n > 0 /\ Len(frames) \in Nat /\ calls # <<>>
  <2>1. calls # <<>>
    BY DEF Effect, Begins, Identifies, GoesOn, Nests, Cut, FindsEmpty, Ends, In,
           Pushes, Returns
  <2> QED BY <2>1, CallsFacts, EndFacts DEF SInv
<1>2. ReaderOK /\ DOMAIN calls = 1 .. n /\ DOMAIN frames = 1 .. Len(frames)
  BY CallsFacts, EndFacts DEF SInv
<1>3. n = 1 => calls[1] = Top
  BY DEF Top
<1>4. n # 1 => calls[1].phase = "parts"
  <2>1. n # 1 => 1 \in 1 .. n /\ 1 < n
    <3>1. n \in Nat /\ n > 0
      BY <1>1
    <3> HIDE DEF n
    <3> QED BY <3>1
  <2> QED BY <1>2, <2>1 DEF ReaderOK, Waits
<1>5. ASSUME NEW c, Sets(c)
      PROVE  /\ calls' # <<>> /\ received' = received
             /\ n = 1 => calls'[1] = c
             /\ n # 1 => calls'[1] = calls[1]
  <2>1. /\ calls' # <<>>
        /\ \A i \in 1 .. n : calls'[i] = IF i = n THEN c ELSE calls[i]
    BY <1>2, <1>5, SetsKeeps
  <2>2. 1 \in 1 .. n
    BY <1>1
  <2>3. received' = received
    BY <1>5 DEF Sets
  <2> QED BY <2>1, <2>2, <2>3
<1>6. Pushes => calls' # <<>> /\ received' = received
                  /\ calls'[1].end = calls[1].end /\ calls'[1].phase = "parts"
  BY <1>2, PushesKeeps DEF Pushes
<1>7. Returns =>
        /\ n = 1 => calls' = <<>> /\ Len(received') = r + 1
        /\ n # 1 => /\ calls' # <<>> /\ received' = received
                    /\ calls'[1].end = calls[1].end
                    /\ calls'[1].phase \in {"parts", "failed"}
  BY <1>2, ReturnsKeeps
<1> HIDE DEF n
<1>8. /\ calls' = <<>> => Len(received') = r + 1
      /\ calls' # <<>> => Len(received') = r
  BY <1>5, <1>6, <1>7
  DEF Effect, Begins, Identifies, GoesOn, Nests, Cut, FindsEmpty, Ends
<1>9. ASSUME r < Len(frames)
      PROVE  /\ calls' = <<>> => position' = f.end
             /\ calls' # <<>> => Outermost(position', calls'[1], f)
  <2>1. r + 1 \in DOMAIN frames
    BY <1>1, <1>2, <1>9
  <2>2. LET p == f.start + 1 IN
        /\ f.start < Len(file) /\ f.start \in Nat /\ f.end = p + file[p]
        /\ ReadString(p).ok
        /\ ReadString(p).value = <<TypeId["Empty"]>> => ReadString(p).next = f.end
    BY <2>1, HeadRead
  <2>3. Outermost(position, calls[1], f)
    BY <1>1, <1>9 DEF InStep
  <2>4. n # 1 => calls[1].end = f.end
    BY <1>4, <2>3 DEF Outermost
  <2> HIDE DEF f, r
  <2>5. CASE Begins
    <3>1. PICK c : Sets(c) /\ c.phase = "typeId" /\ c.end = position + 1 + file[position + 1]
      BY <2>5 DEF Begins
    <3>2. position' = position + 1 /\ Top.phase = "length"
      BY <2>5 DEF Begins, In
    <3>3. CASE n = 1
      <4>1. position = f.start
        BY <1>3, <2>3, <3>2, <3>3 DEF Outermost
      <4> QED BY <1>5, <2>2, <3>1, <3>2, <3>3, <4>1 DEF Outermost
    <3>4. CASE n # 1
      BY <1>4, <1>5, <2>4, <3>1, <3>4 DEF Outermost
    <3> QED BY <3>3, <3>4
  <2>6. CASE Identifies \/ GoesOn
    <3>1. PICK c : Sets(c) /\ c.phase \notin {"length", "typeId"} /\ c.end = Top.end
      BY <2>6 DEF Identifies, GoesOn
    <3>2. Top.phase # "length"
      BY <2>6 DEF Identifies, GoesOn, In
    <3>3. CASE n = 1
      BY <1>3, <1>5, <2>3, <3>1, <3>2, <3>3 DEF Outermost
    <3>4. CASE n # 1
      BY <1>4, <1>5, <2>4, <3>1, <3>4 DEF Outermost
    <3> QED BY <3>3, <3>4
  <2>7. CASE Nests
    <3>1. calls[1].end = f.end
      BY <1>3, <2>3, <2>4, <2>7 DEF Nests, Outermost
    <3> QED BY <1>6, <2>7, <3>1 DEF Nests, Outermost
  <2>8. CASE Cut
    <3>1. n # 1
      BY <1>3, <2>2, <2>3, <2>8 DEF Cut, In, Outermost
    <3> QED BY <1>7, <2>4, <2>8, <3>1 DEF Cut, Outermost
  <2>9. CASE FindsEmpty
    <3>1. CASE n = 1
      <4>1. position = f.start + 1
        BY <1>3, <2>3, <2>9, <3>1 DEF FindsEmpty, In, Outermost
      <4> QED BY <1>7, <2>2, <2>9, <3>1, <4>1 DEF FindsEmpty
    <3>2. CASE n # 1
      BY <1>7, <2>4, <2>9, <3>2 DEF FindsEmpty, Outermost
    <3> QED BY <3>1, <3>2
  <2>10. CASE Ends
    <3>1. CASE n = 1
      BY <1>3, <1>7, <2>3, <2>10, <3>1 DEF Ends, Outermost
    <3>2. CASE n # 1
      BY <1>7, <2>4, <2>10, <3>2 DEF Ends, Outermost
    <3> QED BY <3>1, <3>2
  <2> QED BY <2>5, <2>6, <2>7, <2>8, <2>9, <2>10 DEF Effect
<1>10. CASE r < Len(frames)
  <2>1. calls' = <<>> => position' = EndOf(Len(received))'
    <3>1. calls' = <<>> => Len(received') = r + 1 /\ r + 1 # 0
      BY <1>1, <1>8
    <3> HIDE DEF r
    <3> QED BY <1>9, <1>10, <3>1 DEF EndOf
  <2>2. calls' # <<>> => Len(received') = Len(received)
    BY <1>8
  <2> QED BY <1>9, <1>10, <2>1, <2>2 DEF InStep
<1>11. CASE ~ (r < Len(frames))
  <2>1. calls' = <<>> => ~ (Len(received') <= Len(frames))
    BY <1>1, <1>8, <1>11
  <2>2. calls' # <<>> => ~ (Len(received') < Len(frames))
    BY <1>8, <1>11
  <2> QED BY <2>1, <2>2 DEF InStep
<1> QED BY <1>10, <1>11

-------------------------------------------------------------------------------
(* The file is well formed, and the reader in step with it *)

\* Before it is opened the reader is at the first frame.
LEMMA NotReading ==
  ASSUME SInv, mode # "reading"
  PROVE  InStep
BY EmptyIsSeq DEF SInv, ReaderOK, InStep, EndOf

LEMMA StutterKeeps ==
  ASSUME SInv, UNCHANGED vars
  PROVE  SInv' /\ (HeadsOK => HeadsOK') /\ (InStep => InStep')
<1>1. /\ UNCHANGED <<file, mode, damaged, frames, wState, wPosition>>
      /\ UNCHANGED <<startingPosition, pending>>
      /\ UNCHANGED <<position, calls, received>>
  BY DEF vars, writerVars, readerVars
<1>2. \A k : EndOf(k)' = EndOf(k)
  BY <1>1 DEF EndOf
<1>3. StoreOK' /\ WriterOK' /\ ReaderOK'
  BY <1>1, <1>2 DEF SInv, StoreOK, WriterOK, ReaderOK
<1>4. (HeadsOK => HeadsOK') /\ (InStep => InStep')
  BY <1>1, <1>2 DEF HeadsOK, InStep
<1> QED BY <1>1, <1>3, <1>4 DEF SInv

LEMMA NextKeepsTypes ==
  ASSUME SInv, [Next]_vars
  PROVE  SInv'
<1>1. CASE WriterStep
  <2>1. mode = "writing"
    BY <1>1 DEF WriterStep, Serialize, WriteLength, WriteData, WriteDataShort, Close
  <2>2. InStep
    BY <2>1, NotReading
  <2> QED BY <1>1, <2>2, SerializeKeeps, WriteLengthKeeps, WriteDataKeeps,
             WriteDataShortKeeps, CloseKeeps DEF WriterStep
<1>2. CASE Damage \/ Open
  <2>1. mode = "closed"
    BY <1>2 DEF Damage, Open
  <2>2. InStep
    BY <2>1, NotReading
  <2> QED BY <1>2, <2>2, DamageKeeps, OpenKeeps
<1>3. CASE Deserialize
  <2>1. mode = "reading" /\ UNCHANGED <<file, mode, damaged, writerVars>>
          /\ (Call \/ ReaderStep)
    BY <1>3 DEF Deserialize
  <2>2. CASE Call
    BY <2>1, <2>2, CallKeeps
  <2>3. CASE ReaderStep
    BY <2>1, <2>3, ReaderStepEffect, EffectKeepsTypes
  <2> QED BY <2>1, <2>2, <2>3
<1>4. CASE UNCHANGED vars
  BY <1>4, StutterKeeps
<1> QED BY <1>1, <1>2, <1>3, <1>4 DEF Next

LEMMA NextKeepsStep ==
  ASSUME SInv, HeadsOK, InStep, [Next]_vars, DamageKinds \subseteq {"payload", "typeId"}
  PROVE  HeadsOK' /\ InStep'
<1>1. CASE WriterStep
  BY <1>1, SerializeKeeps, WriteLengthKeeps, WriteDataKeeps, WriteDataShortKeeps,
     CloseKeeps DEF WriterStep
<1>2. CASE Damage \/ Open
  BY <1>2, DamageKeeps, OpenKeeps
<1>3. CASE Deserialize
  <2>1. mode = "reading" /\ UNCHANGED <<file, mode, damaged, writerVars>>
          /\ (Call \/ ReaderStep) /\ UNCHANGED frames
    BY <1>3 DEF Deserialize, writerVars
  <2>2. HeadsOK'
    BY <2>1 DEF HeadsOK
  <2>3. CASE Call
    BY <2>1, <2>2, <2>3, CallKeeps
  <2>4. CASE ReaderStep
    BY <2>1, <2>2, <2>4, ReaderStepEffect, EffectKeepsStep
  <2> QED BY <2>1, <2>3, <2>4
<1>4. CASE UNCHANGED vars
  BY <1>4, StutterKeeps
<1> QED BY <1>1, <1>2, <1>3, <1>4 DEF Next

\* Whatever is written, cut short and damaged, both sides keep within the file,
\* and every call of Deserialize but the innermost waits for a part it expects.
THEOREM BothSidesTyped == Spec => []TypeOK
<1>1. Init => SInv
  BY InitSInv
<1>2. SInv /\ [Next]_vars => SInv'
  BY NextKeepsTypes
<1>3. SInv => TypeOK
  <2> SUFFICES ASSUME SInv PROVE TypeOK
    OBVIOUS
  <2>1. file \in Seq(Nat) /\ wPosition \in 0 .. Len(file) /\ startingPosition \in 0 .. wPosition
          /\ wState \in {"idle", "length", "data", "failed"}
    BY DEF SInv, StoreOK, WriterOK
  <2>2. position \in Nat /\ \A i \in DOMAIN calls :
          CallOK(calls[i]) /\ (i < Len(calls) => Waits(calls[i]))
    BY DEF SInv, ReaderOK
  <2> QED BY <2>1, <2>2 DEF SInv, TypeOK, CallOK, Waits
<1> QED BY <1>1, <1>2, <1>3, PTL DEF Spec

\* As long as damage spares the lengths of the frames and makes none Empty, a
\* reader that has returned from its outermost call is where the next frame
\* begins, for any objects, nested to any depth, and any failures of Write.
THEOREM FramesResynchronize ==
  ASSUME DamageKinds \subseteq {"payload", "typeId"}
  PROVE  Spec => []Resynchronizes
<1> DEFINE I == SInv /\ HeadsOK /\ InStep
<1>1. Init => I
  BY InitSInv
<1>2. I /\ [Next]_vars => I'
  BY NextKeepsTypes, NextKeepsStep
<1>3. I => Resynchronizes
  <2> SUFFICES ASSUME I, calls = <<>>, Len(received) \in DOMAIN frames
               PROVE  position = frames[Len(received)].end
    BY DEF Resynchronizes
  <2>1. Len(received) \in 1 .. Len(frames) /\ Len(frames) \in Nat
    BY EndFacts DEF SInv
  <2>2. Len(received) <= Len(frames) /\ Len(received) # 0
    BY <2>1
  <2> QED BY <2>2 DEF InStep, EndOf
<1> HIDE DEF I
<1> QED BY <1>1, <1>2, <1>3, PTL DEF Spec

-------------------------------------------------------------------------------
(* Where the bytes of a frame lie in the file *)

\* The bytes of s follow position p.
BytesAt(s, p) ==
  /\ p \in Nat /\ p + Len(s) <= Len(file)
  /\ \A i \in 1 .. Len(s) : file[p + i] = s[i]

LEMMA BytesSplit ==
  ASSUME NEW s \in Seq(Nat), NEW t \in Seq(Nat), NEW p, BytesAt(s \o t, p),
         file \in Seq(Nat)
  PROVE  BytesAt(s, p) /\ BytesAt(t, p + Len(s))
<1> DEFINE u == s \o t
           m == Len(s)
           n == Len(t)
<1>1. /\ m \in Nat /\ n \in Nat /\ Len(u) = m + n
      /\ \A i \in 1 .. m + n : u[i] = IF i <= m THEN s[i] ELSE t[i - m]
      /\ Len(file) \in Nat
  BY ConcatProperties
<1>2. p \in Nat /\ p + Len(u) <= Len(file) /\ \A i \in 1 .. Len(u) : file[p + i] = u[i]
  BY DEF BytesAt
<1> HIDE DEF u
<1>3. p + m <= Len(file) /\ p + m \in Nat /\ (p + m) + n <= Len(file)
  BY <1>1, <1>2
<1>4. ASSUME NEW i \in 1 .. m PROVE file[p + i] = s[i]
  <2>1. i \in 1 .. m + n /\ i <= m
    BY <1>1
  <2> QED BY <1>1, <1>2, <2>1
<1>5. ASSUME NEW i \in 1 .. n PROVE file[(p + m) + i] = t[i]
  <2>1. m + i \in 1 .. m + n /\ ~ (m + i <= m) /\ (m + i) - m = i
    BY <1>1
  <2>2. file[p + (m + i)] = t[i]
    BY <1>1, <1>2, <2>1
  <2>3. p + (m + i) = (p + m) + i
    BY <1>1, <1>2
  <2> QED BY <2>2, <2>3
<1> QED BY <1>2, <1>3, <1>4, <1>5 DEF BytesAt

\* The byte at the reader's position.
LEMMA ByteRead ==
  ASSUME NEW b, NEW p, BytesAt(<<b>>, p), file \in Seq(Nat)
  PROVE  p \in Nat /\ Available(p) > 0 /\ file[p + 1] = b /\ p < Len(file)
<1>1. p \in Nat /\ p + 1 <= Len(file) /\ \A i \in 1 .. 1 : file[p + i] = <<b>>[i]
  BY DEF BytesAt
<1>2. file[p + 1] = b
  BY <1>1
<1>3. p < Len(file) /\ Len(file) \in Nat
  BY <1>1
<1> QED BY <1>1, <1>2, <1>3, AvailableFacts

\* A stretch of the file is what lies there.
LEMMA BytesCut ==
  ASSUME NEW s \in Seq(Nat), NEW p, BytesAt(s, p), file \in Seq(Nat)
  PROVE  SubSeq(file, p + 1, p + Len(s)) = s
<1> DEFINE n == Len(s)
           a == p + 1
           b == p + n
           t == SubSeq(file, a, b)
<1>1. /\ p \in Nat /\ n \in Nat /\ Len(file) \in Nat /\ p + n <= Len(file)
      /\ \A i \in 1 .. n : file[p + i] = s[i]
  BY DEF BytesAt
<1>2. \A i \in a .. b : file[i] \in Nat
  <2>1. \A i \in 1 .. Len(file) : file[i] \in Nat
    OBVIOUS
  <2> QED BY <1>1, <2>1
<1>3. a \in Int /\ b \in Int /\ b - a + 1 = n /\ (a <= b <=> n # 0)
  BY <1>1
<1>4. \A i \in 1 .. n : i \in 1 .. b - a + 1 /\ a + i - 1 = p + i
  BY <1>1
<1> HIDE DEF a, b
<1>5. /\ t \in Seq(Nat) /\ Len(t) = IF a <= b THEN b - a + 1 ELSE 0
      /\ \A i \in 1 .. b - a + 1 : t[i] = file[a + i - 1]
  BY ONLY <1>2, <1>3, SubSeqProperties
<1> HIDE DEF t
<1>6. Len(t) = n
  BY <1>1, <1>3, <1>5
<1>7. \A i \in 1 .. n : t[i] = s[i]
  BY <1>1, <1>4, <1>5
<1>8. t = s
  BY <1>5, <1>6, <1>7, SeqEqual
<1> QED BY <1>8 DEF t, a, b

\* A string is read as it was written, and to its end.
LEMMA StringRead ==
  ASSUME NEW s \in Seq(Nat), NEW p, BytesAt(StringBytes(s), p), file \in Seq(Nat)
  PROVE  /\ p \in Nat
         /\ ReadString(p).ok
         /\ ReadString(p).next = p + 1 + Len(s)
         /\ ReadString(p).value = s
<1> DEFINE n == Len(s)
           length == IF Available(p) > 0 THEN file[p + 1] ELSE 0
           got == IF Available(p + 1) < length THEN Available(p + 1) ELSE length
<1>1. <<n>> \in Seq(Nat) /\ Len(<<n>>) = 1 /\ n \in Nat
  OBVIOUS
<1>2. BytesAt(<<n>>, p) /\ BytesAt(s, p + 1)
  BY <1>1, BytesSplit DEF StringBytes
<1>3. p \in Nat /\ Available(p) > 0 /\ file[p + 1] = n
  BY <1>2, ByteRead
<1>4. p + 1 \in Nat /\ (p + 1) + n <= Len(file) /\ Len(file) \in Nat
  BY <1>2 DEF BytesAt
<1>5. length = n
  BY <1>3
<1>6. got = n
  <2>1. ~ (Available(p + 1) < n)
    BY <1>1, <1>4 DEF Available
  <2> HIDE DEF length
  <2> QED BY <1>5, <2>1
<1>7. /\ ReadString(p).ok = (Available(p) > 0 /\ got = length)
      /\ ReadString(p).next = IF Available(p) = 0 THEN p ELSE p + 1 + got
      /\ ReadString(p).value = SubSeq(file, p + 2, p + 1 + got)
  BY DEF ReadString
<1> HIDE DEF got, length
<1>8. Available(p) # 0
  BY <1>3
<1>9. SubSeq(file, (p + 1) + 1, (p + 1) + n) = s
  BY <1>2, BytesCut
<1>10. p + 2 = (p + 1) + 1 /\ p + 1 + n = (p + 1) + n
  BY <1>1, <1>3
<1> QED BY <1>3, <1>5, <1>6, <1>7, <1>8, <1>9, <1>10

-------------------------------------------------------------------------------
(* The parts of a frame *)

PayloadOf(o) == PayloadWith(o, [i \in DOMAIN o.parts |-> Frame[o.parts[i].value]])

LEMMA FrameForm ==
  ASSUME NEW o \in Objects
  PROVE  /\ PayloadOf(o) \in Seq(Nat)
         /\ Frame[o] = <<Len(Frame[o]) - 1>>
                         \o (StringBytes(<<TypeId[o.type]>>) \o PayloadOf(o))
         /\ <<Len(Frame[o]) - 1>> \in Seq(Nat)
         /\ StringBytes(<<TypeId[o.type]>>) \in Seq(Nat)
         /\ Len(StringBytes(<<TypeId[o.type]>>)) = 2
         /\ Len(Frame[o]) = 3 + Len(PayloadOf(o))
<1> DEFINE parts == [i \in DOMAIN o.parts |-> Frame[o.parts[i].value]]
           id == StringBytes(<<TypeId[o.type]>>)
           payload == PayloadOf(o)
           rest == id \o payload
<1>1. parts \in [DOMAIN o.parts -> Seq(Nat)]
  BY FrameEquation, InsideIsObjects DEF Inside
<1>2. payload \in Seq(Nat) /\ Frame[o] = StringBytes(rest)
  <2>1. Frame[o] = FrameOf(o, parts)
    BY FrameEquation DEF FramedWith
  <2> HIDE DEF parts
  <2>2. PayloadWith(o, parts) \in Seq(Nat)
          /\ FrameOf(o, parts) = StringBytes(id \o PayloadWith(o, parts))
    BY <1>1, FrameOfForm
  <2> QED BY <2>1, <2>2 DEF PayloadOf, parts
<1>3. <<TypeId[o.type]>> \in Seq(Nat) /\ Len(<<TypeId[o.type]>>) = 1
  BY InsideIsObjects DEF TypeId
<1>4. id \in Seq(Nat) /\ Len(id) = 2
  <2>1. id \in Seq(Nat) /\ Len(id) = 1 + 1
    BY <1>3, StringBytesType
  <2> QED BY <2>1
<1> HIDE DEF id, payload
<1>5. rest \in Seq(Nat) /\ Len(rest) = 2 + Len(payload) /\ Len(payload) \in Nat
  <2>1. rest \in Seq(Nat) /\ Len(rest) = Len(id) + Len(payload)
    BY <1>2, <1>4, ConcatProperties
  <2>2. Len(payload) \in Nat
    BY <1>2
  <2> HIDE DEF rest
  <2> QED BY <1>4, <2>1, <2>2
<1> HIDE DEF rest
<1>6. Len(Frame[o]) = Len(rest) + 1 /\ Len(rest) \in Nat
  BY <1>2, <1>5, StringBytesType
<1>7. Len(Frame[o]) - 1 = Len(rest) /\ Len(Frame[o]) = 3 + Len(payload)
  BY <1>5, <1>6
<1>8. Frame[o] = <<Len(rest)>> \o rest
  BY <1>2 DEF StringBytes
<1>9. <<Len(rest)>> \in Seq(Nat)
  BY <1>6
<1> QED BY <1>2, <1>4, <1>7, <1>8, <1>9 DEF rest, payload, id

LEMMA FrameLies ==
  ASSUME NEW o \in Objects, NEW a, BytesAt(Frame[o], a), file \in Seq(Nat)
  PROVE  /\ a \in Nat /\ a + Len(Frame[o]) <= Len(file)
         /\ BytesAt(<<Len(Frame[o]) - 1>>, a)
         /\ BytesAt(StringBytes(<<TypeId[o.type]>>), a + 1)
         /\ BytesAt(PayloadOf(o), a + 3)
<1> DEFINE l == <<Len(Frame[o]) - 1>>
           id == StringBytes(<<TypeId[o.type]>>)
           payload == PayloadOf(o)
<1>1. /\ payload \in Seq(Nat) /\ Frame[o] = l \o (id \o payload)
      /\ l \in Seq(Nat) /\ id \in Seq(Nat) /\ Len(id) = 2
  BY FrameForm
<1>2. Len(l) = 1
  OBVIOUS
<1> HIDE DEF id, l, payload
<1>3. id \o payload \in Seq(Nat)
  BY <1>1, ConcatProperties
<1>4. BytesAt(l, a) /\ BytesAt(id \o payload, a + 1)
  BY <1>1, <1>2, <1>3, BytesSplit
<1>5. BytesAt(id, a + 1) /\ BytesAt(payload, (a + 1) + 2)
  BY <1>1, <1>4, BytesSplit
<1>6. a \in Nat /\ a + Len(Frame[o]) <= Len(file)
  BY DEF BytesAt
<1>7. (a + 1) + 2 = a + 3
  BY <1>6
<1> QED BY <1>4, <1>5, <1>6, <1>7 DEF l, id, payload

\* Where the j-th of the sequences s begins in FlattenSeq(s).
Builds(s, f) ==
  /\ f \in [1 .. Len(s) -> Seq(Nat)]
  /\ \A i \in 1 .. Len(s) : f[i] = IF i = 1 THEN s[i] ELSE f[i - 1] \o s[i]
  /\ FlattenSeq(s) = f[Len(s)]
Built(s) == CHOOSE f : Builds(s, f)
Begin(s, j) == IF j = 1 THEN 0 ELSE Len(Built(s)[j - 1])

LEMMA BuiltFacts ==
  ASSUME NEW s \in Seq(Seq(Nat)), Len(s) # 0
  PROVE  Builds(s, Built(s))
<1> DEFINE T == Seq(Nat)
<1> HIDE DEF T
<1>1. \E f \in [1 .. Len(s) -> T] :
        /\ \A i \in 1 .. Len(s) : f[i] = IF i = 1 THEN s[i] ELSE f[i - 1] \o s[i]
        /\ FlattenSeq(s) = f[Len(s)]
  BY FlattenBuilt DEF T
<1>2. \E f : Builds(s, f)
  BY <1>1 DEF Builds, T
<1> QED BY <1>2 DEF Built

LEMMA BeginFacts ==
  ASSUME NEW s \in Seq(Seq(Nat))
  PROVE  /\ Begin(s, 1) = 0
         /\ \A j \in 1 .. Len(s) + 1 : Begin(s, j) \in Nat
         /\ \A j \in 1 .. Len(s) : Begin(s, j + 1) = Begin(s, j) + Len(s[j])
         /\ Begin(s, Len(s) + 1) = Len(FlattenSeq(s))
<1> DEFINE n == Len(s)
           f == Built(s)
           T == Seq(Nat)
<1>1. n \in Nat /\ \A j \in 1 .. n : s[j] \in T
  OBVIOUS
<1>2. \A p \in T : Len(p) \in Nat
  OBVIOUS
<1>3. \A p, q \in T : Len(p \o q) = Len(p) + Len(q)
  BY ConcatProperties
<1>4. CASE n = 0
  <2>1. s = <<>>
    BY <1>4
  <2>2. FlattenSeq(s) = <<>>
    BY <2>1 DEF FlattenSeq
  <2> QED BY <1>4, <2>2 DEF Begin
<1>5. CASE n # 0
  <2>1. /\ f \in [1 .. n -> T] /\ FlattenSeq(s) = f[n]
        /\ \A i \in 1 .. n : f[i] = IF i = 1 THEN s[i] ELSE f[i - 1] \o s[i]
    BY <1>5, BuiltFacts DEF Builds
  <2> HIDE DEF f, T, n
  <2>2. ASSUME NEW j \in 1 .. n + 1 PROVE Begin(s, j) \in Nat
    <3>1. j # 1 => j - 1 \in 1 .. n
      BY <1>1
    <3> QED BY <1>2, <2>1, <3>1 DEF Begin, f
  <2>3. ASSUME NEW j \in 1 .. n PROVE Begin(s, j + 1) = Begin(s, j) + Len(s[j])
    <3>1. j + 1 # 1 /\ (j + 1) - 1 = j
      BY <1>1
    <3>2. Begin(s, j + 1) = Len(f[j])
      BY <3>1 DEF Begin, f
    <3>3. CASE j = 1
      <4>1. f[j] = s[j] /\ Len(s[j]) \in Nat
        BY <1>1, <1>2, <2>1, <3>3
      <4>2. Begin(s, j) = 0
        BY <3>3 DEF Begin
      <4> QED BY <3>2, <4>1, <4>2
    <3>4. CASE j # 1
      <4>1. j - 1 \in 1 .. n
        BY <1>1, <3>4
      <4>2. f[j] = f[j - 1] \o s[j] /\ f[j - 1] \in T /\ s[j] \in T
        BY <1>1, <2>1, <3>4, <4>1
      <4>3. Begin(s, j) = Len(f[j - 1])
        BY <3>4 DEF Begin, f
      <4> QED BY <1>3, <3>2, <4>2, <4>3
    <3> QED BY <3>3, <3>4
  <2>4. Begin(s, n + 1) = Len(FlattenSeq(s))
    <3>1. n + 1 # 1 /\ (n + 1) - 1 = n
      BY <1>1, <1>5
    <3> QED BY <2>1, <3>1 DEF Begin, f
  <2>5. Begin(s, 1) = 0
    BY DEF Begin
  <2> QED BY <2>2, <2>3, <2>4, <2>5 DEF n
<1> QED BY <1>4, <1>5

LEMMA PiecesLie ==
  ASSUME NEW s \in Seq(Seq(Nat)), NEW p, BytesAt(FlattenSeq(s), p), file \in Seq(Nat),
         NEW j \in 1 .. Len(s)
  PROVE  BytesAt(s[j], p + Begin(s, j))
<1> DEFINE n == Len(s)
           f == Built(s)
           T == Seq(Nat)
           Bad == {d \in 0 .. n - 1 : ~BytesAt(f[n - d], p)}
<1>1. n \in Nat /\ n # 0 /\ \A i \in 1 .. n : s[i] \in T
  OBVIOUS
<1>2. /\ f \in [1 .. n -> T] /\ FlattenSeq(s) = f[n]
      /\ \A i \in 1 .. n : f[i] = IF i = 1 THEN s[i] ELSE f[i - 1] \o s[i]
  BY <1>1, BuiltFacts DEF Builds
<1>3. \A q, r \in T : BytesAt(q \o r, p) => BytesAt(q, p) /\ BytesAt(r, p + Len(q))
  BY BytesSplit
<1> HIDE DEF f, T, n
<1>4. Bad = {}
  <2> SUFFICES ASSUME Bad # {} PROVE FALSE
    OBVIOUS
  <2>1. \E d \in Bad : \A e \in Bad : d <= e
    <3>1. Bad \in SUBSET Nat
      BY <1>1
    <3> HIDE DEF Bad
    <3> QED BY <3>1, LeastNatural
  <2>2. PICK d \in Bad : \A e \in Bad : d <= e
    BY <2>1
  <2>3. d \in 0 .. n - 1 /\ ~BytesAt(f[n - d], p)
    OBVIOUS
  <2>4. d # 0
    <3>1. d = 0 => n - d = n
      BY <1>1
    <3> QED BY <1>2, <2>3, <3>1 DEF n
  <2>5. d - 1 \in 0 .. n - 1 /\ ~ (d <= d - 1)
    BY <1>1, <2>3, <2>4
  <2>6. BytesAt(f[n - (d - 1)], p)
    BY <2>2, <2>5
  <2>7. n - (d - 1) \in 1 .. n /\ n - (d - 1) # 1 /\ (n - (d - 1)) - 1 = n - d
          /\ n - d \in 1 .. n
    BY <1>1, <2>3, <2>5
  <2>8. f[n - (d - 1)] = f[n - d] \o s[n - (d - 1)] /\ f[n - d] \in T
          /\ s[n - (d - 1)] \in T
    BY <1>1, <1>2, <2>7
  <2> QED BY <1>3, <2>3, <2>6, <2>8
<1>5. BytesAt(f[j], p)
  <2>1. n - j \in 0 .. n - 1 /\ n - (n - j) = j
    BY <1>1 DEF n
  <2> QED BY <1>4, <2>1
<1>6. j \in 1 .. n
  BY DEF n
<1>7. CASE j = 1
  <2>1. f[j] = s[j] /\ Begin(s, j) = 0
    BY <1>2, <1>6, <1>7 DEF Begin
  <2>2. p + 0 = p
    BY DEF BytesAt
  <2> QED BY <1>5, <2>1, <2>2
<1>8. CASE j # 1
  <2>1. j - 1 \in 1 .. n
    BY <1>1, <1>6, <1>8
  <2>2. f[j] = f[j - 1] \o s[j] /\ f[j - 1] \in T /\ s[j] \in T
    BY <1>1, <1>2, <1>6, <1>8, <2>1
  <2>3. Begin(s, j) = Len(f[j - 1])
    BY <1>8 DEF Begin, f
  <2> QED BY <1>3, <1>5, <2>2, <2>3
<1> QED BY <1>7, <1>8

-------------------------------------------------------------------------------
(* Vectors and collections: their frames hold those of their parts *)

Container(o) == o.type \in {"Vector", "Collection"}

KeyBytes(o, j) ==
  IF o.type = "Collection" THEN StringBytes(o.parts[j].key) ELSE <<>>

Pieces(o) == [j \in DOMAIN o.parts |-> KeyBytes(o, j) \o Frame[o.parts[j].value]]

\* Where in the frame of o its j-th part begins, with its key.
PartAt(o, j) == 4 + Begin(Pieces(o), j)

LEMMA PartFacts ==
  ASSUME NEW o \in Objects
  PROVE  /\ Len(o.parts) \in Nat /\ DOMAIN o.parts = 1 .. Len(o.parts)
         /\ \A j \in 1 .. Len(o.parts) :
              /\ o.parts[j] = [key |-> o.parts[j].key, value |-> o.parts[j].value]
              /\ o.parts[j].key \in Seq(Nat) /\ o.parts[j].value \in Objects
              /\ Frame[o.parts[j].value] \in Seq(Nat)
              /\ KeyBytes(o, j) \in Seq(Nat)
<1> DEFINE R == [key : Seq(Nat), value : Objects]
           n == Len(o.parts)
<1>1. o.parts \in Seq(R)
  BY InsideIsObjects
<1> HIDE DEF R
<1>2. n \in Nat /\ DOMAIN o.parts = 1 .. n /\ \A j \in 1 .. n : o.parts[j] \in R
  BY <1>1
<1>3. ASSUME NEW j \in 1 .. n
      PROVE  /\ o.parts[j] = [key |-> o.parts[j].key, value |-> o.parts[j].value]
             /\ o.parts[j].key \in Seq(Nat) /\ o.parts[j].value \in Objects
             /\ Frame[o.parts[j].value] \in Seq(Nat)
             /\ KeyBytes(o, j) \in Seq(Nat)
  <2> DEFINE r == o.parts[j]
  <2>1. r \in R
    BY <1>2
  <2> HIDE DEF r
  <2>2. r = [key |-> r.key, value |-> r.value] /\ r.key \in Seq(Nat) /\ r.value \in Objects
    BY <2>1 DEF R
  <2>3. Frame[r.value] \in Seq(Nat)
    BY <2>2, FrameEquation
  <2>4. StringBytes(r.key) \in Seq(Nat) /\ <<>> \in Seq(Nat)
    BY <2>2, StringBytesType
  <2> QED BY <2>2, <2>3, <2>4 DEF KeyBytes, r
<1> QED BY <1>2, <1>3

LEMMA PiecesFacts ==
  ASSUME NEW o \in Objects, Container(o)
  PROVE  /\ Pieces(o) \in Seq(Seq(Nat)) /\ Len(Pieces(o)) = Len(o.parts)
         /\ \A j \in 1 .. Len(o.parts) :
              Pieces(o)[j] = KeyBytes(o, j) \o Frame[o.parts[j].value]
         /\ PayloadOf(o) = <<Len(o.parts)>> \o FlattenSeq(Pieces(o))
         /\ <<Len(o.parts)>> \in Seq(Nat)
         /\ FlattenSeq(Pieces(o)) \in Seq(Nat)
<1> DEFINE n == Len(o.parts)
           T == Seq(Nat)
           p == Pieces(o)
           frame == [i \in DOMAIN o.parts |-> Frame[o.parts[i].value]]
           keys == [i \in DOMAIN o.parts |-> o.parts[i].key]
<1>1. /\ n \in Nat /\ DOMAIN o.parts = 1 .. n
      /\ \A j \in 1 .. n : /\ Frame[o.parts[j].value] \in T /\ KeyBytes(o, j) \in T
  BY PartFacts
<1>2. \A s, t \in T : s \o t \in T
  BY ConcatProperties
<1>3. \A s \in T : <<>> \o s = s
  BY ConcatEmptySeq
<1>4. p = [j \in 1 .. n |-> KeyBytes(o, j) \o Frame[o.parts[j].value]]
  BY <1>1 DEF Pieces
<1> HIDE DEF T, n
<1>5. p \in [1 .. n -> T]
  BY <1>1, <1>2, <1>4
<1> HIDE DEF p
<1>6. p \in Seq(T) /\ Len(p) = n
  BY <1>1, <1>5, FunctionIsSeq
<1>7. \A j \in 1 .. n : p[j] = KeyBytes(o, j) \o Frame[o.parts[j].value]
  BY <1>4
<1>8. frame \in [1 .. n -> T]
  BY <1>1
<1>9. Len(frame) = n
  <2> HIDE DEF frame
  <2> QED BY <1>1, <1>8, FunctionIsSeq
<1>10. PayloadOf(o) = <<n>> \o FlattenSeq(p)
  <2>1. PayloadOf(o) = PayloadWith(o, frame)
    BY DEF PayloadOf
  <2>2. CASE o.type = "Vector"
    <3>1. \A j \in 1 .. n : KeyBytes(o, j) = <<>>
      BY <2>2 DEF KeyBytes
    <3>2. \A j \in 1 .. n : KeyBytes(o, j) \o Frame[o.parts[j].value]
                              = Frame[o.parts[j].value]
      BY <1>1, <1>3, <3>1
    <3>3. p = frame
      BY <1>1, <1>4, <3>2
    <3>4. PayloadWith(o, frame) = VectorBytes(frame)
      BY <2>2 DEF PayloadWith, Counted
    <3> HIDE DEF frame
    <3> QED BY <1>9, <2>1, <3>3, <3>4 DEF VectorBytes
  <2>3. CASE o.type = "Collection"
    <3>1. PayloadWith(o, frame) = CollectionBytes(keys, frame)
      BY <2>3 DEF PayloadWith, Counted
    <3>2. \A j \in 1 .. n : StringBytes(keys[j]) \o frame[j]
                              = KeyBytes(o, j) \o Frame[o.parts[j].value]
      BY <1>1, <2>3 DEF KeyBytes
    <3>3. DOMAIN frame = 1 .. n
      BY <1>1
    <3> DEFINE strings == [j \in DOMAIN frame |-> StringBytes(keys[j]) \o frame[j]]
    <3>4. CollectionBytes(keys, frame) = <<Len(frame)>> \o FlattenSeq(strings)
      BY DEF CollectionBytes
    <3>5. strings = p
      <4> HIDE DEF frame, keys
      <4> QED BY <1>4, <3>2, <3>3
    <3> HIDE DEF frame, strings
    <3> QED BY <1>9, <2>1, <3>1, <3>4, <3>5
  <2> QED BY <2>2, <2>3 DEF Container
<1>11. <<n>> \in Seq(Nat)
  BY <1>1
<1>12. FlattenSeq(p) \in Seq(Nat)
  <2>1. p \in Seq(Seq(Nat))
    BY <1>6 DEF T
  <2> QED BY <2>1, FlattenSeqType
<1> QED BY <1>6, <1>7, <1>10, <1>11, <1>12 DEF T, p, n

LEMMA PartAtFacts ==
  ASSUME NEW o \in Objects, Container(o)
  PROVE  /\ PartAt(o, 1) = 4
         /\ \A j \in 1 .. Len(o.parts) + 1 : PartAt(o, j) \in Nat
         /\ \A j \in 1 .. Len(o.parts) :
              PartAt(o, j + 1) = PartAt(o, j) + Len(KeyBytes(o, j))
                                   + Len(Frame[o.parts[j].value])
         /\ PartAt(o, Len(o.parts) + 1) = Len(Frame[o])
<1> DEFINE n == Len(o.parts)
           p == Pieces(o)
<1>1. /\ p \in Seq(Seq(Nat)) /\ Len(p) = n /\ n \in Nat
      /\ \A j \in 1 .. n : p[j] = KeyBytes(o, j) \o Frame[o.parts[j].value]
      /\ PayloadOf(o) = <<n>> \o FlattenSeq(p)
      /\ <<n>> \in Seq(Nat) /\ FlattenSeq(p) \in Seq(Nat)
  BY PiecesFacts, PartFacts
<1>2. \A j \in 1 .. n : Frame[o.parts[j].value] \in Seq(Nat) /\ KeyBytes(o, j) \in Seq(Nat)
  BY PartFacts
<1> HIDE DEF p, n
<1>3. /\ Begin(p, 1) = 0
      /\ \A j \in 1 .. n + 1 : Begin(p, j) \in Nat
      /\ \A j \in 1 .. n : Begin(p, j + 1) = Begin(p, j) + Len(p[j])
      /\ Begin(p, n + 1) = Len(FlattenSeq(p))
  BY <1>1, BeginFacts
<1>4. ASSUME NEW j \in 1 .. n
      PROVE  Len(p[j]) = Len(KeyBytes(o, j)) + Len(Frame[o.parts[j].value])
               /\ Len(KeyBytes(o, j)) \in Nat /\ Len(Frame[o.parts[j].value]) \in Nat
  <2>1. \A s, t \in Seq(Nat) :
          Len(s \o t) = Len(s) + Len(t) /\ Len(s) \in Nat /\ Len(t) \in Nat
    BY ConcatProperties
  <2>2. /\ p[j] = KeyBytes(o, j) \o Frame[o.parts[j].value]
        /\ Frame[o.parts[j].value] \in Seq(Nat) /\ KeyBytes(o, j) \in Seq(Nat)
    BY <1>1, <1>2
  <2> QED BY ONLY <2>1, <2>2
<1>5. ASSUME NEW j \in 1 .. n
      PROVE  4 + Begin(p, j + 1) = (4 + Begin(p, j)) + Len(KeyBytes(o, j))
                                      + Len(Frame[o.parts[j].value])
  <2> DEFINE x == Len(KeyBytes(o, j))
             y == Len(Frame[o.parts[j].value])
             b == Begin(p, j)
  <2>0. j \in 1 .. n + 1 /\ n \in Nat
    BY <1>1
  <2>1. x \in Nat /\ y \in Nat /\ b \in Nat /\ Begin(p, j + 1) = b + (x + y)
    <3>1. Begin(p, j + 1) = b + Len(p[j])
      BY <1>3
    <3>2. Len(p[j]) = x + y /\ x \in Nat /\ y \in Nat
      BY <1>4
    <3>3. b \in Nat
      BY <2>0, <1>3
    <3> QED BY ONLY <3>1, <3>2, <3>3
  <2> HIDE DEF x, y, b
  <2>2. 4 + (b + (x + y)) = (4 + b) + x + y
    BY <2>1
  <2> QED BY <2>1, <2>2 DEF x, y, b
<1>6. 4 + Len(FlattenSeq(p)) = Len(Frame[o])
  <2>1. Len(Frame[o]) = 3 + Len(PayloadOf(o))
    BY FrameForm
  <2>2. Len(PayloadOf(o)) = Len(<<n>>) + Len(FlattenSeq(p))
    BY <1>1, ConcatProperties
  <2>3. Len(FlattenSeq(p)) \in Nat /\ Len(<<n>>) = 1
    BY <1>1
  <2> QED BY <2>1, <2>2, <2>3
<1>7. \A j \in 1 .. n + 1 : 4 + Begin(p, j) \in Nat
  BY <1>3
<1> QED BY <1>3, <1>5, <1>6, <1>7 DEF PartAt, p, n

LEMMA PartLies ==
  ASSUME NEW o \in Objects, Container(o), NEW a, BytesAt(Frame[o], a), file \in Seq(Nat)
  PROVE  /\ BytesAt(<<Len(o.parts)>>, a + 3)
         /\ \A j \in 1 .. Len(o.parts) :
              /\ BytesAt(KeyBytes(o, j), a + PartAt(o, j))
              /\ BytesAt(Frame[o.parts[j].value], a + PartAt(o, j) + Len(KeyBytes(o, j)))
<1> DEFINE n == Len(o.parts)
           p == Pieces(o)
<1>1. /\ p \in Seq(Seq(Nat)) /\ Len(p) = n /\ n \in Nat
      /\ \A j \in 1 .. n : p[j] = KeyBytes(o, j) \o Frame[o.parts[j].value]
      /\ PayloadOf(o) = <<n>> \o FlattenSeq(p)
      /\ <<n>> \in Seq(Nat) /\ FlattenSeq(p) \in Seq(Nat)
  BY PiecesFacts, PartFacts
<1>2. a \in Nat /\ BytesAt(PayloadOf(o), a + 3)
  BY FrameLies
<1> HIDE DEF p, n
<1>3. BytesAt(<<n>>, a + 3) /\ BytesAt(FlattenSeq(p), (a + 3) + Len(<<n>>))
  BY <1>1, <1>2, BytesSplit
<1>4. (a + 3) + Len(<<n>>) = a + 4
  BY <1>2
<1>5. BytesAt(FlattenSeq(p), a + 4)
  BY <1>3, <1>4
<1>6. ASSUME NEW j \in 1 .. n
      PROVE  /\ BytesAt(KeyBytes(o, j), a + PartAt(o, j))
             /\ BytesAt(Frame[o.parts[j].value], a + PartAt(o, j) + Len(KeyBytes(o, j)))
  <2>1. BytesAt(p[j], (a + 4) + Begin(p, j))
    BY <1>1, <1>5, PiecesLie
  <2>2. Begin(p, j) \in Nat
    <3>1. j \in 1 .. n + 1
      BY <1>1
    <3> QED BY <1>1, <3>1, BeginFacts
  <2>3. (a + 4) + Begin(p, j) = a + PartAt(o, j)
    BY <1>2, <2>2 DEF PartAt, p
  <2>4. Frame[o.parts[j].value] \in Seq(Nat) /\ KeyBytes(o, j) \in Seq(Nat)
    BY PartFacts DEF n
  <2>5. BytesAt(KeyBytes(o, j) \o Frame[o.parts[j].value], a + PartAt(o, j))
    BY <1>1, <2>1, <2>3
  <2> QED BY <2>4, <2>5, BytesSplit
<1> QED BY <1>3, <1>6 DEF n

-------------------------------------------------------------------------------
(* Readable, defined by recursion on the parts like Frame *)

Fit(o) ==
  /\ o.type \in KnownTypes
  /\ o.type \in {"Boolean", "IpAddress"} => o.bytes # <<>>

LEMMA ReadableEquation ==
  ASSUME NEW o \in Objects
  PROVE  Readable[o] <=> Fit(o) /\ \A i \in DOMAIN o.parts : Readable[o.parts[i].value]
<1> DEFINE Def(f) == [x \in Objects |->
             /\ x.type \in KnownTypes
             /\ x.type \in {"Boolean", "IpAddress"} => x.bytes # <<>>
             /\ \A i \in DOMAIN x.parts : f[x.parts[i].value]]
           Closed(D) == \A x \in D : Fit(x) /\ Inside(x) \subseteq D
           R == [x \in Objects |-> \E D \in SUBSET Objects : x \in D /\ Closed(D)]
<1>1. ASSUME NEW x \in Objects
      PROVE  R[x] <=> Fit(x) /\ \A y \in Inside(x) : R[y]
  <2>1. Inside(x) \subseteq Objects
    BY InsideIsObjects
  <2>2. ASSUME R[x] PROVE Fit(x) /\ \A y \in Inside(x) : R[y]
    <3>1. PICK D \in SUBSET Objects : x \in D /\ Closed(D)
      BY <2>2
    <3> QED BY <2>1, <3>1
  <2>3. ASSUME Fit(x), \A y \in Inside(x) : R[y] PROVE R[x]
    <3> DEFINE E == {y \in Objects : R[y]} \cup {x}
    <3>1. ASSUME NEW z \in E PROVE Fit(z) /\ Inside(z) \subseteq E
      <4>1. CASE z = x
        BY <2>1, <2>3, <4>1
      <4>2. CASE z # x
        <5>1. z \in Objects /\ R[z]
          BY <4>2
        <5>2. PICK D \in SUBSET Objects : z \in D /\ Closed(D)
          BY <5>1
        <5>3. \A y \in D : R[y]
          BY <5>2
        <5> QED BY <5>2, <5>3
      <4> QED BY <4>1, <4>2
    <3>2. E \in SUBSET Objects /\ x \in E
      OBVIOUS
    <3> HIDE DEF E
    <3>3. Closed(E)
      BY <3>1
    <3> QED BY <3>2, <3>3
  <2> QED BY <2>2, <2>3
<1>2. ASSUME NEW x \in Objects
      PROVE  R[x] <=> Def(R)[x]
  <2> HIDE DEF R
  <2>1. (\A y \in Inside(x) : R[y]) <=> \A i \in DOMAIN x.parts : R[x.parts[i].value]
    BY DEF Inside
  <2> QED BY <1>1, <2>1 DEF Fit
<1>3. R = Def(R)
  <2>1. R = [x \in Objects |-> R[x]] /\ Def(R) = [x \in Objects |-> Def(R)[x]]
    OBVIOUS
  <2>2. \A x \in Objects : R[x] \in BOOLEAN /\ Def(R)[x] \in BOOLEAN
    OBVIOUS
  <2>3. \A x \in Objects : R[x] = Def(R)[x]
    BY <1>2, <2>2
  <2> HIDE DEF R, Def
  <2> QED BY <2>1, <2>3
<1>4. Readable = CHOOSE f : f = Def(f)
  BY DEF Readable
<1> HIDE DEF R
<1>5. Readable = Def(Readable)
  <2> HIDE DEF Def
  <2> QED BY <1>3, <1>4
<1> QED BY <1>5 DEF Fit

LEMMA TypeIdsDiffer ==
  ASSUME NEW s \in DOMAIN TypeId, NEW t \in DOMAIN TypeId, <<TypeId[s]>> = <<TypeId[t]>>
  PROVE  s = t
<1>1. TypeId[s] = TypeId[t]
  OBVIOUS
<1> QED BY <1>1 DEF TypeId

-------------------------------------------------------------------------------
(* What lies in the file: the frames, and behind them what a failed or       *)
(* interrupted Serialize left                                                *)

IntactAt(k) ==
  /\ frames[k].end = frames[k].start + Len(Frame[frames[k].object])
  /\ BytesAt(Frame[frames[k].object], frames[k].start)

\* A part of the object begun last, unless the writer had turned to another.
RestOK ==
  ~torn =>
    IF wState = "idle" THEN Len(file) = EndOf(Len(frames))
    ELSE /\ Len(file) < EndOf(Len(frames)) + Len(Frame[pending])
         /\ \A i \in EndOf(Len(frames)) + 1 .. Len(file) :
              file[i] = Frame[pending][i - EndOf(Len(frames))]

ContentsOK ==
  /\ \A k \in DOMAIN frames \ damaged : IntactAt(k)
  /\ RestOK
  /\ torn \in BOOLEAN
  /\ wState # "idle" => pending \in Written

LEMMA OverwrittenExactly ==
  ASSUME NEW f \in Seq(Nat), NEW w \in 0 .. Len(f), NEW s \in Seq(Nat),
         NEW n \in 0 .. Len(s)
  PROVE  LET g == Overwrite(f, w, s, n) IN
         /\ Len(g) = IF Len(f) < w + n THEN w + n ELSE Len(f)
         /\ \A i \in 1 .. Len(g) :
              g[i] = IF i \in w + 1 .. w + n THEN s[i - w] ELSE f[i]
<1>1. Len(f) \in Nat /\ Len(s) \in Nat /\ w \in Nat /\ n \in Nat
  OBVIOUS
<1> DEFINE g == Overwrite(f, w, s, n)
           m == IF Len(f) < w + n THEN w + n ELSE Len(f)
<1>2. m \in Nat /\ 1 .. Len(f) \cup 1 .. (w + n) = 1 .. m
  BY <1>1
<1>3. g \in Seq(Nat)
  BY Overwritten
<1> HIDE DEF m
<1>4. g = [i \in 1 .. m |-> IF i \in w + 1 .. w + n THEN s[i - w] ELSE f[i]]
  BY <1>2 DEF Overwrite
<1>5. DOMAIN g = 1 .. m /\ \A i \in 1 .. m :
        g[i] = IF i \in w + 1 .. w + n THEN s[i - w] ELSE f[i]
  BY <1>4
<1> HIDE DEF g
<1>6. Len(g) = m
  <2>1. Len(g) \in Nat /\ 1 .. Len(g) = 1 .. m
    BY <1>3, <1>5
  <2> QED BY <1>2, <2>1
<1> QED BY <1>5, <1>6 DEF g, m

\* Bytes that stay are there still.
LEMMA BytesStay ==
  ASSUME NEW s \in Seq(Nat), NEW p, BytesAt(s, p), file \in Seq(Nat), file' \in Seq(Nat),
         Len(file') >= Len(file),
         \A i \in p + 1 .. p + Len(s) : file'[i] = file[i]
  PROVE  BytesAt(s, p)'
<1>1. p \in Nat /\ p + Len(s) <= Len(file) /\ Len(s) \in Nat /\ Len(file) \in Nat
        /\ Len(file') \in Nat
  BY DEF BytesAt
<1>2. p + Len(s) <= Len(file')
  BY <1>1
<1>3. ASSUME NEW i \in 1 .. Len(s) PROVE file'[p + i] = s[i]
  <2> DEFINE n == Len(s)
  <2>1. p \in Nat /\ n \in Nat /\ i \in 1 .. n
    BY <1>1
  <2> HIDE DEF n
  <2>2. p + i \in p + 1 .. p + n
    BY ONLY <2>1
  <2> QED BY <2>2 DEF BytesAt, n
<1> QED BY <1>1, <1>2, <1>3 DEF BytesAt

\* So is a frame when the bytes up to the end of the last one stay.
LEMMA IntactStays ==
  ASSUME StoreOK, NEW k \in DOMAIN frames, IntactAt(k),
         UNCHANGED frames, file' \in Seq(Nat), Len(file') >= Len(file),
         \A i \in frames[k].start + 1 .. frames[k].end : file'[i] = file[i]
  PROVE  IntactAt(k)'
<1>1. frames[k].object \in Objects /\ file \in Seq(Nat)
  BY EndFacts DEF FrameRecord, StoreOK
<1> DEFINE s == Frame[frames[k].object]
           p == frames[k].start
<1>2. s \in Seq(Nat)
  BY <1>1, FrameHead
<1>3. frames[k].end = p + Len(s) /\ BytesAt(s, p)
  BY DEF IntactAt
<1>4. s' = s /\ p' = p
  OBVIOUS
<1>5. BytesAt(s, p)'
  <2> HIDE DEF s, p
  <2>1. \A i \in p + 1 .. p + Len(s) : file'[i] = file[i]
    BY <1>3 DEF p
  <2>2. ASSUME NEW q, NEW t, q = p, t = s PROVE BytesAt(t, q)'
    <3>1. BytesAt(t, q) /\ t \in Seq(Nat) /\ \A i \in q + 1 .. q + Len(t) : file'[i] = file[i]
      BY <1>2, <1>3, <2>1, <2>2
    <3> QED BY <1>1, <3>1, BytesStay
  <2> QED BY <1>2, <1>4, <2>2 DEF BytesAt
<1> QED BY <1>3, <1>4, <1>5 DEF IntactAt

\* Whatever is written behind the frames leaves them.
LEMMA IntactBehind ==
  ASSUME StoreOK, UNCHANGED frames, file' \in Seq(Nat), Len(file') >= Len(file),
         \A i \in 1 .. EndOf(Len(frames)) : file'[i] = file[i],
         NEW k \in DOMAIN frames, IntactAt(k)
  PROVE  IntactAt(k)'
<1>1. /\ frames[k].start \in Nat /\ frames[k].end \in Nat
      /\ frames[k].end <= EndOf(Len(frames)) /\ EndOf(Len(frames)) \in Nat
  BY EndFacts DEF FrameRecord
<1>2. \A i \in frames[k].start + 1 .. frames[k].end : i \in 1 .. EndOf(Len(frames))
  BY <1>1
<1> QED BY <1>2, IntactStays

LEMMA SerializeContents ==
  ASSUME SInv, ContentsOK, NEW o \in Written, Serialize(o)
  PROVE  ContentsOK'
<1>1. /\ UNCHANGED <<file, frames, damaged>> /\ wState' = "length" /\ pending' = o
      /\ wState \in {"idle", "failed"}
      /\ torn' = (torn \/ (wState = "failed" /\ o # pending))
  BY DEF Serialize
<1>2. \A k \in DOMAIN frames' \ damaged' : IntactAt(k)'
  BY <1>1 DEF ContentsOK, IntactAt, BytesAt
<1>3. EndOf(Len(frames))' = EndOf(Len(frames))
  BY <1>1 DEF EndOf
<1>4. torn' \in BOOLEAN
  BY <1>1 DEF ContentsOK
<1>5. RestOK'
  <2> SUFFICES ASSUME ~torn'
               PROVE  /\ Len(file) < EndOf(Len(frames)) + Len(Frame[o])
                      /\ \A i \in EndOf(Len(frames)) + 1 .. Len(file) :
                           file[i] = Frame[o][i - EndOf(Len(frames))]
    BY <1>1, <1>3 DEF RestOK
  <2>1. ~torn /\ (wState = "failed" => o = pending)
    BY <1>1
  <2>2. CASE wState = "failed"
    BY <1>1, <2>1, <2>2 DEF ContentsOK, RestOK
  <2>3. CASE wState = "idle"
    <3>1. Len(file) = EndOf(Len(frames)) /\ EndOf(Len(frames)) \in Nat
      BY <2>1, <2>3, EndFacts DEF ContentsOK, RestOK, SInv
    <3>2. Len(Frame[o]) \in Nat /\ Len(Frame[o]) >= 3
      BY FrameHead, WrittenAssumption DEF WrittenAssumption
    <3> QED BY <3>1, <3>2
  <2> QED BY <1>1, <2>2, <2>3
<1> QED BY <1>1, <1>2, <1>4, <1>5 DEF ContentsOK

\* Written at the end of the frames or behind it, a part of the frame of the
\* object begun is part of the rest.
LEMMA RestWritten ==
  ASSUME StoreOK, RestOK, wState # "idle", wState' # "idle", UNCHANGED <<pending, frames, torn>>,
         pending \in Objects,
         NEW s \in Seq(Nat), NEW n \in 0 .. Len(s), NEW w \in 0 .. Len(file),
         file' = Overwrite(file, w, s, n),
         NEW a \in Nat, a = EndOf(Len(frames)), w >= a,
         w + n < a + Len(Frame[pending]),
         \A i \in 1 .. n : s[i] = Frame[pending][(w - a) + i]
  PROVE  RestOK'
<1> DEFINE F == Frame[pending]
<1>1. file \in Seq(Nat) /\ Len(file) \in Nat /\ w \in Nat /\ n \in Nat
        /\ F \in Seq(Nat) /\ Len(F) \in Nat
  BY FrameHead DEF StoreOK
<1>2. /\ Len(file') = IF Len(file) < w + n THEN w + n ELSE Len(file)
      /\ \A i \in 1 .. Len(file') :
           file'[i] = IF i \in w + 1 .. w + n THEN s[i - w] ELSE file[i]
  <2>1. file \in Seq(Nat)
    BY <1>1
  <2> QED BY <2>1, OverwrittenExactly
<1>3. EndOf(Len(frames))' = a /\ F' = F
  BY DEF EndOf
<1> HIDE DEF F
<1> SUFFICES ASSUME ~torn
             PROVE  /\ Len(file') < a + Len(F)
                    /\ \A i \in a + 1 .. Len(file') : file'[i] = F[i - a]
  <2>1. torn' = torn /\ pending' = pending
    OBVIOUS
  <2> QED BY <1>3, <2>1 DEF RestOK, F
<1>4. Len(file) < a + Len(F) /\ \A i \in a + 1 .. Len(file) : file[i] = F[i - a]
  BY DEF RestOK, F
<1>5. Len(file') < a + Len(F)
  BY <1>1, <1>2, <1>4 DEF F
<1>6. ASSUME NEW i \in a + 1 .. Len(file') PROVE file'[i] = F[i - a]
  <2>1. i \in 1 .. Len(file') /\ i \in Nat
    BY <1>1, <1>2
  <2>2. CASE i \in w + 1 .. w + n
    <3>1. file'[i] = s[i - w]
      BY <1>2, <2>1, <2>2
    <3>2. i - w \in 1 .. n /\ (w - a) + (i - w) = i - a
      BY <1>1, <2>2
    <3>3. s[i - w] = F[(w - a) + (i - w)]
      BY <3>2 DEF F
    <3> QED BY <3>1, <3>2, <3>3
  <2>3. CASE i \notin w + 1 .. w + n
    <3>1. file'[i] = file[i]
      BY <1>2, <2>1, <2>3
    <3>2. i \in a + 1 .. Len(file)
      <4>1. CASE Len(file) < w + n
        <5>1. i <= w + n
          BY <1>2, <4>1
        <5>2. i <= w
          BY <1>1, <2>1, <2>3, <5>1
        <5> QED BY <1>1, <2>1, <5>2
      <4>2. CASE ~ (Len(file) < w + n)
        BY <1>2, <4>2
      <4> QED BY <4>1, <4>2
    <3> QED BY <1>4, <3>1, <3>2
  <2> QED BY <2>2, <2>3
<1> QED BY <1>5, <1>6

LEMMA WriteFailsContents ==
  ASSUME ContentsOK, WriteFails, wState # "idle",
         UNCHANGED <<file, pending, frames, torn, damaged>>
  PROVE  ContentsOK'
<1>1. wState' = "failed"
  BY DEF WriteFails
<1>2. \A k \in DOMAIN frames' \ damaged' : IntactAt(k)'
  BY DEF ContentsOK, IntactAt, BytesAt
<1>3. EndOf(Len(frames))' = EndOf(Len(frames))
  BY DEF EndOf
<1>4. RestOK'
  BY <1>1, <1>3 DEF ContentsOK, RestOK
<1> QED BY <1>2, <1>4 DEF ContentsOK

LEMMA WriteLengthContents ==
  ASSUME SInv, ContentsOK, WriteLength
  PROVE  ContentsOK'
<1>1. /\ StoreOK /\ Len(frames) \in Nat /\ EndOf(Len(frames)) \in Nat
      /\ file \in Seq(Nat) /\ Len(file) \in Nat
  BY EndFacts DEF SInv, StoreOK
<1>2. wState = "length" /\ pending \in Objects /\ wPosition = EndOf(Len(frames))
        /\ wPosition \in 0 .. Len(file)
        /\ UNCHANGED <<pending, frames, torn, damaged>>
  BY DEF SInv, WriterOK, WriteLength
<1>3. CASE WriteFails /\ UNCHANGED file
  BY <1>2, <1>3, WriteFailsContents
<1>4. CASE /\ Write(SubSeq(Frame[pending], 1, 1))
           /\ wState' = "data"
  <2> DEFINE s == SubSeq(Frame[pending], 1, 1)
  <2>1. s \in Seq(Nat) /\ Len(s) = 1 /\ s[1] = Frame[pending][1] /\ Len(Frame[pending]) \in Nat
          /\ Len(Frame[pending]) >= 3
    <3>1. Frame[pending] \in Seq(Nat) /\ Frame[pending][1] \in Nat
            /\ Len(Frame[pending]) \in Nat /\ Len(Frame[pending]) >= 3
      BY <1>2, FrameHead, SMTT(20)
    <3>2. \A i \in 1 .. 1 : Frame[pending][i] \in Nat
      BY <3>1
    <3>3. /\ s \in Seq(Nat) /\ Len(s) = IF 1 <= 1 THEN 1 - 1 + 1 ELSE 0
          /\ \A i \in 1 .. 1 - 1 + 1 : s[i] = Frame[pending][1 + i - 1]
      BY <3>2, SubSeqProperties
    <3> HIDE DEF s
    <3>4. 1 \in 1 .. 1 - 1 + 1 /\ 1 + 1 - 1 = 1
      OBVIOUS
    <3> QED BY <3>1, <3>3, <3>4
  <2>2. file' = Overwrite(file, wPosition, s, 1)
    BY <1>4, <2>1 DEF Write, Overwrite
  <2> HIDE DEF s
  <2>3. 1 \in 0 .. Len(s)
    BY <2>1
  <2>4. file' \in Seq(Nat) /\ Len(file') >= Len(file)
          /\ \A i \in 1 .. wPosition : file'[i] = file[i]
    <3> DEFINE g == Overwrite(file, wPosition, s, 1)
    <3>1. /\ g \in Seq(Nat) /\ Len(g) >= Len(file)
          /\ \A i \in 1 .. wPosition : g[i] = file[i]
      BY ONLY <1>1, <1>2, <2>1, <2>3, Overwritten, ZenonT(30)
    <3>2. file' = g
      BY <2>2
    <3> HIDE DEF g
    <3> QED BY <3>1, <3>2
  <2>5. \A k \in DOMAIN frames \ damaged : IntactAt(k)'
    BY <1>1, <1>2, <2>4, IntactBehind DEF ContentsOK
  <2>6. RestOK'
    <3> DEFINE a == EndOf(Len(frames))
    <3>1. a \in Nat /\ wPosition = a /\ wPosition >= a
      BY <1>1, <1>2
    <3> HIDE DEF a
    <3>2. wPosition + 1 < a + Len(Frame[pending])
      BY <2>1, <3>1
    <3>3. \A i \in 1 .. 1 : s[i] = Frame[pending][(wPosition - a) + i]
      BY <2>1, <3>1
    <3>4. a = EndOf(Len(frames))
      BY DEF a
    <3>5. wState # "idle" /\ wState' # "idle" /\ RestOK
      BY <1>2, <1>4 DEF ContentsOK
    <3> QED BY <1>1, <1>2, <2>1, <2>2, <2>3, <3>1, <3>2, <3>3, <3>4, <3>5, RestWritten
  <2> QED BY <1>2, <2>5, <2>6 DEF ContentsOK
<1> QED BY <1>3, <1>4 DEF WriteLength

\* What the second Write writes.
LEMMA DataFacts ==
  ASSUME SInv, wState = "data"
  PROVE  LET s == Tail(Frame[pending]) IN
         /\ s \in Seq(Nat) /\ Len(s) = Len(Frame[pending]) - 1 /\ Len(s) \in Nat
         /\ \A i \in 1 .. Len(s) : s[i] = Frame[pending][i + 1]
         /\ pending \in Objects /\ Len(Frame[pending]) \in Nat /\ Len(Frame[pending]) >= 3
         /\ StoreOK /\ Len(frames) \in Nat /\ EndOf(Len(frames)) \in Nat
         /\ file \in Seq(Nat) /\ Len(file) \in Nat
         /\ wPosition \in 0 .. Len(file)
         /\ startingPosition = EndOf(Len(frames)) /\ wPosition = EndOf(Len(frames)) + 1
<1>1. /\ StoreOK /\ Len(frames) \in Nat /\ EndOf(Len(frames)) \in Nat
      /\ file \in Seq(Nat) /\ Len(file) \in Nat
  BY EndFacts DEF SInv, StoreOK
<1>2. /\ pending \in Objects /\ wPosition \in 0 .. Len(file)
      /\ startingPosition = EndOf(Len(frames)) /\ wPosition = EndOf(Len(frames)) + 1
  BY DEF SInv, WriterOK
<1>3. Frame[pending] \in Seq(Nat) /\ Frame[pending] # <<>> /\ Len(Frame[pending]) \in Nat
        /\ Len(Frame[pending]) >= 3
  BY <1>2, FrameHead
<1> DEFINE s == Tail(Frame[pending])
<1>4. s \in Seq(Nat) /\ Len(s) = Len(Frame[pending]) - 1 /\ Len(s) \in Nat
        /\ \A i \in 1 .. Len(s) : s[i] = Frame[pending][i + 1]
  BY <1>3, HeadTailProperties
<1> HIDE DEF s
<1> QED BY <1>1, <1>2, <1>3, <1>4 DEF s

LEMMA WriteDataShortContents ==
  ASSUME SInv, ContentsOK, WriteDataShort
  PROVE  ContentsOK'
<1> DEFINE s == Tail(Frame[pending])
           a == EndOf(Len(frames))
<1>1. wState = "data" /\ wState' = "failed" /\ UNCHANGED <<pending, frames, torn, damaged>>
  BY DEF WriteDataShort, WriteFails
<1>2. PICK n \in ShortWrites \cap 0 .. Len(Frame[pending]) - 2 :
        file' = [i \in 1 .. Len(file) \cup 1 .. (wPosition + n) |->
                   IF i \in wPosition + 1 .. wPosition + n
                   THEN Frame[pending][i - wPosition + 1] ELSE file[i]]
  BY DEF WriteDataShort
<1>3. /\ s \in Seq(Nat) /\ Len(s) = Len(Frame[pending]) - 1 /\ Len(s) \in Nat
      /\ \A i \in 1 .. Len(s) : s[i] = Frame[pending][i + 1]
      /\ pending \in Objects /\ Len(Frame[pending]) \in Nat /\ Len(Frame[pending]) >= 3
      /\ StoreOK /\ a \in Nat
      /\ file \in Seq(Nat) /\ Len(file) \in Nat /\ wPosition \in 0 .. Len(file)
      /\ wPosition = a + 1
  BY <1>1, DataFacts
<1> HIDE DEF s
<1>4. n \in 0 .. Len(s) /\ n \in Nat /\ n <= Len(Frame[pending]) - 2
  <2> DEFINE m == Len(Frame[pending])
             l == Len(s)
  <2>1. n \in 0 .. m - 2 /\ m \in Nat /\ l = m - 1
    BY <1>3
  <2> HIDE DEF m, l
  <2>2. n \in 0 .. l /\ n \in Nat /\ n <= m - 2
    BY ONLY <2>1
  <2> QED BY <2>2 DEF m, l
<1>5. \A i \in wPosition + 1 .. wPosition + n :
        Frame[pending][i - wPosition + 1] = s[i - wPosition]
  <2> SUFFICES ASSUME NEW i \in wPosition + 1 .. wPosition + n
               PROVE  Frame[pending][i - wPosition + 1] = s[i - wPosition]
    OBVIOUS
  <2> DEFINE l == Len(s)
             w == wPosition
  <2>0. w \in Nat
    BY <1>3
  <2>1. i \in w + 1 .. w + n /\ n \in 0 .. l /\ l \in Nat
    BY <1>3, <1>4
  <2> HIDE DEF l, w
  <2>2. i - w \in 1 .. l
    BY ONLY <2>0, <2>1
  <2> QED BY <1>3, <2>2 DEF l, w
<1>6. file' = Overwrite(file, wPosition, s, n)
  BY <1>2, <1>5 DEF Overwrite
<1>7. file' \in Seq(Nat) /\ Len(file') >= Len(file)
        /\ \A i \in 1 .. wPosition : file'[i] = file[i]
  BY <1>3, <1>4, <1>6, Overwritten
<1>8. \A i \in 1 .. a : file'[i] = file[i]
  <2> HIDE DEF a
  <2>1. \A i \in 1 .. a : i \in 1 .. wPosition
    BY ONLY <1>3
  <2> QED BY <1>7, <2>1
<1>9. \A k \in DOMAIN frames \ damaged : IntactAt(k)'
  BY <1>1, <1>3, <1>7, <1>8, IntactBehind DEF ContentsOK
<1>10. RestOK'
  <2>1. a = EndOf(Len(frames))
    OBVIOUS
  <2>2. wState # "idle" /\ wState' # "idle" /\ RestOK
    BY <1>1 DEF ContentsOK
  <2> HIDE DEF a
  <2>3. wPosition + n < a + Len(Frame[pending]) /\ wPosition >= a
    BY <1>3, <1>4
  <2>4. ASSUME NEW i \in 1 .. n PROVE s[i] = Frame[pending][(wPosition - a) + i]
    <3>1. i \in 1 .. Len(s) /\ (wPosition - a) + i = i + 1
      BY <1>3, <1>4
    <3> QED BY <1>3, <3>1
  <2>5. StoreOK /\ UNCHANGED <<pending, frames, torn>> /\ pending \in Objects
          /\ s \in Seq(Nat) /\ n \in 0 .. Len(s) /\ wPosition \in 0 .. Len(file) /\ a \in Nat
    BY <1>1, <1>3, <1>4
  <2> QED BY ONLY <1>6, <2>1, <2>2, <2>3, <2>4, <2>5, RestWritten
<1> QED BY <1>1, <1>9, <1>10 DEF ContentsOK

\* The object is in the file, and nothing behind it.
LEMMA WriteDataContents ==
  ASSUME SInv, ContentsOK, WriteData
  PROVE  ContentsOK'
<1> DEFINE s == Tail(Frame[pending])
           F == Frame[pending]
           a == EndOf(Len(frames))
           n == Len(frames)
           f == [object |-> pending, start |-> startingPosition, end |-> wPosition']
<1>1. wState = "data" /\ wState' = "idle" /\ UNCHANGED <<torn, damaged, pending>>
        /\ damaged \subseteq DOMAIN frames
  BY DEF WriteData, SInv
<1>2. /\ s \in Seq(Nat) /\ Len(s) = Len(F) - 1 /\ Len(s) \in Nat
      /\ \A i \in 1 .. Len(s) : s[i] = F[i + 1]
      /\ pending \in Objects /\ Len(F) \in Nat /\ Len(F) >= 3
      /\ StoreOK /\ n \in Nat /\ a \in Nat
      /\ file \in Seq(Nat) /\ Len(file) \in Nat /\ wPosition \in 0 .. Len(file)
      /\ startingPosition = a /\ wPosition = a + 1
  BY <1>1, DataFacts
<1>3. file[wPosition] = Len(F) - 1 /\ F[1] = Len(F) - 1 /\ F \in Seq(Nat)
  BY <1>1, <1>2, FrameHead DEF SInv, WriterOK, WriteData
<1>4. /\ file' = Overwrite(file, wPosition, s, Len(s))
      /\ wPosition' = wPosition + Len(s)
      /\ frames' = Append(frames, f)
  BY DEF WriteData, Write, Overwrite
<1> HIDE DEF s
<1>5. /\ file' \in Seq(Nat) /\ Len(file') >= Len(file) /\ Len(file') \in Nat
      /\ Len(file') = IF Len(file) < wPosition + Len(s) THEN wPosition + Len(s) ELSE Len(file)
      /\ \A i \in 1 .. wPosition : file'[i] = file[i]
      /\ \A i \in 1 .. Len(s) : file'[wPosition + i] = s[i]
  <2>1. Len(s) \in 0 .. Len(s)
    BY <1>2
  <2> DEFINE g == Overwrite(file, wPosition, s, Len(s))
  <2>2. /\ g \in Seq(Nat) /\ Len(g) \in Nat /\ Len(g) >= Len(file)
        /\ \A i \in 1 .. wPosition : g[i] = file[i]
        /\ \A i \in 1 .. Len(s) : g[wPosition + i] = s[i]
    BY ONLY <1>2, <2>1, Overwritten, ZenonT(30)
  <2>3. /\ Len(file') = IF Len(file) < wPosition + Len(s) THEN wPosition + Len(s) ELSE Len(file)
        /\ \A i \in 1 .. Len(file') :
             file'[i] = IF i \in wPosition + 1 .. wPosition + Len(s)
                        THEN s[i - wPosition] ELSE file[i]
    <3>1. file \in Seq(Nat) /\ wPosition \in 0 .. Len(file) /\ s \in Seq(Nat)
            /\ file' = Overwrite(file, wPosition, s, Len(s))
      BY <1>2, <1>4
    <3> HIDE DEF g
    <3> QED BY ONLY <2>1, <3>1, OverwrittenExactly
  <2>4. file' = g
    BY <1>4
  <2> HIDE DEF g
  <2> QED BY <2>2, <2>3, <2>4
<1>6. wPosition' = a + Len(F)
  <2> HIDE DEF a, F
  <2> QED BY ONLY <1>2, <1>4
<1>7. DOMAIN frames = 1 .. n /\ frames \in Seq(FrameRecord) /\ frames' \in Seq(FrameRecord)
  <2>1. SInv'
    BY WriteDataKeeps, NotReading DEF WriteData
  <2> QED BY <2>1, EndFacts DEF SInv, StoreOK
<1> DEFINE R == FrameRecord
<1>8. /\ DOMAIN frames' = 1 .. n + 1 /\ Len(frames') = n + 1
      /\ \A i \in 1 .. n : frames'[i] = frames[i]
      /\ frames'[n + 1] = f
  <2>1. f \in R
    <3>1. wPosition' \in Nat /\ startingPosition \in Nat
      <4> HIDE DEF a, F
      <4> QED BY ONLY <1>2, <1>6
    <3> QED BY <1>2, <3>1 DEF FrameRecord
  <2> HIDE DEF R, f
  <2>2. frames \in Seq(R)
    BY <1>7 DEF R
  <2>3. /\ frames' \in Seq(R) /\ Len(frames') = n + 1
        /\ \A i \in 1 .. n : frames'[i] = frames[i]
        /\ frames'[n + 1] = f
    BY <1>2, <1>4, <2>1, <2>2, AppendProperties
  <2> QED BY <1>2, <2>3
<1>9. ASSUME NEW k \in 1 .. n, IntactAt(k) PROVE IntactAt(k)'
  <2> DEFINE o == frames[k].object
             p == frames[k].start
             e == frames[k].end
  <2>1. p \in Nat /\ e \in Nat /\ e <= a /\ o \in Objects
    BY <1>2, <1>7, EndFacts DEF FrameRecord
  <2>2. frames'[k] = frames[k]
    BY <1>8
  <2>3. e = p + Len(Frame[o]) /\ BytesAt(Frame[o], p)
    BY <1>9 DEF IntactAt
  <2>4. Frame[o] \in Seq(Nat)
    BY <2>1, FrameHead
  <2> HIDE DEF o, p, e, a
  <2>5. \A i \in p + 1 .. p + Len(Frame[o]) : file'[i] = file[i]
    <3>1. \A i \in p + 1 .. e : i \in 1 .. wPosition
      BY ONLY <1>2, <2>1
    <3> QED BY <1>5, <2>3, <3>1
  <2>6. ASSUME NEW q, NEW t, q = p, t = Frame[o] PROVE BytesAt(t, q)'
    <3>1. BytesAt(t, q) /\ t \in Seq(Nat) /\ \A i \in q + 1 .. q + Len(t) : file'[i] = file[i]
      BY <2>3, <2>4, <2>5, <2>6
    <3> QED BY <1>2, <1>5, <3>1, BytesStay
  <2>7. frames'[k].object = o /\ frames'[k].start = p /\ frames'[k].end = e
    BY <2>2 DEF o, p, e
  <2>8. BytesAt(Frame[frames[k].object], frames[k].start)'
    BY <2>6, <2>7 DEF BytesAt
  <2> QED BY <2>3, <2>7, <2>8 DEF IntactAt
<1>10. ASSUME NEW k, k = n + 1 PROVE IntactAt(k)'
  <2>1. frames'[k].object = pending /\ frames'[k].start = a /\ frames'[k].end = a + Len(F)
    BY <1>2, <1>6, <1>8, <1>10
  <2> HIDE DEF a, F
  <2>2. a + Len(F) <= Len(file')
    BY ONLY <1>2, <1>5
  <2>3. ASSUME NEW i \in 1 .. Len(F) PROVE file'[a + i] = F[i]
    <3>1. CASE i = 1
      <4>1. wPosition \in 1 .. wPosition /\ a + i = wPosition
        BY ONLY <1>2, <3>1
      <4> QED BY <1>3, <1>5, <3>1, <4>1 DEF F
    <3>2. CASE i # 1
      <4>1. i - 1 \in 1 .. Len(s) /\ wPosition + (i - 1) = a + i /\ (i - 1) + 1 = i
        BY ONLY <1>2, <3>2, <2>3
      <4>2. file'[wPosition + (i - 1)] = s[i - 1] /\ s[i - 1] = F[(i - 1) + 1]
        BY <1>2, <1>5, <4>1
      <4> QED BY <4>1, <4>2
    <3> QED BY <3>1, <3>2
  <2>4. BytesAt(Frame[frames[k].object], frames[k].start)'
    BY <1>2, <2>1, <2>2, <2>3 DEF BytesAt, F
  <2> QED BY <2>1, <2>4 DEF IntactAt, F
<1>11. \A k \in DOMAIN frames' \ damaged' : IntactAt(k)'
  <2>1. ASSUME NEW k \in DOMAIN frames' \ damaged' PROVE IntactAt(k)'
    <3>1. k \in 1 .. n + 1 /\ k \notin damaged
      BY <1>1, <1>8
    <3>2. CASE k = n + 1
      BY <1>10, <3>2
    <3>3. CASE k # n + 1
      <4>1. k \in 1 .. n
        BY <1>2, <3>1, <3>3
      <4>2. IntactAt(k)
        BY <1>7, <3>1, <4>1 DEF ContentsOK
      <4> QED BY <1>9, <4>1, <4>2
    <3> QED BY <3>2, <3>3
  <2> QED BY <2>1
<1>12. RestOK'
  <2>1. EndOf(Len(frames))' = a + Len(F)
    <3>1. n + 1 # 0 /\ f.end = a + Len(F)
      BY <1>2, <1>6
    <3> HIDE DEF f, n
    <3> QED BY <1>8, <3>1 DEF EndOf
  <2>2. ~torn' => Len(file) < a + Len(F)
    BY <1>1 DEF ContentsOK, RestOK
  <2> HIDE DEF a, F
  <2>3. ~torn' => Len(file') = a + Len(F)
    <3>1. wPosition + Len(s) = a + Len(F)
      BY <1>2
    <3> QED BY <1>5, <2>2, <3>1
  <2> QED BY <1>1, <2>1, <2>3 DEF RestOK
<1> QED BY <1>1, <1>11, <1>12 DEF ContentsOK

\* Damage within a frame leaves the others and the rest.
LEMMA DamageContents ==
  ASSUME SInv, ContentsOK, Damage
  PROVE  ContentsOK'
<1>1. PICK k \in DOMAIN frames \ damaged : \E kind \in DamageKinds :
        \E d \in DamageAt(frames[k], kind) :
          /\ file' = [file EXCEPT ![d[1]] = d[2]]
          /\ damaged' = damaged \cup {k}
  BY DEF Damage
<1>2. PICK kind \in DamageKinds : \E d \in DamageAt(frames[k], kind) :
        /\ file' = [file EXCEPT ![d[1]] = d[2]]
        /\ damaged' = damaged \cup {k}
  BY <1>1
<1>3. PICK d \in DamageAt(frames[k], kind) :
        /\ file' = [file EXCEPT ![d[1]] = d[2]]
        /\ damaged' = damaged \cup {k}
  BY <1>2
<1>4. UNCHANGED <<frames, wState, pending, torn>>
  BY DEF Damage, writerVars
<1>5. /\ frames[k].start \in Nat /\ frames[k].end \in Nat
      /\ d[1] \in frames[k].start + 2 .. frames[k].end /\ d[2] \in Nat
      /\ d[1] \in 1 .. Len(file)
  BY DamagedByte
<1>6. /\ file' \in Seq(Nat) /\ Len(file') = Len(file)
      /\ \A j \in 1 .. Len(file) : file'[j] = IF j = d[1] THEN d[2] ELSE file[j]
  <2>1. file \in Seq(Nat)
    BY DEF SInv, StoreOK
  <2> QED BY <1>3, <1>5, <2>1, ExceptSeq, SMTT(20)
<1>7. /\ StoreOK /\ Len(file) \in Nat /\ DOMAIN frames = 1 .. Len(frames) /\ Len(frames) \in Nat
      /\ EndOf(Len(frames)) \in Nat /\ EndOf(Len(frames)) <= Len(file)
      /\ \A j \in DOMAIN frames : /\ frames[j].start \in Nat /\ frames[j].end \in Nat
                                  /\ frames[j].end <= EndOf(Len(frames))
                                  /\ frames[j].end <= Len(file)
  <2>1. StoreOK
    BY DEF SInv
  <2>2. Len(frames) \in 0 .. Len(frames)
    BY <2>1, EndFacts
  <2> QED BY <2>1, <2>2, EndFacts DEF FrameRecord, StoreOK
<1>8. ASSUME NEW j \in DOMAIN frames \ damaged' PROVE IntactAt(j)'
  <2> DEFINE a == frames[j].start
             b == frames[j].end
  <2>1. j # k /\ j \in DOMAIN frames \ damaged
    BY <1>3
  <2>2. a \in Nat /\ b \in Nat /\ b <= Len(file)
    BY <1>7
  <2>3. b <= frames[k].start \/ frames[k].end <= a
    <3>1. j \in 1 .. k - 1 \/ k \in 1 .. j - 1
      BY <1>7, <2>1
    <3> QED BY <1>7, <3>1 DEF StoreOK
  <2> HIDE DEF a, b
  <2>4. \A i \in a + 1 .. b : i \in 1 .. Len(file) /\ i # d[1]
    BY ONLY <1>5, <1>7, <2>2, <2>3
  <2>5. \A i \in a + 1 .. b : file'[i] = file[i]
    BY <1>6, <2>4
  <2>6. IntactAt(j)
    BY <2>1 DEF ContentsOK
  <2>7. Len(file') >= Len(file)
    BY <1>6, <1>7
  <2> QED BY <1>4, <1>6, <1>7, <2>5, <2>6, <2>7, IntactStays DEF a, b
<1>9. RestOK'
  <2>1. EndOf(Len(frames))' = EndOf(Len(frames))
    BY <1>4 DEF EndOf
  <2> DEFINE e == EndOf(Len(frames))
  <2>2. e \in Nat /\ d[1] <= e
    <3>1. frames[k].end <= e
      BY <1>7
    <3> HIDE DEF e
    <3> QED BY <1>5, <1>7, <3>1 DEF e
  <2> HIDE DEF e
  <2>3. \A i \in e + 1 .. Len(file) : i \in 1 .. Len(file) /\ i # d[1]
    BY ONLY <1>5, <1>7, <2>2
  <2>4. \A i \in e + 1 .. Len(file) : file'[i] = file[i]
    BY <1>6, <2>3
  <2> QED BY <1>4, <1>6, <2>1, <2>4 DEF ContentsOK, RestOK, e
<1> QED BY <1>4, <1>8, <1>9 DEF ContentsOK

LEMMA OthersContents ==
  ASSUME ContentsOK, UNCHANGED <<file, frames, damaged, wState, pending, torn>>
  PROVE  ContentsOK'
<1>1. \A k \in DOMAIN frames' \ damaged' : IntactAt(k)'
  BY DEF ContentsOK, IntactAt, BytesAt
<1>2. EndOf(Len(frames))' = EndOf(Len(frames))
  BY DEF EndOf
<1>3. RestOK'
  BY <1>2 DEF ContentsOK, RestOK
<1> QED BY <1>1, <1>3 DEF ContentsOK

LEMMA NextKeepsContents ==
  ASSUME SInv, ContentsOK, [Next]_vars
  PROVE  ContentsOK'
<1>1. CASE \E o \in Written : Serialize(o)
  BY <1>1, SerializeContents
<1>2. CASE Damage
  BY <1>2, DamageContents
<1>3. CASE Close \/ Open \/ Deserialize \/ UNCHANGED vars
  <2>1. UNCHANGED <<file, frames, damaged, wState, pending, torn>>
    BY <1>3 DEF Close, Open, Deserialize, vars, writerVars
  <2> QED BY <2>1, OthersContents
<1> QED BY <1>1, <1>2, <1>3, WriteLengthContents, WriteDataContents,
       WriteDataShortContents DEF Next, WriterStep

-------------------------------------------------------------------------------
(* The reader stays within the file until a call fails *)

WithinFile == calls # <<>> /\ Top.phase # "failed" => position <= Len(file)

LEMMA ReadStringWithin ==
  ASSUME file \in Seq(Nat), NEW p \in Nat, p <= Len(file)
  PROVE  ReadString(p).next <= Len(file)
<1> DEFINE length == IF Available(p) > 0 THEN file[p + 1] ELSE 0
           got == IF Available(p + 1) < length THEN Available(p + 1) ELSE length
<1>1. length \in Nat /\ Available(p) \in Nat /\ Len(file) \in Nat
        /\ (Available(p) > 0 <=> p < Len(file))
  BY AvailableFacts
<1>2. p + 1 \in Nat
  OBVIOUS
<1>3. Available(p + 1) \in Nat
  BY <1>2, AvailableFacts
<1> HIDE DEF length
<1>4. got \in Nat /\ got <= Available(p + 1)
  BY <1>1, <1>3
<1>5. ReadString(p).next = IF Available(p) = 0 THEN p ELSE p + 1 + got
  BY DEF ReadString, length
<1> HIDE DEF got
<1>6. CASE Available(p) = 0
  BY <1>5, <1>6
<1>7. CASE Available(p) # 0
  <2>1. p < Len(file)
    BY <1>1, <1>7
  <2>2. Available(p + 1) <= Len(file) - (p + 1)
    BY <1>1, <2>1 DEF Available
  <2> QED BY <1>1, <1>3, <1>4, <1>5, <1>7, <2>2
<1> QED BY <1>6, <1>7

\* How many numbers a vector of them is read as.
LEMMA NumbersRead ==
  ASSUME NEW count \in Nat, NEW available \in Nat, available > 0
  PROVE  LET numbers == {i \in 1 .. count : i <= available - 1} IN
         /\ Cardinality(numbers) \in Nat /\ Cardinality(numbers) <= available - 1
         /\ Cardinality(numbers) <= count
         /\ count <= available - 1 => numbers = 1 .. count /\ Cardinality(numbers) = count
<1> DEFINE m == IF count <= available - 1 THEN count ELSE available - 1
           numbers == {i \in 1 .. count : i <= available - 1}
<1>1. m \in Nat /\ m <= available - 1 /\ m <= count /\ (count <= available - 1 => m = count)
  OBVIOUS
<1>2. numbers = 1 .. m
  OBVIOUS
<1> HIDE DEF m, numbers
<1>3. Cardinality(1 .. m) = m
  <2>1. Cardinality(1 .. m) = IF 1 > m THEN 0 ELSE m - 1 + 1
    BY <1>1, FS_Interval
  <2> QED BY <1>1, <2>1
<1> QED BY <1>1, <1>2, <1>3 DEF numbers

LEMMA ReaderStepWithin ==
  ASSUME SInv, ReaderStep, position <= Len(file)
  PROVE  Skip \/ position' <= Len(file)
<1>1. calls # <<>>
  BY DEF ReaderStep, ReadLength, ReadTypeIdFails, ReadEmpty, ReadTypeId, ReadUnknownTypeId,
         ReadBoolean, ReadStringPayload, ReadIpAddress, ReadIntegerVector, ReadVectorPart,
         ReadUnsignedIntegerVector, ReadNumbers, ReadCount, ReadCollectionPart, EndParts,
         VerifyLength, Skip, Payload, In
<1>2. file \in Seq(Nat) /\ position \in Nat /\ Len(file) \in Nat
  BY <1>1, TopFacts
<1>3. /\ Available(position) \in Nat
      /\ Available(position) > 0 <=> position < Len(file)
      /\ Available(position) > 0 => file[position + 1] \in Nat
      /\ Available(position) = Len(file) - position
  <2>1. Available(position) = Len(file) - position
    BY <1>2 DEF Available
  <2> QED BY <1>2, <2>1, AvailableFacts
<1>4. ReadString(position).next <= Len(file)
  BY <1>2, ReadStringWithin
<1>5. Available(position) > 0 => position + 1 <= Len(file)
  BY <1>2, <1>3
<1>6. CASE ReadIpAddress
  <2> DEFINE got == IF Available(position) < AddressSize THEN Available(position) ELSE AddressSize
  <2>1. got \in Nat /\ got <= Available(position)
    BY <1>3 DEF AddressSize
  <2>2. position' = position + got
    BY <1>6 DEF ReadIpAddress, Payload
  <2> HIDE DEF got
  <2> QED BY <1>2, <1>3, <2>1, <2>2
<1>7. ASSUME NEW type, ReadNumbers(type)
      PROVE  position' <= Len(file)
  <2> DEFINE count == IF Available(position) > 0 THEN file[position + 1] ELSE 0
             numbers == {i \in 1 .. count : i <= Available(position) - 1}
             one == IF Available(position) > 0 THEN 1 ELSE 0
             size == Cardinality(numbers)
  <2>1. position' = position + one + size
    BY <1>7 DEF ReadNumbers, Payload
  <2>2. CASE Available(position) > 0
    <3>1. one = 1 /\ count \in Nat
      BY <1>3, <2>2
    <3>2. size \in Nat /\ size <= Available(position) - 1
      <4> HIDE DEF count
      <4> QED BY <1>3, <2>2, <3>1, NumbersRead
    <3> HIDE DEF size, one
    <3> QED BY <1>2, <1>3, <2>1, <3>1, <3>2
  <2>3. CASE ~ (Available(position) > 0)
    <3>1. one = 0 /\ numbers = {}
      BY <2>3
    <3>2. size = 0
      BY <3>1, FS_EmptySet
    <3> HIDE DEF size, one
    <3> QED BY <1>2, <2>1, <3>1, <3>2
  <2> QED BY <2>2, <2>3
<1>8. CASE \/ ReadLength \/ ReadBoolean \/ ReadCount
           \/ ReadVectorPart \/ EndParts \/ VerifyLength
  BY <1>2, <1>5, <1>8 DEF ReadLength, ReadBoolean, ReadCount, ReadVectorPart, EndParts,
     VerifyLength
<1>9. CASE \/ ReadTypeIdFails \/ ReadEmpty \/ ReadTypeId \/ ReadUnknownTypeId
           \/ ReadStringPayload \/ ReadCollectionPart
  BY <1>4, <1>9 DEF ReadTypeIdFails, ReadEmpty, ReadTypeId, ReadUnknownTypeId,
     ReadStringPayload, Payload, ReadCollectionPart
<1> QED BY <1>6, <1>7, <1>8, <1>9 DEF ReaderStep, ReadIntegerVector, ReadUnsignedIntegerVector

\* A call that returns false fails the one around it.
LEMMA ReturnFalseFails ==
  ASSUME ReaderOK, calls # <<>>, ReturnFalse
  PROVE  IF Len(calls) = 1 THEN calls' = <<>> /\ received' = Append(received, Failure)
         ELSE /\ calls' # <<>> /\ Top'.phase = "failed" /\ UNCHANGED received
<1> DEFINE n == Len(calls)
           outer == Front(calls)
           m == Len(outer)
<1>1. n \in Nat /\ n > 0 /\ DOMAIN calls = 1 .. n
  BY CallsFacts
<1>2. /\ IsSeq(outer) /\ m = n - 1
      /\ \A i \in 1 .. n - 1 : outer[i] = calls[i]
  BY FrontIsSeq DEF ReaderOK
<1>3. DOMAIN outer = 1 .. m /\ (outer = <<>> <=> n = 1)
  BY <1>1, <1>2, SeqFacts
<1>4. CASE n = 1
  BY <1>3, <1>4 DEF ReturnFalse
<1>5. CASE n # 1
  <2> DEFINE e == [outer[m] EXCEPT !.phase = "failed"]
  <2>1. calls' = Put(outer, m, e) /\ UNCHANGED received
    BY <1>3, <1>5 DEF ReturnFalse, Put
  <2>2. m \in 1 .. m /\ m \in 1 .. n - 1
    <3> HIDE DEF n, m
    <3> QED BY ONLY <1>1, <1>2, <1>5
  <2>3. CallOK(outer[m])
    <3>1. m \in 1 .. n /\ outer[m] = calls[m]
      <4>1. m \in 1 .. n
        <5> HIDE DEF n, m
        <5> QED BY ONLY <1>1, <1>2, <2>2
      <4> QED BY <1>2, <2>2, <4>1
    <3> QED BY <1>1, <3>1 DEF ReaderOK
  <2>4. e.phase = "failed"
    BY <2>3 DEF CallOK
  <2>5. /\ IsSeq(calls') /\ Len(calls') = m /\ calls'[m] = e
    <3> HIDE DEF outer, m, e
    <3>1. m = Len(outer)
      BY DEF m
    <3>2. IsSeq(Put(outer, m, e)) /\ Len(Put(outer, m, e)) = Len(outer)
            /\ \A j \in 1 .. Len(outer) : Put(outer, m, e)[j] = IF j = m THEN e ELSE outer[j]
      BY <1>2, <2>2, <3>1, PutIsSeq
    <3> QED BY <2>1, <2>2, <3>1, <3>2
  <2>6. calls' # <<>>
    <3> HIDE DEF m
    <3> QED BY <2>2, <2>5, SeqFacts
  <2> HIDE DEF e
  <2> QED BY <1>5, <2>1, <2>4, <2>5, <2>6 DEF Top
<1> QED BY <1>4, <1>5

LEMMA WithinKept ==
  ASSUME SInv, WithinFile, ReaderStep, UNCHANGED file
  PROVE  WithinFile'
<1>1. ReaderOK
  BY DEF SInv
<1>2. CASE Skip
  <2>1. calls # <<>> /\ ReturnFalse
    BY <1>2 DEF Skip, In
  <2> QED BY <1>1, <2>1, ReturnFalseFails DEF WithinFile
<1>3. CASE ~Skip
  <2>1. calls # <<>> /\ Top.phase # "failed"
    BY <1>3 DEF ReaderStep, ReadLength, ReadTypeIdFails, ReadEmpty, ReadTypeId,
       ReadUnknownTypeId,
       ReadBoolean, ReadStringPayload, ReadIpAddress, ReadIntegerVector, ReadVectorPart,
       ReadUnsignedIntegerVector, ReadNumbers, ReadCount, ReadCollectionPart, EndParts,
       VerifyLength, Payload, In
  <2>2. position' <= Len(file)
    BY <1>3, <2>1, ReaderStepWithin DEF WithinFile
  <2> QED BY <2>2 DEF WithinFile
<1> QED BY <1>2, <1>3

-------------------------------------------------------------------------------
(* Behind the last frame, where no object was given up *)

BehindOK ==
  ~torn /\ Len(received) >= Len(frames) =>
    IF Len(received) = Len(frames)
    THEN calls # <<>> =>
           /\ calls[1].phase = "length" => position = EndOf(Len(frames))
           /\ calls[1].phase = "typeId" => position = EndOf(Len(frames)) + 1
           /\ calls[1].phase # "length" => calls[1].end > Len(file)
    ELSE calls = <<>> /\ position >= Len(file)

\* Only these steps can return from the outermost call.
LEMMA OnlyReturnsReceive ==
  ASSUME ReaderStep, received' # received
  PROVE  ReadLength \/ ReadTypeIdFails \/ ReadEmpty \/ VerifyLength \/ Skip
BY DEF ReaderStep, ReadTypeId, ReadUnknownTypeId, ReadBoolean, ReadStringPayload,
   ReadIpAddress, ReadIntegerVector, ReadVectorPart, ReadUnsignedIntegerVector,
   ReadNumbers, ReadCount, ReadCollectionPart, EndParts, Payload

\* A string is cut off by the end of the file only.
LEMMA ReadStringCut ==
  ASSUME file \in Seq(Nat), NEW p \in Nat, ~ReadString(p).ok
  PROVE  ReadString(p).next >= Len(file)
<1> DEFINE length == IF Available(p) > 0 THEN file[p + 1] ELSE 0
           got == IF Available(p + 1) < length THEN Available(p + 1) ELSE length
<1>1. length \in Nat /\ Available(p) \in Nat /\ Len(file) \in Nat
        /\ (Available(p) > 0 <=> p < Len(file))
  BY AvailableFacts
<1>2. p + 1 \in Nat
  OBVIOUS
<1>3. Available(p + 1) \in Nat
  BY <1>2, AvailableFacts
<1> HIDE DEF length
<1>4. got \in Nat /\ (got # length => got = Available(p + 1))
  BY <1>1, <1>3
<1>5. /\ ReadString(p).next = IF Available(p) = 0 THEN p ELSE p + 1 + got
      /\ ReadString(p).ok <=> Available(p) > 0 /\ got = length
  BY DEF ReadString, length
<1> HIDE DEF got
<1>6. CASE Available(p) = 0
  BY <1>1, <1>5, <1>6
<1>7. CASE Available(p) # 0
  <2>1. got = Available(p + 1) /\ p < Len(file)
    BY <1>1, <1>4, <1>5, <1>7
  <2>2. Available(p + 1) = Len(file) - (p + 1)
    BY <1>1, <2>1 DEF Available
  <2> QED BY <1>1, <1>4, <1>5, <1>7, <2>1, <2>2
<1> QED BY <1>6, <1>7

\* A string of one character is in the file.
LEMMA ReadStringOne ==
  ASSUME file \in Seq(Nat), NEW p \in Nat, ReadString(p).ok,
         NEW b, ReadString(p).value = <<b>>
  PROVE  p + 2 <= Len(file) /\ file[p + 2] = b
<1> DEFINE length == IF Available(p) > 0 THEN file[p + 1] ELSE 0
           got == IF Available(p + 1) < length THEN Available(p + 1) ELSE length
           s == p + 2
           e == p + 1 + got
<1>1. length \in Nat /\ Available(p) \in Nat /\ Len(file) \in Nat
  BY AvailableFacts
<1>2. p + 1 \in Nat
  OBVIOUS
<1>3. Available(p + 1) \in Nat /\ (Available(p + 1) > 0 <=> p + 1 < Len(file))
        /\ (p + 1 < Len(file) => Available(p + 1) = Len(file) - (p + 1))
  <2>1. Available(p + 1) \in Nat /\ (Available(p + 1) > 0 <=> p + 1 < Len(file))
    BY <1>2, AvailableFacts
  <2>2. p + 1 < Len(file) => Available(p + 1) = Len(file) - (p + 1)
    BY DEF Available
  <2> QED BY <2>1, <2>2
<1> HIDE DEF length
<1>4. got \in Nat /\ got <= Available(p + 1)
  BY <1>1, <1>3
<1>5. SubSeq(file, s, e) = <<b>>
  BY DEF ReadString, length
<1> HIDE DEF got
<1>6. CASE got = 0
  <2>1. s \in Int /\ e \in Int /\ s > e
    BY <1>6
  <2> HIDE DEF s, e
  <2>2. SubSeq(file, s, e) = <<>>
    BY <2>1, SubSeqEmpty
  <2>3. Len(<<b>>) = 1 /\ Len(<<>>) = 0
    OBVIOUS
  <2>4. <<b>> = <<>>
    BY ONLY <1>5, <2>2
  <2> QED BY ONLY <2>3, <2>4
<1>7. CASE got # 0
  <2>1. p + 1 < Len(file) /\ s \in 1 .. Len(file) /\ e \in s .. Len(file)
    <3>1. Available(p + 1) > 0
      BY <1>3, <1>4, <1>7
    <3>2. p + 1 < Len(file) /\ got <= Len(file) - (p + 1)
      BY <1>3, <1>4, <3>1
    <3> QED BY <1>1, <1>4, <1>7, <3>2
  <2>2. s <= Len(file)
    BY <1>1, <2>1
  <2> HIDE DEF s, e
  <2>3. Head(SubSeq(file, s, e)) = file[s]
    BY <2>1, HeadTailOfSubSeq
  <2>4. Head(<<b>>) = b
    OBVIOUS
  <2> QED BY <1>5, <2>2, <2>3, <2>4 DEF s
<1> QED BY <1>6, <1>7

\* The outermost call finds less than a frame there.
LEMMA BehindReturns ==
  ASSUME SInv, ContentsOK, BehindOK, WithinFile, ReaderStep, received' # received,
         ~torn, Len(received) = Len(frames), Len(calls) = 1
  PROVE  ReturnFalse /\ position' >= Len(file)
<1> DEFINE e == EndOf(Len(frames))
           F == Frame[pending]
<1>1. calls # <<>> /\ calls[1] = Top
  BY SeqFacts DEF SInv, ReaderOK, Top
<1>2. file \in Seq(Nat) /\ position \in Nat /\ Len(file) \in Nat /\ Top.end \in Nat
        /\ e \in Nat /\ e <= Len(file)
  <2>1. Len(frames) \in 0 .. Len(frames)
    BY EndFacts DEF SInv
  <2> QED BY <1>1, <2>1, TopFacts, EndFacts DEF SInv
<1>3. /\ Top.phase = "length" => position = e
      /\ Top.phase = "typeId" => position = e + 1
      /\ Top.phase # "length" => Top.end > Len(file)
  BY <1>1 DEF BehindOK
<1>4. CASE ReadLength
  <2>1. ~ (Available(position) > 0)
    BY <1>4 DEF ReadLength
  <2>2. ReturnFalse /\ position' = position
    BY <1>4, <2>1 DEF ReadLength
  <2>3. ~ (position < Len(file))
    BY <1>2, <2>1, AvailableFacts
  <2> QED BY <1>2, <2>2, <2>3
<1>5. CASE ReadTypeIdFails
  <2>1. ReturnFalse /\ position' = ReadString(position).next /\ ~ReadString(position).ok
    BY <1>5 DEF ReadTypeIdFails
  <2> QED BY <1>2, <2>1, ReadStringCut
<1>6. CASE ReadEmpty
  <2>1. /\ ReadString(position).ok
        /\ ReadString(position).value = <<TypeId["Empty"]>>
        /\ position = e + 1
    BY <1>3, <1>6 DEF ReadEmpty, In
  <2>2. position + 2 <= Len(file) /\ file[position + 2] = TypeId["Empty"]
    BY <1>2, <2>1, ReadStringOne
  <2> HIDE DEF e
  <2>3. wState # "idle"
    <3>1. Len(file) # e
      BY <1>2, <2>1, <2>2
    <3> QED BY <3>1 DEF ContentsOK, RestOK, e
  <2>4. pending \in Objects
    BY <2>3, WrittenAssumption DEF ContentsOK, WrittenAssumption
  <2>5. Len(F) \in Nat /\ F[3] = TypeId[pending.type] /\ (pending.type = "Empty" => Len(F) = 3)
    BY <2>4, FrameHead
  <2>6. Len(file) < e + Len(F) /\ \A i \in e + 1 .. Len(file) : file[i] = F[i - e]
    BY <2>3 DEF ContentsOK, RestOK, e
  <2> HIDE DEF F
  <2>7. e + 3 \in e + 1 .. Len(file) /\ (e + 3) - e = 3 /\ position + 2 = e + 3
    BY <1>2, <2>1, <2>2
  <2>8. F[3] = TypeId["Empty"]
    BY <2>2, <2>6, <2>7
  <2>9. pending.type = "Empty"
    BY <2>4, <2>5, <2>8, InsideIsObjects DEF TypeId
  <2>10. Len(file) < e + 3
    BY ONLY <2>5, <2>6, <2>9
  <2>11. position = e + 1 /\ position + 2 <= Len(file)
    BY ONLY <2>1, <2>2
  <2>12. e \in Nat /\ Len(file) \in Nat
    BY <1>2
  <2> QED BY ONLY <2>10, <2>11, <2>12
<1>7. CASE VerifyLength
  <2>1. position = Top.end /\ Top.phase = "verify"
    BY <1>7 DEF VerifyLength, In
  <2>2. position <= Len(file)
    BY <1>1, <2>1 DEF WithinFile
  <2> QED BY <1>2, <1>3, <2>1, <2>2
<1>8. CASE Skip
  <2>1. ReturnFalse /\ position' = Top.end /\ Top.phase = "failed"
    BY <1>8 DEF Skip, In
  <2> QED BY <1>2, <1>3, <2>1
<1> QED BY <1>4, <1>5, <1>6, <1>7, <1>8, OnlyReturnsReceive

LEMMA EffectReceives ==
  ASSUME SInv, Effect
  PROVE  /\ calls # <<>> /\ Len(calls) \in Nat /\ Len(calls) > 0 /\ Len(received) \in Nat
         /\ calls' # <<>> => received' = received
         /\ calls' = <<>> => Len(calls) = 1 /\ Len(received') = Len(received) + 1
<1>0. ReaderOK
  BY DEF SInv
<1>1. calls # <<>>
  BY DEF Effect, Begins, Identifies, GoesOn, Nests, Cut, FindsEmpty, Ends, In,
         Pushes, Returns
<1>2. Len(calls) \in Nat /\ Len(calls) > 0 /\ Len(received) \in Nat
  BY <1>0, <1>1, CallsFacts
<1>3. ASSUME NEW c, Sets(c) PROVE calls' # <<>> /\ received' = received
  BY <1>0, <1>3, SetsKeeps DEF Sets
<1>4. Pushes => calls' # <<>> /\ received' = received
  BY <1>0, PushesKeeps DEF Pushes
<1>5. Returns => /\ calls' # <<>> => received' = received
                 /\ calls' = <<>> => Len(calls) = 1 /\ Len(received') = Len(received) + 1
  BY <1>0, ReturnsKeeps
<1>6. (\E c : Sets(c)) \/ Pushes \/ Returns
  BY DEF Effect, Begins, Identifies, GoesOn, Nests, Cut, FindsEmpty, Ends
<1> QED BY <1>1, <1>2, <1>3, <1>4, <1>5, <1>6

LEMMA BehindKept ==
  ASSUME SInv, ContentsOK, BehindOK, WithinFile, ReaderStep,
         UNCHANGED <<file, mode, damaged, writerVars>>
  PROVE  /\ BehindOK'
         /\ ~torn /\ Len(received) >= Len(frames)
              => received' = received \/ received' = Append(received, Failure)
<1> DEFINE e == EndOf(Len(frames))
           r == Len(received)
           n == Len(calls)
<1>1. UNCHANGED <<file, frames, torn>> /\ EndOf(Len(frames))' = e
  BY DEF writerVars, EndOf
<1>2. Effect
  BY ReaderStepEffect
<1>3. /\ calls # <<>> /\ n \in Nat /\ n > 0 /\ r \in Nat
      /\ calls' # <<>> => received' = received
      /\ calls' = <<>> => n = 1 /\ Len(received') = r + 1
  BY <1>2, EffectReceives
<1>4. Len(frames) \in Nat /\ DOMAIN calls = 1 .. n /\ ReaderOK
  BY EndFacts, CallsFacts DEF SInv
<1>5. CASE torn
  BY <1>1, <1>5 DEF BehindOK
<1>6. CASE r < Len(frames)
  <2>1. ~ (r >= Len(frames))
    BY <1>3, <1>4, <1>6
  <2>2. CASE calls' = <<>>
    <3>1. Len(received') >= Len(frames) => Len(received') = Len(frames)
      <4> HIDE DEF r
      <4> QED BY <1>3, <1>4, <1>6, <2>2
    <3> QED BY <1>1, <2>1, <2>2, <3>1 DEF BehindOK
  <2>3. CASE calls' # <<>>
    BY <1>1, <1>3, <2>1, <2>3 DEF BehindOK
  <2> QED BY <2>2, <2>3
<1>7. CASE ~torn /\ ~ (r < Len(frames))
  <2>1. r = Len(frames) /\ r >= Len(frames)
    BY <1>3, <1>4, <1>7 DEF BehindOK
  <2>2. /\ calls[1].phase = "length" => position = e
        /\ calls[1].phase = "typeId" => position = e + 1
        /\ calls[1].phase # "length" => calls[1].end > Len(file)
    BY <1>3, <1>7, <2>1 DEF BehindOK
  <2>3. CASE calls' = <<>>
    <3>1. n = 1 /\ Len(received') = r + 1
      BY <1>3, <2>3
    <3>2. received' # received
      BY <1>3, <3>1
    <3>3. ReturnFalse /\ position' >= Len(file)
      BY <1>7, <2>1, <3>1, <3>2, BehindReturns
    <3>4. received' = Append(received, Failure)
      BY <1>3, <1>4, <3>1, <3>3, ReturnFalseFails
    <3>5. Len(received') # Len(frames)
      BY <1>3, <2>1, <3>1
    <3> QED BY <1>1, <2>3, <3>3, <3>4, <3>5 DEF BehindOK
  <2>4. CASE calls' # <<>>
    <3>1. received' = received
      BY <1>3, <2>4
    <3> SUFFICES /\ calls'[1].phase = "length" => position' = e
                 /\ calls'[1].phase = "typeId" => position' = e + 1
                 /\ calls'[1].phase # "length" => calls'[1].end > Len(file)
      BY <1>1, <2>1, <3>1 DEF BehindOK
    <3>2. n = 1 => calls[1] = Top
      BY DEF Top
    <3>3. n # 1 => calls[1].phase = "parts"
      <4>1. n # 1 => 1 \in 1 .. n /\ 1 < n
        <5> HIDE DEF n
        <5> QED BY <1>3
      <4> QED BY <1>4, <4>1 DEF ReaderOK, Waits
    <3>4. ASSUME NEW c, Sets(c) PROVE calls'[1] = IF n = 1 THEN c ELSE calls[1]
      <4>1. \A i \in 1 .. n : calls'[i] = IF i = n THEN c ELSE calls[i]
        BY <1>4, <3>4, SetsKeeps
      <4>2. 1 \in 1 .. n
        BY <1>3
      <4> QED BY <4>1, <4>2
    <3>5. CASE Begins
      <4>1. PICK c : Sets(c) /\ c.phase = "typeId" /\ c.end = position + 1 + file[position + 1]
        BY <3>5 DEF Begins
      <4>2. position' = position + 1 /\ Top.phase = "length" /\ position < Len(file)
        BY <3>5 DEF Begins, In
      <4>3. CASE n = 1
        <5>1. position = e /\ e \in Nat /\ Len(file) \in Nat
          BY <1>4, <2>2, <3>2, <4>2, <4>3, EndFacts DEF SInv
        <5>2. wState # "idle"
          <6>1. Len(file) # e
            BY <4>2, <5>1
          <6> QED BY <1>7, <6>1 DEF ContentsOK, RestOK
        <5>3. pending \in Objects
          BY <5>2, WrittenAssumption DEF ContentsOK, WrittenAssumption
        <5> DEFINE F == Frame[pending]
        <5>4. Len(F) \in Nat /\ F[1] = Len(F) - 1
          BY <5>3, FrameHead
        <5>5. Len(file) < e + Len(F) /\ \A i \in e + 1 .. Len(file) : file[i] = F[i - e]
          BY <1>7, <5>2 DEF ContentsOK, RestOK
        <5> HIDE DEF e, F
        <5>6. e + 1 \in e + 1 .. Len(file) /\ (e + 1) - e = 1
          BY <4>2, <5>1
        <5>7. file[e + 1] = Len(F) - 1
          BY <5>4, <5>5, <5>6
        <5>8. c.end = e + Len(F)
          BY <4>1, <5>1, <5>4, <5>7
        <5>9. c.end > Len(file)
          BY <5>1, <5>4, <5>5, <5>8
        <5> QED BY <3>4, <4>1, <4>2, <4>3, <5>1, <5>9
      <4>4. CASE n # 1
        BY <2>2, <3>3, <3>4, <4>1, <4>4
      <4> QED BY <4>3, <4>4
    <3>6. CASE Identifies \/ GoesOn
      <4>1. PICK c : Sets(c) /\ c.phase \notin {"length", "typeId"} /\ c.end = Top.end
        BY <3>6 DEF Identifies, GoesOn
      <4>2. Top.phase # "length"
        BY <3>6 DEF Identifies, GoesOn, In
      <4> QED BY <2>2, <3>2, <3>3, <3>4, <4>1, <4>2
    <3>7. CASE Nests
      <4>1. calls'[1].end = calls[1].end /\ calls'[1].phase = "parts"
        BY <1>4, <3>7, PushesKeeps DEF Nests
      <4>2. calls[1].phase # "length"
        BY <3>2, <3>3, <3>7 DEF Nests
      <4> QED BY <2>2, <4>1, <4>2
    <3>8. CASE Returns
      <4>1. n # 1
        BY <1>4, <2>4, <3>8, ReturnsKeeps
      <4>2. calls'[1].end = calls[1].end /\ calls'[1].phase \in {"parts", "failed"}
        BY <1>4, <3>8, <4>1, ReturnsKeeps
      <4> QED BY <2>2, <3>3, <4>1, <4>2
    <3> QED BY <1>2, <3>5, <3>6, <3>7, <3>8 DEF Effect, Cut, FindsEmpty, Ends
  <2> QED BY <2>3, <2>4
<1> QED BY <1>5, <1>6, <1>7

LEMMA BehindCall ==
  ASSUME SInv, InStep, BehindOK, Call, position < Len(file),
         UNCHANGED <<file, mode, damaged, writerVars>>
  PROVE  BehindOK' /\ WithinFile'
<1>1. /\ calls = <<>> /\ calls' = <<NewCall>> /\ UNCHANGED <<position, received>>
      /\ UNCHANGED <<file, frames, torn>> /\ EndOf(Len(frames))' = EndOf(Len(frames))
  BY DEF Call, writerVars, EndOf
<1>2. /\ position \in Nat /\ Len(file) \in Nat /\ Len(received) \in Nat /\ Len(frames) \in Nat
  BY EndFacts, CallsFacts DEF SInv, ReaderOK
<1>3. <<NewCall>>[1].phase = "length" /\ <<NewCall>> # <<>>
  BY DEF NewCall
<1>4. WithinFile'
  BY <1>1, <1>2 DEF WithinFile
<1>5. Len(received) = Len(frames) => position = EndOf(Len(frames))
  BY <1>1, <1>2 DEF InStep
<1>6. ~torn /\ Len(received) >= Len(frames) => Len(received) = Len(frames)
  BY <1>2 DEF BehindOK
<1> QED BY <1>1, <1>3, <1>4, <1>5, <1>6 DEF BehindOK

-------------------------------------------------------------------------------
(* Reading a frame that was not damaged: what each call has of the object it *)
(* reads, the one whose frame lies at x.at                                   *)

CallAs(phase, end, type, left, key, bytes, parts) ==
  [phase |-> phase, end |-> end, type |-> type, left |-> left, key |-> key,
   bytes |-> bytes, parts |-> parts]

LiesAt(x) == x.object \in Objects /\ BytesAt(Frame[x.object], x.at)

FrameEnd(x) == x.at + Len(Frame[x.object])

Prefix(o, k) == [i \in 1 .. k |-> o.parts[i]]

\* The first k parts are read.
Got(c, x, k) ==
  /\ Container(x.object)
  /\ k \in 0 .. Len(x.object.parts)
  /\ c = CallAs("parts", FrameEnd(x), x.object.type, Len(x.object.parts) - k, c.key,
                <<>>, Prefix(x.object, k))
  /\ \A i \in 1 .. k : Readable[x.object.parts[i].value]
  /\ x.object.type = "Vector" => c.key = <<>>

PartOf(x, j) ==
  [object |-> x.object.parts[j].value,
   at |-> x.at + PartAt(x.object, j) + Len(KeyBytes(x.object, j))]

\* A call reading x waits for the next part, y.
WaitsFor(c, x, y) ==
  \E k \in Nat :
    /\ Got(c, x, k) /\ k < Len(x.object.parts)
    /\ c.key = x.object.parts[k + 1].key
    /\ y = PartOf(x, k + 1)

ReadsType(c, x, p) ==
  c = CallAs("typeId", FrameEnd(x), "Empty", 0, <<>>, <<>>, <<>>) /\ p = x.at + 1

ReadsPayload(c, x, p) ==
  /\ c = CallAs("payload", FrameEnd(x), x.object.type, 0, <<>>, <<>>, <<>>)
  /\ x.object.type \in KnownTypes \ {"Empty"}
  /\ p = x.at + 3

ReadsParts(c, x, p) ==
  \E k \in Nat : Got(c, x, k) /\ p = x.at + PartAt(x.object, k + 1)

Verifies(c, x, p) ==
  /\ c.phase = "verify" /\ c.end = FrameEnd(x)
  /\ IF p = FrameEnd(x)
     THEN Readable[x.object] /\ Object(c.type, c.bytes, c.parts) = x.object
     ELSE ~Readable[x.object]

Fails(c, x) == c.phase = "failed" /\ c.end = FrameEnd(x) /\ ~Readable[x.object]

\* The innermost call reads x with the reader at p.
Reads(c, x, p) ==
  \/ c = NewCall /\ p = x.at
  \/ ReadsType(c, x, p)
  \/ ReadsPayload(c, x, p)
  \/ ReadsParts(c, x, p)
  \/ Verifies(c, x, p)
  \/ Fails(c, x)

\* What a step makes of it.
Continues(x) == \E c : Sets(c) /\ Reads(c, x, position')

Descends(x) ==
  /\ UNCHANGED received
  /\ \E c, y : /\ calls' = Append(Put(calls, Len(calls), c), NewCall)
               /\ WaitsFor(c, x, y) /\ LiesAt(y) /\ position' = y.at

Delivers(x) == Readable[x.object] /\ ReturnTrue(x.object) /\ position' = FrameEnd(x)

GivesUp(x) == ~Readable[x.object] /\ ReturnFalse /\ position' = FrameEnd(x)

Outcome(x) == Continues(x) \/ Descends(x) \/ Delivers(x) \/ GivesUp(x)

LEMMA ReadsPhase ==
  ASSUME NEW c, NEW x, NEW p, Reads(c, x, p)
  PROVE  /\ c.phase = "length" => c = NewCall /\ p = x.at
         /\ c.phase = "typeId" => ReadsType(c, x, p)
         /\ c.phase = "payload" => ReadsPayload(c, x, p)
         /\ c.phase = "parts" => ReadsParts(c, x, p)
         /\ c.phase = "verify" => Verifies(c, x, p)
         /\ c.phase = "failed" => Fails(c, x)
<1>1. c = NewCall => c.phase = "length"
  BY DEF NewCall
<1>2. ReadsType(c, x, p) => c.phase = "typeId"
  BY DEF ReadsType, CallAs
<1>3. ReadsPayload(c, x, p) => c.phase = "payload"
  BY DEF ReadsPayload, CallAs
<1>4. ReadsParts(c, x, p) => c.phase = "parts"
  <2>1. ASSUME NEW k \in Nat, Got(c, x, k) PROVE c.phase = "parts"
    <3> DEFINE d == CallAs("parts", FrameEnd(x), x.object.type, Len(x.object.parts) - k,
                      c.key, <<>>, Prefix(x.object, k))
    <3>1. c = d
      BY <2>1 DEF Got
    <3>2. d.phase = "parts"
      BY DEF CallAs
    <3> HIDE DEF d
    <3> QED BY <3>1, <3>2
  <2> QED BY <2>1 DEF ReadsParts
<1> QED BY <1>1, <1>2, <1>3, <1>4 DEF Reads, Verifies, Fails

\* A moved-from object, one of a later version or one holding such an object
\* cannot be read; the others without parts can.
LEMMA ScalarReadable ==
  ASSUME NEW o \in Objects, ~Container(o)
  PROVE  /\ Readable[o] <=> Fit(o)
         /\ o = Object(o.type, o.bytes, <<>>)
<1>1. o.parts = <<>> /\ o = Object(o.type, o.bytes, o.parts)
  BY ShapesAssumption DEF ShapesAssumption, Container
<1>2. DOMAIN o.parts = {}
  BY <1>1
<1> QED BY <1>1, <1>2, ReadableEquation

LEMMA ContainerReadable ==
  ASSUME NEW o \in Objects, Container(o)
  PROVE  /\ Readable[o] <=> \A i \in 1 .. Len(o.parts) : Readable[o.parts[i].value]
         /\ o = Object(o.type, <<>>, o.parts)
<1>1. o.bytes = <<>> /\ o = Object(o.type, o.bytes, o.parts)
  BY ShapesAssumption DEF ShapesAssumption, Container
<1>2. Fit(o)
  BY DEF Container, Fit, KnownTypes, TypeId
<1> QED BY <1>1, <1>2, ReadableEquation, PartFacts

\* The numbers the frame of x brings.
LEMMA EndFact ==
  ASSUME NEW x, LiesAt(x), file \in Seq(Nat)
  PROVE  /\ x.object \in Objects /\ x.at \in Nat
         /\ Len(Frame[x.object]) \in Nat /\ FrameEnd(x) \in Nat
         /\ FrameEnd(x) = x.at + Len(Frame[x.object])
         /\ FrameEnd(x) = (x.at + 3) + Len(PayloadOf(x.object))
         /\ FrameEnd(x) <= Len(file)
<1> DEFINE F == Frame[x.object]
           P == PayloadOf(x.object)
           a == x.at
<1>1. x.object \in Objects /\ BytesAt(F, a)
  BY DEF LiesAt
<1>2. a \in Nat /\ a + Len(F) <= Len(file)
  BY <1>1, FrameLies
<1>3. Len(F) \in Nat
  BY <1>1, FrameHead
<1>4. Len(F) = 3 + Len(P) /\ Len(P) \in Nat
  <2>1. P \in Seq(Nat) /\ Len(F) = 3 + Len(P)
    BY <1>1, FrameForm
  <2> HIDE DEF P
  <2> QED BY <2>1
<1>5. FrameEnd(x) = a + Len(F)
  BY DEF FrameEnd
<1> HIDE DEF F, P, a
<1>6. a + Len(F) \in Nat /\ a + Len(F) = (a + 3) + Len(P)
  BY ONLY <1>2, <1>3, <1>4
<1> QED BY <1>1, <1>2, <1>3, <1>5, <1>6 DEF F, P, a

LEMMA LengthOutcome ==
  ASSUME SInv, calls # <<>>, NEW x, LiesAt(x), Reads(Top, x, position), ReadLength
  PROVE  Continues(x)
<1> DEFINE F == Frame[x.object]
           p == position
           e == p + 1 + file[p + 1]
           c == [Top EXCEPT !.phase = "typeId", !.end = e]
<1>1. Top = NewCall /\ p = x.at
  BY ReadsPhase DEF ReadLength, In
<1>2. file \in Seq(Nat) /\ p \in Nat /\ CallOK(Top)
  BY TopFacts
<1>3. BytesAt(<<Len(F) - 1>>, p) /\ x.object \in Objects
  BY <1>1, <1>2, FrameLies DEF LiesAt
<1>4. Available(p) > 0 /\ file[p + 1] = Len(F) - 1
  BY <1>2, <1>3, ByteRead
<1>5. position' = p + 1 /\ SetTop(c) /\ UNCHANGED received
  BY <1>4 DEF ReadLength
<1>6. Len(F) \in Nat /\ FrameEnd(x) = x.at + Len(F) /\ FrameEnd(x) \in Nat
  BY <1>2, EndFact
<1>7. e = FrameEnd(x)
  <2> HIDE DEF F
  <2> QED BY <1>1, <1>2, <1>4, <1>6
<1>8. c = CallAs("typeId", FrameEnd(x), "Empty", 0, <<>>, <<>>, <<>>)
  <2> HIDE DEF e
  <2>1. c = [phase |-> "typeId", end |-> e, type |-> NewCall.type, left |-> NewCall.left,
             key |-> NewCall.key, bytes |-> NewCall.bytes, parts |-> NewCall.parts]
    BY <1>1, <1>2, CallWithEnd
  <2> HIDE DEF c
  <2> QED BY <1>7, <2>1 DEF NewCall, CallAs
<1> HIDE DEF c, p
<1>9. CallOK(c)
  BY <1>6, <1>8 DEF CallOK, CallAs, KnownTypes, TypeId
<1>10. Reads(c, x, position')
  BY <1>1, <1>5, <1>8 DEF Reads, ReadsType
<1> QED BY <1>5, <1>9, <1>10 DEF Continues, Sets

LEMMA TypeOutcome ==
  ASSUME SInv, calls # <<>>, NEW x, LiesAt(x), Reads(Top, x, position),
         ReadTypeIdFails \/ ReadEmpty \/ ReadTypeId \/ ReadUnknownTypeId
  PROVE  Continues(x) \/ Delivers(x)
<1> DEFINE o == x.object
           s == ReadString(position)
           t == Top
<1>1. Top.phase = "typeId"
  BY DEF ReadTypeIdFails, ReadEmpty, ReadTypeId, ReadUnknownTypeId, In
<1>2. t = CallAs("typeId", FrameEnd(x), "Empty", 0, <<>>, <<>>, <<>>) /\ position = x.at + 1
  BY <1>1, ReadsPhase DEF ReadsType
<1>3. file \in Seq(Nat) /\ CallOK(t) /\ o \in Objects /\ x.at \in Nat /\ FrameEnd(x) \in Nat
  BY TopFacts, EndFact
<1>4. o.type \in DOMAIN TypeId /\ <<TypeId[o.type]>> \in Seq(Nat) /\ Len(<<TypeId[o.type]>>) = 1
  BY <1>3, InsideIsObjects DEF TypeId
<1>5. BytesAt(StringBytes(<<TypeId[o.type]>>), x.at + 1)
  BY <1>3, FrameLies DEF LiesAt
<1>6. s.ok /\ s.value = <<TypeId[o.type]>> /\ s.next = x.at + 3
  <2>1. /\ ReadString(x.at + 1).ok
        /\ ReadString(x.at + 1).next = (x.at + 1) + 1 + Len(<<TypeId[o.type]>>)
        /\ ReadString(x.at + 1).value = <<TypeId[o.type]>>
    BY <1>3, <1>4, <1>5, StringRead
  <2>2. (x.at + 1) + 1 + Len(<<TypeId[o.type]>>) = x.at + 3
    BY <1>3, <1>4
  <2> QED BY <1>2, <2>1, <2>2
<1>7. "Empty" \in DOMAIN TypeId /\ KnownTypes \subseteq DOMAIN TypeId /\ "Empty" \in KnownTypes
  BY DEF KnownTypes, TypeId
<1>8. position' = s.next
  BY DEF ReadTypeIdFails, ReadEmpty, ReadTypeId, ReadUnknownTypeId
<1>9. CASE ReadTypeIdFails
  BY <1>6, <1>9 DEF ReadTypeIdFails
<1>10. CASE ReadEmpty
  <2>1. <<TypeId[o.type]>> = <<TypeId["Empty"]>> /\ ReturnTrue(EmptyObject)
    BY <1>6, <1>10 DEF ReadEmpty
  <2>2. o.type = "Empty"
    BY <1>4, <1>7, <2>1, TypeIdsDiffer
  <2>3. ~Container(o)
    BY <2>2 DEF Container
  <2>4. o.bytes = <<>> /\ Len(Frame[o]) = 3
    BY <1>3, <2>2, ObjectsAssumption, FrameHead DEF ObjectsAssumption
  <2>5. o = EmptyObject
    BY <1>3, <2>2, <2>3, <2>4, ScalarReadable DEF EmptyObject
  <2>6. Readable[o]
    BY <1>3, <1>7, <2>2, <2>3, ScalarReadable DEF Fit
  <2>7. position' = FrameEnd(x)
    BY <1>6, <1>8, <2>4 DEF FrameEnd
  <2> QED BY <2>1, <2>5, <2>6, <2>7 DEF Delivers
<1>11. CASE ReadTypeId
  <2>1. PICK type \in KnownTypes \ {"Empty"} :
          /\ s.value = <<TypeId[type]>>
          /\ SetTop([t EXCEPT !.phase = "payload", !.type = type])
    BY <1>11 DEF ReadTypeId
  <2> DEFINE c == [t EXCEPT !.phase = "payload", !.type = type]
  <2>2. type = o.type
    <3>1. <<TypeId[type]>> = <<TypeId[o.type]>> /\ type \in DOMAIN TypeId
      BY <1>6, <1>7, <2>1
    <3> QED BY <1>4, <3>1, TypeIdsDiffer
  <2>3. c = CallAs("payload", FrameEnd(x), o.type, 0, <<>>, <<>>, <<>>)
    <3>1. c = [phase |-> "payload", end |-> t.end, type |-> type, left |-> t.left,
               key |-> t.key, bytes |-> t.bytes, parts |-> t.parts]
      BY <1>3, CallWithType
    <3> HIDE DEF c, t
    <3> QED BY <1>2, <2>2, <3>1 DEF CallAs
  <2>4. SetTop(c) /\ UNCHANGED received
    BY <1>11, <2>1 DEF ReadTypeId
  <2>5. o.type \in KnownTypes \ {"Empty"}
    BY <2>1, <2>2
  <2> HIDE DEF c
  <2>6. CallOK(c)
    BY <1>3, <2>3, <2>5 DEF CallOK, CallAs
  <2>7. Reads(c, x, position')
    BY <1>6, <1>8, <2>3, <2>5 DEF Reads, ReadsPayload
  <2> QED BY <2>4, <2>6, <2>7 DEF Continues, Sets
<1>12. CASE ReadUnknownTypeId
  <2> DEFINE c == [t EXCEPT !.phase = "failed"]
  <2>1. o.type \notin KnownTypes
    BY <1>6, <1>12 DEF ReadUnknownTypeId
  <2>2. ~Readable[o]
    BY <1>3, <2>1, ReadableEquation DEF Fit
  <2>3. SetTop(c) /\ UNCHANGED received
    BY <1>12 DEF ReadUnknownTypeId
  <2>4. c = CallAs("failed", FrameEnd(x), "Empty", 0, <<>>, <<>>, <<>>)
    <3> HIDE DEF t
    <3> QED BY <1>2 DEF CallAs
  <2> HIDE DEF c
  <2>5. CallOK(c) /\ c.phase = "failed" /\ c.end = FrameEnd(x)
    BY <1>3, <1>7, <2>4 DEF CallOK, CallAs
  <2>6. Reads(c, x, position')
    BY <2>2, <2>5 DEF Reads, Fails
  <2> QED BY <2>3, <2>5, <2>6 DEF Continues, Sets
<1> QED BY <1>9, <1>10, <1>11, <1>12

\* A call that fails with nothing to be had, and one that ends its payload.
LEMMA FailsOutcome ==
  ASSUME SInv, calls # <<>>, NEW x, LiesAt(x), Top.end = FrameEnd(x), ~Readable[x.object],
         SetTop([Top EXCEPT !.phase = "failed"]), UNCHANGED received
  PROVE  Continues(x)
<1> DEFINE t == Top
           c == [t EXCEPT !.phase = "failed"]
<1>1. /\ t = [phase |-> t.phase, end |-> t.end, type |-> t.type, left |-> t.left,
              key |-> t.key, bytes |-> t.bytes, parts |-> t.parts]
      /\ t.end \in Nat /\ t.left \in Nat /\ t.type \in KnownTypes
  BY TopFacts
<1>2. CallOK(c) /\ c.phase = "failed" /\ c.end = t.end
  <2> HIDE DEF t
  <2> QED BY <1>1 DEF CallOK
<1>3. SetTop(c)
  OBVIOUS
<1> HIDE DEF c
<1>4. Reads(c, x, position')
  BY <1>2 DEF Reads, Fails
<1> QED BY <1>2, <1>3, <1>4 DEF Continues, Sets

LEMMA VerifiesOutcome ==
  ASSUME SInv, calls # <<>>, NEW x, LiesAt(x), Top.end = FrameEnd(x),
         Top.type = x.object.type, Top.parts = <<>>, ~Container(x.object),
         NEW bytes, SetTop([Top EXCEPT !.phase = "verify", !.bytes = bytes]),
         UNCHANGED received,
         IF position' = FrameEnd(x) THEN Readable[x.object] /\ bytes = x.object.bytes
         ELSE ~Readable[x.object]
  PROVE  Continues(x)
<1> DEFINE t == Top
           c == [t EXCEPT !.phase = "verify", !.bytes = bytes]
           o == x.object
<1>1. /\ t = [phase |-> t.phase, end |-> t.end, type |-> t.type, left |-> t.left,
              key |-> t.key, bytes |-> t.bytes, parts |-> t.parts]
      /\ t.end \in Nat /\ t.left \in Nat /\ t.type \in KnownTypes /\ CallOK(t)
  BY TopFacts
<1>2. c = [phase |-> "verify", end |-> t.end, type |-> t.type, left |-> t.left,
           key |-> t.key, bytes |-> bytes, parts |-> t.parts]
  <2> DEFINE d == [phase |-> "verify", end |-> t.end, type |-> t.type, left |-> t.left,
                   key |-> t.key, bytes |-> t.bytes, parts |-> t.parts]
  <2>1. [t EXCEPT !.phase = "verify"] = d
    <3> HIDE DEF t
    <3> QED BY <1>1
  <2>2. [d EXCEPT !.bytes = bytes]
          = [phase |-> "verify", end |-> t.end, type |-> t.type, left |-> t.left,
             key |-> t.key, bytes |-> bytes, parts |-> t.parts]
    OBVIOUS
  <2> HIDE DEF d, t
  <2> QED BY <2>1, <2>2
<1>3. SetTop(c)
  OBVIOUS
<1> HIDE DEF c, t
<1>4. CallOK(c) /\ c.phase = "verify" /\ c.end = t.end /\ c.type = t.type
        /\ c.bytes = bytes /\ c.parts = t.parts
  BY <1>1, <1>2 DEF CallOK
<1>5. o = Object(o.type, o.bytes, <<>>)
  BY ScalarReadable DEF LiesAt
<1>6. c.end = FrameEnd(x) /\ Object(c.type, c.bytes, c.parts) = Object(o.type, bytes, <<>>)
  BY <1>4 DEF t
<1>7. Verifies(c, x, position')
  <2> HIDE DEF o
  <2> QED BY <1>4, <1>5, <1>6 DEF Verifies, o
<1>8. Reads(c, x, position')
  BY <1>7 DEF Reads
<1> QED BY <1>3, <1>4, <1>8 DEF Continues, Sets

LEMMA PayloadFacts ==
  ASSUME SInv, calls # <<>>, NEW x, LiesAt(x), Reads(Top, x, position), Top.phase = "payload"
  PROVE  /\ x.object \in Objects /\ x.object.type \in KnownTypes \ {"Empty"}
         /\ position = x.at + 3 /\ position \in Nat /\ file \in Seq(Nat) /\ Len(file) \in Nat
         /\ Top.end = FrameEnd(x) /\ Top.type = x.object.type /\ Top.parts = <<>>
         /\ Top = CallAs("payload", FrameEnd(x), x.object.type, 0, <<>>, <<>>, <<>>)
         /\ BytesAt(PayloadOf(x.object), position)
         /\ FrameEnd(x) = position + Len(PayloadOf(x.object))
         /\ FrameEnd(x) \in Nat
         /\ FrameEnd(x) <= Len(file)
         /\ Available(position) \in Nat /\ Available(position) = Len(file) - position
<1>1. /\ Top = CallAs("payload", FrameEnd(x), x.object.type, 0, <<>>, <<>>, <<>>)
      /\ x.object.type \in KnownTypes \ {"Empty"}
      /\ position = x.at + 3
  BY ReadsPhase DEF ReadsPayload
<1>2. file \in Seq(Nat) /\ position \in Nat
  BY TopFacts
<1>3. /\ x.object \in Objects /\ FrameEnd(x) = (x.at + 3) + Len(PayloadOf(x.object))
      /\ FrameEnd(x) <= Len(file) /\ FrameEnd(x) \in Nat
  BY <1>2, EndFact
<1>4. BytesAt(PayloadOf(x.object), x.at + 3)
  BY <1>2, <1>3, FrameLies DEF LiesAt
<1>5. Top.end = FrameEnd(x) /\ Top.type = x.object.type /\ Top.parts = <<>>
  BY <1>1 DEF CallAs
<1>6. PayloadOf(x.object) \in Seq(Nat) /\ Len(file) \in Nat
  <2>1. PayloadOf(x.object) \in Seq(Nat)
    BY <1>3, FrameForm
  <2> QED BY <1>2, <2>1
<1>7. Available(position) \in Nat /\ Available(position) = Len(file) - position
  <2> DEFINE l == Len(PayloadOf(x.object))
             e == FrameEnd(x)
  <2>1. l \in Nat /\ e = position + l /\ e <= Len(file)
    <3>1. l \in Nat
      BY <1>6
    <3> HIDE DEF l
    <3> QED BY <1>1, <1>3, <3>1 DEF l
  <2> HIDE DEF l, e
  <2>2. Len(file) - position \in Nat /\ (~ (position < Len(file)) => Len(file) - position = 0)
    BY ONLY <1>2, <1>6, <2>1
  <2>3. Available(position) = IF position < Len(file) THEN Len(file) - position ELSE 0
    BY DEF Available
  <2> QED BY ONLY <2>2, <2>3
<1> QED BY <1>1, <1>2, <1>3, <1>4, <1>5, <1>6, <1>7

LEMMA ScalarPayload ==
  ASSUME NEW o \in Objects, o.type \in {"Boolean", "IpAddress"} \cup Counted
  PROVE  /\ ~Container(o) /\ o.bytes \in Seq(Nat) /\ o.type \in KnownTypes
         /\ PayloadOf(o) = IF o.type \in Counted THEN StringBytes(o.bytes) ELSE o.bytes
<1>1. o.bytes \in Seq(Nat) /\ o.type \in DOMAIN TypeId
  BY InsideIsObjects
<1> QED BY <1>1 DEF Container, Counted, PayloadOf, PayloadWith, KnownTypes, TypeId

LEMMA BooleanOutcome ==
  ASSUME SInv, calls # <<>>, NEW x, LiesAt(x), Reads(Top, x, position), ReadBoolean
  PROVE  Continues(x)
<1> DEFINE o == x.object
           p == position
           e == FrameEnd(x)
<1>1. Top.phase = "payload" /\ Top.type = "Boolean" /\ UNCHANGED received
  BY DEF ReadBoolean, In
<1>2. /\ o \in Objects /\ o.type = "Boolean" /\ p \in Nat /\ file \in Seq(Nat)
      /\ Top.end = e /\ Top.type = o.type /\ Top.parts = <<>>
      /\ BytesAt(PayloadOf(o), p) /\ e = p + Len(PayloadOf(o)) /\ e \in Nat
  BY <1>1, PayloadFacts
<1>3. ~Container(o) /\ PayloadOf(o) = o.bytes /\ o.bytes \in {<<>>, <<0>>, <<1>>}
        /\ o.type \in KnownTypes
  BY <1>2, ScalarPayload, ShapesAssumption DEF ShapesAssumption, Counted
<1>4. Readable[o] <=> o.bytes # <<>>
  BY <1>2, <1>3, ScalarReadable DEF Fit
<1>5. CASE o.bytes = <<>>
  <2>1. e = p /\ ~Readable[o]
    BY <1>2, <1>3, <1>4, <1>5
  <2>2. CASE Available(p) > 0
    <3>1. PICK bytes : SetTop([Top EXCEPT !.phase = "verify", !.bytes = bytes])
      BY <2>2 DEF ReadBoolean
    <3>2. position' = p + 1
      BY <2>2 DEF ReadBoolean
    <3>3. position' # e
      BY <1>2, <2>1, <3>2
    <3> QED BY <1>1, <1>2, <1>3, <2>1, <3>1, <3>3, VerifiesOutcome
  <2>3. CASE ~ (Available(p) > 0)
    <3>1. SetTop([Top EXCEPT !.phase = "failed"])
      BY <2>3 DEF ReadBoolean
    <3> QED BY <1>1, <1>2, <2>1, <3>1, FailsOutcome
  <2> QED BY <2>2, <2>3
<1>6. ASSUME NEW b \in {0, 1}, o.bytes = <<b>> PROVE Continues(x)
  <2>1. Readable[o] /\ e = p + 1
    <3>1. <<b>> # <<>> /\ Len(<<b>>) = 1
      OBVIOUS
    <3> QED BY <1>2, <1>3, <1>4, <1>6, <3>1
  <2>2. Available(p) > 0 /\ file[p + 1] = b
    BY <1>2, <1>3, <1>6, ByteRead
  <2> DEFINE bytes == IF file[p + 1] = 0 THEN <<0>> ELSE <<1>>
  <2>3. SetTop([Top EXCEPT !.phase = "verify", !.bytes = bytes]) /\ position' = p + 1
    BY <2>2 DEF ReadBoolean
  <2>4. bytes = o.bytes
    BY <1>6, <2>2
  <2> HIDE DEF bytes
  <2> QED BY <1>1, <1>2, <1>3, <2>1, <2>3, <2>4, VerifiesOutcome
<1> QED BY <1>3, <1>5, <1>6

\* A payload read in one go, whose bytes are there.
LEMMA WholePayloadOutcome ==
  ASSUME SInv, calls # <<>>, NEW x, LiesAt(x), Reads(Top, x, position),
         NEW type \in {"IpAddress"} \cup Counted, NEW read, Payload(type, read),
         IF read.ok
         THEN IF read.next = FrameEnd(x) THEN Readable[x.object] /\ read.value = x.object.bytes
              ELSE ~Readable[x.object]
         ELSE ~Readable[x.object]
  PROVE  Continues(x)
<1>1. Top.phase = "payload" /\ Top.type = type /\ UNCHANGED received /\ position' = read.next
  BY DEF Payload, In
<1>2. /\ x.object \in Objects /\ x.object.type = type
      /\ Top.end = FrameEnd(x) /\ Top.type = x.object.type /\ Top.parts = <<>>
  BY <1>1, PayloadFacts
<1>3. ~Container(x.object)
  BY <1>2, ScalarPayload
<1>4. CASE read.ok
  <2>1. SetTop([Top EXCEPT !.phase = "verify", !.bytes = read.value])
    BY <1>4 DEF Payload
  <2> QED BY <1>1, <1>2, <1>3, <1>4, <2>1, VerifiesOutcome
<1>5. CASE ~read.ok
  <2>1. SetTop([Top EXCEPT !.phase = "failed"])
    BY <1>5 DEF Payload
  <2> QED BY <1>1, <1>2, <1>5, <2>1, FailsOutcome
<1> QED BY <1>4, <1>5

LEMMA StringOutcome ==
  ASSUME SInv, calls # <<>>, NEW x, LiesAt(x), Reads(Top, x, position), ReadStringPayload
  PROVE  Continues(x)
<1> DEFINE o == x.object
           p == position
           read == ReadString(p)
<1>1. Top.phase = "payload" /\ Top.type = "String" /\ Payload("String", read)
  BY DEF ReadStringPayload, Payload, In
<1>2. /\ o \in Objects /\ o.type = "String" /\ p \in Nat /\ file \in Seq(Nat)
      /\ BytesAt(PayloadOf(o), p) /\ FrameEnd(x) = p + Len(PayloadOf(o))
  BY <1>1, PayloadFacts
<1>3. ~Container(o) /\ o.bytes \in Seq(Nat) /\ PayloadOf(o) = StringBytes(o.bytes)
        /\ o.type \in KnownTypes
  BY <1>2, ScalarPayload DEF Counted
<1>4. Readable[o]
  BY <1>2, <1>3, ScalarReadable DEF Fit
<1>5. read.ok /\ read.next = p + 1 + Len(o.bytes) /\ read.value = o.bytes
  <2>1. BytesAt(StringBytes(o.bytes), p)
    BY <1>2, <1>3
  <2> QED BY <1>2, <1>3, <2>1, StringRead
<1>6. FrameEnd(x) = p + 1 + Len(o.bytes)
  <2> DEFINE s == o.bytes
  <2>1. s \in Seq(Nat) /\ PayloadOf(o) = StringBytes(s)
    BY <1>3
  <2> HIDE DEF s
  <2>2. Len(StringBytes(s)) = Len(s) + 1 /\ Len(s) \in Nat
    BY <2>1, StringBytesType
  <2>3. FrameEnd(x) = p + (Len(s) + 1)
    BY <1>2, <2>1, <2>2
  <2>4. p + (Len(s) + 1) = p + 1 + Len(s)
    BY <1>2, <2>2
  <2> QED BY <2>3, <2>4 DEF s
<1>7. "String" \in {"IpAddress"} \cup Counted
  BY DEF Counted
<1> HIDE DEF read
<1> QED BY <1>1, <1>4, <1>5, <1>6, <1>7, WholePayloadOutcome

LEMMA IpAddressOutcome ==
  ASSUME SInv, calls # <<>>, NEW x, LiesAt(x), Reads(Top, x, position), ReadIpAddress
  PROVE  Continues(x)
<1> DEFINE o == x.object
           p == position
           got == IF Available(p) < AddressSize THEN Available(p) ELSE AddressSize
           read == [ok |-> got = AddressSize, next |-> p + got,
                    value |-> SubSeq(file, p + 1, p + got)]
<1>1. Top.phase = "payload" /\ Top.type = "IpAddress" /\ Payload("IpAddress", read)
  BY DEF ReadIpAddress, Payload, In
<1>2. /\ o \in Objects /\ o.type = "IpAddress" /\ p \in Nat /\ file \in Seq(Nat)
      /\ BytesAt(PayloadOf(o), p) /\ FrameEnd(x) = p + Len(PayloadOf(o))
      /\ FrameEnd(x) <= Len(file) /\ Len(file) \in Nat
      /\ Available(p) \in Nat /\ Available(p) = Len(file) - p
  BY <1>1, PayloadFacts
<1>3. ~Container(o) /\ o.bytes \in Seq(Nat) /\ PayloadOf(o) = o.bytes
        /\ o.type \in KnownTypes
  BY <1>2, ScalarPayload DEF Counted
<1>4. Readable[o] <=> o.bytes # <<>>
  BY <1>2, <1>3, ScalarReadable DEF Fit
<1>5. o.bytes = <<>> \/ Len(o.bytes) = AddressSize
  BY <1>2, ShapesAssumption DEF ShapesAssumption
<1>6. read.ok <=> got = AddressSize
  OBVIOUS
<1>7. read.next = p + got
  OBVIOUS
<1>8. read.value = SubSeq(file, p + 1, p + got)
  OBVIOUS
<1> HIDE DEF read
<1>9. "IpAddress" \in {"IpAddress"} \cup Counted
  OBVIOUS
<1>10. CASE o.bytes = <<>>
  <2>1. ~Readable[o] /\ FrameEnd(x) = p
    BY <1>2, <1>3, <1>4, <1>10
  <2>2. read.ok => read.next # FrameEnd(x)
    <3> HIDE DEF got
    <3> QED BY <1>2, <1>6, <1>7, <2>1 DEF AddressSize
  <2> QED BY <1>1, <1>9, <2>1, <2>2, WholePayloadOutcome
<1>11. CASE Len(o.bytes) = AddressSize
  <2>1. Readable[o]
    BY <1>3, <1>4, <1>11 DEF AddressSize
  <2>2. FrameEnd(x) = p + AddressSize
    BY <1>2, <1>3, <1>11
  <2>3. got = AddressSize
    <3> DEFINE e == FrameEnd(x)
               l == Len(file)
    <3>1. e = p + AddressSize /\ e <= l /\ l \in Nat /\ p \in Nat /\ Available(p) = l - p
      BY <1>2, <2>2
    <3> HIDE DEF e, l
    <3> QED BY <3>1 DEF AddressSize
  <2>4. SubSeq(file, p + 1, p + AddressSize) = o.bytes
    BY <1>2, <1>3, <1>11, BytesCut
  <2> HIDE DEF got
  <2>5. read.ok /\ read.next = FrameEnd(x) /\ read.value = o.bytes
    BY <1>6, <1>7, <1>8, <2>2, <2>3, <2>4
  <2> QED BY <1>1, <1>9, <2>1, <2>5, WholePayloadOutcome
<1> QED BY <1>5, <1>10, <1>11

LEMMA NumbersOutcome ==
  ASSUME SInv, calls # <<>>, NEW x, LiesAt(x), Reads(Top, x, position),
         NEW type \in {"IntegerVector", "UnsignedIntegerVector"}, ReadNumbers(type)
  PROVE  Continues(x)
<1> DEFINE o == x.object
           p == position
           s == o.bytes
           n == Len(s)
           count == IF Available(p) > 0 THEN file[p + 1] ELSE 0
           numbers == {i \in 1 .. count : i <= Available(p) - 1}
           one == IF Available(p) > 0 THEN 1 ELSE 0
           read == [ok |-> Available(p) > 0 /\ Cardinality(numbers) = count,
                    next |-> p + one + Cardinality(numbers),
                    value |-> [i \in numbers |-> file[p + 1 + i]]]
<1>1. Top.phase = "payload" /\ Top.type = type /\ Payload(type, read)
  BY DEF ReadNumbers, Payload, In
<1>2. /\ o \in Objects /\ o.type = type /\ p \in Nat /\ file \in Seq(Nat)
      /\ BytesAt(PayloadOf(o), p) /\ FrameEnd(x) = p + Len(PayloadOf(o))
      /\ FrameEnd(x) <= Len(file) /\ Len(file) \in Nat
      /\ Available(p) \in Nat /\ Available(p) = Len(file) - p
  BY <1>1, PayloadFacts
<1>3. ~Container(o) /\ s \in Seq(Nat) /\ PayloadOf(o) = StringBytes(s) /\ type \in KnownTypes
  BY <1>2, ScalarPayload DEF Counted
<1>4. Readable[o]
  BY <1>2, <1>3, ScalarReadable DEF Fit
<1>5. n \in Nat /\ <<n>> \in Seq(Nat) /\ Len(StringBytes(s)) = n + 1 /\ Len(<<n>>) = 1
  <2>1. n \in Nat
    BY <1>3
  <2>2. Len(StringBytes(s)) = n + 1
    BY <1>3, StringBytesType
  <2> HIDE DEF n
  <2> QED BY <2>1, <2>2
<1>6. BytesAt(<<n>>, p) /\ BytesAt(s, p + 1)
  BY <1>2, <1>3, <1>5, BytesSplit DEF StringBytes
<1>7. Available(p) > 0 /\ file[p + 1] = n
  BY <1>2, <1>6, ByteRead
<1>8. n <= Available(p) - 1 /\ FrameEnd(x) = p + 1 + n
  <2> DEFINE e == FrameEnd(x)
             l == Len(file)
  <2>1. e = p + (n + 1) /\ e <= l /\ l \in Nat /\ p \in Nat /\ Available(p) = l - p /\ n \in Nat
    BY <1>2, <1>3, <1>5
  <2> HIDE DEF e, l, n
  <2>2. n <= Available(p) - 1 /\ e = p + 1 + n
    BY ONLY <2>1
  <2> QED BY <2>2 DEF e
<1>9. count = n /\ one = 1
  BY <1>7
<1>10. numbers = 1 .. n /\ Cardinality(numbers) = n
  <2> DEFINE a == Available(p)
  <2>1. a \in Nat /\ a > 0 /\ n \in Nat /\ n <= a - 1
    BY <1>2, <1>5, <1>7, <1>8
  <2>2. numbers = {i \in 1 .. n : i <= a - 1}
    BY <1>9
  <2> HIDE DEF a, n, numbers
  <2> QED BY <2>1, <2>2, NumbersRead
<1>11. [i \in 1 .. n |-> file[p + 1 + i]] = s
  <2>1. \A i \in 1 .. n : file[(p + 1) + i] = s[i]
    BY <1>6 DEF BytesAt
  <2>2. s = [i \in 1 .. n |-> s[i]]
    BY <1>3
  <2> QED BY <2>1, <2>2
<1>12. read.ok <=> (Available(p) > 0 /\ Cardinality(numbers) = count)
  OBVIOUS
<1>13. read.next = p + one + Cardinality(numbers)
  OBVIOUS
<1>14. read.value = [i \in numbers |-> file[p + 1 + i]]
  OBVIOUS
<1> HIDE DEF read
<1>15. read.ok /\ read.next = FrameEnd(x) /\ read.value = s
  <2> HIDE DEF numbers, count, one, n, s
  <2> QED BY <1>7, <1>8, <1>9, <1>10, <1>11, <1>12, <1>13, <1>14
<1>16. type \in {"IpAddress"} \cup Counted
  BY DEF Counted
<1> HIDE DEF numbers, count, one
<1> QED BY <1>1, <1>4, <1>15, <1>16, WholePayloadOutcome

\* The count of a vector or collection.
LEMMA CountOutcome ==
  ASSUME SInv, calls # <<>>, NEW x, LiesAt(x), Reads(Top, x, position), ReadCount
  PROVE  Continues(x)
<1> DEFINE o == x.object
           p == position
           t == Top
           n == Len(o.parts)
           c == [t EXCEPT !.phase = "parts", !.left = file[p + 1]]
<1>1. Top.phase = "payload" /\ Top.type \in {"Vector", "Collection"} /\ UNCHANGED received
  BY DEF ReadCount, In
<1>2. /\ o \in Objects /\ t.type = o.type /\ p \in Nat /\ file \in Seq(Nat) /\ p = x.at + 3
      /\ t = CallAs("payload", FrameEnd(x), o.type, 0, <<>>, <<>>, <<>>)
      /\ FrameEnd(x) \in Nat /\ o.type \in KnownTypes
  BY <1>1, PayloadFacts
<1>3. Container(o)
  BY <1>1, <1>2 DEF Container
<1>4. BytesAt(<<n>>, p)
  <2>1. BytesAt(<<n>>, x.at + 3)
    BY <1>2, <1>3, PartLies DEF LiesAt
  <2> QED BY <1>2, <2>1
<1>5. Available(p) > 0 /\ file[p + 1] = n
  BY <1>2, <1>4, ByteRead
<1>6. SetTop(c) /\ position' = p + 1
  BY <1>5 DEF ReadCount
<1>7. n \in Nat /\ x.at \in Nat
  BY <1>2, PartFacts, EndFact
<1>8. c = CallAs("parts", FrameEnd(x), o.type, n, <<>>, <<>>, <<>>)
  <2> DEFINE d == CallAs("payload", FrameEnd(x), o.type, 0, <<>>, <<>>, <<>>)
  <2>1. [d EXCEPT !.phase = "parts", !.left = n]
          = CallAs("parts", FrameEnd(x), o.type, n, <<>>, <<>>, <<>>)
    <3>1. [d EXCEPT !.phase = "parts"]
            = CallAs("parts", FrameEnd(x), o.type, 0, <<>>, <<>>, <<>>)
      BY DEF CallAs
    <3>2. [CallAs("parts", FrameEnd(x), o.type, 0, <<>>, <<>>, <<>>) EXCEPT !.left = n]
            = CallAs("parts", FrameEnd(x), o.type, n, <<>>, <<>>, <<>>)
      <4> HIDE DEF n
      <4> QED BY DEF CallAs
    <3> HIDE DEF d, n
    <3> QED BY <3>1, <3>2
  <2>2. c = [t EXCEPT !.phase = "parts", !.left = n]
    BY <1>5
  <2> HIDE DEF d, t, n, c
  <2> QED BY <1>2, <2>1, <2>2 DEF d
<1> HIDE DEF c, t
<1>9. CallOK(c)
  <2> HIDE DEF n
  <2> QED BY <1>2, <1>7, <1>8 DEF CallOK, CallAs
<1>10. Got(c, x, 0)
  <2>1. Prefix(o, 0) = <<>>
    BY DEF Prefix
  <2>2. c.key = <<>>
    BY <1>8 DEF CallAs
  <2>3. n - 0 = n /\ 0 \in 0 .. n
    BY <1>7
  <2> HIDE DEF n
  <2> QED BY <1>3, <1>8, <2>1, <2>2, <2>3 DEF Got, n
<1>11. position' = x.at + PartAt(o, 0 + 1)
  <2>1. PartAt(o, 1) = 4
    BY <1>2, <1>3, PartAtFacts
  <2> QED BY <1>2, <1>6, <1>7, <2>1
<1>12. Reads(c, x, position')
  BY <1>10, <1>11 DEF Reads, ReadsParts
<1> QED BY <1>6, <1>1, <1>9, <1>12 DEF Continues, Sets

\* A part lies where PartOf says.
LEMMA PartOfLies ==
  ASSUME NEW x, LiesAt(x), Container(x.object), file \in Seq(Nat),
         NEW j \in 1 .. Len(x.object.parts)
  PROVE  LiesAt(PartOf(x, j))
<1> DEFINE v == x.object.parts[j].value
           a == x.at + PartAt(x.object, j) + Len(KeyBytes(x.object, j))
<1>1. v \in Objects
  BY PartFacts DEF LiesAt
<1>2. BytesAt(Frame[v], a)
  BY PartLies DEF LiesAt
<1>3. PartOf(x, j).object = v /\ PartOf(x, j).at = a
  BY DEF PartOf
<1> HIDE DEF v, a
<1> QED BY <1>1, <1>2, <1>3 DEF LiesAt

LEMMA PartsFacts ==
  ASSUME SInv, calls # <<>>, NEW x, LiesAt(x), Reads(Top, x, position), Top.phase = "parts"
  PROVE  \E k \in Nat :
           /\ Got(Top, x, k) /\ position = x.at + PartAt(x.object, k + 1)
           /\ x.object \in Objects /\ Container(x.object) /\ Top.type = x.object.type
           /\ Len(x.object.parts) \in Nat /\ k \in 0 .. Len(x.object.parts)
           /\ Top = CallAs("parts", FrameEnd(x), x.object.type, Len(x.object.parts) - k,
                           Top.key, <<>>, Prefix(x.object, k))
           /\ Top.left = Len(x.object.parts) - k /\ Top.end = FrameEnd(x)
           /\ Top.bytes = <<>> /\ Top.parts = Prefix(x.object, k)
           /\ CallOK(Top) /\ x.at \in Nat /\ position \in Nat /\ file \in Seq(Nat)
           /\ FrameEnd(x) \in Nat
<1> DEFINE t == Top
           n == Len(x.object.parts)
<1>1. PICK k \in Nat : Got(t, x, k) /\ position = x.at + PartAt(x.object, k + 1)
  BY ReadsPhase DEF ReadsParts
<1>2. file \in Seq(Nat) /\ position \in Nat /\ CallOK(t)
  BY TopFacts
<1>3. x.object \in Objects /\ x.at \in Nat /\ FrameEnd(x) \in Nat
  BY <1>2, EndFact
<1>4. n \in Nat
  BY <1>3, PartFacts
<1>5. /\ Container(x.object) /\ k \in 0 .. n
      /\ t = CallAs("parts", FrameEnd(x), x.object.type, n - k, t.key, <<>>, Prefix(x.object, k))
  BY <1>1 DEF Got
<1>6. /\ t.type = x.object.type /\ t.left = n - k /\ t.end = FrameEnd(x)
      /\ t.bytes = <<>> /\ t.parts = Prefix(x.object, k)
  <2> DEFINE d == CallAs("parts", FrameEnd(x), x.object.type, n - k, t.key, <<>>,
                         Prefix(x.object, k))
  <2>1. /\ d.type = x.object.type /\ d.left = n - k /\ d.end = FrameEnd(x)
        /\ d.bytes = <<>> /\ d.parts = Prefix(x.object, k)
    BY DEF CallAs
  <2>2. t = d
    BY <1>5
  <2> HIDE DEF d, t, n
  <2> QED BY <2>1, <2>2
<1> QED BY <1>1, <1>2, <1>3, <1>4, <1>5, <1>6

LEMMA VectorPartOutcome ==
  ASSUME SInv, calls # <<>>, NEW x, LiesAt(x), Reads(Top, x, position), ReadVectorPart
  PROVE  Descends(x)
<1> DEFINE o == x.object
           n == Len(o.parts)
           t == Top
<1>1. t.phase = "parts" /\ t.type = "Vector" /\ t.left > 0
        /\ calls' = Append(calls, NewCall) /\ UNCHANGED <<position, received>>
  BY DEF ReadVectorPart, In
<1>2. PICK k \in Nat :
        /\ Got(t, x, k) /\ position = x.at + PartAt(o, k + 1)
        /\ o \in Objects /\ Container(o) /\ t.type = o.type
        /\ n \in Nat /\ k \in 0 .. n /\ t.left = n - k
        /\ x.at \in Nat /\ position \in Nat /\ file \in Seq(Nat)
  BY <1>1, PartsFacts
<1>3. k < n /\ k + 1 \in 1 .. n
  <2> HIDE DEF n, t
  <2> QED BY <1>1, <1>2
<1>4. t.key = o.parts[k + 1].key
  <2>1. t.key = <<>>
    BY <1>1, <1>2 DEF Got
  <2>2. DOMAIN o.parts = 1 .. n
    BY <1>2, PartFacts
  <2>3. o.parts[k + 1].key = <<>>
    BY <1>1, <1>2, <1>3, <2>2, ShapesAssumption DEF ShapesAssumption
  <2> QED BY <2>1, <2>3
<1> DEFINE y == PartOf(x, k + 1)
<1>5. LiesAt(y)
  BY <1>2, <1>3, PartOfLies
<1>6. y.at = position
  <2>1. Len(KeyBytes(o, k + 1)) = 0
    BY <1>1, <1>2 DEF KeyBytes
  <2>2. y.at = position + Len(KeyBytes(o, k + 1))
    BY <1>2 DEF PartOf
  <2> HIDE DEF y
  <2> QED BY <1>2, <2>1, <2>2
<1>7. WaitsFor(t, x, y)
  <2> HIDE DEF t
  <2> QED BY <1>2, <1>3, <1>4 DEF WaitsFor
<1>8. calls = Put(calls, Len(calls), t)
  <2>1. calls \in Seq({calls[i] : i \in DOMAIN calls}) /\ DOMAIN calls = 1 .. Len(calls)
    BY CallsFacts DEF SInv, ReaderOK, IsSeq
  <2>2. calls = [calls EXCEPT ![Len(calls)] = calls[Len(calls)]]
    BY <2>1
  <2> QED BY <2>2 DEF Put, Top
<1> HIDE DEF y, t
<1>9. calls' = Append(Put(calls, Len(calls), t), NewCall)
  BY <1>1, <1>8
<1> QED BY <1>1, <1>5, <1>6, <1>7, <1>9 DEF Descends

LEMMA CollectionPartOutcome ==
  ASSUME SInv, calls # <<>>, NEW x, LiesAt(x), Reads(Top, x, position), ReadCollectionPart
  PROVE  Descends(x)
<1> DEFINE o == x.object
           n == Len(o.parts)
           t == Top
           key == ReadString(position)
           c == [t EXCEPT !.key = key.value]
<1>1. t.phase = "parts" /\ t.type = "Collection" /\ t.left > 0
        /\ position' = key.next /\ UNCHANGED received
  BY DEF ReadCollectionPart, In
<1>2. PICK k \in Nat :
        /\ Got(t, x, k) /\ position = x.at + PartAt(o, k + 1)
        /\ o \in Objects /\ Container(o) /\ t.type = o.type
        /\ n \in Nat /\ k \in 0 .. n /\ t.left = n - k
        /\ t = CallAs("parts", FrameEnd(x), o.type, n - k, t.key, <<>>, Prefix(o, k))
        /\ x.at \in Nat /\ position \in Nat /\ file \in Seq(Nat)
  BY <1>1, PartsFacts
<1>3. k < n /\ k + 1 \in 1 .. n
  <2> HIDE DEF n, t
  <2> QED BY <1>1, <1>2
<1> DEFINE s == o.parts[k + 1].key
           y == PartOf(x, k + 1)
<1>4. s \in Seq(Nat) /\ KeyBytes(o, k + 1) = StringBytes(s)
  BY <1>1, <1>2, <1>3, PartFacts DEF KeyBytes
<1>5. BytesAt(StringBytes(s), position)
  BY <1>2, <1>3, <1>4, PartLies DEF LiesAt
<1>6. key.ok /\ key.next = position + 1 + Len(s) /\ key.value = s
  BY <1>2, <1>4, <1>5, StringRead
<1>7. LiesAt(y)
  BY <1>2, <1>3, PartOfLies
<1>8. y.at = position'
  <2>1. y.at = position + Len(StringBytes(s))
    BY <1>2, <1>4 DEF PartOf
  <2>2. Len(StringBytes(s)) = Len(s) + 1
    BY <1>4, StringBytesType
  <2>3. Len(s) \in Nat
    BY <1>4
  <2>4. position' = position + 1 + Len(s)
    BY <1>1, <1>6
  <2> HIDE DEF y, s
  <2> QED BY <1>2, <2>1, <2>2, <2>3, <2>4
<1>9. c = CallAs("parts", FrameEnd(x), o.type, n - k, s, <<>>, Prefix(o, k))
  <2> DEFINE d == CallAs("parts", FrameEnd(x), o.type, n - k, t.key, <<>>, Prefix(o, k))
  <2>1. [d EXCEPT !.key = s]
          = CallAs("parts", FrameEnd(x), o.type, n - k, s, <<>>, Prefix(o, k))
    BY DEF CallAs
  <2>2. c = [t EXCEPT !.key = s]
    BY <1>6
  <2> HIDE DEF d, t, n, c, s
  <2> QED BY <1>2, <2>1, <2>2 DEF d
<1>10. calls' = Append(Put(calls, Len(calls), c), NewCall)
  BY <1>6 DEF ReadCollectionPart, Put, Top
<1> HIDE DEF c
<1>11. Got(c, x, k)
  <2>1. c.key = s
    BY <1>9 DEF CallAs
  <2> QED BY <1>1, <1>2, <1>9, <2>1 DEF Got
<1>12. WaitsFor(c, x, y)
  <2>1. c.key = s
    BY <1>9 DEF CallAs
  <2> QED BY <1>3, <1>11, <2>1 DEF WaitsFor
<1> HIDE DEF y, key, t
<1> QED BY <1>1, <1>7, <1>8, <1>10, <1>12 DEF Descends

LEMMA EndPartsOutcome ==
  ASSUME SInv, calls # <<>>, NEW x, LiesAt(x), Reads(Top, x, position), EndParts
  PROVE  Continues(x)
<1> DEFINE o == x.object
           n == Len(o.parts)
           t == Top
           c == [t EXCEPT !.phase = "verify"]
<1>1. t.phase = "parts" /\ t.left = 0 /\ SetTop(c) /\ UNCHANGED <<position, received>>
  BY DEF EndParts, In
<1>2. PICK k \in Nat :
        /\ Got(t, x, k) /\ position = x.at + PartAt(o, k + 1)
        /\ o \in Objects /\ Container(o) /\ t.type = o.type
        /\ n \in Nat /\ k \in 0 .. n /\ t.left = n - k /\ t.end = FrameEnd(x)
        /\ t.bytes = <<>> /\ t.parts = Prefix(o, k)
        /\ CallOK(t) /\ FrameEnd(x) \in Nat
  BY <1>1, PartsFacts
<1>3. k = n
  <2> HIDE DEF n, t
  <2> QED BY <1>1, <1>2
<1>4. Prefix(o, n) = o.parts
  <2>1. o.parts = [i \in 1 .. n |-> o.parts[i]]
    <3>1. o.parts \in Seq([key : Seq(Nat), value : Objects])
      BY <1>2, InsideIsObjects
    <3> QED BY <3>1
  <2> HIDE DEF n
  <2> QED BY <2>1 DEF Prefix
<1>5. c = [phase |-> "verify", end |-> t.end, type |-> t.type, left |-> t.left,
           key |-> t.key, bytes |-> t.bytes, parts |-> t.parts]
  <2>1. t = [phase |-> t.phase, end |-> t.end, type |-> t.type, left |-> t.left,
             key |-> t.key, bytes |-> t.bytes, parts |-> t.parts]
    BY <1>2 DEF CallOK
  <2> HIDE DEF t
  <2> QED BY <2>1
<1> HIDE DEF c
<1>6. CallOK(c) /\ c.phase = "verify" /\ c.end = FrameEnd(x) /\ c.type = o.type
        /\ c.bytes = <<>> /\ c.parts = o.parts
  <2>1. t.end \in Nat /\ t.type \in KnownTypes /\ t.left \in Nat
    BY <1>2 DEF CallOK
  <2>2. t.parts = o.parts
    BY <1>2, <1>3, <1>4
  <2> HIDE DEF t
  <2> QED BY <1>2, <1>5, <2>1, <2>2 DEF CallOK
<1>7. Readable[o] /\ o = Object(o.type, <<>>, o.parts)
  <2>1. \A i \in 1 .. n : Readable[o.parts[i].value]
    BY <1>2, <1>3 DEF Got
  <2> QED BY <1>2, <2>1, ContainerReadable
<1>8. position' = FrameEnd(x)
  <2>1. PartAt(o, n + 1) = Len(Frame[o])
    BY <1>2, PartAtFacts
  <2> QED BY <1>1, <1>2, <1>3, <2>1 DEF FrameEnd
<1>9. Verifies(c, x, position')
  <2>1. Object(c.type, c.bytes, c.parts) = o
    BY <1>6, <1>7
  <2> QED BY <1>6, <1>7, <1>8, <2>1 DEF Verifies
<1>10. Reads(c, x, position')
  BY <1>9 DEF Reads
<1> QED BY <1>1, <1>6, <1>10 DEF Continues, Sets

LEMMA LeaveOutcome ==
  ASSUME SInv, calls # <<>>, NEW x, LiesAt(x), Reads(Top, x, position), VerifyLength \/ Skip
  PROVE  Outcome(x)
<1>1. CASE VerifyLength
  <2>1. Top.phase = "verify"
    BY <1>1 DEF VerifyLength, In
  <2>2. Verifies(Top, x, position)
    BY <2>1, ReadsPhase
  <2>3. Top.end = FrameEnd(x)
    BY <2>2 DEF Verifies
  <2>4. CASE position = FrameEnd(x)
    <3>1. ReturnTrue(Object(Top.type, Top.bytes, Top.parts)) /\ UNCHANGED position
      BY <1>1, <2>3, <2>4 DEF VerifyLength
    <3>2. Readable[x.object] /\ Object(Top.type, Top.bytes, Top.parts) = x.object
      BY <2>2, <2>4 DEF Verifies
    <3>3. ReturnTrue(x.object)
      BY <3>1, <3>2
    <3> QED BY <2>4, <3>1, <3>2, <3>3 DEF Delivers, Outcome
  <2>5. CASE position # FrameEnd(x)
    <3>1. SetTop([Top EXCEPT !.phase = "failed"]) /\ UNCHANGED received
      BY <1>1, <2>3, <2>5 DEF VerifyLength
    <3>2. ~Readable[x.object]
      BY <2>2, <2>5 DEF Verifies
    <3>3. Continues(x)
      BY <2>3, <3>1, <3>2, FailsOutcome
    <3> QED BY <3>3 DEF Outcome
  <2> QED BY <2>4, <2>5
<1>2. CASE Skip
  <2>1. Top.phase = "failed" /\ position' = Top.end /\ ReturnFalse
    BY <1>2 DEF Skip, In
  <2>2. Top.end = FrameEnd(x) /\ ~Readable[x.object]
    BY <2>1, ReadsPhase DEF Fails
  <2> QED BY <2>1, <2>2 DEF GivesUp, Outcome
<1> QED BY <1>1, <1>2

LEMMA StepOutcome ==
  ASSUME SInv, calls # <<>>, NEW x, LiesAt(x), Reads(Top, x, position), ReaderStep
  PROVE  Outcome(x)
<1>1. CASE ReadLength
  BY <1>1, LengthOutcome DEF Outcome
<1>2. CASE ReadTypeIdFails \/ ReadEmpty \/ ReadTypeId \/ ReadUnknownTypeId
  BY <1>2, TypeOutcome DEF Outcome
<1>3. CASE ReadBoolean
  BY <1>3, BooleanOutcome DEF Outcome
<1>4. CASE ReadStringPayload
  BY <1>4, StringOutcome DEF Outcome
<1>5. CASE ReadIpAddress
  BY <1>5, IpAddressOutcome DEF Outcome
<1>6. CASE ReadIntegerVector \/ ReadUnsignedIntegerVector
  <2>1. PICK type \in {"IntegerVector", "UnsignedIntegerVector"} : ReadNumbers(type)
    BY <1>6 DEF ReadIntegerVector, ReadUnsignedIntegerVector
  <2> QED BY <2>1, NumbersOutcome DEF Outcome
<1>7. CASE ReadCount
  BY <1>7, CountOutcome DEF Outcome
<1>8. CASE ReadVectorPart
  BY <1>8, VectorPartOutcome DEF Outcome
<1>9. CASE ReadCollectionPart
  BY <1>9, CollectionPartOutcome DEF Outcome
<1>10. CASE EndParts
  BY <1>10, EndPartsOutcome DEF Outcome
<1>11. CASE VerifyLength \/ Skip
  BY <1>11, LeaveOutcome
<1> QED BY <1>1, <1>2, <1>3, <1>4, <1>5, <1>6, <1>7, <1>8, <1>9, <1>10, <1>11 DEF ReaderStep

\* One more part, or none after all: what the waiting call makes of it.
WaitsAt(c, x, y, k) ==
  /\ Got(c, x, k) /\ k + 1 \in 1 .. Len(x.object.parts) /\ k \in 0 .. Len(x.object.parts)
  /\ c.key = x.object.parts[k + 1].key
  /\ y.object = x.object.parts[k + 1].value
  /\ x.object.parts[k + 1] = [key |-> c.key, value |-> y.object]
  /\ FrameEnd(y) = x.at + PartAt(x.object, k + 2)
  /\ x.object \in Objects /\ Container(x.object) /\ Len(x.object.parts) \in Nat
  /\ c = CallAs("parts", FrameEnd(x), x.object.type, Len(x.object.parts) - k,
                c.key, <<>>, Prefix(x.object, k))

LEMMA WaitsForFacts ==
  ASSUME NEW c, NEW x, NEW y, LiesAt(x), file \in Seq(Nat), WaitsFor(c, x, y)
  PROVE  \E k \in Nat : WaitsAt(c, x, y, k)
<1> DEFINE o == x.object
           n == Len(o.parts)
<1>1. PICK k \in Nat : /\ Got(c, x, k) /\ k < n
                       /\ c.key = o.parts[k + 1].key /\ y = PartOf(x, k + 1)
  BY DEF WaitsFor
<1>2. o \in Objects /\ x.at \in Nat
  BY EndFact
<1>3. Container(o) /\ k \in 0 .. n
      /\ c = CallAs("parts", FrameEnd(x), o.type, n - k, c.key, <<>>, Prefix(o, k))
  BY <1>1 DEF Got
<1>4. n \in Nat
  BY <1>2, PartFacts
<1>5. k + 1 \in 1 .. n /\ k + 1 \in 1 .. n + 1 /\ (k + 1) + 1 = k + 2
  <2> HIDE DEF n
  <2> QED BY <1>1, <1>4
<1>6. /\ o.parts[k + 1] = [key |-> o.parts[k + 1].key, value |-> o.parts[k + 1].value]
      /\ o.parts[k + 1].value \in Objects
  BY <1>2, <1>5, PartFacts
<1>7. y.object = o.parts[k + 1].value
      /\ y.at = x.at + PartAt(o, k + 1) + Len(KeyBytes(o, k + 1))
  BY <1>1 DEF PartOf
<1>8. FrameEnd(y) = x.at + PartAt(o, k + 2)
  <2> DEFINE a == PartAt(o, k + 1)
             b == Len(KeyBytes(o, k + 1))
             d == Len(Frame[o.parts[k + 1].value])
             e == PartAt(o, k + 2)
  <2>1. e = a + b + d
    BY <1>2, <1>3, <1>5, PartAtFacts
  <2>2. a \in Nat
    BY <1>2, <1>3, <1>5, PartAtFacts
  <2>3. b \in Nat
    <3>1. KeyBytes(o, k + 1) \in Seq(Nat)
      BY <1>2, <1>5, PartFacts
    <3> QED BY <3>1
  <2>4. d \in Nat
    BY <1>6, FrameHead
  <2>5. FrameEnd(y) = (x.at + a + b) + d
    BY <1>7 DEF FrameEnd
  <2> HIDE DEF a, b, d, e
  <2>6. (x.at + a + b) + d = x.at + (a + b + d)
    BY <1>2, <2>2, <2>3, <2>4
  <2> QED BY <2>1, <2>5, <2>6 DEF e
<1>9. WaitsAt(c, x, y, k)
  BY <1>1, <1>2, <1>3, <1>4, <1>5, <1>6, <1>7, <1>8 DEF WaitsAt
<1> QED BY <1>9

LEMMA PartDelivered ==
  ASSUME NEW c, NEW x, NEW y, LiesAt(x), file \in Seq(Nat), WaitsFor(c, x, y),
         Readable[y.object]
  PROVE  Reads(WithPart(c, y.object), x, FrameEnd(y))
<1> DEFINE o == x.object
           n == Len(o.parts)
<1>0. PICK k \in Nat : WaitsAt(c, x, y, k)
  BY WaitsForFacts
<1>1. /\ Got(c, x, k) /\ k + 1 \in 1 .. n /\ k \in 0 .. n
      /\ c.key = o.parts[k + 1].key
      /\ y.object = o.parts[k + 1].value
      /\ o.parts[k + 1] = [key |-> c.key, value |-> y.object]
      /\ FrameEnd(y) = x.at + PartAt(o, k + 2)
      /\ o \in Objects /\ Container(o) /\ n \in Nat
      /\ c = CallAs("parts", FrameEnd(x), o.type, n - k, c.key, <<>>, Prefix(o, k))
  BY <1>0 DEF WaitsAt
<1> DEFINE q == [key |-> c.key, value |-> y.object]
           d == WithPart(c, y.object)
<1>2. c.type = o.type /\ c.parts = Prefix(o, k) /\ c.left = n - k
  <2> DEFINE b == CallAs("parts", FrameEnd(x), o.type, n - k, c.key, <<>>, Prefix(o, k))
  <2>1. b.type = o.type /\ b.parts = Prefix(o, k) /\ b.left = n - k
    BY DEF CallAs
  <2>2. c = b
    BY <1>1
  <2> HIDE DEF b, n
  <2> QED BY <2>1, <2>2
<1>3. DOMAIN Prefix(o, k) = 1 .. k /\ \A i \in 1 .. k : Prefix(o, k)[i] = o.parts[i]
  BY DEF Prefix
<1>4. ~ (c.type = "Collection" /\ \E i \in DOMAIN c.parts : c.parts[i].key = c.key)
  <2> SUFFICES ASSUME c.type = "Collection", NEW i \in 1 .. k, o.parts[i].key = c.key
               PROVE  FALSE
    BY <1>2, <1>3
  <2>1. i \in 1 .. n /\ i # k + 1
    <3> HIDE DEF n
    <3> QED BY <1>1
  <2>2. DOMAIN o.parts = 1 .. n
    BY <1>1, PartFacts
  <2>3. o.parts[i].key = o.parts[k + 1].key => i = k + 1
    BY <1>1, <1>2, <2>1, <2>2, ShapesAssumption DEF ShapesAssumption
  <2> QED BY <1>1, <2>1, <2>3
<1>5. PutPart(c, y.object) = Append(Prefix(o, k), q)
  BY <1>2, <1>4, Zenon DEF PutPart
<1>6. Append(Prefix(o, k), q) = Prefix(o, k + 1)
  <2>1. Prefix(o, k) \in [1 .. k -> {o.parts[i] : i \in 1 .. k}]
    BY DEF Prefix
  <2>2. Prefix(o, k) \in Seq({o.parts[i] : i \in 1 .. k}) /\ Len(Prefix(o, k)) = k
    BY <2>1, FunctionIsSeq
  <2>3. IsSeq(Prefix(o, k))
    BY <2>2, SeqIsSeq
  <2> DEFINE s == Append(Prefix(o, k), q)
  <2>4. /\ IsSeq(s) /\ Len(s) = k + 1
        /\ \A i \in 1 .. k : s[i] = o.parts[i]
        /\ s[k + 1] = q
    BY <1>3, <2>2, <2>3, AppendIsSeq
  <2>5. s = [i \in 1 .. k + 1 |-> s[i]]
    BY <2>4 DEF IsSeq
  <2>6. \A i \in 1 .. k + 1 : s[i] = o.parts[i]
    <3> HIDE DEF s, q
    <3> TAKE i \in 1 .. k + 1
    <3>1. i \in 1 .. k \/ i = k + 1
      OBVIOUS
    <3>2. q = o.parts[k + 1]
      BY <1>1 DEF q
    <3> QED BY <2>4, <3>1, <3>2
  <2> HIDE DEF s
  <2> QED BY <2>5, <2>6 DEF Prefix, s
<1>7. d = CallAs("parts", FrameEnd(x), o.type, n - (k + 1), c.key, <<>>, Prefix(o, k + 1))
  <2> DEFINE b == CallAs("parts", FrameEnd(x), o.type, n - k, c.key, <<>>, Prefix(o, k))
             r == Prefix(o, k + 1)
             l == n - (k + 1)
  <2>1. [b EXCEPT !.parts = r, !.left = l]
          = CallAs("parts", FrameEnd(x), o.type, l, c.key, <<>>, r)
    <3> DEFINE e == CallAs("parts", FrameEnd(x), o.type, n - k, c.key, <<>>, r)
    <3>1. [b EXCEPT !.parts = r] = e
      BY DEF CallAs
    <3>2. [e EXCEPT !.left = l] = CallAs("parts", FrameEnd(x), o.type, l, c.key, <<>>, r)
      BY DEF CallAs
    <3> HIDE DEF b, e
    <3> QED BY <3>1, <3>2
  <2>2. (n - k) - 1 = l
    <3> HIDE DEF n
    <3> QED BY <1>1
  <2>3. d = [c EXCEPT !.parts = r, !.left = l]
    BY <1>2, <1>5, <1>6, <2>2 DEF WithPart
  <2>4. c = b
    BY <1>1
  <2> HIDE DEF b, d, r, l, n
  <2> QED BY <2>1, <2>3, <2>4 DEF l, r
<1> HIDE DEF d
<1>8. d.key = c.key
  BY <1>7 DEF CallAs
<1>9. Got(d, x, k + 1)
  <2>1. \A i \in 1 .. k + 1 : Readable[o.parts[i].value]
    <3> TAKE i \in 1 .. k + 1
    <3>1. CASE i = k + 1
      BY <1>1, <3>1
    <3>2. CASE i # k + 1
      <4>1. i \in 1 .. k
        BY <3>2
      <4> QED BY <1>1, <4>1 DEF Got
    <3> QED BY <3>1, <3>2
  <2>2. k + 1 \in 0 .. n
    <3> HIDE DEF n
    <3> QED BY <1>1
  <2>3. o.type = "Vector" => d.key = <<>>
    BY <1>1, <1>8 DEF Got
  <2>4. d = CallAs("parts", FrameEnd(x), o.type, n - (k + 1), d.key, <<>>, Prefix(o, k + 1))
    BY <1>7, <1>8
  <2> QED BY <1>1, <2>1, <2>2, <2>3, <2>4 DEF Got
<1>10. FrameEnd(y) = x.at + PartAt(o, (k + 1) + 1)
  <2>1. (k + 1) + 1 = k + 2
    OBVIOUS
  <2> QED BY <1>1, <2>1
<1>11. ReadsParts(d, x, FrameEnd(y))
  <2>1. k + 1 \in Nat
    OBVIOUS
  <2> QED BY <1>9, <1>10, <2>1 DEF ReadsParts
<1> QED BY <1>11 DEF Reads, d

LEMMA PartGivenUp ==
  ASSUME NEW c, NEW x, NEW y, LiesAt(x), file \in Seq(Nat), WaitsFor(c, x, y),
         ~Readable[y.object], NEW p
  PROVE  Reads([c EXCEPT !.phase = "failed"], x, p)
<1> DEFINE o == x.object
           n == Len(o.parts)
<1>0. PICK k \in Nat : WaitsAt(c, x, y, k)
  BY WaitsForFacts
<1>1. /\ k + 1 \in 1 .. n
      /\ y.object = o.parts[k + 1].value
      /\ o \in Objects /\ Container(o)
      /\ c = CallAs("parts", FrameEnd(x), o.type, n - k, c.key, <<>>, Prefix(o, k))
  BY <1>0 DEF WaitsAt
<1>2. ~Readable[o]
  BY <1>1, ContainerReadable
<1> DEFINE b == CallAs("parts", FrameEnd(x), o.type, n - k, c.key, <<>>, Prefix(o, k))
           d == [c EXCEPT !.phase = "failed"]
<1>3. [b EXCEPT !.phase = "failed"].phase = "failed" /\ [b EXCEPT !.phase = "failed"].end = FrameEnd(x)
  BY DEF CallAs
<1>4. c = b
  BY <1>1
<1>5. d.phase = "failed" /\ d.end = FrameEnd(x)
  <2> HIDE DEF b
  <2> QED BY <1>3, <1>4
<1> QED BY <1>2, <1>5 DEF Reads, Fails

\* A call returns to the one around it.
LEMMA ReturnedTo ==
  ASSUME ReaderOK, calls # <<>>, Len(calls) # 1, NEW d,
         calls' = [Front(calls) EXCEPT ![Len(Front(calls))] = d]
  PROVE  /\ Len(calls') = Len(calls) - 1 /\ calls' # <<>>
         /\ \A i \in 1 .. Len(calls) - 1 :
              calls'[i] = IF i = Len(calls) - 1 THEN d ELSE calls[i]
<1> DEFINE n == Len(calls)
           outer == Front(calls)
<1>1. n \in Nat /\ n # 0 /\ IsSeq(calls)
  BY CallsFacts DEF ReaderOK
<1>2. IsSeq(outer) /\ Len(outer) = n - 1 /\ \A i \in 1 .. n - 1 : outer[i] = calls[i]
  BY <1>1, FrontIsSeq
<1>3. calls' = Put(outer, n - 1, d)
  BY <1>2 DEF Put
<1>4. n - 1 \in 1 .. n - 1 /\ n - 1 # 0
  <2>0. n # 1
    OBVIOUS
  <2> HIDE DEF n
  <2> QED BY <1>1, <2>0
<1>5. /\ IsSeq(Put(outer, n - 1, d)) /\ Len(Put(outer, n - 1, d)) = n - 1
      /\ \A i \in 1 .. n - 1 : Put(outer, n - 1, d)[i] = IF i = n - 1 THEN d ELSE outer[i]
  <2> HIDE DEF outer, n
  <2> QED BY <1>2, <1>4, PutIsSeq
<1> HIDE DEF outer
<1>6. calls' # <<>>
  BY <1>3, <1>4, <1>5, SeqFacts
<1> QED BY <1>2, <1>3, <1>5, <1>6

LEMMA ReturnsPart ==
  ASSUME SInv, calls # <<>>, Len(calls) # 1,
         NEW x, NEW y, LiesAt(x), WaitsFor(calls[Len(calls) - 1], x, y),
         Delivers(y) \/ GivesUp(y)
  PROVE  \E d : /\ Len(calls') = Len(calls) - 1 /\ calls' # <<>>
                /\ \A i \in 1 .. Len(calls) - 1 :
                     calls'[i] = IF i = Len(calls) - 1 THEN d ELSE calls[i]
                /\ Reads(d, x, position') /\ UNCHANGED received
<1> DEFINE n == Len(calls)
           outer == Front(calls)
           c == calls[n - 1]
<1>1. n \in Nat /\ n # 0 /\ IsSeq(calls) /\ file \in Seq(Nat) /\ ReaderOK
  BY CallsFacts, TopFacts DEF SInv, ReaderOK
<1>2. IsSeq(outer) /\ Len(outer) = n - 1 /\ \A i \in 1 .. n - 1 : outer[i] = calls[i]
  BY <1>1, FrontIsSeq
<1>3. outer # <<>> /\ outer[Len(outer)] = c
  <2>1. n - 1 \in 1 .. n - 1 /\ n - 1 # 0
    <3>0. n # 1
      OBVIOUS
    <3> HIDE DEF n
    <3> QED BY <1>1, <3>0
  <2> HIDE DEF outer
  <2> QED BY <1>2, <2>1, SeqFacts
<1>4. CASE Delivers(y)
  <2> DEFINE d == WithPart(c, y.object)
  <2>1. Readable[y.object] /\ ReturnTrue(y.object) /\ position' = FrameEnd(y)
    BY <1>4 DEF Delivers
  <2>2. calls' = [outer EXCEPT ![Len(outer)] = d] /\ UNCHANGED received
    BY <1>3, <2>1 DEF ReturnTrue
  <2>3. Reads(d, x, FrameEnd(y))
    <3> HIDE DEF c
    <3> QED BY <1>1, <2>1, PartDelivered DEF c
  <2> HIDE DEF d
  <2>4. Reads(d, x, position')
    BY <2>1, <2>3
  <2> QED BY <1>1, <2>2, <2>4, ReturnedTo
<1>5. CASE GivesUp(y)
  <2> DEFINE d == [c EXCEPT !.phase = "failed"]
  <2>1. ~Readable[y.object] /\ ReturnFalse
    BY <1>5 DEF GivesUp
  <2>2. calls' = [outer EXCEPT ![Len(outer)] = d] /\ UNCHANGED received
    BY <1>3, <2>1 DEF ReturnFalse
  <2>3. \A p : Reads(d, x, p)
    <3> HIDE DEF c
    <3> QED BY <1>1, <2>1, PartGivenUp DEF c
  <2> HIDE DEF d
  <2>4. Reads(d, x, position')
    BY <2>3
  <2> QED BY <1>1, <2>2, <2>4, ReturnedTo
<1> QED BY <1>4, <1>5

LEMMA ReturnsFrame ==
  ASSUME SInv, calls # <<>>, Len(calls) = 1, NEW x, Delivers(x) \/ GivesUp(x)
  PROVE  calls' = <<>> /\ received' = Append(received, Reading(x.object))
<1>1. IsSeq(Front(calls)) /\ Len(Front(calls)) = 0
  BY FrontIsSeq, CallsFacts DEF SInv, ReaderOK
<1>2. Front(calls) = <<>>
  BY <1>1, SeqFacts
<1>3. CASE Delivers(x)
  BY <1>2, <1>3 DEF Delivers, ReturnTrue, Reading
<1>4. CASE GivesUp(x)
  BY <1>2, <1>4 DEF GivesUp, ReturnFalse, Reading
<1> QED BY <1>3, <1>4

-------------------------------------------------------------------------------
(* The calls on their way through a frame that was not damaged: h[i] is what *)
(* calls[i] reads                                                            *)

NextFrame ==
  [object |-> frames[Len(received) + 1].object, at |-> frames[Len(received) + 1].start]

Following(h) ==
  /\ h[1] = NextFrame
  /\ \A i \in 1 .. Len(calls) : LiesAt(h[i])
  /\ \A i \in 1 .. Len(calls) - 1 : WaitsFor(calls[i], h[i], h[i + 1])
  /\ Reads(Top, h[Len(calls)], position)

ReadsIntact ==
  calls # <<>> /\ Len(received) < Len(frames) /\ Len(received) + 1 \notin damaged
    => \E h : Following(h)

LEMMA FollowsOn ==
  ASSUME NEW h, NEW n \in Nat, Len(calls') = n, NEW t, t = calls'[n],
         NEW p, p = position', NEW x, h[n] = x, Reads(t, x, p),
         h[1] = NextFrame, UNCHANGED <<file, frames, received>>,
         \A i \in 1 .. n : LiesAt(h[i]),
         NEW cs, cs = calls', \A i \in 1 .. n - 1 : WaitsFor(cs[i], h[i], h[i + 1])
  PROVE  Following(h)'
<1>1. NextFrame' = NextFrame
  BY DEF NextFrame
<1>2. ASSUME NEW i \in 1 .. n PROVE LiesAt(h[i])'
  BY <1>2 DEF LiesAt, BytesAt
<1> QED BY <1>1, <1>2 DEF Following, Top

LEMMA ContinuesFollowing ==
  ASSUME SInv, calls # <<>>, NEW h, Following(h), Continues(h[Len(calls)]),
         UNCHANGED <<file, frames>>
  PROVE  UNCHANGED received /\ calls' # <<>> /\ Following(h)'
<1> DEFINE n == Len(calls)
           x == h[n]
<1>1. PICK c : Sets(c) /\ Reads(c, x, position')
  BY DEF Continues
<1>2. n \in Nat /\ n # 0 /\ ReaderOK
  BY CallsFacts DEF SInv
<1>3. /\ Len(calls') = n /\ calls' # <<>>
      /\ \A i \in 1 .. n : calls'[i] = IF i = n THEN c ELSE calls[i]
      /\ UNCHANGED received
  BY <1>1, <1>2, SetsKeeps DEF Sets
<1>4. calls'[n] = c
  BY <1>2, <1>3
<1>5. \A i \in 1 .. n - 1 : calls'[i] = calls[i]
  BY <1>2, <1>3
<1>6. /\ h[1] = NextFrame /\ \A i \in 1 .. n : LiesAt(h[i])
      /\ \A i \in 1 .. n - 1 : WaitsFor(calls[i], h[i], h[i + 1])
  BY DEF Following
<1>7. \A i \in 1 .. n - 1 : WaitsFor(calls'[i], h[i], h[i + 1])
  BY <1>5, <1>6
<1> HIDE DEF x, n
<1> QED BY <1>1, <1>2, <1>3, <1>4, <1>6, <1>7, FollowsOn DEF x

LEMMA DescendsFollowing ==
  ASSUME SInv, calls # <<>>, NEW h, Following(h), Descends(h[Len(calls)]),
         UNCHANGED <<file, frames>>
  PROVE  UNCHANGED received /\ calls' # <<>> /\ \E g : Following(g)'
<1> DEFINE n == Len(calls)
           x == h[n]
<1>1. PICK c, y : /\ calls' = Append(Put(calls, n, c), NewCall)
                  /\ WaitsFor(c, x, y) /\ LiesAt(y) /\ position' = y.at
  BY DEF Descends
<1>2. n \in Nat /\ n # 0 /\ IsSeq(calls) /\ UNCHANGED received
  BY CallsFacts DEF SInv, ReaderOK, Descends
<1>3. /\ IsSeq(Put(calls, n, c)) /\ Len(Put(calls, n, c)) = n
      /\ \A i \in 1 .. n : Put(calls, n, c)[i] = IF i = n THEN c ELSE calls[i]
  <2>1. n \in 1 .. n
    <3> HIDE DEF n
    <3> QED BY <1>2
  <2> QED BY <1>2, <2>1, PutIsSeq
<1>4. /\ IsSeq(calls') /\ Len(calls') = n + 1 /\ calls'[n + 1] = NewCall
      /\ \A i \in 1 .. n : calls'[i] = IF i = n THEN c ELSE calls[i]
  <2> HIDE DEF n
  <2> QED BY <1>1, <1>3, AppendIsSeq
<1>5. calls' # <<>>
  <2>1. n + 1 # 0
    BY <1>2
  <2> QED BY <1>4, <2>1, SeqFacts
<1>6. /\ h[1] = NextFrame /\ \A i \in 1 .. n : LiesAt(h[i])
      /\ \A i \in 1 .. n - 1 : WaitsFor(calls[i], h[i], h[i + 1])
  BY DEF Following
<1> DEFINE m == n + 1
<1> HIDE DEF n
<1>0. PICK g : g = [i \in 1 .. n + 1 |-> IF i = n + 1 THEN y ELSE h[i]]
  OBVIOUS
<1>7. g[m] = y /\ \A i \in 1 .. n : g[i] = h[i]
  BY <1>0, <1>2
<1>8. m \in Nat /\ 1 \in 1 .. n /\ n \in 1 .. n /\ m - 1 = n /\ 1 .. m = 1 .. n \cup {m}
  BY <1>2
<1> HIDE DEF x
<1>9. g[1] = NextFrame
  BY <1>6, <1>7, <1>8
<1>10. \A i \in 1 .. m : LiesAt(g[i])
  BY <1>1, <1>6, <1>7, <1>8
<1>11. \A i \in 1 .. m - 1 : WaitsFor(calls'[i], g[i], g[i + 1])
  <2> SUFFICES ASSUME NEW i \in 1 .. n PROVE WaitsFor(calls'[i], g[i], g[i + 1])
    BY <1>8
  <2>1. CASE i = n
    <3>1. calls'[i] = c /\ g[i] = x /\ g[i + 1] = y
      BY <1>4, <1>7, <2>1 DEF x, m
    <3> QED BY <1>1, <3>1
  <2>2. CASE i # n
    <3>1. i \in 1 .. n - 1 /\ i + 1 \in 1 .. n
      BY <1>2, <2>2
    <3>2. calls'[i] = calls[i] /\ g[i] = h[i] /\ g[i + 1] = h[i + 1]
      BY <1>4, <1>7, <2>2, <3>1
    <3> QED BY <1>6, <3>1, <3>2
  <2> QED BY <2>1, <2>2
<1>12. Reads(NewCall, y, position')
  BY <1>1 DEF Reads
<1>13. Following(g)'
  <2> HIDE DEF m
  <2>1. Len(calls') = m /\ NewCall = calls'[m]
    BY <1>4 DEF m
  <2> QED BY <1>2, <1>7, <1>8, <1>9, <1>10, <1>11, <1>12, <2>1, FollowsOn
<1> QED BY <1>2, <1>5, <1>13

LEMMA ReturnsFollowing ==
  ASSUME SInv, calls # <<>>, NEW h, Following(h),
         Delivers(h[Len(calls)]) \/ GivesUp(h[Len(calls)]),
         UNCHANGED <<file, frames>>
  PROVE  IF Len(calls) = 1
         THEN calls' = <<>> /\ received' = Append(received, Reading(NextFrame.object))
         ELSE UNCHANGED received /\ calls' # <<>> /\ Following(h)'
<1> DEFINE n == Len(calls)
           y == h[n]
<1>1. /\ h[1] = NextFrame /\ \A i \in 1 .. n : LiesAt(h[i])
      /\ \A i \in 1 .. n - 1 : WaitsFor(calls[i], h[i], h[i + 1])
  BY DEF Following
<1>2. n \in Nat /\ n # 0
  BY CallsFacts DEF SInv
<1>3. CASE n = 1
  BY <1>1, <1>3, ReturnsFrame
<1>4. CASE n # 1
  <2> DEFINE m == n - 1
             x == h[m]
  <2>1. m \in Nat /\ m \in 1 .. n /\ m \in 1 .. n - 1 /\ m + 1 = n /\ m # 0
    <3> HIDE DEF n
    <3> QED BY <1>2, <1>4
  <2>2. LiesAt(x) /\ WaitsFor(calls[n - 1], x, y)
    <3> HIDE DEF n
    <3> QED BY <1>1, <2>1
  <2>3. PICK d : /\ Len(calls') = m /\ calls' # <<>>
                 /\ \A i \in 1 .. m : calls'[i] = IF i = m THEN d ELSE calls[i]
                 /\ Reads(d, x, position') /\ UNCHANGED received
    <3> HIDE DEF x, y
    <3> QED BY <1>4, <2>2, ReturnsPart DEF y
  <2>4. calls'[m] = d /\ \A i \in 1 .. m - 1 : calls'[i] = calls[i]
    <3> HIDE DEF m
    <3> QED BY <2>1, <2>3
  <2>5. /\ \A i \in 1 .. m : LiesAt(h[i])
        /\ \A i \in 1 .. m - 1 : WaitsFor(calls'[i], h[i], h[i + 1])
    <3>1. \A i \in 1 .. m : i \in 1 .. n
      BY <1>2
    <3>2. \A i \in 1 .. m - 1 : i \in 1 .. n - 1
      BY <1>2
    <3> HIDE DEF m, n
    <3> QED BY <1>1, <2>4, <3>1, <3>2
  <2>6. Following(h)'
    <3> HIDE DEF m, n
    <3> QED BY <1>1, <2>1, <2>3, <2>4, <2>5, FollowsOn DEF x
  <2> QED BY <1>4, <2>3, <2>6
<1> QED BY <1>3, <1>4

\* A step of the reader inside a frame that was not damaged: it stays on its
\* way, or returns what the frame holds.
LEMMA IntactStep ==
  ASSUME SInv, ReaderStep, calls # <<>>, NEW h, Following(h), UNCHANGED <<file, frames>>
  PROVE  \/ UNCHANGED received /\ calls' # <<>> /\ \E g : Following(g)'
         \/ calls' = <<>> /\ received' = Append(received, Reading(NextFrame.object))
<1> DEFINE x == h[Len(calls)]
<1>1. Len(calls) \in 1 .. Len(calls)
  BY CallsFacts DEF SInv
<1>2. LiesAt(x) /\ Reads(Top, x, position)
  BY <1>1 DEF Following
<1>3. Outcome(x)
  <2> HIDE DEF x
  <2> QED BY <1>2, StepOutcome
<1>4. CASE Continues(x)
  BY <1>4, ContinuesFollowing
<1>5. CASE Descends(x)
  BY <1>5, DescendsFollowing
<1>6. CASE Delivers(x) \/ GivesUp(x)
  BY <1>6, ReturnsFollowing
<1> QED BY <1>3, <1>4, <1>5, <1>6 DEF Outcome

\* A call of Deserialize at a frame that was not damaged.
LEMMA IntactCall ==
  ASSUME SInv, ContentsOK, InStep, Call, UNCHANGED <<file, frames, damaged>>
  PROVE  ReadsIntact'
<1> SUFFICES ASSUME Len(received) < Len(frames), Len(received) + 1 \notin damaged
             PROVE  \E h : Following(h)'
  BY DEF ReadsIntact, Call
<1> DEFINE r == Len(received)
<1>1. /\ calls = <<>> /\ calls' = <<NewCall>> /\ UNCHANGED <<position, received>>
  BY DEF Call
<1>2. r \in Nat /\ Len(frames) \in Nat /\ file \in Seq(Nat) /\ DOMAIN frames = 1 .. Len(frames)
  BY EndFacts, CallsFacts DEF SInv, StoreOK
<1>3. r + 1 \in DOMAIN frames /\ r <= Len(frames) /\ (r + 1) - 1 = r
  <2> HIDE DEF r
  <2> QED BY <1>2 DEF r
<1>4. position = frames[r + 1].start
  <2>1. position = EndOf(r)
    BY <1>1, <1>3 DEF InStep
  <2>2. frames[r + 1].start = EndOf(r)
    BY <1>3 DEF SInv, StoreOK
  <2> QED BY <2>1, <2>2
<1>5. PICK x : x = NextFrame
  OBVIOUS
<1>6. x.object = frames[r + 1].object /\ x.at = frames[r + 1].start
  BY <1>5 DEF NextFrame
<1>7. LiesAt(x)
  <2>1. IntactAt(r + 1)
    BY <1>3 DEF ContentsOK
  <2>2. frames[r + 1].object \in Objects
    BY <1>3, EndFacts DEF SInv, FrameRecord
  <2> QED BY <1>6, <2>1, <2>2 DEF LiesAt, IntactAt
<1>8. Reads(NewCall, x, position)
  BY <1>4, <1>6 DEF Reads
<1>9. PICK h : h = <<x>>
  OBVIOUS
<1>10. h[1] = x /\ Len(<<NewCall>>) = 1 /\ <<NewCall>>[1] = NewCall
  BY <1>9
<1>11. Following(h)'
  <2>1. 1 \in Nat /\ Len(calls') = 1 /\ NewCall = calls'[1] /\ position = position'
    BY <1>1, <1>10
  <2>2. \A i \in 1 .. 1 : LiesAt(h[i])
    BY <1>7, <1>10
  <2>3. \A i \in 1 .. 1 - 1 : WaitsFor(calls'[i], h[i], h[i + 1])
    OBVIOUS
  <2>4. UNCHANGED <<file, frames, received>>
    BY <1>1
  <2> QED BY <1>5, <1>8, <1>10, <2>1, <2>2, <2>3, <2>4, FollowsOn
<1> QED BY <1>11

LEMMA ReaderStepRuns ==
  ASSUME ReaderStep
  PROVE  calls # <<>>
BY DEF ReaderStep, ReadLength, ReadTypeIdFails, ReadEmpty, ReadTypeId, ReadUnknownTypeId,
       ReadBoolean, ReadStringPayload, ReadIpAddress, ReadIntegerVector, ReadVectorPart,
       ReadUnsignedIntegerVector, ReadNumbers, ReadCount, ReadCollectionPart, EndParts,
       VerifyLength, Skip, Payload, In

LEMMA IntactKept ==
  ASSUME SInv, ReadsIntact, ReaderStep, UNCHANGED <<file, frames, damaged>>
  PROVE  ReadsIntact'
<1>1. calls # <<>>
  BY ReaderStepRuns
<1> SUFFICES ASSUME calls' # <<>>, Len(received') < Len(frames), Len(received') + 1 \notin damaged
             PROVE  \E h : Following(h)'
  BY DEF ReadsIntact
<1>2. received' = received
  BY ReaderStepEffect, EffectReceives
<1>3. PICK h : Following(h)
  BY <1>1, <1>2 DEF ReadsIntact
<1>4. \/ UNCHANGED received /\ calls' # <<>> /\ \E g : Following(g)'
      \/ calls' = <<>> /\ received' = Append(received, Reading(NextFrame.object))
  BY <1>1, <1>3, IntactStep
<1> QED BY <1>4

-------------------------------------------------------------------------------
(* The framing implements the log *)

LogInv ==
  /\ SInv /\ HeadsOK /\ InStep
  /\ ContentsOK
  /\ WithinFile
  /\ BehindOK
  /\ ReadsIntact

LEMMA InitLogInv == Init => LogInv
<1> SUFFICES ASSUME Init PROVE LogInv
  OBVIOUS
<1>1. SInv /\ HeadsOK /\ InStep
  BY InitSInv
<1>2. /\ calls = <<>> /\ received = <<>> /\ frames = <<>> /\ file = <<>> /\ damaged = {}
      /\ torn = FALSE /\ wState = "idle"
  BY DEF Init, ReaderInit
<1>3. ContentsOK
  <2>1. DOMAIN frames = {} /\ Len(frames) = 0 /\ Len(file) = 0
    BY <1>2
  <2>2. EndOf(Len(frames)) = 0
    BY <2>1 DEF EndOf
  <2> QED BY <1>2, <2>1, <2>2 DEF ContentsOK, RestOK
<1>4. WithinFile /\ ReadsIntact
  BY <1>2 DEF WithinFile, ReadsIntact
<1>5. BehindOK
  BY <1>2 DEF BehindOK
<1> QED BY <1>1, <1>3, <1>4, <1>5 DEF LogInv

LEMMA NextKeepsLogInv ==
  ASSUME LogInv, [Next]_vars, DamageKinds \subseteq {"payload", "typeId"}
  PROVE  LogInv'
<1>1. SInv' /\ HeadsOK' /\ InStep' /\ ContentsOK'
  BY NextKeepsTypes, NextKeepsStep, NextKeepsContents DEF LogInv
<1>2. CASE WriterStep \/ Damage \/ Open
  <2>1. mode # "reading" /\ UNCHANGED readerVars
    BY <1>2 DEF WriterStep, Serialize, WriteLength, WriteData, WriteDataShort, Close,
       Damage, Open
  <2>2. calls' = <<>> /\ received' = <<>>
    BY <2>1 DEF LogInv, SInv, ReaderOK, readerVars
  <2>3. Len(frames') \in Nat /\ Len(received') = 0
    <3>1. frames' \in Seq(FrameRecord)
      BY <1>1 DEF SInv, StoreOK, FrameRecord
    <3> QED BY <2>2, <3>1
  <2>4. WithinFile' /\ ReadsIntact'
    BY <2>2 DEF WithinFile, ReadsIntact
  <2>5. BehindOK'
    BY <2>2, <2>3 DEF BehindOK
  <2> QED BY <1>1, <2>4, <2>5 DEF LogInv
<1>3. CASE Deserialize
  <2>1. UNCHANGED <<file, mode, damaged, writerVars>> /\ UNCHANGED frames
          /\ (ReaderStep \/ (Call /\ position < Len(file)))
    BY <1>3 DEF Deserialize, writerVars
  <2>2. CASE ReaderStep
    BY <1>1, <2>1, <2>2, WithinKept, BehindKept, IntactKept DEF LogInv
  <2>3. CASE Call /\ position < Len(file)
    BY <1>1, <2>1, <2>3, BehindCall, IntactCall DEF LogInv
  <2> QED BY <2>1, <2>2, <2>3
<1>4. CASE UNCHANGED vars
  <2>1. UNCHANGED <<file, position, calls, received, mode, frames, torn, damaged>>
    BY <1>4 DEF vars, readerVars, writerVars
  <2>2. WithinFile'
    BY <2>1 DEF LogInv, WithinFile, Top
  <2>3. BehindOK'
    BY <2>1 DEF LogInv, BehindOK, EndOf
  <2>4. ReadsIntact'
    <3> SUFFICES ASSUME calls # <<>>, Len(received) < Len(frames),
                        Len(received) + 1 \notin damaged
                 PROVE  \E h : Following(h)'
      BY <2>1 DEF ReadsIntact
    <3>1. PICK h : Following(h)
      BY DEF LogInv, ReadsIntact
    <3>2. Following(h)'
      BY <2>1, <3>1 DEF Following, NextFrame, LiesAt, BytesAt, Top
    <3> QED BY <3>2
  <2> QED BY <1>1, <2>2, <2>3, <2>4 DEF LogInv
<1> QED BY <1>2, <1>3, <1>4 DEF Next

\* The log the frames stand for.
Logged == [i \in DOMAIN frames |-> frames[i].object]

LEMMA LoggedFacts ==
  ASSUME StoreOK
  PROVE  /\ IsSeq(Logged) /\ Len(Logged) = Len(frames) /\ Len(frames) \in Nat
         /\ \A i \in 1 .. Len(frames) : Logged[i] = frames[i].object
         /\ DOMAIN Logged = DOMAIN frames
<1> DEFINE n == Len(frames)
           S == {frames[i].object : i \in DOMAIN frames}
<1>1. n \in Nat /\ DOMAIN frames = 1 .. n
  BY EndFacts
<1>2. Logged \in [1 .. n -> S]
  BY <1>1 DEF Logged
<1>3. Logged \in Seq(S) /\ Len(Logged) = n
  <2> HIDE DEF n, S
  <2> QED BY <1>1, <1>2, FunctionIsSeq
<1>4. IsSeq(Logged)
  <2> HIDE DEF S
  <2> QED BY <1>3, SeqIsSeq
<1> QED BY <1>1, <1>3, <1>4 DEF Logged

LEMMA LoggedAppends ==
  ASSUME StoreOK, NEW f, frames' = Append(frames, f)
  PROVE  Logged' = Append(Logged, f.object)
<1> DEFINE n == Len(frames)
           s == Append(Logged, f.object)
<1>1. /\ IsSeq(Logged) /\ Len(Logged) = n /\ n \in Nat
      /\ \A i \in 1 .. n : Logged[i] = frames[i].object
  BY LoggedFacts
<1>2. IsSeq(frames)
  BY SeqIsSeq DEF StoreOK
<1>3. /\ IsSeq(frames') /\ Len(frames') = n + 1
      /\ \A i \in 1 .. n : frames'[i] = frames[i]
      /\ frames'[n + 1] = f
  BY <1>2, AppendIsSeq
<1>4. /\ IsSeq(s) /\ Len(s) = n + 1
      /\ \A i \in 1 .. n : s[i] = Logged[i]
      /\ s[n + 1] = f.object
  <2> HIDE DEF n
  <2> QED BY <1>1, AppendIsSeq
<1>5. s = [i \in 1 .. n + 1 |-> s[i]]
  <2>1. DOMAIN s = 1 .. n + 1
    BY <1>4, SeqFacts
  <2> QED BY <1>4, <2>1 DEF IsSeq
<1>6. DOMAIN frames' = 1 .. n + 1
  BY <1>3, SeqFacts
<1>7. \A i \in 1 .. n + 1 : s[i] = frames'[i].object
  <2> TAKE i \in 1 .. n + 1
  <2>1. i \in 1 .. n \/ i = n + 1
    <3> HIDE DEF n
    <3> QED BY <1>1
  <2> HIDE DEF n, s
  <2> QED BY <1>1, <1>3, <1>4, <2>1
<1> HIDE DEF s, n
<1> QED BY <1>5, <1>6, <1>7 DEF Logged, s

\* What the last of the calls of the reader returned.
LEMMA AppendTakes ==
  ASSUME NEW s, IsSeq(s), NEW e, NEW t, t = Append(s, e)
  PROVE  Len(t) = Len(s) + 1 /\ SubSeq(t, 1, Len(s)) = s /\ t[Len(t)] = e /\ Len(s) \in Nat
<1> DEFINE T == {s[i] : i \in DOMAIN s} \cup {e}
           n == Len(s)
           u == SubSeq(t, 1, n)
<1>1. n \in Nat /\ DOMAIN s = 1 .. n
  BY SeqFacts
<1>2. s \in Seq(T)
  <2>1. s \in [1 .. n -> T]
    <3>1. s = [i \in 1 .. n |-> s[i]]
      BY <1>1 DEF IsSeq
    <3> HIDE DEF n
    <3> QED BY <1>1, <3>1
  <2> HIDE DEF T
  <2> QED BY <1>1, <2>1, FunctionIsSeq
<1>3. t \in Seq(T) /\ Len(t) = n + 1
  <2> e \in T
    OBVIOUS
  <2> HIDE DEF T
  <2> QED BY <1>2
<1>4. \A i \in 1 .. n : t[i] = s[i]
  BY AppendIsSeq
<1>5. t[n + 1] = e
  BY AppendIsSeq
<1> HIDE DEF T
<1>6. u \in Seq(T) /\ Len(u) = n /\ \A i \in 1 .. n : u[i] = t[i]
  <2>1. /\ u \in Seq(T)
        /\ Len(u) = IF 1 <= n THEN n - 1 + 1 ELSE 0
        /\ \A i \in 1 .. n - 1 + 1 : u[i] = t[1 + i - 1]
    <3>1. \A i \in 1 .. n : t[i] \in T
      BY <1>1, <1>3
    <3> QED BY <1>1, <3>1, SubSeqProperties
  <2> HIDE DEF n, u
  <2>2. \A i \in 1 .. n : 1 + i - 1 = i /\ i \in 1 .. n - 1 + 1
    BY <1>1
  <2>3. Len(u) = n
    BY <1>1, <2>1
  <2>4. \A i \in 1 .. n : u[i] = t[i]
    <3> TAKE i \in 1 .. n
    <3> QED BY <2>1, <2>2
  <2> QED BY <2>1, <2>3, <2>4
<1>7. u = s
  <2> HIDE DEF n, u
  <2>1. \A i \in 1 .. n : u[i] = s[i]
    BY <1>4, <1>6
  <2> QED BY <1>2, <1>6, <2>1, SeqEqual DEF n
<1> QED BY <1>1, <1>3, <1>5, <1>7

LEMMA ReceivesOne ==
  ASSUME ReaderStep
  PROVE  received' = received \/ \E e : received' = Append(received, e)
<1>1. ASSUME ReturnFalse \/ \E o : ReturnTrue(o)
      PROVE  received' = received \/ \E e : received' = Append(received, e)
  BY <1>1 DEF ReturnFalse, ReturnTrue
<1>2. \/ received' = received
      \/ ReturnFalse \/ \E o : ReturnTrue(o)
  BY DEF ReaderStep, ReadLength, ReadTypeIdFails, ReadEmpty, ReadTypeId,
     ReadUnknownTypeId, ReadBoolean, ReadStringPayload, ReadIpAddress, ReadIntegerVector,
     ReadVectorPart, ReadUnsignedIntegerVector, ReadNumbers, ReadCount,
     ReadCollectionPart, EndParts, VerifyLength, Skip, Payload
<1> QED BY <1>1, <1>2

\* A step of a writer, or damage.
LEMMA WriterImplementsLog ==
  ASSUME LogInv, WriterStep
  PROVE  [Log!Next]_(Log!vars)
<1>1. mode = "writing" /\ UNCHANGED <<received, damaged>>
  BY DEF WriterStep, Serialize, WriteLength, WriteData, WriteDataShort, Close, readerVars
<1>2. CASE WriteLength \/ WriteDataShort
  <2>1. UNCHANGED <<frames, torn, mode>>
    BY <1>2 DEF WriteLength, WriteDataShort
  <2> QED BY <1>1, <2>1 DEF Log!vars
<1>3. ASSUME NEW o \in Written, Serialize(o) PROVE [Log!Next]_(Log!vars)
  <2>1. UNCHANGED <<frames, mode>>
          /\ torn' = (torn \/ (wState = "failed" /\ o # pending))
    BY <1>3 DEF Serialize
  <2>2. CASE wState = "failed" /\ o # pending
    <3>1. torn' = TRUE
      BY <2>1, <2>2
    <3>2. Log!GiveUp
      BY <1>1, <2>1, <3>1 DEF Log!GiveUp
    <3> QED BY <3>2 DEF Log!Next
  <2>3. CASE ~ (wState = "failed" /\ o # pending)
    <3>1. torn' = torn
      BY <2>1, <2>3 DEF LogInv, ContentsOK
    <3> QED BY <1>1, <2>1, <3>1 DEF Log!vars
  <2> QED BY <2>2, <2>3
<1>4. CASE WriteData
  <2>1. UNCHANGED <<mode, torn>> /\ wState = "data"
    BY <1>4 DEF WriteData
  <2>2. pending \in Written
    BY <2>1 DEF LogInv, ContentsOK
  <2>3. PICK f : frames' = Append(frames, f) /\ f.object = pending
    BY <1>4 DEF WriteData
  <2>4. Logged' = Append(Logged, pending)
    BY <2>3, LoggedAppends DEF LogInv, SInv
  <2>5. Log!Write
    BY <1>1, <2>1, <2>2, <2>4 DEF Log!Write, Logged
  <2> QED BY <2>5 DEF Log!Next
<1>5. CASE Close
  <2>1. mode' = "closed" /\ UNCHANGED <<frames, torn>>
    BY <1>5 DEF Close, writerVars
  <2>2. Log!Seal
    BY <1>1, <2>1 DEF Log!Seal
  <2> QED BY <2>2 DEF Log!Next
<1> QED BY <1>2, <1>3, <1>4, <1>5 DEF WriterStep

LEMMA DamageImplementsLog ==
  ASSUME LogInv, Damage
  PROVE  [Log!Next]_(Log!vars)
<1>1. mode = "closed" /\ UNCHANGED <<mode, frames, torn, received>>
  BY DEF Damage, writerVars, readerVars
<1>2. received = <<>>
  BY <1>1 DEF LogInv, SInv, ReaderOK
<1>3. PICK k \in DOMAIN frames \ damaged : damaged' = damaged \cup {k}
  BY DEF Damage
<1>4. DOMAIN [i \in DOMAIN frames |-> frames[i].object] = DOMAIN frames
  OBVIOUS
<1>5. Log!Damage
  BY <1>1, <1>2, <1>3, <1>4 DEF Log!Damage
<1> QED BY <1>5 DEF Log!Next

LEMMA ReaderImplementsLog ==
  ASSUME LogInv, ReaderStep, mode = "reading",
         UNCHANGED <<file, mode, damaged, writerVars>>
  PROVE  [Log!Next]_(Log!vars)
<1>1. UNCHANGED <<frames, torn, mode, damaged, file>> /\ mode # "writing"
  BY DEF writerVars
<1>2. CASE received' = received
  BY <1>1, <1>2 DEF Log!vars
<1>3. ASSUME NEW e, received' = Append(received, e) PROVE [Log!Next]_(Log!vars)
  <2>1. /\ Len(received') = Len(received) + 1 /\ SubSeq(received', 1, Len(received)) = received
        /\ received'[Len(received')] = e /\ Len(received) \in Nat
    BY <1>3, AppendTakes DEF LogInv, SInv, ReaderOK
  <2>2. Log!Taking
    BY <2>1 DEF Log!Taking
  <2>3. /\ Len(Logged) = Len(frames) /\ Len(frames) \in Nat
        /\ \A i \in 1 .. Len(frames) : Logged[i] = frames[i].object
    BY LoggedFacts DEF LogInv, SInv
  <2>4. CASE Len(received) < Len(frames)
    <3>1. ASSUME Len(received') \notin damaged
          PROVE  received'[Len(received')] = Reading(Logged[Len(received')])
      <4>1. Len(received) + 1 \notin damaged /\ calls # <<>>
        BY <2>1, <3>1, ReaderStepRuns
      <4>2. PICK h : Following(h)
        BY <2>4, <4>1 DEF LogInv, ReadsIntact
      <4>3. received' = Append(received, Reading(NextFrame.object))
        <5>1. received' # received
          BY <2>1
        <5> QED BY <1>1, <4>1, <4>2, <5>1, IntactStep DEF LogInv
      <4>4. received'[Len(received')] = Reading(NextFrame.object)
        BY <4>3, AppendTakes DEF LogInv, SInv, ReaderOK
      <4>5. NextFrame.object = Logged[Len(received')]
        <5>1. Len(received) + 1 \in 1 .. Len(frames)
          BY <2>1, <2>3, <2>4
        <5> QED BY <2>1, <2>3, <5>1 DEF NextFrame
      <4> QED BY <4>4, <4>5
    <3>2. Log!Take
      BY <1>1, <2>2, <2>3, <2>4, <3>1 DEF Log!Take, Logged
    <3> QED BY <3>2 DEF Log!Next
  <2>5. CASE ~ (Len(received) < Len(frames))
    <3>1. Len(received) >= Len(frames)
      BY <2>1, <2>3, <2>5
    <3>2. ASSUME ~torn PROVE received'[Len(received')] = Failure
      <4>1. received' = Append(received, Failure)
        <5>1. received' # received
          BY <2>1
        <5> QED BY <3>1, <3>2, <5>1, BehindKept DEF LogInv
      <4> QED BY <4>1, AppendTakes DEF LogInv, SInv, ReaderOK
    <3>3. Log!TakeNothing
      BY <1>1, <2>2, <2>3, <3>1, <3>2 DEF Log!TakeNothing, Logged
    <3> QED BY <3>3 DEF Log!Next
  <2> QED BY <2>4, <2>5
<1> QED BY <1>2, <1>3, ReceivesOne

\* However the writer is cut short, whatever it leaves behind, and whatever
\* damage hits payloads and type identifiers: every object whose Serialize
\* returned true and which was not damaged itself is read back in its turn,
\* equal or, if this version cannot have it, as a failure; and behind the last
\* of them nothing is read but the remains of an object given up.  It holds for
\* objects of every known type, nested to any depth.
THEOREM FramesImplementLog ==
  ASSUME DamageKinds \subseteq {"payload", "typeId"}
  PROVE  Spec => ImplementsLog
<1>1. Init => LogInv
  BY InitLogInv
<1>2. LogInv /\ [Next]_vars => LogInv'
  BY NextKeepsLogInv
<1>3. Init => Log!Init
  <2> SUFFICES ASSUME Init PROVE Log!Init
    OBVIOUS
  <2>1. frames = <<>> /\ damaged = {} /\ torn = FALSE /\ mode = "writing" /\ received = <<>>
    BY DEF Init, ReaderInit
  <2>2. [i \in DOMAIN frames |-> frames[i].object] = <<>>
    BY <2>1
  <2> QED BY <2>1, <2>2 DEF Log!Init
<1>4. LogInv /\ [Next]_vars => [Log!Next]_(Log!vars)
  <2> SUFFICES ASSUME LogInv, [Next]_vars PROVE [Log!Next]_(Log!vars)
    OBVIOUS
  <2>1. CASE WriterStep
    BY <2>1, WriterImplementsLog
  <2>2. CASE Damage
    BY <2>2, DamageImplementsLog
  <2>3. CASE Open
    <3>1. mode = "closed" /\ mode' = "reading" /\ UNCHANGED <<frames, torn, damaged, received>>
      BY <2>3 DEF Open, writerVars, readerVars
    <3> QED BY <3>1 DEF Log!vars
  <2>4. CASE Deserialize
    <3>1. CASE ReaderStep
      BY <2>4, <3>1, ReaderImplementsLog DEF Deserialize
    <3>2. CASE Call
      <4>1. UNCHANGED <<mode, frames, torn, damaged, received>>
        BY <2>4, <3>2 DEF Deserialize, Call, writerVars
      <4> QED BY <4>1 DEF Log!vars
    <3> QED BY <2>4, <3>1, <3>2 DEF Deserialize
  <2>5. CASE UNCHANGED vars
    BY <2>5 DEF vars, readerVars, writerVars, Log!vars
  <2> QED BY <2>1, <2>2, <2>3, <2>4, <2>5 DEF Next
<1> QED BY <1>1, <1>2, <1>3, <1>4, PTL DEF Spec, ImplementsLog, Log!SafeSpec
===============================================================================
