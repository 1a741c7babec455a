------------------------ MODULE ObjectHandles_proofs ------------------------
(***************************************************************************)
(* The walk over a collection, the casts of implementations and what a     *)
(* reassigned handle leaves to its copies, for any number of variables,    *)
(* names, types, values and implementations.                               *)
(***************************************************************************)
EXTENDS ObjectHandles, FiniteSetTheorems, WellFoundedInduction, TLAPS

-------------------------------------------------------------------------------
(* The inductive invariant of the walk *)

Tags == Types \cup {"Empty"}

\* No handle a variable holds would, in the collection, be taken for a name
\* that is absent.
TagsOK ==
  /\ local = [n \in Names |-> local[n]]
  /\ \A n \in Names : local[n].type \in Tags
  /\ collection_ = [k \in Keys |-> collection_[k]]
  /\ \A k \in Present : collection_[k].type \in Tags

\* The walk has returned, in order, every name up to the cursor that has been
\* there all the time.
WalkOK ==
  /\ visited \in Seq(Keys)
  /\ resident \subseteq Present
  /\ cursor = 0 => visited = <<>> /\ resident = {}
  /\ cursor # 0 => visited # <<>> /\ cursor = visited[Len(visited)]
  /\ \A i, j \in DOMAIN visited : i < j => visited[i] < visited[j]
  /\ \A k \in resident : k <= cursor => k \in ToSet(visited)
  /\ missed = {}

IInv == TagsOK /\ WalkOK

-------------------------------------------------------------------------------
(* Lemmas *)

\* A set of naturals that is not empty has a least element.
LEMMA LeastOfNaturals ==
  ASSUME NEW S \in SUBSET Nat, S # {}
  PROVE  Min(S) \in S /\ \A k \in S : Min(S) <= k
<1>1. S \subseteq Nat
  OBVIOUS
<1>2. \E x \in S : \A y \in S : ~ (<<y, x>> \in OpToRel(<, Nat))
  BY <1>1, NatLessThanWellFounded, WFMin
<1>3. PICK x \in S : \A y \in S : ~ (<<y, x>> \in OpToRel(<, Nat))
  BY <1>2
<1>4. \A y \in S : ~ (y < x)
  BY <1>1, <1>3 DEF OpToRel
<1>5. \A y \in S : x <= y
  BY <1>1, <1>4
<1> QED BY <1>5 DEF Min

\* GetFirstObject and GetNextObject find a least name in any set of names.
LEMMA LeastKey ==
  ASSUME NEW S \in SUBSET Keys, S # {}
  PROVE  Min(S) \in S /\ \A k \in S : Min(S) <= k
BY LeastOfNaturals, HandlesAssumption DEF HandlesAssumption

\* A tag tells a handle from an absent one.
LEMMA TaggedIsPresent ==
  ASSUME NEW h, h.type \in Tags
  PROVE  h # Absent
  BY HandlesAssumption DEF HandlesAssumption, Tags, Absent

\* A step that changes the walk in nothing and takes no name away.
LEMMA WalkUndisturbed ==
  ASSUME WalkOK, UNCHANGED walkVars, Present \subseteq Present'
  PROVE  WalkOK'
  BY DEF WalkOK, walkVars

\* What a variable is given is tagged.
LEMMA HoldLocalKeeps ==
  ASSUME IInv, NEW h, NEW n \in Names, NEW g, g.type \in Tags, HoldLocal(h, n, g)
  PROVE  IInv'
<1>1. Present' = Present
  BY DEF Present, HoldLocal, Hold
<1>2. TagsOK'
  BY <1>1 DEF IInv, TagsOK, HoldLocal, Hold
<1> QED BY <1>1, <1>2, WalkUndisturbed DEF IInv, HoldLocal

LEMMA HoldVectorKeeps ==
  ASSUME IInv, NEW v, HoldVector(v)
  PROVE  IInv'
<1>1. Present' = Present
  BY DEF Present, HoldVector, Hold
<1>2. TagsOK'
  BY <1>1 DEF IInv, TagsOK, HoldVector, Hold
<1> QED BY <1>1, <1>2, WalkUndisturbed DEF IInv, HoldVector

\* A name that is given a handle is there.
LEMMA HoldKeyKeeps ==
  ASSUME IInv, NEW h, NEW k \in Keys, NEW g, g.type \in Tags,
         HoldKey(h, k, g), UNCHANGED walkVars
  PROVE  IInv'
<1>1. collection_' = [collection_ EXCEPT ![k] = g] /\ local' = local
  BY DEF HoldKey, Hold
<1>2. TagsOK'
  BY <1>1 DEF IInv, TagsOK, Present
<1>3. Present \subseteq Present'
  BY <1>1, TaggedIsPresent DEF Present, IInv, TagsOK
<1> QED BY <1>2, <1>3, WalkUndisturbed DEF IInv

-------------------------------------------------------------------------------
(* The steps *)

LEMMA ObjectStepKeeps ==
  ASSUME IInv, NEW n \in Names, ObjectStep(n)
  PROVE  IInv'
<1> USE DEF Tags
<1>1. EmptyHandle.type \in Tags /\ \A t \in Types : Fresh(t).type \in Tags
  BY DEF EmptyHandle, Fresh
<1>2. \A m \in Names : local[m].type \in Tags
  BY DEF IInv, TagsOK
<1>3. CASE Clear(n)
  BY <1>1, <1>3, HoldLocalKeeps DEF Clear
<1>4. CASE ParseEmpty(n)
  BY <1>1, <1>4, HoldLocalKeeps DEF ParseEmpty
<1>5. ASSUME NEW m \in Names, Copy(n, m) PROVE IInv'
  BY <1>2, <1>5, HoldLocalKeeps DEF Copy
<1>6. ASSUME NEW m \in Names, Move(n, m) PROVE IInv'
  <2>1. Present' = Present
    BY <1>6 DEF Present, Move, Hold
  <2>2. TagsOK'
    BY <1>6, <1>2, <2>1 DEF IInv, TagsOK, Move, Hold
  <2> QED BY <1>6, <2>1, <2>2, WalkUndisturbed DEF IInv, Move
<1>7. ASSUME NEW t \in Types, NEW x \in Values, Construct(n, t, x) PROVE IInv'
  BY <1>1, <1>7, HoldLocalKeeps DEF Construct
<1>8. ASSUME NEW t \in Types, NEW x \in Values, WriteThrough(n, t, x) PROVE IInv'
  BY <1>2, <1>8, HoldLocalKeeps DEF WriteThrough
<1>9. ASSUME NEW t \in Types, NEW x \in Values, Parse(n, t, x) PROVE IInv'
  BY <1>1, <1>9, HoldLocalKeeps DEF Parse
<1>10. CASE Deserialize(n)
  BY <1>1, <1>10, HoldLocalKeeps DEF Deserialize
<1> QED BY <1>3, <1>4, <1>5, <1>6, <1>7, <1>8, <1>9, <1>10 DEF ObjectStep

LEMMA VectorStepKeeps ==
  ASSUME IInv, NEW n \in Names, VectorStep(n)
  PROVE  IInv'
<1>1. \E v : HoldVector(v)
  BY DEF VectorStep, Append_, Add, Remove_, Insert, Delete, Replace_
<1> QED BY <1>1, HoldVectorKeeps

LEMMA CollectionStepKeeps ==
  ASSUME IInv, NEW k \in Keys, CollectionStep(k)
  PROVE  IInv'
<1>1. EmptyHandle.type \in Tags /\ \A t \in Types : Fresh(t).type \in Tags
  BY DEF EmptyHandle, Fresh, Tags
<1>2. \A m \in Names : local[m].type \in Tags
  BY DEF IInv, TagsOK
<1>3. CASE RemoveObject(k)
  <2>1. /\ collection_' = [collection_ EXCEPT ![k] = Absent] /\ local' = local
        /\ resident' = resident \ {k} /\ UNCHANGED <<cursor, visited, missed>>
    BY <1>3 DEF RemoveObject, HoldKey, Hold
  <2>2. Present' = Present \ {k}
    BY <2>1 DEF Present, IInv, TagsOK
  <2>3. TagsOK'
    BY <2>1, <2>2 DEF IInv, TagsOK, Present
  <2> QED BY <2>1, <2>2, <2>3 DEF IInv, WalkOK
<1>4. ASSUME NEW n \in Names, SetObject(k, n) PROVE IInv'
  BY <1>2, <1>4, HoldKeyKeeps DEF SetObject
<1>5. ASSUME NEW n \in Names, GetObjectWrapper(k, n) PROVE IInv'
  <2>1. collection_[k] # Absent => collection_[k].type \in Tags
    BY DEF IInv, TagsOK, Present
  <2> QED BY <1>1, <1>5, <2>1, HoldLocalKeeps DEF GetObjectWrapper
<1>6. ASSUME NEW t \in Types, NEW x \in Values, SetObjectValue(k, t, x) PROVE IInv'
  BY <1>1, <1>6, HoldKeyKeeps DEF SetObjectValue
<1>7. ASSUME NEW t \in Types, NEW x \in Values, GetObjectOr(k, t, x) PROVE IInv'
  <2>1. CASE Cast(collection_[k], t) = Null
    BY <1>1, <1>7, <2>1, HoldKeyKeeps DEF GetObjectOr
  <2>2. CASE Cast(collection_[k], t) # Null
    BY <1>7, <2>2 DEF GetObjectOr, holders, walkVars, IInv, TagsOK, WalkOK, Present
  <2> QED BY <2>1, <2>2
<1> QED BY <1>3, <1>4, <1>5, <1>6, <1>7 DEF CollectionStep

\* GetFirstObject and GetNextObject hand out what is in the collection, and
\* leave it as it is.
LEMMA ReturnKeeps ==
  ASSUME IInv, NEW n \in Names, NEW k \in Present, Return(n, k)
  PROVE  TagsOK' /\ Present' = Present /\ cursor' = k /\ missed' = {}
<1>1. Present' = Present
  BY DEF Present, Return, Hold
<1>2. collection_[k].type \in Tags
  BY DEF IInv, TagsOK
<1>3. TagsOK'
  BY <1>1, <1>2 DEF IInv, TagsOK, Return, Hold
<1> QED BY <1>1, <1>3 DEF Return, IInv, WalkOK

LEMMA GetFirstObjectKeeps ==
  ASSUME IInv, NEW n \in Names, GetFirstObject(n)
  PROVE  IInv'
<1> DEFINE first == Min(Present)
<1>1. Present \in SUBSET Keys /\ Present # {}
  BY DEF Present, GetFirstObject
<1>2. first \in Present /\ \A k \in Present : first <= k
  BY <1>1, LeastKey
<1>3. TagsOK' /\ Present' = Present /\ cursor' = first /\ missed' = {}
  BY <1>2, ReturnKeeps DEF GetFirstObject
<1>4. visited' = <<first>> /\ resident' = Present
  BY DEF GetFirstObject
<1>5. first \in Keys /\ Keys \subseteq Nat \ {0}
  BY <1>1, <1>2, HandlesAssumption DEF HandlesAssumption
<1> HIDE DEF first
<1>6. \A k \in resident' : k <= cursor' => k = first
  BY <1>1, <1>2, <1>3, <1>4, <1>5
<1>7. \A k \in resident' : k <= cursor' => k \in ToSet(visited)'
  BY <1>4, <1>6 DEF ToSet
<1> QED BY <1>3, <1>4, <1>5, <1>7 DEF IInv, WalkOK

LEMMA GetNextObjectKeeps ==
  ASSUME IInv, NEW n \in Names, GetNextObject(n)
  PROVE  IInv'
<1> DEFINE next == Min(Behind)
           last == Len(visited)
<1>1. Behind \in SUBSET Keys /\ Behind # {} /\ Behind \subseteq Present
  BY DEF Behind, Present, GetNextObject
<1>2. next \in Behind /\ \A k \in Behind : next <= k
  BY <1>1, LeastKey
<1>3. TagsOK' /\ Present' = Present /\ cursor' = next /\ missed' = {}
  BY <1>1, <1>2, ReturnKeeps DEF GetNextObject
<1>4. visited' = Append(visited, next) /\ resident' = resident
  BY DEF GetNextObject
<1>5. next \in Keys /\ Keys \subseteq Nat \ {0} /\ next > cursor
  BY <1>1, <1>2, HandlesAssumption DEF HandlesAssumption, Behind
<1>6. /\ visited \in Seq(Keys) /\ last \in Nat \ {0} /\ cursor = visited[last]
      /\ cursor \in Nat
  <2>1. visited \in Seq(Keys) /\ visited # <<>> /\ cursor = visited[last]
    BY DEF IInv, WalkOK, GetNextObject
  <2>2. cursor \in Keys
    BY DEF GetNextObject, Present
  <2> QED BY <1>5, <2>1, <2>2
<1>7. \A k \in resident : k <= cursor \/ k \in Behind
  BY <1>5, <1>6 DEF IInv, WalkOK, Behind, Present
<1> HIDE DEF next
<1>8. visited' \in Seq(Keys) /\ visited' # <<>> /\ visited'[Len(visited')] = next
  BY <1>4, <1>5, <1>6
<1>9. ToSet(visited)' = ToSet(visited) \cup {next}
  BY <1>4, <1>5, <1>6 DEF ToSet
<1>10. \A k \in resident' : k <= cursor' => k \in ToSet(visited)'
  <2> SUFFICES ASSUME NEW k \in resident, k <= next, k # next
               PROVE  k \in ToSet(visited)
    BY <1>3, <1>4, <1>9
  <2>1. k \notin Behind
    <3>1. k \in Behind => next <= k /\ k \in Nat /\ next \in Nat
      BY <1>1, <1>2, <1>5
    <3> QED BY <3>1
  <2> QED BY <1>7, <2>1 DEF IInv, WalkOK
<1>11. \A i, j \in DOMAIN visited' : i < j => visited'[i] < visited'[j]
  <2> SUFFICES ASSUME NEW i \in DOMAIN visited', NEW j \in DOMAIN visited', i < j
               PROVE  visited'[i] < visited'[j]
    OBVIOUS
  <2>1. i \in 1 .. last /\ visited'[i] = visited[i] /\ visited[i] \in Nat
    <3>1. i \in 1 .. last + 1 /\ j \in 1 .. last + 1
      BY <1>4, <1>5, <1>6
    <3>2. i \in 1 .. last
      BY <1>6, <3>1
    <3>3. visited[i] \in Keys
      BY <1>6, <3>2
    <3>4. visited'[i] = visited[i]
      BY <1>4, <1>5, <1>6, <3>2
    <3> QED BY <1>5, <3>2, <3>3, <3>4
  <2>2. CASE j = last + 1
    <3>1. visited[i] <= cursor
      BY <1>5, <1>6, <2>1 DEF IInv, WalkOK
    <3> QED BY <1>4, <1>5, <1>6, <2>1, <2>2, <3>1
  <2>3. CASE j \in 1 .. last
    BY <1>4, <1>5, <1>6, <2>1, <2>3 DEF IInv, WalkOK
  <2> QED BY <1>4, <1>6, <2>2, <2>3
<1>12. resident' \subseteq Present' /\ cursor' # 0
  BY <1>3, <1>4, <1>5 DEF IInv, WalkOK
<1> QED BY <1>3, <1>8, <1>10, <1>11, <1>12 DEF IInv, WalkOK

\* Nothing lies behind the last name: what was there all the time is visited.
LEMMA GetNextObjectFailsKeeps ==
  ASSUME IInv, GetNextObjectFails
  PROVE  IInv'
<1>1. TagsOK' /\ Present' = Present
  BY DEF GetNextObjectFails, holders, IInv, TagsOK, Present
<1>2. cursor' = 0 /\ visited' = <<>> /\ resident' = {}
  BY DEF GetNextObjectFails
<1>3. Keys \subseteq Nat \ {0}
  BY HandlesAssumption DEF HandlesAssumption
<1>4. missed' = {}
  <2>1. CASE cursor \notin Present
    BY <2>1 DEF GetNextObjectFails
  <2>2. CASE cursor \in Present
    <3>1. Behind = {} /\ missed' = resident \ ToSet(visited)
      BY <2>2 DEF GetNextObjectFails
    <3>2. \A k \in resident : k <= cursor
      BY <1>3, <2>2, <3>1 DEF IInv, WalkOK, Behind, Present
    <3> QED BY <3>1, <3>2 DEF IInv, WalkOK
  <2> QED BY <2>1, <2>2
<1> QED BY <1>1, <1>2, <1>4 DEF IInv, WalkOK, ToSet

-------------------------------------------------------------------------------
(* The theorem about the walk *)

LEMMA InitEstablishes == Init => IInv
<1> SUFFICES ASSUME Init PROVE IInv
  OBVIOUS
<1>1. TagsOK
  BY DEF Init, TagsOK, Tags, EmptyHandle, Present
<1>2. Present = {}
  BY DEF Init, Present
<1> QED BY <1>1, <1>2 DEF Init, IInv, WalkOK

LEMMA NextKeeps == IInv /\ [Next]_vars => IInv'
<1> SUFFICES ASSUME IInv, [Next]_vars PROVE IInv'
  OBVIOUS
<1>1. ASSUME NEW n \in Names, ObjectStep(n) PROVE IInv'
  BY <1>1, ObjectStepKeeps
<1>2. ASSUME NEW n \in Names, VectorStep(n) PROVE IInv'
  BY <1>2, VectorStepKeeps
<1>3. ASSUME NEW k \in Keys, CollectionStep(k) PROVE IInv'
  BY <1>3, CollectionStepKeeps
<1>4. ASSUME NEW n \in Names, GetFirstObject(n) PROVE IInv'
  BY <1>4, GetFirstObjectKeeps
<1>5. ASSUME NEW n \in Names, GetNextObject(n) PROVE IInv'
  BY <1>5, GetNextObjectKeeps
<1>6. CASE GetNextObjectFails
  BY <1>6, GetNextObjectFailsKeeps
<1>7. CASE UNCHANGED vars
  BY <1>7 DEF vars, holders, walkVars, IInv, TagsOK, WalkOK, Present
<1> QED BY <1>1, <1>2, <1>3, <1>4, <1>5, <1>6, <1>7 DEF Next, WalkStep

\* However GetFirstObject and GetNextObject are interleaved with changes of the
\* collection, the walk returns names in order and none twice, and when it ends
\* at the last name it has returned every name that was there all the time.
THEOREM WalkLosesNothing == Spec => []WalkComplete
<1>1. IInv => WalkComplete
  BY DEF IInv, WalkOK, WalkComplete
<1> QED BY <1>1, InitEstablishes, NextKeeps, PTL DEF Spec

-------------------------------------------------------------------------------
(* The inductive invariant of the heap *)

Impl == [type : Types, value : Values] \cup {Destroyed}

\* The conversion of a handle to a pointer of its tag's type is sound.
Sound(h, handle) ==
  handle \in Handle /\ (handle.impl # Null => h[handle.impl].type = handle.type)

AllSound(h, l, v, c) ==
  /\ \A n \in Names : Sound(h, l[n])
  /\ \A i \in DOMAIN v : Sound(h, v[i])
  /\ \A k \in Keys : c[k] = Absent \/ Sound(h, c[k])

HandlesType(l, v, c) ==
  /\ l \in [Names -> Handle]
  /\ v \in Seq(Handle)
  /\ c \in [Keys -> Handle \cup {Absent}]

HeapOK ==
  /\ heap \in [1 .. MaxImpls -> Impl]
  /\ HandlesType(local, value_, collection_)
  /\ AllSound(heap, local, value_, collection_)

-------------------------------------------------------------------------------
(* Lemmas about handles *)

\* No tag is that of an implementation destroyed.
LEMMA TagFacts ==
  /\ \A t \in Tags : t # "destroyed"
  /\ MaxImpls \in Nat /\ 0 \in Values
BY HandlesAssumption DEF HandlesAssumption, Tags

LEMMA HandleFacts ==
  ASSUME NEW h \in Handle
  PROVE  h.type \in Tags /\ h.impl \in 0 .. MaxImpls
BY DEF Handle, Tags

\* A handle without an implementation is sound, whatever its tag.
LEMMA NullSound ==
  ASSUME NEW h, NEW t \in Tags
  PROVE  Sound(h, [type |-> t, impl |-> Null])
BY TagFacts DEF Sound, Handle, Tags, Null

LEMMA EmptySound == ASSUME NEW h PROVE Sound(h, EmptyHandle)
BY NullSound DEF EmptyHandle, Tags

\* What is held after a step is not destroyed by it.
LEMMA HoldSound ==
  ASSUME NEW h \in [1 .. MaxImpls -> Impl], NEW l, NEW v, NEW c,
         HandlesType(l, v, c), AllSound(h, l, v, c), Hold(h, l, v, c)
  PROVE  HeapOK'
<1>1. /\ local' = l /\ value_' = v /\ collection_' = c
      /\ heap' = [i \in 1 .. MaxImpls |->
                    IF i \in Held(l, v, c) THEN h[i] ELSE Destroyed]
  BY DEF Hold
<1>2. heap' \in [1 .. MaxImpls -> Impl]
  BY <1>1 DEF Impl
<1>3. ASSUME NEW handle, Sound(h, handle), handle.impl \in Held(l, v, c)
      PROVE  Sound(heap', handle)
  BY <1>1, <1>3, HandleFacts, TagFacts DEF Sound, Null
<1>4. AllSound(heap', l, v, c)
  <2>1. \A n \in Names : Sound(heap', l[n])
    BY <1>3 DEF AllSound, Held
  <2>2. \A i \in DOMAIN v : Sound(heap', v[i])
    BY <1>3 DEF AllSound, Held
  <2>3. \A k \in Keys : c[k] = Absent \/ Sound(heap', c[k])
    BY <1>3 DEF AllSound, Held
  <2> QED BY <2>1, <2>2, <2>3 DEF AllSound
<1> QED BY <1>1, <1>2, <1>4 DEF HeapOK

LEMMA HoldLocalSound ==
  ASSUME HeapOK, NEW h \in [1 .. MaxImpls -> Impl], NEW n \in Names, NEW g,
         AllSound(h, local, value_, collection_), Sound(h, g), HoldLocal(h, n, g)
  PROVE  HeapOK'
<1> DEFINE l == [local EXCEPT ![n] = g]
<1>1. g \in Handle
  BY DEF Sound
<1>2. HandlesType(l, value_, collection_)
  BY <1>1 DEF HeapOK, HandlesType
<1>3. AllSound(h, l, value_, collection_)
  BY DEF AllSound, HeapOK, HandlesType
<1>4. Hold(h, l, value_, collection_)
  BY DEF HoldLocal
<1> HIDE DEF l
<1> QED BY <1>2, <1>3, <1>4, HoldSound

LEMMA HoldVectorSound ==
  ASSUME HeapOK, NEW v \in Seq(Handle), \A i \in DOMAIN v : Sound(heap, v[i]),
         HoldVector(v)
  PROVE  HeapOK'
<1>1. HandlesType(local, v, collection_) /\ AllSound(heap, local, v, collection_)
  BY DEF HeapOK, HandlesType, AllSound
<1> QED BY <1>1, HoldSound DEF HeapOK, HoldVector

LEMMA HoldKeySound ==
  ASSUME HeapOK, NEW h \in [1 .. MaxImpls -> Impl], NEW k \in Keys, NEW g,
         AllSound(h, local, value_, collection_), g = Absent \/ Sound(h, g),
         HoldKey(h, k, g)
  PROVE  HeapOK'
<1> DEFINE c == [collection_ EXCEPT ![k] = g]
<1>1. g \in Handle \cup {Absent}
  BY DEF Sound
<1>2. HandlesType(local, value_, c)
  BY <1>1 DEF HeapOK, HandlesType
<1>3. AllSound(h, local, value_, c)
  BY DEF AllSound, HeapOK, HandlesType
<1>4. Hold(h, local, value_, c)
  BY DEF HoldKey
<1> HIDE DEF c
<1> QED BY <1>2, <1>3, <1>4, HoldSound

\* A new implementation lies where no handle leads.
LEMMA FreshSound ==
  ASSUME HeapOK, CanAllocate, NEW t \in Types, NEW x \in Values
  PROVE  /\ WithFresh(t, x) \in [1 .. MaxImpls -> Impl]
         /\ AllSound(WithFresh(t, x), local, value_, collection_)
         /\ Sound(WithFresh(t, x), Fresh(t))
         /\ \A h : Sound(heap, h) /\ h.impl # Null =>
              WithFresh(t, x)[h.impl] = heap[h.impl]
<1> DEFINE a == Min(Free)
<1>1. a \in Free
  BY LeastOfNaturals DEF CanAllocate, Free
<1>2. a \in 1 .. MaxImpls /\ heap[a] = Destroyed
  BY <1>1 DEF Free
<1>3. /\ WithFresh(t, x) = [heap EXCEPT ![a] = [type |-> t, value |-> x]]
      /\ Fresh(t) = [type |-> t, impl |-> a]
  BY DEF WithFresh, Fresh
<1> HIDE DEF a
<1>4. WithFresh(t, x) \in [1 .. MaxImpls -> Impl]
  BY <1>2, <1>3 DEF HeapOK, Impl
<1>5. ASSUME NEW h, Sound(heap, h), h.impl # Null
      PROVE  WithFresh(t, x)[h.impl] = heap[h.impl]
  BY <1>2, <1>3, <1>5, HandleFacts, TagFacts DEF Sound, Destroyed, HeapOK
<1>6. \A h : Sound(heap, h) => Sound(WithFresh(t, x), h)
  BY <1>5 DEF Sound
<1>7. AllSound(WithFresh(t, x), local, value_, collection_)
  BY <1>6 DEF AllSound, HeapOK
<1>8. Sound(WithFresh(t, x), Fresh(t))
  BY <1>2, <1>3, TagFacts DEF Sound, Handle, Null, HeapOK
<1> QED BY <1>4, <1>5, <1>7, <1>8

\* A pointer a conversion returns leads to an implementation of its type, and
\* writing through it changes no type.
LEMMA WriteSound ==
  ASSUME HeapOK, NEW n \in Names, NEW t \in Types, NEW x \in Values,
         Cast(local[n], t) # Null
  PROVE  /\ [heap EXCEPT ![Cast(local[n], t)].value = x] \in [1 .. MaxImpls -> Impl]
         /\ AllSound([heap EXCEPT ![Cast(local[n], t)].value = x],
                     local, value_, collection_)
         /\ Sound([heap EXCEPT ![Cast(local[n], t)].value = x], local[n])
<1> DEFINE a == local[n].impl
           w == [heap EXCEPT ![a] = [type |-> t, value |-> x]]
<1>1. Cast(local[n], t) = a /\ local[n].type = t /\ a # Null
  BY DEF Cast
<1>2. Sound(heap, local[n])
  BY DEF HeapOK, AllSound
<1>3. a \in 1 .. MaxImpls /\ heap[a].type = t
  BY <1>1, <1>2, HandleFacts, TagFacts DEF Sound, Null
<1>4. heap[a] \in Impl /\ heap[a] # Destroyed
  BY <1>3, TagFacts DEF HeapOK, Destroyed, Tags
<1>5. [heap[a] EXCEPT !.value = x] = [type |-> t, value |-> x]
  BY <1>3, <1>4 DEF Impl
<1>6. [heap EXCEPT ![a].value = x] = w
  BY <1>5
<1>7. w \in [1 .. MaxImpls -> Impl]
  BY <1>3 DEF HeapOK, Impl
<1>8. \A h : Sound(heap, h) => Sound(w, h)
  BY <1>3, HandleFacts, TagFacts DEF Sound, Null, HeapOK
<1> HIDE DEF w, a
<1>9. AllSound(w, local, value_, collection_)
  BY <1>8 DEF AllSound, HeapOK
<1> QED BY <1>1, <1>2, <1>6, <1>7, <1>8, <1>9

-------------------------------------------------------------------------------
(* The steps and the heap *)

LEMMA ObjectStepSound ==
  ASSUME HeapOK, NEW n \in Names, ObjectStep(n)
  PROVE  HeapOK'
<1>1. /\ heap \in [1 .. MaxImpls -> Impl]
      /\ AllSound(heap, local, value_, collection_)
      /\ \A m \in Names : Sound(heap, local[m])
  BY DEF HeapOK, AllSound
<1>2. ASSUME NEW h, HoldLocal(heap, n, h), Sound(heap, h) PROVE HeapOK'
  BY <1>1, <1>2, HoldLocalSound
<1>3. ASSUME NEW t \in Types, NEW x \in Values, CanAllocate,
             HoldLocal(WithFresh(t, x), n, Fresh(t))
      PROVE  HeapOK'
  BY <1>3, FreshSound, HoldLocalSound
<1>4. CASE Clear(n) \/ ParseEmpty(n)
  BY <1>2, <1>4, EmptySound DEF Clear, ParseEmpty
<1>5. ASSUME NEW m \in Names, Copy(n, m) PROVE HeapOK'
  BY <1>1, <1>2, <1>5 DEF Copy
<1>6. ASSUME NEW m \in Names, Move(n, m) PROVE HeapOK'
  <2> DEFINE from == [type |-> local[m].type, impl |-> Null]
             l == [local EXCEPT ![n] = local[m], ![m] = from]
  <2>1. local[m].type \in Tags /\ local[m] \in Handle
    BY <1>1, HandleFacts DEF Sound
  <2>2. Sound(heap, from) /\ from \in Handle
    BY <2>1, NullSound DEF Sound
  <2> HIDE DEF from
  <2>3. HandlesType(l, value_, collection_)
    BY <2>1, <2>2 DEF HeapOK, HandlesType
  <2>4. AllSound(heap, l, value_, collection_)
    BY <1>1, <2>2 DEF AllSound, HeapOK, HandlesType
  <2>5. Hold(heap, l, value_, collection_)
    BY <1>6 DEF Move, from
  <2> HIDE DEF l
  <2> QED BY <1>1, <2>3, <2>4, <2>5, HoldSound
<1>7. ASSUME NEW t \in Types, NEW x \in Values, Construct(n, t, x) \/ Parse(n, t, x)
      PROVE  HeapOK'
  BY <1>3, <1>7 DEF Construct, Parse
<1>8. ASSUME NEW t \in Types, NEW x \in Values, WriteThrough(n, t, x) PROVE HeapOK'
  BY <1>8, WriteSound, HoldLocalSound DEF WriteThrough
<1>9. CASE Deserialize(n)
  BY <1>2, <1>3, <1>9, EmptySound DEF Deserialize
<1> QED BY <1>4, <1>5, <1>6, <1>7, <1>8, <1>9 DEF ObjectStep

LEMMA VectorStepSound ==
  ASSUME HeapOK, NEW n \in Names, VectorStep(n)
  PROVE  HeapOK'
<1> DEFINE T == {h \in Handle : Sound(heap, h)}
           g == local[n]
<1>1. value_ \in Seq(T)
  <2>1. value_ \in Seq(Handle) /\ \A i \in DOMAIN value_ : value_[i] \in T
    BY DEF HeapOK, HandlesType, AllSound, Sound
  <2> HIDE DEF T
  <2> QED BY <2>1
<1>2. g \in T
  BY DEF HeapOK, AllSound, Sound
<1>3. ASSUME NEW v \in Seq(T), HoldVector(v) PROVE HeapOK'
  <2>1. T \subseteq Handle
    OBVIOUS
  <2>2. v \in Seq(Handle) /\ \A i \in DOMAIN v : v[i] \in T
    <3> HIDE DEF T
    <3> QED BY <2>1
  <2> QED BY <1>3, <2>2, HoldVectorSound
<1> HIDE DEF T, g
<1>4. Append(value_, g) \in Seq(T)
  BY <1>1, <1>2
<1>5. CASE Append_(n)
  BY <1>3, <1>4, <1>5 DEF Append_, g
<1>6. CASE Add(n)
  BY <1>1, <1>3, <1>4, <1>6 DEF Add, g
<1>7. CASE Remove_(n)
  <2> DEFINE kept == {i \in DOMAIN value_ :
                       Serialized(value_[i]) # Serialized(local[n])}
  <2>1. PICK place \in [1 .. Cardinality(kept) -> kept] :
          HoldVector([i \in DOMAIN place |-> value_[place[i]]])
    BY <1>7 DEF Remove_
  <2>2. kept \subseteq 1 .. Len(value_)
    BY <1>1
  <2>3. Cardinality(kept) \in Nat
    <3>1. IsFiniteSet(1 .. Len(value_))
      BY <1>1, FS_Interval
    <3> QED BY <2>2, <3>1, FS_Subset, FS_CardinalityType
  <2> DEFINE m == Cardinality(kept)
             v == [i \in 1 .. m |-> value_[place[i]]]
  <2> HIDE DEF kept
  <2>4. \A i \in 1 .. m : value_[place[i]] \in T
    <3> SUFFICES ASSUME NEW i \in 1 .. m PROVE value_[place[i]] \in T
      OBVIOUS
    <3>1. place[i] \in 1 .. Len(value_)
      BY <2>2
    <3> QED BY <1>1, <3>1
  <2> HIDE DEF m
  <2>5. v \in Seq(T)
    BY <2>3, <2>4 DEF m
  <2>6. HoldVector(v)
    BY <2>1 DEF m
  <2> QED BY <1>3, <2>5, <2>6
<1>8. ASSUME NEW i \in 1 .. MaxLength, Insert(n, i) PROVE HeapOK'
  <2>1. i \in Nat /\ i >= 1 /\ i <= Len(value_) + 1 /\ Len(value_) \in Nat
    BY <1>1, <1>8, TagFacts, HandlesAssumption DEF HandlesAssumption, Insert
  <2>2. SubSeq(value_, 1, i - 1) \in Seq(T) /\ SubSeq(value_, i, Len(value_)) \in Seq(T)
    BY <1>1, <2>1
  <2>3. InsertAt(value_, i, g) \in Seq(T)
    BY <1>2, <2>2 DEF InsertAt
  <2> QED BY <1>3, <1>8, <2>3 DEF Insert, g
<1>9. ASSUME NEW i \in 1 .. MaxLength, Delete(i) PROVE HeapOK'
  <2>1. i \in 1 .. Len(value_) /\ Len(value_) \in Nat
    BY <1>1, <1>9 DEF Delete
  <2>2. /\ SubSeq(value_, 1, i - 1) \in Seq(T)
        /\ SubSeq(value_, i + 1, Len(value_)) \in Seq(T)
    BY <1>1, <2>1
  <2>3. RemoveAt(value_, i) \in Seq(T)
    BY <2>2 DEF RemoveAt
  <2> QED BY <1>3, <1>9, <2>3 DEF Delete
<1>10. ASSUME NEW i \in 1 .. MaxLength, Replace_(n, i) PROVE HeapOK'
  <2>1. [value_ EXCEPT ![i] = g] \in Seq(T)
    BY <1>1, <1>2, <1>10 DEF Replace_
  <2> QED BY <1>3, <1>10, <2>1 DEF Replace_, g
<1> QED BY <1>5, <1>6, <1>7, <1>8, <1>9, <1>10 DEF VectorStep

LEMMA CollectionStepSound ==
  ASSUME HeapOK, NEW k \in Keys, CollectionStep(k)
  PROVE  HeapOK'
<1>1. /\ heap \in [1 .. MaxImpls -> Impl]
      /\ AllSound(heap, local, value_, collection_)
      /\ collection_[k] = Absent \/ Sound(heap, collection_[k])
  BY DEF HeapOK, AllSound
<1>2. ASSUME NEW t \in Types, NEW x \in Values, CanAllocate,
             HoldKey(WithFresh(t, x), k, Fresh(t))
      PROVE  HeapOK'
  BY <1>2, FreshSound, HoldKeySound
<1>3. CASE RemoveObject(k)
  BY <1>1, <1>3, HoldKeySound DEF RemoveObject
<1>4. ASSUME NEW n \in Names, SetObject(k, n) PROVE HeapOK'
  BY <1>1, <1>4, HoldKeySound DEF SetObject, AllSound
<1>5. ASSUME NEW n \in Names, GetObjectWrapper(k, n) PROVE HeapOK'
  <2>1. Sound(heap, IF collection_[k] = Absent THEN EmptyHandle ELSE collection_[k])
    BY <1>1, EmptySound
  <2> QED BY <1>1, <1>5, <2>1, HoldLocalSound DEF GetObjectWrapper
<1>6. ASSUME NEW t \in Types, NEW x \in Values, SetObjectValue(k, t, x) PROVE HeapOK'
  BY <1>2, <1>6 DEF SetObjectValue
<1>7. ASSUME NEW t \in Types, NEW x \in Values, GetObjectOr(k, t, x) PROVE HeapOK'
  <2>1. CASE Cast(collection_[k], t) = Null
    BY <1>2, <1>7, <2>1 DEF GetObjectOr
  <2>2. CASE Cast(collection_[k], t) # Null
    BY <1>7, <2>2 DEF GetObjectOr, holders, HeapOK
  <2> QED BY <2>1, <2>2
<1> QED BY <1>3, <1>4, <1>5, <1>6, <1>7 DEF CollectionStep

LEMMA WalkStepSound ==
  ASSUME HeapOK, WalkStep
  PROVE  HeapOK'
<1>1. ASSUME NEW n \in Names, NEW k \in Present, Return(n, k) PROVE HeapOK'
  <2> DEFINE l == [local EXCEPT ![n] = collection_[k]]
  <2>1. Sound(heap, collection_[k]) /\ collection_[k] \in Handle
    BY DEF HeapOK, AllSound, Present, Sound
  <2>2. HandlesType(l, value_, collection_)
    BY <2>1 DEF HeapOK, HandlesType
  <2>3. AllSound(heap, l, value_, collection_)
    BY <2>1 DEF HeapOK, AllSound, HandlesType
  <2>4. Hold(heap, l, value_, collection_) /\ heap \in [1 .. MaxImpls -> Impl]
    BY <1>1 DEF Return, HeapOK
  <2> HIDE DEF l
  <2> QED BY <2>2, <2>3, <2>4, HoldSound
<1>2. Behind \subseteq Present /\ Present \subseteq Keys
  BY DEF Behind, Present
<1>3. ASSUME NEW n \in Names, GetFirstObject(n) PROVE HeapOK'
  BY <1>1, <1>2, <1>3, LeastKey DEF GetFirstObject
<1>4. ASSUME NEW n \in Names, GetNextObject(n) PROVE HeapOK'
  <2>1. Min(Behind) \in Present
    BY <1>2, <1>4, LeastKey DEF GetNextObject
  <2> QED BY <1>1, <1>4, <2>1 DEF GetNextObject
<1>5. CASE GetNextObjectFails
  BY <1>5 DEF GetNextObjectFails, holders, HeapOK
<1> QED BY <1>3, <1>4, <1>5 DEF WalkStep

-------------------------------------------------------------------------------
(* The theorems about the heap *)

LEMMA InitHeapOK == Init => HeapOK
<1> SUFFICES ASSUME Init PROVE HeapOK
  OBVIOUS
<1>1. heap \in [1 .. MaxImpls -> Impl]
  BY DEF Init, Impl
<1>2. EmptyHandle \in Handle
  BY EmptySound DEF Sound
<1>3. HandlesType(local, value_, collection_)
  BY <1>2 DEF Init, HandlesType
<1>4. AllSound(heap, local, value_, collection_)
  <2>1. value_ = <<>> /\ DOMAIN value_ = {}
    BY DEF Init
  <2>2. \A n \in Names : Sound(heap, local[n])
    BY EmptySound DEF Init
  <2>3. \A k \in Keys : collection_[k] = Absent
    BY DEF Init
  <2> QED BY <2>1, <2>2, <2>3 DEF AllSound
<1> QED BY <1>1, <1>3, <1>4 DEF HeapOK

LEMMA NextHeapOK == HeapOK /\ [Next]_vars => HeapOK'
<1> SUFFICES ASSUME HeapOK, [Next]_vars PROVE HeapOK'
  OBVIOUS
<1>1. ASSUME NEW n \in Names, ObjectStep(n) PROVE HeapOK'
  BY <1>1, ObjectStepSound
<1>2. ASSUME NEW n \in Names, VectorStep(n) PROVE HeapOK'
  BY <1>2, VectorStepSound
<1>3. ASSUME NEW k \in Keys, CollectionStep(k) PROVE HeapOK'
  BY <1>3, CollectionStepSound
<1>4. CASE WalkStep
  BY <1>4, WalkStepSound
<1>5. CASE UNCHANGED vars
  BY <1>5 DEF vars, holders, HeapOK
<1> QED BY <1>1, <1>2, <1>3, <1>4, <1>5 DEF Next

LEMMA HeapInvariance == Spec => []HeapOK
BY InitHeapOK, NextHeapOK, PTL DEF Spec

\* However handles are copied, moved, parsed over, put into vectors and
\* collections and got out of them again, what a tag lets the library cast a
\* pointer to is what the pointer leads to, and that is alive.
THEOREM CastsNeverDangle == Spec => []CastsSound
<1>1. HeapOK => CastsSound
  <2> SUFFICES ASSUME HeapOK, NEW h \in Handles, h.impl # Null
               PROVE  h \in Handle /\ heap[h.impl].type = h.type
    BY DEF CastsSound
  <2>1. h # Absent
    BY DEF Absent
  <2>2. Sound(heap, h)
    BY <2>1 DEF HeapOK, AllSound, Handles, ToSet
  <2> QED BY <2>2 DEF Sound
<1> QED BY <1>1, HeapInvariance, PTL

-------------------------------------------------------------------------------
(* The theorem about copies *)

OthersStay(names, keys) ==
  /\ \A n \in Names \ names : local'[n] = local[n]
  /\ \A k \in Keys \ keys : collection_'[k] = collection_[k]

\* An operation replaces no handle but that of the variable or the name it is
\* called on, or those in the vector it is called on; a move takes the pointer
\* of the variable it moves from besides, and passes it on.
OthersUntouched ==
  [][ /\ \A n \in Names : AssignsName(n) => OthersStay({n}, {}) /\ value_' = value_
      /\ \A n \in Names : VectorStep(n) => OthersStay({}, {})
      /\ \A n, m \in Names :
           Move(n, m) =>
             OthersStay({n, m}, {}) /\ value_' = value_ /\ local'[n] = local[m]
      /\ \A k \in Keys : AssignsKey(k) => OthersStay({}, {k}) /\ value_' = value_
    ]_vars

\* A step that leaves what any handle leads to as it is, in the heap it makes,
\* takes no handle that is there after it its value: it is held, so what it leads
\* to is not destroyed.
LEMMA StayingKeeps ==
  ASSUME HeapOK, NEW g, NEW l, NEW v, NEW c, Hold(g, l, v, c),
         \A h : Sound(heap, h) /\ h.impl # Null => g[h.impl] = heap[h.impl]
  PROVE  ValuesKeep
<1> SUFFICES ASSUME NEW h \in Handles \cap Handles'
             PROVE  ValueOf(h)' = ValueOf(h)
  BY DEF ValuesKeep
<1>1. CASE h.impl = Null
  BY <1>1 DEF ValueOf
<1>2. CASE h.impl # Null
  <2>1. h # Absent
    BY <1>2 DEF Absent
  <2>2. Sound(heap, h)
    BY <2>1 DEF HeapOK, AllSound, Handles, ToSet
  <2>3. h.impl \in 1 .. MaxImpls
    BY <1>2, <2>2, HandleFacts, TagFacts DEF Sound, Null
  <2>4. h.impl \in Held(l, v, c)
    <3>1. local' = l /\ value_' = v /\ collection_' = c
      BY DEF Hold
    <3> QED BY <3>1 DEF Handles, Held, ToSet
  <2>5. heap'[h.impl] = g[h.impl]
    BY <2>3, <2>4 DEF Hold
  <2> QED BY <1>2, <2>2, <2>5 DEF ValueOf
<1> QED BY <1>1, <1>2

LEMMA AsItIsKeeps ==
  ASSUME HeapOK, NEW l, NEW v, NEW c, Hold(heap, l, v, c)
  PROVE  ValuesKeep
BY StayingKeeps

LEMMA FreshKeeps ==
  ASSUME HeapOK, NEW t \in Types, NEW x \in Values, CanAllocate,
         NEW l, NEW v, NEW c, Hold(WithFresh(t, x), l, v, c)
  PROVE  ValuesKeep
<1>1. \A h : Sound(heap, h) /\ h.impl # Null => WithFresh(t, x)[h.impl] = heap[h.impl]
  BY FreshSound
<1> QED BY <1>1, StayingKeeps

LEMMA HoldLocalTouchesOne ==
  ASSUME HeapOK, NEW h, NEW n \in Names, NEW g, HoldLocal(h, n, g)
  PROVE  OthersStay({n}, {}) /\ value_' = value_
BY DEF HoldLocal, Hold, OthersStay, HeapOK, HandlesType

LEMMA HoldKeyTouchesOne ==
  ASSUME HeapOK, NEW h, NEW k \in Keys, NEW g, HoldKey(h, k, g)
  PROVE  OthersStay({}, {k}) /\ value_' = value_
BY DEF HoldKey, Hold, OthersStay, HeapOK, HandlesType

LEMMA AssignsNameSpares ==
  ASSUME HeapOK, NEW n \in Names, AssignsName(n)
  PROVE  ValuesKeep /\ OthersStay({n}, {}) /\ value_' = value_
<1> DEFINE Spared == ValuesKeep /\ OthersStay({n}, {}) /\ value_' = value_
<1>1. ASSUME NEW g, HoldLocal(heap, n, g) PROVE Spared
  BY <1>1, AsItIsKeeps, HoldLocalTouchesOne DEF HoldLocal
<1>2. ASSUME NEW t \in Types, NEW x \in Values, CanAllocate,
             HoldLocal(WithFresh(t, x), n, Fresh(t))
      PROVE  Spared
  BY <1>2, FreshKeeps, HoldLocalTouchesOne DEF HoldLocal
<1>3. ASSUME NEW k \in Keys, Return(n, k) PROVE Spared
  <2>1. Hold(heap, [local EXCEPT ![n] = collection_[k]], value_, collection_)
    BY <1>3 DEF Return
  <2>2. OthersStay({n}, {}) /\ value_' = value_
    BY <2>1 DEF Hold, OthersStay, HeapOK, HandlesType
  <2> QED BY <2>1, <2>2, AsItIsKeeps
<1>4. CASE Clear(n) \/ ParseEmpty(n) \/ \E m \in Names : Copy(n, m)
  BY <1>1, <1>4 DEF Clear, ParseEmpty, Copy
<1>5. CASE Deserialize(n)
  BY <1>1, <1>2, <1>5 DEF Deserialize
<1>6. CASE \E t \in Types, x \in Values : Construct(n, t, x) \/ Parse(n, t, x)
  BY <1>2, <1>6 DEF Construct, Parse
<1>7. CASE \E k \in Keys : GetObjectWrapper(k, n)
  BY <1>1, <1>7 DEF GetObjectWrapper
<1>8. CASE GetFirstObject(n)
  <2>1. Min(Present) \in Keys /\ Return(n, Min(Present))
    BY <1>8, LeastKey DEF GetFirstObject, Present
  <2> QED BY <1>3, <2>1
<1>9. CASE GetNextObject(n)
  <2>1. Min(Behind) \in Keys /\ Return(n, Min(Behind))
    BY <1>9, LeastKey DEF GetNextObject, Behind, Present
  <2> QED BY <1>3, <2>1
<1>10. Spared
  BY <1>4, <1>5, <1>6, <1>7, <1>8, <1>9 DEF AssignsName
<1> QED BY <1>10

LEMMA AssignsKeySpares ==
  ASSUME HeapOK, NEW k \in Keys, AssignsKey(k)
  PROVE  ValuesKeep /\ OthersStay({}, {k}) /\ value_' = value_
<1> DEFINE Spared == ValuesKeep /\ OthersStay({}, {k}) /\ value_' = value_
<1>1. ASSUME NEW g, HoldKey(heap, k, g) PROVE Spared
  BY <1>1, AsItIsKeeps, HoldKeyTouchesOne DEF HoldKey
<1>2. ASSUME NEW t \in Types, NEW x \in Values, CanAllocate,
             HoldKey(WithFresh(t, x), k, Fresh(t))
      PROVE  Spared
  BY <1>2, FreshKeeps, HoldKeyTouchesOne DEF HoldKey
<1>3. CASE UNCHANGED holders
  BY <1>3 DEF holders, ValuesKeep, ValueOf, OthersStay
<1>4. CASE RemoveObject(k)
  BY <1>1, <1>4 DEF RemoveObject
<1>5. CASE \E n \in Names : SetObject(k, n)
  BY <1>1, <1>5 DEF SetObject
<1>6. CASE \E t \in Types, x \in Values : SetObjectValue(k, t, x)
  BY <1>2, <1>6 DEF SetObjectValue
<1>7. CASE \E t \in Types, x \in Values : GetObjectOr(k, t, x)
  BY <1>2, <1>3, <1>7 DEF GetObjectOr
<1>8. Spared
  BY <1>4, <1>5, <1>6, <1>7 DEF AssignsKey
<1> QED BY <1>8

LEMMA MoveSpares ==
  ASSUME HeapOK, NEW n \in Names, NEW m \in Names, Move(n, m)
  PROVE  /\ ValuesKeep /\ OthersStay({n, m}, {}) /\ value_' = value_
         /\ local'[n] = local[m]
<1>1. ValuesKeep
  BY AsItIsKeeps DEF Move
<1>2. OthersStay({n, m}, {}) /\ value_' = value_ /\ local'[n] = local[m]
  BY DEF Move, Hold, OthersStay, HeapOK, HandlesType
<1> QED BY <1>1, <1>2

LEMMA VectorStepSpares ==
  ASSUME HeapOK, NEW n \in Names, VectorStep(n)
  PROVE  ValuesKeep /\ OthersStay({}, {})
<1>1. ASSUME NEW v, HoldVector(v) PROVE ValuesKeep /\ OthersStay({}, {})
  <2>1. Hold(heap, local, v, collection_)
    BY <1>1 DEF HoldVector
  <2>2. OthersStay({}, {})
    BY <2>1 DEF Hold, OthersStay
  <2> QED BY <2>1, <2>2, AsItIsKeeps
<1>2. \E v : HoldVector(v)
  BY DEF VectorStep, Append_, Add, Remove_, Insert, Delete, Replace_
<1> QED BY <1>1, <1>2

\* Nothing but writing through a pointer changes a value that handles share:
\* constructing, copying, moving, parsing and reading an object, and the
\* operations of the vector and the collection, leave every handle they do not
\* assign to as it is, and every handle that is there before and after them
\* leads to the same value.
THEOREM ReplacingSparesCopies == Spec => CopiesKeepValue /\ OthersUntouched
<1>1. HeapOK /\ [Next]_vars =>
        [ ~ValuesKeep =>
            /\ \A n \in Names : ~(AssignsName(n) \/ VectorStep(n))
            /\ \A n, m \in Names : ~Move(n, m)
            /\ \A k \in Keys : ~AssignsKey(k)
        ]_vars
  BY AssignsNameSpares, VectorStepSpares, MoveSpares, AssignsKeySpares
<1>2. HeapOK /\ [Next]_vars =>
        [ /\ \A n \in Names : AssignsName(n) => OthersStay({n}, {}) /\ value_' = value_
          /\ \A n \in Names : VectorStep(n) => OthersStay({}, {})
          /\ \A n, m \in Names :
               Move(n, m) =>
                 OthersStay({n, m}, {}) /\ value_' = value_ /\ local'[n] = local[m]
          /\ \A k \in Keys : AssignsKey(k) => OthersStay({}, {k}) /\ value_' = value_
        ]_vars
  BY AssignsNameSpares, VectorStepSpares, MoveSpares, AssignsKeySpares
<1> QED BY <1>1, <1>2, HeapInvariance, PTL DEF Spec, CopiesKeepValue, OthersUntouched
===============================================================================
