---------------------------- MODULE ObjectHandles ----------------------------
(***************************************************************************)
(* SerializedObject in memory: a type tag and a shared pointer to an       *)
(* implementation that all copies share.  A program holds handles in its   *)
(* variables, in a SerializedVector and in a SerializedCollection, and     *)
(* calls their operations in any order, while it walks the collection with *)
(* GetFirstObject and GetNextObject.                                       *)
(***************************************************************************)
EXTENDS Integers, Sequences, FiniteSets, SequencesExt, FiniteSetsExt

CONSTANTS
  Names,     \* the program's variables of type SerializedObject
  Keys,      \* names in the collection, in the order of their numbers
  Types,     \* types of implementations
  Values,    \* their values; 0 is that of a default constructor
  MaxImpls,  \* bound: implementations alive
  MaxLength  \* bound: elements of the vector

ASSUME HandlesAssumption ==
  /\ Keys \subseteq Nat \ {0} /\ IsFiniteSet(Keys)
  /\ 0 \in Values
  /\ Types \cap {"Empty", "absent", "destroyed"} = {}
  /\ MaxImpls \in Nat /\ MaxLength \in Nat

VARIABLES
  heap,         \* the implementations by their addresses
  local,        \* the program's variables
  value_,       \* the vector
  collection_,  \* the collection
  cursor,       \* the name last returned by the walk, 0 when none is under way
  visited,      \* history: the names returned by the walk
  resident,     \* history: the names there since the walk began
  missed        \* history: those of them the walk ended without

walkVars == <<cursor, visited, resident, missed>>
holders == <<heap, local, value_, collection_>>
vars == <<holders, walkVars>>

Null == 0
Handle == [type : Types \cup {"Empty"}, impl : 0 .. MaxImpls]
EmptyHandle == [type |-> "Empty", impl |-> Null]
Absent == [type |-> "absent", impl |-> Null]
Destroyed == [type |-> "destroyed", value |-> 0]

Present == {k \in Keys : collection_[k] # Absent}

Init ==
  /\ heap = [i \in 1 .. MaxImpls |-> Destroyed]
  /\ local = [n \in Names |-> EmptyHandle]
  /\ value_ = <<>>
  /\ collection_ = [k \in Keys |-> Absent]
  /\ cursor = 0 /\ visited = <<>> /\ resident = {} /\ missed = {}

-------------------------------------------------------------------------------
(* shared_ptr *)

Held(l, v, c) ==
  {l[n].impl : n \in Names} \cup {v[i].impl : i \in DOMAIN v}
    \cup {c[k].impl : k \in Keys}

\* The handles after a step; what none of them holds is destroyed.
Hold(h, l, v, c) ==
  /\ heap' = [i \in 1 .. MaxImpls |->
                IF i \in Held(l, v, c) THEN h[i] ELSE Destroyed]
  /\ local' = l /\ value_' = v /\ collection_' = c

Free == {i \in 1 .. MaxImpls : heap[i] = Destroyed}

\* new SerializedObjectType(value), and the handle that owns it.  (A handle may
\* also be made not to own; then the program keeps the implementation alive.)
CanAllocate == Free # {}
Fresh(t) == [type |-> t, impl |-> Min(Free)]
WithFresh(t, x) == [heap EXCEPT ![Min(Free)] = [type |-> t, value |-> x]]

-------------------------------------------------------------------------------
(* SerializedObject *)

HoldLocal(h, n, handle) ==
  Hold(h, [local EXCEPT ![n] = handle], value_, collection_) /\ UNCHANGED walkVars

Construct(n, t, x) == CanAllocate /\ HoldLocal(WithFresh(t, x), n, Fresh(t))

\* A default constructor, one from a null pointer, a variable out of scope.
Clear(n) == HoldLocal(heap, n, EmptyHandle)

Copy(n, m) == HoldLocal(heap, n, local[m])

\* The defaulted move copies the tag and takes the pointer.
Move(n, m) ==
  /\ n # m
  /\ Hold(heap,
          [local EXCEPT ![n] = local[m], ![m] = [type |-> local[m].type, impl |-> Null]],
          value_, collection_)
  /\ UNCHANGED walkVars

\* The conversion to SerializedObjectType*.
Cast(handle, t) ==
  IF handle.impl = Null \/ handle.type # t THEN Null ELSE handle.impl

WriteThrough(n, t, x) ==
  /\ Cast(local[n], t) # Null
  /\ HoldLocal([heap EXCEPT ![Cast(local[n], t)].value = x], n, local[n])

\* Mutant: an implementation of the same type is used again.
Parse_InPlace(n, t, x) ==
  /\ CanAllocate
  /\ IF Cast(local[n], t) # Null
     THEN HoldLocal([heap EXCEPT ![Cast(local[n], t)].value = x], n, local[n])
     ELSE HoldLocal(WithFresh(t, x), n, Fresh(t))

\* Mutant: the tag is set, the implementation is not replaced.
Parse_TagOnly(n, t, x) ==
  /\ CanAllocate
  /\ IF local[n].impl # Null
     THEN HoldLocal([heap EXCEPT ![local[n].impl].value = x],
                    n, [local[n] EXCEPT !.type = t])
     ELSE HoldLocal(WithFresh(t, x), n, Fresh(t))

\* The tag and the implementation are new whether the text can be parsed, as
\* x, or not, and x is then 0, the value of the default constructor.
Parse(n, t, x) == CanAllocate /\ HoldLocal(WithFresh(t, x), n, Fresh(t))

ParseEmpty(n) == HoldLocal(heap, n, EmptyHandle)

\* operator==.  It asks twice whether its own pointer is null and never whether
\* the other one alone is: IsEqualTo then is called on a null pointer or casts one.
Equals(h, g) ==
  IF h.type # g.type \/ (h.impl = Null /\ g.impl # Null) THEN "false"
  ELSE IF h.type = "Empty" THEN "true"
  ELSE IF Null \in {h.impl, g.impl} THEN "undefined"
  ELSE IF heap[h.impl].value = heap[g.impl].value THEN "true" ELSE "false"

\* Deserialize replaces nothing unless it succeeds.
Deserialize(n) ==
  \/ \E t \in Types, x \in Values :
       CanAllocate /\ HoldLocal(WithFresh(t, x), n, Fresh(t))
  \/ HoldLocal(heap, n, EmptyHandle)

ObjectStep(n) ==
  \/ Clear(n) \/ ParseEmpty(n)
  \/ \E m \in Names : Copy(n, m) \/ Move(n, m)
  \/ \E t \in Types, x \in Values :
       Construct(n, t, x) \/ WriteThrough(n, t, x) \/ Parse(n, t, x)
  \/ Deserialize(n)

-------------------------------------------------------------------------------
(* SerializedVector *)

HoldVector(v) ==
  /\ Len(v) <= MaxLength
  /\ Hold(heap, local, v, collection_)
  /\ UNCHANGED walkVars

\* What Serialize makes of an object: of a moved-from one the tag alone.
Serialized(h) ==
  <<h.type, IF h.impl = Null THEN <<>> ELSE <<heap[h.impl].value>> >>

Append_(n) == HoldVector(Append(value_, local[n]))

Insert(n, i) == i <= Len(value_) + 1 /\ HoldVector(InsertAt(value_, i, local[n]))

Delete(i) == i \in DOMAIN value_ /\ HoldVector(RemoveAt(value_, i))

Replace_(n, i) ==
  i \in DOMAIN value_ /\ HoldVector([value_ EXCEPT ![i] = local[n]])

Add(n) ==
  HoldVector(IF \E i \in DOMAIN value_ : Serialized(value_[i]) = Serialized(local[n])
             THEN value_ ELSE Append(value_, local[n]))

\* Every element of the same bytes, not only the first.
Remove_(n) ==
  LET kept == {i \in DOMAIN value_ : Serialized(value_[i]) # Serialized(local[n])} IN
  \E place \in [1 .. Cardinality(kept) -> kept] :
    /\ \A i, j \in DOMAIN place : i < j => place[i] < place[j]
    /\ HoldVector([i \in DOMAIN place |-> value_[place[i]]])

VectorStep(n) ==
  \/ Append_(n) \/ Add(n) \/ Remove_(n)
  \/ \E i \in 1 .. MaxLength : Insert(n, i) \/ Delete(i) \/ Replace_(n, i)

-------------------------------------------------------------------------------
(* SerializedCollection *)

HoldKey(h, k, handle) ==
  Hold(h, local, value_, [collection_ EXCEPT ![k] = handle])

SetObject(k, n) == HoldKey(heap, k, local[n]) /\ UNCHANGED walkVars

SetObjectValue(k, t, x) ==
  CanAllocate /\ HoldKey(WithFresh(t, x), k, Fresh(t)) /\ UNCHANGED walkVars

RemoveObject(k) ==
  /\ collection_[k] # Absent
  /\ HoldKey(heap, k, Absent)
  /\ resident' = resident \ {k}
  /\ UNCHANGED <<cursor, visited, missed>>

GetObjectWrapper(k, n) ==
  HoldLocal(heap, n, IF collection_[k] = Absent THEN EmptyHandle ELSE collection_[k])

\* GetObject with a default value: an object of another type, for which the
\* conversion gives nullptr too, makes way for the default.
GetObjectOr(k, t, x) ==
  /\ IF Cast(collection_[k], t) = Null
     THEN CanAllocate /\ HoldKey(WithFresh(t, x), k, Fresh(t))
     ELSE UNCHANGED holders
  /\ UNCHANGED walkVars

CollectionStep(k) ==
  \/ RemoveObject(k)
  \/ \E n \in Names : SetObject(k, n) \/ GetObjectWrapper(k, n)
  \/ \E t \in Types, x \in Values : SetObjectValue(k, t, x) \/ GetObjectOr(k, t, x)

Return(n, k) ==
  /\ Hold(heap, [local EXCEPT ![n] = collection_[k]], value_, collection_)
  /\ cursor' = k
  /\ UNCHANGED missed

GetFirstObject(n) ==
  /\ Present # {}
  /\ Return(n, Min(Present))
  /\ visited' = <<Min(Present)>>
  /\ resident' = Present

Behind == {k \in Present : k > cursor}

\* Mutant: the walk begins anew.
GetNextObject_FromFirst(n) ==
  /\ cursor # 0
  /\ cursor \in Present /\ Behind # {}
  /\ Return(n, Min(Present))
  /\ visited' = Append(visited, Min(Present))
  /\ UNCHANGED resident

GetNextObject(n) ==
  /\ cursor # 0
  /\ cursor \in Present /\ Behind # {}
  /\ Return(n, Min(Behind))
  /\ visited' = Append(visited, Min(Behind))
  /\ UNCHANGED resident

\* false: the name is the last, or it is not there any more.
GetNextObjectFails ==
  /\ cursor # 0
  /\ cursor \notin Present \/ Behind = {}
  /\ missed' = IF cursor \in Present THEN resident \ ToSet(visited) ELSE {}
  /\ cursor' = 0 /\ visited' = <<>> /\ resident' = {}
  /\ UNCHANGED holders

WalkStep == GetNextObjectFails \/ \E n \in Names : GetFirstObject(n) \/ GetNextObject(n)

Next ==
  \/ \E n \in Names : ObjectStep(n) \/ VectorStep(n)
  \/ \E k \in Keys : CollectionStep(k)
  \/ WalkStep

Spec == Init /\ [][Next]_vars

-------------------------------------------------------------------------------
Handles ==
  {local[n] : n \in Names} \cup ToSet(value_) \cup {collection_[k] : k \in Keys}

\* Every conversion static_casts what the tag says, and IsEqualTo casts on the
\* strength of two equal tags: however handles were copied, moved, parsed over
\* and put into containers, a pointer leads to an implementation of its tag
\* that is alive.
CastsSound ==
  \A h \in Handles :
    h.impl # Null => h \in Handle /\ heap[h.impl].type = h.type

ValueOf(h) == IF h.impl = Null THEN Destroyed ELSE heap[h.impl]
ValuesKeep == \A h \in Handles \cap Handles' : ValueOf(h)' = ValueOf(h)

AssignsName(n) ==
  \/ Clear(n) \/ ParseEmpty(n) \/ Deserialize(n) \/ \E m \in Names : Copy(n, m)
  \/ \E t \in Types, x \in Values : Construct(n, t, x) \/ Parse(n, t, x)
  \/ \E k \in Keys : GetObjectWrapper(k, n)
  \/ GetFirstObject(n) \/ GetNextObject(n)
AssignsKey(k) ==
  \/ RemoveObject(k) \/ \E n \in Names : SetObject(k, n)
  \/ \E t \in Types, x \in Values : SetObjectValue(k, t, x) \/ GetObjectOr(k, t, x)

\* "All copies of the same SerializedObject share the same concrete serialized
\* object", and reassigning one "is the same as destroying it and then
\* recreating it" (SerializedObject.hpp:26-31).  Writing through a pointer shows
\* in all copies and is meant to.  No other operation does, be it one that
\* constructs, copies, moves, parses or reads an object, or one of the vector or
\* the collection: a handle the program has before and after it leads to the
\* same value, whatever other handles the operation replaced or destroyed.
CopiesKeepValue ==
  [][ ~ValuesKeep =>
        /\ \A n \in Names : ~(AssignsName(n) \/ VectorStep(n))
        /\ \A n, m \in Names : ~Move(n, m)
        /\ \A k \in Keys : ~AssignsKey(k)
    ]_vars

\* A walk may be interleaved with any change to the collection but the removal
\* of the object it stands on: it returns names in order and none twice, and
\* when it ends none that was there all the time is missing.
WalkComplete ==
  /\ \A i, j \in DOMAIN visited : i < j => visited[i] < visited[j]
  /\ missed = {}

\* A comparison returns "an indication of whether or not the two objects are
\* equivalent" (ISerializedObject.hpp:109-110), for any two objects a program
\* can compare, those it has moved from included.
ComparisonDefined ==
  \A h, g \in Handles \ {Absent} : Equals(h, g) # "undefined"
===============================================================================
