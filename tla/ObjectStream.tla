----------------------------- MODULE ObjectStream -----------------------------
(***************************************************************************)
(* A file of objects.  A writer serializes one after the other into it;    *)
(* its file may fail a Write or cut it short, and then Serialize puts the  *)
(* position back and the caller tries again, with the same object or with  *)
(* another one.  The writer may die between any two calls of Write.  Then  *)
(* bytes may be damaged, and a reader deserializes objects until it is at  *)
(* the end of the file.                                                    *)
(***************************************************************************)
EXTENDS ObjectReader

CONSTANTS
  Written,      \* the objects written; Objects holds their parts too
  MaxObjects,   \* bound: objects written
  MaxFailures,  \* bound: Writes that fail
  ShortWrites,  \* bound: bytes a Write cut short may leave
  MaxDamages,   \* bound: bytes damaged
  DamageKinds,  \* what damage hits: see DamageAt
  DamageBytes   \* the values it leaves

ASSUME WrittenAssumption == Written \subseteq Objects
ASSUME DamageAssumption ==
  /\ DamageKinds \subseteq {"payload", "typeId", "toEmpty", "typeIdLength"}
  /\ DamageBytes \subseteq Nat

VARIABLES
  mode,              \* "writing", "closed" or "reading"
  wState,            \* "idle", "length", "data" or "failed"
  pending,           \* the object being serialized
  startingPosition,  \* where Serialize began
  wPosition,         \* the writer's position
  failures,          \* Writes failed so far
  frames,            \* history: where each object serialized lies
  torn,              \* history: whether an object was given up for another
  damaged            \* history: which of them were damaged

writerVars == <<wState, pending, startingPosition, wPosition, failures, frames, torn>>
vars == <<file, readerVars, mode, damaged, writerVars>>

Init ==
  /\ file = <<>>
  /\ ReaderInit
  /\ mode = "writing"
  /\ wState = "idle"
  /\ pending = EmptyObject
  /\ startingPosition = 0
  /\ wPosition = 0
  /\ failures = 0
  /\ frames = <<>>
  /\ torn = FALSE
  /\ damaged = {}

-------------------------------------------------------------------------------
(* The writer *)

\* IFile::Write of s at the writer's position.
Write(s) ==
  /\ file' = [i \in 1 .. Len(file) \cup 1 .. (wPosition + Len(s)) |->
                IF i \in wPosition + 1 .. wPosition + Len(s)
                THEN s[i - wPosition] ELSE file[i]]
  /\ wPosition' = wPosition + Len(s)

\* Mutant: no SetPosition.
WriteFails_NoRestore ==
  /\ failures < MaxFailures
  /\ failures' = failures + 1
  /\ wState' = "failed"
  /\ UNCHANGED wPosition

WriteFails ==
  /\ failures < MaxFailures
  /\ failures' = failures + 1
  /\ wState' = "failed"
  /\ wPosition' = startingPosition

Serialize(o) ==
  /\ mode = "writing"
  /\ \/ wState = "idle" /\ Len(frames) < MaxObjects
     \/ wState = "failed"
  /\ torn' = (torn \/ (wState = "failed" /\ o # pending))
  /\ wState' = "length"
  /\ pending' = o
  /\ startingPosition' = wPosition
  /\ UNCHANGED <<file, wPosition, failures, frames, mode, damaged, readerVars>>

WriteLength ==
  /\ mode = "writing"
  /\ wState = "length"
  /\ \/ /\ Write(SubSeq(Frame[pending], 1, 1))
        /\ wState' = "data"
        /\ UNCHANGED failures
     \/ WriteFails /\ UNCHANGED file
  /\ UNCHANGED <<pending, startingPosition, frames, torn, mode, damaged, readerVars>>

WriteData ==
  /\ mode = "writing"
  /\ wState = "data"
  /\ LET objectString == Tail(Frame[pending]) IN
       /\ Write(objectString)
       /\ wState' = "idle"
       /\ frames' = Append(frames, [object |-> pending,
                      start |-> startingPosition, end |-> wPosition'])
  /\ UNCHANGED <<pending, startingPosition, failures, torn, mode, damaged, readerVars>>

\* A short Write leaves a part of the object behind the restored position.
WriteDataShort ==
  /\ mode = "writing"
  /\ wState = "data"
  /\ \E n \in ShortWrites \cap 0 .. Len(Frame[pending]) - 2 :
       file' = [i \in 1 .. Len(file) \cup 1 .. (wPosition + n) |->
                  IF i \in wPosition + 1 .. wPosition + n
                  THEN Frame[pending][i - wPosition + 1] ELSE file[i]]
  /\ WriteFails
  /\ UNCHANGED <<pending, startingPosition, frames, torn, mode, damaged, readerVars>>

\* The writer closes its file, gives up, or dies.
Close ==
  /\ mode = "writing"
  /\ mode' = "closed"
  /\ UNCHANGED <<file, damaged, writerVars, readerVars>>

WriterStep ==
  \/ \E o \in Written : Serialize(o)
  \/ WriteLength \/ WriteData \/ WriteDataShort \/ Close

-------------------------------------------------------------------------------
(* Damage, and the reader *)

\* The bytes of a frame that may change, and into what.  Bytes of a payload
\* include the lengths and type identifiers of the objects in it.
DamageAt(f, kind) ==
  CASE kind = "payload" -> (f.start + 4 .. f.end) \X DamageBytes
    [] kind = "typeId" -> {f.start + 3} \X (DamageBytes \ {TypeId["Empty"]})
    [] kind = "toEmpty" -> {f.start + 3} \X {TypeId["Empty"]}
    [] kind = "typeIdLength" -> {f.start + 2} \X DamageBytes

Damage ==
  /\ mode = "closed"
  /\ Cardinality(damaged) < MaxDamages
  /\ \E k \in DOMAIN frames \ damaged : \E kind \in DamageKinds :
       \E d \in DamageAt(frames[k], kind) :
         /\ file' = [file EXCEPT ![d[1]] = d[2]]
         /\ damaged' = damaged \cup {k}
  /\ UNCHANGED <<mode, writerVars, readerVars>>

Open ==
  /\ mode = "closed"
  /\ mode' = "reading"
  /\ UNCHANGED <<file, damaged, writerVars, readerVars>>

\* The caller deserializes, whatever came of it, until the end of the file.
Deserialize ==
  /\ mode = "reading"
  /\ \/ Call /\ position < Len(file)
     \/ ReaderStep
  /\ UNCHANGED <<file, mode, damaged, writerVars>>

Next == WriterStep \/ Damage \/ Open \/ Deserialize

Spec == Init /\ [][Next]_vars

FairSpec == Spec /\ WF_vars(Open) /\ WF_vars(Deserialize)

-------------------------------------------------------------------------------
\* The types of both sides; every call but the innermost waits for a part it
\* still expects.
TypeOK ==
  /\ file \in Seq(Nat)
  /\ position \in Nat
  /\ wPosition \in 0 .. Len(file)
  /\ startingPosition \in 0 .. wPosition
  /\ mode \in {"writing", "closed", "reading"}
  /\ wState \in {"idle", "length", "data", "failed"}
  /\ \A i \in DOMAIN calls :
       /\ calls[i].phase \in {"length", "typeId", "payload", "parts", "verify",
                              "failed"}
       /\ calls[i].type \in KnownTypes
       /\ calls[i].left \in Nat
       /\ i < Len(calls) => calls[i].phase = "parts" /\ calls[i].left > 0
  /\ damaged \subseteq DOMAIN frames

\* Every top-level call, successful or not, leaves the reader where the next
\* frame begins, however the vectors and collections in it went wrong: the
\* length is used "to skip beyond this object, to aid in recovering data
\* beyond the object" (SerializedObject.cpp:280-281).
Resynchronizes ==
  mode = "reading" /\ calls = <<>> /\ Len(received) \in DOMAIN frames
    => position = frames[Len(received)].end

\* Whether a reader can have an object: it was not moved from, and this version
\* knows the types of it and of all the objects in it.  One part it cannot have
\* fails the whole vector or collection.
Readable[o \in Objects] ==
  /\ o.type \in KnownTypes
  /\ o.type \in {"Boolean", "IpAddress"} => o.bytes # <<>>
  /\ \A i \in DOMAIN o.parts : Readable[o.parts[i].value]

Reading(o) == IF Readable[o] THEN [ok |-> TRUE, object |-> o] ELSE Failure

Log == INSTANCE RecordLog WITH
  Records <- Written, NoReading <- Failure,
  log <- [i \in DOMAIN frames |-> frames[i].object],
  sealed <- (mode # "writing"), taken <- received

\* The framing implements the log of records: each object whose Serialize
\* returned true is read back equal and in its place, whatever was written
\* short, left behind by a crash, unknown or damaged around it; and unless the
\* writer turned to another object after a failure, so that the remains of the
\* first may lie behind the last frame, there is nothing else to be read.
ImplementsLog == Log!SafeSpec

\* Once the writer is gone, a reader that keeps calling Deserialize gets past
\* every frame: no count, length or key, damaged or cut off, holds it up.
ReadsOn == Log!Progress
===============================================================================
