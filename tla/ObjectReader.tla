----------------------------- MODULE ObjectReader -----------------------------
(***************************************************************************)
(* SerializedObject::Deserialize with the Deserialize of the vectors and   *)
(* collections it calls and that call it back, as a stack of activation    *)
(* records.  A call that fails deletes what it had built; a call whose     *)
(* payload failed, or did not end where the length says, skips to there.   *)
(***************************************************************************)
EXTENDS ObjectFormat

VARIABLES
  file,      \* the bytes of the file
  position,  \* the reader's position in it; it may lie behind the end
  calls,     \* activation records, the innermost last
  received   \* history: what the outermost calls returned

readerVars == <<position, calls, received>>

ReaderInit ==
  /\ position = 0
  /\ calls = <<>>
  /\ received = <<>>

NewCall ==
  [phase |-> "length", end |-> 0, type |-> "Empty", left |-> 0, key |-> <<>>,
   bytes |-> <<>>, parts |-> <<>>]

Failure == [ok |-> FALSE, object |-> EmptyObject]

\* IFile::Read moves the position by what it could read.
Available(p) == IF p < Len(file) THEN Len(file) - p ELSE 0

\* SerializedString::Deserialize at p: whether it succeeds, where it leaves
\* the position, the string it got.
ReadString(p) ==
  LET length == IF Available(p) > 0 THEN file[p + 1] ELSE 0
      got == IF Available(p + 1) < length THEN Available(p + 1) ELSE length
  IN [ok |-> Available(p) > 0 /\ got = length,
      next |-> IF Available(p) = 0 THEN p ELSE p + 1 + got,
      value |-> SubSeq(file, p + 2, p + 1 + got)]

Top == calls[Len(calls)]
SetTop(c) == calls' = [calls EXCEPT ![Len(calls)] = c]

In(phase) == calls # <<>> /\ Top.phase = phase

\* std::map assignment: a key seen before is replaced.
PutPart(c, o) ==
  IF c.type = "Collection" /\ \E i \in DOMAIN c.parts : c.parts[i].key = c.key
  THEN [i \in DOMAIN c.parts |->
          IF c.parts[i].key = c.key THEN [key |-> c.key, value |-> o]
          ELSE c.parts[i]]
  ELSE Append(c.parts, [key |-> c.key, value |-> o])

WithPart(c, o) == [c EXCEPT !.parts = PutPart(c, o), !.left = c.left - 1]

ReturnTrue(o) ==
  LET outer == Front(calls) IN
  IF outer = <<>>
  THEN /\ calls' = <<>>
       /\ received' = Append(received, [ok |-> TRUE, object |-> o])
  ELSE /\ calls' = [outer EXCEPT ![Len(outer)] = WithPart(@, o)]
       /\ UNCHANGED received

\* False to the caller, which has failed too; it deletes its new object.
ReturnFalse ==
  LET outer == Front(calls) IN
  IF outer = <<>>
  THEN calls' = <<>> /\ received' = Append(received, Failure)
  ELSE /\ calls' = [outer EXCEPT ![Len(outer)].phase = "failed"]
       /\ UNCHANGED received

Call ==
  /\ calls = <<>>
  /\ calls' = <<NewCall>>
  /\ UNCHANGED <<position, received>>

ReadLength ==
  /\ In("length")
  /\ IF Available(position) > 0
     THEN /\ position' = position + 1
          /\ SetTop([Top EXCEPT !.phase = "typeId",
                                !.end = position + 1 + file[position + 1]])
          /\ UNCHANGED received
     ELSE ReturnFalse /\ UNCHANGED position

\* A type identifier cut off by the end of the file returns at once, without
\* the skip.
ReadTypeIdFails ==
  /\ In("typeId")
  /\ ~ReadString(position).ok
  /\ position' = ReadString(position).next
  /\ ReturnFalse

\* So does the Empty type, without the verification.
ReadEmpty ==
  /\ In("typeId")
  /\ ReadString(position).ok
  /\ ReadString(position).value = <<TypeId["Empty"]>>
  /\ position' = ReadString(position).next
  /\ ReturnTrue(EmptyObject)

ReadTypeId ==
  /\ In("typeId")
  /\ ReadString(position).ok
  /\ \E t \in KnownTypes \ {"Empty"} :
       /\ ReadString(position).value = <<TypeId[t]>>
       /\ SetTop([Top EXCEPT !.phase = "payload", !.type = t])
  /\ position' = ReadString(position).next
  /\ UNCHANGED received

ReadUnknownTypeId ==
  /\ In("typeId")
  /\ ReadString(position).ok
  /\ \A t \in KnownTypes : ReadString(position).value # <<TypeId[t]>>
  /\ SetTop([Top EXCEPT !.phase = "failed"])
  /\ position' = ReadString(position).next
  /\ UNCHANGED received

ReadBoolean ==
  /\ In("payload")
  /\ Top.type = "Boolean"
  /\ IF Available(position) > 0
     THEN /\ position' = position + 1
          /\ SetTop([Top EXCEPT !.phase = "verify",
                       !.bytes = IF file[position + 1] = 0 THEN <<0>> ELSE <<1>>])
     ELSE SetTop([Top EXCEPT !.phase = "failed"]) /\ UNCHANGED position
  /\ UNCHANGED received

\* A payload read in one go, well or not: where it ends and what it was.
Payload(type, read) ==
  /\ In("payload")
  /\ Top.type = type
  /\ position' = read.next
  /\ SetTop(IF read.ok THEN [Top EXCEPT !.phase = "verify", !.bytes = read.value]
            ELSE [Top EXCEPT !.phase = "failed"])
  /\ UNCHANGED received

ReadStringPayload == Payload("String", ReadString(position))

\* Read into the value itself: a short one is an error, and consumed.
ReadIpAddress ==
  LET got == IF Available(position) < AddressSize THEN Available(position) ELSE AddressSize
  IN Payload("IpAddress",
       [ok |-> got = AddressSize, next |-> position + got,
        value |-> SubSeq(file, position + 1, position + got)])

\* The count, and numbers until they are read or the file ends.
ReadNumbers(type) ==
  LET count == IF Available(position) > 0 THEN file[position + 1] ELSE 0
      numbers == {i \in 1 .. count : i <= Available(position) - 1}
  IN Payload(type,
       [ok |-> Available(position) > 0 /\ Cardinality(numbers) = count,
        next |-> position + (IF Available(position) > 0 THEN 1 ELSE 0) + Cardinality(numbers),
        value |-> [i \in numbers |-> file[position + 1 + i]]])

ReadIntegerVector == ReadNumbers("IntegerVector")
ReadUnsignedIntegerVector == ReadNumbers("UnsignedIntegerVector")

ReadCount ==
  /\ In("payload")
  /\ Top.type \in {"Vector", "Collection"}
  /\ IF Available(position) > 0
     THEN /\ position' = position + 1
          /\ SetTop([Top EXCEPT !.phase = "parts", !.left = file[position + 1]])
     ELSE SetTop([Top EXCEPT !.phase = "failed"]) /\ UNCHANGED position
  /\ UNCHANGED received

\* Mutant: `i <= numSerializedObjects`.
ReadVectorPart_OneMore ==
  /\ In("parts")
  /\ Top.type = "Vector"
  /\ Top.left >= 0
  /\ calls' = Append(calls, NewCall)
  /\ UNCHANGED <<position, received>>

ReadVectorPart ==
  /\ In("parts")
  /\ Top.type = "Vector"
  /\ Top.left > 0
  /\ calls' = Append(calls, NewCall)
  /\ UNCHANGED <<position, received>>

\* Mutant: a key that cannot be read is tried again.
ReadCollectionPart_Retry ==
  /\ In("parts")
  /\ Top.type = "Collection"
  /\ Top.left > 0
  /\ LET key == ReadString(position) IN
       /\ position' = key.next
       /\ calls' = IF key.ok
                   THEN Append([calls EXCEPT ![Len(calls)].key = key.value], NewCall)
                   ELSE calls
  /\ UNCHANGED received

ReadCollectionPart ==
  /\ In("parts")
  /\ Top.type = "Collection"
  /\ Top.left > 0
  /\ LET key == ReadString(position) IN
       /\ position' = key.next
       /\ IF key.ok
          THEN calls' = Append(
                 [calls EXCEPT ![Len(calls)].key = key.value], NewCall)
          ELSE SetTop([Top EXCEPT !.phase = "failed"])
  /\ UNCHANGED received

EndParts ==
  /\ In("parts")
  /\ Top.left = 0
  /\ SetTop([Top EXCEPT !.phase = "verify"])
  /\ UNCHANGED <<position, received>>

\* Mutant: the length is not verified.
VerifyLength_Never ==
  /\ In("verify")
  /\ ReturnTrue(Object(Top.type, Top.bytes, Top.parts))
  /\ UNCHANGED position

VerifyLength ==
  /\ In("verify")
  /\ IF position = Top.end
     THEN ReturnTrue(Object(Top.type, Top.bytes, Top.parts))
     ELSE SetTop([Top EXCEPT !.phase = "failed"]) /\ UNCHANGED received
  /\ UNCHANGED position

Skip ==
  /\ In("failed")
  /\ position' = Top.end
  /\ ReturnFalse

ReaderStep ==
  \/ ReadLength \/ ReadTypeIdFails \/ ReadEmpty \/ ReadTypeId
  \/ ReadUnknownTypeId \/ ReadBoolean \/ ReadStringPayload \/ ReadIpAddress
  \/ ReadIntegerVector \/ ReadUnsignedIntegerVector \/ ReadCount
  \/ ReadVectorPart \/ ReadCollectionPart \/ EndParts \/ VerifyLength \/ Skip
===============================================================================
