----------------------------- MODULE ObjectFormat -----------------------------
(***************************************************************************)
(* The self-describing frame SerializedObject::Serialize builds in a       *)
(* StringFile: the length of the rest, the identifier string of the type,  *)
(* the payload.  Vectors and collections hold frames in their payloads.    *)
(*                                                                         *)
(* A file is a sequence of byte values.  Every length and count is below   *)
(* 0x80, so its varint is the one byte with that value, and so is every    *)
(* number in a vector of integers.  IpAddress stands for the values copied *)
(* as they lie in memory (Decimal too), with AddressSize bytes, Boolean    *)
(* for one byte (and the integers of one byte).                            *)
(***************************************************************************)
EXTENDS Integers, Sequences, FiniteSets, SequencesExt

\* TYPE_ID_...: one character each.  "Unknown" is the type of a later version.
TypeId ==
  [Empty |-> 31, Boolean |-> 32, String |-> 33, Vector |-> 34,
   Collection |-> 35, Unknown |-> 36, IpAddress |-> 37, IntegerVector |-> 38,
   UnsignedIntegerVector |-> 39]

KnownTypes == DOMAIN TypeId \ {"Unknown"}

AddressSize == 2  \* sizeof(value_), scaled

\* An object: the bytes of a scalar, none if it was moved from; the parts of a
\* vector (with empty keys) or a collection.
Object(type, bytes, parts) == [type |-> type, bytes |-> bytes, parts |-> parts]

EmptyObject == Object("Empty", <<>>, <<>>)

CONSTANT Objects  \* the objects written, and those inside them

\* No object holds itself, not even through others.
ASSUME ObjectsAssumption ==
  /\ \A o \in Objects :
       /\ o.type \in DOMAIN TypeId
       /\ o.bytes \in Seq(Nat) /\ (o.type = "Empty" => o.bytes = <<>>)
       /\ o.parts \in Seq([key : Seq(Nat), value : Objects])
  /\ \A S \in (SUBSET Objects) \ {{}} :
       \E o \in S : \A i \in DOMAIN o.parts : o.parts[i].value \notin S

\* What their classes can hold: bool is written as 0 or 1, a value in memory with
\* all its bytes; only collections have keys, and std::map has each one once.
ASSUME ShapesAssumption ==
  \A o \in Objects :
    /\ o = Object(o.type, o.bytes, o.parts)
    /\ o.type \in {"Vector", "Collection"} => o.bytes = <<>>
    /\ o.type \notin {"Vector", "Collection"} => o.parts = <<>>
    /\ o.type = "Boolean" => o.bytes \in {<<>>, <<0>>, <<1>>}
    /\ o.type = "IpAddress" => o.bytes = <<>> \/ Len(o.bytes) = AddressSize
    /\ o.type = "Vector" => \A i \in DOMAIN o.parts : o.parts[i].key = <<>>
    /\ o.type = "Collection" =>
         \A i, j \in DOMAIN o.parts : o.parts[i].key = o.parts[j].key => i = j

\* SerializedString::Serialize
StringBytes(s) == <<Len(s)>> \o s

\* The counts, and what Serialize made of the parts.
VectorBytes(parts) == <<Len(parts)>> \o FlattenSeq(parts)
CollectionBytes(keys, parts) ==
  <<Len(parts)>> \o FlattenSeq([i \in DOMAIN parts |-> StringBytes(keys[i]) \o parts[i]])

\* A length or count, and that many bytes.
Counted == {"String", "IntegerVector", "UnsignedIntegerVector"}

\* The frame of an object whose parts have these frames.
FrameOf(o, parts) ==
  LET keys == [i \in DOMAIN o.parts |-> o.parts[i].key]
      payload ==
        CASE o.type \in Counted -> StringBytes(o.bytes)
          [] o.type = "Vector" -> VectorBytes(parts)
          [] o.type = "Collection" -> CollectionBytes(keys, parts)
          [] OTHER -> o.bytes
      objectString == StringBytes(<<TypeId[o.type]>>) \o payload
  IN StringBytes(objectString)

Frame[o \in Objects] ==
  FrameOf(o, [i \in DOMAIN o.parts |-> Frame[o.parts[i].value]])

ASSUME LengthAssumption == \A o \in Objects : Len(Frame[o]) < TypeId["Empty"]
===============================================================================
