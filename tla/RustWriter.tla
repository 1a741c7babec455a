------------------------------ MODULE RustWriter ------------------------------
(***************************************************************************)
(* to_bytes: the Serialize implementation of a type calls the Serializer   *)
(* along the shape of the type, and every call appends to one buffer.      *)
(***************************************************************************)
EXTENDS RustShapes

CONSTANTS
  Numbers,  \* the integers written (bytes and floats: those below 128)
  Chars,    \* the characters written
  MaxLen    \* bound: elements of a sequence, map or string

\* Numbers, lengths in bytes among them, have two groups at most.
ASSUME LeavesAssumption ==
  /\ \A n \in Numbers : n \in Nat /\ n < 128 * 128
  /\ \A c \in Chars : c \in Nat /\ c < 2048
  /\ MaxLen \in Nat /\ MaxLen < 64 * 128

VARIABLES
  shape,    \* the shape of the type both sides use
  wTodo,    \* the shapes still to be walked
  wTokens,  \* the value walked so far
  buffer    \* the serializer's buffer

walkVars == <<wTodo, wTokens, buffer>>

Walking(kind) == wTodo # <<>> /\ Head(wTodo).kind = kind
Parts == Head(wTodo).parts

\* One call: it carries a token, appends bytes and leaves shapes to be walked.
Put(token, bytes, shapes) ==
  /\ wTokens' = Append(wTokens, token)
  /\ buffer' = buffer \o bytes
  /\ wTodo' = shapes \o Tail(wTodo)

Small == {n \in Numbers : n < 128}

SerializeByte == Walking("byte") /\ \E n \in Small : Put(n, <<n>>, <<>>)

SerializeInt == Walking("int") /\ \E n \in Numbers : Put(n, IntBytes(n), <<>>)

SerializeWide == Walking("wide") /\ \E n \in Small : Put(n, WideBytes(n), <<>>)

SerializeChar == Walking("char") /\ \E c \in Chars : Put(c, CharBytes(c), <<>>)

\* Up to MaxLen times the same character.
SerializeStr ==
  /\ Walking("str")
  /\ \E n \in 0 .. MaxLen, c \in Chars :
       LET text == Copies(n, CharBytes(c)) IN
       Put(text, IntBytes(Len(text)) \o text, <<>>)

SerializeBytes ==
  /\ Walking("bytes")
  /\ \E n \in 0 .. MaxLen, b \in Numbers \cap 0 .. 255 :
       Put(Copies(n, <<b>>), IntBytes(n) \o Copies(n, <<b>>), <<>>)

SerializeOption ==
  /\ Walking("option")
  /\ Put(0, <<0>>, <<>>) \/ Put(1, <<1>>, Parts)

SerializeSeq ==
  /\ Walking("seq")
  /\ \E n \in 0 .. MaxLen : Put(n, IntBytes(n), <<Elements(n, Parts)>>)

\* A map's parts are its key and its value.
SerializeMap ==
  /\ Walking("map")
  /\ \E n \in 0 .. MaxLen : Put(n, IntBytes(n), <<Elements(n, Parts)>>)

\* serialize_element, or serialize_key and serialize_value, or end.
SerializeNext ==
  /\ Walking("elements")
  /\ wTodo' = NextOf(Head(wTodo)) \o Tail(wTodo)
  /\ UNCHANGED <<wTokens, buffer>>

\* Neither the number of fields nor their names travel.
SerializeTuple == Walking("tuple") /\ Put(0, <<>>, Parts)

SerializeVariant ==
  /\ Walking("enum")
  /\ \E i \in DOMAIN Parts : Put(i - 1, IntBytes(i - 1), <<Parts[i]>>)

SerializeCall ==
  \/ SerializeByte \/ SerializeInt \/ SerializeWide \/ SerializeChar
  \/ SerializeStr \/ SerializeBytes \/ SerializeOption \/ SerializeSeq \/ SerializeMap
  \/ SerializeNext \/ SerializeTuple \/ SerializeVariant

\* serialize_seq and serialize_map need to know the length.
LengthRequired == Walking("seq") \/ Walking("map")
===============================================================================
