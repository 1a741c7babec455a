------------------------------ MODULE RustReader ------------------------------
(***************************************************************************)
(* The Deserializer on a slice of a stream: the Deserialize implementation *)
(* of a type asks for what its shape calls for, and every request takes    *)
(* its bytes from the front of what is left, or fails.  What a request     *)
(* took before it failed stays taken.                                      *)
(***************************************************************************)
EXTENDS RustShapes

VARIABLES
  stream,    \* the bytes, of which the slice is a part
  limit,     \* the end of the slice in the stream
  position,  \* what is left of the slice begins here
  rTodo,     \* the shapes still to be walked
  rTokens,   \* the value visited so far
  failed     \* whether a request failed

requestVars == <<position, rTodo, rTokens, failed>>

Left == limit - position
At(i) == stream[position + i]

\* Bound: the numbers of three groups and more are one.  (RustParse is about
\* those that overflow.)
Huge == 128 * 128

\* parse_u64: how much it takes, and the number if it is all there.
IntAt ==
  LET ends == {i \in 1 .. Left : At(i) < 128}
      n == IF ends = {} THEN Left ELSE Min(ends)
      group(i) == At(i) % 128
  IN [ok |-> ends # {}, taken |-> n,
      number |-> IF \E i \in 1 .. n - 2 : group(i) # 0 THEN Huge
                 ELSE (IF n < 2 THEN 0 ELSE group(n - 1) * 128) + group(n)]

Asking(kind) == rTodo # <<>> /\ ~failed /\ Head(rTodo).kind = kind
AskedParts == Head(rTodo).parts

Take(token, n, shapes) ==
  /\ rTokens' = Append(rTokens, token)
  /\ position' = position + n
  /\ rTodo' = shapes \o Tail(rTodo)
  /\ UNCHANGED failed

\* An error, with n bytes gone.
Refuse(n) ==
  /\ failed' = TRUE
  /\ position' = position + n
  /\ UNCHANGED <<rTodo, rTokens>>

DeserializeByte ==
  /\ Asking("byte")
  /\ IF Left > 0 THEN Take(At(1), 1, <<>>) ELSE Refuse(0)

DeserializeInt ==
  /\ Asking("int")
  /\ IF IntAt.ok THEN Take(IntAt.number, IntAt.taken, <<>>)
     ELSE Refuse(IntAt.taken)

\* Mutant: `>` for `>=`.
DeserializeWide_OneMore ==
  /\ Asking("wide")
  /\ IF Left > 2 THEN Take(At(2), 2, <<>>) ELSE Refuse(0)

\* Nothing is taken of a float or a character that is not all there.
DeserializeWide ==
  /\ Asking("wide")
  /\ IF Left >= 2 THEN Take(At(2), 2, <<>>) ELSE Refuse(0)

DeserializeChar ==
  /\ Asking("char")
  /\ LET n == IF Left > 0 /\ At(1) >= 192 THEN 2 ELSE 1 IN
     IF Left < n \/ ~IsUtf8([i \in 1 .. n |-> At(i)]) THEN Refuse(0)
     ELSE Take(IF n = 1 THEN At(1) ELSE (At(1) - 192) * 64 + At(2) - 128,
               n, <<>>)

\* The length stays taken when the bytes are not all there or no text.
TakeBytes(kind) ==
  /\ Asking(kind)
  /\ LET n == IntAt.number
         value == [i \in 1 .. n |-> At(IntAt.taken + i)]
     IN IF IntAt.ok /\ Left - IntAt.taken >= n /\ (kind = "str" => IsUtf8(value))
        THEN Take(value, IntAt.taken + n, <<>>)
        ELSE Refuse(IntAt.taken)

DeserializeStr == TakeBytes("str")
DeserializeBytes == TakeBytes("bytes")

DeserializeOption ==
  /\ Asking("option")
  /\ IF Left = 0 THEN Refuse(0)
     ELSE IF At(1) = 0 THEN Take(0, 1, <<>>) ELSE Take(1, 1, AskedParts)

TakeElements ==
  IF IntAt.ok
  THEN Take(IntAt.number, IntAt.taken, <<Elements(IntAt.number, AskedParts)>>)
  ELSE Refuse(IntAt.taken)

DeserializeSeq == Asking("seq") /\ TakeElements
DeserializeMap == Asking("map") /\ TakeElements

\* next_element_seed, or next_key_seed and next_value_seed: `len` counts down.
DeserializeNext ==
  /\ Asking("elements")
  /\ rTodo' = NextOf(Head(rTodo)) \o Tail(rTodo)
  /\ UNCHANGED <<position, rTokens, failed>>

DeserializeTuple == Asking("tuple") /\ Take(0, 0, AskedParts)

\* The visitor refuses an index the type does not have.
DeserializeEnum ==
  /\ Asking("enum")
  /\ IF IntAt.ok /\ IntAt.number + 1 \in DOMAIN AskedParts
     THEN Take(IntAt.number, IntAt.taken, <<AskedParts[IntAt.number + 1]>>)
     ELSE Refuse(IntAt.taken)

DeserializeRequest ==
  \/ DeserializeByte \/ DeserializeInt \/ DeserializeWide \/ DeserializeChar
  \/ DeserializeStr \/ DeserializeBytes \/ DeserializeOption
  \/ DeserializeSeq \/ DeserializeMap \/ DeserializeNext
  \/ DeserializeTuple \/ DeserializeEnum
===============================================================================
