------------------------------ MODULE RustStream ------------------------------
(***************************************************************************)
(* A stream of values of one type.  The sender calls to_bytes for each and *)
(* sends the bytes; they arrive in pieces of any length.  With each piece   *)
(* the receiver iterates over what it holds until the StreamDeserializer   *)
(* yields None or an error, then drops the bytes before its offset() and   *)
(* keeps the rest for the next time.  The medium may spoil a byte.         *)
(***************************************************************************)
EXTENDS RustWriter, RustReader

CONSTANTS
  Streamed,    \* the types to stream
  MaxValues,   \* bound: values sent
  Flips        \* what the medium adds to one byte: 128 flips its first bit

ASSUME StreamAssumption ==
  Streamed \subseteq Shapes /\ MaxValues \in Nat /\ Flips \subseteq Nat

VARIABLES
  wState,   \* the sender: "idle" or "walking"
  values,   \* history: the values sent
  ends,     \* history: where each ends in the stream
  broken,   \* history: the number of the value with a spoilt byte, 0 for none
  rState,   \* "waiting", "iterating" (between two calls of next) or "value"
  base,     \* bytes dropped
  offset,   \* StreamDeserializer::offset, from the start of the stream
  items     \* the values yielded

senderVars == <<shape, walkVars, stream, wState, values, ends>>
receiverVars == <<requestVars, limit, rState, base, offset, items>>
vars == <<senderVars, broken, receiverVars>>

Init ==
  /\ shape \in Streamed
  /\ wTodo = <<>> /\ wTokens = <<>> /\ buffer = <<>>
  /\ stream = <<>> /\ wState = "idle" /\ values = <<>> /\ ends = <<>>
  /\ broken = 0
  /\ position = 0 /\ rTodo = <<>> /\ rTokens = <<>> /\ failed = FALSE
  /\ limit = 0 /\ rState = "waiting" /\ base = 0 /\ offset = 0 /\ items = <<>>

-------------------------------------------------------------------------------
(* The sender *)

ToBytes ==
  /\ wState = "idle"
  /\ Len(values) < MaxValues
  /\ wState' = "walking"
  /\ wTodo' = <<shape>>
  /\ wTokens' = <<>>
  /\ buffer' = <<>>
  /\ UNCHANGED <<shape, stream, values, ends, broken, receiverVars>>

Call ==
  /\ wState = "walking"
  /\ SerializeCall
  /\ UNCHANGED <<shape, stream, wState, values, ends, broken, receiverVars>>

\* An iterator of unknown length: to_bytes fails and drops what is written.
CallFails ==
  /\ wState = "walking"
  /\ LengthRequired
  /\ wState' = "idle"
  /\ wTodo' = <<>>
  /\ UNCHANGED <<shape, wTokens, buffer, stream, values, ends, broken,
                 receiverVars>>

Send ==
  /\ wState = "walking"
  /\ wTodo = <<>>
  /\ wState' = "idle"
  /\ stream' = stream \o buffer
  /\ values' = Append(values, wTokens)
  /\ ends' = Append(ends, Len(stream'))
  /\ UNCHANGED <<shape, walkVars, broken, receiverVars>>

\* Bound: one byte, on the way when all are sent and none has arrived; what it
\* was before cannot be told from what arrives.
Spoil ==
  /\ Len(values) = MaxValues /\ limit = 0 /\ broken = 0
  /\ \E i \in DOMAIN stream, d \in Flips :
       /\ stream' = [stream EXCEPT ![i] = (@ + d) % 256]
       /\ broken' = Min({n \in DOMAIN ends : i <= ends[n]})
  /\ UNCHANGED <<shape, walkVars, wState, values, ends, receiverVars>>

-------------------------------------------------------------------------------
(* The receiver *)

\* Mutant: the offset starts over.
Iterate_FromZero ==
  /\ rState = "waiting"
  /\ rState' = "iterating"
  /\ limit' \in limit + 1 .. Len(stream)
  /\ position' = base
  /\ offset' = 0
  /\ failed' = FALSE
  /\ UNCHANGED <<senderVars, broken, rTodo, rTokens, base, items>>

\* Deserializer::new(..).iterate() over what was kept and what came since.
Iterate ==
  /\ rState = "waiting"
  /\ rState' = "iterating"
  /\ limit' \in limit + 1 .. Len(stream)
  /\ position' = base
  /\ offset' = base
  /\ failed' = FALSE
  /\ UNCHANGED <<senderVars, broken, rTodo, rTokens, base, items>>

StopIterating == rState' = "waiting" /\ base' = offset

Next_None ==
  /\ rState = "iterating"
  /\ Left = 0
  /\ StopIterating
  /\ UNCHANGED <<senderVars, broken, requestVars, limit, offset, items>>

Next_Begin ==
  /\ rState = "iterating"
  /\ Left > 0
  /\ rState' = "value"
  /\ rTodo' = <<shape>>
  /\ rTokens' = <<>>
  /\ UNCHANGED <<senderVars, broken, position, failed, limit, base, offset,
                 items>>

Request ==
  /\ rState = "value"
  /\ DeserializeRequest
  /\ UNCHANGED <<senderVars, broken, limit, rState, base, offset, items>>

Next_Ok ==
  /\ rState = "value"
  /\ rTodo = <<>>
  /\ rState' = "iterating"
  /\ offset' = position
  /\ items' = Append(items, rTokens)
  /\ UNCHANGED <<senderVars, broken, requestVars, limit, base>>

\* Mutant: the offset moves behind what the failed value took.
Next_Err_Advances ==
  /\ rState = "value"
  /\ failed
  /\ rState' = "waiting"
  /\ offset' = position
  /\ base' = position
  /\ UNCHANGED <<senderVars, broken, requestVars, limit, items>>

Next_Err ==
  /\ rState = "value"
  /\ failed
  /\ StopIterating
  /\ UNCHANGED <<senderVars, broken, requestVars, limit, offset, items>>

Sender == ToBytes \/ Call \/ CallFails \/ Send
Receiver == Iterate \/ Next_None \/ Next_Begin \/ Request \/ Next_Ok \/ Next_Err

Next == Sender \/ Spoil \/ Receiver

Spec == Init /\ [][Next]_vars

FairSpec == Spec /\ WF_vars(Receiver)

-------------------------------------------------------------------------------
\* The positions of both sides are in order, the dropped bytes before the
\* offset before the request before the slice's end.
TypeOK ==
  /\ 0 <= base /\ base <= offset /\ offset <= position
  /\ position <= limit /\ limit <= Len(stream)
  /\ \A i \in DOMAIN stream : stream[i] \in 0 .. 255
  /\ wState \in {"idle", "walking"}
  /\ rState \in {"waiting", "iterating", "value"}

\* The values before the first that is spoilt; what comes of that one, and of
\* bytes read from its end on, nobody knows.
Intact(n) == broken = 0 \/ n < broken

\* offset() is the end of the last value yielded, however many bytes a value
\* that is not all there has already taken: what the receiver keeps begins
\* with a whole value's first byte (tested only for one u8 and half an int,
\* de.rs:1253-1262).
OffsetAtBoundary ==
  Intact(Len(items)) => offset = IF items = <<>> THEN 0 ELSE ends[Len(items)]

\* A value is refused only if it is not all there, or spoilt.
RefusedOnlyIfCut ==
  failed /\ rState = "value" /\ Intact(Len(items) + 1) =>
    \/ Len(items) = Len(ends)
    \/ ends[Len(items) + 1] > limit

Channel == INSTANCE ValueChannel WITH sent <- values, received <- items

\* The receiver gets every value once, in order and unchanged, wherever the
\* stream was broken into pieces, up to the one that was spoilt.
ImplementsChannel == Channel!Spec
===============================================================================
