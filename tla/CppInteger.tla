------------------------------- MODULE CppInteger -------------------------------
(***************************************************************************)
(* How the C++ library writes and reads one integer: SerializedInteger     *)
(* holds an int, SerializedUnsignedInteger a uint64_t.  The writer fills a *)
(* buffer and hands it to the file in one Write, which may be short.  The  *)
(* reader takes one byte per Read and never checks for overflow: the value *)
(* wraps at the width of its type.                                         *)
(***************************************************************************)
EXTENDS VarintFormat

CONSTANT IntMax  \* INT_MAX

ASSUME IntAssumption == IntMax \in SMaxes

CppTypes == {[signed |-> TRUE, max |-> IntMax], [signed |-> FALSE, max |-> UMax]}

VARIABLES
  cwState,        \* "call", "split", "emit", "write", "true" or "false"
  bits,           \* the writer's local value, its bits read as unsigned
  bytes,          \* std::stack of groups, sign and all
  serialization,  \* the buffer to be written
  file,           \* what Write left in the file
  crState,        \* "first", "loop", "true" or "false"
  position,       \* bytes the reader has taken
  crMore,         \* continuation bit of the last byte
  crNegative,     \* sign bit of the first byte
  value_          \* the reader's member value_

cwVars == <<cwState, bits, bytes, serialization, file>>
crVars == <<crState, position, crMore, crNegative, value_>>

CppInit ==
  /\ cwState = "call" /\ bits = 0
  /\ bytes = <<>> /\ serialization = <<>> /\ file = <<>>
  /\ crState = "first" /\ position = 0
  /\ crMore = TRUE /\ crNegative = FALSE /\ value_ = 0

-------------------------------------------------------------------------------
(* Serialize *)

\* `value_ < 0 ? -value_ : value_`; the negation of INT_MIN wraps to its own
\* bits, which are those of its magnitude.
CppBegin ==
  /\ cwState = "call"
  /\ cwState' = "split"
  /\ bits' = IF input < 0 THEN -input ELSE input
  /\ UNCHANGED <<bytes, serialization, file>>

\* One turn of the while loop of the signed form.
CppPushSigned ==
  /\ cwState = "split"
  /\ ty.signed
  /\ bits >= Half
  /\ bytes' = Append(bytes, bits % Group)
  /\ bits' = bits \div Group
  /\ UNCHANGED <<cwState, serialization, file>>

CppPushSign ==
  /\ cwState = "split"
  /\ ty.signed
  /\ bits < Half
  /\ bytes' = Append(bytes, IF input < 0 THEN bits + Half ELSE bits)
  /\ cwState' = "emit"
  /\ UNCHANGED <<bits, serialization, file>>

\* One turn of the do-while loop of the unsigned form.
CppPushUnsigned ==
  /\ cwState = "split"
  /\ ~ty.signed
  /\ bytes' = Append(bytes, bits % Group)
  /\ bits' = bits \div Group
  /\ cwState' = IF bits' > 0 THEN "split" ELSE "emit"
  /\ UNCHANGED <<serialization, file>>

\* Mutant: no continuation bits.
CppEmit_NoMore ==
  /\ cwState = "emit"
  /\ bytes' = SubSeq(bytes, 1, Len(bytes) - 1)
  /\ serialization' = Append(serialization,
       [more |-> FALSE, low |-> bytes[Len(bytes)]])
  /\ cwState' = IF bytes' # <<>> THEN "emit" ELSE "write"
  /\ UNCHANGED <<bits, file>>

CppEmit ==
  /\ cwState = "emit"
  /\ bytes' = SubSeq(bytes, 1, Len(bytes) - 1)
  /\ serialization' = Append(serialization,
       [more |-> bytes' # <<>>, low |-> bytes[Len(bytes)]])
  /\ cwState' = IF bytes' # <<>> THEN "emit" ELSE "write"
  /\ UNCHANGED <<bits, file>>

\* IFile::Write returns how many bytes it wrote.
CppWrite ==
  /\ cwState = "write"
  /\ \E n \in 0 .. Len(serialization) :
       /\ file' = SubSeq(serialization, 1, n)
       /\ cwState' = IF n = Len(serialization) THEN "true" ELSE "false"
  /\ UNCHANGED <<bits, bytes, serialization>>

CppWriterNext ==
  \/ CppBegin \/ CppPushSigned \/ CppPushSign \/ CppPushUnsigned
  \/ CppEmit \/ CppWrite

-------------------------------------------------------------------------------
(* Deserialize *)

\* Mutants: a wider member; a member that saturates.
Wrap_Wider(n) == n
Wrap_Saturating(n) ==
  IF n > ty.max THEN ty.max
  ELSE IF ty.signed /\ n < -(ty.max + 1) THEN -(ty.max + 1) ELSE n

\* Arithmetic of the member's type, modulo its width.
Wrap(n) ==
  IF ty.signed
  THEN ((n + ty.max + 1) % (2 * (ty.max + 1))) - (ty.max + 1)
  ELSE n % (ty.max + 1)

\* Mutant: the sign bit stays in the value.
CppReadFirst_KeepsSign ==
  /\ crState = "first"
  /\ position < Len(wire)
  /\ LET b == wire[position + 1] IN
       /\ crMore' = b.more
       /\ crNegative' = IsNegative(b)
       /\ value_' = b.low
  /\ position' = position + 1
  /\ crState' = "loop"

CppReadFirst ==
  /\ crState = "first"
  /\ position < Len(wire)
  /\ LET b == wire[position + 1] IN
       /\ crMore' = b.more
       /\ crNegative' = IsNegative(b)
       /\ value_' = FirstGroup(b)
  /\ position' = position + 1
  /\ crState' = "loop"

CppReadNext ==
  /\ crState = "loop"
  /\ crMore
  /\ position < Len(wire)
  /\ crMore' = wire[position + 1].more
  /\ value_' = Wrap(value_ * Group + wire[position + 1].low)
  /\ position' = position + 1
  /\ UNCHANGED <<crState, crNegative>>

CppReadShort ==
  /\ crState = "first" \/ (crState = "loop" /\ crMore)
  /\ position = Len(wire)
  /\ crState' = "false"
  /\ UNCHANGED <<position, crMore, crNegative, value_>>

\* Mutant: the sign is forgotten.
CppFinish_Positive ==
  /\ crState = "loop"
  /\ ~crMore
  /\ crState' = "true"
  /\ UNCHANGED <<position, crMore, crNegative, value_>>

CppFinish ==
  /\ crState = "loop"
  /\ ~crMore
  /\ value_' = IF crNegative THEN Wrap(-value_) ELSE value_
  /\ crState' = "true"
  /\ UNCHANGED <<position, crMore, crNegative>>

CppReaderNext == CppReadFirst \/ CppReadNext \/ CppReadShort \/ CppFinish
===============================================================================
