----------------------------- MODULE VarintInterop -----------------------------
(***************************************************************************)
(* The two implementations side by side.  Both write the same integer and  *)
(* the bytes one of them left reach both readers; or both readers are      *)
(* given bytes neither wrote, overlong, truncated or out of range.  Rust's *)
(* i32 faces the C++ int, its u64 the uint64_t.                            *)
(***************************************************************************)
EXTENDS RustSerializer, RustDeserializer, CppInteger

CONSTANT MaxWire  \* bound: longest slice neither wrote

VARIABLE source  \* "none", or whose bytes the readers are given

rustVars == <<serVars, deVars>>
cppVars == <<cwVars, crVars>>
vars == <<ty, input, wire, source, rustVars, cppVars>>

Wires == UNION {[1 .. n -> Byte] : n \in 0 .. MaxWire}

Init ==
  /\ ty \in CppTypes
  /\ \/ input \in ValuesOf(ty) /\ wire = <<>> /\ source = "none"
     \/ input = 0 /\ wire \in Wires /\ source = "neither"
  /\ SerInit /\ DeInit /\ CppInit

RustWrites ==
  /\ source = "none"
  /\ SerNext
  /\ UNCHANGED <<ty, input, wire, source, deVars, cppVars>>

CppWrites ==
  /\ source = "none"
  /\ serState = "done"
  /\ CppWriterNext
  /\ UNCHANGED <<ty, input, wire, source, rustVars, crVars>>

RustToBoth ==
  /\ source = "none"
  /\ cwState \in {"true", "false"}
  /\ source' = "rust"
  /\ wire' = out
  /\ UNCHANGED <<ty, input, rustVars, cppVars>>

\* Whatever a Write left in the file, short or not.
CppToBoth ==
  /\ source = "none"
  /\ cwState \in {"true", "false"}
  /\ source' = "cpp"
  /\ wire' = file
  /\ UNCHANGED <<ty, input, rustVars, cppVars>>

RustReads ==
  /\ source # "none"
  /\ DeNext
  /\ UNCHANGED <<ty, input, wire, source, serVars, cppVars>>

\* The readers share nothing but the slice, so their order is free.
CppReads ==
  /\ source # "none"
  /\ deState \in {"ok", "err"}
  /\ CppReaderNext
  /\ UNCHANGED <<ty, input, wire, source, rustVars, cwVars>>

Next ==
  \/ RustWrites \/ CppWrites \/ RustToBoth \/ CppToBoth
  \/ RustReads \/ CppReads

Spec == Init /\ [][Next]_vars

-------------------------------------------------------------------------------
\* Types of the C++ side (the Rust side's are in RustIntegers).
CppTypeOK ==
  /\ cwState \in {"call", "split", "emit", "write", "true", "false"}
  /\ bits \in 0 .. UMax
  /\ bytes \in Seq(0 .. Group - 1)
  /\ serialization \in Seq(Byte)
  /\ file \in Seq(Byte)
  /\ crState \in {"first", "loop", "true", "false"}
  /\ position \in 0 .. Len(wire)
  /\ crMore \in BOOLEAN
  /\ crNegative \in BOOLEAN
  /\ value_ \in ValuesOf(ty)

\* A do-while over 7-bit groups, a while over all but 6 bits and a single Rust
\* loop for both spell every value alike: a Write that succeeded left in the
\* file byte for byte what to_bytes returned.
SameBytes == cwState = "true" => file = out

\* Whichever side wrote the value, both sides read it back and stop behind the
\* same byte; a short Write is noticed by its writer and by both readers.
SameReading ==
  LET whole == source = "rust" \/ (source = "cpp" /\ cwState = "true") IN
  source \in {"rust", "cpp"} =>
    /\ deState = "ok" => whole /\ result = input /\ offset = Len(wire)
    /\ crState = "true" => whole /\ value_ = input /\ position = Len(wire)
    /\ whole => deState # "err" /\ crState # "false"

\* What Rust accepts, C++ accepts, as the same number and up to the same byte;
\* what C++ cannot read, Rust reports as truncated; C++ accepts more than Rust
\* only where Rust reports an overflow.
ReadersAgree ==
  crState \in {"true", "false"} =>
    CASE deState = "ok" ->
           crState = "true" /\ value_ = result /\ position = offset
      [] error = "ValueTruncated" -> crState = "false"
      [] error = "IntegerOverflow" -> position >= offset

\* A number C++ accepts where Rust reports an overflow is the spelled one
\* reduced modulo the width of the type: only the low groups survive, so the
\* result is a function of the last bytes, never of stale state.
WrapsToLowBits ==
  crState = "true" =>
    LET width == IF ty.signed THEN 2 * (ty.max + 1) ELSE ty.max + 1
    IN (Denotes(position) - value_) % width = 0
===============================================================================
