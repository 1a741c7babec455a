----------------------------- MODULE RustIntegers -----------------------------
(***************************************************************************)
(* One integer from to_bytes to from_bytes.  The serializer runs to its    *)
(* end, the bytes travel and may lose a suffix, the deserializer runs on   *)
(* what arrived.                                                           *)
(***************************************************************************)
EXTENDS RustSerializer, RustDeserializer

VARIABLE link  \* "idle", or how the bytes arrived: "whole" or "cut"

vars == <<ty, input, wire, link, serVars, deVars>>

Init ==
  /\ ty \in Type
  /\ input \in ValuesOf(ty)
  /\ wire = <<>>
  /\ link = "idle"
  /\ SerInit
  /\ DeInit

Serialize == SerNext /\ UNCHANGED <<ty, input, wire, link, deVars>>

DeliverWhole ==
  /\ serState = "done"
  /\ link = "idle"
  /\ link' = "whole"
  /\ wire' = out
  /\ UNCHANGED <<ty, input, serVars, deVars>>

DeliverCut ==
  /\ serState = "done"
  /\ link = "idle"
  /\ link' = "cut"
  /\ \E n \in 0 .. Len(out) - 1 : wire' = SubSeq(out, 1, n)
  /\ UNCHANGED <<ty, input, serVars, deVars>>

Deserialize ==
  /\ link # "idle"
  /\ DeNext
  /\ UNCHANGED <<ty, input, wire, link, serVars>>

Next == Serialize \/ DeliverWhole \/ DeliverCut \/ Deserialize

Spec == Init /\ [][Next]_vars

FairSpec == Spec /\ WF_vars(Next)

-------------------------------------------------------------------------------
\* The types of the locals and buffers of both sides.
TypeOK ==
  /\ ty \in Type
  /\ input \in ValuesOf(ty)
  /\ link \in {"idle", "whole", "cut"}
  /\ serState \in {"call", "split", "emit", "done", "panic"}
  /\ sign \in BOOLEAN
  /\ rest \in 0 .. UMax
  /\ stack \in Seq(0 .. Group - 1)
  /\ out \in Seq(Byte)
  /\ trail \in Seq(0 .. UMax)
  /\ wire \in Seq(Byte)
  /\ deState \in {"first", "loop", "ok", "err"}
  /\ offset \in 0 .. Len(wire)
  /\ more \in BOOLEAN
  /\ negative \in BOOLEAN
  /\ value \in Nat
  /\ returned \in Int
  /\ result \in ValuesOf(ty)
  /\ error \in {"none", "ValueTruncated", "IntegerOverflow"}

\* A value whose bytes all arrive is parsed without error into itself, and the
\* parser stops exactly behind its last byte, where the next value begins.
RoundTrip ==
  link = "whole" =>
    /\ deState # "err"
    /\ deState = "ok" => result = input /\ offset = Len(out)

\* No proper prefix of a value's bytes parses as a value: a cut is always
\* reported, and as ValueTruncated, never as some other integer.
TruncationDetected ==
  link = "cut" =>
    /\ deState # "ok"
    /\ deState = "err" => error = "ValueTruncated"

\* How many magnitudes n bytes can spell.
Capacity[n \in Nat \ {0}] ==
  IF n = 1 THEN FirstCap ELSE Capacity[n - 1] * Group

\* The writer spends no byte it could save: one byte less could not spell the
\* magnitude it was given.
ShortestForm ==
  serState = "done" /\ Len(out) > 1 =>
    (IF input < 0 THEN -input ELSE input) >= Capacity[Len(out) - 1]

\* Neither side hangs: the value is received or refused, or its writer died.
Settles == <>(deState \in {"ok", "err"} \/ serState = "panic")

-------------------------------------------------------------------------------
Outcome ==
  CASE deState = "ok" -> "received"
    [] deState = "err" -> "refused"
    [] deState \notin {"ok", "err"} -> "pending"

Transfer == INSTANCE IntegerTransfer WITH
  Values <- UNION {ValuesOf(t) : t \in Type},
  sent <- input, intact <- (link # "cut"), outcome <- Outcome, got <- result

\* On a target with a 64-bit usize the codec implements the promise.  With
\* overflow checks it may panic instead of sending i64::MIN, and still never
\* delivers a wrong value or accepts a part of one.
ImplementsTransfer == Transfer!Spec

\* The deserializer's tests give i64::MIN an encoding (de.rs:853-856), and
\* to_bytes promises at most "an error if the value being serialized is in a
\* bad state" (ser.rs:499-503): to_bytes of an i64 comes back.
NeverPanics == serState # "panic"

\* The serializer's own test encodes the u64 90000000000000 (ser.rs:656-659):
\* whatever the target, a value that arrives whole arrives unchanged.
ArrivesUnchanged == link = "whole" /\ deState = "ok" => result = input
===============================================================================
