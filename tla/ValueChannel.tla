----------------------------- MODULE ValueChannel -----------------------------
(***************************************************************************)
(* What a stream of values promises: every value sent is received, once,   *)
(* in order and as it was, up to a value the medium spoils; what is        *)
(* received in its place and behind it may be anything.                    *)
(***************************************************************************)
EXTENDS Integers, Sequences

VARIABLES sent, received, broken

vars == <<sent, received, broken>>

Init == sent = <<>> /\ received = <<>> /\ broken = 0

Send ==
  /\ Len(sent') = Len(sent) + 1
  /\ SubSeq(sent', 1, Len(sent)) = sent
  /\ UNCHANGED <<received, broken>>

Break ==
  /\ broken = 0
  /\ broken' \in Len(received) + 1 .. Len(sent)
  /\ UNCHANGED <<sent, received>>

Receive ==
  /\ Len(received) < Len(sent)
  /\ broken = 0 \/ Len(received) + 1 < broken
  /\ received' = Append(received, sent[Len(received) + 1])
  /\ UNCHANGED <<sent, broken>>

ReceiveAnything ==
  /\ broken # 0 /\ Len(received) + 1 >= broken
  /\ Len(received') = Len(received) + 1
  /\ SubSeq(received', 1, Len(received)) = received
  /\ UNCHANGED <<sent, broken>>

Next == Send \/ Break \/ Receive \/ ReceiveAnything

Spec == Init /\ [][Next]_vars /\ WF_vars(Receive)
===============================================================================
