---------------------------- MODULE IntegerTransfer ----------------------------
(***************************************************************************)
(* What the integer codec promises: a value handed to the writer reaches   *)
(* the reader as it was, unless the bytes are cut short on their way, and  *)
(* then the reader says so.                                                *)
(***************************************************************************)
EXTENDS Integers

CONSTANT Values  \* the integers that may be sent

VARIABLES
  sent,     \* the value handed to the writer
  intact,   \* whether its bytes were all kept
  outcome,  \* "pending", "received" or "refused"
  got       \* the value received, 0 before

vars == <<sent, intact, outcome, got>>

Init ==
  /\ sent \in Values
  /\ intact = TRUE
  /\ outcome = "pending"
  /\ got = 0

Lose ==
  /\ outcome = "pending"
  /\ intact
  /\ intact' = FALSE
  /\ UNCHANGED <<sent, outcome, got>>

Receive ==
  /\ outcome = "pending"
  /\ intact
  /\ outcome' = "received"
  /\ got' = sent
  /\ UNCHANGED <<sent, intact>>

Refuse ==
  /\ outcome = "pending"
  /\ ~intact
  /\ outcome' = "refused"
  /\ UNCHANGED <<sent, intact, got>>

Next == Lose \/ Receive \/ Refuse

Spec == Init /\ [][Next]_vars
===============================================================================
