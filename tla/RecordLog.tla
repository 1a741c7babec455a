------------------------------- MODULE RecordLog -------------------------------
(***************************************************************************)
(* What framing promises: a file of records in which every record written  *)
(* is read back as it was, in order, whatever happened to the others.      *)
(***************************************************************************)
EXTENDS Integers, Sequences

CONSTANTS
  Records,     \* what may be written
  Reading(_),  \* what a call that reads a whole record returns
  NoReading    \* what a call that finds none returns

VARIABLES
  log,      \* the records written
  damaged,  \* the places of those changed since
  torn,     \* whether a record was given up when part of it was written
  sealed,   \* whether the writer is gone
  taken     \* what the reader's calls returned

vars == <<log, damaged, torn, sealed, taken>>

Init == log = <<>> /\ damaged = {} /\ torn = FALSE /\ sealed = FALSE /\ taken = <<>>

Write ==
  /\ ~sealed
  /\ \E r \in Records : log' = Append(log, r)
  /\ UNCHANGED <<damaged, torn, sealed, taken>>

\* The writer turns to another record.
GiveUp == ~sealed /\ torn' = TRUE /\ UNCHANGED <<log, damaged, sealed, taken>>

Seal == ~sealed /\ sealed' = TRUE /\ UNCHANGED <<log, damaged, torn, taken>>

Damage ==
  /\ sealed
  /\ taken = <<>>
  /\ \E i \in DOMAIN log : damaged' = damaged \cup {i}
  /\ UNCHANGED <<log, torn, sealed, taken>>

\* One more call of the reader; the last thing taken is what it returned.
Taking == Len(taken') = Len(taken) + 1 /\ SubSeq(taken', 1, Len(taken)) = taken

\* The next record, in its turn, and anything at all in place of a damaged one.
Take ==
  /\ sealed
  /\ Len(taken) < Len(log)
  /\ Taking
  /\ Len(taken') \notin damaged => taken'[Len(taken')] = Reading(log[Len(taken')])
  /\ UNCHANGED <<log, damaged, torn, sealed>>

\* Behind the last record there is nothing to be had, or the remains of one
\* given up.
TakeNothing ==
  /\ sealed
  /\ Len(taken) >= Len(log)
  /\ Taking
  /\ ~torn => taken'[Len(taken')] = NoReading
  /\ UNCHANGED <<log, damaged, torn, sealed>>

Next == Write \/ GiveUp \/ Seal \/ Damage \/ Take \/ TakeNothing

SafeSpec == Init /\ [][Next]_vars

\* A reader that keeps calling gets past every record.
Progress == sealed ~> Len(taken) >= Len(log)
===============================================================================
