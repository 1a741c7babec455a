---------------------------- MODULE MCObjectHandles ----------------------------
(* A program's variables and containers, at the size the .cfg files choose.  *)
(* The variables and the types are interchangeable.                          *)
EXTENDS ObjectHandles, TLC

CONSTANTS a, b, Int_, Text

Interchangeable == Permutations(Names) \cup Permutations(Types)
===============================================================================
