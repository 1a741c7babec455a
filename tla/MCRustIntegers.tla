---------------------------- MODULE MCRustIntegers ----------------------------
(* Every integer of every type, at the scale the .cfg files choose. *)
EXTENDS RustIntegers
===============================================================================
