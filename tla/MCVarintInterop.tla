---------------------------- MODULE MCVarintInterop ----------------------------
(* Every int and every uint64_t, at the scale the .cfg file chooses. *)
EXTENDS VarintInterop
===============================================================================
