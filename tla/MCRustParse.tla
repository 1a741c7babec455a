------------------------------ MODULE MCRustParse ------------------------------
(* Every slice of up to MaxWire bytes. *)
EXTENDS RustParse

CONSTANT MaxWire  \* bound: longest slice parsed

MCWires == UNION {[1 .. n -> Byte] : n \in 0 .. MaxWire}
===============================================================================
