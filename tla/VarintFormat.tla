----------------------------- MODULE VarintFormat -----------------------------
(***************************************************************************)
(* The wire form of an integer, shared by the Rust and the C++ codecs: a   *)
(* big-endian run of groups, one per byte, every byte but the last with    *)
(* its continuation bit (0x80) set.  The first byte of a signed integer    *)
(* gives one bit of its group (0x40) to the sign.                          *)
(*                                                                         *)
(* A byte is modelled by its continuation bit and its group of low bits.   *)
(* The radix and the integer widths are constants; the code has Group =    *)
(* 128, Half = 64, IMax = 2^63 - 1, UMax = 2^64 - 1.                       *)
(***************************************************************************)
EXTENDS Integers, Sequences

CONSTANTS
  Group,    \* values of a 7-bit group, 0x80
  Half,     \* values of the first group of a signed integer, 0x40
  IMax,     \* i64::MAX
  UMax,     \* u64::MAX
  MinLead,  \* i64::MIN without its last group, 0x0100_0000_0000_0000
  SMaxes,   \* greatest values of the signed types, i64 included
  UMaxes    \* greatest values of the unsigned types, u64 included

ASSUME RadixAssumption ==
  /\ Half \in Nat \ {0}
  /\ Group = 2 * Half

ASSUME WidthAssumption ==
  /\ IMax \in Nat
  /\ UMax = 2 * IMax + 1
  /\ MinLead \in Nat
  /\ IMax + 1 = Group * MinLead

\* No type is narrower than one group: i16 and u16 are the narrowest that
\* use this form (i8, u8 and bool travel as one plain byte).  The signed types
\* below i64 are narrower than i64 by more than one group (2^31 < 2^56).
ASSUME TypesAssumption ==
  /\ SMaxes \subseteq Half - 1 .. IMax /\ IMax \in SMaxes
  /\ \A max \in SMaxes \ {IMax} : max + 1 < MinLead
  /\ UMaxes \subseteq Group - 1 .. UMax /\ UMax \in UMaxes

VARIABLES
  ty,     \* the integer type at both call sites
  input,  \* the value handed to the writer
  wire    \* the bytes handed to the reader

Byte == [more : BOOLEAN, low : 0 .. Group - 1]

Type == [signed : {TRUE}, max : SMaxes] \cup [signed : {FALSE}, max : UMaxes]

ValuesOf(t) == IF t.signed THEN -(t.max + 1) .. t.max ELSE 0 .. t.max

IMin == -(IMax + 1)

\* Mutant: no bit is left for the sign.
FirstCap_NoSignBit == Group

\* The group of a first byte without its sign bit, and that bit.
FirstCap == IF ty.signed THEN Half ELSE Group
IsNegative(b) == ty.signed /\ b.low >= Half
FirstGroup(b) == IF IsNegative(b) THEN b.low - Half ELSE b.low

\* Reference: the magnitude the first n bytes on the wire spell and the number
\* they denote, without any width.
Magnitude[n \in 0 .. Len(wire)] ==
  CASE n = 0 -> 0
    [] n = 1 -> FirstGroup(wire[1])
    [] OTHER -> Magnitude[n - 1] * Group + wire[n].low
Denotes(n) == IF IsNegative(wire[1]) THEN -Magnitude[n] ELSE Magnitude[n]
===============================================================================
