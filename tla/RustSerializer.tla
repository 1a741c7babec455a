---------------------------- MODULE RustSerializer ----------------------------
(***************************************************************************)
(* How the Rust Serializer writes one integer: serialize_u16/u32/u64 end   *)
(* in serialize_usize, serialize_i16/i32 in serialize_i64.  Both split the *)
(* magnitude into groups on a stack, least significant first, and then     *)
(* push the bytes onto the output buffer while the stack empties.          *)
(***************************************************************************)
EXTENDS VarintFormat

CONSTANTS
  UsizeMax,       \* usize::MAX of the target
  OverflowChecks  \* the build profiles: whether arithmetic overflow panics

ASSUME TargetAssumption ==
  /\ UsizeMax \in Group - 1 .. UMax
  /\ OverflowChecks \subseteq BOOLEAN

VARIABLES
  serState,  \* "call", "split", "emit", "done" or "panic"
  sign,      \* whether 0x40 goes into the first byte
  rest,      \* the local v (abs in serialize_i64)
  stack,     \* the groups split off so far
  out,       \* the output buffer
  trail      \* history: every value rest has had, for the proofs only

serVars == <<serState, sign, rest, stack, out, trail>>

SerInit ==
  /\ serState = "call"
  /\ sign = FALSE
  /\ rest = 0
  /\ stack = <<>>
  /\ out = <<>>
  /\ trail = <<>>

\* `v as usize`
AsUsize(v) == IF v <= UsizeMax THEN v ELSE v % (UsizeMax + 1)

Begin(magnitude, negative) ==
  /\ serState' = "split"
  /\ sign' = negative
  /\ rest' = magnitude
  /\ trail' = <<magnitude>>
  /\ UNCHANGED <<stack, out>>

SerializeU64 ==
  /\ serState = "call"
  /\ ~ty.signed
  /\ Begin(AsUsize(input), FALSE)

\* `(-v) as u64`: without overflow checks the negation of i64::MIN wraps to
\* i64::MIN, whose bits read as a u64 are its magnitude.
SerializeI64 ==
  /\ serState = "call"
  /\ ty.signed
  /\ input # IMin \/ FALSE \in OverflowChecks
  /\ Begin(IF input < 0 THEN -input ELSE input, input < 0)

NegationPanics ==
  /\ serState = "call"
  /\ ty.signed
  /\ input = IMin
  /\ TRUE \in OverflowChecks
  /\ serState' = "panic"
  /\ UNCHANGED <<sign, rest, stack, out, trail>>

\* Mutant: the group is not masked.
PushGroup_Unmasked ==
  /\ serState = "split"
  /\ rest >= FirstCap
  /\ stack' = Append(stack, rest)
  /\ rest' = rest \div Group
  /\ trail' = Append(trail, rest')
  /\ UNCHANGED <<serState, sign, out>>

\* Mutant: one turn of the loop too many at the boundary.
PushGroup_TooOften ==
  /\ serState = "split"
  /\ rest >= FirstCap - 1
  /\ stack' = Append(stack, rest % Group)
  /\ rest' = rest \div Group
  /\ trail' = Append(trail, rest')
  /\ UNCHANGED <<serState, sign, out>>

PushGroup ==
  /\ serState = "split"
  /\ rest >= FirstCap
  /\ stack' = Append(stack, rest % Group)
  /\ rest' = rest \div Group
  /\ trail' = Append(trail, rest')
  /\ UNCHANGED <<serState, sign, out>>

EmitFirst ==
  /\ serState = "split"
  /\ rest < FirstCap
  /\ out' = Append(out, [more |-> stack # <<>>,
                         low |-> IF sign THEN rest + Half ELSE rest])
  /\ serState' = IF stack = <<>> THEN "done" ELSE "emit"
  /\ UNCHANGED <<sign, rest, stack, trail>>

\* Mutant: the continuation bit is forgotten behind the first byte.
EmitNext_NoMore ==
  /\ serState = "emit"
  /\ stack' = SubSeq(stack, 1, Len(stack) - 1)
  /\ out' = Append(out, [more |-> FALSE, low |-> stack[Len(stack)]])
  /\ serState' = IF Len(stack) > 1 THEN "emit" ELSE "done"
  /\ UNCHANGED <<sign, rest, trail>>

EmitNext ==
  /\ serState = "emit"
  /\ stack' = SubSeq(stack, 1, Len(stack) - 1)
  /\ out' = Append(out, [more |-> Len(stack) > 1, low |-> stack[Len(stack)]])
  /\ serState' = IF Len(stack) > 1 THEN "emit" ELSE "done"
  /\ UNCHANGED <<sign, rest, trail>>

SerNext ==
  \/ SerializeU64 \/ SerializeI64 \/ NegationPanics
  \/ PushGroup \/ EmitFirst \/ EmitNext
===============================================================================
