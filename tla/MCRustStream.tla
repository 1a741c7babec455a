----------------------------- MODULE MCRustStream -----------------------------
(* Types that use every kind of shape, none of them without bytes. *)
EXTENDS RustStream

byte == Shape("byte", <<>>)
int == Shape("int", <<>>)
wide == Shape("wide", <<>>)
char == Shape("char", <<>>)
str == Shape("str", <<>>)
bytes == Shape("bytes", <<>>)
unit == Shape("tuple", <<>>)

MCStreamed ==
  {int, str, bytes,
   Shape("tuple", <<Shape("option", <<char>>), wide>>),
   Shape("map", <<byte, Shape("enum", <<unit, int>>)>>),
   Shape("seq", <<int>>)}

MCShapes ==
  LET Inside(S) == S \cup UNION {ToSet(s.parts) : s \in S} IN
  Inside(Inside(MCStreamed))
===============================================================================
