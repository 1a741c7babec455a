-------------------------------- MODULE TextForm --------------------------------
(***************************************************************************)
(* The text form of the serialized objects: what the Render methods write, *)
(* and what the Parse methods of the types without loops read.             *)
(*                                                                         *)
(* A text is a sequence of tokens: punctuation, "quote", "space" (a run of *)
(* blanks), "line" (an end of line), the words "Empty", "True" and "False" *)
(* in any of their spellings, "z" for a letter no number begins with, and  *)
(* a numeral.  A numeral is one token, so the widths of the integers are   *)
(* scaled to ten values; no text holds two numerals side by side.          *)
(***************************************************************************)
EXTENDS Integers, Sequences, FiniteSets, SequencesExt, FiniteSetsExt

CONSTANTS
  LineWidth,  \* the 70 characters of one line of elements, in tokens
  MaxDepth    \* bound: how deep an object is nested that is rendered

ASSUME LineWidthAssumption == LineWidth \in Nat \ {0}
ASSUME DepthAssumption == MaxDepth \in Nat

Digits == <<"0", "1", "2", "3", "4", "5", "6", "7", "8", "9">>
Numeral(n) == <<Digits[n + 1]>>
IsNumeral(t) == t \in ToSet(Digits)
ValueOf(t) == CHOOSE n \in 0 .. 9 : Digits[n + 1] = t

Blank == {"space", "line"}
Closing == [x \in {"[", "{", "(", "<"} |->
  CASE x = "[" -> "]" [] x = "{" -> "}" [] x = "(" -> ")" [] x = "<" -> ">"]

\* The order of std::string on the tokens' first characters.
Order == <<"line", "space", "quote", "(", ")", "+", ",", "-", ".">> \o Digits
  \o <<":", "<", ">", "Empty", "False", "True", "[", "]", "z", "{", "}">>
Tokens == ToSet(Order)
Rank(t) == CHOOSE n \in DOMAIN Order : Order[n] = t
Before(k, l) ==
  \/ IsStrictPrefix(k, l)
  \/ \E i \in DOMAIN k \cap DOMAIN l :
       SubSeq(k, 1, i - 1) = SubSeq(l, 1, i - 1) /\ Rank(k[i]) < Rank(l[i])

\* An object: the characters of a string; the numbers of a Boolean, integer,
\* address or vector of integers, or [negative, whole, fraction, rest] of a
\* decimal, rest being what %lf does not show; the parts of a vector (with
\* empty keys) or of a collection, in the order of its map.
Object(type, chars, numbers, parts) ==
  [type |-> type, chars |-> chars, numbers |-> numbers, parts |-> parts]
EmptyObject == Object("Empty", <<>>, <<>>, <<>>)
OfNumbers(type, numbers) == Object(type, <<>>, numbers, <<>>)

\* Every object the classes can hold is one of these, when the parts of vectors
\* and collections are Values.
Holding(type, chars, numbers, parts) ==
  [type : {type}, chars : chars, numbers : numbers, parts : parts]
Numbers(type, numbers) == Holding(type, {<<>>}, numbers, {<<>>})
Holds(Values) ==
  Numbers("Empty", {<<>>})
    \cup Numbers("Boolean", [1 .. 1 -> 0 .. 1])
    \cup Numbers("Integer", [1 .. 1 -> -9 .. 9])
    \cup Numbers("UnsignedInteger", [1 .. 1 -> 0 .. 9])
    \cup Numbers("Decimal", [1 .. 4 -> 0 .. 9])
    \cup Numbers("IpAddress", [1 .. 4 -> 0 .. 9])
    \cup Numbers("IntegerVector", Seq(-9 .. 9))
    \cup Numbers("UnsignedIntegerVector", Seq(0 .. 9))
    \cup Holding("String", Seq(Tokens), {<<>>}, {<<>>})
    \cup Holding("Vector", {<<>>}, {<<>>}, Seq([key : {<<>>}, value : Values]))
    \cup Holding("Collection", {<<>>}, {<<>>}, Seq([key : Seq(Tokens), value : Values]))

\* The objects nested at most n deep.
Nested[n \in Nat] == Holds(IF n = 0 THEN {} ELSE Nested[n - 1])

-------------------------------------------------------------------------------
(* StringExtensions *)

Trim(t) ==
  LET solid == {i \in DOMAIN t : t[i] \notin Blank}
  IN IF solid = {} THEN <<>> ELSE SubSeq(t, Min(solid), Max(solid))

Indent(t) ==
  FlattenSeq([i \in DOMAIN t |-> IF t[i] = "line" THEN <<"line", "space">> ELSE <<t[i]>>])

\* The tokens from i on up to a comma outside of quotes and brackets, or to the
\* end.
ParseComponent(t, i, end) ==
  LET Unquoted(j) == Cardinality({k \in i .. j - 1 : t[k] = "quote"}) % 2 = 0
      Count(tokens, j) == Cardinality({k \in i .. j - 1 : t[k] \in tokens /\ Unquoted(k)})
      Outside(j) == Unquoted(j) /\ Count(DOMAIN Closing, j) <= Count(Range(Closing), j)
  IN SubSeq(t, i, Min({j \in i .. end : j = end \/ (t[j] = "," /\ Outside(j))}) - 1)

-------------------------------------------------------------------------------
(* Render *)

\* "%+d" always writes a sign.  Mutant: "%d".
Signed_OnlyMinus(n) == IF n < 0 THEN <<"-">> \o Numeral(-n) ELSE Numeral(n)

Signed(n) == IF n < 0 THEN <<"-">> \o Numeral(-n) ELSE <<"+">> \o Numeral(n)

\* The elements of any vector, on one line or, indented, on a line each.
Layout(elements) ==
  LET separators == IF elements = <<>> THEN 0 ELSE 2 * (Len(elements) - 1)
      long == Len(FlattenSeq(elements)) + separators >= LineWidth
      Separated(i) == IF i = 1 THEN <<>> ELSE IF long THEN <<",">> ELSE <<",", "space">>
      Element(i) == IF long THEN <<"line", "space">> \o Indent(elements[i]) ELSE elements[i]
  IN FlattenSeq([i \in DOMAIN elements |-> Separated(i) \o Element(i)])
       \o IF long THEN <<"line">> ELSE <<>>

RenderBoolean(n) == IF n = 1 THEN <<"True">> ELSE <<"False">>
RenderString(chars) == <<"quote">> \o chars \o <<"quote">>
RenderDecimal(n) ==
  (IF n[1] = 1 THEN <<"-">> ELSE <<>>) \o Numeral(n[2]) \o <<".">> \o Numeral(n[3])
RenderIpAddress(n) ==
  FlattenSeq([k \in 1 .. 4 |-> (IF k = 1 THEN <<>> ELSE <<".">>) \o Numeral(n[k])])
RenderIntegerVector(n) ==
  <<"(">> \o Layout([i \in DOMAIN n |-> Signed(n[i])]) \o <<")">>
RenderUnsignedIntegerVector(n) ==
  <<"<">> \o Layout([i \in DOMAIN n |-> Numeral(n[i])]) \o <<">">>

\* Of the renderings of their parts.
RenderVector(values) == <<"[">> \o Layout(values) \o <<"]">>
RenderCollection(keys, values) ==
  LET Pair(i) == (IF i = 1 THEN <<>> ELSE <<",", "line">>)
        \o <<"space">> \o keys[i] \o <<":", "space">> \o Indent(values[i])
  IN IF keys = <<>> THEN <<"{", "}">>
     ELSE <<"{", "line">> \o FlattenSeq([i \in DOMAIN keys |-> Pair(i)]) \o <<"line", "}">>

\* Of an object whose parts are rendered as values.
RenderOf(o, values) ==
  CASE o.type = "Empty" -> <<"Empty">>
    [] o.type = "Boolean" -> RenderBoolean(o.numbers[1])
    [] o.type = "Integer" -> Signed(o.numbers[1])
    [] o.type = "UnsignedInteger" -> Numeral(o.numbers[1])
    [] o.type = "Decimal" -> RenderDecimal(o.numbers)
    [] o.type = "IpAddress" -> RenderIpAddress(o.numbers)
    [] o.type = "IntegerVector" -> RenderIntegerVector(o.numbers)
    [] o.type = "UnsignedIntegerVector" -> RenderUnsignedIntegerVector(o.numbers)
    [] o.type = "String" -> RenderString(o.chars)
    [] o.type = "Vector" -> RenderVector(values)
    [] o.type = "Collection" ->
         RenderCollection([i \in DOMAIN o.parts |-> o.parts[i].key], values)

\* An object nested at most n deep, by the renderings of those less deep.
Rendering[n \in Nat] ==
  [o \in Nested[n] |->
     RenderOf(o, [i \in DOMAIN o.parts |-> Rendering[n - 1][o.parts[i].value]])]

Render(o) == Rendering[MaxDepth][o]

-------------------------------------------------------------------------------
(* Parse *)

\* What sscanf reads of a number at the front: a sign, a numeral, and the rest.
Number(t) ==
  LET signed == t # <<>> /\ t[1] \in {"+", "-"}
      digits == IF signed THEN Tail(t) ELSE t
      ok == digits # <<>> /\ IsNumeral(digits[1])
  IN [ok |-> ok, negative |-> signed /\ t[1] = "-",
      value |-> IF ok THEN ValueOf(digits[1]) ELSE 0,
      rest |-> IF ok THEN Tail(digits) ELSE digits]

\* "%d", and "%u" and the octets of an address, which wrap.
AsInteger(n) == IF n.negative THEN -n.value ELSE n.value
AsUnsigned(n) == AsInteger(n) % 10

\* Each of them ends where the format fails; the text behind is not looked at.
ParseInteger(t) == [ok |-> Number(t).ok, numbers |-> <<AsInteger(Number(t))>>]
ParseUnsigned(t) == [ok |-> Number(t).ok, numbers |-> <<AsUnsigned(Number(t))>>]

ParseIpAddress(t) ==
  LET Octet[k \in 1 .. 4] ==
        IF k = 1 THEN Number(t)
        ELSE IF Octet[k - 1].rest # <<>> /\ Head(Octet[k - 1].rest) = "."
        THEN Number(Tail(Octet[k - 1].rest)) ELSE Number(<<>>)
      ok == \A k \in 1 .. 4 : Octet[k].ok
  IN [ok |-> ok, numbers |-> [k \in 1 .. 4 |-> IF ok THEN AsUnsigned(Octet[k]) ELSE 0]]

\* "%lf" reads digits on at least one side of the point.
ParseDecimal(t) ==
  LET whole == Number(t)
      rest == whole.rest
      point == rest # <<>> /\ rest[1] = "."
      fraction == IF point /\ Len(rest) > 1 /\ IsNumeral(rest[2]) THEN ValueOf(rest[2]) ELSE -1
  IN [ok |-> whole.ok \/ fraction >= 0,
      numbers |-> <<IF whole.negative THEN 1 ELSE 0, whole.value,
                    IF fraction >= 0 THEN fraction ELSE 0, 0>>]

ParseBoolean(t) == [ok |-> t \in {<<"True">>, <<"False">>},
                    numbers |-> <<IF t = <<"True">> THEN 1 ELSE 0>>]

ParseString(t) ==
  LET quoted == Len(t) >= 2 /\ Last(t) = "quote" IN
  [ok |-> quoted,
   object |-> Object("String", IF quoted THEN SubSeq(t, 2, Len(t) - 1) ELSE <<>>, <<>>, <<>>)]

\* The Parse of the scalars, on a text that is trimmed.
ParseScalar(type, t) ==
  LET parsed ==
        CASE type = "Boolean" -> ParseBoolean(t)
          [] type = "Integer" -> ParseInteger(t)
          [] type = "UnsignedInteger" -> ParseUnsigned(t)
          [] type = "Decimal" -> ParseDecimal(t)
          [] type = "IpAddress" -> ParseIpAddress(t)
      blanks == type # "Boolean" /\ ToSet(t) \cap Blank # {}
  IN IF type = "String" THEN ParseString(t)
     ELSE IF blanks \/ ~parsed.ok
     THEN [ok |-> FALSE,
           object |-> OfNumbers(type, [i \in DOMAIN parsed.numbers |-> 0])]
     ELSE [ok |-> TRUE, object |-> OfNumbers(type, parsed.numbers)]

\* SerializedObject::Parse on a text that is trimmed and neither blank nor
\* Empty: the first character decides, then the points, then the digits.
TypeOf(t) ==
  LET points == Cardinality({i \in DOMAIN t : t[i] = "."}) IN
  CASE t[1] = "quote" -> "String"
    [] t[1] = "[" -> "Vector"
    [] t[1] = "{" -> "Collection"
    [] t[1] = "(" -> "IntegerVector"
    [] t[1] = "<" -> "UnsignedIntegerVector"
    [] t[1] \in {"+", "-"} -> "Integer"
    [] OTHER -> CASE points = 1 -> "Decimal"
                  [] points > 1 -> "IpAddress"
                  [] points = 0 -> IF \A i \in DOMAIN t : IsNumeral(t[i])
                                   THEN "UnsignedInteger" ELSE "Boolean"
===============================================================================
