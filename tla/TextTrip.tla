-------------------------------- MODULE TextTrip --------------------------------
(***************************************************************************)
(* A program renders an object, someone may change the text by hand, and   *)
(* the program parses it into a new SerializedObject; then it renders that *)
(* one, whether the parse succeeded or not, and parses it again.           *)
(*                                                                         *)
(* SerializedObject::Parse and the Parse of the vectors and collections,   *)
(* which call each other, are a stack of activation records; a step is one *)
(* turn of a loop or the Parse of a scalar.                                *)
(***************************************************************************)
EXTENDS TextForm

CONSTANTS
  Objects,     \* the objects rendered first
  EditTokens,  \* what an edit puts in
  MaxEdits,    \* bound: edits, of the first text only
  MaxTrips     \* bound: times an object is rendered and parsed

ASSUME ObjectsAssumption == Objects \subseteq Nested[MaxDepth]
ASSUME EditsAssumption == EditTokens \subseteq Tokens

VARIABLES
  mode,    \* "rendering", "editing", "parsing" or "parsed"
  object,  \* the object, and what the last Parse left in it
  text,    \* its rendering
  calls,   \* activation records, the innermost last
  ok,      \* what the last Parse returned
  source,  \* history: the object the text is the rendering of
  turn,    \* history: the parity of the steps of Parse, so that a turn of a
           \* loop that changes nothing is a step, too
  edits,   \* edits of the text so far
  trips    \* texts rendered so far

callerVars == <<text, source, edits, trips>>
vars == <<mode, object, calls, ok, turn, callerVars>>

\* A call that has not looked at its text yet.
NewCall(t) ==
  [phase |-> "text", text |-> t, i |-> 2, key |-> <<>>, object |-> EmptyObject]

Init ==
  /\ mode = "rendering"
  /\ object \in Objects
  /\ text = <<>>
  /\ calls = <<>>
  /\ ok = TRUE
  /\ source = object
  /\ edits = 0 /\ trips = 0
  /\ turn = 0

-------------------------------------------------------------------------------
(* The program, and whoever changes the text *)

RenderObject ==
  /\ mode \in {"rendering", "parsed"}
  /\ trips < MaxTrips
  /\ object \in Nested[MaxDepth]
  /\ mode' = "editing"
  /\ text' = Render(object)
  /\ source' = object
  /\ edits' = 0 /\ trips' = trips + 1
  /\ UNCHANGED <<object, calls, ok, turn>>

Edit ==
  /\ mode = "editing"
  /\ trips = 1 /\ edits < MaxEdits
  /\ edits' = edits + 1
  /\ \E i \in DOMAIN text :
       \/ text' = RemoveAt(text, i)
       \/ \E t \in EditTokens : text' = InsertAt(text, i, t) \/ text' = ReplaceAt(text, i, t)
  /\ \A i \in 2 .. Len(text') : ~(IsNumeral(text'[i - 1]) /\ IsNumeral(text'[i]))
  /\ UNCHANGED <<mode, object, calls, ok, turn, source, trips>>

\* The Parse of a SerializedObject that was just constructed.
CallParse ==
  /\ mode = "editing"
  /\ mode' = "parsing"
  /\ object' = EmptyObject
  /\ calls' = <<NewCall(text)>>
  /\ turn' = 0
  /\ UNCHANGED <<ok, callerVars>>

-------------------------------------------------------------------------------
(* Parse *)

Top == calls[Len(calls)]
In(phase) == mode = "parsing" /\ calls # <<>> /\ Top.phase = phase
Loops(type) == In("loop") /\ Top.object.type = type /\ Top.i < Len(Top.text)

\* value_.push_back, or the assignment to collection_[key].
WithPart(o, key, part) ==
  LET place == IF o.type = "Vector" THEN Len(o.parts) + 1
               ELSE Min({i \in 1 .. Len(o.parts) + 1 :
                           i = Len(o.parts) + 1 \/ ~Before(o.parts[i].key, key)})
      new == [key |-> key, value |-> part]
  IN [o EXCEPT !.parts = IF place <= Len(@) /\ @[place].key = key
                         THEN ReplaceAt(@, place, new) ELSE InsertAt(@, place, new)]

\* false takes the loop of the caller with it.
Return(result, o) ==
  LET outer == Front(calls)
      caller == Last(outer)
  IN IF outer = <<>>
     THEN mode' = "parsed" /\ calls' = <<>> /\ object' = o /\ ok' = result
     ELSE /\ calls' = [outer EXCEPT ![Len(outer)] =
                         IF result
                         THEN [caller EXCEPT !.object = WithPart(@, caller.key, o)]
                         ELSE [caller EXCEPT !.phase = "failed"]]
          /\ UNCHANGED <<mode, object, ok>>

Continue(c) == calls' = [calls EXCEPT ![Len(calls)] = c] /\ UNCHANGED <<mode, object, ok>>

\* A blank text leaves the object as it was: new.
ParseWord ==
  /\ In("text")
  /\ \/ Trim(Top.text) = <<>> /\ Return(FALSE, EmptyObject)
     \/ Trim(Top.text) = <<"Empty">> /\ Return(TRUE, EmptyObject)

Looping == {"Vector", "Collection", "IntegerVector", "UnsignedIntegerVector"}

\* The tag and the implementation are new before its Parse begins.
ParseTyped ==
  /\ In("text")
  /\ LET t == Trim(Top.text) IN
       /\ t \notin {<<>>, <<"Empty">>}
       /\ IF TypeOf(t) \notin Looping
          THEN Return(ParseScalar(TypeOf(t), t).ok, ParseScalar(TypeOf(t), t).object)
          ELSE IF Len(t) >= 2 /\ Last(t) = Closing[t[1]]
          THEN Continue([Top EXCEPT !.phase = "loop", !.text = t,
                                    !.object = OfNumbers(TypeOf(t), <<>>)])
          ELSE Return(FALSE, OfNumbers(TypeOf(t), <<>>))

\* Behind the element at i and its comma.  Mutants: a comma or not; before it.
Behind_Always(t, i, element) == i + Len(element) + 1
Behind_AtComma(t, i, element) == i + Len(element)

Behind(t, i, element) ==
  LET j == i + Len(element) IN IF t[j] = "," THEN j + 1 ELSE j

\* One number up to a comma or the closing bracket, with the sscanf of its type.
ParseNumber(type) ==
  /\ Loops(type)
  /\ LET t == Top.text
         j == Min({k \in Top.i .. Len(t) : t[k] \in {",", Last(t)}})
         element == Trim(SubSeq(t, Top.i, j - 1))
         parsed == IF type = "IntegerVector" THEN ParseInteger(element)
                   ELSE ParseUnsigned(element)
     IN IF ToSet(element) \cap Blank = {} /\ parsed.ok
        THEN Continue([Top EXCEPT
               !.i = IF t[j] = "," THEN j + 1 ELSE j,
               !.object.numbers = @ \o parsed.numbers])
        ELSE Continue([Top EXCEPT !.phase = "failed"])

ParseIntegerElement == ParseNumber("IntegerVector")
ParseUnsignedElement == ParseNumber("UnsignedIntegerVector")

ParseElement ==
  /\ Loops("Vector")
  /\ LET element == ParseComponent(Top.text, Top.i, Len(Top.text)) IN
       calls' = Append([calls EXCEPT ![Len(calls)].i = Behind(Top.text, Top.i, element)],
                       NewCall(element))
  /\ UNCHANGED <<mode, object, ok>>

\* The colon a key ends at, or the closing bracket where there is none.
KeyEnd == Min({k \in Top.i .. Len(Top.text) : Top.text[k] = ":" \/ k = Len(Top.text)})
Key == Trim(SubSeq(Top.text, Top.i, KeyEnd - 1))
HasColon == Top.text[KeyEnd] = ":"

\* An empty key, at a stray colon or before the bracket, is passed over.
\* Mutant: without moving on.
SkipEmptyKey_InPlace ==
  /\ Loops("Collection")
  /\ Key = <<>>
  /\ Continue([Top EXCEPT !.i = IF HasColon THEN @ ELSE KeyEnd])

SkipEmptyKey ==
  /\ Loops("Collection")
  /\ Key = <<>>
  /\ Continue([Top EXCEPT !.i = IF HasColon THEN KeyEnd + 1 ELSE KeyEnd])

KeyAlone ==
  /\ Loops("Collection")
  /\ Key # <<>> /\ ~HasColon
  /\ Continue([Top EXCEPT !.phase = "failed"])

ParsePair ==
  /\ Loops("Collection")
  /\ Key # <<>> /\ HasColon
  /\ LET i == KeyEnd + 1
         element == ParseComponent(Top.text, i, Len(Top.text))
     IN calls' = Append([calls EXCEPT ![Len(calls)].key = Key,
                                      ![Len(calls)].i = Behind(Top.text, i, element)],
                        NewCall(element))
  /\ UNCHANGED <<mode, object, ok>>

EndLoop == In("loop") /\ Top.i >= Len(Top.text) /\ Return(TRUE, Top.object)

\* A loop that fails keeps the elements it had.
FailLoop == In("failed") /\ Return(FALSE, Top.object)

ParseStep ==
  /\ \/ ParseWord \/ ParseTyped
     \/ ParseIntegerElement \/ ParseUnsignedElement \/ ParseElement
     \/ SkipEmptyKey \/ KeyAlone \/ ParsePair
     \/ EndLoop \/ FailLoop
  /\ turn' = 1 - turn
  /\ UNCHANGED callerVars

\* The end of the program.
Done == mode = "parsed" /\ trips = MaxTrips /\ UNCHANGED vars

Next == RenderObject \/ Edit \/ CallParse \/ ParseStep \/ Done

\* Weak fairness of ParseStep, which is enabled as long as the program is
\* parsing (it would be a deadlock if it were not) and always changes turn.
Fairness == <>[](mode = "parsing") => []<><<ParseStep>>_vars

Spec == Init /\ [][Next]_vars /\ Fairness

-------------------------------------------------------------------------------
Types == Looping
  \cup {"Empty", "Boolean", "Integer", "UnsignedInteger", "Decimal", "IpAddress", "String"}

\* The state is well typed, no index leaves its text, and a collection under
\* construction is a map in the order of its keys.
TypeOK ==
  /\ mode \in {"rendering", "editing", "parsing", "parsed"}
  /\ ok \in BOOLEAN
  /\ turn \in 0 .. 1
  /\ object.type \in Types
  /\ \A c \in ToSet(calls) :
       /\ c.phase \in {"text", "loop", "failed"}
       /\ c.phase # "text" => c.i \in 2 .. Len(c.text)
       /\ c.object.type = "Collection" =>
            \A i, j \in DOMAIN c.object.parts :
              i < j => Before(c.object.parts[i].key, c.object.parts[j].key)

\* What the text form tells apart: no decimal below zero or with more digits
\* than %lf shows; inside other objects no string with a quote or a line end,
\* no key that is blank or with a character the form uses.
PlainKey(k) ==
  k # <<>> /\ k = Trim(k) /\ ToSet(k) \cap ({":", "line", "quote"} \cup DOMAIN Closing
                                             \cup Range(Closing)) = {}
PlainPart[n \in Nat] ==
  [o \in Nested[n] |->
     /\ o.type = "Decimal" => o.numbers[1] = 0 /\ o.numbers[4] = 0
     /\ o.type = "String" => ToSet(o.chars) \cap {"quote", "line"} = {}
     /\ \A i \in DOMAIN o.parts :
          /\ PlainPart[n - 1][o.parts[i].value]
          /\ o.type = "Collection" => PlainKey(o.parts[i].key)]
Plain(o) == o.type = "String" \/ PlainPart[MaxDepth][o]

\* A text nobody touched is parsed into the object it is the rendering of,
\* nested and laid out over lines or not, and so is that of an object that
\* came from a text someone changed, or that a Parse which failed left behind.
RoundTrip ==
  mode = "parsed" /\ edits = 0 /\ Plain(source) => ok /\ object = source

\* "A human-readable string that makes the type and value evident"
\* (ISerializedObject.hpp:78-79): evident to Parse, too.
TypeEvident == mode = "parsed" /\ edits = 0 => ok /\ object.type = source.type

\* A step of Parse returns from a call, takes it to its loop or its failure, moves
\* on in its text, or does so and calls Parse on a shorter text.
NearerToItsEnd ==
  LET n == Len(calls)
      after == calls'[n]
      movesOn == after.phase = Top.phase /\ after.text = Top.text /\ after.i > Top.i
  IN \/ Len(calls') = n - 1
     \/ /\ Len(calls') = n
        /\ <<Top.phase, after.phase>> \in {<<"text", "loop">>, <<"loop", "failed">>}
     \/ Len(calls') = n /\ movesOn
     \/ Len(calls') = n + 1 /\ movesOn /\ Len(calls'[n + 1].text) < Len(Top.text)

\* Whatever the text, each step of Parse brings it nearer to its end.
Advances == [][ParseStep => NearerToItsEnd]_vars

\* Whatever the text, Parse returns: each turn of each loop moves on.
ParseReturns == mode = "parsing" ~> mode = "parsed"
===============================================================================
