------------------------------ MODULE MCTextTrip ------------------------------
(* Objects of every type, on one line and on several, nested twice. *)
EXTENDS TextTrip

String(chars) == Object("String", chars, <<>>, <<>>)
Vector(values) ==
  Object("Vector", <<>>, <<>>, [i \in DOMAIN values |-> [key |-> <<>>, value |-> values[i]]])
Collection(keys, values) ==
  Object("Collection", <<>>, <<>>,
         [i \in DOMAIN keys |-> [key |-> keys[i], value |-> values[i]]])

Half == OfNumbers("Decimal", <<0, 0, 5, 0>>)
Yes == OfNumbers("Boolean", <<1>>)
Three == OfNumbers("Integer", <<3>>)
Odd == String(<<"z", ",", "]">>)
Pair == OfNumbers("IntegerVector", <<-1, 2>>)
Long == OfNumbers("UnsignedIntegerVector", <<1, 2, 3, 4>>)
Map == Collection(<< <<"1">>, <<"z", "space", "z">> >>, <<EmptyObject, Odd>>)

MCObjects ==
  {EmptyObject, Yes, Half, Three, Odd, Pair, Long, Map,
   OfNumbers("UnsignedInteger", <<3>>), OfNumbers("Integer", <<-2>>),
   OfNumbers("IpAddress", <<1, 0, 2, 9>>), OfNumbers("IntegerVector", <<>>),
   OfNumbers("Boolean", <<0>>), OfNumbers("Decimal", <<0, 1, 5, 1>>),
   String(<<"quote", "line">>), Collection(<<>>, <<>>),
   Vector(<<Odd, String(<<"quote">>)>>),
   Vector(<<Pair, Half>>), Vector(<<Map, Vector(<<>>), Three>>),
   Collection(<< <<"z">> >>, <<Vector(<<Long, Yes>>)>>)}

MCEditTokens == {"1", "z", ".", "-", ",", ":", "quote", "[", "}", "line"}

MCNegative == {OfNumbers("Decimal", <<1, 1, 5, 0>>)}
===============================================================================
