---------------------------- MODULE MCObjectStream ----------------------------
(* Objects of every shape of payload, nested twice. *)
EXTENDS ObjectStream

Part(key, o) == [key |-> key, value |-> o]

Yes == Object("Boolean", <<1>>, <<>>)
Moved == Object("Boolean", <<>>, <<>>)
Text == Object("String", <<31>>, <<>>)
Late == Object("Unknown", <<1, 1>>, <<>>)
Address == Object("IpAddress", <<1, 3>>, <<>>)
Numbers == Object("IntegerVector", <<3>>, <<>>)
Counts == Object("UnsignedIntegerVector", <<>>, <<>>)
List == Object("Vector", <<>>, <<Part(<<>>, Text), Part(<<>>, EmptyObject)>>)
Nest == Object("Collection", <<>>, <<Part(<<3>>, List), Part(<<5>>, Numbers)>>)
Row == Object("Vector", <<>>,
              <<Part(<<>>, Address), Part(<<>>, Counts), Part(<<>>, Late)>>)

MCObjects ==
  {EmptyObject, Yes, Moved, Text, Late, Address, Numbers, Counts, List, Nest, Row}
MCWritten == {Moved, Nest, Row}
MCFlat == {Yes, Text, EmptyObject}
MCBytes == {0, 3, TypeId["Empty"], TypeId["Vector"]}
===============================================================================
