\* Two variables, one of which is moved from.
CONSTANTS
  a = a
  b = b
  Int_ = Int_
  Text = Text
  Names = {a, b}
  Keys = {}
  Types = {Int_, Text}
  Values = {0, 1}
  MaxImpls = 2
  MaxLength = 0
SPECIFICATION Spec
INVARIANT ComparisonDefined
