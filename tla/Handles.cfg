\* Two variables, a vector and a collection.
CONSTANTS
  a = a
  b = b
  Int_ = Int_
  Text = Text
  Names = {a, b}
  Keys = {1, 2}
  Types = {Int_, Text}
  Values = {0, 1}
  MaxImpls = 2
  MaxLength = 1
SPECIFICATION Spec
SYMMETRY Interchangeable
INVARIANTS CastsSound WalkComplete
PROPERTY CopiesKeepValue
