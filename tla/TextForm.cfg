\* One token of a text changed by hand; lines of twelve tokens.
CONSTANTS
  LineWidth = 12
  MaxDepth = 3
  Objects <- MCObjects
  EditTokens <- MCEditTokens
  MaxEdits = 1
  MaxTrips = 2
SPECIFICATION Spec
INVARIANTS TypeOK RoundTrip
PROPERTIES Advances ParseReturns
