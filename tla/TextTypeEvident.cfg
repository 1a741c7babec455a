\* A decimal below zero.
CONSTANTS
  LineWidth = 12
  MaxDepth = 3
  Objects <- MCNegative
  EditTokens = {}
  MaxEdits = 0
  MaxTrips = 1
SPECIFICATION Spec
INVARIANT TypeEvident
