\* Two values of each type, of at most two elements, and one spoilt byte.
CONSTANTS
  Numbers = {1, 255}
  Chars = {65, 960}
  MaxLen = 2
  MaxValues = 2
  Flips = {128}
  Streamed <- MCStreamed
  Shapes <- MCShapes
SPECIFICATION FairSpec
INVARIANTS TypeOK OffsetAtBoundary RefusedOnlyIfCut
PROPERTY ImplementsChannel
CHECK_DEADLOCK FALSE
