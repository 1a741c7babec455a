\* 64-bit usize, debug and release profile.
CONSTANTS
  Group = 4
  Half = 2
  IMax = 255
  UMax = 511
  MinLead = 64
  SMaxes = {7, 31, 255}
  UMaxes = {15, 63, 511}
  UsizeMax = 511
  OverflowChecks = {TRUE, FALSE}
SPECIFICATION FairSpec
INVARIANTS TypeOK RoundTrip TruncationDetected ShortestForm
PROPERTIES ImplementsTransfer Settles
CHECK_DEADLOCK FALSE
