\* 64-bit usize, debug profile.
CONSTANTS
  Group = 4
  Half = 2
  IMax = 255
  UMax = 511
  MinLead = 64
  SMaxes = {7, 31, 255}
  UMaxes = {15, 63, 511}
  UsizeMax = 511
  OverflowChecks = {TRUE}
SPECIFICATION FairSpec
INVARIANT NeverPanics
CHECK_DEADLOCK FALSE
