\* 32-bit usize, scaled to 6 of 9 bits.
CONSTANTS
  Group = 4
  Half = 2
  IMax = 255
  UMax = 511
  MinLead = 64
  SMaxes = {7, 31, 255}
  UMaxes = {15, 63, 511}
  UsizeMax = 63
  OverflowChecks = {FALSE}
SPECIFICATION FairSpec
INVARIANT ArrivesUnchanged
CHECK_DEADLOCK FALSE
