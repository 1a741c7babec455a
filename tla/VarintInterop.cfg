\* The int scaled to 4 bits, the uint64_t to 7.
CONSTANTS
  Group = 4
  Half = 2
  IMax = 63
  UMax = 127
  MinLead = 16
  SMaxes = {7, 63}
  UMaxes = {15, 127}
  UsizeMax = 127
  OverflowChecks = {FALSE}
  IntMax = 7
  MaxWire = 5
SPECIFICATION Spec
INVARIANTS CppTypeOK SameBytes SameReading ReadersAgree WrapsToLowBits
CHECK_DEADLOCK FALSE
