\* Groups of 2 bits, 64-bit types scaled to 7 bits, narrow types to 3 and 4.
CONSTANTS
  Group = 4
  Half = 2
  IMax = 63
  UMax = 127
  MinLead = 16
  SMaxes = {3, 7, 63}
  UMaxes = {7, 15, 127}
  MaxWire = 4
  Wires <- MCWires
SPECIFICATION FairSpec
INVARIANTS TypeOK NoArithmeticOverflow CastsLossless ExactParse
PROPERTY Terminates
CHECK_DEADLOCK FALSE
