\* One Write that fails, a crash, one byte damaged behind the lengths of a frame.
CONSTANTS
  Objects <- MCObjects
  Written <- MCWritten
  MaxObjects = 2
  MaxFailures = 1
  ShortWrites = {0, 1, 2, 3, 5, 8, 13, 21}
  MaxDamages = 1
  DamageKinds = {"payload", "typeId"}
  DamageBytes <- MCBytes
SPECIFICATION FairSpec
INVARIANTS TypeOK Resynchronizes
PROPERTIES ImplementsLog ReadsOn
CHECK_DEADLOCK FALSE
