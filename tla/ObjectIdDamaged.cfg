\* A type identifier damaged: its length, or into that of Empty.
CONSTANTS
  Objects <- MCFlat
  Written <- MCFlat
  MaxObjects = 2
  MaxFailures = 0
  ShortWrites = {}
  MaxDamages = 1
  DamageKinds = {"toEmpty", "typeIdLength"}
  DamageBytes <- MCBytes
SPECIFICATION Spec
INVARIANT Resynchronizes
CHECK_DEADLOCK FALSE
