SPECIFICATION Spec
CONSTANTS
  MAX_LEVEL = 9
  LEGACY_MAX_LEVEL = 99
  Writers = {w1, w2}
  Readers = {r1}
  Cleaners = {c1}
  MaxBlock = 3
  MaxLevel = 1
  MaxRows = 3
  MaxCrashes = 0
  MaxFailures = 1
  MaxRemovalFailures = 0
  LateFailures = TRUE
  MarkStored = FALSE
INVARIANTS ActiveDisjoint ReadPartsOnDisk
CHECK_DEADLOCK FALSE
