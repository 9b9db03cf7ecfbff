SPECIFICATION FairSpec
CONSTANTS
  MAX_LEVEL = 9
  LEGACY_MAX_LEVEL = 99
  Writers = {w1}
  Readers = {r1}
  Cleaners = {c1}
  MaxBlock = 2
  MaxLevel = 1
  MaxRows = 2
  MaxCrashes = 1
  MaxFailures = 1
  MaxRemovalFailures = 1
  LateFailures = FALSE
  MarkStored = TRUE
INVARIANT DiskPartsKnown
PROPERTY GarbageReclaimed
