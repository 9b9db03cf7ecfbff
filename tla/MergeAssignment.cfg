SPECIFICATION Spec
CONSTANTS
  MAX_LEVEL = 9
  LEGACY_MAX_LEVEL = 99
  MAX_BLOCK_NUMBER = 9
  Replicas = {r1, r2}
  Scenarios <- Both
  MaxBlock = 3
  MaxLevel = 1
  MaxAssigned = 2
SYMMETRY Symmetric
INVARIANTS GapStaysEmpty AssignedOnce SameMutations
PROPERTY HeldPartsNotMerged
CHECK_DEADLOCK FALSE
