SPECIFICATION DedupSpec
CONSTANTS
  MAX_LEVEL = 9
  LEGACY_MAX_LEVEL = 99
  BlockIds = {a, b, c}
  Windows = {0, 1, 2}
  MaxBatch = 2
  MaxNumber = 3
  MaxInserts = 3
  MaxRestarts = 1
  MaxFailures = 1
  MaxChanges = 1
  Appends = {TRUE, FALSE}
  TornWrites = TRUE
INVARIANTS RotationForgetsNothing RefusedAreInTable RestartRefusesNoMore
SYMMETRY Symmetry
\* Every bound is spent in the end.
CHECK_DEADLOCK FALSE
