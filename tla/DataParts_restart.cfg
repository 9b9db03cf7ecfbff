SPECIFICATION Spec
CONSTANTS
  MAX_LEVEL = 9
  LEGACY_MAX_LEVEL = 99
  Writers = {w1}
  Readers = {}
  Cleaners = {c1}
  MaxBlock = 3
  MaxLevel = 2
  MaxRows = 3
  MaxCrashes = 2
  MaxFailures = 0
  MaxRemovalFailures = 0
  LateFailures = FALSE
  MarkStored = FALSE
INVARIANTS AlwaysLoadable UnloadedNamesFree RestartShowsVisibleRows
PROPERTY ImplementsTable
\* With every bound spent and every old part removed, nothing is left to do.
CHECK_DEADLOCK FALSE
