SPECIFICATION Spec
CONSTANTS
  MAX_LEVEL = 9
  LEGACY_MAX_LEVEL = 99
  MAX_BLOCK_NUMBER = 9
  Scenarios <- AllScenarios
  MaxLevel = 1
  MaxRunning = 2
  LateCrashes = FALSE
INVARIANTS NoIntersection Converged NeverStuck AltersInOrder MutationDoneIsDone
CHECK_DEADLOCK FALSE
