SPECIFICATION FairSpec
CONSTANTS
  Workers = {w1, w2}
  InitialWorkers = {w1}
  Tasks = {t1, t2, t3}
  NoTask = NoTask
  Storages = {s1}
  Priorities = {0}
  TaskLimits = {3}
  Policies = {"round_robin"}
  AsyncMoves = TRUE
PROPERTIES FinishEnds NeverStarved ShutdownEnds
