SPECIFICATION Spec
CONSTANTS
  Workers = {w1, w2}
  InitialWorkers = {w1, w2}
  Tasks = {t1, t2}
  NoTask = NoTask
  Storages = {s1, s2}
  Priorities = {0, 1}
  TaskLimits = {1, 2}
  Policies = {"round_robin", "shortest_task_first"}
  AsyncMoves = FALSE
INVARIANTS OneQueue FinishedIsQuiet NoTaskLost
SYMMETRY Symmetry
