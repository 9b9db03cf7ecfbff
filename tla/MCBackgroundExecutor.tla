------------------------ MODULE MCBackgroundExecutor ------------------------
EXTENDS BackgroundExecutor

(* Workers, tasks and tables are only compared with each other; every      *)
(* worker is started by the constructor where this is used.                *)
Symmetry == Permutations(Workers) \cup Permutations(Tasks) \cup Permutations(Storages)
=============================================================================
