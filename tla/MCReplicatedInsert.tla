------------------------- MODULE MCReplicatedInsert -------------------------
EXTENDS ReplicatedInsert, TLC
Symmetry == Permutations(Replicas) \cup Permutations(Inserts) \cup Permutations(Contents)
=============================================================================
