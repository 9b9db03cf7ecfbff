----------------------------- MODULE MCDedupLog -----------------------------
EXTENDS DedupLog

(* The log compares ids of blocks and does nothing else with them.         *)
Symmetry == Permutations(BlockIds)
=============================================================================
