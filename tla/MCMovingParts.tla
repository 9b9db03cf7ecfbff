--------------------------- MODULE MCMovingParts ---------------------------
(* MovingParts with a small number of disks, queries and blocks.           *)
EXTENDS MovingParts, TLC

Symmetric == Permutations(Disks)
=============================================================================
