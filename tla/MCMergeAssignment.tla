------------------------- MODULE MCMergeAssignment -------------------------
EXTENDS MergeAssignment, TLC
Symmetric == Permutations(Replicas)
OneAssigner  == [kinds |-> {"mutation", "quorum", "pin"}, assigners |-> 1]
TwoAssigners == [kinds |-> {}, assigners |-> 2]
Both == {OneAssigner, TwoAssigners}
=============================================================================
