------------------------- MODULE MCReplicationQueue -------------------------
EXTENDS ReplicationQueue

Scenario(kinds, entries, failures) ==
    [kinds |-> kinds, blocks |-> 3, entries |-> entries, faults |-> failures]

(* Parts that come and go, without mutations.                              *)
Ranges == Scenario({"insert", "attach", "merge", "drop_range", "drop_part", "replace"}, 3, 1)

(* Three blocks are attached, the one in the middle is merged (alone) and  *)
(* dropped, and what is on both sides of the gap is merged.                *)
Gaps == Scenario({"attach", "merge", "drop_part"}, 4, 0)

(* Mutations among them, with merges or with a fault.                      *)
Mutations      == Scenario({"insert", "mutate", "drop_range", "drop_part", "replace"}, 3, 1)
MutationsMerge == Scenario({"insert", "merge", "mutate", "drop_range", "drop_part", "replace"}, 3, 0)

(* ALTERs, with merges and a fault or with other mutations.                *)
Alters       == Scenario({"insert", "merge", "alter"}, 3, 1)
AltersMutate == Scenario({"insert", "mutate", "alter"}, 3, 0)

AllScenarios == {Ranges, Gaps, Mutations, MutationsMerge, Alters, AltersMutate}
=============================================================================
