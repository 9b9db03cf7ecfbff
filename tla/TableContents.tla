--------------------------- MODULE TableContents ---------------------------
(***************************************************************************)
(* What a MergeTree table promises to its users: a set of rows, in batches *)
(* as they were inserted.  A batch appears once, when it is inserted, and  *)
(* disappears only after a DROP asked for it.  Merges, the removal of old  *)
(* parts, crashes and restarts are invisible.                              *)
(***************************************************************************)
CONSTANT Batches

VARIABLES contents,  \* the batches in the table
          inserted,  \* every batch inserted so far
          doomed     \* the batches some DROP was asked to delete

tableVars == <<contents, inserted, doomed>>

TableInit == contents = {} /\ inserted = {} /\ doomed = {}

Insert(b) ==
    /\ b \notin inserted
    /\ contents' = contents \cup {b}
    /\ inserted' = inserted \cup {b}
    /\ UNCHANGED doomed

AskDrop(S) ==
    /\ doomed' = doomed \cup S
    /\ UNCHANGED <<contents, inserted>>

Drop(S) ==
    /\ contents' = contents \ S
    /\ UNCHANGED <<inserted, doomed>>

TableNext ==
    \/ \E b \in Batches : Insert(b)
    \/ \E S \in SUBSET contents : AskDrop(S)
    \/ \E S \in SUBSET (contents \cap doomed) : Drop(S)

TableSpec == TableInit /\ [][TableNext]_tableVars
=============================================================================
