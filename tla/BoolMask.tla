------------------------------- MODULE BoolMask -------------------------------
(***************************************************************************)
(* BoolMask.h: what is known of a condition on a set of rows, as a pair of *)
(* booleans: can it be true of some row, can it be false of some row.      *)
(***************************************************************************)

BoolMasks == [can_be_true : BOOLEAN, can_be_false : BOOLEAN]

Mask(t, f) == [can_be_true |-> t, can_be_false |-> f]

\* operator&
And(m, n) == Mask(m.can_be_true /\ n.can_be_true, m.can_be_false \/ n.can_be_false)

\* operator|
Or(m, n) == Mask(m.can_be_true \/ n.can_be_true, m.can_be_false /\ n.can_be_false)

\* operator!
Not(m) == Mask(m.can_be_false, m.can_be_true)

\* The mask of the union of two sets of rows.
combine(m, n) == Mask(m.can_be_true \/ n.can_be_true, m.can_be_false \/ n.can_be_false)

isComplete(m) == m.can_be_true /\ m.can_be_false

(* A mask is sound for a set of rows if it misses neither a row in T, of   *)
(* which the condition is true, nor one in F, of which it is false.        *)
Sound(m, rows, T, F) ==
    /\ rows \cap T # {} => m.can_be_true
    /\ rows \cap F # {} => m.can_be_false

===============================================================================
