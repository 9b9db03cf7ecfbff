------------------------- MODULE MCParallelReading -------------------------
EXTENDS ParallelReading

CONSTANTS r1, r2, r3

(* A part of two marks, which are one segment, and one of a single mark.   *)
MCMarks == {<<1, 0>>, <<1, 1>>, <<2, 0>>}

(* Two marks for a request, so that an answer may be put together from     *)
(* several sources and may split the segment; in order, one of each part,  *)
(* so that a part takes several answers.                                   *)
MCMinMarks == [m \in Modes |-> IF m = "Default" THEN 2 ELSE 1]

(* Every assignment in which the stealer of part 2's segment is not its    *)
(* owner, up to the exchange of r2 and r3.                                 *)
MCHashes == {h \in [Segments -> Replicas] \X [Segments -> Replicas] :
                h[1][<<1, 0>>] # r3 /\ h[1][<<2, 0>>] # h[2][<<2, 0>>]}

=============================================================================
