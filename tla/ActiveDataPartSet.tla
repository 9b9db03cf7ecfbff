------------------------- MODULE ActiveDataPartSet -------------------------
(***************************************************************************)
(* ActiveDataPartSet: the part infos of one partition, of which none       *)
(* covers another, in a map ordered by Less.  Every look-up starts at the  *)
(* lower bound of the argument and looks at its neighbours only; this is   *)
(* right as long as no two infos of the set intersect.                     *)
(***************************************************************************)
EXTENDS PartInfo, FiniteSetsExt

Pairwise(S) == \A p, q \in S : p = q \/ isDisjoint(p, q)

(* The first element that is not less than p, and the one before it.       *)
LowerBound(S, p) == {q \in Right(p, S) : \A r \in Right(p, S) : ~Less(r, q)}
Previous(S, p)   == {q \in Left(p, S) : \A r \in Left(p, S) : ~Less(q, r)}

(* The containing part as a set of at most one element.                    *)
getContainingPart(S, p) ==
    LET next == {q \in LowerBound(S, p) : contains(q, p)}
    IN IF next # {} THEN next ELSE {q \in Previous(S, p) : contains(q, p)}

(* Both walks of addImpl and of getPartsCoveredByImpl.                     *)
Run(S, p) == LeftRun(p, S) \cup RightRun(p, S)

getPartsCoveredBy(S, p) ==
    IF \E q \in Stops(p, S) : contains(q, p) THEN {} ELSE Run(S, p)

(* The elements that make add throw "Part ... intersects part ...".        *)
Intersecting(S, p) ==
    IF getContainingPart(S, p) # {} THEN {}
    ELSE {q \in Stops(p, S) : ~isDisjoint(p, q)}

Added(S, p) == getContainingPart(S, p) = {}

add(S, p) == IF Added(S, p) THEN (S \ Run(S, p)) \cup {p} ELSE S

addAll(S, parts) == FoldSet(LAMBDA p, T : add(T, p), S, parts)

removePartAndCoveredParts(S, p) == S \ (getPartsCoveredBy(S, p) \cup {p})

removePartsCoveredBy(S, p) == S \ (getPartsCoveredBy(S, p) \ {p})
=============================================================================
