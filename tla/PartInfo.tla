------------------------------ MODULE PartInfo ------------------------------
(***************************************************************************)
(* The identity of a data part (MergeTreePartInfo): the range of block     *)
(* numbers it was built from, the number of merges it went through (level) *)
(* and the version of the last mutation applied to it.  Parts of different *)
(* partitions never interact, so the specification follows one partition   *)
(* and the partition id is left out.                                       *)
(***************************************************************************)
EXTENDS Naturals

CONSTANTS MAX_LEVEL,         \* level of a drop range that covers everything
          LEGACY_MAX_LEVEL   \* the same, in the old format

ASSUME LevelAssumption == MAX_LEVEL \in Nat /\ LEGACY_MAX_LEVEL \in Nat

(* Every identity the struct can hold for a sane part (min <= max).        *)
AnyInfo == {i \in [min : Nat, max : Nat, level : Nat, mutation : Nat] : i.min <= i.max}

SameBlocks(a, b) == a.min = b.min /\ a.max = b.max

isFakeDropRangePart(a) == a.level = MAX_LEVEL \/ a.level = LEGACY_MAX_LEVEL

(* a was obtained by merging b with other parts, or by mutating b.         *)
contains(a, b) ==
    /\ a.min <= b.min
    /\ a.max >= b.max
    /\ a.level >= b.level
    /\ a.mutation >= b.mutation
    /\ SameBlocks(a, b) \/ a.level > b.level \/ isFakeDropRangePart(a)

isDisjoint(a, b) == a.min > b.max \/ a.max < b.min

(* operator<=>: the lexicographic order of the fields.                     *)
Less(a, b) ==
    \/ a.min < b.min
    \/ a.min = b.min /\ a.max < b.max
    \/ SameBlocks(a, b) /\ a.level < b.level
    \/ SameBlocks(a, b) /\ a.level = b.level /\ a.mutation < b.mutation

(* Two parts that can be neither siblings nor ancestor and descendant.     *)
Intersect(a, b) == ~isDisjoint(a, b) /\ ~contains(a, b) /\ ~contains(b, a)

(***************************************************************************)
(* getPartHierarchy.  The parts of one state are walked from the place     *)
(* where p would be inserted, to the left and to the right; a walk goes on *)
(* over parts that p contains and stops at the first one that it does not. *)
(***************************************************************************)
Left(p, parts)  == {q \in parts : Less(q, p)}
Right(p, parts) == {q \in parts : ~Less(q, p)}

(* A faulty variant: the walk to the left is forgotten.                    *)
LeftRunNone(p, parts) == {}

LeftRun(p, parts) ==
    {q \in Left(p, parts) : \A r \in Left(p, parts) : ~Less(r, q) => contains(p, r)}

RightRun(p, parts) ==
    {q \in Right(p, parts) : \A r \in Right(p, parts) : ~Less(q, r) => contains(p, r)}

(* The part at which each walk stops, if any.                              *)
Stops(p, parts) ==
    {q \in Left(p, parts) :
        ~contains(p, q) /\ \A r \in Left(p, parts) : Less(q, r) => contains(p, r)}
    \cup
    {q \in Right(p, parts) :
        ~contains(p, q) /\ \A r \in Right(p, parts) : Less(r, q) => contains(p, r)}

CoveredParts(p, parts) ==
    LeftRun(p, parts)
    \cup (RightRun(p, parts) \ (IF LeftRun(p, parts) = {} THEN {p} ELSE {}))

CoveringParts(p, parts) == {q \in Stops(p, parts) : contains(q, p)}

IntersectedParts(p, parts) ==
    {q \in Stops(p, parts) : ~contains(q, p) /\ ~isDisjoint(p, q)}
=============================================================================
