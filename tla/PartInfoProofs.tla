--------------------------- MODULE PartInfoProofs ---------------------------
(***************************************************************************)
(* Facts about the identities of parts, for any block numbers, levels and  *)
(* mutation versions: the order of parts, containment, and what the walk   *)
(* of getPartHierarchy may conclude from looking at a few neighbours.      *)
(***************************************************************************)
EXTENDS PartInfo, WellFoundedInduction, TLAPS

USE LevelAssumption

(* contains(a, b) orders parts: a merge of merges covers what they cover,  *)
(* drop ranges of either format included.                                  *)
THEOREM ContainsTransitive ==
    ASSUME NEW a \in AnyInfo, NEW b \in AnyInfo, NEW c \in AnyInfo,
           contains(a, b), contains(b, c)
    PROVE  contains(a, c)
  BY DEF AnyInfo, contains, SameBlocks, isFakeDropRangePart

(* Two parts that contain each other are the same part.                    *)
THEOREM ContainsAntisymmetric ==
    ASSUME NEW a \in AnyInfo, NEW b \in AnyInfo, contains(a, b), contains(b, a)
    PROVE  a = b
  <1>1. a.min = b.min /\ a.max = b.max /\ a.level = b.level /\ a.mutation = b.mutation
    BY DEF AnyInfo, contains
  <1> QED
    BY <1>1 DEF AnyInfo

(* operator< is a strict total order.                                      *)
LEMMA LessTotal ==
    ASSUME NEW a \in AnyInfo, NEW b \in AnyInfo
    PROVE  a = b \/ Less(a, b) \/ Less(b, a)
  BY DEF AnyInfo, Less, SameBlocks

LEMMA LessIrreflexive ==
    ASSUME NEW a \in AnyInfo
    PROVE  ~Less(a, a)
  BY DEF AnyInfo, Less, SameBlocks

LEMMA DisjointSymmetric ==
    ASSUME NEW a \in AnyInfo, NEW b \in AnyInfo, isDisjoint(a, b)
    PROVE  isDisjoint(b, a)
  BY DEF AnyInfo, isDisjoint

(* What a part contains it overlaps.                                       *)
LEMMA ContainsOverlaps ==
    ASSUME NEW a \in AnyInfo, NEW b \in AnyInfo, contains(a, b)
    PROVE  ~isDisjoint(a, b)
  BY DEF AnyInfo, contains, isDisjoint

(* Every set of parts has one that begins no later than the others.        *)
LEMMA FirstExists ==
    ASSUME NEW S \in SUBSET AnyInfo, S # {}
    PROVE  \E f \in S : \A q \in S : f.min <= q.min
  <1> DEFINE M == {q.min : q \in S}
  <1>1. M \subseteq Nat /\ M # {}
    BY DEF AnyInfo
  <1> DEFINE R == {ss \in Nat \X Nat : ss[1] < ss[2]}
  <1>2. IsWellFoundedOn(R, Nat)
    BY NatLessThanWellFounded, Zenon DEF OpToRel
  <1>3. PICK x \in M : \A y \in M : ~(<<y, x>> \in R)
    BY <1>1, <1>2, WFMin
  <1>31. \A y, z \in Nat : y < z => <<y, z>> \in R
    OBVIOUS
  <1>32. \A y \in M : y \in Nat /\ ~(y < x)
    BY <1>1, <1>3, <1>31
  <1>4. x \in Nat /\ \A y \in M : x <= y
    BY <1>1, <1>32
  <1>5. PICK f \in S : f.min = x
    OBVIOUS
  <1> QED
    BY <1>4, <1>5

(* The parts that the walk reports as covered are covered, and are parts   *)
(* of the state that was walked.                                           *)
LEMMA CoveredAreContained ==
    ASSUME NEW S \in SUBSET AnyInfo, NEW p \in AnyInfo, NEW q \in CoveredParts(p, S)
    PROVE  q \in S /\ contains(p, q)
  <1>1. q \in S /\ q \in AnyInfo
    BY DEF CoveredParts, LeftRun, RightRun, Left, Right
  <1>2. ~Less(q, q)
    BY <1>1, LessIrreflexive
  <1> QED
    BY <1>1, <1>2 DEF CoveredParts, LeftRun, RightRun

PairwiseDisjoint(S) == \A a, b \in S : a = b \/ isDisjoint(a, b)

(* The walk is complete: among parts that do not overlap, when it finds    *)
(* neither a part that covers p nor one that intersects it, then every     *)
(* part that it did not report as covered is disjoint from p, although it  *)
(* looked at no more than one part beyond the covered ones on each side.   *)
THEOREM WalkComplete ==
    ASSUME NEW S \in SUBSET AnyInfo, PairwiseDisjoint(S), NEW p \in AnyInfo,
           IntersectedParts(p, S) = {}, CoveringParts(p, S) = {},
           NEW q \in S, q # p, ~isDisjoint(p, q)
    PROVE  q \in CoveredParts(p, S)
  <1>1. \A s \in Stops(p, S) : isDisjoint(p, s)
    BY DEF IntersectedParts, CoveringParts
  <1>2. CASE Less(q, p)
    <2>1. \A r \in Left(p, S) : ~Less(r, q) => r = q
      <3> SUFFICES ASSUME NEW r \in Left(p, S), ~Less(r, q), r # q
                   PROVE  FALSE
        OBVIOUS
      <3>1. r \in S /\ r \in AnyInfo /\ q \in AnyInfo /\ Less(r, p) /\ isDisjoint(q, r)
        BY DEF Left, PairwiseDisjoint
      <3>2. Less(q, r)
        BY <3>1, LessTotal
      <3> QED
        BY <1>2, <3>1, <3>2 DEF AnyInfo, Less, SameBlocks, isDisjoint
    <2>2. q \in Left(p, S)
      BY <1>2 DEF Left
    <2>3. \A r \in Left(p, S) : ~Less(q, r)
      <3> SUFFICES ASSUME NEW r \in Left(p, S), Less(q, r)
                   PROVE  FALSE
        OBVIOUS
      <3>1. r \in AnyInfo /\ q \in AnyInfo
        BY DEF Left
      <3>2. ~Less(r, q)
        BY <3>1 DEF AnyInfo, Less, SameBlocks
      <3>3. r = q
        BY <2>1, <3>2
      <3> QED
        BY <3>1, <3>3, LessIrreflexive
    <2>4. contains(p, q)
      <3> SUFFICES ASSUME ~contains(p, q)
                   PROVE  FALSE
        OBVIOUS
      <3>1. q \in Stops(p, S)
        BY <2>2, <2>3 DEF Stops
      <3> QED
        BY <1>1, <3>1
    <2> QED
      BY <2>1, <2>2, <2>4 DEF CoveredParts, LeftRun
  <1>3. CASE ~Less(q, p)
    <2> DEFINE B == {r \in Right(p, S) : ~Less(q, r) /\ ~contains(p, r)}
    <2>1. q \in Right(p, S)
      BY <1>3 DEF Right
    <2>2. B = {}
      <3> SUFFICES ASSUME B # {}
                   PROVE  FALSE
        OBVIOUS
      <3>1. B \in SUBSET AnyInfo
        BY DEF Right
      <3>2. PICK f \in B : \A r \in B : f.min <= r.min
        BY <3>1, FirstExists
      <3>3. f \in AnyInfo /\ f \in S /\ f \in Right(p, S) /\ ~Less(f, p) /\ ~Less(q, f)
            /\ ~contains(p, f) /\ q \in AnyInfo
        BY <3>1 DEF Right
      <3>4. \A r \in Right(p, S) : Less(r, f) => contains(p, r)
        <4> SUFFICES ASSUME NEW r \in Right(p, S), Less(r, f), ~contains(p, r)
                     PROVE  FALSE
          OBVIOUS
        <4>1. r \in AnyInfo /\ r \in S
          BY DEF Right
        <4>2. ~Less(q, r)
          BY <3>3, <4>1 DEF AnyInfo, Less, SameBlocks
        <4>3. f.min <= r.min
          BY <3>2, <4>2
        <4>4. r.min <= f.min
          BY <3>3, <4>1 DEF AnyInfo, Less, SameBlocks
        <4>5. ~isDisjoint(r, f)
          BY <3>3, <4>1, <4>3, <4>4 DEF AnyInfo, isDisjoint
        <4>6. r = f
          BY <3>3, <4>1, <4>5 DEF PairwiseDisjoint
        <4> QED
          BY <3>3, <4>6, LessIrreflexive
      <3>5. f \in Stops(p, S)
        BY <3>3, <3>4 DEF Stops
      <3>6. isDisjoint(p, f)
        BY <1>1, <3>5
      <3>7. f.min > p.max
        BY <3>3, <3>6 DEF AnyInfo, Less, SameBlocks, isDisjoint
      <3>8. f.min <= q.min
        BY <3>3 DEF AnyInfo, Less, SameBlocks
      <3> QED
        BY <3>3, <3>7, <3>8 DEF AnyInfo, isDisjoint
    <2>3. q \in RightRun(p, S)
      BY <2>1, <2>2 DEF RightRun
    <2> QED
      BY <2>3 DEF CoveredParts
  <1> QED
    BY <1>2, <1>3

(***************************************************************************)
(* Facts about the numbers, for the loops of the modules about parts.      *)
(***************************************************************************)
(* Induction up to N, as a fact about the set of the numbers for which     *)
(* the claim holds: the least number outside it has a predecessor inside.  *)
LEMMA UpTo ==
    ASSUME NEW N \in Nat, NEW S, 0 \in S, \A k \in 0..N - 1 : k \in S => k + 1 \in S
    PROVE  0..N \subseteq S
  <1> DEFINE M == {k \in 0..N : k \notin S}
  <1> DEFINE R == {ss \in Nat \X Nat : ss[1] < ss[2]}
  <1> SUFFICES ASSUME M # {} PROVE FALSE
    OBVIOUS
  <1>1. M \subseteq Nat
    OBVIOUS
  <1>2. IsWellFoundedOn(R, Nat)
    BY NatLessThanWellFounded, Zenon DEF OpToRel
  <1>3. PICK x \in M : \A y \in M : ~(<<y, x>> \in R)
    BY <1>1, <1>2, WFMin, Zenon
  <1>4. x # 0 /\ x \in 1..N
    BY <1>3
  <1>5. x - 1 \notin M
    <2>1. x - 1 \in Nat /\ x \in Nat /\ x - 1 < x
      BY <1>4
    <2>2. <<x - 1, x>> \in R
      BY <2>1
    <2> QED
      BY <1>3, <2>2
  <1>6. x - 1 \in S
    BY <1>4, <1>5
  <1>7. x - 1 \in 0..N - 1 /\ (x - 1) + 1 = x
    BY <1>4
  <1> QED
    BY <1>6, <1>7

(* The values in X that a loop of N steps runs through, from b on.         *)
IsLoop(g, b, N, X, F) ==
    g \in [0..N -> X] /\ g[0] = b /\ \A i \in 1..N : g[i] = F[<<g[i - 1], i>>]

(* A loop of N steps over values in X runs to its end.                     *)
LEMMA LoopExists ==
    ASSUME NEW X, NEW N \in Nat, NEW b \in X, NEW F \in [X \X (1..N) -> X]
    PROVE  \E g : IsLoop(g, b, N, X, F)
  <1> DEFINE Loop(k) == \E g \in [0..k -> X] :
                            g[0] = b /\ \A i \in 1..k : g[i] = F[<<g[i - 1], i>>]
  <1> DEFINE S == {k \in 0..N : Loop(k)}
  <1>1. 0 \in S
    <2> DEFINE g == [i \in 0..0 |-> b]
    <2>1. g \in [0..0 -> X] /\ g[0] = b
      OBVIOUS
    <2> HIDE DEF g
    <2>2. Loop(0)
      BY <2>1
    <2> QED
      BY <2>2
  <1>2. ASSUME NEW k \in 0..N - 1, k \in S PROVE k + 1 \in S
    <2>1. PICK g \in [0..k -> X] : g[0] = b /\ \A i \in 1..k : g[i] = F[<<g[i - 1], i>>]
      BY <1>2
    <2> DEFINE h == [i \in 0..k + 1 |-> IF i = k + 1 THEN F[<<g[k], k + 1>>] ELSE g[i]]
    <2>2. <<g[k], k + 1>> \in X \X (1..N)
      OBVIOUS
    <2>3. h \in [0..k + 1 -> X]
      BY <2>2
    <2>4. h[0] = b
      BY <2>1
    <2>5. ASSUME NEW i \in 1..k + 1 PROVE h[i] = F[<<h[i - 1], i>>]
      <3>1. CASE i = k + 1
        <4>1. h[i] = F[<<g[k], k + 1>>] /\ i - 1 = k /\ h[k] = g[k]
          BY <3>1
        <4> QED
          BY <3>1, <4>1
      <3>2. CASE i \in 1..k
        BY <2>1, <3>2
      <3> QED
        BY <3>1, <3>2
    <2> HIDE DEF h
    <2>6. Loop(k + 1)
      BY <2>3, <2>4, <2>5
    <2> QED
      BY <2>6
  <1> HIDE DEF S
  <1>3. 0..N \subseteq S
    BY <1>1, <1>2, UpTo
  <1>4. N \in S
    BY <1>3
  <1> QED
    BY <1>4 DEF S, IsLoop

LEMMA Greatest ==
    ASSUME NEW N \in Nat, NEW A \in SUBSET (0..N), A # {}
    PROVE  \E x \in A : \A y \in A : x >= y
  <1> DEFINE S == {k \in 0..N : (\E x \in A : x <= k) =>
                                  \E x \in A : x <= k /\ \A y \in A : y <= k => x >= y}
  <1>1. 0 \in S
    <2>1. ASSUME NEW x \in A, x <= 0 PROVE \A y \in A : y <= 0 => x >= y
      BY <2>1
    <2> QED
      BY <2>1
  <1>2. ASSUME NEW k \in 0..N - 1, k \in S PROVE k + 1 \in S
    <2>1. CASE k + 1 \in A
      <3>1. \A y \in A : y <= k + 1 => k + 1 >= y
        OBVIOUS
      <3> QED
        BY <2>1, <3>1
    <2>2. CASE k + 1 \notin A
      <3>1. \A y \in A : y <= k + 1 => y <= k
        BY <2>2
      <3>2. \A y \in A : y <= k => y <= k + 1
        OBVIOUS
      <3> QED
        BY <1>2, <3>1, <3>2
    <2> QED
      BY <2>1, <2>2
  <1> HIDE DEF S
  <1>3. 0..N \subseteq S
    BY <1>1, <1>2, UpTo
  <1>4. N \in S
    BY <1>3
  <1>5. \A y \in A : y <= N
    OBVIOUS
  <1> QED
    BY <1>4, <1>5 DEF S

LEMMA LeastExists ==
    ASSUME NEW A \in SUBSET Nat, A # {}
    PROVE  \E x \in A : \A y \in A : x <= y
  <1> DEFINE R == {ss \in Nat \X Nat : ss[1] < ss[2]}
  <1>1. IsWellFoundedOn(R, Nat)
    BY NatLessThanWellFounded, Zenon DEF OpToRel
  <1>2. PICK x \in A : \A y \in A : ~(<<y, x>> \in R)
    BY <1>1, WFMin, Zenon
  <1>3. ASSUME NEW y \in A, ~(x <= y) PROVE FALSE
    <2>1. x \in Nat /\ y \in Nat /\ y < x
      BY <1>3
    <2>2. <<y, x>> \in R
      BY <2>1
    <2> QED
      BY <1>2, <2>2
  <1> QED
    BY <1>3
=============================================================================
