----------------------- MODULE MergeAssignmentProofs -----------------------
(***************************************************************************)
(* For any number of replicas that assign merges and mutations at the same *)
(* time, any block numbers and any sets of changes: no part is committed   *)
(* in the gap of a merge, no part is the source of two entries, the parts  *)
(* of a replica's queue never intersect, parts that are merged include the *)
(* same mutations, and neither a pinned part nor one that waits for its    *)
(* quorum is merged.                                                       *)
(***************************************************************************)
EXTENDS MergeAssignment, PartInfoProofs, SequenceTheorems, FiniteSetTheorems

(***************************************************************************)
(* What ActiveDataPartSet may conclude from looking at neighbours only:    *)
(* in a set of parts that do not overlap its look-ups find what there is   *)
(* to find, and add keeps the set free of overlaps unless it throws.       *)
(***************************************************************************)
LEMMA ContainsReflexive ==
    ASSUME NEW a \in AnyInfo
    PROVE  contains(a, a)
  BY DEF AnyInfo, contains, SameBlocks

LEMMA ContainingPartContains ==
    ASSUME NEW S, NEW p, NEW q \in getContainingPart(S, p)
    PROVE  q \in S /\ contains(q, p)
  BY DEF getContainingPart, LowerBound, Previous, Left, Right

(* getContainingPart (ActiveDataPartSet::getContainingPart) finds the part *)
(* of the set that contains p, if there is one, although it looks at the   *)
(* lower bound of p and at the part before that only.                      *)
THEOREM ContainingPartFound ==
    ASSUME NEW S \in SUBSET AnyInfo, Pairwise(S), NEW p \in AnyInfo,
           NEW q \in S, contains(q, p)
    PROVE  getContainingPart(S, p) = {q}
  <1>1. q \in AnyInfo
    OBVIOUS
  <1>2. \A x \in S : contains(x, p) => x = q
    <2> SUFFICES ASSUME NEW x \in S, contains(x, p), x # q
                 PROVE  FALSE
      OBVIOUS
    <2>1. x \in AnyInfo /\ isDisjoint(x, q)
      BY DEF Pairwise
    <2> QED
      BY <1>1, <2>1 DEF AnyInfo, isDisjoint, contains
  <1>3. ASSUME ~Less(q, p)
        PROVE  q \in LowerBound(S, p)
    <2>1. q \in Right(p, S)
      BY <1>3 DEF Right
    <2>2. ASSUME NEW r \in Right(p, S)
          PROVE  ~Less(r, q)
      <3>1. r \in AnyInfo /\ ~Less(r, p) /\ (r = q \/ isDisjoint(r, q))
        BY DEF Right, Pairwise
      <3>2. q.min = p.min
        BY <1>1, <1>3 DEF AnyInfo, Less, contains, SameBlocks
      <3>3. p.min <= r.min
        BY <3>1 DEF AnyInfo, Less, SameBlocks
      <3>4. CASE r = q
        BY <1>1, <3>4, LessIrreflexive
      <3>5. CASE isDisjoint(r, q)
        BY <1>1, <3>1, <3>2, <3>3, <3>5 DEF AnyInfo, Less, isDisjoint, SameBlocks
      <3> QED
        BY <3>1, <3>4, <3>5
    <2> QED
      BY <2>1, <2>2 DEF LowerBound
  <1>4. ASSUME Less(q, p)
        PROVE  q \in Previous(S, p)
    <2>1. q \in Left(p, S)
      BY <1>4 DEF Left
    <2>2. ASSUME NEW r \in Left(p, S)
          PROVE  ~Less(q, r)
      <3>1. r \in AnyInfo /\ Less(r, p) /\ (r = q \/ isDisjoint(r, q))
        BY DEF Left, Pairwise
      <3>2. r.min <= p.min /\ q.min <= p.min /\ p.max <= q.max /\ p.min <= p.max
        BY <1>1, <3>1 DEF AnyInfo, Less, SameBlocks, contains
      <3>3. CASE r = q
        BY <1>1, <3>3, LessIrreflexive
      <3>4. CASE isDisjoint(r, q)
        BY <1>1, <3>1, <3>2, <3>4 DEF AnyInfo, Less, isDisjoint, SameBlocks
      <3> QED
        BY <3>1, <3>3, <3>4
    <2> QED
      BY <2>1, <2>2 DEF Previous
  <1>5. \A x \in getContainingPart(S, p) : x = q
    BY <1>2, ContainingPartContains
  <1>6. q \in getContainingPart(S, p)
    <2> DEFINE next == {x \in LowerBound(S, p) : contains(x, p)}
    <2>1. CASE Less(q, p)
      <3>1. next = {}
        <4> SUFFICES ASSUME NEW x \in next
                     PROVE  FALSE
          OBVIOUS
        <4>1. x \in S /\ ~Less(x, p) /\ contains(x, p)
          BY DEF LowerBound, Right
        <4> QED
          BY <1>2, <2>1, <4>1
      <3> QED
        BY <1>4, <2>1, <3>1 DEF getContainingPart
    <2>2. CASE ~Less(q, p)
      BY <1>3, <2>2 DEF getContainingPart
    <2> QED
      BY <2>1, <2>2
  <1> QED
    BY <1>5, <1>6

LEMMA RunIsContained ==
    ASSUME NEW S \in SUBSET AnyInfo, NEW p \in AnyInfo, NEW q \in Run(S, p)
    PROVE  q \in S /\ contains(p, q)
  <1>1. q \in S /\ q \in AnyInfo
    BY DEF Run, LeftRun, RightRun, Left, Right
  <1>2. ~Less(q, q)
    BY <1>1, LessIrreflexive
  <1> QED
    BY <1>1, <1>2 DEF Run, LeftRun, RightRun

(* The walks of addImpl and getPartsCoveredByImpl: if no part of the set   *)
(* contains p and none intersects it, they visit all the parts that        *)
(* overlap p, and these are the parts that p contains.                     *)
THEOREM RunComplete ==
    ASSUME NEW S \in SUBSET AnyInfo, Pairwise(S), NEW p \in AnyInfo,
           \A s \in Stops(p, S) : isDisjoint(p, s),
           NEW q \in S, q # p, ~isDisjoint(p, q)
    PROVE  q \in Run(S, p)
  <1>1. PairwiseDisjoint(S)
    BY DEF Pairwise, PairwiseDisjoint
  <1>2. IntersectedParts(p, S) = {}
    BY DEF IntersectedParts
  <1>3. CoveringParts(p, S) = {}
    <2> SUFFICES ASSUME NEW s \in CoveringParts(p, S)
                 PROVE  FALSE
      OBVIOUS
    <2>1. s \in AnyInfo /\ contains(s, p) /\ isDisjoint(p, s)
      BY DEF CoveringParts, Stops, Left, Right
    <2> QED
      BY <2>1, ContainsOverlaps, DisjointSymmetric
  <1>4. q \in CoveredParts(p, S)
    BY <1>1, <1>2, <1>3, WalkComplete
  <1> QED
    BY <1>4 DEF CoveredParts, Run

(* ActiveDataPartSet::add keeps the parts of the set disjoint, and what    *)
(* was in the set, and the new part, is covered by it, unless it throws    *)
(* "Part ... intersects part ..." (Intersecting).                          *)
THEOREM AddKeepsDisjoint ==
    ASSUME NEW S \in SUBSET AnyInfo, Pairwise(S), NEW p \in AnyInfo, Intersecting(S, p) = {}
    PROVE  /\ Pairwise(add(S, p))
           /\ \A q \in S \cup {p} : \E r \in add(S, p) : contains(r, q)
  <1>1. CASE ~Added(S, p)
    <2>1. add(S, p) = S
      BY <1>1 DEF add
    <2>2. PICK r \in getContainingPart(S, p) : TRUE
      BY <1>1 DEF Added
    <2>3. r \in S /\ contains(r, p)
      BY <2>2, ContainingPartContains
    <2> QED
      BY <2>1, <2>3, ContainsReflexive
  <1>2. CASE Added(S, p)
    <2>1. add(S, p) = (S \ Run(S, p)) \cup {p}
      BY <1>2 DEF add
    <2>2. \A s \in Stops(p, S) : isDisjoint(p, s)
      BY <1>2 DEF Added, Intersecting
    <2>3. \A q \in S \ Run(S, p) : q = p \/ isDisjoint(p, q)
      BY <2>2, RunComplete
    <2>4. Pairwise(add(S, p))
      <3> SUFFICES ASSUME NEW a \in add(S, p), NEW b \in add(S, p), a # b
                   PROVE  isDisjoint(a, b)
        BY DEF Pairwise
      <3>1. a \in AnyInfo /\ b \in AnyInfo
        BY <2>1
      <3>2. CASE a \in S /\ b \in S
        BY <3>2 DEF Pairwise
      <3>3. CASE a = p
        BY <2>1, <2>3, <3>3
      <3>4. CASE b = p
        BY <2>1, <2>3, <3>1, <3>4, DisjointSymmetric
      <3> QED
        BY <2>1, <3>2, <3>3, <3>4
    <2>5. ASSUME NEW q \in S \cup {p}
          PROVE  \E r \in add(S, p) : contains(r, q)
      <3>1. q \in AnyInfo
        OBVIOUS
      <3>2. CASE q \in Run(S, p)
        BY <2>1, <3>2, RunIsContained
      <3>3. CASE q \notin Run(S, p)
        BY <2>1, <3>1, <3>3, ContainsReflexive
      <3> QED
        BY <3>2, <3>3
    <2> QED
      BY <2>4, <2>5
  <1> QED
    BY <1>1, <1>2

-----------------------------------------------------------------------------
(***************************************************************************)
(* Merges and mutations                                                    *)
(***************************************************************************)

USE AssignmentAssumption

Blocks == 0 .. next_block - 1

(* The parts that can exist.                                               *)
Live == {p \in Infos : p.min <= p.max /\ p.max < next_block}

Types == {"GET_PART", "MERGE_PARTS", "MUTATE_PART", "SYNC_PINNED_PART_UUIDS"}

Stages == {"idle", "committing", "list", "mutations", "pull", "ready", "create"}

Predicates(live) == [stage : Stages, prev : SUBSET live, committing : SUBSET Nat, quorum : SUBSET live,
                     pinned : SUBSET live, version : Nat, listed : Nat,
                     new : SUBSET live, sources : SUBSET live]

Entries(live) == [type : Types, new : SUBSET live, sources : SUBSET live]

(***************************************************************************)
(* The invariant                                                           *)
(***************************************************************************)
ZooKeeperTypes ==
    /\ next_block \in 0 .. MaxBlock
    /\ block_numbers \in [insert : SUBSET Blocks, mutation : SUBSET Blocks]
    /\ log \in Seq(Entries(Live))
    /\ version \in Nat
    /\ mutation_log \subseteq Blocks
    /\ quorum \subseteq Live /\ pinned \subseteq Live
    /\ assigners \subseteq Replicas

QueueTypes ==
    /\ log_pointer \in [Replicas -> Nat]
    /\ \A r \in Replicas : log_pointer[r] <= Len(log)
    /\ virtual_parts \in [Replicas -> SUBSET Live]
    /\ mutations \in [Replicas -> SUBSET Blocks]

Reads(r) == predicate[r].stage \in {"list", "mutations", "pull", "ready", "create"}

HasListed(r) == predicate[r].stage \in {"mutations", "pull", "ready", "create"}

PredicateTypes ==
    /\ predicate \in [Replicas -> Predicates(Live)]
    /\ \A r \in Replicas : predicate[r].listed <= Len(log) /\ predicate[r].version <= version
    /\ \A r \in Replicas : predicate[r].stage \in {"ready", "create"} => predicate[r].listed <= log_pointer[r]

(* A new part covers its sources and is not one of them.                   *)
Result(new, sources) ==
    \E m \in Live : new = {m} /\ \A s \in sources : contains(m, s) /\ s # m

EntryShape ==
    \A i \in 1 .. Len(log) :
        CASE log[i].type = "GET_PART" ->
                log[i].sources = {} /\ \E b \in Blocks : log[i].new = {Block(b)}
          [] log[i].type = "SYNC_PINNED_PART_UUIDS" -> log[i].sources = {} /\ log[i].new = {}
          [] OTHER -> Result(log[i].new, log[i].sources)

(* A later part covers an earlier one or does not overlap it.              *)
Laminar ==
    \A i, j \in 1 .. Len(log) : i < j =>
        \A p \in log[i].new, q \in log[j].new : p # q /\ (isDisjoint(p, q) \/ contains(q, p))

(* A block number that an insert holds is in no part.                      *)
HeldApart ==
    \A i \in 1 .. Len(log) : \A p \in log[i].new, b \in block_numbers.insert : b < p.min \/ p.max < b

(* The virtual parts come from the entries that were pulled, cover what    *)
(* these made, and do not overlap.                                         *)
VirtualFrom ==
    \A r \in Replicas : \A p \in virtual_parts[r] : \E i \in 1 .. log_pointer[r] : p \in log[i].new

VirtualCovers ==
    \A r \in Replicas : \A i \in 1 .. log_pointer[r] : \A p \in log[i].new :
        \E q \in virtual_parts[r] : contains(q, p)

VirtualDisjoint == \A r \in Replicas : Pairwise(virtual_parts[r])

(* What the predicate relies on: a block number that it did not see is     *)
(* above all parts it began with, while it is held and when it is          *)
(* committed after the log was listed; and only inserts leave the version  *)
(* as it is.                                                               *)
HeldAreSeen ==
    \A r \in Replicas : Reads(r) =>
        \A b \in block_numbers.insert \ predicate[r].committing : \A q \in predicate[r].prev : q.max < b

LateAreSeen ==
    \A r \in Replicas : HasListed(r) =>
        \A i \in predicate[r].listed + 1 .. Len(log) : log[i].type = "GET_PART" =>
            \A p \in log[i].new :
                p.min \in predicate[r].committing \/ \A q \in predicate[r].prev : q.max < p.min

VersionKnown ==
    \A r \in Replicas : HasListed(r) /\ predicate[r].version = version =>
        \A i \in predicate[r].listed + 1 .. Len(log) : log[i].type = "GET_PART"

(* An entry that is about to be created and will not be refused fits to    *)
(* all that is in the log.                                                 *)
Fits(new, sources) ==
    \A m \in new :
        /\ \A i \in 1 .. Len(log) : \A p \in log[i].new :
              /\ p # m /\ (isDisjoint(p, m) \/ contains(m, p))
              /\ log[i].type = "GET_PART" /\ contains(m, p) => \E s \in sources : contains(s, p)
        /\ \A b \in block_numbers.insert : b < m.min \/ m.max < b
        /\ \A i \in 1 .. Len(log) : log[i].sources \cap sources = {}

ToCreate ==
    \A r \in Replicas : predicate[r].stage = "create" =>
        /\ Result(predicate[r].new, predicate[r].sources)
        /\ predicate[r].version = version => Fits(predicate[r].new, predicate[r].sources)

(* GapStaysEmpty, for mutations as well.                                   *)
SourcesCover ==
    \A i, j \in 1 .. Len(log) :
        log[i].type \in {"MERGE_PARTS", "MUTATE_PART"} /\ log[j].type = "GET_PART" =>
            \A m \in log[i].new, p \in log[j].new :
                contains(m, p) => \E s \in log[i].sources : contains(s, p)

LogInv == EntryShape /\ Laminar /\ HeldApart /\ SourcesCover /\ AssignedOnce
VirtualInv == VirtualFrom /\ VirtualCovers /\ VirtualDisjoint
PredicateInv == HeldAreSeen /\ LateAreSeen /\ VersionKnown /\ ToCreate

IInv == ZooKeeperTypes /\ QueueTypes /\ PredicateTypes /\ LogInv /\ VirtualInv /\ PredicateInv

(***************************************************************************)
(* Values                                                                  *)
(***************************************************************************)
LEMMA LiveParts ==
    ASSUME ZooKeeperTypes
    PROVE  /\ Live \subseteq Infos /\ Live \subseteq AnyInfo
           /\ \A p \in Live : /\ p.min \in Nat /\ p.max \in Nat /\ p.min <= p.max /\ p.max < next_block
                              /\ p.level \in Nat /\ p.level <= MaxLevel
                              /\ p.mutation \in Nat /\ p.mutation <= MaxBlock
           /\ next_block \in Nat /\ Blocks \subseteq Nat
  BY DEF ZooKeeperTypes, Live, Infos, AnyInfo, Blocks

LEMMA IntervalGrows ==
    ASSUME NEW m \in Int, NEW n \in Int, m <= n
    PROVE  0 .. m - 1 \subseteq 0 .. n - 1
  OBVIOUS

LEMMA LiveGrows ==
    ASSUME ZooKeeperTypes, next_block' \in next_block .. MaxBlock
    PROVE  Live \subseteq Live' /\ Blocks \subseteq Blocks'
  <1>1. next_block \in Int /\ next_block' \in Int /\ next_block <= next_block'
    BY DEF ZooKeeperTypes
  <1>2. \A p \in Live : p \in Infos /\ p.max \in Int /\ p.min <= p.max /\ p.max < next_block
    BY DEF Live, Infos
  <1>3. \A p \in Live : p \in Live'
    BY <1>1, <1>2 DEF Live
  <1>4. Blocks' = 0 .. next_block' - 1
    BY DEF Blocks
  <1>5. 0 .. next_block - 1 \subseteq 0 .. next_block' - 1
    BY <1>1, IntervalGrows, Zenon
  <1> QED
    BY <1>3, <1>4, <1>5 DEF Blocks

LEMMA BlockIsLive ==
    ASSUME ZooKeeperTypes, NEW b \in Blocks
    PROVE  Block(b) \in Live
  BY DEF ZooKeeperTypes, Live, Infos, Block, Blocks

(* An entry at the end of the log changes nothing before it.               *)
LEMMA AppendKeeps ==
    ASSUME NEW S, NEW s \in Seq(S), NEW e \in S
    PROVE  /\ Append(s, e) \in Seq(S)
           /\ Len(Append(s, e)) = Len(s) + 1
           /\ Append(s, e)[Len(s) + 1] = e
           /\ \A i \in 1 .. Len(s) : Append(s, e)[i] = s[i]
           /\ \A i \in 1 .. Len(s) + 1 : i \in 1 .. Len(s) \/ i = Len(s) + 1
  OBVIOUS

LEMMA EntryIsEntry ==
    ASSUME NEW live, NEW t \in Types, NEW new \in SUBSET live, NEW sources \in SUBSET live
    PROVE  Entry(t, new, sources) \in Entries(live)
  BY DEF Entry, Entries

(***************************************************************************)
(* The three kinds of steps: one that leaves the log, an insert that       *)
(* commits, and one that changes the version of the log.                   *)
(***************************************************************************)
Quiet ==
    /\ log' = log /\ version' = version
    /\ next_block' \in next_block .. MaxBlock
    /\ \A b \in block_numbers'.insert :
          b \in block_numbers.insert \/ (b = next_block /\ next_block' = next_block + 1)

Commits(b) ==
    /\ b \in block_numbers.insert
    /\ block_numbers' = [block_numbers EXCEPT !.insert = @ \ {b}]
    /\ log' = Append(log, Entry("GET_PART", {Block(b)}, {}))
    /\ UNCHANGED <<next_block, version, log_pointer, virtual_parts, predicate>>

Assigns(e) ==
    /\ version' = version + 1 /\ log' = Append(log, e)
    /\ UNCHANGED <<next_block, block_numbers, log_pointer, virtual_parts>>
    /\ \/ e = Entry("SYNC_PINNED_PART_UUIDS", {}, {}) /\ predicate' = predicate
       \/ \E r \in Replicas :
            /\ predicate[r].stage = "create" /\ predicate[r].version = version
            /\ e = Entry(Type(predicate[r]), predicate[r].new, predicate[r].sources)
            /\ predicate' = [predicate EXCEPT ![r] = Idle]

LEMMA StepKinds ==
    ASSUME IInv, [Next]_vars
    PROVE  Quiet \/ (\E b \in Blocks : Commits(b)) \/ (\E e \in Entries(Live) : Assigns(e))
  <1> USE DEF IInv, ZooKeeperTypes, fixed, queue, zk
  <1>1. CASE UNCHANGED vars
    BY <1>1 DEF vars, Quiet
  <1>2. CASE allocateBlockNumber
    BY <1>2 DEF allocateBlockNumber, Quiet, Blocks
  <1>3. ASSUME NEW b \in 0 .. MaxBlock, NEW q \in BOOLEAN, commitPart(b, q)
        PROVE  b \in Blocks /\ Commits(b)
    BY <1>3 DEF commitPart, Commits
  <1>4. ASSUME NEW b \in block_numbers.insert, abandonBlockNumber(b)
        PROVE  Quiet
    BY <1>4 DEF abandonBlockNumber, Quiet
  <1>5. CASE quorumReached
    BY <1>5 DEF quorumReached, Quiet
  <1>6. CASE allocateMutation
    BY <1>6 DEF allocateMutation, Quiet
  <1>7. CASE writeMutation
    BY <1>7 DEF writeMutation, Quiet
  <1>8. CASE releaseMutation
    BY <1>8 DEF releaseMutation, Quiet
  <1>9. ASSUME NEW p, setPinnedParts(p)
        PROVE  \E e \in Entries(Live) : Assigns(e)
    <2>1. Entry("SYNC_PINNED_PART_UUIDS", {}, {}) \in Entries(Live)
      BY EntryIsEntry DEF Types
    <2>2. Assigns(Entry("SYNC_PINNED_PART_UUIDS", {}, {}))
      BY <1>9 DEF setPinnedParts, Assigns
    <2> QED
      BY <2>1, <2>2
  <1>10. ASSUME NEW r \in assigners, ReplicaStep(r)
         PROVE  Quiet \/ \E e \in Entries(Live) : Assigns(e)
    <2>1. r \in Replicas
      OBVIOUS
    <2>2. CASE createLogEntry(r)
      <3> DEFINE e == Entry(Type(predicate[r]), predicate[r].new, predicate[r].sources)
      <3>1. predicate[r].new \subseteq Live /\ predicate[r].sources \subseteq Live
        BY <2>1 DEF PredicateTypes, Predicates
      <3>2. Type(predicate[r]) \in Types
        BY DEF Type, Types
      <3>3. e \in Entries(Live)
        BY <3>1, <3>2, EntryIsEntry
      <3>4. Assigns(e)
        BY <2>1, <2>2 DEF createLogEntry, Assigns, To
      <3> QED
        BY <3>3, <3>4
    <2>3. CASE pullLogsToQueue(r) \/ pullListed(r)
      BY <2>3 DEF pullLogsToQueue, pullListed, Quiet
    <2>4. CASE \/ snapshotVirtualParts(r) \/ getCommittingBlocks(r)
               \/ listLog(r) \/ readMutations(r) \/ readPinnedParts(r) \/ giveUp(r)
      BY <2>4 DEF snapshotVirtualParts, getCommittingBlocks, listLog, readMutations, readPinnedParts,
                  giveUp, Quiet
    <2>5. CASE \E left, right \in virtual_parts[r] : selectPartsToMerge(r, left, right)
      BY <2>5 DEF selectPartsToMerge, Quiet
    <2>6. CASE \E p \in virtual_parts[r], v \in mutations[r] : selectPartToMutate(r, p, v)
      BY <2>6 DEF selectPartToMutate, Quiet
    <2> QED
      BY <1>10, <2>2, <2>3, <2>4, <2>5, <2>6 DEF ReplicaStep
  <1> QED
    BY <1>1, <1>2, <1>3, <1>4, <1>5, <1>6, <1>7, <1>8, <1>9, <1>10 DEF Next

(***************************************************************************)
(* Types                                                                   *)
(***************************************************************************)
LEMMA LiveBlocks ==
    ASSUME IInv, NEW b \in Blocks
    PROVE  Block(b) \in Live
  BY BlockIsLive DEF IInv

(* The part that a merge makes.                                            *)
Merged(left, right) ==
    [min |-> left.min, max |-> right.max,
     level |-> 1 + (IF left.level > right.level THEN left.level ELSE right.level),
     mutation |-> IF left.mutation > right.mutation THEN left.mutation ELSE right.mutation]

LEMMA MergedPart ==
    ASSUME ZooKeeperTypes, NEW left \in Live, NEW right \in Live, left.max < right.min,
           Merged(left, right).level <= MaxLevel
    PROVE  /\ Merged(left, right) \in Live
           /\ Result({Merged(left, right)}, {left, right})
  <1> DEFINE m == Merged(left, right)
  <1>1. m.min = left.min /\ m.max = right.max
    BY DEF Merged
  <1>2. /\ m.level \in Nat /\ m.level > left.level /\ m.level > right.level
        /\ m.mutation \in Nat /\ m.mutation >= left.mutation /\ m.mutation >= right.mutation
        /\ m.mutation <= MaxBlock
    BY LiveParts DEF Merged
  <1>3. m \in Live
    <2>1. m = [min |-> m.min, max |-> m.max, level |-> m.level, mutation |-> m.mutation]
      BY DEF Merged
    <2>2. m.min \in 0 .. MaxBlock /\ m.max \in 0 .. MaxBlock /\ m.min <= m.max /\ m.max < next_block
      BY <1>1, LiveParts DEF Live, Infos
    <2>3. m \in Infos
      BY <1>2, <2>1, <2>2 DEF Infos
    <2> QED
      BY <2>2, <2>3 DEF Live
  <1>4. contains(m, left) /\ contains(m, right)
    BY <1>1, <1>2, LiveParts DEF contains
  <1>5. m # left /\ m # right
    BY <1>2, LiveParts
  <1> QED
    BY <1>3, <1>4, <1>5 DEF Result

(* The part that a mutation makes.                                         *)
Mutated(p, target) == [p EXCEPT !.mutation = target]

LEMMA MutatedPart ==
    ASSUME ZooKeeperTypes, NEW p \in Live, NEW target \in Blocks, getDataVersion(p) < target
    PROVE  /\ Mutated(p, target) \in Live
           /\ Result({Mutated(p, target)}, {p})
  <1> DEFINE m == Mutated(p, target)
  <1>1. p \in Infos
    BY LiveParts
  <1>2. m.min = p.min /\ m.max = p.max /\ m.level = p.level /\ m.mutation = target
    BY <1>1 DEF Mutated, Infos
  <1>3. target \in 0 .. MaxBlock
    BY DEF ZooKeeperTypes, Blocks
  <1>4. m \in Infos
    BY <1>1, <1>3 DEF Mutated, Infos
  <1>5. m \in Live
    BY <1>2, <1>4, LiveParts DEF Live
  <1>6. target > p.mutation
    BY <1>3, LiveParts DEF getDataVersion
  <1>7. contains(m, p) /\ m # p
    BY <1>2, <1>3, <1>6, LiveParts DEF contains, SameBlocks
  <1> QED
    BY <1>5, <1>7 DEF Result

LEMMA ZooKeeperTypesNext ==
    ASSUME IInv, [Next]_vars
    PROVE  ZooKeeperTypes' /\ next_block' \in next_block .. MaxBlock
  <1>1. next_block' \in next_block .. MaxBlock /\ assigners' = assigners
    <2>1. Quiet \/ (\E b \in Blocks : Commits(b)) \/ (\E e \in Entries(Live) : Assigns(e))
      BY StepKinds
    <2>2. next_block' \in next_block .. MaxBlock
      <3>1. next_block \in next_block .. MaxBlock
        BY DEF IInv, ZooKeeperTypes
      <3>2. next_block' = next_block \/ next_block' \in next_block .. MaxBlock
        BY <2>1 DEF Quiet, Commits, Assigns
      <3> QED
        BY <3>1, <3>2
    <2>3. assigners' = assigners
      BY DEF Next, fixed, vars
    <2> QED
      BY <2>2, <2>3
  <1>2. Live \subseteq Live' /\ Blocks \subseteq Blocks' /\ next_block' \in 0 .. MaxBlock
    BY <1>1, LiveGrows DEF IInv, ZooKeeperTypes
  <1>3. log' \in Seq(Entries(Live')) /\ version' \in Nat
    <2>1. Entries(Live) \subseteq Entries(Live')
      BY <1>2 DEF Entries
    <2>2. log \in Seq(Entries(Live'))
      BY <2>1, SeqMonotonic DEF IInv, ZooKeeperTypes
    <2>3. CASE Quiet
      BY <2>2, <2>3 DEF Quiet, IInv, ZooKeeperTypes
    <2>4. ASSUME NEW b \in Blocks, Commits(b)
          PROVE  log' \in Seq(Entries(Live')) /\ version' \in Nat
      <3>1. Entry("GET_PART", {Block(b)}, {}) \in Entries(Live)
        BY LiveBlocks, EntryIsEntry DEF Types
      <3> QED
        BY <2>1, <2>2, <2>4, <3>1 DEF Commits, IInv, ZooKeeperTypes
    <2>5. ASSUME NEW e \in Entries(Live), Assigns(e)
          PROVE  log' \in Seq(Entries(Live')) /\ version' \in Nat
      BY <2>1, <2>2, <2>5 DEF Assigns, IInv, ZooKeeperTypes
    <2> QED
      BY <2>3, <2>4, <2>5, StepKinds
  <1>4. /\ block_numbers' \in [insert : SUBSET Blocks', mutation : SUBSET Blocks']
        /\ mutation_log' \subseteq Blocks'
        /\ quorum' \subseteq Live' /\ pinned' \subseteq Live'
    <2> DEFINE Goal == /\ block_numbers' \in [insert : SUBSET Blocks', mutation : SUBSET Blocks']
                       /\ mutation_log' \subseteq Blocks'
                       /\ quorum' \subseteq Live' /\ pinned' \subseteq Live'
    <2>1. /\ block_numbers \in [insert : SUBSET Blocks', mutation : SUBSET Blocks']
          /\ mutation_log \subseteq Blocks' /\ quorum \subseteq Live' /\ pinned \subseteq Live'
      BY <1>2 DEF IInv, ZooKeeperTypes
    <2>2. CASE UNCHANGED <<block_numbers, mutation_log, quorum, pinned>>
      BY <2>1, <2>2
    <2>3. ASSUME next_block' = next_block + 1
          PROVE  next_block \in Blocks'
      BY <1>2, <2>3 DEF Blocks, IInv, ZooKeeperTypes
    <2>4. CASE allocateBlockNumber
      BY <2>1, <2>3, <2>4 DEF allocateBlockNumber
    <2>5. ASSUME NEW b \in 0 .. MaxBlock, NEW q \in BOOLEAN, commitPart(b, q)
          PROVE  Goal
      <3>1. b \in Blocks /\ Block(b) \in Live'
        BY <1>2, <2>5, LiveBlocks DEF commitPart, IInv, ZooKeeperTypes
      <3> QED
        BY <2>1, <2>5, <3>1 DEF commitPart
    <2>6. ASSUME NEW b \in block_numbers.insert, abandonBlockNumber(b)
          PROVE  Goal
      BY <2>1, <2>6 DEF abandonBlockNumber
    <2>7. CASE quorumReached
      BY <2>1, <2>7 DEF quorumReached
    <2>8. CASE allocateMutation
      BY <2>1, <2>3, <2>8 DEF allocateMutation
    <2>9. CASE writeMutation
      BY <2>1, <2>9 DEF writeMutation
    <2>10. CASE releaseMutation
      BY <2>1, <2>10 DEF releaseMutation
    <2>11. ASSUME NEW p \in Committed, setPinnedParts(p)
           PROVE  Goal
      <3>1. PICK i \in DOMAIN log : p \in log[i].new
        BY DEF Committed
      <3>2. log[i] \in Entries(Live)
        BY DEF IInv, ZooKeeperTypes
      <3>3. p \in Live
        BY <3>1, <3>2 DEF Entries
      <3> QED
        BY <1>2, <2>1, <2>11, <3>3 DEF setPinnedParts
    <2>12. ASSUME NEW r \in assigners, ReplicaStep(r)
           PROVE  UNCHANGED <<block_numbers, mutation_log, quorum, pinned>>
      BY <2>12 DEF ReplicaStep, pullLogsToQueue, snapshotVirtualParts, getCommittingBlocks, listLog,
                   readMutations, pullListed, readPinnedParts, selectPartsToMerge, selectPartToMutate,
                   createLogEntry, giveUp, zk
    <2> QED
      BY <2>2, <2>4, <2>5, <2>6, <2>7, <2>8, <2>9, <2>10, <2>11, <2>12 DEF Next, vars, zk
  <1> QED
    BY <1>1, <1>2, <1>3, <1>4 DEF IInv, ZooKeeperTypes

LEMMA NextEntry ==
    ASSUME IInv, NEW i \in 1 .. Len(log)
    PROVE  log[i] \in Entries(Live) /\ log[i].new \subseteq Live /\ log[i].sources \subseteq Live
  <1>1. log \in Seq(Entries(Live))
    BY DEF IInv, ZooKeeperTypes
  <1>2. log[i] \in Entries(Live)
    BY <1>1
  <1> QED
    BY <1>2 DEF Entries

(* The steps that change a queue.                                          *)
Pulls(r) == log_pointer[r] < Len(log) /\ Pull(r) /\ UNCHANGED <<log, predicate>>

LEMMA QueueSteps ==
    ASSUME IInv, [Next]_vars
    PROVE  \/ UNCHANGED <<log_pointer, virtual_parts>>
           \/ \E r \in Replicas : Pulls(r)
  <1> USE DEF queue, zk
  <1>1. CASE UNCHANGED vars
    BY <1>1 DEF vars
  <1>2. ASSUME NEW r \in assigners, ReplicaStep(r)
        PROVE  UNCHANGED <<log_pointer, virtual_parts>> \/ \E q \in Replicas : Pulls(q)
    <2>1. r \in Replicas
      BY DEF IInv, ZooKeeperTypes
    <2>2. CASE pullLogsToQueue(r)
      BY <2>1, <2>2 DEF pullLogsToQueue, Pulls
    <2>3. CASE pullListed(r)
      <3>1. predicate[r].listed <= Len(log) /\ predicate[r].listed \in Nat
        BY <2>1 DEF IInv, PredicateTypes, Predicates
      <3>2. Len(log) \in Nat /\ log_pointer[r] \in Nat
        BY <2>1 DEF IInv, ZooKeeperTypes, QueueTypes
      <3> QED
        BY <2>1, <2>3, <3>1, <3>2 DEF pullListed, Pulls
    <2> QED
      BY <1>2, <2>2, <2>3 DEF ReplicaStep, snapshotVirtualParts, getCommittingBlocks, listLog,
          readMutations, readPinnedParts, selectPartsToMerge, selectPartToMutate, createLogEntry, giveUp
  <1> QED
    BY <1>1, <1>2 DEF Next, allocateBlockNumber, commitPart, abandonBlockNumber, quorumReached,
        allocateMutation, writeMutation, releaseMutation, setPinnedParts

LEMMA LogGrows ==
    ASSUME IInv, [Next]_vars
    PROVE  /\ Len(log) \in Nat /\ Len(log') \in Nat /\ Len(log) <= Len(log')
           /\ \A i \in 1 .. Len(log) : log'[i] = log[i]
           /\ version \in Nat /\ version' \in Nat /\ version <= version'
  <1>1. log \in Seq(Entries(Live)) /\ version \in Nat
    BY DEF IInv, ZooKeeperTypes
  <1>2. CASE Quiet
    BY <1>1, <1>2 DEF Quiet
  <1>3. ASSUME NEW b \in Blocks, Commits(b)
        PROVE  log' = Append(log, Entry("GET_PART", {Block(b)}, {})) /\ version' = version
               /\ Entry("GET_PART", {Block(b)}, {}) \in Entries(Live)
    BY <1>3, LiveBlocks, EntryIsEntry DEF Commits, Types
  <1>4. ASSUME NEW e \in Entries(Live), Assigns(e)
        PROVE  log' = Append(log, e) /\ version' = version + 1
    BY <1>4 DEF Assigns
  <1>5. ASSUME NEW e \in Entries(Live), log' = Append(log, e), version' \in {version, version + 1}
        PROVE  /\ Len(log) \in Nat /\ Len(log') \in Nat /\ Len(log) <= Len(log')
               /\ \A i \in 1 .. Len(log) : log'[i] = log[i]
               /\ version \in Nat /\ version' \in Nat /\ version <= version'
    BY <1>1, <1>5, AppendKeeps
  <1> QED
    BY <1>2, <1>3, <1>4, <1>5, StepKinds

LEMMA QueueTypesNext ==
    ASSUME IInv, [Next]_vars
    PROVE  QueueTypes'
  <1>1. Live \subseteq Live' /\ Blocks \subseteq Blocks'
    BY ZooKeeperTypesNext, LiveGrows DEF IInv
  <1>2. /\ log_pointer' \in [Replicas -> Nat]
        /\ \A r \in Replicas : log_pointer'[r] <= Len(log')
        /\ virtual_parts' \in [Replicas -> SUBSET Live']
    <2>1. CASE UNCHANGED <<log_pointer, virtual_parts>>
      BY <1>1, <2>1, LogGrows DEF IInv, QueueTypes
    <2>2. ASSUME NEW r \in Replicas, Pulls(r)
          PROVE  /\ log_pointer' \in [Replicas -> Nat]
                 /\ \A q \in Replicas : log_pointer'[q] <= Len(log')
                 /\ virtual_parts' \in [Replicas -> SUBSET Live']
      <3>1. /\ log_pointer \in [Replicas -> Nat] /\ virtual_parts \in [Replicas -> SUBSET Live]
            /\ Len(log) \in Nat /\ \A q \in Replicas : log_pointer[q] <= Len(log)
        BY LogGrows DEF IInv, QueueTypes
      <3>2. /\ log_pointer[r] < Len(log) /\ log' = log
            /\ log_pointer' = [log_pointer EXCEPT ![r] = @ + 1]
            /\ \/ UNCHANGED virtual_parts
               \/ \E p \in log[log_pointer[r] + 1].new :
                     virtual_parts' = [virtual_parts EXCEPT ![r] = add(@, p)]
        BY <2>2 DEF Pulls, Pull
      <3>3. log[log_pointer[r] + 1].new \subseteq Live
        BY <3>1, <3>2, NextEntry
      <3>4. \A p \in Live : add(virtual_parts[r], p) \subseteq Live
        BY <3>1 DEF add
      <3>5. virtual_parts' \in [Replicas -> SUBSET Live]
        BY <3>1, <3>2, <3>3, <3>4
      <3>6. virtual_parts' \in [Replicas -> SUBSET Live']
        BY <1>1, <3>5
      <3>7. log_pointer' \in [Replicas -> Nat]
        BY <3>1, <3>2
      <3>8. \A q \in Replicas : log_pointer'[q] <= Len(log')
        BY <3>1, <3>2
      <3> QED
        BY <3>6, <3>7, <3>8
    <2> QED
      BY <2>1, <2>2, QueueSteps
  <1>3. mutations' \in [Replicas -> SUBSET Blocks']
    <2>1. mutations \in [Replicas -> SUBSET Blocks'] /\ mutation_log \subseteq Blocks'
      BY <1>1 DEF IInv, QueueTypes, ZooKeeperTypes
    <2>2. \/ mutations' = mutations
          \/ \E r \in assigners : mutations' = [mutations EXCEPT ![r] = mutation_log]
      <3>1. ASSUME NEW r \in assigners, ReplicaStep(r)
            PROVE  mutations' = mutations \/ mutations' = [mutations EXCEPT ![r] = mutation_log]
        BY <3>1 DEF ReplicaStep, pullLogsToQueue, snapshotVirtualParts, getCommittingBlocks, listLog,
           readMutations, pullListed, readPinnedParts, selectPartsToMerge, selectPartToMutate,
           createLogEntry, giveUp, queue
      <3>2. ASSUME UNCHANGED queue
            PROVE  mutations' = mutations
        BY <3>2 DEF queue
      <3> QED
        BY <3>1, <3>2 DEF Next, allocateBlockNumber, commitPart, abandonBlockNumber, quorumReached,
           allocateMutation, writeMutation, releaseMutation, setPinnedParts, vars
    <2> QED
      BY <2>1, <2>2
  <1> QED
    BY <1>2, <1>3 DEF QueueTypes

(* The steps that change a predicate.                                      *)
Changes(r) ==
    \/ snapshotVirtualParts(r) \/ getCommittingBlocks(r) \/ listLog(r) \/ readMutations(r)
    \/ readPinnedParts(r)
    \/ \E left, right \in virtual_parts[r] : selectPartsToMerge(r, left, right)
    \/ \E p \in virtual_parts[r], v \in mutations[r] : selectPartToMutate(r, p, v)
    \/ createLogEntry(r) \/ giveUp(r)

LEMMA PredicateSteps ==
    ASSUME IInv, [Next]_vars
    PROVE  \/ predicate' = predicate
           \/ \E r \in Replicas : /\ Changes(r)
                                  /\ predicate' = [predicate EXCEPT ![r] = predicate'[r]]
  <1>1. ASSUME NEW r \in assigners, ReplicaStep(r)
        PROVE  \/ predicate' = predicate
               \/ /\ r \in Replicas /\ Changes(r)
                  /\ predicate' = [predicate EXCEPT ![r] = predicate'[r]]
    <2>1. r \in Replicas /\ predicate \in [Replicas -> Predicates(Live)]
      BY DEF IInv, ZooKeeperTypes, PredicateTypes
    <2>2. CASE pullLogsToQueue(r) \/ pullListed(r)
      BY <2>2 DEF pullLogsToQueue, pullListed
    <2>3. ASSUME Changes(r)
          PROVE  \E p : To(r, p)
      BY <2>3 DEF Changes, snapshotVirtualParts, getCommittingBlocks, listLog, readMutations,
         readPinnedParts, selectPartsToMerge, selectPartToMutate, createLogEntry, giveUp
    <2>4. ASSUME NEW p, To(r, p)
          PROVE  predicate' = [predicate EXCEPT ![r] = predicate'[r]]
      BY <2>1, <2>4 DEF To
    <2> QED
      BY <1>1, <2>1, <2>2, <2>3, <2>4 DEF ReplicaStep, Changes
  <1> QED
    BY <1>1 DEF Next, allocateBlockNumber, commitPart, abandonBlockNumber, quorumReached,
       allocateMutation, writeMutation, releaseMutation, setPinnedParts, vars

(* A predicate changes in a step that leaves the log, or is done with.     *)
LEMMA ChangesQuietly ==
    ASSUME NEW r, Changes(r), ~createLogEntry(r)
    PROVE  /\ UNCHANGED <<next_block, block_numbers, log, version, quorum, pinned>>
           /\ UNCHANGED <<log_pointer, virtual_parts>>
  BY DEF Changes, snapshotVirtualParts, getCommittingBlocks, listLog, readMutations, readPinnedParts,
     selectPartsToMerge, selectPartToMutate, giveUp, zk, queue

PredicateTyped(r) ==
    /\ predicate[r] \in Predicates(Live)
    /\ predicate[r].listed <= Len(log) /\ predicate[r].version <= version
    /\ predicate[r].stage \in {"ready", "create"} => predicate[r].listed <= log_pointer[r]

LEMMA PredicateKeepsType ==
    ASSUME IInv, [Next]_vars, NEW r \in Replicas, predicate'[r] = predicate[r]
    PROVE  PredicateTyped(r)'
  <1>1. Live \subseteq Live'
    BY ZooKeeperTypesNext, LiveGrows DEF IInv
  <1>2. predicate[r] \in Predicates(Live)
    BY DEF IInv, PredicateTypes
  <1>3. predicate[r] \in Predicates(Live')
    BY <1>1, <1>2 DEF Predicates
  <1>4. predicate[r].listed \in Nat /\ predicate[r].version \in Nat
    BY <1>2 DEF Predicates
  <1>5. predicate[r].listed <= Len(log') /\ predicate[r].version <= version'
    BY <1>4, LogGrows DEF IInv, PredicateTypes
  <1>6. log_pointer'[r] \in Nat /\ log_pointer[r] \in Nat /\ log_pointer[r] <= log_pointer'[r]
    BY QueueSteps DEF IInv, QueueTypes, Pulls, Pull
  <1>7. predicate[r].stage \in {"ready", "create"} => predicate[r].listed <= log_pointer'[r]
    BY <1>4, <1>6 DEF IInv, PredicateTypes
  <1> QED
    BY <1>3, <1>5, <1>7 DEF PredicateTyped

LEMMA IdleIsTyped ==
    Idle \in Predicates(Live) /\ Idle.listed = 0 /\ Idle.version = 0 /\ Idle.stage = "idle"
  BY DEF Idle, Predicates, Stages

LEMMA PredicateChangesType ==
    ASSUME IInv, [Next]_vars, NEW r \in Replicas, Changes(r)
    PROVE  PredicateTyped(r)'
  <1>1. Live \subseteq Live'
    BY ZooKeeperTypesNext, LiveGrows DEF IInv
  <1>2. /\ predicate \in [Replicas -> Predicates(Live)]
        /\ predicate[r].listed <= Len(log) /\ predicate[r].version <= version
    BY DEF IInv, PredicateTypes
  <1>3. version \in Nat /\ Len(log) \in Nat /\ Len(log') \in Nat /\ version' \in Nat
    BY LogGrows
  <1>4. /\ virtual_parts[r] \subseteq Live /\ quorum \subseteq Live /\ pinned \subseteq Live
        /\ block_numbers.insert \subseteq Nat /\ block_numbers.mutation \subseteq Nat
        /\ mutations[r] \subseteq Blocks
    BY LiveParts DEF IInv, QueueTypes, ZooKeeperTypes
  <1>5. CASE createLogEntry(r) \/ giveUp(r)
    <2>1. predicate'[r] = Idle
      BY <1>2, <1>5 DEF createLogEntry, giveUp, To
    <2>2. Idle \in Predicates(Live')
      BY DEF Idle, Predicates, Stages
    <2> QED
      BY <1>3, <2>1, <2>2, IdleIsTyped DEF PredicateTyped
  <1>6. ASSUME ~createLogEntry(r), NEW p \in Predicates(Live), To(r, p),
               p.listed <= Len(log), p.version <= version,
               p.stage \in {"ready", "create"} => p.listed <= log_pointer[r]
        PROVE  PredicateTyped(r)'
    <2>1. /\ UNCHANGED <<next_block, block_numbers, log, version, quorum, pinned>>
          /\ UNCHANGED <<log_pointer, virtual_parts>>
      BY <1>6, ChangesQuietly
    <2>2. predicate'[r] = p
      BY <1>2, <1>6 DEF To
    <2>3. p \in Predicates(Live')
      BY <1>1, <1>6 DEF Predicates
    <2> QED
      BY <1>6, <2>1, <2>2, <2>3 DEF PredicateTyped
  <1> DEFINE P == predicate[r]
  <1>7. ~(snapshotVirtualParts(r) /\ createLogEntry(r)) /\ ~(getCommittingBlocks(r) /\ createLogEntry(r))
        /\ ~(listLog(r) /\ createLogEntry(r)) /\ ~(readMutations(r) /\ createLogEntry(r))
        /\ ~(readPinnedParts(r) /\ createLogEntry(r))
    BY DEF snapshotVirtualParts, getCommittingBlocks, listLog, readMutations, readPinnedParts, createLogEntry
  <1>8. CASE snapshotVirtualParts(r)
    <2> DEFINE p == [Idle EXCEPT !.stage = "committing", !.prev = virtual_parts[r]]
    <2>1. p \in Predicates(Live) /\ p.listed = 0 /\ p.version = 0 /\ p.stage = "committing"
      BY <1>4 DEF Idle, Predicates, Stages
    <2>2. To(r, p)
      BY <1>8 DEF snapshotVirtualParts
    <2>3. ~createLogEntry(r) /\ p.listed <= Len(log) /\ p.version <= version
      BY <1>3, <1>7, <1>8, <2>1
    <2> HIDE DEF p
    <2> QED
      BY <1>6, <2>1, <2>2, <2>3
  <1>9. CASE getCommittingBlocks(r)
    <2> DEFINE p == [P EXCEPT !.stage = "list", !.quorum = quorum,
                              !.committing = block_numbers.insert \cup block_numbers.mutation]
    <2>1. p \in Predicates(Live) /\ p.listed = P.listed /\ p.version = P.version /\ p.stage = "list"
      BY <1>2, <1>4 DEF Predicates, Stages
    <2>2. To(r, p)
      BY <1>9 DEF getCommittingBlocks
    <2> QED
      BY <1>2, <1>3, <1>6, <1>7, <1>9, <2>1, <2>2
  <1>10. CASE listLog(r)
    <2> DEFINE p == [P EXCEPT !.stage = "mutations", !.version = version, !.listed = Len(log)]
    <2>1. p \in Predicates(Live) /\ p.listed = Len(log) /\ p.version = version /\ p.stage = "mutations"
      BY <1>2, <1>3 DEF Predicates, Stages
    <2>2. To(r, p)
      BY <1>10 DEF listLog
    <2>3. ~createLogEntry(r) /\ p.listed <= Len(log) /\ p.version <= version
      BY <1>3, <1>7, <1>10, <2>1
    <2> HIDE DEF p
    <2> QED
      BY <1>6, <2>1, <2>2, <2>3
  <1>11. CASE readMutations(r)
    <2> DEFINE p == [P EXCEPT !.stage = "pull"]
    <2>1. p \in Predicates(Live) /\ p.listed = P.listed /\ p.version = P.version /\ p.stage = "pull"
      BY <1>2 DEF Predicates, Stages
    <2>2. To(r, p)
      BY <1>11 DEF readMutations
    <2> QED
      BY <1>2, <1>3, <1>6, <1>7, <1>11, <2>1, <2>2
  <1>12. CASE readPinnedParts(r)
    <2> DEFINE p == [P EXCEPT !.stage = "ready", !.pinned = pinned]
    <2>1. p \in Predicates(Live) /\ p.listed = P.listed /\ p.version = P.version /\ p.stage = "ready"
      BY <1>2, <1>4 DEF Predicates, Stages
    <2>2. To(r, p) /\ P.listed <= log_pointer[r]
      <3>1. P.listed \in Nat /\ log_pointer[r] \in Nat
        BY <1>2 DEF Predicates, IInv, QueueTypes
      <3> QED
        BY <1>12, <3>1 DEF readPinnedParts
    <2> QED
      BY <1>2, <1>3, <1>6, <1>7, <1>12, <2>1, <2>2
  <1>13. ASSUME P.stage = "ready", NEW new \in SUBSET Live, NEW sources \in SUBSET Live,
                To(r, [P EXCEPT !.stage = "create", !.sources = sources, !.new = new])
         PROVE  PredicateTyped(r)'
    <2> DEFINE p == [P EXCEPT !.stage = "create", !.sources = sources, !.new = new]
    <2>1. p \in Predicates(Live) /\ p.listed = P.listed /\ p.version = P.version /\ p.stage = "create"
      BY <1>2, <1>13 DEF Predicates, Stages
    <2>2. P.listed <= log_pointer[r]
      BY <1>13 DEF IInv, PredicateTypes
    <2>3. ~createLogEntry(r)
      BY <1>13 DEF createLogEntry
    <2> QED
      BY <1>2, <1>6, <1>13, <2>1, <2>2, <2>3
  <1>14. ASSUME NEW left \in virtual_parts[r], NEW right \in virtual_parts[r],
                selectPartsToMerge(r, left, right)
         PROVE  PredicateTyped(r)'
    <2>1. left \in Live /\ right \in Live /\ left.max < right.min /\ Merged(left, right).level <= MaxLevel
      BY <1>4, <1>14 DEF selectPartsToMerge, Merged
    <2>2. {Merged(left, right)} \subseteq Live
      BY <2>1, MergedPart DEF IInv
    <2>3. To(r, [P EXCEPT !.stage = "create", !.sources = {left, right}, !.new = {Merged(left, right)}])
      BY <1>14 DEF selectPartsToMerge, Merged
    <2>4. P.stage = "ready"
      BY <1>14 DEF selectPartsToMerge
    <2> QED
      BY <1>13, <2>1, <2>2, <2>3, <2>4
  <1>15. ASSUME NEW p \in virtual_parts[r], NEW v \in mutations[r], selectPartToMutate(r, p, v)
         PROVE  PredicateTyped(r)'
    <2>1. p \in Live /\ v \in Blocks /\ getDataVersion(p) < v
      BY <1>4, <1>15 DEF selectPartToMutate
    <2>2. {Mutated(p, v)} \subseteq Live
      BY <2>1, MutatedPart DEF IInv
    <2>3. To(r, [P EXCEPT !.stage = "create", !.sources = {p}, !.new = {Mutated(p, v)}])
      BY <1>15 DEF selectPartToMutate, Mutated
    <2>4. P.stage = "ready"
      BY <1>15 DEF selectPartToMutate
    <2> QED
      BY <1>13, <2>1, <2>2, <2>3, <2>4
  <1> QED
    BY <1>5, <1>8, <1>9, <1>10, <1>11, <1>12, <1>14, <1>15 DEF Changes

LEMMA PredicateTypesNext ==
    ASSUME IInv, [Next]_vars
    PROVE  PredicateTypes'
  <1>1. predicate \in [Replicas -> Predicates(Live)]
    BY DEF IInv, PredicateTypes
  <1>2. CASE predicate' = predicate
    <2>1. \A r \in Replicas : PredicateTyped(r)'
      BY <1>2, PredicateKeepsType
    <2> QED
      BY <1>1, <1>2, <2>1 DEF PredicateTyped, PredicateTypes
  <1>3. ASSUME NEW r \in Replicas, Changes(r), predicate' = [predicate EXCEPT ![r] = predicate'[r]]
        PROVE  PredicateTypes'
    <2>1. \A q \in Replicas : q # r => predicate'[q] = predicate[q]
      BY <1>1, <1>3
    <2>2. \A q \in Replicas : PredicateTyped(q)'
      BY <1>3, <2>1, PredicateKeepsType, PredicateChangesType
    <2>3. predicate' \in [Replicas -> Predicates(Live')]
      BY <1>1, <1>3, <2>2 DEF PredicateTyped
    <2> QED
      BY <2>2, <2>3 DEF PredicateTyped, PredicateTypes
  <1> QED
    BY <1>2, <1>3, PredicateSteps

(***************************************************************************)
(* The log                                                                 *)
(***************************************************************************)
LEMMA LogFacts ==
    ASSUME IInv
    PROVE  /\ Len(log) \in Nat /\ DOMAIN log = 1 .. Len(log)
           /\ \A i \in 1 .. Len(log) :
                 /\ log[i].new \subseteq Live /\ log[i].sources \subseteq Live /\ log[i].type \in Types
                 /\ log[i].type = "GET_PART" =>
                       log[i].sources = {} /\ \E b \in Blocks : log[i].new = {Block(b)}
           /\ block_numbers.insert \subseteq Blocks /\ Blocks \subseteq Nat /\ Live \subseteq AnyInfo
  <1>1. log \in Seq(Entries(Live)) /\ block_numbers.insert \subseteq Blocks /\ Blocks \subseteq Nat
        /\ Live \subseteq AnyInfo
    BY LiveParts DEF IInv, ZooKeeperTypes
  <1>2. \A i \in 1 .. Len(log) : log[i] \in Entries(Live)
    BY <1>1
  <1>3. \A i \in 1 .. Len(log) : log[i].new \subseteq Live /\ log[i].sources \subseteq Live /\ log[i].type \in Types
    BY <1>2 DEF Entries
  <1>4. \A i \in 1 .. Len(log) : log[i].type = "GET_PART" =>
            log[i].sources = {} /\ \E b \in Blocks : log[i].new = {Block(b)}
    BY DEF IInv, LogInv, EntryShape
  <1> QED
    BY <1>1, <1>3, <1>4

LEMMA LogQuiet ==
    ASSUME IInv, Quiet
    PROVE  LogInv'
  <1>1. Live \subseteq Live' /\ Blocks \subseteq Blocks' /\ log' = log
    BY LiveGrows DEF IInv, Quiet
  <1>2. EntryShape'
    BY <1>1 DEF IInv, LogInv, EntryShape, Result
  <1>3. HeldApart'
    <2> SUFFICES ASSUME NEW i \in 1 .. Len(log), NEW p \in log[i].new, NEW b \in block_numbers'.insert
                 PROVE  b < p.min \/ p.max < b
      BY <1>1 DEF HeldApart
    <2>1. CASE b \in block_numbers.insert
      BY <2>1 DEF IInv, LogInv, HeldApart
    <2>2. CASE b = next_block
      <3>1. p \in Live
        BY LogFacts
      <3> QED
        BY <2>2, <3>1, LiveParts DEF IInv
    <2> QED
      BY <2>1, <2>2 DEF Quiet
  <1> QED
    BY <1>1, <1>2, <1>3 DEF IInv, LogInv, Laminar, SourcesCover, AssignedOnce

LEMMA HeldIsDisjoint ==
    ASSUME IInv, NEW b \in block_numbers.insert, NEW i \in 1 .. Len(log), NEW p \in log[i].new
    PROVE  p # Block(b) /\ isDisjoint(p, Block(b)) /\ ~contains(p, Block(b))
  <1>1. (b < p.min \/ p.max < b) /\ p \in Live /\ b \in Nat
    BY LogFacts DEF IInv, LogInv, HeldApart
  <1>2. Block(b).min = b /\ Block(b).max = b
    BY DEF Block
  <1>3. p.min \in Nat /\ p.max \in Nat /\ p.min <= p.max
    BY <1>1, LiveParts DEF IInv
  <1> QED
    BY <1>1, <1>2, <1>3 DEF isDisjoint, contains

LEMMA LogCommits ==
    ASSUME IInv, NEW b \in Blocks, Commits(b)
    PROVE  LogInv'
  <1> DEFINE n == Len(log) + 1
             e == Entry("GET_PART", {Block(b)}, {})
  <1>1. /\ Len(log') = n /\ log'[n] = e /\ \A i \in 1 .. Len(log) : log'[i] = log[i]
        /\ DOMAIN log' = 1 .. n
        /\ \A i \in 1 .. n : i \in 1 .. Len(log) \/ i = n
    <2>1. e \in Entries(Live)
      BY LiveBlocks, EntryIsEntry DEF Types
    <2>2. log' = Append(log, e) /\ log \in Seq(Entries(Live))
      BY DEF Commits, IInv, ZooKeeperTypes
    <2> QED
      BY <2>1, <2>2, AppendKeeps
  <1>2. e.type = "GET_PART" /\ e.new = {Block(b)} /\ e.sources = {}
    BY DEF Entry
  <1>3. b \in block_numbers.insert /\ Len(log) \in Nat /\ b \in Nat
    BY LogFacts DEF Commits
  <1>4. Live' = Live /\ Blocks' = Blocks
    BY DEF Commits, Live, Blocks
  <1> HIDE DEF e
  <1>5. EntryShape'
    <2> SUFFICES ASSUME NEW i \in 1 .. n
                 PROVE  CASE log'[i].type = "GET_PART" ->
                                log'[i].sources = {} /\ \E c \in Blocks : log'[i].new = {Block(c)}
                          [] log'[i].type = "SYNC_PINNED_PART_UUIDS" ->
                                log'[i].sources = {} /\ log'[i].new = {}
                          [] OTHER -> \E m \in Live : /\ log'[i].new = {m}
                                                      /\ \A s \in log'[i].sources : contains(m, s) /\ s # m
      BY <1>1, <1>4 DEF EntryShape, Result
    <2>1. CASE i \in 1 .. Len(log)
      BY <1>1, <2>1 DEF IInv, LogInv, EntryShape, Result
    <2>2. CASE i = n
      BY <1>1, <1>2, <2>2
    <2> QED
      BY <1>1, <2>1, <2>2
  <1>6. Laminar'
    <2> SUFFICES ASSUME NEW i \in 1 .. n, NEW j \in 1 .. n, i < j,
                        NEW p \in log'[i].new, NEW q \in log'[j].new
                 PROVE  p # q /\ (isDisjoint(p, q) \/ contains(q, p))
      BY <1>1 DEF Laminar
    <2>1. i \in 1 .. Len(log)
      BY <1>3
    <2>2. CASE j \in 1 .. Len(log)
      BY <1>1, <2>1, <2>2 DEF IInv, LogInv, Laminar
    <2>3. CASE j = n
      BY <1>1, <1>2, <1>3, <2>1, <2>3, HeldIsDisjoint
    <2> QED
      BY <1>1, <2>2, <2>3
  <1>7. HeldApart'
    <2> SUFFICES ASSUME NEW i \in 1 .. n, NEW p \in log'[i].new, NEW c \in block_numbers'.insert
                 PROVE  c < p.min \/ p.max < c
      BY <1>1 DEF HeldApart
    <2>1. c \in block_numbers.insert /\ c # b /\ c \in Nat
      BY LogFacts DEF Commits, IInv, ZooKeeperTypes
    <2>2. CASE i \in 1 .. Len(log)
      BY <1>1, <2>1, <2>2 DEF IInv, LogInv, HeldApart
    <2>3. CASE i = n
      BY <1>1, <1>2, <1>3, <2>1, <2>3 DEF Block
    <2> QED
      BY <1>1, <2>2, <2>3
  <1>8. SourcesCover'
    <2> SUFFICES ASSUME NEW i \in 1 .. n, NEW j \in 1 .. n,
                        log'[i].type \in {"MERGE_PARTS", "MUTATE_PART"}, log'[j].type = "GET_PART",
                        NEW m \in log'[i].new, NEW p \in log'[j].new, contains(m, p)
                 PROVE  \E s \in log'[i].sources : contains(s, p)
      BY <1>1 DEF SourcesCover
    <2>1. i \in 1 .. Len(log)
      BY <1>1, <1>2
    <2>2. CASE j \in 1 .. Len(log)
      BY <1>1, <2>1, <2>2 DEF IInv, LogInv, SourcesCover
    <2>3. CASE j = n
      BY <1>1, <1>2, <1>3, <2>1, <2>3, HeldIsDisjoint
    <2> QED
      BY <1>1, <2>2, <2>3
  <1>9. AssignedOnce'
    <2> SUFFICES ASSUME NEW i \in 1 .. n, NEW j \in 1 .. n, i # j
                 PROVE  log'[i].sources \cap log'[j].sources = {}
      BY <1>1 DEF AssignedOnce
    <2>1. CASE i \in 1 .. Len(log) /\ j \in 1 .. Len(log)
      BY <1>1, <2>1, LogFacts DEF IInv, LogInv, AssignedOnce
    <2>2. CASE i = n \/ j = n
      BY <1>1, <1>2, <2>2
    <2> QED
      BY <1>1, <2>1, <2>2
  <1> QED
    BY <1>5, <1>6, <1>7, <1>8, <1>9 DEF LogInv

LEMMA LogAssigns ==
    ASSUME IInv, NEW e \in Entries(Live), Assigns(e)
    PROVE  LogInv'
  <1> DEFINE n == Len(log) + 1
  <1>1. /\ Len(log') = n /\ log'[n] = e /\ \A i \in 1 .. Len(log) : log'[i] = log[i]
        /\ DOMAIN log' = 1 .. n
        /\ \A i \in 1 .. n : i \in 1 .. Len(log) \/ i = n
    <2>1. log' = Append(log, e) /\ log \in Seq(Entries(Live))
      BY DEF Assigns, IInv, ZooKeeperTypes
    <2> QED
      BY <2>1, AppendKeeps
  <1>2. \/ e.type = "SYNC_PINNED_PART_UUIDS" /\ e.new = {} /\ e.sources = {}
        \/ e.type \in {"MERGE_PARTS", "MUTATE_PART"} /\ Result(e.new, e.sources) /\ Fits(e.new, e.sources)
    <2>1. CASE e = Entry("SYNC_PINNED_PART_UUIDS", {}, {})
      BY <2>1 DEF Entry
    <2>2. ASSUME NEW r \in Replicas, predicate[r].stage = "create", predicate[r].version = version,
                 e = Entry(Type(predicate[r]), predicate[r].new, predicate[r].sources)
          PROVE  /\ e.type \in {"MERGE_PARTS", "MUTATE_PART"}
                 /\ Result(e.new, e.sources) /\ Fits(e.new, e.sources)
      <3>1. Result(predicate[r].new, predicate[r].sources) /\ Fits(predicate[r].new, predicate[r].sources)
        BY <2>2 DEF IInv, PredicateInv, ToCreate
      <3>2. /\ e.type = Type(predicate[r]) /\ e.new = predicate[r].new /\ e.sources = predicate[r].sources
        BY <2>2 DEF Entry
      <3> QED
        BY <3>1, <3>2 DEF Type
    <2> QED
      BY <2>1, <2>2 DEF Assigns
  <1>3. Live' = Live /\ Blocks' = Blocks /\ block_numbers' = block_numbers /\ Len(log) \in Nat
    BY LogFacts DEF Assigns, Live, Blocks
  <1>4. EntryShape'
    <2> SUFFICES ASSUME NEW i \in 1 .. n
                 PROVE  CASE log'[i].type = "GET_PART" ->
                                log'[i].sources = {} /\ \E c \in Blocks : log'[i].new = {Block(c)}
                          [] log'[i].type = "SYNC_PINNED_PART_UUIDS" ->
                                log'[i].sources = {} /\ log'[i].new = {}
                          [] OTHER -> \E m \in Live : /\ log'[i].new = {m}
                                                      /\ \A s \in log'[i].sources : contains(m, s) /\ s # m
      BY <1>1, <1>3 DEF EntryShape, Result
    <2>1. CASE i \in 1 .. Len(log)
      BY <1>1, <2>1 DEF IInv, LogInv, EntryShape, Result
    <2>2. CASE i = n
      BY <1>1, <1>2, <2>2 DEF Result
    <2> QED
      BY <1>1, <2>1, <2>2
  <1>5. Laminar'
    <2> SUFFICES ASSUME NEW i \in 1 .. n, NEW j \in 1 .. n, i < j,
                        NEW p \in log'[i].new, NEW q \in log'[j].new
                 PROVE  p # q /\ (isDisjoint(p, q) \/ contains(q, p))
      BY <1>1 DEF Laminar
    <2>1. i \in 1 .. Len(log)
      BY <1>3
    <2>2. CASE j \in 1 .. Len(log)
      BY <1>1, <2>1, <2>2 DEF IInv, LogInv, Laminar
    <2>3. CASE j = n
      BY <1>1, <1>2, <2>1, <2>3 DEF Fits
    <2> QED
      BY <1>1, <2>2, <2>3
  <1>6. HeldApart'
    <2> SUFFICES ASSUME NEW i \in 1 .. n, NEW p \in log'[i].new, NEW c \in block_numbers.insert
                 PROVE  c < p.min \/ p.max < c
      BY <1>1, <1>3 DEF HeldApart
    <2>1. CASE i \in 1 .. Len(log)
      BY <1>1, <2>1 DEF IInv, LogInv, HeldApart
    <2>2. CASE i = n
      BY <1>1, <1>2, <2>2 DEF Fits
    <2> QED
      BY <1>1, <2>1, <2>2
  <1>7. SourcesCover'
    <2> SUFFICES ASSUME NEW i \in 1 .. n, NEW j \in 1 .. n,
                        log'[i].type \in {"MERGE_PARTS", "MUTATE_PART"}, log'[j].type = "GET_PART",
                        NEW m \in log'[i].new, NEW p \in log'[j].new, contains(m, p)
                 PROVE  \E s \in log'[i].sources : contains(s, p)
      BY <1>1 DEF SourcesCover
    <2>1. j \in 1 .. Len(log)
      BY <1>1, <1>2
    <2>2. CASE i \in 1 .. Len(log)
      BY <1>1, <2>1, <2>2 DEF IInv, LogInv, SourcesCover
    <2>3. CASE i = n
      BY <1>1, <1>2, <2>1, <2>3 DEF Fits
    <2> QED
      BY <1>1, <2>2, <2>3
  <1>8. AssignedOnce'
    <2> SUFFICES ASSUME NEW i \in 1 .. n, NEW j \in 1 .. n, i # j
                 PROVE  log'[i].sources \cap log'[j].sources = {}
      BY <1>1 DEF AssignedOnce
    <2>1. CASE i \in 1 .. Len(log) /\ j \in 1 .. Len(log)
      BY <1>1, <2>1, LogFacts DEF IInv, LogInv, AssignedOnce
    <2>2. \A k \in 1 .. Len(log) : log[k].sources \cap e.sources = {}
      BY <1>2 DEF Fits, Result
    <2>3. CASE i = n /\ j \in 1 .. Len(log)
      BY <1>1, <2>2, <2>3
    <2>4. CASE j = n /\ i \in 1 .. Len(log)
      BY <1>1, <2>2, <2>4
    <2> QED
      BY <1>1, <2>1, <2>3, <2>4
  <1> QED
    BY <1>4, <1>5, <1>6, <1>7, <1>8 DEF LogInv

LEMMA LogNext ==
    ASSUME IInv, [Next]_vars
    PROVE  LogInv'
  BY StepKinds, LogQuiet, LogCommits, LogAssigns

(***************************************************************************)
(* The virtual parts                                                       *)
(***************************************************************************)

(* What a replica pulls next is disjoint from its virtual parts or covers  *)
(* them: add does not throw.                                               *)
LEMMA NextFits ==
    ASSUME IInv, NEW r \in Replicas, log_pointer[r] < Len(log),
           NEW p \in log[log_pointer[r] + 1].new
    PROVE  /\ p \in Live
           /\ \A q \in virtual_parts[r] : q \in Live /\ q # p /\ (isDisjoint(p, q) \/ contains(p, q))
           /\ Intersecting(virtual_parts[r], p) = {}
  <1> DEFINE V == virtual_parts[r]
             n == log_pointer[r] + 1
  <1>1. /\ log_pointer[r] \in Nat /\ n \in 1 .. Len(log) /\ V \subseteq Live /\ Live \subseteq AnyInfo
        /\ p \in Live
    <2>1. log_pointer[r] \in Nat /\ V \subseteq Live
      BY DEF IInv, QueueTypes
    <2>2. n \in 1 .. Len(log)
      BY <2>1, LogFacts
    <2> QED
      BY <2>1, <2>2, LogFacts
  <1>2. ASSUME NEW q \in V
        PROVE  q # p /\ (isDisjoint(p, q) \/ contains(p, q))
    <2>1. PICK i \in 1 .. log_pointer[r] : q \in log[i].new
      BY DEF IInv, VirtualInv, VirtualFrom
    <2>2. i \in 1 .. Len(log) /\ i < n
      BY <1>1, <2>1, LogFacts
    <2>3. q # p /\ (isDisjoint(q, p) \/ contains(p, q))
      BY <1>1, <2>1, <2>2 DEF IInv, LogInv, Laminar
    <2> QED
      BY <1>1, <2>3, DisjointSymmetric
  <1>3. \A q \in Stops(p, V) : q \in V /\ ~contains(p, q)
    BY DEF Stops, Left, Right
  <1>4. \A q \in Stops(p, V) : isDisjoint(p, q)
    BY <1>2, <1>3
  <1>5. Intersecting(V, p) = {}
    BY <1>4 DEF Intersecting
  <1> QED
    BY <1>1, <1>2, <1>5

LEMMA VirtualKept ==
    ASSUME IInv, [Next]_vars, NEW r \in Replicas,
           log_pointer'[r] = log_pointer[r], virtual_parts'[r] = virtual_parts[r]
    PROVE  /\ \A p \in virtual_parts'[r] : \E i \in 1 .. log_pointer'[r] : p \in log'[i].new
           /\ \A i \in 1 .. log_pointer'[r] : \A p \in log'[i].new :
                 \E q \in virtual_parts'[r] : contains(q, p)
           /\ Pairwise(virtual_parts'[r])
  <1>1. log_pointer[r] \in Nat /\ log_pointer[r] <= Len(log) /\ Len(log) \in Nat
    BY LogFacts DEF IInv, QueueTypes
  <1>2. \A i \in 1 .. log_pointer[r] : i \in 1 .. Len(log)
    BY <1>1
  <1>3. \A i \in 1 .. log_pointer[r] : log'[i] = log[i]
    BY <1>2, LogGrows
  <1> QED
    BY <1>3 DEF IInv, VirtualInv, VirtualFrom, VirtualCovers, VirtualDisjoint

LEMMA VirtualPulled ==
    ASSUME IInv, NEW r \in Replicas, Pulls(r)
    PROVE  /\ \A p \in virtual_parts'[r] : \E i \in 1 .. log_pointer'[r] : p \in log'[i].new
           /\ \A i \in 1 .. log_pointer'[r] : \A p \in log'[i].new :
                 \E q \in virtual_parts'[r] : contains(q, p)
           /\ Pairwise(virtual_parts'[r])
  <1> DEFINE V == virtual_parts[r]
             n == log_pointer[r] + 1
  <1>1. /\ log_pointer \in [Replicas -> Nat] /\ virtual_parts \in [Replicas -> SUBSET Live]
        /\ Len(log) \in Nat /\ log_pointer[r] < Len(log) /\ log' = log
    BY LogFacts DEF IInv, QueueTypes, Pulls
  <1>2. /\ log_pointer'[r] = n /\ n \in 1 .. Len(log)
        /\ \A i \in 1 .. n : i \in 1 .. log_pointer[r] \/ i = n
        /\ \A i \in 1 .. log_pointer[r] : i \in 1 .. n
    BY <1>1 DEF Pulls, Pull
  <1>3. /\ \A p \in V : \E i \in 1 .. log_pointer[r] : p \in log[i].new
        /\ \A i \in 1 .. log_pointer[r] : \A p \in log[i].new : \E q \in V : contains(q, p)
        /\ Pairwise(V)
    BY DEF IInv, VirtualInv, VirtualFrom, VirtualCovers, VirtualDisjoint
  <1>4. V \subseteq AnyInfo /\ Live \subseteq AnyInfo
    BY <1>1, LogFacts
  <1>5. CASE log[n].new = {} /\ virtual_parts' = virtual_parts
    BY <1>1, <1>2, <1>3, <1>5
  <1>6. ASSUME NEW p \in log[n].new, virtual_parts' = [virtual_parts EXCEPT ![r] = add(@, p)]
        PROVE  /\ \A q \in virtual_parts'[r] : \E i \in 1 .. log_pointer'[r] : q \in log'[i].new
               /\ \A i \in 1 .. log_pointer'[r] : \A q \in log'[i].new :
                     \E s \in virtual_parts'[r] : contains(s, q)
               /\ Pairwise(virtual_parts'[r])
    <2> DEFINE W == add(V, p)
    <2>1. virtual_parts'[r] = W
      BY <1>1, <1>6
    <2>2. p \in Live /\ p \in AnyInfo /\ Intersecting(V, p) = {}
      BY <1>1, <1>4, NextFits
    <2>3. Pairwise(W) /\ \A q \in V \cup {p} : \E s \in W : contains(s, q)
      BY <1>3, <1>4, <2>2, AddKeepsDisjoint
    <2>4. W \subseteq V \cup {p}
      BY DEF add
    <2>5. log[n].new = {p}
      <3>1. n \in 1 .. Len(log)
        BY <1>2
      <3>2. \E m : log[n].new = {m}
        BY <1>6, <3>1 DEF IInv, LogInv, EntryShape, Result
      <3> QED
        BY <1>6, <3>2
    <2> HIDE DEF W
    <2>6. ASSUME NEW q \in W
          PROVE  \E i \in 1 .. n : q \in log[i].new
      <3>1. CASE q \in V
        BY <1>2, <1>3, <3>1
      <3>2. CASE q = p
        BY <1>1, <1>2, <1>6, <3>2
      <3> QED
        BY <2>4, <3>1, <3>2
    <2>7. ASSUME NEW i \in 1 .. n, NEW q \in log[i].new
          PROVE  \E s \in W : contains(s, q)
      <3>1. CASE i \in 1 .. log_pointer[r]
        <4>1. PICK u \in V : contains(u, q)
          BY <1>3, <3>1
        <4>2. PICK s \in W : contains(s, u)
          BY <2>3
        <4>3. s \in AnyInfo /\ u \in AnyInfo
          BY <1>4, <2>2, <2>4
        <4>4. q \in AnyInfo
          <5>1. i \in 1 .. Len(log)
            BY <1>1, <1>2
          <5> QED
            BY <1>4, <5>1, LogFacts
        <4> QED
          BY <4>1, <4>2, <4>3, <4>4, ContainsTransitive
      <3>2. CASE i = n
        BY <2>3, <2>5, <3>2
      <3> QED
        BY <1>2, <3>1, <3>2
    <2> QED
      BY <1>1, <1>2, <2>1, <2>3, <2>6, <2>7
  <1> QED
    BY <1>5, <1>6 DEF Pulls, Pull

LEMMA VirtualNext ==
    ASSUME IInv, [Next]_vars
    PROVE  VirtualInv'
  <1> DEFINE Ok(r) ==
        /\ \A p \in virtual_parts'[r] : \E i \in 1 .. log_pointer'[r] : p \in log'[i].new
        /\ \A i \in 1 .. log_pointer'[r] : \A p \in log'[i].new :
              \E q \in virtual_parts'[r] : contains(q, p)
        /\ Pairwise(virtual_parts'[r])
  <1>1. CASE UNCHANGED <<log_pointer, virtual_parts>>
    <2>1. \A r \in Replicas : Ok(r)
      BY <1>1, VirtualKept
    <2> QED
      BY <2>1 DEF VirtualInv, VirtualFrom, VirtualCovers, VirtualDisjoint
  <1>2. ASSUME NEW r \in Replicas, Pulls(r)
        PROVE  VirtualInv'
    <2>1. log_pointer \in [Replicas -> Nat] /\ virtual_parts \in [Replicas -> SUBSET Live]
      BY DEF IInv, QueueTypes
    <2>2. \A q \in Replicas : q # r => /\ log_pointer'[q] = log_pointer[q]
                                       /\ virtual_parts'[q] = virtual_parts[q]
      BY <1>2, <2>1 DEF Pulls, Pull
    <2>3. \A q \in Replicas : Ok(q)
      BY <1>2, <2>2, VirtualKept, VirtualPulled
    <2> QED
      BY <2>3 DEF VirtualInv, VirtualFrom, VirtualCovers, VirtualDisjoint
  <1> QED
    BY <1>1, <1>2, QueueSteps

(***************************************************************************)
(* What a merge predicate selects                                          *)
(***************************************************************************)

(* A part that no later entry can be in: the block number of an insert     *)
(* covers nothing else.                                                    *)
LEMMA BlockCoversItself ==
    ASSUME NEW b \in Nat, NEW p \in AnyInfo, contains(Block(b), p)
    PROVE  p = Block(b)
  <1>1. /\ Block(b).min = b /\ Block(b).max = b /\ Block(b).level = 0 /\ Block(b).mutation = 0
        /\ Block(b) \in AnyInfo
    BY DEF Block, AnyInfo
  <1>2. /\ p = [min |-> p.min, max |-> p.max, level |-> p.level, mutation |-> p.mutation]
        /\ p.min \in Nat /\ p.max \in Nat /\ p.min <= p.max /\ p.level \in Nat /\ p.mutation \in Nat
    BY DEF AnyInfo
  <1>3. p.min = b /\ p.max = b /\ p.level = 0 /\ p.mutation = 0
    BY <1>1, <1>2 DEF contains
  <1> QED
    BY <1>2, <1>3 DEF Block

(* The entries that a predicate does not know of, if the version of the    *)
(* log will not refuse what it selects, are inserts apart from the parts   *)
(* that it knows.                                                          *)
LEMMA LateEntries ==
    ASSUME IInv, NEW r \in Replicas, predicate[r].stage = "ready", predicate[r].version = version,
           NEW i \in 1 .. Len(log), ~(i <= log_pointer[r])
    PROVE  /\ log[i].type = "GET_PART" /\ log[i].sources = {}
           /\ \E b \in Nat : /\ log[i].new = {Block(b)} /\ Block(b) \in AnyInfo
                             /\ b \in predicate[r].committing \/ \A q \in predicate[r].prev : q.max < b
                             /\ \A s \in virtual_parts[r] : isDisjoint(s, Block(b))
  <1>1. /\ predicate[r].listed \in Nat /\ predicate[r].listed <= log_pointer[r]
        /\ log_pointer[r] \in Nat /\ log_pointer[r] <= Len(log) /\ Len(log) \in Nat
    BY LogFacts DEF IInv, QueueTypes, PredicateTypes, Predicates
  <1>2. i \in predicate[r].listed + 1 .. Len(log)
    BY <1>1
  <1>3. HasListed(r)
    BY DEF HasListed
  <1>4. log[i].type = "GET_PART"
    BY <1>2, <1>3 DEF IInv, PredicateInv, VersionKnown
  <1>5. log[i].sources = {} /\ \E b \in Blocks : log[i].new = {Block(b)}
    BY <1>4, LogFacts
  <1>6. PICK b \in Blocks : log[i].new = {Block(b)}
    BY <1>5
  <1>7. b \in Nat /\ Block(b) \in AnyInfo /\ Block(b).min = b
    BY LogFacts, LiveBlocks DEF Block
  <1>8. b \in predicate[r].committing \/ \A q \in predicate[r].prev : q.max < b
    BY <1>2, <1>3, <1>4, <1>6, <1>7 DEF IInv, PredicateInv, LateAreSeen
  <1>9. ASSUME NEW s \in virtual_parts[r]
        PROVE  isDisjoint(s, Block(b))
    <2>1. PICK j \in 1 .. log_pointer[r] : s \in log[j].new
      BY DEF IInv, VirtualInv, VirtualFrom
    <2>2. j \in 1 .. Len(log) /\ j < i
      BY <1>1
    <2>3. s # Block(b) /\ (isDisjoint(s, Block(b)) \/ contains(Block(b), s))
      BY <1>6, <2>1, <2>2 DEF IInv, LogInv, Laminar
    <2>4. s \in AnyInfo
      BY <2>1, <2>2, LogFacts
    <2> QED
      BY <1>7, <2>3, <2>4, BlockCoversItself
  <1> QED
    BY <1>4, <1>5, <1>6, <1>7, <1>8, <1>9

(* A part in the middle of a new part that is neither in a source nor has  *)
(* been seen.                                                              *)
Unseen(r, m, sources) ==
    {b \in Nat : /\ m.min <= b /\ b <= m.max
                 /\ \A s \in sources : b < s.min \/ s.max < b
                 /\ b \in predicate[r].committing \/ \A q \in predicate[r].prev : q.max < b}

LEMMA SelectedFits ==
    ASSUME IInv, NEW r \in Replicas, predicate[r].stage = "ready", predicate[r].version = version,
           NEW sources \in SUBSET virtual_parts[r], NEW m \in Live,
           \A s \in sources : contains(m, s) /\ s # m,
           \A q \in virtual_parts[r] : q \in sources \/ isDisjoint(q, m),
           Unseen(r, m, sources) = {}
    PROVE  Fits({m}, sources)
  <1> DEFINE V == virtual_parts[r]
  <1>1. /\ V \subseteq Live /\ Live \subseteq AnyInfo /\ m \in AnyInfo
        /\ log_pointer[r] \in Nat /\ log_pointer[r] <= Len(log) /\ Len(log) \in Nat
    BY LogFacts DEF IInv, QueueTypes
  <1>2. Pairwise(V)
    BY DEF IInv, VirtualInv, VirtualDisjoint
  <1>3. ASSUME NEW i \in 1 .. Len(log), NEW p \in log[i].new
        PROVE  /\ p # m /\ (isDisjoint(p, m) \/ contains(m, p))
               /\ log[i].type = "GET_PART" /\ contains(m, p) => \E s \in sources : contains(s, p)
    <2>1. p \in AnyInfo
      BY <1>1, LogFacts
    <2>2. CASE i <= log_pointer[r]
      <3>1. i \in 1 .. log_pointer[r]
        BY <1>1, <2>2
      <3>2. PICK q \in V : contains(q, p)
        BY <3>1 DEF IInv, VirtualInv, VirtualCovers
      <3>3. q \in AnyInfo
        BY <1>1
      <3>4. CASE q \in sources
        <4>1. contains(m, p)
          BY <1>1, <2>1, <3>2, <3>3, <3>4, ContainsTransitive
        <4>2. p # m
          BY <1>1, <3>2, <3>3, <3>4, ContainsAntisymmetric
        <4> QED
          BY <3>2, <3>4, <4>1, <4>2
      <3>5. CASE isDisjoint(q, m)
        <4>1. isDisjoint(p, m)
          BY <1>1, <2>1, <3>2, <3>3, <3>5 DEF AnyInfo, isDisjoint, contains
        <4>2. ~contains(m, p) /\ p # m
          BY <1>1, <2>1, <4>1 DEF AnyInfo, isDisjoint, contains
        <4> QED
          BY <4>1, <4>2
      <3> QED
        BY <3>4, <3>5
    <2>3. CASE ~(i <= log_pointer[r])
      <3>1. PICK b \in Nat : /\ log[i].new = {Block(b)} /\ Block(b) \in AnyInfo
                             /\ b \in predicate[r].committing \/ \A q \in predicate[r].prev : q.max < b
                             /\ \A s \in V : isDisjoint(s, Block(b))
        BY <2>3, LateEntries
      <3>2. p = Block(b) /\ p.min = b /\ p.max = b
        BY <3>1 DEF Block
      <3>3. \A s \in sources : b < s.min \/ s.max < b
        <4>1. \A s \in sources : isDisjoint(s, p) /\ s \in AnyInfo
          BY <1>1, <3>1, <3>2
        <4> QED
          BY <3>2, <4>1 DEF AnyInfo, isDisjoint
      <3>4. ~(m.min <= b /\ b <= m.max)
        BY <3>1, <3>3 DEF Unseen
      <3>5. isDisjoint(p, m)
        BY <1>1, <3>2, <3>4 DEF AnyInfo, isDisjoint
      <3>6. ~contains(m, p) /\ p # m
        BY <1>1, <2>1, <3>5 DEF AnyInfo, isDisjoint, contains
      <3> QED
        BY <3>5, <3>6
    <2> QED
      BY <2>2, <2>3
  <1>4. ASSUME NEW b \in block_numbers.insert
        PROVE  b < m.min \/ m.max < b
    <2>1. b \in Nat
      BY LogFacts
    <2>2. ASSUME NEW s \in sources
          PROVE  b < s.min \/ s.max < b
      <3>1. PICK j \in 1 .. log_pointer[r] : s \in log[j].new
        BY DEF IInv, VirtualInv, VirtualFrom
      <3>2. j \in 1 .. Len(log)
        BY <1>1
      <3> QED
        BY <3>1, <3>2 DEF IInv, LogInv, HeldApart
    <2>3. Reads(r)
      BY DEF Reads
    <2>4. b \in predicate[r].committing \/ \A q \in predicate[r].prev : q.max < b
      BY <2>3 DEF IInv, PredicateInv, HeldAreSeen
    <2>5. ~(m.min <= b /\ b <= m.max)
      BY <2>1, <2>2, <2>4 DEF Unseen
    <2> QED
      BY <1>1, <2>1, <2>5 DEF AnyInfo
  <1>5. ASSUME NEW i \in 1 .. Len(log), NEW s \in log[i].sources, s \in sources
        PROVE  FALSE
    <2>1. i <= log_pointer[r]
      BY LateEntries
    <2>2. i \in 1 .. log_pointer[r] /\ s \in V /\ s \in AnyInfo
      BY <1>1, <1>5, <2>1
    <2>3. PICK n \in Live : log[i].new = {n} /\ contains(n, s) /\ s # n
      BY DEF IInv, LogInv, EntryShape, Result
    <2>4. PICK q \in V : contains(q, n)
      BY <2>2, <2>3 DEF IInv, VirtualInv, VirtualCovers
    <2>5. q \in AnyInfo /\ n \in AnyInfo
      BY <1>1
    <2>6. contains(q, s)
      BY <2>2, <2>3, <2>4, <2>5, ContainsTransitive
    <2>7. q = s
      BY <1>2, <2>2, <2>5, <2>6, ContainsOverlaps DEF Pairwise
    <2> QED
      BY <2>2, <2>3, <2>4, <2>5, <2>7, ContainsAntisymmetric
  <1> QED
    BY <1>3, <1>4, <1>5 DEF Fits

(* getPartsCoveredBy finds what is between two neighbours.                 *)
LEMMA GapIsEmpty ==
    ASSUME NEW V \in SUBSET AnyInfo, Pairwise(V), NEW left \in V, NEW right \in V,
           left.max < right.min, getPartsCoveredBy(V, Gap(left, right)) = {},
           NEW q \in V, q.level < MAX_LEVEL, q.mutation <= MAX_BLOCK_NUMBER,
           \A s \in V : s.level < MAX_LEVEL /\ s.mutation <= MAX_BLOCK_NUMBER
    PROVE  ~(left.max < q.min /\ q.max < right.min)
  <1> SUFFICES ASSUME left.max < q.min, q.max < right.min
               PROVE  FALSE
    OBVIOUS
  <1> DEFINE G == Gap(left, right)
  <1>1. /\ left.min \in Nat /\ left.max \in Nat /\ left.min <= left.max
        /\ right.min \in Nat /\ right.max \in Nat /\ right.min <= right.max
        /\ q.min \in Nat /\ q.max \in Nat /\ q.min <= q.max
    BY DEF AnyInfo
  <1>2. /\ G.min = left.max + 1 /\ G.max = right.min - 1 /\ G.level = MAX_LEVEL
        /\ G.mutation = MAX_BLOCK_NUMBER
    BY DEF Gap
  <1>3. G \in AnyInfo
    <2>1. left.max + 1 \in Nat /\ right.min - 1 \in Nat /\ left.max + 1 <= right.min - 1
      BY <1>1
    <2> QED
      BY <2>1, LevelAssumption, AssignmentAssumption DEF Gap, AnyInfo
  <1> HIDE DEF G
  <1>4. ASSUME NEW s \in V
        PROVE  contains(G, s) \/ isDisjoint(G, s)
    <2>1. /\ s.min \in Nat /\ s.max \in Nat /\ s.min <= s.max
          /\ s.level \in Nat /\ s.mutation \in Nat
      BY DEF AnyInfo
    <2>2. CASE s = left \/ s = right
      BY <1>1, <1>2, <2>2 DEF isDisjoint
    <2>3. CASE isDisjoint(s, left) /\ isDisjoint(s, right)
      <3>1. s.min > right.max \/ s.max < left.min \/ (left.max + 1 <= s.min /\ s.max <= right.min - 1)
        BY <1>1, <2>1, <2>3 DEF isDisjoint
      <3>2. CASE s.min > right.max \/ s.max < left.min
        BY <1>1, <1>2, <2>1, <3>2 DEF isDisjoint
      <3>3. CASE left.max + 1 <= s.min /\ s.max <= right.min - 1
        BY <1>2, <2>1, <3>3, LevelAssumption, AssignmentAssumption DEF contains, isFakeDropRangePart
      <3> QED
        BY <3>1, <3>2, <3>3
    <2> QED
      BY <2>2, <2>3 DEF Pairwise
  <1>5. \A s \in Stops(G, V) : s \in V /\ ~contains(G, s)
    BY DEF Stops, Left, Right
  <1>6. \A s \in Stops(G, V) : isDisjoint(G, s)
    BY <1>4, <1>5
  <1>7. q # G /\ ~isDisjoint(G, q)
    BY <1>1, <1>2, LevelAssumption DEF isDisjoint
  <1>8. q \in Run(V, G)
    BY <1>3, <1>6, <1>7, RunComplete
  <1>9. ~(\E s \in Stops(G, V) : contains(s, G))
    <2> SUFFICES ASSUME NEW s \in Stops(G, V), contains(s, G)
                 PROVE  FALSE
      OBVIOUS
    <2>1. s \in AnyInfo /\ isDisjoint(G, s)
      BY <1>5, <1>6
    <2> QED
      BY <1>3, <2>1, ContainsOverlaps, DisjointSymmetric
  <1> QED
    BY <1>8, <1>9 DEF getPartsCoveredBy, G

LEMMA SelectMerge ==
    ASSUME IInv, NEW r \in Replicas, NEW left \in virtual_parts[r], NEW right \in virtual_parts[r],
           selectPartsToMerge(r, left, right), predicate[r].version = version
    PROVE  Fits({Merged(left, right)}, {left, right})
  <1> DEFINE V == virtual_parts[r]
             m == Merged(left, right)
  <1>1. /\ V \subseteq Live /\ Live \subseteq AnyInfo /\ left \in Live /\ right \in Live
        /\ predicate[r].prev \subseteq Live
    BY LogFacts DEF IInv, QueueTypes, PredicateTypes, Predicates
  <1>2. /\ predicate[r].stage = "ready" /\ left.max < right.min /\ m.level <= MaxLevel
        /\ canUsePartInMerges(r, right) /\ canMergeParts(r, left, right)
    BY DEF selectPartsToMerge, Merged
  <1>3. m \in Live /\ \A s \in {left, right} : contains(m, s) /\ s # m
    <2>1. m \in Live /\ Result({m}, {left, right})
      BY <1>1, <1>2, MergedPart DEF IInv
    <2>2. \A n : {m} = {n} => n = m
      OBVIOUS
    <2> QED
      BY <2>1, <2>2 DEF Result
  <1>4. m.min = left.min /\ m.max = right.max
    BY DEF Merged
  <1>5. /\ left.min \in Nat /\ left.max \in Nat /\ left.min <= left.max
        /\ right.min \in Nat /\ right.max \in Nat /\ right.min <= right.max
    BY <1>1, LiveParts DEF IInv
  <1> HIDE DEF m
  <1>6. Pairwise(V)
    BY DEF IInv, VirtualInv, VirtualDisjoint
  <1>7. ASSUME NEW q \in V
        PROVE  q \in {left, right} \/ isDisjoint(q, m)
    <2> SUFFICES ASSUME q \notin {left, right}
                 PROVE  isDisjoint(q, m)
      OBVIOUS
    <2>1. q.min \in Nat /\ q.max \in Nat /\ q.min <= q.max
      BY <1>1, LiveParts DEF IInv
    <2>2. isDisjoint(q, left) /\ isDisjoint(q, right)
      BY <1>6 DEF Pairwise
    <2>3. ~(left.max < q.min /\ q.max < right.min)
      <3> SUFFICES ASSUME left.max < q.min, q.max < right.min
                   PROVE  FALSE
        OBVIOUS
      <3>1. left.max + 1 < right.min
        BY <1>5, <2>1
      <3>2. getPartsCoveredBy(V, Gap(left, right)) = {}
        BY <1>2, <3>1 DEF canMergeParts
      <3>3. \A s \in V : s.level < MAX_LEVEL /\ s.mutation <= MAX_BLOCK_NUMBER
        BY <1>1, LiveParts, LevelAssumption, AssignmentAssumption DEF IInv
      <3>4. V \in SUBSET AnyInfo
        BY <1>1
      <3> QED
        BY <1>2, <1>6, <3>2, <3>3, <3>4, GapIsEmpty
    <2> QED
      BY <1>2, <1>4, <1>5, <2>1, <2>2, <2>3 DEF isDisjoint
  <1>8. Unseen(r, m, {left, right}) = {}
    <2> SUFFICES ASSUME NEW b \in Unseen(r, m, {left, right})
                 PROVE  FALSE
      OBVIOUS
    <2>1. /\ b \in Nat /\ m.min <= b /\ b <= m.max
          /\ b < left.min \/ left.max < b
          /\ b < right.min \/ right.max < b
          /\ b \in predicate[r].committing \/ \A q \in predicate[r].prev : q.max < b
      BY DEF Unseen
    <2>2. left.max < b /\ b < right.min /\ left.max + 1 < right.min
      BY <1>4, <1>5, <2>1
    <2>3. b \notin predicate[r].committing
      BY <1>2, <2>2 DEF canMergeParts
    <2>4. PICK q \in getContainingPart(predicate[r].prev, right) : TRUE
      BY <1>2 DEF canUsePartInMerges
    <2>5. q \in predicate[r].prev /\ contains(q, right)
      BY <2>4, ContainingPartContains
    <2>6. q.max < b /\ q.max \in Nat
      BY <1>1, <2>1, <2>3, <2>5, LiveParts DEF IInv
    <2>7. right.max <= q.max
      BY <2>5 DEF contains
    <2> QED
      BY <1>5, <2>1, <2>2, <2>6, <2>7
  <1>9. Fits({m}, {left, right})
    BY <1>2, <1>3, <1>7, <1>8, SelectedFits
  <1> QED
    BY <1>9 DEF m

LEMMA SelectMutate ==
    ASSUME IInv, NEW r \in Replicas, NEW p \in virtual_parts[r], NEW v \in mutations[r],
           selectPartToMutate(r, p, v), predicate[r].version = version
    PROVE  Fits({Mutated(p, v)}, {p})
  <1> DEFINE m == Mutated(p, v)
  <1>1. p \in Live /\ v \in Blocks /\ getDataVersion(p) < v /\ virtual_parts[r] \subseteq Live
        /\ predicate[r].stage = "ready"
    BY DEF IInv, QueueTypes, selectPartToMutate
  <1>2. m \in Live /\ contains(m, p) /\ p # m
    <2>1. m \in Live /\ Result({m}, {p})
      BY <1>1, MutatedPart DEF IInv
    <2>2. \A n : {m} = {n} => n = m
      OBVIOUS
    <2> QED
      BY <2>1, <2>2 DEF Result
  <1>3. m.min = p.min /\ m.max = p.max
    BY <1>1 DEF Mutated, Live, Infos
  <1>4. p.min \in Nat /\ p.max \in Nat
    BY <1>1, LiveParts DEF IInv
  <1> HIDE DEF m
  <1>5. \A q \in virtual_parts[r] : q \in {p} \/ isDisjoint(q, m)
    BY <1>3 DEF IInv, VirtualInv, VirtualDisjoint, Pairwise, isDisjoint
  <1>6. Unseen(r, m, {p}) = {}
    BY <1>3, <1>4 DEF Unseen
  <1>7. Fits({m}, {p})
    <2>1. {p} \in SUBSET virtual_parts[r] /\ \A s \in {p} : contains(m, s) /\ s # m
      BY <1>2
    <2>2. \A q \in virtual_parts[r] : q \in {p} \/ isDisjoint(q, m)
      BY <1>5
    <2> QED
      BY <1>1, <1>2, <1>6, <2>1, <2>2, SelectedFits
  <1> QED
    BY <1>7 DEF m

(***************************************************************************)
(* What a predicate relies on                                              *)
(***************************************************************************)

(* PredicateInv, for one replica.                                          *)
Relies(r) ==
    /\ Reads(r) => \A b \in block_numbers.insert \ predicate[r].committing :
                      \A q \in predicate[r].prev : q.max < b
    /\ HasListed(r) =>
          \A i \in predicate[r].listed + 1 .. Len(log) : log[i].type = "GET_PART" =>
              \A p \in log[i].new :
                  p.min \in predicate[r].committing \/ \A q \in predicate[r].prev : q.max < p.min
    /\ HasListed(r) /\ predicate[r].version = version =>
          \A i \in predicate[r].listed + 1 .. Len(log) : log[i].type = "GET_PART"
    /\ predicate[r].stage = "create" =>
          /\ Result(predicate[r].new, predicate[r].sources)
          /\ predicate[r].version = version => Fits(predicate[r].new, predicate[r].sources)

LEMMA ReliesIsInv ==
    PredicateInv <=> \A r \in Replicas : Relies(r)
  BY DEF PredicateInv, Relies, HeldAreSeen, LateAreSeen, VersionKnown, ToCreate

LEMMA ReliesIsInvNext ==
    (\A r \in Replicas : Relies(r)') => PredicateInv'
  BY DEF PredicateInv, Relies, HeldAreSeen, LateAreSeen, VersionKnown, ToCreate

LEMMA PredicateFacts ==
    ASSUME IInv, NEW r \in Replicas
    PROVE  /\ Relies(r) /\ predicate[r].prev \subseteq Live /\ predicate[r].committing \subseteq Nat
           /\ predicate[r].new \subseteq Live /\ predicate[r].sources \subseteq Live
           /\ predicate[r].version \in Nat /\ predicate[r].version <= version /\ version \in Nat
           /\ predicate[r].listed \in Nat /\ predicate[r].listed <= Len(log) /\ Len(log) \in Nat
  <1>1. predicate[r] \in Predicates(Live) /\ Relies(r)
    BY ReliesIsInv DEF IInv, PredicateTypes
  <1> QED
    BY <1>1, LogFacts DEF IInv, PredicateTypes, ZooKeeperTypes, Predicates

(* Predicates that are not touched by a step of each kind.                 *)
LEMMA ReliesQuiet ==
    ASSUME IInv, Quiet, NEW r \in Replicas, predicate'[r] = predicate[r]
    PROVE  Relies(r)'
  <1>1. Live \subseteq Live' /\ log' = log /\ version' = version
    BY LiveGrows DEF IInv, Quiet
  <1>2. ASSUME NEW b \in block_numbers'.insert
        PROVE  b \in block_numbers.insert \/ \A q \in Live : q.max < b
    BY <1>2, LiveParts DEF IInv, Quiet
  <1>3. Relies(r)
    BY PredicateFacts
  <1>4. Reads(r)' => \A b \in block_numbers'.insert \ predicate'[r].committing :
                        \A q \in predicate'[r].prev : q.max < b
    <2> SUFFICES ASSUME Reads(r)', NEW b \in block_numbers'.insert, b \notin predicate[r].committing,
                        NEW q \in predicate[r].prev
                 PROVE  q.max < b
      OBVIOUS
    <2>1. Reads(r) /\ q \in Live
      BY PredicateFacts DEF Reads
    <2> QED
      BY <1>2, <1>3, <2>1 DEF Relies
  <1>5. predicate[r].stage = "create" =>
            /\ Result(predicate[r].new, predicate[r].sources)'
            /\ predicate[r].version = version => Fits(predicate[r].new, predicate[r].sources)'
    <2> SUFFICES ASSUME predicate[r].stage = "create"
                 PROVE  /\ Result(predicate[r].new, predicate[r].sources)'
                        /\ predicate[r].version = version =>
                              Fits(predicate[r].new, predicate[r].sources)'
      OBVIOUS
    <2>1. Result(predicate[r].new, predicate[r].sources)'
      BY <1>1, <1>3 DEF Relies, Result
    <2>2. ASSUME predicate[r].version = version, NEW m \in predicate[r].new,
                 NEW b \in block_numbers'.insert
          PROVE  b < m.min \/ m.max < b
      BY <1>2, <1>3, <2>2, PredicateFacts DEF Relies, Fits
    <2>3. ASSUME predicate[r].version = version
          PROVE  Fits(predicate[r].new, predicate[r].sources)'
      BY <1>1, <1>3, <2>2, <2>3 DEF Relies, Fits
    <2> QED
      BY <2>1, <2>3
  <1> QED
    BY <1>1, <1>3, <1>4, <1>5 DEF Relies, Reads, HasListed

LEMMA ReliesCommits ==
    ASSUME IInv, NEW b \in Blocks, Commits(b), NEW r \in Replicas
    PROVE  Relies(r)'
  <1> DEFINE n == Len(log) + 1
             P == predicate[r]
  <1>1. /\ Len(log') = n /\ log'[n] = Entry("GET_PART", {Block(b)}, {})
        /\ \A i \in 1 .. Len(log) : log'[i] = log[i]
        /\ \A i \in 1 .. n : i \in 1 .. Len(log) \/ i = n
    <2>1. Entry("GET_PART", {Block(b)}, {}) \in Entries(Live)
      BY LiveBlocks, EntryIsEntry DEF Types
    <2>2. log' = Append(log, Entry("GET_PART", {Block(b)}, {})) /\ log \in Seq(Entries(Live))
      BY DEF Commits, IInv, ZooKeeperTypes
    <2> QED
      BY <2>1, <2>2, AppendKeeps
  <1>2. log'[n].type = "GET_PART" /\ log'[n].new = {Block(b)} /\ log'[n].sources = {}
        /\ Block(b).min = b /\ Block(b).max = b
    BY <1>1 DEF Entry, Block
  <1>3. /\ b \in block_numbers.insert /\ b \in Nat /\ predicate' = predicate /\ version' = version
        /\ block_numbers'.insert \subseteq block_numbers.insert /\ Live' = Live
    BY LogFacts DEF Commits, Live
  <1>4. Relies(r) /\ P.listed \in Nat /\ Len(log) \in Nat /\ P.new \subseteq Live
    BY PredicateFacts
  <1>5. \A i \in P.listed + 1 .. n : (i \in P.listed + 1 .. Len(log) /\ i \in 1 .. Len(log)) \/ i = n
    BY <1>4
  <1>6. Reads(r)' => \A c \in block_numbers'.insert \ predicate'[r].committing :
                        \A q \in predicate'[r].prev : q.max < c
    BY <1>3, <1>4 DEF Relies, Reads
  <1>7. ASSUME HasListed(r)', NEW i \in P.listed + 1 .. n, log'[i].type = "GET_PART",
               NEW p \in log'[i].new
        PROVE  p.min \in P.committing \/ \A q \in P.prev : q.max < p.min
    <2>1. HasListed(r) /\ Reads(r)
      BY <1>3, <1>7 DEF HasListed, Reads
    <2>2. CASE i \in P.listed + 1 .. Len(log) /\ i \in 1 .. Len(log)
      BY <1>1, <1>4, <1>7, <2>1, <2>2 DEF Relies
    <2>3. CASE i = n
      <3>1. p.min = b
        BY <1>2, <1>7, <2>3
      <3>2. b \in P.committing \/ \A q \in P.prev : q.max < b
        BY <1>3, <1>4, <2>1 DEF Relies
      <3> QED
        BY <3>1, <3>2
    <2> QED
      BY <1>5, <2>2, <2>3
  <1>8. ASSUME HasListed(r)', P.version = version, NEW i \in P.listed + 1 .. n
        PROVE  log'[i].type = "GET_PART"
    <2>1. HasListed(r)
      BY <1>3, <1>8 DEF HasListed
    <2> QED
      BY <1>1, <1>2, <1>4, <1>5, <1>8, <2>1 DEF Relies
  <1>9. ASSUME P.stage = "create"
        PROVE  Result(P.new, P.sources)'
    BY <1>3, <1>4, <1>9 DEF Relies, Result
  <1>10. ASSUME P.stage = "create", P.version = version
         PROVE  Fits(P.new, P.sources)'
    <2>1. Fits(P.new, P.sources)
      BY <1>4, <1>10 DEF Relies
    <2>2. ASSUME NEW m \in P.new, NEW i \in 1 .. n, NEW p \in log'[i].new
          PROVE  /\ p # m /\ (isDisjoint(p, m) \/ contains(m, p))
                 /\ log'[i].type = "GET_PART" /\ contains(m, p) => \E s \in P.sources : contains(s, p)
      <3>1. CASE i \in 1 .. Len(log)
        BY <1>1, <2>1, <2>2, <3>1 DEF Fits
      <3>2. CASE i = n
        <4>1. p = Block(b) /\ p.min = b /\ p.max = b
          BY <1>2, <2>2, <3>2
        <4>2. b < m.min \/ m.max < b
          BY <1>3, <2>1 DEF Fits
        <4>3. m.min \in Nat /\ m.max \in Nat /\ m.min <= m.max
          BY <1>4, LiveParts DEF IInv
        <4> QED
          BY <1>3, <4>1, <4>2, <4>3 DEF isDisjoint, contains
      <3> QED
        BY <1>1, <3>1, <3>2
    <2>3. \A m \in P.new, c \in block_numbers'.insert : c < m.min \/ m.max < c
      BY <1>3, <2>1 DEF Fits
    <2>4. ASSUME NEW m \in P.new, NEW i \in 1 .. n
          PROVE  log'[i].sources \cap P.sources = {}
      <3>1. CASE i \in 1 .. Len(log)
        BY <1>1, <2>1, <3>1 DEF Fits
      <3>2. CASE i = n
        BY <1>2, <3>2
      <3> QED
        BY <1>1, <3>1, <3>2
    <2>5. P.new' = P.new /\ P.sources' = P.sources
      BY <1>3
    <2> QED
      BY <1>1, <2>2, <2>3, <2>4, <2>5 DEF Fits
  <1>11. predicate'[r] = P
    BY <1>3
  <1> QED
    BY <1>1, <1>3, <1>6, <1>7, <1>8, <1>9, <1>10, <1>11 DEF Relies

LEMMA ReliesAssigns ==
    ASSUME IInv, NEW e \in Entries(Live), Assigns(e), NEW r \in Replicas, predicate'[r] = predicate[r]
    PROVE  Relies(r)'
  <1> DEFINE n == Len(log) + 1
             P == predicate[r]
  <1>1. /\ Len(log') = n /\ log'[n] = e /\ \A i \in 1 .. Len(log) : log'[i] = log[i]
        /\ \A i \in 1 .. n : i \in 1 .. Len(log) \/ i = n
    <2>1. log' = Append(log, e) /\ log \in Seq(Entries(Live))
      BY DEF Assigns, IInv, ZooKeeperTypes
    <2> QED
      BY <2>1, AppendKeeps
  <1>2. e.type # "GET_PART"
    BY DEF Assigns, Entry, Type
  <1>3. block_numbers' = block_numbers /\ Live' = Live /\ version' = version + 1
    BY DEF Assigns, Live
  <1>4. Relies(r) /\ P.listed \in Nat /\ Len(log) \in Nat
    BY PredicateFacts
  <1>5. P.version # version'
    BY <1>3, PredicateFacts
  <1>6. \A i \in P.listed + 1 .. n : (i \in P.listed + 1 .. Len(log) /\ i \in 1 .. Len(log)) \/ i = n
    BY <1>4
  <1>7. ASSUME HasListed(r)', NEW i \in P.listed + 1 .. n, log'[i].type = "GET_PART",
               NEW p \in log'[i].new
        PROVE  p.min \in P.committing \/ \A q \in P.prev : q.max < p.min
    <2>1. HasListed(r)
      BY <1>7 DEF HasListed
    <2>2. i \in P.listed + 1 .. Len(log) /\ i \in 1 .. Len(log)
      BY <1>1, <1>2, <1>6, <1>7
    <2> QED
      BY <1>1, <1>4, <1>7, <2>1, <2>2 DEF Relies
  <1>8. P.stage = "create" => Result(P.new, P.sources)'
    BY <1>3, <1>4 DEF Relies, Result
  <1> QED
    BY <1>1, <1>3, <1>4, <1>5, <1>7, <1>8 DEF Relies, Reads

(* The steps of a predicate itself.                                        *)
LEMMA ReliesChanges ==
    ASSUME IInv, NEW r \in Replicas, Changes(r)
    PROVE  Relies(r)'
  <1> DEFINE P == predicate[r]
             Q == predicate'[r]
  <1>1. predicate \in [Replicas -> Predicates(Live)] /\ P \in Predicates(Live) /\ Relies(r)
    BY PredicateFacts DEF IInv, PredicateTypes
  <1>2. CASE createLogEntry(r) \/ giveUp(r)
    <2>1. Q = Idle
      BY <1>1, <1>2 DEF createLogEntry, giveUp, To
    <2> QED
      BY <2>1, IdleIsTyped DEF Relies, Reads, HasListed
  <1>3. ASSUME ~createLogEntry(r)
        PROVE  log' = log /\ version' = version /\ block_numbers' = block_numbers /\ Live' = Live
    BY <1>3, ChangesQuietly DEF Live
  <1>4. CASE snapshotVirtualParts(r)
    <2>1. Q = [Idle EXCEPT !.stage = "committing", !.prev = virtual_parts[r]]
      BY <1>1, <1>4 DEF snapshotVirtualParts, To
    <2>2. Q.stage = "committing"
      BY <2>1 DEF Idle
    <2> QED
      BY <2>2 DEF Relies, Reads, HasListed
  <1>5. CASE getCommittingBlocks(r)
    <2>1. Q = [P EXCEPT !.stage = "list", !.quorum = quorum,
                        !.committing = block_numbers.insert \cup block_numbers.mutation]
      BY <1>1, <1>5 DEF getCommittingBlocks, To
    <2>2. Q.stage = "list" /\ block_numbers.insert \subseteq Q.committing
      BY <1>1, <2>1 DEF Predicates
    <2>3. block_numbers' = block_numbers
      BY <1>5 DEF getCommittingBlocks, zk
    <2> QED
      BY <2>2, <2>3 DEF Relies, HasListed
  <1>6. CASE listLog(r)
    <2>1. Q = [P EXCEPT !.stage = "mutations", !.version = version, !.listed = Len(log)]
      BY <1>1, <1>6 DEF listLog, To
    <2>2. /\ Q.stage = "mutations" /\ Q.listed = Len(log) /\ Q.prev = P.prev
          /\ Q.committing = P.committing
      BY <1>1, <2>1 DEF Predicates
    <2>3. log' = log /\ block_numbers' = block_numbers /\ Reads(r)
      BY <1>6 DEF listLog, zk, Reads
    <2>4. \A i \in Q.listed + 1 .. Len(log') : FALSE
      BY <2>2, <2>3, LogFacts
    <2>5. \A b \in block_numbers'.insert \ Q.committing : \A q \in Q.prev : q.max < b
      BY <1>1, <2>2, <2>3 DEF Relies
    <2> QED
      BY <2>2, <2>4, <2>5 DEF Relies
  <1>7. ASSUME HasListed(r), ~createLogEntry(r),
               Q.prev = P.prev, Q.committing = P.committing, Q.version = P.version, Q.listed = P.listed,
               Q.stage = "create" =>
                  /\ Result(Q.new, Q.sources)
                  /\ P.version = version => Fits(Q.new, Q.sources)
        PROVE  Relies(r)'
    <2>1. log' = log /\ version' = version /\ block_numbers' = block_numbers /\ Live' = Live
      BY <1>3, <1>7
    <2>2. Reads(r)
      BY <1>7 DEF HasListed, Reads
    <2>3. Q.stage = "create" => Result(predicate[r].new, predicate[r].sources)'
      BY <1>7, <2>1 DEF Result
    <2>4. Q.stage = "create" /\ P.version = version => Fits(predicate[r].new, predicate[r].sources)'
      BY <1>7, <2>1 DEF Fits
    <2> QED
      BY <1>1, <1>7, <2>1, <2>2, <2>3, <2>4 DEF Relies
  <1>8. CASE readMutations(r)
    <2>1. Q = [P EXCEPT !.stage = "pull"] /\ HasListed(r) /\ ~createLogEntry(r)
      BY <1>1, <1>8 DEF readMutations, To, HasListed, createLogEntry
    <2>2. Q.prev = P.prev /\ Q.committing = P.committing /\ Q.version = P.version /\ Q.listed = P.listed
          /\ Q.stage = "pull"
      BY <1>1, <2>1 DEF Predicates
    <2> QED
      BY <1>7, <2>1, <2>2
  <1>9. CASE readPinnedParts(r)
    <2>1. Q = [P EXCEPT !.stage = "ready", !.pinned = pinned] /\ HasListed(r) /\ ~createLogEntry(r)
      BY <1>1, <1>9 DEF readPinnedParts, To, HasListed, createLogEntry
    <2>2. Q.prev = P.prev /\ Q.committing = P.committing /\ Q.version = P.version /\ Q.listed = P.listed
          /\ Q.stage = "ready"
      BY <1>1, <2>1 DEF Predicates
    <2> QED
      BY <1>7, <2>1, <2>2
  <1>10. ASSUME P.stage = "ready", NEW new, NEW sources,
                To(r, [P EXCEPT !.stage = "create", !.sources = sources, !.new = new]),
                Result(new, sources), P.version = version => Fits(new, sources)
         PROVE  Relies(r)'
    <2>1. Q = [P EXCEPT !.stage = "create", !.sources = sources, !.new = new]
          /\ HasListed(r) /\ ~createLogEntry(r)
      BY <1>1, <1>10 DEF To, HasListed, createLogEntry
    <2>2. Q.prev = P.prev /\ Q.committing = P.committing /\ Q.version = P.version /\ Q.listed = P.listed
          /\ Q.stage = "create" /\ Q.new = new /\ Q.sources = sources
      BY <1>1, <2>1 DEF Predicates
    <2> QED
      BY <1>7, <1>10, <2>1, <2>2
  <1>11. ASSUME NEW left \in virtual_parts[r], NEW right \in virtual_parts[r],
                selectPartsToMerge(r, left, right)
         PROVE  Relies(r)'
    <2>1. left \in Live /\ right \in Live /\ left.max < right.min /\ Merged(left, right).level <= MaxLevel
      BY <1>11 DEF selectPartsToMerge, Merged, IInv, QueueTypes
    <2>2. Result({Merged(left, right)}, {left, right})
      BY <2>1, MergedPart DEF IInv
    <2>3. P.version = version => Fits({Merged(left, right)}, {left, right})
      BY <1>11, SelectMerge
    <2>4. To(r, [P EXCEPT !.stage = "create", !.sources = {left, right}, !.new = {Merged(left, right)}])
          /\ P.stage = "ready"
      BY <1>11 DEF selectPartsToMerge, Merged
    <2> QED
      BY <1>10, <2>2, <2>3, <2>4
  <1>12. ASSUME NEW p \in virtual_parts[r], NEW v \in mutations[r], selectPartToMutate(r, p, v)
         PROVE  Relies(r)'
    <2>1. p \in Live /\ v \in Blocks /\ getDataVersion(p) < v
      BY <1>12 DEF selectPartToMutate, IInv, QueueTypes
    <2>2. Result({Mutated(p, v)}, {p})
      BY <2>1, MutatedPart DEF IInv
    <2>3. P.version = version => Fits({Mutated(p, v)}, {p})
      BY <1>12, SelectMutate
    <2>4. To(r, [P EXCEPT !.stage = "create", !.sources = {p}, !.new = {Mutated(p, v)}])
          /\ P.stage = "ready"
      BY <1>12 DEF selectPartToMutate, Mutated
    <2> QED
      BY <1>10, <2>2, <2>3, <2>4
  <1> QED
    BY <1>2, <1>4, <1>5, <1>6, <1>8, <1>9, <1>11, <1>12 DEF Changes

LEMMA PredicateNext ==
    ASSUME IInv, [Next]_vars
    PROVE  PredicateInv'
  <1>1. ASSUME NEW r \in Replicas, predicate'[r] = predicate[r]
        PROVE  Relies(r)'
    BY <1>1, StepKinds, ReliesQuiet, ReliesCommits, ReliesAssigns
  <1>2. CASE predicate' = predicate
    BY <1>1, <1>2, ReliesIsInvNext
  <1>3. ASSUME NEW r \in Replicas, Changes(r), predicate' = [predicate EXCEPT ![r] = predicate'[r]]
        PROVE  PredicateInv'
    <2>1. predicate \in [Replicas -> Predicates(Live)]
      BY DEF IInv, PredicateTypes
    <2>2. \A q \in Replicas : q # r => predicate'[q] = predicate[q]
      BY <1>3, <2>1
    <2>3. \A q \in Replicas : Relies(q)'
      BY <1>1, <1>3, <2>2, ReliesChanges
    <2> QED
      BY <2>3, ReliesIsInvNext
  <1> QED
    BY <1>2, <1>3, PredicateSteps

(***************************************************************************)
(* The theorems                                                            *)
(***************************************************************************)
LEMMA InitHolds ==
    Init => IInv
  <1> SUFFICES ASSUME Init
               PROVE  IInv
    OBVIOUS
  <1>1. log = <<>> /\ Len(log) = 0 /\ DOMAIN log = {} /\ 1 .. Len(log) = {}
    BY DEF Init
  <1>2. ZooKeeperTypes
    BY DEF Init, ZooKeeperTypes
  <1>3. QueueTypes
    BY <1>1 DEF Init, QueueTypes
  <1>4. \A r \in Replicas : predicate[r] = Idle
    BY DEF Init
  <1>5. PredicateTypes
    <2>1. predicate \in [Replicas -> Predicates(Live)]
      BY IdleIsTyped DEF Init
    <2> QED
      BY <1>1, <1>4, <2>1, IdleIsTyped DEF Init, PredicateTypes
  <1>6. LogInv
    BY <1>1 DEF LogInv, EntryShape, Laminar, HeldApart, SourcesCover, AssignedOnce
  <1>7. VirtualInv
    <2>1. \A r \in Replicas : virtual_parts[r] = {} /\ log_pointer[r] = 0
      BY DEF Init
    <2>2. 1 .. 0 = {}
      OBVIOUS
    <2> QED
      BY <2>1, <2>2 DEF VirtualInv, VirtualFrom, VirtualCovers, VirtualDisjoint, Pairwise
  <1>8. PredicateInv
    BY <1>4, IdleIsTyped
       DEF PredicateInv, HeldAreSeen, LateAreSeen, VersionKnown, ToCreate, Reads, HasListed
  <1> QED
    BY <1>2, <1>3, <1>5, <1>6, <1>7, <1>8 DEF IInv

(* The inductive invariant of the assignment of merges and mutations.      *)
THEOREM Invariant ==
    Spec => []IInv
  <1>1. IInv /\ [Next]_vars => IInv'
    BY ZooKeeperTypesNext, QueueTypesNext, PredicateTypesNext, LogNext, VirtualNext, PredicateNext DEF IInv
  <1> QED
    BY <1>1, InitHolds, PTL DEF Spec

(* ReplicatedMergeTreeMergePredicate with createLogEntryToMergeParts: no   *)
(* part is ever committed in the gap of a merge, however inserts, other    *)
(* replicas and the reads of the predicate interleave.                     *)
THEOREM GapTheorem ==
    Spec => []GapStaysEmpty
  <1>1. IInv => GapStaysEmpty
    BY LogFacts DEF IInv, LogInv, SourcesCover, GapStaysEmpty, Merges
  <1> QED
    BY <1>1, Invariant, PTL

(* The version of /log that createLogEntryToMergeParts and                 *)
(* createLogEntryToMutatePart check: a part is the source of one merge or  *)
(* mutation only.                                                          *)
THEOREM AssignedOnceTheorem ==
    Spec => []AssignedOnce
  <1>1. IInv => AssignedOnce
    BY DEF IInv, LogInv
  <1> QED
    BY <1>1, Invariant, PTL

(* ReplicatedMergeTreeQueue::insertUnlocked: what a replica adds to its    *)
(* virtual parts never makes ActiveDataPartSet::add throw.                 *)
THEOREM NoIntersectionTheorem ==
    Spec => []NoIntersection
  <1>1. IInv => NoIntersection
    BY NextFits DEF IInv, VirtualInv, VirtualDisjoint, NoIntersection
  <1> QED
    BY <1>1, Invariant, PTL

-----------------------------------------------------------------------------
(***************************************************************************)
(* Mutations, pinned parts and the quorum                                  *)
(***************************************************************************)
(* Block numbers that are, or may become, mutations.                       *)
MutationNumbers == mutation_log \cup block_numbers.mutation

(* One mutation at a time has its number and is not written yet, and it    *)
(* will be the last one; inserts have other numbers.                       *)
NumbersInOrder ==
    /\ \A v \in block_numbers.mutation, u \in MutationNumbers : u <= v
    /\ block_numbers.insert \cap MutationNumbers = {}

(* A part includes every mutation whose number lies among its blocks.      *)
Applied(numbers, written, p) ==
    /\ \A v \in numbers : p.min <= v /\ v <= p.max => v <= p.mutation
    /\ p.mutation # 0 => p.min < p.mutation /\ p.mutation \in written

(* Parts that the same mutations, past and future, are applied to.         *)
Agree(numbers, next, parts) ==
    \A p \in parts : /\ getDataVersion(p) < next
                     /\ \A q \in parts : SameMutationVersion(numbers, p, q)

IsApplied(p) == Applied(MutationNumbers, mutation_log, p)
DoAgree(parts) == Agree(MutationNumbers, next_block, parts)

(* The same after a step, for a part and parts of the state before it.     *)
WillBeApplied(p) == Applied(MutationNumbers', mutation_log', p)
WillAgree(parts) == Agree(MutationNumbers', next_block', parts)

LogApplied ==
    \A i \in 1 .. Len(log) : (\A p \in log[i].new : IsApplied(p)) /\ DoAgree(log[i].sources)

(* What a replica has loaded are the first mutations, and it knows those   *)
(* of its virtual parts.                                                   *)
LoadedFirst ==
    \A r \in Replicas :
        /\ mutations[r] \subseteq mutation_log
        /\ \A v \in MutationNumbers \ mutations[r], u \in mutations[r] : u < v
        /\ \A p \in virtual_parts[r] : p.mutation = 0 \/ p.mutation \in mutations[r]

(* What a predicate may rely on: a mutation that it neither saw as a block *)
(* number nor loaded is above all parts it began with, as is a part whose  *)
(* quorum it did not ask for; and pinned parts change with the version.    *)
Knows(r) ==
    LET P == predicate[r] IN
    /\ P.stage # "idle" => \A q \in P.prev : \E i \in 1 .. Len(log) : q \in log[i].new
    /\ Reads(r) =>
          /\ \A v \in MutationNumbers :
                v \in P.committing \/ v \in mutation_log \/ \A q \in P.prev : q.max < v
          /\ \A p \in quorum : p \in P.quorum \/ \A q \in P.prev : ~contains(q, p)
    /\ P.stage \in {"pull", "ready"} =>
          \A v \in MutationNumbers :
              v \in P.committing \/ v \in mutations[r] \/ \A q \in P.prev : q.max < v
    /\ P.stage = "pull" => \A i \in 1 .. P.listed : \A p \in log[i].new :
                              p.mutation = 0 \/ p.mutation \in mutations[r]
    /\ P.stage \in {"ready", "create"} /\ P.version = version => P.pinned = pinned
    /\ P.stage = "create" =>
          /\ DoAgree(P.sources) /\ \A m \in P.new : IsApplied(m)
          /\ Type(P) = "MERGE_PARTS" =>
                \A s \in P.sources : s \notin P.pinned \cup P.quorum /\ \E q \in P.prev : contains(q, s)

AllKnow == \A r \in Replicas : Knows(r)

MutationsInv == NumbersInOrder /\ LogApplied /\ LoadedFirst /\ AllKnow

(***************************************************************************)
(* Numbers of mutations: how they come and go.                             *)
(***************************************************************************)
LEMMA NumbersAreBlocks ==
    ASSUME IInv
    PROVE  /\ MutationNumbers \subseteq Blocks /\ MutationNumbers \subseteq Nat
           /\ mutation_log \subseteq MutationNumbers
           /\ \A v \in MutationNumbers : v < next_block
           /\ next_block \in Nat /\ Live \subseteq Infos
           /\ \A p \in Live : /\ p.min \in Nat /\ p.max \in Nat /\ p.mutation \in Nat
                              /\ p.min <= p.max /\ p.max < next_block
  <1>1. MutationNumbers \subseteq Blocks /\ mutation_log \subseteq MutationNumbers
    BY DEF MutationNumbers, IInv, ZooKeeperTypes
  <1>2. Blocks \subseteq Nat /\ next_block \in Nat /\ \A v \in Blocks : v < next_block
    BY DEF Blocks, IInv, ZooKeeperTypes
  <1> QED
    BY <1>1, <1>2, LiveParts DEF IInv

LEMMA NumbersNext ==
    ASSUME IInv, NumbersInOrder, [Next]_vars
    PROVE  /\ NumbersInOrder'
           /\ mutation_log \subseteq mutation_log'
           /\ \A v \in MutationNumbers' : v \in MutationNumbers \/ v = next_block
  <1> DEFINE Goal == /\ NumbersInOrder'
                     /\ mutation_log \subseteq mutation_log'
                     /\ \A v \in MutationNumbers' : v \in MutationNumbers \/ v = next_block
  <1>1. block_numbers \in [insert : SUBSET Blocks, mutation : SUBSET Blocks]
    BY DEF IInv, ZooKeeperTypes
  <1>2. /\ MutationNumbers \subseteq Nat /\ \A v \in MutationNumbers : v < next_block
        /\ \A b \in block_numbers.insert : b \in Nat /\ b < next_block
        /\ next_block \in Nat
    BY <1>1, NumbersAreBlocks, LogFacts DEF Blocks
  <1>3. ASSUME mutation_log' = mutation_log, block_numbers'.mutation = block_numbers.mutation,
               \A b \in block_numbers'.insert : b \in block_numbers.insert \/ b = next_block
        PROVE  Goal
    BY <1>2, <1>3 DEF NumbersInOrder, MutationNumbers
  <1>4. CASE UNCHANGED <<block_numbers, mutation_log>>
    BY <1>3, <1>4
  <1>5. CASE allocateBlockNumber
    BY <1>1, <1>3, <1>5 DEF allocateBlockNumber
  <1>6. ASSUME NEW b \in 0 .. MaxBlock, NEW q \in BOOLEAN, commitPart(b, q)
        PROVE  Goal
    BY <1>1, <1>3, <1>6 DEF commitPart
  <1>7. ASSUME NEW b \in block_numbers.insert, abandonBlockNumber(b)
        PROVE  Goal
    BY <1>1, <1>3, <1>7 DEF abandonBlockNumber
  <1>8. CASE allocateMutation
    <2>1. /\ block_numbers'.mutation = {next_block} /\ block_numbers'.insert = block_numbers.insert
          /\ mutation_log' = mutation_log
      BY <1>1, <1>8 DEF allocateMutation
    <2> QED
      BY <1>2, <2>1 DEF NumbersInOrder, MutationNumbers
  <1>9. CASE writeMutation
    <2>1. block_numbers' = block_numbers /\ mutation_log' = mutation_log \cup block_numbers.mutation
      BY <1>9 DEF writeMutation
    <2>2. MutationNumbers' = MutationNumbers
      BY <2>1 DEF MutationNumbers
    <2> QED
      BY <2>1, <2>2 DEF NumbersInOrder
  <1>10. CASE releaseMutation
    <2>1. /\ block_numbers'.mutation = {} /\ block_numbers'.insert = block_numbers.insert
          /\ mutation_log' = mutation_log
      BY <1>1, <1>10 DEF releaseMutation
    <2> QED
      BY <2>1 DEF NumbersInOrder, MutationNumbers
  <1>11. ASSUME NEW p, setPinnedParts(p)
         PROVE  UNCHANGED <<block_numbers, mutation_log>>
    BY <1>11 DEF setPinnedParts
  <1>12. ASSUME NEW r \in assigners, ReplicaStep(r)
         PROVE  UNCHANGED <<block_numbers, mutation_log>>
    BY <1>12 DEF ReplicaStep, pullLogsToQueue, snapshotVirtualParts, getCommittingBlocks, listLog,
                 readMutations, pullListed, readPinnedParts, selectPartsToMerge, selectPartToMutate,
                 createLogEntry, giveUp, zk
  <1>13. quorumReached \/ UNCHANGED vars => UNCHANGED <<block_numbers, mutation_log>>
    BY DEF quorumReached, vars, zk
  <1> QED
    BY <1>4, <1>5, <1>6, <1>7, <1>8, <1>9, <1>10, <1>11, <1>12, <1>13 DEF Next

(* A mutation that comes later is above all blocks there are.              *)
LEMMA AppliedKept ==
    ASSUME IInv, NumbersInOrder, [Next]_vars, NEW p \in Live, IsApplied(p)
    PROVE  WillBeApplied(p)
  <1>1. \A v \in MutationNumbers' : v \in MutationNumbers \/ p.max < v
    BY NumbersNext, NumbersAreBlocks
  <1>2. p.max \in Nat /\ MutationNumbers' \subseteq Nat /\ mutation_log \subseteq mutation_log'
    BY NumbersNext, NumbersAreBlocks
  <1> QED
    BY <1>1, <1>2 DEF Applied, IsApplied, WillBeApplied

LEMMA AgreeKept ==
    ASSUME IInv, NumbersInOrder, [Next]_vars, NEW parts \in SUBSET Live, DoAgree(parts)
    PROVE  WillAgree(parts)
  <1>1. next_block \in Nat /\ next_block' \in Nat /\ next_block <= next_block'
    BY ZooKeeperTypesNext, NumbersAreBlocks
  <1>2. \A p \in parts : getDataVersion(p) \in Nat
    BY NumbersAreBlocks DEF getDataVersion
  <1>3. ASSUME NEW p \in parts, NEW q \in parts
        PROVE  SameMutationVersion(MutationNumbers', p, q)
    <2>1. \A v \in MutationNumbers : v <= getDataVersion(p) <=> v <= getDataVersion(q)
      BY DEF Agree, DoAgree, SameMutationVersion, CurrentMutation
    <2>2. getDataVersion(p) < next_block /\ getDataVersion(q) < next_block
      BY DEF Agree, DoAgree
    <2>3. \A v \in MutationNumbers' : v <= getDataVersion(p) <=> v <= getDataVersion(q)
      BY <1>1, <1>2, <2>1, <2>2, NumbersNext
    <2> QED
      BY <2>3 DEF SameMutationVersion, CurrentMutation
  <1>4. \A p \in parts : getDataVersion(p) < next_block'
    BY <1>1, <1>2 DEF Agree, DoAgree
  <1> QED
    BY <1>3, <1>4 DEF Agree, WillAgree

(***************************************************************************)
(* What the log and the replicas know of mutations                         *)
(***************************************************************************)
LEMMA LogAppliedNext ==
    ASSUME IInv, MutationsInv, [Next]_vars
    PROVE  LogApplied'
  <1> USE DEF MutationsInv
  <1>1. ASSUME NEW i \in 1 .. Len(log)
        PROVE  (\A p \in log[i].new : WillBeApplied(p)) /\ WillAgree(log[i].sources)
    <2>1. log[i].new \subseteq Live /\ log[i].sources \in SUBSET Live
      BY NextEntry
    <2>2. (\A p \in log[i].new : IsApplied(p)) /\ DoAgree(log[i].sources)
      BY DEF LogApplied
    <2> QED
      BY <2>1, <2>2, AppliedKept, AgreeKept
  <1>2. CASE Quiet
    BY <1>1, <1>2 DEF Quiet, LogApplied, IsApplied, DoAgree, WillBeApplied, WillAgree
  <1>3. ASSUME NEW e \in Entries(Live), log' = Append(log, e),
               \A p \in e.new : WillBeApplied(p), WillAgree(e.sources)
        PROVE  LogApplied'
    <2>1. log \in Seq(Entries(Live))
      BY DEF IInv, ZooKeeperTypes
    <2>2. /\ \A i \in 1 .. Len(log) : log'[i] = log[i]
          /\ \A i \in 1 .. Len(log') : i \in 1 .. Len(log) \/ log'[i] = e
      BY <1>3, <2>1, AppendKeeps
    <2>3. ASSUME NEW i \in 1 .. Len(log')
          PROVE  (\A p \in log'[i].new : WillBeApplied(p)) /\ WillAgree(log'[i].sources)
      <3>1. CASE i \in 1 .. Len(log)
        <4> DEFINE f == log[i]
        <4>1. log'[i] = f /\ (\A p \in f.new : WillBeApplied(p)) /\ WillAgree(f.sources)
          BY <1>1, <2>2, <3>1
        <4> QED
          BY <4>1
      <3>2. CASE log'[i] = e
        BY <1>3, <3>2
      <3> QED
        BY <2>2, <3>1, <3>2
    <2> QED
      BY <2>3 DEF LogApplied, IsApplied, DoAgree, WillBeApplied, WillAgree
  <1>4. ASSUME NEW b \in Blocks, Commits(b)
        PROVE  LogApplied'
    <2> DEFINE e == Entry("GET_PART", {Block(b)}, {})
    <2>1. e \in Entries(Live) /\ e.new = {Block(b)} /\ e.sources = {} /\ Block(b) \in Live
      BY LiveBlocks, EntryIsEntry DEF Types, Entry
    <2>2. b \in Nat /\ b \in block_numbers.insert
      BY <1>4, LogFacts DEF Commits
    <2>3. Block(b).min = b /\ Block(b).max = b /\ Block(b).mutation = 0
      BY DEF Block
    <2>4. IsApplied(Block(b))
      <3>1. b \notin MutationNumbers
        BY <2>2 DEF NumbersInOrder
      <3>2. \A v \in MutationNumbers : b <= v /\ v <= b => v = b
        BY <2>2, NumbersAreBlocks
      <3> QED
        BY <2>3, <3>1, <3>2 DEF Applied, IsApplied
    <2>5. WillBeApplied(Block(b))
      BY <2>1, <2>4, AppliedKept
    <2>6. \A p \in e.new : WillBeApplied(p)
      BY <2>1, <2>5
    <2>7. WillAgree(e.sources)
      BY <2>1 DEF Agree, WillAgree
    <2>8. log' = Append(log, e)
      BY <1>4 DEF Commits
    <2> HIDE DEF e
    <2> QED
      BY <1>3, <2>1, <2>6, <2>7, <2>8
  <1>5. ASSUME NEW e \in Entries(Live), Assigns(e)
        PROVE  LogApplied'
    <2>1. e.new \subseteq Live /\ e.sources \subseteq Live
      BY DEF Entries
    <2>2. (\A p \in e.new : IsApplied(p)) /\ DoAgree(e.sources)
      <3>1. CASE e = Entry("SYNC_PINNED_PART_UUIDS", {}, {})
        BY <3>1 DEF Entry, Agree, DoAgree
      <3>2. ASSUME NEW r \in Replicas, predicate[r].stage = "create",
                   e = Entry(Type(predicate[r]), predicate[r].new, predicate[r].sources)
            PROVE  (\A p \in e.new : IsApplied(p)) /\ DoAgree(e.sources)
        <4>1. Knows(r)
          BY DEF AllKnow
        <4>2. e.new = predicate[r].new /\ e.sources = predicate[r].sources
          BY <3>2 DEF Entry
        <4> QED
          BY <3>2, <4>1, <4>2 DEF Knows
      <3> QED
        BY <1>5, <3>1, <3>2 DEF Assigns
    <2>3. (\A p \in e.new : WillBeApplied(p)) /\ WillAgree(e.sources)
      BY <2>1, <2>2, AppliedKept, AgreeKept
    <2> QED
      BY <1>3, <1>5, <2>3 DEF Assigns
  <1> QED
    BY <1>2, <1>4, <1>5, StepKinds

(* The steps that load mutations.                                          *)
LEMMA LoadSteps ==
    ASSUME IInv, [Next]_vars
    PROVE  \/ mutations' = mutations
           \/ \E r \in Replicas : mutations' = [mutations EXCEPT ![r] = mutation_log]
                                  /\ mutation_log' = mutation_log
  <1>1. ASSUME NEW r \in assigners, ReplicaStep(r)
        PROVE  mutation_log' = mutation_log
    BY <1>1 DEF ReplicaStep, pullLogsToQueue, snapshotVirtualParts, getCommittingBlocks, listLog,
       readMutations, pullListed, readPinnedParts, selectPartsToMerge, selectPartToMutate,
       createLogEntry, giveUp, zk
  <1>2. ASSUME NEW r \in assigners, ReplicaStep(r)
        PROVE  mutations' = mutations \/ mutations' = [mutations EXCEPT ![r] = mutation_log]
    BY <1>2 DEF ReplicaStep, pullLogsToQueue, snapshotVirtualParts, getCommittingBlocks, listLog,
       readMutations, pullListed, readPinnedParts, selectPartsToMerge, selectPartToMutate,
       createLogEntry, giveUp, queue
  <1>3. assigners \subseteq Replicas
    BY DEF IInv, ZooKeeperTypes
  <1> QED
    BY <1>1, <1>2, <1>3 DEF Next, allocateBlockNumber, commitPart, abandonBlockNumber, quorumReached,
       allocateMutation, writeMutation, releaseMutation, setPinnedParts, vars, queue

(* What a replica has loaded is never forgotten.                           *)
LEMMA LoadedGrows ==
    ASSUME IInv, MutationsInv, [Next]_vars
    PROVE  \A r \in Replicas : /\ mutations[r] \subseteq mutation_log
                               /\ mutations[r] \subseteq mutations'[r]
                               /\ \/ mutations'[r] = mutations[r]
                                  \/ mutations'[r] = mutation_log /\ mutation_log' = mutation_log
  <1>1. mutations \in [Replicas -> SUBSET Blocks]
    BY DEF IInv, QueueTypes
  <1>2. \A r \in Replicas : mutations[r] \subseteq mutation_log
    BY DEF MutationsInv, LoadedFirst
  <1> QED
    BY <1>1, <1>2, LoadSteps

(* A part that is pulled includes mutations that are loaded.               *)
LEMMA PulledIsKnown ==
    ASSUME IInv, MutationsInv, [Next]_vars, NEW r \in Replicas, NEW p \in virtual_parts'[r]
    PROVE  p.mutation = 0 \/ p.mutation \in mutations'[r]
  <1> USE DEF MutationsInv
  <1>1. mutations[r] \subseteq mutations'[r] /\ mutations \in [Replicas -> SUBSET Blocks]
    BY LoadedGrows DEF IInv, QueueTypes
  <1>2. CASE p \in virtual_parts[r]
    BY <1>1, <1>2 DEF LoadedFirst
  <1>3. CASE p \notin virtual_parts[r]
    <2>1. PICK q \in assigners : ReplicaStep(q) /\ virtual_parts' # virtual_parts
      BY <1>3 DEF Next, allocateBlockNumber, commitPart, abandonBlockNumber, quorumReached,
         allocateMutation, writeMutation, releaseMutation, setPinnedParts, vars, queue
    <2>2. q \in Replicas
      BY DEF IInv, ZooKeeperTypes
    <2>3. pullLogsToQueue(q) \/ pullListed(q)
      BY <2>1 DEF ReplicaStep, pullLogsToQueue, snapshotVirtualParts, getCommittingBlocks, listLog,
         readMutations, pullListed, readPinnedParts, selectPartsToMerge, selectPartToMutate,
         createLogEntry, giveUp, queue
    <2> DEFINE n == log_pointer[q] + 1
    <2>4. /\ n \in 1 .. Len(log)
          /\ pullListed(q) => predicate[q].stage = "pull" /\ n \in 1 .. predicate[q].listed
      <3>1. log_pointer[q] \in Nat /\ Len(log) \in Nat /\ predicate[q].listed \in Nat
            /\ predicate[q].listed <= Len(log)
        BY <2>2, PredicateFacts DEF IInv, QueueTypes
      <3> QED
        BY <2>3, <3>1 DEF pullLogsToQueue, pullListed
    <2>5. PICK s \in log[n].new : virtual_parts' = [virtual_parts EXCEPT ![q] = add(@, s)]
      BY <2>1, <2>3 DEF pullLogsToQueue, pullListed, Pull
    <2>6. q = r /\ p = s
      <3>1. virtual_parts \in [Replicas -> SUBSET Live]
        BY DEF IInv, QueueTypes
      <3>2. q = r /\ p \in add(virtual_parts[r], s)
        BY <1>3, <2>2, <2>5, <3>1
      <3> QED
        BY <1>3, <3>2 DEF add
    <2>7. CASE pullLogsToQueue(q)
      <3>1. mutations'[r] = mutation_log
        BY <1>1, <2>6, <2>7 DEF pullLogsToQueue
      <3>2. IsApplied(s)
        BY <2>4 DEF LogApplied
      <3> QED
        BY <2>6, <3>1, <3>2 DEF Applied, IsApplied
    <2>8. CASE pullListed(q)
      <3>1. Knows(q)
        BY <2>2 DEF AllKnow
      <3>2. s.mutation = 0 \/ s.mutation \in mutations[q]
        BY <2>4, <2>8, <3>1 DEF Knows
      <3> QED
        BY <1>1, <2>6, <3>2
    <2> QED
      BY <2>3, <2>7, <2>8
  <1> QED
    BY <1>2, <1>3

LEMMA LoadedFirstNext ==
    ASSUME IInv, MutationsInv, [Next]_vars
    PROVE  LoadedFirst'
  <1> SUFFICES ASSUME NEW r \in Replicas
               PROVE  /\ mutations'[r] \subseteq mutation_log'
                      /\ \A v \in MutationNumbers' \ mutations'[r], u \in mutations'[r] : u < v
    BY PulledIsKnown DEF LoadedFirst
  <1>1. /\ mutation_log \subseteq mutation_log' /\ mutations[r] \subseteq mutation_log
        /\ \A v \in MutationNumbers' : v \in MutationNumbers \/ v = next_block
    BY NumbersNext, LoadedGrows DEF MutationsInv
  <1>2. /\ \A v \in MutationNumbers : v \in Nat /\ v < next_block
        /\ mutation_log \subseteq MutationNumbers
    BY NumbersAreBlocks
  <1>3. CASE mutations'[r] = mutations[r]
    <2>1. \A v \in MutationNumbers \ mutations[r], u \in mutations[r] : u < v
      BY DEF MutationsInv, LoadedFirst
    <2> QED
      BY <1>1, <1>2, <1>3, <2>1
  <1>4. CASE mutations'[r] = mutation_log /\ mutation_log' = mutation_log
    <2>1. NumbersInOrder'
      BY NumbersNext DEF MutationsInv
    <2>2. MutationNumbers' = mutation_log' \cup block_numbers'.mutation
      BY DEF MutationNumbers
    <2>3. ASSUME NEW v \in MutationNumbers' \ mutation_log, NEW u \in mutation_log
          PROVE  u < v
      <3>1. v \in block_numbers'.mutation /\ u \in MutationNumbers' /\ u # v
        BY <1>4, <2>2, <2>3
      <3>2. u <= v
        BY <2>1, <3>1 DEF NumbersInOrder
      <3>3. u \in Nat /\ v \in Nat
        BY <1>1, <1>2, NumbersAreBlocks
      <3> QED
        BY <3>1, <3>2, <3>3
    <2> QED
      BY <1>1, <1>4, <2>3
  <1> QED
    BY <1>3, <1>4, LoadedGrows

(***************************************************************************)
(* What a predicate knows                                                  *)
(***************************************************************************)
(* A predicate that does nothing keeps what it knows.                      *)
LEMMA KnowsKept ==
    ASSUME IInv, MutationsInv, [Next]_vars, NEW r \in Replicas, predicate'[r] = predicate[r]
    PROVE  Knows(r)'
  <1> DEFINE P == predicate[r]
  <1>1. /\ Knows(r) /\ P.prev \subseteq Live /\ P.new \subseteq Live /\ P.sources \in SUBSET Live
        /\ P.version \in Nat /\ P.version <= version /\ version \in Nat
        /\ P.listed \in Nat /\ P.listed <= Len(log) /\ Len(log) \in Nat
    BY PredicateFacts DEF MutationsInv, AllKnow
  <1>2. /\ mutation_log \subseteq mutation_log' /\ mutations[r] \subseteq mutations'[r]
        /\ \A v \in MutationNumbers' : v \in MutationNumbers \/ \A q \in Live : q.max < v
    BY NumbersNext, LoadedGrows, NumbersAreBlocks DEF MutationsInv
  <1>3. Len(log) <= Len(log') /\ Len(log') \in Nat /\ \A i \in 1 .. Len(log) : log'[i] = log[i]
    BY LogGrows
  <1>4. P.stage # "idle" => \A q \in P.prev : \E i \in 1 .. Len(log') : q \in log'[i].new
    BY <1>1, <1>3 DEF Knows
  <1>5. ASSUME Reads(r)
        PROVE  \A v \in MutationNumbers' :
                   v \in P.committing \/ v \in mutation_log' \/ \A q \in P.prev : q.max < v
    BY <1>1, <1>2, <1>5 DEF Knows
  <1>6. ASSUME Reads(r), NEW p \in quorum'
        PROVE  p \in P.quorum \/ \A q \in P.prev : ~contains(q, p)
    <2>1. CASE p \in quorum
      BY <1>1, <1>6, <2>1 DEF Knows
    <2>2. CASE p \notin quorum
      <3>1. PICK b \in block_numbers.insert : p = Block(b)
        <4>1. ASSUME NEW q \in assigners, ReplicaStep(q)
              PROVE  quorum' = quorum
          BY <4>1 DEF ReplicaStep, pullLogsToQueue, snapshotVirtualParts, getCommittingBlocks, listLog,
             readMutations, pullListed, readPinnedParts, selectPartsToMerge, selectPartToMutate,
             createLogEntry, giveUp, zk
        <4>2. UNCHANGED vars => quorum' = quorum
          BY DEF vars, zk
        <4> QED
          BY <2>2, <4>1, <4>2, <1>6 DEF Next, allocateBlockNumber, commitPart, abandonBlockNumber,
             quorumReached, allocateMutation, writeMutation, releaseMutation, setPinnedParts
      <3>2. ASSUME NEW q \in P.prev
            PROVE  ~contains(q, p)
        <4>1. PICK i \in 1 .. Len(log) : q \in log[i].new
          BY <1>1, <1>6 DEF Knows, Reads
        <4> QED
          BY <3>1, <4>1, HeldIsDisjoint
      <3> QED
        BY <3>2
    <2> QED
      BY <2>1, <2>2
  <1>7. ASSUME P.stage \in {"pull", "ready"}
        PROVE  \A v \in MutationNumbers' :
                   v \in P.committing \/ v \in mutations'[r] \/ \A q \in P.prev : q.max < v
    BY <1>1, <1>2, <1>7 DEF Knows
  <1>8. ASSUME P.stage = "pull"
        PROVE  \A i \in 1 .. P.listed : \A p \in log'[i].new : p.mutation = 0 \/ p.mutation \in mutations'[r]
    BY <1>1, <1>2, <1>3, <1>8 DEF Knows
  <1>9. ASSUME P.stage \in {"ready", "create"}, P.version = version'
        PROVE  P.pinned = pinned'
    <2>1. version' = version => pinned' = pinned
      <3>1. ASSUME NEW p, setPinnedParts(p)
            PROVE  version' # version
        BY <1>1, <3>1 DEF setPinnedParts
      <3>2. ASSUME NEW q \in assigners, ReplicaStep(q)
            PROVE  pinned' = pinned
        BY <3>2 DEF ReplicaStep, pullLogsToQueue, snapshotVirtualParts, getCommittingBlocks, listLog,
           readMutations, pullListed, readPinnedParts, selectPartsToMerge, selectPartToMutate,
           createLogEntry, giveUp, zk
      <3>3. UNCHANGED vars => pinned' = pinned
        BY DEF vars, zk
      <3> QED
        BY <3>1, <3>2, <3>3 DEF Next, allocateBlockNumber, commitPart, abandonBlockNumber,
           quorumReached, allocateMutation, writeMutation, releaseMutation
    <2>2. version' = version
      BY <1>1, <1>9, LogGrows
    <2> QED
      BY <1>1, <1>9, <2>1, <2>2 DEF Knows
  <1>10. ASSUME P.stage = "create"
         PROVE  /\ WillAgree(P.sources) /\ \A m \in P.new : WillBeApplied(m)
                /\ Type(P) = "MERGE_PARTS" =>
                      \A s \in P.sources : s \notin P.pinned \cup P.quorum /\ \E q \in P.prev : contains(q, s)
    <2>1. DoAgree(P.sources) /\ \A m \in P.new : IsApplied(m)
      BY <1>1, <1>10 DEF Knows
    <2>2. WillAgree(P.sources)
      BY <1>1, <2>1, AgreeKept DEF MutationsInv
    <2>3. \A m \in P.new : WillBeApplied(m)
      BY <1>1, <2>1, AppliedKept DEF MutationsInv
    <2> QED
      BY <1>1, <1>10, <2>2, <2>3 DEF Knows
  <1>11. Reads(r)' <=> Reads(r)
    BY DEF Reads
  <1> HIDE DEF P
  <1>12. predicate'[r] = P
    BY DEF P
  <1>13. Reads(r) <=> P.stage \in {"list", "mutations", "pull", "ready", "create"}
    BY DEF P, Reads
  <1> QED
    BY <1>4, <1>5, <1>6, <1>7, <1>8, <1>9, <1>10, <1>11, <1>12
       DEF Knows, WillAgree, WillBeApplied, DoAgree, IsApplied

(***************************************************************************)
(* A selected merge                                                        *)
(***************************************************************************)
(* A virtual part includes the mutations among its blocks; a mutation that *)
(* is not loaded is above the version of the part.                         *)
LEMMA VirtualApplied ==
    ASSUME IInv, MutationsInv, NEW r \in Replicas, NEW p \in virtual_parts[r]
    PROVE  /\ p \in Live /\ IsApplied(p) /\ getDataVersion(p) \in Nat /\ getDataVersion(p) < next_block
           /\ p.mutation = 0 \/ p.mutation \in mutations[r]
           /\ p.min \in Nat /\ p.max \in Nat /\ p.mutation \in Nat /\ p.min <= p.max
           /\ p.mutation # 0 => p.min < p.mutation
           /\ \A v \in MutationNumbers : p.min <= v /\ v <= p.max => v <= p.mutation
  <1>1. PICK i \in 1 .. log_pointer[r] : p \in log[i].new
    BY DEF IInv, VirtualInv, VirtualFrom
  <1>2. i \in 1 .. Len(log) /\ p \in Live
    BY LogFacts DEF IInv, QueueTypes
  <1>3. IsApplied(p)
    BY <1>1, <1>2 DEF MutationsInv, LogApplied
  <1>4. p.mutation = 0 \/ p.mutation \in mutations[r]
    BY DEF MutationsInv, LoadedFirst
  <1>5. p.min \in Nat /\ p.max \in Nat /\ p.mutation \in Nat /\ p.min <= p.max /\ p.max < next_block
        /\ next_block \in Nat
    BY <1>2, NumbersAreBlocks
  <1>6. mutation_log \subseteq MutationNumbers /\ \A v \in MutationNumbers : v < next_block
    BY NumbersAreBlocks
  <1>7. getDataVersion(p) \in Nat /\ getDataVersion(p) < next_block
    BY <1>3, <1>5, <1>6 DEF getDataVersion, IsApplied, Applied
  <1> QED
    BY <1>2, <1>3, <1>4, <1>5, <1>7 DEF IsApplied, Applied

(* What canMergeParts has excluded for a mutation that is not loaded: that *)
(* it lies between the parts.                                              *)
LEMMA NotInGap ==
    ASSUME IInv, MutationsInv, NEW r \in Replicas,
           NEW left \in virtual_parts[r], NEW right \in virtual_parts[r],
           selectPartsToMerge(r, left, right),
           NEW v \in MutationNumbers, v \notin mutations[r]
    PROVE  /\ v \in Nat /\ \A u \in mutations[r] : u < v
           /\ (left.max < v /\ right.max < v) \/ ~(left.max < v /\ v < right.min)
  <1> DEFINE P == predicate[r]
  <1>1. v \in Nat /\ mutations[r] \subseteq Nat
    BY NumbersAreBlocks DEF MutationsInv, LoadedFirst
  <1>2. \A u \in mutations[r] : u < v
    BY DEF MutationsInv, LoadedFirst
  <1>3. P.stage = "ready" /\ canUsePartInMerges(r, left) /\ canUsePartInMerges(r, right)
        /\ canMergeParts(r, left, right)
    BY DEF selectPartsToMerge
  <1>4. v \in P.committing \/ \A q \in P.prev : q.max < v
    BY <1>3 DEF MutationsInv, AllKnow, Knows
  <1>5. /\ left.max \in Nat /\ right.max \in Nat /\ right.min \in Nat
    BY VirtualApplied
  <1>6. CASE v \in P.committing
    <2>1. left.max + 1 < right.min => ~(left.max < v /\ v < right.min)
      BY <1>3, <1>6 DEF canMergeParts
    <2> QED
      BY <1>1, <1>2, <1>5, <2>1
  <1>7. ASSUME \A q \in P.prev : q.max < v, NEW s \in {left, right}
        PROVE  s.max < v
    <2>1. PICK q \in getContainingPart(P.prev, s) : TRUE
      BY <1>3, <1>7 DEF canUsePartInMerges
    <2>2. q \in P.prev /\ contains(q, s)
      BY <2>1, ContainingPartContains
    <2>3. s.max <= q.max /\ q.max < v
      BY <1>7, <2>2 DEF contains
    <2>4. q.max \in Nat /\ s.max \in Nat
      BY <1>5, <2>2, PredicateFacts, NumbersAreBlocks
    <2> QED
      BY <1>1, <2>3, <2>4
  <1> QED
    BY <1>1, <1>2, <1>4, <1>6, <1>7

(* The neighbours that are merged include the same mutations, those that   *)
(* are not loaded and those that are still to come as well.                *)
LEMMA MergedAgree ==
    ASSUME IInv, MutationsInv, NEW r \in Replicas,
           NEW left \in virtual_parts[r], NEW right \in virtual_parts[r],
           selectPartsToMerge(r, left, right)
    PROVE  DoAgree({left, right}) /\ IsApplied(Merged(left, right))
  <1> DEFINE M == mutations[r]
             m == Merged(left, right)
  <1>1. left.max < right.min /\ canMergeParts(r, left, right)
    BY DEF selectPartsToMerge
  <1>2. \A v \in M : v <= getDataVersion(left) <=> v <= getDataVersion(right)
    BY <1>1 DEF canMergeParts, SameMutationVersion, CurrentMutation
  <1>3. /\ M \subseteq mutation_log /\ mutation_log \subseteq MutationNumbers /\ MutationNumbers \subseteq Nat
    BY NumbersAreBlocks DEF MutationsInv, LoadedFirst
  <1>4. /\ left.min \in Nat /\ left.max \in Nat /\ left.mutation \in Nat /\ left.min <= left.max
        /\ left.mutation = 0 \/ left.mutation \in M
        /\ left.mutation # 0 => left.min < left.mutation
        /\ \A v \in MutationNumbers : left.min <= v /\ v <= left.max => v <= left.mutation
    BY VirtualApplied
  <1>5. /\ right.min \in Nat /\ right.max \in Nat /\ right.mutation \in Nat /\ right.min <= right.max
        /\ right.mutation = 0 \/ right.mutation \in M
        /\ right.mutation # 0 => right.min < right.mutation
        /\ \A v \in MutationNumbers : right.min <= v /\ v <= right.max => v <= right.mutation
    BY VirtualApplied
  <1>6. getDataVersion(left) < next_block /\ getDataVersion(right) < next_block
    BY VirtualApplied
  <1>7. right.mutation # 0 => left.mutation # 0
    <2> SUFFICES ASSUME right.mutation # 0, left.mutation = 0
                 PROVE  FALSE
      OBVIOUS
    <2>1. right.mutation \in M /\ right.mutation <= getDataVersion(right)
      BY <1>5 DEF getDataVersion
    <2>2. right.mutation <= left.min
      BY <1>2, <2>1 DEF getDataVersion
    <2> QED
      BY <1>1, <1>4, <1>5, <2>2
  <1>8. ASSUME NEW v \in MutationNumbers, v \notin M
        PROVE  /\ v <= getDataVersion(left) <=> v <= getDataVersion(right)
               /\ left.min <= v /\ v <= right.max => v <= m.mutation
    <2>1. /\ v \in Nat
          /\ left.mutation # 0 => left.mutation < v
          /\ right.mutation # 0 => right.mutation < v
      BY <1>4, <1>5, <1>8, NotInGap
    <2>2. (left.max < v /\ right.max < v) \/ ~(left.max < v /\ v < right.min)
      BY <1>8, NotInGap
    <2>3. v <= left.max => v < left.min \/ v <= left.mutation
      BY <1>4, <2>1
    <2>4. right.min <= v => right.max < v \/ v <= right.mutation
      BY <1>5, <2>1
    <2>5. v <= getDataVersion(left) <=> v <= getDataVersion(right)
      BY <1>1, <1>4, <1>5, <1>7, <2>1, <2>2, <2>3, <2>4 DEF getDataVersion
    <2>6. left.mutation <= m.mutation /\ right.mutation <= m.mutation /\ m.mutation \in Nat
      BY <1>4, <1>5 DEF Merged
    <2>7. left.min <= v /\ v <= right.max => v <= m.mutation
      BY <1>1, <1>4, <1>5, <2>1, <2>2, <2>3, <2>4, <2>6
    <2> QED
      BY <2>5, <2>7
  <1>9. ASSUME NEW v \in M, left.min <= v, v <= right.max
        PROVE  v <= m.mutation
    <2>1. v \in Nat /\ v \in MutationNumbers
      BY <1>3
    <2>2. left.mutation <= m.mutation /\ right.mutation <= m.mutation /\ m.mutation \in Nat
      BY <1>4, <1>5 DEF Merged
    <2>3. CASE v <= left.max
      BY <1>4, <1>9, <2>1, <2>2, <2>3
    <2>4. CASE right.min <= v
      BY <1>5, <1>9, <2>1, <2>2, <2>4
    <2>5. CASE left.max < v /\ v < right.min
      BY <1>2, <1>4, <1>5, <1>7, <2>1, <2>2, <2>5 DEF getDataVersion
    <2> QED
      BY <1>4, <1>5, <2>1, <2>3, <2>4, <2>5
  <1>10. \A v \in MutationNumbers : v <= getDataVersion(left) <=> v <= getDataVersion(right)
    BY <1>2, <1>8
  <1>11. \A p, q \in {left, right} : SameMutationVersion(MutationNumbers, p, q)
    BY <1>10 DEF SameMutationVersion, CurrentMutation
  <1>12. DoAgree({left, right})
    BY <1>6, <1>11 DEF DoAgree, Agree
  <1>13. m.min = left.min /\ m.max = right.max
    BY DEF Merged
  <1>14. \A v \in MutationNumbers : m.min <= v /\ v <= m.max => v <= m.mutation
    BY <1>8, <1>9, <1>13
  <1>15. m.mutation # 0 => m.min < m.mutation /\ m.mutation \in mutation_log
    <2>1. m.mutation = left.mutation \/ m.mutation = right.mutation
      BY DEF Merged
    <2> QED
      BY <1>1, <1>3, <1>4, <1>5, <1>13, <2>1
  <1> QED
    BY <1>12, <1>14, <1>15 DEF IsApplied, Applied

LEMMA MutatedAgree ==
    ASSUME IInv, MutationsInv, NEW r \in Replicas, NEW p \in virtual_parts[r], NEW v \in mutations[r],
           selectPartToMutate(r, p, v)
    PROVE  DoAgree({p}) /\ IsApplied(Mutated(p, v))
  <1> DEFINE m == Mutated(p, v)
  <1>1. v \in mutation_log /\ v \in Nat /\ MutationNumbers \subseteq Nat
    BY NumbersAreBlocks DEF MutationsInv, LoadedFirst
  <1>2. getDataVersion(p) < v
    BY DEF selectPartToMutate
  <1>3. /\ p \in Live /\ getDataVersion(p) < next_block
        /\ p.min \in Nat /\ p.max \in Nat /\ p.mutation \in Nat
        /\ p.mutation # 0 => p.min < p.mutation
        /\ \A u \in MutationNumbers : p.min <= u /\ u <= p.max => u <= p.mutation
    BY VirtualApplied
  <1>4. p \in Infos
    BY <1>3, NumbersAreBlocks
  <1>5. m.min = p.min /\ m.max = p.max /\ m.mutation = v
    BY <1>4 DEF Mutated, Infos
  <1>6. p.min < v /\ p.mutation <= v
    BY <1>1, <1>2, <1>3 DEF getDataVersion
  <1>7. \A u \in MutationNumbers : m.min <= u /\ u <= m.max => u <= m.mutation
    <2> SUFFICES ASSUME NEW u \in MutationNumbers, p.min <= u, u <= p.max
                 PROVE  u <= v
      BY <1>5
    <2>1. u \in Nat /\ u <= p.mutation
      BY <1>1, <1>3
    <2> QED
      BY <1>1, <1>3, <1>6, <2>1
  <1>8. DoAgree({p})
    BY <1>3 DEF DoAgree, Agree, SameMutationVersion
  <1> QED
    BY <1>1, <1>5, <1>6, <1>7, <1>8 DEF IsApplied, Applied

(* The steps of the predicate itself.                                      *)
LEMMA KnowsChanges ==
    ASSUME IInv, MutationsInv, [Next]_vars, NEW r \in Replicas, Changes(r)
    PROVE  Knows(r)'
  <1> DEFINE P == predicate[r]
             Q == predicate'[r]
  <1>1. predicate \in [Replicas -> Predicates(Live)] /\ P \in Predicates(Live) /\ Knows(r)
    BY DEF IInv, PredicateTypes, MutationsInv, AllKnow
  <1>2. mutations \in [Replicas -> SUBSET Blocks]
    BY DEF IInv, QueueTypes
  <1>3. CASE createLogEntry(r) \/ giveUp(r)
    <2>1. Q = Idle
      BY <1>1, <1>3 DEF createLogEntry, giveUp, To
    <2> QED
      BY <2>1, IdleIsTyped DEF Knows, Reads
  <1>4. ASSUME ~createLogEntry(r)
        PROVE  /\ log' = log /\ version' = version /\ block_numbers' = block_numbers
               /\ quorum' = quorum /\ pinned' = pinned /\ next_block' = next_block
               /\ mutation_log' = mutation_log /\ MutationNumbers' = MutationNumbers
    <2>1. mutation_log' = mutation_log
      BY <1>4 DEF Changes, snapshotVirtualParts, getCommittingBlocks, listLog, readMutations,
         readPinnedParts, selectPartsToMerge, selectPartToMutate, giveUp, zk
    <2> QED
      BY <1>4, <2>1, ChangesQuietly DEF MutationNumbers
  <1>5. CASE snapshotVirtualParts(r)
    <2>1. Q = [Idle EXCEPT !.stage = "committing", !.prev = virtual_parts[r]] /\ log' = log
      BY <1>1, <1>5 DEF snapshotVirtualParts, To, zk
    <2>2. Q.stage = "committing" /\ Q.prev = virtual_parts[r]
      BY <2>1 DEF Idle
    <2>3. \A q \in Q.prev : \E i \in 1 .. Len(log') : q \in log'[i].new
      <3>1. \A i \in 1 .. log_pointer[r] : i \in 1 .. Len(log)
        BY LogFacts DEF IInv, QueueTypes
      <3> QED
        BY <2>1, <2>2, <3>1 DEF IInv, VirtualInv, VirtualFrom
    <2> QED
      BY <2>2, <2>3 DEF Knows, Reads
  <1>6. ASSUME ~createLogEntry(r), P.stage # "idle", Q.prev = P.prev
        PROVE  \A q \in Q.prev : \E i \in 1 .. Len(log') : q \in log'[i].new
    BY <1>1, <1>4, <1>6 DEF Knows
  <1>7. CASE getCommittingBlocks(r)
    <2>1. Q = [P EXCEPT !.stage = "list", !.quorum = quorum,
                        !.committing = block_numbers.insert \cup block_numbers.mutation]
      BY <1>1, <1>7 DEF getCommittingBlocks, To
    <2>2. Q.stage = "list" /\ Q.quorum = quorum /\ Q.prev = P.prev
          /\ block_numbers.mutation \subseteq Q.committing
      BY <1>1, <2>1 DEF Predicates
    <2>3. ~createLogEntry(r) /\ P.stage # "idle"
      BY <1>7 DEF getCommittingBlocks, createLogEntry
    <2>4. \A v \in MutationNumbers' : v \in Q.committing \/ v \in mutation_log'
      BY <1>4, <2>2, <2>3 DEF MutationNumbers
    <2>5. \A p \in quorum' : p \in Q.quorum
      BY <1>4, <2>2, <2>3
    <2>6. \A q \in Q.prev : \E i \in 1 .. Len(log') : q \in log'[i].new
      BY <1>6, <2>2, <2>3
    <2> QED
      BY <2>2, <2>4, <2>5, <2>6 DEF Knows
  (* The later steps keep what the first two have read.                    *)
  <1>8. ASSUME ~createLogEntry(r), Reads(r),
               Q.prev = P.prev, Q.committing = P.committing, Q.quorum = P.quorum,
               Q.stage \in {"mutations", "pull", "ready", "create"},
               Q.stage \in {"pull", "ready"} =>
                  \A v \in MutationNumbers :
                      v \in P.committing \/ v \in mutations'[r] \/ \A q \in P.prev : q.max < v,
               Q.stage = "pull" => \A i \in 1 .. Q.listed : \A p \in log[i].new :
                                      p.mutation = 0 \/ p.mutation \in mutations'[r],
               Q.stage \in {"ready", "create"} /\ Q.version = version => Q.pinned = pinned,
               Q.stage = "create" =>
                  /\ DoAgree(Q.sources) /\ \A m \in Q.new : IsApplied(m)
                  /\ Type(Q) = "MERGE_PARTS" =>
                        \A s \in Q.sources : s \notin Q.pinned \cup Q.quorum
                                             /\ \E q \in Q.prev : contains(q, s)
        PROVE  Knows(r)'
    <2>1. P.stage # "idle"
      BY <1>8 DEF Reads
    <2>2. \A q \in Q.prev : \E i \in 1 .. Len(log') : q \in log'[i].new
      BY <1>6, <1>8, <2>1
    <2>3. /\ \A v \in MutationNumbers' :
                v \in Q.committing \/ v \in mutation_log' \/ \A q \in Q.prev : q.max < v
          /\ \A p \in quorum' : p \in Q.quorum \/ \A q \in Q.prev : ~contains(q, p)
      BY <1>1, <1>4, <1>8 DEF Knows
    <2>4. Q.stage \in {"pull", "ready"} =>
             \A v \in MutationNumbers' :
                 v \in Q.committing \/ v \in mutations'[r] \/ \A q \in Q.prev : q.max < v
      BY <1>4, <1>8
    <2>5. Q.stage = "pull" => \A i \in 1 .. Q.listed : \A p \in log'[i].new :
                                 p.mutation = 0 \/ p.mutation \in mutations'[r]
      BY <1>4, <1>8
    <2>6. Q.stage \in {"ready", "create"} /\ Q.version = version' => Q.pinned = pinned'
      BY <1>4, <1>8
    <2>7. Q.stage = "create" => WillAgree(Q.sources) /\ \A m \in Q.new : WillBeApplied(m)
      BY <1>4, <1>8 DEF DoAgree, IsApplied, WillAgree, WillBeApplied
    <2>8. Q.stage = "create" /\ Type(Q) = "MERGE_PARTS" =>
             \A s \in Q.sources : s \notin Q.pinned \cup Q.quorum /\ \E q \in Q.prev : contains(q, s)
      BY <1>8
    <2> HIDE DEF Q
    <2>9. predicate'[r] = Q
      BY DEF Q
    <2> QED
      BY <2>2, <2>3, <2>4, <2>5, <2>6, <2>7, <2>8, <2>9
         DEF Knows, WillAgree, WillBeApplied, DoAgree, IsApplied
  <1>9. CASE listLog(r)
    <2>1. Q = [P EXCEPT !.stage = "mutations", !.version = version, !.listed = Len(log)]
      BY <1>1, <1>9 DEF listLog, To
    <2>2. Q.stage = "mutations" /\ Q.prev = P.prev /\ Q.committing = P.committing /\ Q.quorum = P.quorum
      BY <1>1, <2>1 DEF Predicates
    <2>3. ~createLogEntry(r) /\ Reads(r)
      BY <1>9 DEF listLog, createLogEntry, Reads
    <2> QED
      BY <1>8, <2>2, <2>3
  <1>10. CASE readMutations(r)
    <2>1. Q = [P EXCEPT !.stage = "pull"]
      BY <1>1, <1>10 DEF readMutations, To
    <2>2. /\ Q.stage = "pull" /\ Q.prev = P.prev /\ Q.committing = P.committing /\ Q.quorum = P.quorum
          /\ Q.listed = P.listed
      BY <1>1, <2>1 DEF Predicates
    <2>3. ~createLogEntry(r) /\ Reads(r)
      BY <1>10 DEF readMutations, createLogEntry, Reads
    <2>4. mutations'[r] = mutation_log
      BY <1>2, <1>10 DEF readMutations
    <2>5. \A v \in MutationNumbers : v \in P.committing \/ v \in mutations'[r] \/ \A q \in P.prev : q.max < v
      BY <1>1, <2>3, <2>4 DEF Knows
    <2>6. ASSUME NEW i \in 1 .. Q.listed, NEW p \in log[i].new
          PROVE  p.mutation = 0 \/ p.mutation \in mutations'[r]
      <3>1. i \in 1 .. Len(log)
        BY <2>2, <2>6, PredicateFacts
      <3>2. IsApplied(p)
        BY <2>6, <3>1 DEF MutationsInv, LogApplied
      <3> QED
        BY <2>4, <3>2 DEF IsApplied, Applied
    <2> QED
      BY <1>8, <2>2, <2>3, <2>5, <2>6
  <1>11. CASE readPinnedParts(r)
    <2>1. Q = [P EXCEPT !.stage = "ready", !.pinned = pinned] /\ mutations' = mutations
      BY <1>1, <1>11 DEF readPinnedParts, To, queue
    <2>2. /\ Q.stage = "ready" /\ Q.prev = P.prev /\ Q.committing = P.committing /\ Q.quorum = P.quorum
          /\ Q.pinned = pinned
      BY <1>1, <2>1 DEF Predicates
    <2>3. ~createLogEntry(r) /\ Reads(r) /\ P.stage = "pull"
      BY <1>11 DEF readPinnedParts, createLogEntry, Reads
    <2>4. \A v \in MutationNumbers : v \in P.committing \/ v \in mutations'[r] \/ \A q \in P.prev : q.max < v
      BY <1>1, <2>1, <2>3 DEF Knows
    <2> QED
      BY <1>8, <2>2, <2>3, <2>4
  <1>12. ASSUME P.stage = "ready", NEW new, NEW sources,
                To(r, [P EXCEPT !.stage = "create", !.sources = sources, !.new = new]),
                DoAgree(sources), \A m \in new : IsApplied(m),
                \/ Cardinality(sources) = 1
                \/ \A s \in sources : s \notin P.pinned \cup P.quorum /\ \E q \in P.prev : contains(q, s)
         PROVE  Knows(r)'
    <2>1. Q = [P EXCEPT !.stage = "create", !.sources = sources, !.new = new]
      BY <1>1, <1>12 DEF To
    <2>2. /\ Q.stage = "create" /\ Q.prev = P.prev /\ Q.committing = P.committing /\ Q.quorum = P.quorum
          /\ Q.pinned = P.pinned /\ Q.version = P.version /\ Q.sources = sources /\ Q.new = new
      BY <1>1, <2>1 DEF Predicates
    <2>3. ~createLogEntry(r) /\ Reads(r)
      BY <1>12 DEF createLogEntry, Reads
    <2>4. Q.version = version => Q.pinned = pinned
      BY <1>1, <1>12, <2>2 DEF Knows
    <2>5. DoAgree(Q.sources) /\ \A m \in Q.new : IsApplied(m)
      BY <1>12, <2>2
    <2>6. Type(Q) = "MERGE_PARTS" =>
             \A s \in Q.sources : s \notin Q.pinned \cup Q.quorum /\ \E q \in Q.prev : contains(q, s)
      BY <1>12, <2>2 DEF Type
    <2> HIDE DEF P, Q
    <2> QED
      BY <1>8, <2>2, <2>3, <2>4, <2>5, <2>6
  <1>13. ASSUME NEW left \in virtual_parts[r], NEW right \in virtual_parts[r],
                selectPartsToMerge(r, left, right)
         PROVE  Knows(r)'
    <2>1. To(r, [P EXCEPT !.stage = "create", !.sources = {left, right}, !.new = {Merged(left, right)}])
          /\ P.stage = "ready"
      BY <1>13 DEF selectPartsToMerge, Merged
    <2>2. DoAgree({left, right}) /\ \A m \in {Merged(left, right)} : IsApplied(m)
      BY <1>13, MergedAgree
    <2>3. ASSUME NEW s \in {left, right}
          PROVE  s \notin P.pinned \cup P.quorum /\ \E q \in P.prev : contains(q, s)
      <3>1. canUsePartInMerges(r, s)
        BY <1>13, <2>3 DEF selectPartsToMerge
      <3>2. PICK q \in getContainingPart(P.prev, s) : TRUE
        BY <3>1 DEF canUsePartInMerges
      <3> QED
        BY <3>1, <3>2, ContainingPartContains DEF canUsePartInMerges
    <2> DEFINE sources == {left, right}
               new == {Merged(left, right)}
    <2>4. /\ To(r, [P EXCEPT !.stage = "create", !.sources = sources, !.new = new])
          /\ DoAgree(sources) /\ \A m \in new : IsApplied(m)
          /\ \A s \in sources : s \notin P.pinned \cup P.quorum /\ \E q \in P.prev : contains(q, s)
      BY <2>1, <2>2, <2>3
    <2> HIDE DEF sources, new
    <2> QED
      BY <1>12, <2>1, <2>4
  <1>14. ASSUME NEW p \in virtual_parts[r], NEW v \in mutations[r], selectPartToMutate(r, p, v)
         PROVE  Knows(r)'
    <2>1. To(r, [P EXCEPT !.stage = "create", !.sources = {p}, !.new = {Mutated(p, v)}])
          /\ P.stage = "ready"
      BY <1>14 DEF selectPartToMutate, Mutated
    <2>2. DoAgree({p}) /\ \A m \in {Mutated(p, v)} : IsApplied(m)
      BY <1>14, MutatedAgree
    <2>3. Cardinality({p}) = 1
      BY FS_Singleton
    <2> DEFINE sources == {p}
               new == {Mutated(p, v)}
    <2>4. /\ To(r, [P EXCEPT !.stage = "create", !.sources = sources, !.new = new])
          /\ DoAgree(sources) /\ (\A m \in new : IsApplied(m)) /\ Cardinality(sources) = 1
      BY <2>1, <2>2, <2>3
    <2> HIDE DEF sources, new
    <2> QED
      BY <1>12, <2>1, <2>4
  <1> QED
    BY <1>3, <1>5, <1>7, <1>9, <1>10, <1>11, <1>13, <1>14 DEF Changes

LEMMA MutationsNext ==
    ASSUME IInv, MutationsInv, [Next]_vars
    PROVE  MutationsInv'
  <1>1. NumbersInOrder' /\ LogApplied' /\ LoadedFirst'
    BY NumbersNext, LogAppliedNext, LoadedFirstNext DEF MutationsInv
  <1>2. AllKnow'
    <2>1. CASE predicate' = predicate
      BY <2>1, KnowsKept DEF AllKnow
    <2>2. ASSUME NEW r \in Replicas, Changes(r), predicate' = [predicate EXCEPT ![r] = predicate'[r]]
          PROVE  AllKnow'
      <3>1. \A q \in Replicas : q # r => predicate'[q] = predicate[q]
        BY <2>2 DEF IInv, PredicateTypes
      <3>2. \A q \in Replicas : Knows(q)'
        BY <2>2, <3>1, KnowsKept, KnowsChanges
      <3> QED
        BY <3>2 DEF AllKnow
    <2> QED
      BY <2>1, <2>2, PredicateSteps
  <1> QED
    BY <1>1, <1>2 DEF MutationsInv

(* The inductive invariant of what predicates know of mutations.           *)
THEOREM MutationsInvariant ==
    Spec => [](IInv /\ MutationsInv)
  <1>1. Init => MutationsInv
    <2> SUFFICES ASSUME Init
                 PROVE  MutationsInv
      OBVIOUS
    <2>1. /\ MutationNumbers = {} /\ Len(log) = 0 /\ 1 .. 0 = {}
          /\ block_numbers.insert = {} /\ block_numbers.mutation = {}
      BY DEF Init, MutationNumbers
    <2>2. \A r \in Replicas : predicate[r] = Idle /\ mutations[r] = {} /\ virtual_parts[r] = {}
      BY DEF Init
    <2>3. NumbersInOrder /\ LogApplied /\ LoadedFirst
      BY <2>1, <2>2 DEF NumbersInOrder, LogApplied, LoadedFirst
    <2>4. AllKnow
      BY <2>2, IdleIsTyped DEF AllKnow, Knows, Reads
    <2> QED
      BY <2>3, <2>4 DEF MutationsInv
  <1>2. IInv /\ MutationsInv /\ [Next]_vars => MutationsInv'
    BY MutationsNext
  <1> QED
    BY <1>1, <1>2, Invariant, PTL DEF Spec

(* DistributedMergePredicate::canMergeParts with the mutations that the    *)
(* predicate loads and the block numbers that it saw: parts that are       *)
(* merged include the same mutations, those that are written after the     *)
(* merge as well.                                                          *)
THEOREM SameMutationsTheorem ==
    Spec => []SameMutations
  <1>1. IInv /\ MutationsInv => SameMutations
    <2> SUFFICES ASSUME IInv, MutationsInv, NEW i \in Merges,
                        NEW p \in log[i].sources, NEW q \in log[i].sources
                 PROVE  SameMutationVersion(mutation_log, p, q)
      BY DEF SameMutations
    <2>1. i \in 1 .. Len(log)
      BY LogFacts DEF Merges
    <2>2. SameMutationVersion(MutationNumbers, p, q)
      BY <2>1 DEF MutationsInv, LogApplied, DoAgree, Agree
    <2>3. mutation_log \subseteq MutationNumbers
      BY DEF MutationNumbers
    <2> QED
      BY <2>2, <2>3 DEF SameMutationVersion, CurrentMutation
  <1> QED
    BY <1>1, MutationsInvariant, PTL

(* The checks of pinned parts and of the quorum in canUsePartInMerges, and *)
(* the version of the log in createLogEntryToMergeParts: what is pinned or *)
(* waits for its quorum when a merge is written is not merged by it.       *)
THEOREM HeldPartsTheorem ==
    Spec => HeldPartsNotMerged
  <1>1. ASSUME IInv, MutationsInv, [Next]_vars, NEW i \in DOMAIN log' \ DOMAIN log,
               log'[i].type = "MERGE_PARTS"
        PROVE  log'[i].sources \cap (pinned \cup quorum) = {}
    <2>1. log \in Seq(Entries(Live)) /\ DOMAIN log = 1 .. Len(log)
      BY <1>1, LogFacts DEF IInv, ZooKeeperTypes
    <2>2. ASSUME NEW e \in Entries(Live), log' = Append(log, e)
          PROVE  log'[i] = e
      <3>1. DOMAIN log' = 1 .. Len(log) + 1 /\ log'[Len(log) + 1] = e
        BY <2>1, <2>2
      <3> QED
        BY <2>1, <3>1
    <2>3. CASE Quiet
      BY <1>1, <2>3 DEF Quiet
    <2>4. ASSUME NEW b \in Blocks, Commits(b)
          PROVE  FALSE
      <3>1. Entry("GET_PART", {Block(b)}, {}) \in Entries(Live)
        BY <1>1, LiveBlocks, EntryIsEntry DEF Types
      <3>2. log'[i].type = "GET_PART"
        BY <2>2, <2>4, <3>1 DEF Commits, Entry
      <3> QED
        BY <1>1, <3>2
    <2>5. ASSUME NEW e \in Entries(Live), Assigns(e)
          PROVE  log'[i].sources \cap (pinned \cup quorum) = {}
      <3>1. log'[i] = e /\ e.type = "MERGE_PARTS"
        BY <1>1, <2>2, <2>5 DEF Assigns
      <3>2. PICK r \in Replicas : /\ predicate[r].stage = "create" /\ predicate[r].version = version
                                  /\ e = Entry(Type(predicate[r]), predicate[r].new, predicate[r].sources)
        BY <2>5, <3>1 DEF Assigns, Entry
      <3> DEFINE P == predicate[r]
      <3>3. e.sources = P.sources /\ Type(P) = "MERGE_PARTS"
        BY <3>1, <3>2 DEF Entry
      <3>4. Knows(r) /\ Reads(r)
        BY <1>1, <3>2 DEF MutationsInv, AllKnow, Reads
      <3>5. P.pinned = pinned
        BY <3>2, <3>4 DEF Knows
      <3>6. ASSUME NEW s \in P.sources
            PROVE  s \notin pinned \cup quorum
        <4>1. s \notin P.pinned /\ s \notin P.quorum /\ \E q \in P.prev : contains(q, s)
          BY <3>2, <3>3, <3>4 DEF Knows
        <4>2. \A p \in quorum : p \in P.quorum \/ \A q \in P.prev : ~contains(q, p)
          BY <3>4 DEF Knows
        <4> QED
          BY <3>5, <4>1, <4>2
      <3> QED
        BY <3>1, <3>3, <3>6
    <2> QED
      BY <1>1, <2>3, <2>4, <2>5, StepKinds
  <1>2. IInv /\ MutationsInv /\ [Next]_vars =>
           [\A i \in DOMAIN log' \ DOMAIN log :
              log'[i].type = "MERGE_PARTS" => log'[i].sources \cap (pinned \cup quorum) = {}]_vars
    BY <1>1
  <1> QED
    BY <1>2, MutationsInvariant, PTL DEF Spec, HeldPartsNotMerged
=============================================================================
