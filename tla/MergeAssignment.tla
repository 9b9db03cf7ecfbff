-------------------------- MODULE MergeAssignment --------------------------
(***************************************************************************)
(* How a replica decides that parts may be merged or mutated               *)
(* (DistributedMergePredicate and its ZooKeeper variant).                  *)
(*                                                                         *)
(* An insert takes a block number, an ephemeral znode, long before its     *)
(* part appears in the log.  A merge over a gap between block numbers is   *)
(* therefore safe only if nothing can appear in the gap any more, and      *)
(* ZooKeeper gives no snapshot of the log together with the block numbers. *)
(* The predicate reads them one after another: its own virtual parts, the  *)
(* block numbers that are held, then the log and the mutations again; the  *)
(* entry it finally writes is refused if a merge, a mutation of parts or a *)
(* change of the pinned parts came in between (the version of /log).       *)
(*                                                                         *)
(* One partition.  The parts are added to the sets with ActiveDataPartSet; *)
(* entries are pulled one by one.                                          *)
(***************************************************************************)
EXTENDS ActiveDataPartSet, Sequences

CONSTANTS Replicas,
          Scenarios,    \* sets of kinds of changes, with a number of replicas that assign
          MAX_BLOCK_NUMBER,
          MaxBlock,     \* bound: block numbers
          MaxLevel,     \* bound: level of a merged part
          MaxAssigned   \* bound: entries that change the version of /log

ASSUME AssignmentAssumption ==
    /\ MaxBlock \in Nat /\ MaxLevel \in Nat /\ MaxAssigned \in Nat
    /\ MAX_BLOCK_NUMBER \in Nat /\ MaxBlock <= MAX_BLOCK_NUMBER /\ MaxLevel < MAX_LEVEL

VARIABLES
    next_block,
    block_numbers,    \* block numbers held, by kind
    log, version,     \* /log and the version of that znode
    mutation_log,     \* block numbers of /mutations, in the order of its znodes
    quorum,           \* /quorum/status: the part that waits for its quorum
    pinned,           \* /pinned_part_uuids
    log_pointer, virtual_parts, mutations,    \* of each replica
    predicate,        \* of each replica: the merge predicate being used
    kinds, assigners  \* fixed: what happens besides inserts, and the replicas that assign

zk    == <<next_block, block_numbers, log, version, mutation_log, quorum, pinned>>
queue == <<log_pointer, virtual_parts, mutations>>
fixed == <<kinds, assigners>>
vars  == <<zk, queue, predicate, fixed>>

-----------------------------------------------------------------------------
getDataVersion(p) == IF p.mutation # 0 THEN p.mutation ELSE p.min

(* getCurrentMutationVersion: the last of these mutations that a part with *)
(* this data version includes.                                             *)
CurrentMutation(versions, data_version) == {v \in versions : v <= data_version}

SameMutationVersion(versions, p, q) ==
    CurrentMutation(versions, getDataVersion(p)) = CurrentMutation(versions, getDataVersion(q))

Infos == [min : 0..MaxBlock, max : 0..MaxBlock, level : 0..MaxLevel, mutation : 0..MaxBlock]

Entry(type, new, sources) == [type |-> type, new |-> new, sources |-> sources]

Block(b) == [min |-> b, max |-> b, level |-> 0, mutation |-> 0]

Idle == [stage |-> "idle", prev |-> {}, committing |-> {}, quorum |-> {}, pinned |-> {},
         version |-> 0, listed |-> 0, new |-> {}, sources |-> {}]

-----------------------------------------------------------------------------
(* Inserts.  The znode of the block number is ephemeral.                   *)

allocateBlockNumber ==
    /\ next_block < MaxBlock
    /\ next_block' = next_block + 1
    /\ block_numbers' = [block_numbers EXCEPT !.insert = @ \cup {next_block}]
    /\ UNCHANGED <<log, version, mutation_log, quorum, pinned, queue, predicate>>

(* A faulty variant: the block number is not given back in the transaction *)
(* that commits the part, so that it may have been lost before.            *)
commitPartWithoutLock(b, with_quorum) ==
    /\ b < next_block
    /\ \A i \in DOMAIN log : log[i].new # {Block(b)}
    /\ b \notin block_numbers.mutation \cup mutation_log
    /\ ~with_quorum
    /\ log' = Append(log, Entry("GET_PART", {Block(b)}, {}))
    /\ block_numbers' = [block_numbers EXCEPT !.insert = @ \ {b}]
    /\ UNCHANGED <<next_block, version, mutation_log, quorum, pinned, queue, predicate>>

(* One transaction writes the log entry, the status of the quorum and      *)
(* removes the block number; it fails if that is gone.                     *)
commitPart(b, with_quorum) ==
    /\ b \in block_numbers.insert
    /\ with_quorum => "quorum" \in kinds
    /\ block_numbers' = [block_numbers EXCEPT !.insert = @ \ {b}]
    /\ log' = Append(log, Entry("GET_PART", {Block(b)}, {}))
    /\ IF with_quorum THEN quorum = {} /\ quorum' = {Block(b)} ELSE UNCHANGED quorum
    /\ UNCHANGED <<next_block, version, mutation_log, pinned, queue, predicate>>

(* The insert fails, or its session expires.                               *)
abandonBlockNumber(b) ==
    /\ block_numbers' = [block_numbers EXCEPT !.insert = @ \ {b}]
    /\ UNCHANGED <<next_block, log, version, mutation_log, quorum, pinned, queue, predicate>>

quorumReached ==
    /\ quorum # {}
    /\ quorum' = {}
    /\ UNCHANGED <<next_block, block_numbers, log, version, mutation_log, pinned, queue, predicate>>

(* Mutations.  They are written in the order of their block numbers, and   *)
(* the number is given back after the mutation is there.                   *)
allocateMutation ==
    /\ "mutation" \in kinds
    /\ next_block < MaxBlock
    /\ block_numbers.mutation = {}
    /\ next_block' = next_block + 1
    /\ block_numbers' = [block_numbers EXCEPT !.mutation = {next_block}]
    /\ UNCHANGED <<log, version, mutation_log, quorum, pinned, queue, predicate>>

writeMutation ==
    /\ ~(block_numbers.mutation \subseteq mutation_log)
    /\ mutation_log' = mutation_log \cup block_numbers.mutation
    /\ UNCHANGED <<next_block, block_numbers, log, version, quorum, pinned, queue, predicate>>

releaseMutation ==
    /\ block_numbers.mutation # {}
    /\ block_numbers' = [block_numbers EXCEPT !.mutation = {}]
    /\ UNCHANGED <<next_block, log, version, mutation_log, quorum, pinned, queue, predicate>>

(* A faulty variant: the version of /log stays.                            *)
setPinnedPartsSilently(p) ==
    /\ "pin" \in kinds
    /\ pinned' = {p}
    /\ UNCHANGED <<next_block, block_numbers, log, version, mutation_log, quorum, queue, predicate>>

(* A part that moves to another shard is pinned; the same transaction      *)
(* writes a log entry and so changes the version.                          *)
setPinnedParts(p) ==
    /\ "pin" \in kinds
    /\ version < MaxAssigned
    /\ version' = version + 1
    /\ pinned' = {p}
    /\ log' = Append(log, Entry("SYNC_PINNED_PART_UUIDS", {}, {}))
    /\ UNCHANGED <<next_block, block_numbers, mutation_log, quorum, queue, predicate>>

-----------------------------------------------------------------------------
(* The queue of a replica.                                                 *)

Pull(r) ==
    LET new == log[log_pointer[r] + 1].new
    IN /\ log_pointer' = [log_pointer EXCEPT ![r] = @ + 1]
       /\ \/ new = {} /\ UNCHANGED virtual_parts
          \/ \E p \in new : virtual_parts' = [virtual_parts EXCEPT ![r] = add(@, p)]

(* The thread that watches the log.  pullLogsToQueue reads the list of     *)
(* entries, then the mutations, then it copies the entries; while the      *)
(* predicate pulls, this thread waits for pull_logs_to_queue_mutex.        *)
pullLogsToQueue(r) ==
    /\ predicate[r].stage \notin {"mutations", "pull"}
    /\ log_pointer[r] < Len(log)
    /\ Pull(r)
    /\ mutations' = [mutations EXCEPT ![r] = mutation_log]
    /\ UNCHANGED <<zk, predicate>>

-----------------------------------------------------------------------------
(* The predicate.                                                          *)

To(r, p) == predicate' = [predicate EXCEPT ![r] = p]

snapshotVirtualParts(r) ==
    /\ predicate[r].stage = "idle"
    /\ To(r, [Idle EXCEPT !.stage = "committing", !.prev = virtual_parts[r]])
    /\ UNCHANGED <<zk, queue>>

(* A faulty variant: block numbers of mutations are not loaded.            *)
getCommittingInserts(r) ==
    /\ predicate[r].stage = "committing"
    /\ To(r, [predicate[r] EXCEPT !.stage = "list", !.quorum = quorum,
                                  !.committing = block_numbers.insert])
    /\ UNCHANGED <<zk, queue>>

(* The status of the quorum is asked for just before.                      *)
getCommittingBlocks(r) ==
    /\ predicate[r].stage = "committing"
    /\ To(r, [predicate[r] EXCEPT !.stage = "list", !.quorum = quorum,
                                  !.committing = block_numbers.insert \cup block_numbers.mutation])
    /\ UNCHANGED <<zk, queue>>

listLog(r) ==
    /\ predicate[r].stage = "list"
    /\ To(r, [predicate[r] EXCEPT !.stage = "mutations", !.version = version, !.listed = Len(log)])
    /\ UNCHANGED <<zk, queue>>

readMutations(r) ==
    /\ predicate[r].stage = "mutations"
    /\ mutations' = [mutations EXCEPT ![r] = mutation_log]
    /\ To(r, [predicate[r] EXCEPT !.stage = "pull"])
    /\ UNCHANGED <<zk, log_pointer, virtual_parts>>

pullListed(r) ==
    /\ predicate[r].stage = "pull"
    /\ log_pointer[r] < predicate[r].listed
    /\ Pull(r)
    /\ UNCHANGED <<zk, mutations, predicate>>

readPinnedParts(r) ==
    /\ predicate[r].stage = "pull"
    /\ log_pointer[r] >= predicate[r].listed
    /\ To(r, [predicate[r] EXCEPT !.stage = "ready", !.pinned = pinned])
    /\ UNCHANGED <<zk, queue>>

canUsePartInMerges(r, p) ==
    /\ p \notin predicate[r].pinned \cup predicate[r].quorum
    /\ getContainingPart(predicate[r].prev, p) # {}
    /\ getContainingPart(virtual_parts[r], p) = {p}

Gap(left, right) == [min |-> left.max + 1, max |-> right.min - 1, level |-> MAX_LEVEL,
                     mutation |-> MAX_BLOCK_NUMBER]

canMergeParts(r, left, right) ==
    /\ left.max + 1 < right.min =>
          /\ \A b \in predicate[r].committing : ~(left.max < b /\ b < right.min)
          /\ getPartsCoveredBy(virtual_parts[r], Gap(left, right)) = {}
    /\ SameMutationVersion(mutations[r], left, right)

(* Two neighbours; a longer range is checked pair by pair.                 *)
selectPartsToMerge(r, left, right) ==
    LET level == 1 + (IF left.level > right.level THEN left.level ELSE right.level)
    IN /\ predicate[r].stage = "ready"
       /\ left.max < right.min
       /\ level <= MaxLevel
       /\ canUsePartInMerges(r, left) /\ canUsePartInMerges(r, right)
       /\ canMergeParts(r, left, right)
       /\ To(r, [predicate[r] EXCEPT
                   !.stage = "create", !.sources = {left, right},
                   !.new = {[min |-> left.min, max |-> right.max, level |-> level,
                             mutation |-> IF left.mutation > right.mutation THEN left.mutation
                                          ELSE right.mutation]}])
       /\ UNCHANGED <<zk, queue>>

(* getExpectedMutationVersion.                                             *)
selectPartToMutate(r, p, target) ==
    /\ predicate[r].stage = "ready"
    /\ p \notin predicate[r].quorum
    /\ getContainingPart(virtual_parts[r], p) = {p}
    /\ target \in mutations[r] /\ \A v \in mutations[r] : v <= target
    /\ getDataVersion(p) < target
    /\ To(r, [predicate[r] EXCEPT !.stage = "create", !.sources = {p},
                                  !.new = {[p EXCEPT !.mutation = target]}])
    /\ UNCHANGED <<zk, queue>>

Type(p) == IF Cardinality(p.sources) = 1 THEN "MUTATE_PART" ELSE "MERGE_PARTS"

(* A faulty variant: the entry is written whatever the version is.         *)
createLogEntryUnchecked(r) ==
    /\ predicate[r].stage = "create"
    /\ version < MaxAssigned
    /\ version' = version + 1
    /\ log' = Append(log, Entry(Type(predicate[r]), predicate[r].new, predicate[r].sources))
    /\ To(r, Idle)
    /\ UNCHANGED <<next_block, block_numbers, mutation_log, quorum, pinned, queue>>

createLogEntry(r) ==
    /\ predicate[r].stage = "create"
    /\ version < MaxAssigned
    /\ version = predicate[r].version
    /\ version' = version + 1
    /\ log' = Append(log, Entry(Type(predicate[r]), predicate[r].new, predicate[r].sources))
    /\ To(r, Idle)
    /\ UNCHANGED <<next_block, block_numbers, mutation_log, quorum, pinned, queue>>

(* Nothing to merge, or a version conflict.                                *)
giveUp(r) ==
    /\ predicate[r].stage \in {"ready", "create"}
    /\ To(r, Idle)
    /\ UNCHANGED <<zk, queue>>

-----------------------------------------------------------------------------
Init ==
    /\ next_block = 0 /\ block_numbers = [insert |-> {}, mutation |-> {}]
    /\ log = <<>> /\ version = 0 /\ mutation_log = {} /\ quorum = {} /\ pinned = {}
    /\ log_pointer = [r \in Replicas |-> 0]
    /\ virtual_parts = [r \in Replicas |-> {}]
    /\ mutations = [r \in Replicas |-> {}]
    /\ predicate = [r \in Replicas |-> Idle]
    /\ \E s \in Scenarios : /\ kinds = s.kinds
                            /\ assigners \in SUBSET Replicas /\ Cardinality(assigners) = s.assigners

Committed == UNION {log[i].new : i \in DOMAIN log}

ReplicaStep(r) ==
    \/ pullLogsToQueue(r)
    \/ snapshotVirtualParts(r) \/ getCommittingBlocks(r)
    \/ listLog(r) \/ readMutations(r) \/ pullListed(r) \/ readPinnedParts(r)
    \/ \E left, right \in virtual_parts[r] : selectPartsToMerge(r, left, right)
    \/ \E p \in virtual_parts[r], v \in mutations[r] : selectPartToMutate(r, p, v)
    \/ createLogEntry(r) \/ giveUp(r)

Next ==
    /\ \/ allocateBlockNumber
       \/ \E b \in 0..MaxBlock, q \in BOOLEAN : commitPart(b, q)
       \/ \E b \in block_numbers.insert : abandonBlockNumber(b)
       \/ quorumReached
       \/ allocateMutation \/ writeMutation \/ releaseMutation
       \/ \E p \in Committed : setPinnedParts(p)
       \/ \E r \in assigners : ReplicaStep(r)
    /\ UNCHANGED fixed

Spec == Init /\ [][Next]_vars

-----------------------------------------------------------------------------
(* Properties.                                                             *)

Merges == {i \in DOMAIN log : log[i].type = "MERGE_PARTS"}

TypeOK ==
    /\ block_numbers.insert \subseteq 0..(next_block - 1)
    /\ block_numbers.mutation \cup mutation_log \subseteq 0..(next_block - 1)
    /\ \A i \in DOMAIN log : log[i].new \subseteq Infos /\ log[i].sources \subseteq Infos
    /\ \A r \in Replicas :
          /\ log_pointer[r] \in 0..Len(log)
          /\ virtual_parts[r] \subseteq Infos
          /\ predicate[r].version <= version

(* No part is ever committed in the gap of a merge, before or after it was *)
(* assigned: its rows would be lost under the merged part.                 *)
GapStaysEmpty ==
    \A i \in Merges, j \in DOMAIN log :
        log[j].type = "GET_PART" =>
            \A m \in log[i].new, p \in log[j].new :
                contains(m, p) => \E s \in log[i].sources : contains(s, p)

(* A part is the source of one merge or mutation only, whichever replicas  *)
(* assign them: the results would intersect.                               *)
AssignedOnce ==
    \A i, j \in DOMAIN log : i = j \/ log[i].sources \cap log[j].sources = {}

(* Parts merged with each other include the same mutations, those written  *)
(* after the merge as well: a mutation is applied to all rows of a part or *)
(* to none.                                                                *)
SameMutations ==
    \A i \in Merges : \A p, q \in log[i].sources : SameMutationVersion(mutation_log, p, q)

(* What a replica adds to its virtual parts never intersects them.         *)
NoIntersection ==
    \A r \in Replicas :
        /\ Pairwise(virtual_parts[r])
        /\ log_pointer[r] < Len(log) =>
              \A p \in log[log_pointer[r] + 1].new : Intersecting(virtual_parts[r], p) = {}

(* A part that is pinned, or whose quorum has not been reached, is not     *)
(* merged.                                                                 *)
HeldPartsNotMerged ==
    [][\A i \in DOMAIN log' \ DOMAIN log :
          log'[i].type = "MERGE_PARTS" => log'[i].sources \cap (pinned \cup quorum) = {}]_vars

(* The same for mutations and the quorum, as a comment of                  *)
(* getExpectedMutationVersion has it; see the README.                      *)
QuorumPartsNotMutated ==
    [][\A i \in DOMAIN log' \ DOMAIN log : log'[i].sources \cap quorum = {}]_vars
=============================================================================
