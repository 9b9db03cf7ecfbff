-------------------------- MODULE ReplicationQueue --------------------------
(***************************************************************************)
(* The replication queue of one replica (ReplicatedMergeTreeQueue).        *)
(*                                                                         *)
(* Every change of a replicated table is an entry of a log in ZooKeeper.   *)
(* A replica copies the log to its queue, in ZooKeeper and in memory, and  *)
(* executes the entries of the queue with several threads and out of       *)
(* order.  It follows three sets of parts: those it has (parts), those it  *)
(* would have if it had executed the finished entries (current_parts), and *)
(* those it will have once the queue is empty (virtual_parts).             *)
(*                                                                         *)
(* The first group of actions is the rest of the table, which writes the   *)
(* log: inserts, merges and mutations assigned by a replica that had read  *)
(* the whole log, ALTERs.  One partition; an entry is known by its place   *)
(* in the log, which is also the order of the names of its znodes.         *)
(***************************************************************************)
EXTENDS ActiveDataPartSet, Integers, SequencesExt

CONSTANTS MAX_BLOCK_NUMBER,  \* mutation version of a drop range
          Scenarios,      \* one is chosen: the kinds of changes made to the table, with the
                          \* bounds of its block numbers, of the entries of its log and
                          \* of its faults: attempts that throw, and crashes
          MaxLevel,       \* bound: level of a merged part
          MaxRunning,     \* threads that execute entries
          LateCrashes     \* may a crash come between the commit of a part and the end of its entry?

ASSUME QueueAssumption ==
    /\ \A s \in Scenarios : s.blocks \in Nat /\ s.blocks < MAX_BLOCK_NUMBER /\ s.entries \in Nat
    /\ \A s \in Scenarios : s.faults \in Nat
    /\ MaxRunning \in Nat
    /\ LateCrashes \in BOOLEAN
    /\ MAX_BLOCK_NUMBER \in Nat /\ MaxLevel \in Nat /\ MaxLevel < MAX_LEVEL

VARIABLES
    scenario,
    log,            \* /log
    mutation_log,   \* /mutations: version and ALTER of each
    committing,     \* /block_numbers: held by inserts that have not committed
    next_block,     \* the next block number
    parts,          \* Active parts of the replica, and its /parts
    znodes,         \* entries in the /queue of the replica
    log_pointer,    \* entries of the log copied to /queue
    zk_mutation_pointer,
    listed,         \* entries of the log seen by the last listing
    fresh,          \* have the mutations been read after that listing?
    finalizing,     \* tryFinalizeMutations: how far it is, the mutations it looks at, the
                    \* committing inserts and the entries of the log it has read
    queue, current_parts, virtual_parts,
    running,        \* entries that are executing: actual_new_part_name, entries they
                    \* wait for, how far they are, removed_by_other_entry
    mutations,      \* mutations_by_znode: parts_to_do, is_done
    mutation_pointer,
    alter_sequence,
    faults          \* spent of the bound

table == <<scenario, log, mutation_log, committing, next_block>>
zk    == <<znodes, log_pointer, zk_mutation_pointer>>
pull  == <<listed, fresh, finalizing>>
ram   == <<queue, current_parts, virtual_parts, mutations, mutation_pointer, alter_sequence>>
vars  == <<table, zk, parts, pull, ram, running, faults>>

-----------------------------------------------------------------------------
(* Entries of the log.                                                     *)

NoAlter == -1
Simple  == {"GET_PART", "MERGE_PARTS", "MUTATE_PART"}

Block(b) == [min |-> b, max |-> b, level |-> 0, mutation |-> 0]
FakeRange(b) == [min |-> 0, max |-> b, level |-> MAX_LEVEL, mutation |-> MAX_BLOCK_NUMBER]

Entry(type) ==
    [type |-> type, new |-> {}, sources |-> {}, parts |-> {}, range |-> {}, alter |-> NoAlter]

getDataVersion(p) == IF p.mutation # 0 THEN p.mutation ELSE p.min

(* REPLACE PARTITION has a real range; ATTACH PARTITION FROM one of a      *)
(* single block.                                                           *)
isMovePartitionOrAttachFrom(r) == r.min = r.max

DropRangeOf(e) ==
    IF e.type \in {"DROP_RANGE", "DROP_PART"} THEN e.new
    ELSE {r \in e.range : ~isMovePartitionOrAttachFrom(r)}

VirtualPartsOf(e) ==
    IF e.type = "DROP_PART" THEN {} ELSE e.new \cup e.parts \cup DropRangeOf(e)

getDropRange(n)        == DropRangeOf(log[n])
getVirtualPartNames(n) == VirtualPartsOf(log[n])

-----------------------------------------------------------------------------
(* What the table holds when the entries are executed one after another.   *)

Apply(S, e) ==
    LET kept == {p \in S : \A r \in DropRangeOf(e) : ~contains(r, p)}
    IN IF e.type \in Simple THEN addAll(S, e.new) ELSE kept \cup e.parts

Final == FoldLeft(Apply, {}, log)

-----------------------------------------------------------------------------
(* The rest of the table.                                                  *)

Write(e) == log' = Append(log, e)

(* An insert takes a block number before it writes its part.               *)
allocateBlockNumber ==
    /\ "insert" \in scenario.kinds
    /\ next_block < scenario.blocks
    /\ committing' = committing \cup {next_block}
    /\ next_block' = next_block + 1
    /\ UNCHANGED <<log, mutation_log>>

commitInsert(b) ==
    /\ Write([Entry("GET_PART") EXCEPT !.new = {Block(b)}])
    /\ committing' = committing \ {b}
    /\ UNCHANGED <<mutation_log, next_block>>

(* A version of a part the mutations up to it are applied to.              *)
VersionFor(p) ==
    LET old == {m \in DOMAIN mutation_log : mutation_log[m].version <= getDataVersion(p)}
    IN IF old = {} THEN 0 ELSE Max({mutation_log[m].version : m \in old})

(* canMergeParts for two parts next to each other.                         *)
canMergeParts(p, q) ==
    /\ \A b \in committing : ~(p.max < b /\ b < q.min)
    /\ VersionFor(p) = VersionFor(q)

assignMerge(sources) ==
    LET ordered == SetToSortSeq(sources, Less)
        first == ordered[1]
        last  == ordered[Len(ordered)]
        level == Max({p.level : p \in sources}) + 1
        new == [min |-> first.min, max |-> last.max, level |-> level,
                mutation |-> Max({p.mutation : p \in sources})]
    IN /\ level <= MaxLevel
       /\ \A i \in 1..(Len(ordered) - 1) : canMergeParts(ordered[i], ordered[i + 1])
       /\ Write([Entry("MERGE_PARTS") EXCEPT !.new = {new}, !.sources = sources])
       /\ UNCHANGED <<mutation_log, committing, next_block>>

(* Neighbours in the set of parts the table will have.                     *)
MergeCandidates ==
    LET S == Final
    IN {{s \in S : pair[1].min <= s.min /\ s.max <= pair[2].max} :
           pair \in {pq \in S \X S : pq[1].min <= pq[2].min}}

(* A mutation, or the one that belongs to an ALTER of the structure.       *)
mutate(alter) ==
    /\ "mutate" \in scenario.kinds
    /\ next_block < scenario.blocks
    /\ mutation_log' = Append(mutation_log, [version |-> next_block, alter |-> alter])
    /\ next_block' = next_block + 1
    /\ UNCHANGED <<log, committing>>

AlterVersions == {log[n].alter : n \in DOMAIN log} \ {NoAlter}

(* ALTER writes its metadata change and its mutation in one transaction.   *)
alter(withMutation) ==
    LET version == IF AlterVersions = {} THEN 1 ELSE Max(AlterVersions) + 1
    IN /\ "alter" \in scenario.kinds
       /\ Write([Entry("ALTER_METADATA") EXCEPT !.alter = version])
       /\ IF withMutation
          THEN /\ next_block < scenario.blocks
               /\ mutation_log' = Append(mutation_log, [version |-> next_block, alter |-> version])
               /\ next_block' = next_block + 1
          ELSE UNCHANGED <<mutation_log, next_block>>
       /\ UNCHANGED committing

(* getExpectedMutationVersion: no step over the mutation of an ALTER.      *)
assignMutation(p, m) ==
    LET target == mutation_log[m]
        between == {k \in DOMAIN mutation_log : /\ getDataVersion(p) < mutation_log[k].version
                                                /\ mutation_log[k].version < target.version}
    IN /\ getDataVersion(p) < target.version
       /\ \A k \in between : mutation_log[k].alter = NoAlter
       /\ Write([Entry("MUTATE_PART") EXCEPT
                      !.new = {[p EXCEPT !.mutation = target.version]},
                      !.sources = {p}, !.alter = target.alter])
       /\ UNCHANGED <<mutation_log, committing, next_block>>

(* DROP PARTITION skips a block number, drops everything below it and      *)
(* cancels the inserts that hold a smaller one.                            *)
dropPartition ==
    /\ "drop_range" \in scenario.kinds
    /\ 0 < next_block /\ next_block < scenario.blocks
    /\ Write([Entry("DROP_RANGE") EXCEPT !.new = {FakeRange(next_block - 1)}])
    /\ committing' = {}
    /\ next_block' = next_block + 1
    /\ UNCHANGED mutation_log

replacePartition ==
    /\ "replace" \in scenario.kinds
    /\ 0 < next_block /\ next_block + 1 < scenario.blocks
    /\ Write([Entry("REPLACE_RANGE") EXCEPT !.range = {FakeRange(next_block)},
                                              !.parts = {Block(next_block + 1)}])
    /\ committing' = {}
    /\ next_block' = next_block + 2
    /\ UNCHANGED mutation_log

attachPartition(count) ==
    /\ "attach" \in scenario.kinds
    /\ next_block + count <= scenario.blocks
    /\ Write([Entry("REPLACE_RANGE") EXCEPT
                    !.range = {FakeRange(0)},
                    !.parts = {Block(b) : b \in next_block..(next_block + count - 1)}])
    /\ next_block' = next_block + count
    /\ UNCHANGED <<mutation_log, committing>>

dropPart(p) ==
    /\ Write([Entry("DROP_PART") EXCEPT !.new = {p}])
    /\ UNCHANGED <<mutation_log, committing, next_block>>

TableStep ==
    /\ \/ allocateBlockNumber
       \/ mutate(NoAlter)
       \/ /\ Len(log) < scenario.entries
          /\ \/ \E b \in committing : commitInsert(b)
             \/ "merge" \in scenario.kinds /\ \E s \in MergeCandidates : assignMerge(s)
             \/ \E b \in BOOLEAN : alter(b)
             \/ \E m \in DOMAIN mutation_log, p \in Final : assignMutation(p, m)
             \/ dropPartition
             \/ replacePartition
             \/ \E count \in 1..scenario.blocks : attachPartition(count)
             \/ "drop_part" \in scenario.kinds /\ \E p \in Final : dropPart(p)
    /\ UNCHANGED <<scenario, zk, parts, pull, ram, running, faults>>

-----------------------------------------------------------------------------
(* ReplicatedMergeTreeAltersSequence.                                      *)

With(f, x, e) == [y \in DOMAIN f \cup {x} |-> IF y = x THEN e ELSE f[y]]
Without(f, x) == [y \in DOMAIN f \ {x} |-> f[y]]

getHeadAlterVersion(seq) == Min(DOMAIN seq)

addMutationForAlter(seq, v) ==
    IF v \in DOMAIN seq THEN [seq EXCEPT ![v].data_finished = FALSE]
    ELSE With(seq, v, [metadata_finished |-> TRUE, data_finished |-> FALSE])

addMetadataAlter(seq, v) ==
    IF v \in DOMAIN seq THEN [seq EXCEPT ![v].metadata_finished = FALSE]
    ELSE With(seq, v, [metadata_finished |-> FALSE, data_finished |-> TRUE])

finishMetadataAlter(seq, v) ==
    IF seq[v].data_finished THEN Without(seq, v)
    ELSE [seq EXCEPT ![v].metadata_finished = TRUE]

(* A version that should be there and is not gets a fresh state, in which  *)
(* nothing is finished, as operator[] of the map makes it.                 *)
finishDataAlter(seq, v) ==
    IF \A h \in DOMAIN seq : v < h THEN seq
    ELSE IF v \in DOMAIN seq /\ seq[v].metadata_finished THEN Without(seq, v)
    ELSE With(seq, v, [metadata_finished |-> FALSE, data_finished |-> TRUE])

canExecuteDataAlter(v) ==
    (\E h \in DOMAIN alter_sequence : h <= v) =>
        v \in DOMAIN alter_sequence /\ alter_sequence[v].metadata_finished

(* A faulty variant: any ALTER may change the metadata. *)
canExecuteMetaAlterAny(v) == v \in DOMAIN alter_sequence

canExecuteMetaAlter(v) == getHeadAlterVersion(alter_sequence) = v

-----------------------------------------------------------------------------
(* The state kept for mutations.                                           *)

Version(m) == mutation_log[m].version

(* A faulty variant: what the entries of the queue bring is left out.      *)
PartsToMutateNow(m, current, entries) ==
    {p \in current : p.max < Version(m) /\ getDataVersion(p) < Version(m)}

(* getPartNamesToMutate: the parts older than the mutation that the        *)
(* replica has or will get from the entries of its queue.                  *)
PartsToMutate(m, current, entries) ==
    LET older(S) == {p \in S : getDataVersion(p) < Version(m)}
        covering == [min |-> 0, max |-> Version(m), level |-> MAX_LEVEL,
                     mutation |-> MAX_BLOCK_NUMBER]
        produced == UNION {log[n].parts \cup (IF log[n].type \in Simple THEN log[n].new ELSE {}) :
                              n \in entries}
        dropped  == UNION {getDropRange(n) : n \in entries}
        kept == FoldSet(LAMBDA r, S : removePartAndCoveredParts(S, r),
                        older(getPartsCoveredBy(current, covering)), dropped)
    IN addAll(kept, older(produced))

addPartsToMutations(muts, new) ==
    [m \in DOMAIN muts |-> [muts[m] EXCEPT !.todo =
        addAll(@, {p \in new : ~isFakeDropRangePart(p) /\ getDataVersion(p) < Version(m)})]]

(* For each of the parts gone, what it covers and, for those of self, the  *)
(* part as well.                                                           *)
removeCoveredPartsFromMutations(muts, gone, self) ==
    [m \in DOMAIN muts |-> [muts[m] EXCEPT !.todo =
        FoldSet(LAMBDA p, S : removePartsCoveredBy(S, p) \ ({p} \cap self), @, gone)]]

-----------------------------------------------------------------------------
(* From the log to the queue.                                              *)

(* The list of entries is read first and the mutations after it, so that   *)
(* no entry is taken whose mutation is not known.                          *)
listLog ==
    /\ listed < Len(log)
    /\ listed' = Len(log)
    /\ fresh' = FALSE
    /\ UNCHANGED <<table, zk, parts, finalizing, ram, running, faults>>

LoadMutations(loaded, current, entries) ==
    [m \in DOMAIN mutation_log |->
        IF m \in DOMAIN loaded THEN loaded[m]
        ELSE [todo |-> PartsToMutate(m, current, entries), done |-> FALSE]]

AddAlters(seq, ms) ==
    LET new == {mutation_log[m].alter : m \in ms} \ {NoAlter}
    IN [v \in DOMAIN seq \cup new |->
           IF v \in new THEN addMutationForAlter(seq, v)[v] ELSE seq[v]]

updateMutations ==
    LET new == DOMAIN mutation_log \ DOMAIN mutations
    IN /\ new # {} \/ ~fresh
       /\ mutations' = LoadMutations(mutations, current_parts, queue)
       /\ alter_sequence' = AddAlters(alter_sequence, {m \in new : m > mutation_pointer})
       /\ fresh' = TRUE
       /\ UNCHANGED <<table, zk, parts, listed, finalizing, queue, current_parts, virtual_parts,
                      mutation_pointer, running, faults>>

InsertVirtual(S, n) ==
    IF log[n].type = "DROP_PART"
    THEN FoldSet(LAMBDA p, T : removePartAndCoveredParts(T, p), S, log[n].new)
    ELSE addAll(S, getVirtualPartNames(n))

InsertMutations(muts, n) ==
    IF log[n].type = "DROP_PART"
    THEN removeCoveredPartsFromMutations(muts, log[n].new, log[n].new)
    ELSE addPartsToMutations(muts, getVirtualPartNames(n))

InsertAlter(seq, n) ==
    IF log[n].type = "ALTER_METADATA" THEN addMetadataAlter(seq, log[n].alter) ELSE seq

LoadAlters(entries) ==
    [v \in {log[n].alter : n \in {k \in entries : log[k].type = "ALTER_METADATA"}} |->
        addMetadataAlter(<<>>, v)[v]]

(* One transaction copies the entry to /queue and moves the pointer, then  *)
(* insertUnlocked puts it into memory.                                     *)
pullLogsToQueue ==
    LET n == log_pointer + 1
    IN /\ fresh
       /\ n <= listed
       /\ znodes' = znodes \cup {n}
       /\ log_pointer' = n
       /\ queue' = queue \cup {n}
       /\ virtual_parts' = InsertVirtual(virtual_parts, n)
       /\ mutations' = InsertMutations(mutations, n)
       /\ alter_sequence' = InsertAlter(alter_sequence, n)
       /\ UNCHANGED <<table, zk_mutation_pointer, parts, pull, current_parts, mutation_pointer,
                      running, faults>>

-----------------------------------------------------------------------------
(* Which entry may be executed.                                            *)

Executing == DOMAIN running

FuturePartsOf(n) == getVirtualPartNames(n) \cup running[n].actual
future_parts     == UNION {FuturePartsOf(n) : n \in Executing}

currently_executing_drop_replace_ranges == UNION {getDropRange(n) : n \in Executing}
drop_parts == UNION {log[n].new : n \in {k \in queue : log[k].type = "DROP_PART"}}

(* Does the entry that produces f keep p from being produced?              *)
Blocks(f, p) ==
    f = p \/ (~isDisjoint(f, p) /\ ~(isFakeDropRangePart(p) /\ contains(p, f)))

isCoveredByFutureParts(p) == \E f \in future_parts : Blocks(f, p)

(* A faulty variant: only parts that the dropped one contains wait for it. *)
isContainedInDropPart(p) == \E r \in drop_parts : contains(r, p)

isAffectedByDropPart(p) == \E r \in drop_parts : ~isDisjoint(r, p)

isGoingToBeDropped(p) ==
    \/ \E v \in getContainingPart(virtual_parts, p) : isFakeDropRangePart(v)
    \/ \E r \in drop_parts : contains(r, p)

shouldExecuteLogEntry(n) ==
    LET e == log[n]
    IN /\ \A p \in getVirtualPartNames(n) : ~isCoveredByFutureParts(p)
       /\ e.type \notin {"DROP_RANGE", "DROP_PART"} =>
             \A p \in e.new : ~isAffectedByDropPart(p) /\ ~isGoingToBeDropped(p)
       /\ e.sources \cap future_parts = {}
       /\ e.type = "ALTER_METADATA" => canExecuteMetaAlter(e.alter)
       /\ e.type = "MUTATE_PART" /\ e.alter # NoAlter => canExecuteDataAlter(e.alter)
       /\ \A r \in getDropRange(n) : \A x \in currently_executing_drop_replace_ranges :
             isDisjoint(r, x)
       /\ e.type = "DROP_PART" =>
             \A k \in queue : \A p \in log[k].parts, r \in e.new : isDisjoint(p, r)

(* The list is searched from its head, but an entry may also be put aside  *)
(* for the size of its parts, a full pool or a recent failure: any entry   *)
(* that may be executed can be the next one.                               *)
selectEntryToProcess(n) ==
    /\ n \notin Executing
    /\ Cardinality(Executing) < MaxRunning
    /\ shouldExecuteLogEntry(n)
    /\ running' = With(running, n, [actual |-> {}, waits |-> {}, stage |-> "selected",
                                    removed_by_other |-> FALSE])
    /\ UNCHANGED <<table, zk, parts, pull, ram, faults>>

-----------------------------------------------------------------------------
(* The execution of an entry.                                              *)

Ready(n, stage) == running[n].stage = stage /\ running[n].waits \cap Executing = {}

(* Parts that other replicas may have.                                     *)
RemoteParts == UNION {log[n].parts \cup (IF log[n].type \in Simple THEN log[n].new ELSE {}) :
                         n \in DOMAIN log}

(* A faulty variant: entries wait for each other in any order. *)
MayWaitForAny(n, others) == TRUE

(* An entry never waits for a newer one.                                   *)
MayWaitFor(n, others) == \A k \in others : k <= n

(* addFuturePartIfNotCoveredByThem: another replica offers a part that     *)
(* covers the wanted one.  Older entries are waited for, newer ones win.   *)
addFuturePartIfNotCoveredByThem(n, t) ==
    LET others == {k \in Executing : \E f \in FuturePartsOf(k) : Blocks(f, t)}
    IN /\ Ready(n, "selected")
       /\ log[n].type \in Simple => running[n].actual = {}
       /\ t \in RemoteParts
       /\ \E p \in log[n].parts \cup log[n].new : contains(t, p) /\ p # t
       /\ getContainingPart(virtual_parts, t) # {}
       /\ ~isAffectedByDropPart(t)
       /\ t \notin future_parts
       /\ MayWaitFor(n, others)
       /\ running' = [running EXCEPT ![n].actual = @ \cup {t}, ![n].waits = others \ {n}]
       /\ UNCHANGED <<table, zk, parts, pull, ram, faults>>

(* The part is merged, mutated or fetched, unless it or one that covers it *)
(* is there already.                                                       *)
executeLogEntry(n) ==
    /\ log[n].type \in Simple
    /\ Ready(n, "selected")
    /\ parts' = addAll(parts, IF running[n].actual = {} THEN log[n].new ELSE running[n].actual)
    /\ running' = [running EXCEPT ![n].stage = "done"]
    /\ UNCHANGED <<table, zk, pull, ram, faults>>

executeMetadataAlter(n) ==
    /\ log[n].type = "ALTER_METADATA"
    /\ Ready(n, "selected")
    /\ running' = [running EXCEPT ![n].stage = "done"]
    /\ UNCHANGED <<table, zk, parts, pull, ram, faults>>

checkReplaceRangeCanBeRemoved(k, n, r) ==
    /\ k # n
    /\ \E x \in log[k].range : contains(r, x)
    /\ \A p \in log[k].parts : contains(r, p)

(* A faulty variant: entries that are executing are not looked at.         *)
ProducingOpsNotExecuting(n, r) ==
    {k \in queue \ Executing :
        \/ log[k].type \in Simple /\ \E p \in log[k].new : contains(r, p)
        \/ log[k].type = "REPLACE_RANGE" /\ checkReplaceRangeCanBeRemoved(k, n, r)}

ProducingOpsInRange(n, r) ==
    {k \in queue : \/ log[k].type \in Simple /\ \E p \in log[k].new : contains(r, p)
                   \/ log[k].type = "REPLACE_RANGE" /\ checkReplaceRangeCanBeRemoved(k, n, r)}

(* updateStateOnQueueEntryRemoval of entries that will not be executed.    *)
RemoveUnsuccessful(muts, gone) ==
    [m \in DOMAIN muts |->
        [muts[m] EXCEPT !.todo = @ \ UNION {getVirtualPartNames(k) : k \in gone}]]

removePartProducingOpsInRange(n) ==
    LET gone == UNION {ProducingOpsInRange(n, r) : r \in getDropRange(n)}
    IN /\ getDropRange(n) # {}
       /\ Ready(n, "selected")
       /\ queue' = queue \ gone
       /\ znodes' = znodes \ gone
       /\ virtual_parts' = virtual_parts \ UNION {getVirtualPartNames(k) : k \in gone}
       /\ mutations' = RemoveUnsuccessful(mutations, gone)
       /\ running' = [k \in Executing |->
              IF k = n THEN [running[k] EXCEPT !.stage = "removing", !.waits = gone \cap Executing]
              ELSE [running[k] EXCEPT !.removed_by_other = @ \/ k \in gone]]
       /\ UNCHANGED <<table, log_pointer, zk_mutation_pointer, parts, pull, current_parts,
                      mutation_pointer, alter_sequence, faults>>

(* grabActivePartsToRemoveForDropRange.                                    *)
isDropPart(r) == ~isFakeDropRangePart(r) /\ r.min # 0

Skipped(r) ==
    /\ isDropPart(r)
    /\ \E p \in parts : ~SameBlocks(p, r) /\ p.min <= r.min /\ p.max >= r.max

Crossing(r) == {p \in parts : ~isDisjoint(p, r) /\ ~(r.min <= p.min /\ p.max <= r.max)}

Grabbed(r) == IF Skipped(r) THEN {} ELSE {p \in parts : r.min <= p.min /\ p.max <= r.max}

executeDropRange(n) ==
    /\ log[n].type \in {"DROP_RANGE", "DROP_PART"}
    /\ Ready(n, "removing")
    /\ parts' = parts \ UNION {Grabbed(r) : r \in log[n].new}
    /\ running' = [running EXCEPT ![n].stage = "done"]
    /\ UNCHANGED <<table, zk, pull, ram, faults>>

(* For each new part a part that covers it may have been fetched.          *)
executeReplaceRange(n) ==
    LET actual == running[n].actual
        wanted == actual \cup {p \in log[n].parts : \A t \in actual : ~contains(t, p)}
    IN /\ log[n].type = "REPLACE_RANGE"
       /\ Ready(n, IF getDropRange(n) = {} THEN "selected" ELSE "removing")
       /\ parts' = addAll(parts \ UNION {Grabbed(r) : r \in getDropRange(n)}, wanted)
       /\ running' = [running EXCEPT ![n].stage = "done"]
       /\ UNCHANGED <<table, zk, pull, ram, faults>>

(* An exception before the end, but not while others are waited for: the   *)
(* entry stays in the queue.                                               *)
executionThrows(n) ==
    /\ faults < scenario.faults
    /\ Ready(n, "selected") \/ Ready(n, "removing")
    /\ faults' = faults + 1
    /\ running' = Without(running, n)
    /\ UNCHANGED <<table, zk, parts, pull, ram>>

-----------------------------------------------------------------------------
(* The end of an execution.                                                *)

(* A part that current_parts did not take is obsolete: nothing is to be    *)
(* mutated for it.                                                         *)
SuccessMutations(muts, n) ==
    LET new == getVirtualPartNames(n)
    IN removeCoveredPartsFromMutations(
           removeCoveredPartsFromMutations(muts, running[n].actual, {}),
           new, {p \in new : ~Added(current_parts, p)})

(* updateStateOnQueueEntryRemoval of an executed entry.                    *)
removeProcessedEntry(n) ==
    LET e == log[n]
        added == addAll(current_parts, getVirtualPartNames(n))
    IN /\ running[n].stage = "done"
       /\ ~running[n].removed_by_other
       /\ queue' = queue \ {n}
       /\ mutations' = SuccessMutations(mutations, n)
       /\ IF e.type = "DROP_PART"
          THEN /\ current_parts' = FoldSet(LAMBDA p, S : removePartAndCoveredParts(S, p),
                                           added, e.new)
               /\ UNCHANGED virtual_parts
          ELSE /\ current_parts' = added \ getDropRange(n)
               /\ virtual_parts' = virtual_parts \ getDropRange(n)
       /\ alter_sequence' = IF e.type = "ALTER_METADATA"
                            THEN finishMetadataAlter(alter_sequence, e.alter)
                            ELSE alter_sequence
       /\ running' = [running EXCEPT ![n].stage = "removed"]
       /\ UNCHANGED <<table, zk, parts, pull, mutation_pointer, faults>>

(* The znode goes after the entry in memory, and the entry is untagged.    *)
entryExecuted(n) ==
    /\ \/ running[n].stage = "removed"
       \/ running[n].stage = "done" /\ running[n].removed_by_other
    /\ znodes' = znodes \ {n}
    /\ running' = Without(running, n)
    /\ UNCHANGED <<table, log_pointer, zk_mutation_pointer, parts, pull, ram, faults>>

(* tryFinalizeMutations.  A mutation without parts is done once no insert  *)
(* holds a smaller block number and what has been committed meanwhile is   *)
(* in the queue: the inserts are read before the log is pulled, and the    *)
(* parts are looked at after it.  One the pointer jumped over is done too. *)
Idle == [stage |-> "idle", candidates |-> {}, blocks |-> {}, upto |-> 0]

Jumped     == {m \in DOMAIN mutations : ~mutations[m].done /\ m <= mutation_pointer}
Candidates == {m \in DOMAIN mutations :
                  ~mutations[m].done /\ m > mutation_pointer /\ mutations[m].todo = {}}

(* The mutations are visited in their order.                               *)
finishDataAlters(ms) ==
    LET seq[m \in 0..Len(mutation_log)] ==
            IF m = 0 THEN alter_sequence
            ELSE IF m \in ms THEN finishDataAlter(seq[m - 1], mutation_log[m].alter)
            ELSE seq[m - 1]
    IN seq[Len(mutation_log)]

collectCandidates ==
    /\ finalizing = Idle
    /\ Jumped \cup Candidates # {}
    /\ mutations' = [m \in DOMAIN mutations |->
           IF m \in Jumped THEN [todo |-> {}, done |-> TRUE] ELSE mutations[m]]
    /\ alter_sequence' = finishDataAlters(Jumped)
    /\ finalizing' = IF Candidates = {} THEN Idle
                     ELSE [Idle EXCEPT !.stage = "collected", !.candidates = Candidates]
    /\ UNCHANGED <<table, zk, parts, listed, fresh, queue, current_parts, virtual_parts,
                   mutation_pointer, running, faults>>

(* The merge predicate reads the committing inserts and then starts to     *)
(* pull: that it has the log of the moment it read them is all it counts   *)
(* on.                                                                     *)
readCommittingBlocks ==
    /\ finalizing.stage = "collected"
    /\ finalizing' = [finalizing EXCEPT !.stage = "pulling", !.blocks = committing, !.upto = Len(log)]
    /\ UNCHANGED <<table, zk, parts, listed, fresh, ram, running, faults>>

isMutationFinished(m) ==
    /\ \A b \in finalizing.blocks : b >= Version(m)
    /\ mutations[m].todo = {}

checkCandidates ==
    LET finished == {m \in finalizing.candidates : isMutationFinished(m)}
    IN /\ finalizing.stage = "pulling"
       /\ log_pointer >= finalizing.upto
       /\ zk_mutation_pointer' = Max(finished \cup {zk_mutation_pointer})
       /\ finalizing' = IF finished = {} THEN Idle
                        ELSE [finalizing EXCEPT !.stage = "finished", !.candidates = finished]
       /\ UNCHANGED <<table, znodes, log_pointer, parts, listed, fresh, ram, running, faults>>

finishMutations ==
    /\ finalizing.stage = "finished"
    /\ mutation_pointer' = Max(finalizing.candidates)
    /\ mutations' = [m \in DOMAIN mutations |->
           [mutations[m] EXCEPT !.done = @ \/ m \in finalizing.candidates]]
    /\ alter_sequence' = finishDataAlters(finalizing.candidates)
    /\ finalizing' = Idle
    /\ UNCHANGED <<table, zk, parts, listed, fresh, queue, current_parts, virtual_parts,
                   running, faults>>

tryFinalizeMutations ==
    \/ collectCandidates
    \/ readCommittingBlocks
    \/ checkCandidates
    \/ finishMutations

-----------------------------------------------------------------------------
(* A crash, then initialize, load and the mutations of the first pull.     *)

(* The parts of the entry are there and its znode is, too.                 *)
PartlyDone(n) ==
    \/ getVirtualPartNames(n) \cap parts # {}
    \/ n \in Executing /\ running[n].stage \in {"done", "removed"}

restart ==
    LET ids == SetToSortSeq(znodes, <)
        ms  == {m \in DOMAIN mutation_log : m > zk_mutation_pointer}
    IN /\ faults < scenario.faults
       /\ ~LateCrashes => \A n \in znodes : ~PartlyDone(n)
       /\ faults' = faults + 1
       /\ running' = <<>>
       /\ queue' = znodes
       /\ current_parts' = parts
       /\ virtual_parts' = FoldLeft(InsertVirtual, parts, ids)
       /\ mutations' = LoadMutations(<<>>, parts, znodes)
       /\ alter_sequence' = AddAlters(LoadAlters(znodes), ms)
       /\ mutation_pointer' = zk_mutation_pointer
       /\ listed' = log_pointer
       /\ fresh' = FALSE
       /\ finalizing' = Idle
       /\ UNCHANGED <<table, zk, parts>>

-----------------------------------------------------------------------------
Init ==
    /\ scenario \in Scenarios
    /\ log = <<>> /\ mutation_log = <<>> /\ committing = {} /\ next_block = 0
    /\ parts = {} /\ znodes = {} /\ log_pointer = 0 /\ zk_mutation_pointer = 0
    /\ listed = 0 /\ fresh = TRUE /\ finalizing = Idle
    /\ queue = {} /\ current_parts = {} /\ virtual_parts = {}
    /\ running = <<>> /\ mutations = <<>> /\ mutation_pointer = 0 /\ alter_sequence = <<>>
    /\ faults = 0

executeStep(n) ==
    \/ \E t \in RemoteParts : addFuturePartIfNotCoveredByThem(n, t)
    \/ executeLogEntry(n)
    \/ executeMetadataAlter(n)
    \/ removePartProducingOpsInRange(n)
    \/ executeDropRange(n)
    \/ executeReplaceRange(n)
    \/ executionThrows(n)
    \/ removeProcessedEntry(n)
    \/ entryExecuted(n)

Next ==
    \/ TableStep
    \/ listLog
    \/ updateMutations
    \/ pullLogsToQueue
    \/ \E n \in queue : selectEntryToProcess(n)
    \/ \E n \in Executing : executeStep(n)
    \/ tryFinalizeMutations
    \/ restart

Spec == Init /\ [][Next]_vars

-----------------------------------------------------------------------------
(* Properties.                                                             *)

Infos == [min : 0..scenario.blocks, max : 0..scenario.blocks,
          level : 0..MaxLevel \cup {MAX_LEVEL}, mutation : 0..scenario.blocks \cup {MAX_BLOCK_NUMBER}]

TypeOK ==
    /\ log_pointer \in 0..Len(log) /\ listed \in 0..Len(log)
    /\ znodes \subseteq 1..log_pointer /\ queue \subseteq 1..log_pointer
    /\ parts \subseteq Infos /\ current_parts \subseteq Infos /\ virtual_parts \subseteq Infos
    /\ DOMAIN running \subseteq 1..log_pointer
    /\ DOMAIN mutations \subseteq DOMAIN mutation_log
    /\ \A m \in DOMAIN mutations : mutations[m].todo \subseteq Infos

(* No part ever intersects another in any of the sets, in whatever order   *)
(* the entries are executed: "Part ... intersects ..." is never thrown,    *)
(* and a drop range never cuts a part.                                     *)
NoIntersection ==
    /\ Pairwise(parts) /\ Pairwise(current_parts) /\ Pairwise(virtual_parts)
    /\ \A n \in Executing : running[n].stage = "removing" =>
          \A r \in getDropRange(n) : Skipped(r) \/ Crossing(r) = {}

Quiescent == log_pointer = Len(log) /\ queue = {} /\ Executing = {}

(* With nothing left to do the replica has exactly the parts the log       *)
(* gives when it is executed in its order: replicas do not diverge.        *)
Converged == Quiescent => parts = Final /\ current_parts = Final /\ virtual_parts = Final

(* An ALTER is executed after those before it, its data change after its   *)
(* metadata change: the assertions of the alter sequence hold.             *)
AltersInOrder ==
    /\ \A v \in DOMAIN alter_sequence :
          \/ ~alter_sequence[v].data_finished
          \/ \E n \in queue : log[n].type = "ALTER_METADATA" /\ log[n].alter = v
    /\ \A n \in queue :
        LET v == log[n].alter
            seq == DOMAIN alter_sequence
        IN /\ log[n].type = "ALTER_METADATA" =>
                 /\ v \in seq /\ ~alter_sequence[v].metadata_finished
                 /\ n \in Executing => v = getHeadAlterVersion(alter_sequence)
           /\ log[n].type = "MUTATE_PART" /\ v # NoAlter =>
                 v \in seq \/ \A h \in seq : v < h

(* A mutation that is reported done has nothing left to change: no part    *)
(* that the replica has, that its queue still brings or that the rest of   *)
(* the log gives is older than it, but for those an entry of the queue     *)
(* will drop and those a part of the replica has replaced already.         *)
ReportedDone == {m \in DOMAIN mutation_log :
    m <= zk_mutation_pointer \/ (m \in DOMAIN mutations /\ mutations[m].done)}

Produced(n) == log[n].parts \cup (IF log[n].type \in Simple THEN log[n].new ELSE {})

GoesAway(p) ==
    \/ \E n \in queue : \E r \in getDropRange(n) : contains(r, p)
    \/ \E q \in parts \ {p} : contains(q, p)

MutationDoneIsDone ==
    \A m \in ReportedDone : \A p \in Final \cup parts \cup UNION {Produced(n) : n \in queue} :
        p.min < Version(m) /\ getDataVersion(p) < Version(m) => GoesAway(p)

(* The queue never gets stuck: some entry can be executed, one that is     *)
(* executing can go on, or all that is left are ALTERs behind one whose    *)
(* mutation is not done.                                                   *)
MutationAwaited ==
    /\ DOMAIN alter_sequence # {}
    /\ LET head == getHeadAlterVersion(alter_sequence)
       IN /\ alter_sequence[head].metadata_finished
          /\ \A n \in queue : log[n].alter > head

NeverStuck ==
    queue # {} \/ Executing # {} =>
        \/ \E n \in Executing : running[n].waits \cap Executing = {}
        \/ \E n \in queue \ Executing : shouldExecuteLogEntry(n)
        \/ MutationAwaited
=============================================================================
