# Verification of the MergeTree storage engine

TLA+ specifications of the MergeTree sources under `src/raw/MergeTree`, the TLC
configurations that check them on small instances, and TLAPS proofs of the
properties that matter most. Paths below are relative to `src/raw/MergeTree`.

## 1. The system

A MergeTree table is a set of immutable *data parts*. Each is a directory on
disk and an object in memory; its identity (`MergeTreePartInfo`) is the range
of block numbers it was built from, a level (how many merges it went through)
and a mutation version. An insert adds a part of one new block; a merge replaces
neighbouring parts by one that covers them; a drop covers parts with empty ones;
replaced parts stay until no query uses them and a cleanup thread removes their
directories. There is no log: after a crash the table is what the directories
say, with each part that another one covers taken as outdated. Most of the
engine's correctness is therefore about the *order* in which directories appear
and disappear while inserts, merges, drops, moves, queries and cleaners
interleave.

A replicated table adds a log in ZooKeeper. Every change is an entry of it; each
replica copies the log to its queue and executes the entries with several
threads, out of order, and any replica may write merges and mutations to the log.
What keeps replicas equal is again a matter of order: of what is read from
ZooKeeper one node after another, and of which entries wait for which.

A query takes the Active parts, leaves out marks by means of the primary and skip
indexes, and reads the rest, perhaps with several replicas among which a
coordinator divides the marks.

The storage classes `StorageMergeTree` and `StorageReplicatedMergeTree` are not
in the repository. What the sources need of them is modelled from how they are
used and marked external.

### Inventory

| Component | State | Operations | Interacts with |
|---|---|---|---|
| Part identity (`MergeTreePartInfo`) | none | `contains`, `isDisjoint`, order | everything |
| Working set (`MergeTreeData`) | `data_parts_indexes`, counters, unloaded outdated parts | add, commit, rollback, grab, remove, load | `data_parts_mutex`, `grab_old_parts_mutex`, disk |
| Part directories (`DataPartStorageOnDiskBase`) | directories | rename, remove (through a `delete_tmp_` name) | working set, restart |
| Insert (`MergeTreeSink`) | delayed chunk | `commitPart` | block counter, deduplication log, working set |
| Merge of a plain table (`MergePlainMergeTreeTask`, `FutureMergedMutatedPart`, `MergeTreeMergePredicate`) | tagged parts | select, execute, commit, cancel | working set, background pool |
| Cleanup thread | timers | `clearOldPartsFromFilesystem`, `clearEmptyParts` | working set |
| Deduplication log (`MergeTreeDeduplicationLog`) | FIFO map of block ids, log files | `addPart`, `dropPart`, rotate, load, change of window | insert, drop, restart |
| Mutations (`MutatePlainMergeTreeTask`, `MutateTask`) | mutation entries | select, execute, commit | working set, merges |
| Background executor | pending and active tasks | schedule, run a step, remove a storage's tasks, shut down | merges, mutations, moves |
| Parts mover (`MergeTreePartsMover`) | parts being moved | select, clone, rename, swap | working set, policy |
| Active part set, drop ranges | set of names | add, covering part, remove | replication queue |
| Replication queue | log entries, virtual and current parts, mutations | pull log, select, execute, remove, finalize mutations | ZooKeeper, merges |
| Alter sequence of a replica | versions with two flags | add, finish metadata, finish data | replication queue |
| Replicated merge predicates | what was read of ZooKeeper | can merge, desired mutation version | log, block numbers, quorum, pinned parts |
| Replicated insert (`ReplicatedMergeTreeSink`) | block number locks, quorum | commit part with retries | ZooKeeper, working set |
| Replica maintenance (restarting, part check, cleanup threads) | session, parts to check | restart, check, fetch, clean up | ZooKeeper, insert |
| Reading (`MergeTreeDataSelectExecutor`, read pools) | snapshot of parts, mark ranges | select parts and marks, hand out tasks | working set |
| Parallel replicas (`ParallelReplicasReadingCoordinator`, its read pools) | unassigned ranges, queues per replica, buffers | announce, request, steal, finish | reading |
| Key conditions, skip indexes (`KeyCondition`, `MergeTreeIndex*`) | none | evaluate a condition on ranges and granules | reading |
| Merge selectors | none | score ranges of parts | merges |
| Patch parts, alter conversions, part formats, settings | column data, text | encode, decode, apply | reading, writing |

What is hard: the working set is changed by many threads, but a rename or a
removal of a directory happens outside its lock; a Transaction looks at the
working set twice, when it adds a part and when it commits; a crash may come
between any two directory operations; removals and renames may throw; outdated
parts load in the background after a restart while everything else runs again.
Between replicas, ZooKeeper gives no snapshot of several nodes, a lost connection
leaves open whether a request was applied, and entries run out of order. For a
query, an index may only err on one side, and negation swaps the sides.

What makes each component correct: Active parts are disjoint and cover what
their sources covered; nothing in use is removed; a restart shows the same rows;
every obsolete directory goes away; the deduplication log refuses exactly the
blocks whose rows are in the table; a task of a dropped storage never runs
again; replicas that have executed the same log have the same parts; no row
commits in the gap of a merge; an acknowledged insert is stored, once; every mark
of a query is read once; no mark with a matching row is skipped.

The hazards found in the code, each at its line with the properties about it, are
in `PROJECT.json`.

## 2. Modules

| Module | Contents |
|---|---|
| `PartInfo` | identity of a part; the walk of `getPartHierarchy` |
| `DataParts` | working set, transactions, merges, drops, queries, cleaners, crash and restart |
| `TableContents` | abstract specification: a table is a set of batches of rows |
| `MovingParts` | the parts mover among inserts, merges, mutations, drops, queries, cleanup and a crash |
| `DedupLog` | deduplication log: map, files, inserts, drops, changes of the window, restarts |
| `BackgroundExecutor` | the pool of background tasks and the assignee of each table |
| `ActiveDataPartSet` | the ordered set of parts that the replicated modules use |
| `ReplicationQueue` | the queue of one replica with its mutations and ALTERs, and the table that writes the log |
| `MergeAssignment` | how replicas decide that parts may be merged or mutated |
| `ReplicatedInsert` | inserts with lost connections, retries and a quorum; restarting and part check threads |
| `ParallelReading` | the coordinators of parallel replicas and the read pools they feed |
| `BoolMask`, `KeyCondition` | what a condition can be on a range of keys |
| `MarkSearch` | `markRangesFromPKRange`: exclusion search and bisection |
| `MarkSelection` | the index analysis of a query on one part, composed of the last three |
| `MC*` | root modules of the TLC runs |
| `PartInfoProofs`, `DataPartsProofs`, `MovingPartsProofs`, `BackgroundExecutorProofs`, `ReplicationQueueProofs`, `MergeAssignmentProofs`, `InsertProofs`, `ReadingProofs` | theorems; those on `ActiveDataPartSet` are in `MergeAssignmentProofs`, those on `DedupLog` and `ReplicatedInsert` in `InsertProofs`, those on `BoolMask`, `MarkSearch` and `ParallelReading` in `ReadingProofs` |

A definition called a faulty variant is used by no specification: each is the
model of a plausible mistake in the definition after it, which the property in
question has to find.

### PartInfo

`contains`, `isDisjoint` and `Less` are the methods of `MergeTreePartInfo`.
Parts of different partitions never interact, so one partition is modelled.
`getPartHierarchy` does not look at all parts: from the place where a part
belongs in the sorted set it walks left and right over parts that it contains
and stops at the first one that it does not. `LeftRun`, `RightRun` and `Stops`
are those walks; `CoveredParts`, `CoveringParts` and `IntersectedParts` are its
results. Keeping the walk, instead of "all parts that p contains", matters: on
Active parts the two agree (theorem `WalkComplete`), on Outdated ones they do
not (see the variations).

### DataParts

| Variable | Code |
|---|---|
| `state`, `rows` | `data_parts_indexes` with the state of each part; the batches of rows it holds (`rows_count = 0` is `{}`) |
| `activeCount` | `total_active_size_parts` |
| `unloaded` | `outdated_unloaded_data_parts` |
| `increment` | the block number counter |
| `op` | per writer: the merge or drop it runs, with its `Transaction` (`precommitted_parts`, `precommitted_parts_need_rename`) and tagged sources |
| `snapshot` | per query: the parts it holds |
| `cleaner` | per caller of `clearOldPartsFromFilesystem`: parts to remove, removed, failed |
| `disk`, `marked` | directories with a final name and their rows; those with a stored rolled-back mark |
| `inserted`, `doomed` | history: batches inserted, batches some drop was asked for |
| `phase` | running or crashed |

One action is one section under `data_parts_mutex` or one operation on a
directory:

- `commitPart` is `MergeTreeSink::commitPart`: number, rename, commit in one
  lock section. `commitPartThrows` is an exception after the rename.
- `selectPartsToMerge` takes a range of Active parts under the merge predicate;
  `renameTempPartAndReplace`, `renameParts` and `commit` are the three separate
  steps of its result; `cancel`, `checkPartThrows`, `renamePartsThrows` and
  `commitThrows` are the ways it ends badly, each through `Transaction::rollback`.
- `coverPartsWithEmptyParts` (external) starts a drop, which then takes the
  steps of a Transaction with several parts.
- `grabOldParts`, `removePart`, `removePartThrows`, `rollbackDeletingParts` and
  `removePartsFinally` are a round of removal; `clearEmptyParts` drops an empty
  Active part.
- `Crash` forgets memory. `loadDataParts` builds the tree of directories
  (`PartLoadingTree`), makes its top Active, and leaves covered parts to
  `loadOutdatedDataParts`; intersecting directories make loading throw, and the
  table stays down.

Two constants choose an environment. `LateFailures` lets exceptions strike after
a rename. `MarkStored` says whether the rolled-back mark that
`Transaction::rollback` sets is found by a restart: that is decided by
`VersionMetadata`, which is not in the repository, so both cases are checked.

`old_parts_lifetime` is left open: any removable part may be grabbed at any time.
Mutation versions are constant here; `MovingParts` has mutations.

### TableContents

A set of batches; a batch appears when it is inserted and disappears only after
a drop asked for it. `ImplementsTable` maps `contents` to `DurableRows`, the rows
a restart would show *now*: a merge, a removal, a crash and a restart must be
stutters of it at every moment, which is stronger than looking after restarts.

### MovingParts

A part that is moved exists twice for a while, as two objects and two directories
of one name on different disks. An object is a pair of a part and a disk.

| Variable | Code |
|---|---|
| `working`, `empties` | `data_parts_indexes`: disk and state of each part; those with `rows_count = 0` |
| `doomed` | originals in the state `DeleteOnDestroy`, out of the working set |
| `mover` | per mover: `parts_to_move` of its tagger, the part at hand, the disk it goes to |
| `task` | the merge, mutation or drop that runs, with its result |
| `query` | the objects that a query holds |
| `dirs`, `unloaded` | directories; outdated ones still to be loaded |

`selectPartsForMove`, `clonePart`, `renameClonedPart` and `swapActivePart` are the
stages of a move; between clone and swap the part may be merged, mutated or
dropped, and then `dropClonedPart` gives the copy up. `removeIfNeeded` is the
destructor of a doomed object, possible once nobody holds it. A merge puts its
result on any disk, a mutation on that of its source, whose files it links. Which parts a storage policy wants to move is left open.
`loadDataParts` may take either copy of a part that a crash left on two disks: the
code walks the disks in the order of the policy and takes the first. As in `DataParts`,
`PartLoadingTree` throws on intersecting directories (`Loadable`). The copy of a move
has its final name from `renameClonedPart` on, but is in the working set only after
`swapActivePart`: `DirectoriesKnown` allows exactly the movers in between a
directory of no known part.

### DedupLog

| Variable | Code |
|---|---|
| `map` | `deduplication_map`: the entries of its queue, oldest first |
| `window`, `append` | `deduplication_window`, `disk_supports_writing_with_append` |
| `logs` | `existing_logs`: the records of each file, `entries_count`, and where a torn record cuts it |
| `pending` | the insert between `addPart` and the commit of its part |
| `increment`, `rows` | the block number counter; the entries whose rows are in the table |
| `interrupted`, `events` | history: inserts that failed after `addPart`; whether the log saw a drop, a larger window or a damaged file |

`addPart` (or `addPartDuplicate`, when some id is known), `commitPart` and
`commitPartThrows` are the steps of an insert; the lock of the parts is held
across them, so there is at most one, but a crash may come in between. `dropPart`
takes a part that may be the result of merges. Removing the rows from the table
is the work of a storage class that is not in the repository, so the two are one
step. `Crash` may leave half a record at the end of the last file (`TornWrites`);
`loadSingleLog` then stops there, and `load` goes on appending behind it. After
a restart the block number counter starts from the parts that were loaded, so
numbers of interrupted inserts may be handed out again. A failure to close a
file while rotating is not modelled. The specification's names begin with `Dedup`, as
`InsertProofs` extends it next to `ReplicatedInsert`.

### BackgroundExecutor

| Variable | Code |
|---|---|
| `pending`, `active`, `policy`, `max_tasks_count`, `shutdown` | the fields of `MergeTreeBackgroundExecutor` |
| `pc`, `item` | per worker: its place in `threadFunction` and `routine`, and the `TaskRuntimeData` it holds |
| `deleting`, `done`, `storage`, `priority` | `is_currently_deleting`, `is_done`, `storage_id`, `priority` of a task |
| `unfinished` | the tasks whose `IExecutableTask` exists |
| `stage`, `scheduled`, `thread` | per table: progress of `finish`, whether the holder is scheduled, the place in `threadFunc` |
| `tasks_to_cancel`, `tasks_to_wait` | the locals of `removeTasksCorrespondingToStorage` |

One action is one section under the executor's mutex or under `holder_mutex`, or
one call of a task outside of them. The metric that limits the number of tasks is
not a variable: it counts the `TaskRuntimeData` objects, which exist as long as
someone holds a pointer to them (`Alive`). A push to a full circular buffer
overwrites its first element, as `boost::circular_buffer` does; that this never happens
is a property, not part of the model. `notify_one` wakes any one of the workers
that sleep. `BackgroundSchedulePool`, whose task runs `threadFunc`, is external: a
scheduled task runs some time, a deactivated one does not begin, and `deactivate`
waits for a run that has begun. Delays are left open, so `trigger` and `postpone` have the
same effect. Each table has one assignee and one pool here; the code repeats
the removal for four pools. `finish` of one table is never called twice at the same
time, as the header says of removals.

### ActiveDataPartSet

The ordered set of names that the replicated classes keep apart from the parts
themselves. As with `getPartHierarchy`, a look-up visits neighbours only:
`getContainingPart` looks at the part at the lower bound and at the one before it,
`getPartsCoveredBy` walks from there. `add` refuses a part that is covered and
takes out what it covers. `Intersecting` is the case in which the code throws "Part
... intersects ...". `MergeAssignmentProofs` shows when looking at neighbours is enough.

### ReplicationQueue

The queue of one replica. Everything else that may write the log is the group of actions
`TableStep`, which knows the log but not this replica.

| Variable | Code |
|---|---|
| `scenario` | which changes are made to the table, and how many |
| `log`, `mutation_log`, `committing`, `next_block` | `/log`, `/mutations`, `/block_numbers` |
| `znodes`, `log_pointer`, `zk_mutation_pointer` | the replica's nodes in ZooKeeper |
| `listed`, `fresh` | how far `/log` was listed; were `/mutations` read since? |
| `queue`, `current_parts`, `virtual_parts` | fields of `ReplicatedMergeTreeQueue` |
| `parts` | Active parts of the replica |
| `running` | entries that execute: `actual_new_part_name`, what they wait for, `removed_by_other_entry` |
| `mutations`, `mutation_pointer` | `mutations_by_znode` (`parts_to_do`, `is_done`) |
| `finalizing` | the local variables of `tryFinalizeMutations`: `candidates`, `finished`, and what the merge predicate read |
| `alter_sequence` | `ReplicatedMergeTreeAltersSequence` |

`listLog`, `updateMutations` and `pullLogsToQueue` are the three requests of
`pullLogsToQueue`: log first, mutations next, so no entry is copied whose mutation is
not known. `selectEntryToProcess` takes any entry for which `shouldExecuteLogEntry`
holds; order in the queue is otherwise free, as it is for several threads.
`addFuturePartIfNotCoveredByThem` is a fetch of a larger part than asked for.
`executeLogEntry`, `executeMetadataAlter`, `removePartProducingOpsInRange` with
`executeDropRange` and `executeReplaceRange` are the types of entries; those of drops wait
for the entries that produce parts in the range, and the rest of the queue is
changed meanwhile. `tryFinalizeMutations` takes four steps, between which the queue goes on: the
candidates are collected, the merge predicate reads the committing inserts, it pulls the log and the
candidates are checked, after which the pointer in ZooKeeper is set, and at last the one in memory.
Of the pull only that it ends with at least the log of the moment the inserts were read is used
(`upto`), so the check may come earlier than in the code, never later. `removeProcessedEntry` and `entryExecuted` are two steps with a
crash in between. `restart` builds the memory from `parts` and `znodes`.

`LateCrashes` lets a crash come between the commit of a part and the removal of its
entry; see the divergences.

### MergeAssignment

Any number of replicas decide at the same time what to merge. The predicate of each one reads,
in this order and in a step each: its own virtual parts, the block numbers that
inserts hold, then `/log` up to its version, the mutations, and the pinned parts. An
insert takes its number long before its part appears, and may give it up.
`createLogEntry` is refused when the version of `/log` changed; only merges,
mutations of parts and changes of the pinned parts change that, inserts do not.
`createLogEntryUnchecked`, a faulty variant, shows what the check is for.

Two scenarios: one replica that assigns merges among inserts, mutations, quorum
inserts and pinned parts, and two replicas that assign among inserts.

### ReplicatedInsert

| Variable | Code |
|---|---|
| `next_number`, `held` | `/block_numbers`, ephemeral nodes with their session |
| `log`, `blocks`, `zk_parts`, `quorum`, `failed`, `is_active`, `host` | the nodes of ZooKeeper |
| `requests` | multi requests on their way |
| `session`, `expired`, `restarting` | of each server |
| `local`, `to_check` | its parts and `PartsQueue` of the part check thread |
| `insert` | an insert: stage, number, session, result |

`sendCommit` adds the part and sends the multi request; `Answer` applies it, at
any later time, as long as its session lives. `loseConnection` leaves the insert
without an answer, and it goes on with `recover`: another session asks whether the
part is there (`lookForPart`), and starts anew with another number if not.
`lastRetry` gives the part to the check thread. `partialShutdown`, `setZooKeeper`,
`removeFailedQuorumParts` and `activateReplica` are the restarting thread; `checkPart` is
the part check thread; `fetchPart`, `updateQuorum` and `failQuorum` are what the other
replicas do. `crash` and `startServer` lose the session and the memory.

### ParallelReading

Three modes of one coordinator. `announce` is `handleInitialAllRangesAnnouncement`:
the first one is the snapshot, later ones say which parts the replica sees. In the mode
`Default` segments of a part have an owner and a stealer by consistent hash
(`handleDefaultRequest`: mine, mine to steal, anything, in this order of
preference); in the two modes with order, marks are handed out from one end
(`handleInOrderRequest`). `markReplicaAsUnavailable` moves what a silent replica owns.
`sendReadRequest`, `receive`, `receiveThrows`, `getTask` and `cancelUnused` are the
read pools. Both hashes and the parts each replica sees are any of a set. One stream
per query is modelled, and a replica becomes unavailable before its
announcement only: later failures fail the query.

### BoolMask, KeyCondition, MarkSearch, MarkSelection

`BoolMask` is what a condition can be on a set of rows: can it be true, can it be
false. `KeyCondition` translates a filter to RPN (`buildRPN`, pushing negations down and wrapping
key columns by monotonic functions), and evaluates it on a hyperrectangle
or on a range of keys. Column values are `0..MaxValue` and `Null`; functions are
representatives of the kinds the code tells apart: always monotonic (`div2`),
monotonic on some ranges (`mod2`), decreasing and injective (`neg`), unknown (`hash`).
Ranges (`Core/Range.h`) are not in the repository and marked external. `eval` is the
reference: what SQL says of a row, with three truth values.

`MarkSearch` is `markRangesFromPKRange`: exclusion search with a stack of ranges, or bisection of
both ends when matching keys are one range, and in both cases `exact_ranges`, the
marks whose every row matches, which a query may count without reading.
`MarkSelection` composes them for one part, in the order of the code: `SkipPart` (bounds of
the partition key), `KeyNotUsed` or `UseKey`, `Search`, `filterMarksUsingIndex` for
each skip index, `mergePartialResultsForDisjunctions`, `Selected`.

## 3. Runs

Bounds are chosen so that the shortest interesting history fits: two blocks are
needed for a merge, three for a gap or for a merge next to another change, level 2 for
a merge of merged parts or a drop of one, one fault for a retry and two for a fault
during recovery.

| Run | Instance | Checks |
|---|---|---|
| `parts_restart` | 1 writer, 1 cleaner, 3 blocks, level 2, 2 crashes | `AlwaysLoadable`, `UnloadedNamesFree`, `RestartShowsVisibleRows`; `ImplementsTable` |
| `parts_writers` | 2 writers, a reader, 3 blocks, an exception anywhere | `ActiveDisjoint`, `ReadPartsOnDisk` |
| `parts_cleanup` | fairness, 2 blocks, a crash, a failure with a stored mark, a failing removal | `DiskPartsKnown`; `GarbageReclaimed` |
| `moving_parts` | 2 disks, a mover, a query that begins before the crash, 2 blocks, level 1, a crash | `ReadableOnDisk`, `RestartShowsActive`, `DirectoriesKnown` |
| `dedup_replay` | 3 ids, up to 2 in an insert, windows 0 to 2 and a change, disks with and without append, torn writes, a failed insert, a restart | `RotationForgetsNothing`, `RefusedAreInTable`, `RestartRefusesNoMore` |
| `executor_tables` | 2 workers, 2 tables, 2 tasks with 2 priorities, both policies, limits 1 and 2 | `OneQueue`, `FinishedIsQuiet`, `NoTaskLost` |
| `executor_fair` | fairness, 1 then 2 workers, 1 table, 3 tasks, round robin | `FinishEnds`, `NeverStarved`, `ShutdownEnds` |
| `queue` | level 1, 2 threads, 3 blocks; with 3 entries and a fault: ranges, mutations, ALTERs with merges; with 3 entries and no fault: mutations with merges, ALTERs with other mutations; with 4 entries and no fault: a merge over the gap of a dropped part | `NoIntersection`, `Converged`, `NeverStuck`, `AltersInOrder`, `MutationDoneIsDone` |
| `merge_assignment` | 2 replicas, 3 blocks, level 1, 2 assigned entries, both scenarios | `GapStaysEmpty`, `AssignedOnce`, `SameMutations`; `HeldPartsNotMerged` |
| `replicated_insert` | 2 replicas, 2 inserts of equal or different contents, with a quorum of 2 or none, 3 block numbers, 2 lost connections or crashes | `AcknowledgedIsStored`, `StoredOnce`, `LocalMatchesKeeper`, `QuorumReached` |
| `parallel_reading` | fairness, 3 replicas, 3 marks in 2 parts, segments of 2 marks, 1 failure, all modes | `ReadOnce`, `NoLogicalError`; `ReadInOrder`, `AllRead` |
| `mark_selection` | all parts of up to 5 marks over 3 values, in 4 families of tables (functions, Null, search, skip indexes) and a set of filters for each: 98,898 queries | `NothingSkipped`, `ExactRangesMatch`, `CheckIsSound` |

A log file rotates after twice as many records as the window is wide, so 3 inserts of
2 ids fill one with a window of 2, and fill several and remove the first with a window of 1.
Block ids are a symmetry set: they are only compared for equality. So are
workers, tasks and tables in `executor_tables`, and replicas and contents where
nothing orders them. Two tasks of two tables are enough for every pair of positions,
pending, active, being destroyed or being removed, that a removal can meet; a limit of
1 with a second task reaches a full buffer. Identities of tasks are used again, so
histories of the pool are not bounded. A third mark in a second part makes a
segment end within a part and a request span parts. Five marks make the search
split twice and let a range of matching marks have both ends inside. Two parts of one log
cross only after a merge over the gap of a dropped part, which takes four entries: three blocks
attached at once, the one in the middle merged and dropped, the other two merged. Any entry
that is executed on the wrong side of the drop then intersects the result.

`CHECK_DEADLOCK FALSE` is used where the instance may stop: once all bounds are spent
(inserts, entries, faults) nothing is left to do, a table whose directories
intersect after a late failure cannot be loaded, and an analysis ends with its result.

Fairness:

- `parts_cleanup`: queries end, the background pool runs the tasks it was given,
  the cleanup thread is rescheduled forever, a crashed server restarts, and
  background loading proceeds. Failures are finite: no code could remove a
  directory whose removal always fails.
- `executor_fair`: a step, a callback or a destructor of a task returns, a
  thread that wants a mutex gets it, a call of `finish` goes on, and a scheduled
  `threadFunc` runs. A task may ask for another step forever, and nothing forces a
  table or the pool to shut down.
- `parallel_reading`: some read pool that can go on does. Nothing is assumed of a
  replica that never announces itself: `AllRead` begins with the first announcement
  and must hold without the others.

### Divergences from comments and messages

Where the code does something else than a comment, a message or the evident
purpose, the configurations check what does hold, and the following variations show
what does not. None of them is a run of the project.

| Variation | What it shows |
|---|---|
| `DataParts`, two cleaners, 1 block, 1 crash, invariant `NoResurrection` | `grabOldParts` keeps an empty part while *Outdated* parts it covers exist; those that another call has put into Deleting do not count, and `grab_old_parts_mutex` is not held while directories go. A crash in between brings dropped rows back, against `MergeTreeData.cpp:3348` ("First remove all covered parts, then remove covering empty part") |
| the same with one cleaner, a failure, 3 blocks, level 2 | a rolled-back part that contains the empty one hides the covered ones from the walk (`MergeTreeData.cpp:5051`) |
| `parts_cleanup` with `LateFailures` | `renameTo` may throw after the directory moved and before the part enters `data_parts`: `DiskPartsKnown` fails |
| `parts_writers` with `AlwaysLoadable`, a crash and no stored mark | a rolled-back directory may intersect a later merge; loading then throws |
| `MovingParts`, 2 movers or a merge on the other disk, invariant `NoOldPartReturns` | the same order of removal, over two disks |
| `moving_parts` with 4 block numbers, 3 levels and one disk, `Loadable` and `RestartShowsActive` | a merge is stopped by a higher *level* in the gap between its parts, not by a later mutation (`MergeTreeMergePredicate.cpp:58`). Part 2 is mutated to `2_2_0_4` and dropped; while `2_2_1_4` is Outdated, the neighbours 1, at level 1 after a drop, and 3, both not mutated yet, become `1_3_2_0`, which does not contain it. The loader throws on the two (`MergeTreeData.cpp:1796`), and once `1_3_2_0` is dropped as well, the walk at `MergeTreeData.cpp:5051` stops at `2_2_1_4`, so that the empty `1_3_3_0` goes before `3_3_0` |
| `dedup_replay` with drops, `NeededRecordsKept` | DROP records and ADD records of dropped blocks count against the window when files are removed (`MergeTreeDeduplicationLog.cpp:209`; the header, line 198, says "non-needed records") |
| `dedup_replay`, `RefusedExist` | the id is written before the part is committed and not taken back: after a crash in between, a retry is refused with "already exists" (`MergeTreeSink.cpp:363`) |
| `dedup_replay`, `DroppedAreForgotten` | a window that grows brings entries of dropped blocks back after a restart; records appended behind a torn one are never read |
| `executor_tables` with `AsyncMoves` | `movePartsToSpace` schedules a move from the thread of a query without looking whether `finish` has run (`MergeTreeData.cpp:9647`; `MergeTreeBackgroundExecutor.h:293` says a storage waits for all its operations) |
| `queue` with the scenario `{"insert", "mutate"}`, 2 blocks, 3 entries, a fault, and `LateCrashes` | after a crash between the commit of a part and the removal of its entry, the entry is still in `/queue` and its part is virtual when mutations are loaded, but `parts_to_do` of the mutation loses it with the entry: `MutationDoneIsDone` fails. The comment at `ReplicatedMergeTreeQueue.cpp:541` relies on the part being executed |
| `queue` with the scenario `{"insert", "mutate", "alter"}`, 4 entries and `LateCrashes` | a processed entry leaves the memory before its znode goes (`ReplicatedMergeTreeQueue.cpp:748-803`). Say ALTER 1 has left the memory only, and ALTER 2 with its mutation is finished, when the replica crashes. The restart loads ALTER 1 again, and the mutation, which is before the pointer, finishes version 2, which is in nobody's sequence: the assertion "All alter versions bigger than head must present in queue" (`ReplicatedMergeTreeAltersSequence.cpp:59`) fails. Where assertions are off, `operator[]` puts 2 back with unfinished metadata; no entry will finish it, so that once 1 is done, 2 is the head, and ALTER 3 waits until the next restart: `AltersInOrder` and `NeverStuck` fail |
| `queue` with the scenario `{"attach", "merge", "mutate", "drop_part"}`, 4 blocks, 4 entries, invariant `\A m \in DOMAIN mutations : Pairwise(mutations[m].todo)` | the comment at `ReplicatedMergeTreeQueue.cpp:1083` says that `getPartNamesToMutate` will "traverse all entries in queue in order and applying diff (add parts/remove parts)", but it removes the parts of all drops first and then adds those of all other entries. If a mutation is loaded while the queue holds, not executed, the attach of 0, 1 and 2, the merge of 1 into `1_1_1` and its DROP_PART, then `1_1_1` is among its parts. The merge of 0 and 2 over the gap, in the queue as well or pulled later, adds `0_2_1`, and `add` throws "Part ... intersects ...". A mutation that is being loaded is in `mutations_by_znode` by then, with empty `parts_to_do` (line 1233). `NoIntersection` therefore says nothing of `parts_to_do`, and the scenario of gaps has no mutations |
| `queue`, a crash after a DROP_RANGE | the znode of an entry that the drop removed from memory outlives it, and the entry is executed again |
| `merge_assignment`, property `QuorumPartsNotMutated` | mutations do not look at the quorum, against the comment at `ReplicatedMergeTreeMergePredicate.cpp:155` |
| `replicated_insert` with `MaxLosses = 1`, `DuplicateQuorumReached` | an insert is acknowledged as a duplicate although the part it duplicates has not reached its quorum |
| the same, `FailedPartsRemoved` | a part whose quorum failed stays Active when the failure comes after the restarting thread looked |
| `mark_selection`, a key with ascending and descending columns, or a descending key without a final mark | the corners of a range of marks are not the least and greatest keys (`MergeTreeDataSelectExecutor.cpp:1658`): a matching mark is skipped |
| `mark_selection`, filter `mod2(a) = 1 OR (a = 0 AND b = 1)`, minmax index on `a`, granularity 2, disjunctions on | `checkInHyperrectangle` continues without `++element_idx` after a chain that is not monotonic (`KeyCondition.cpp:4431`, `4770`), so partial results land at the wrong element |
| `mark_selection`, nullable key, `!=`, `find_exact` | the exact ranges contain rows with Null |
| `mark_selection`, `min_marks_for_seek = 2`, 5 marks | the gap that is bridged for seeking is bridged in `exact_ranges` as well |

## 4. Proofs

`PartInfoProofs` shows that containment is transitive and antisymmetric, and
`WalkComplete`: if a set of parts is pairwise disjoint and the walk for `p` met no
covering and no intersecting part, then every part that overlaps `p` is among
those the walk calls covered. The code relies on it whenever it trusts
`getPartHierarchy`. The argument to the right takes the first part, by its minimal
block (`FirstExists`, from the well-foundedness of the naturals), that `p` does not
contain: it is the stop of the walk, so it is disjoint from `p`, and so is
everything behind it.

`DataPartsProofs` proves, for any number of writers, readers and cleaners, any
block numbers, any number of crashes and failures, and both environments:

- `NoOverlap`: `Spec => []ActiveDisjoint`
- `PartsInUseStay`: `Spec => []ReadPartsOnDisk`
- `NamesStayFree`: `Spec => []UnloadedNamesFree`
- `TypeCorrect`: `Spec => []TypeOK`

None of the first three is inductive. `ActiveDisjoint` needs that the parts one
Transaction adds are disjoint (`NewPartsDisjoint`), since `commit` compares each
with the Active parts only, and that an insert's number is fresh
(`BlocksHandedOut`); a restart needs that `PartLoadingTree` kept no intersecting
directories. `ReadPartsOnDisk` needs `ActiveOnDisk` (what a query takes is on disk),
`TransactionParts` (what becomes Active was renamed) and `GrabbedParts` (what is
removed is Deleting and in one cleaner's hands). `UnloadedNamesFree` needs
`UnloadedCovered`: what waits to be loaded is contained in some Active part, so a
new block number, which is above every Active part, and a merge, whose result
contains its sources strictly, cannot take its name. `IInv` is their conjunction,
proved inductive with one step per action and, under it, one per conjunct that
the action disturbs. Assumptions: the constants have their types
(`LevelAssumption`, `BoundsAssumption`).

The same module proves `CountExact`: `Spec => []ActiveCountExact`, the counter that
limits and quotas trust is the number of Active parts. It is kept by separate additions and
subtractions; they match because `commit` adds parts that were not Active, takes off
those that were, each once, and that there are finitely many.

The second half of `DataPartsProofs` is about the directories, which are the only record of the table. It
proves, for any number of writers, readers and cleaners and any bounds, unless an
exception strikes after a rename (`NoLateFailure`):

- `NoDirectoryUnknown`: `Spec => []DiskPartsKnown`
- `DirectoriesLoadable`: `Spec => []AlwaysLoadable`
- `NamesHold`: the invariant they follow from

and, if moreover no exception strikes while parts are added and at most one thread removes
old parts (`Orderly`; removals may still fail, and there may be any number of crashes):

- `RestartIsFaithful`: `Spec => []RestartShowsVisibleRows`
- `TableImplemented`: `Spec => ImplementsTable`, the refinement of `TableContents`
- `ContentsHold`: the invariant they follow from

Both hypotheses are needed: without them the properties are false, and the first four
rows of the divergences above are the behaviours that break them.

Parts have only names to say what they replace, so the first invariant is about names.
`Laminar` says that the directories, and the parts that merges and drops under way will add, are
nested or apart. It is not inductive: a merge spans a gap between its sources, and
in the gap there may be old directories. `canMergeParts` looks for a part of a higher level
there, but in memory only, so `DiskPartsKnown` is needed (a removed part leaves memory after its
directory is gone) and `UnloadedCovered` for what is still to be loaded; `MergeCovers` is
the argument that then everything the result overlaps is covered by it. `Topmost` says that
only a part of an unfinished operation may cover an Active one, `NewCoversSources` that it covers
its sources and overlaps nothing else, `OperationsApart` that two operations do not meet.

The second invariant adds what the names stand for. Of a row it has to be shown that it is
neither lost nor brought back at the removal of any directory, in any order. `TopsVisible`
says that a directory that no other settled one covers is Active or empty. The removal of a covered
directory before what it covers keeps this only because of a part above it that stays:
`GrabbedCovered` says so of the parts in the hands of the cleaner, and
`GhostsCovered` of parts in memory whose directory is gone. A part is grabbed only if it has rows, and then
`TopsVisible` puts something above it, or if the walk over Outdated parts finds nothing
below it; `TopFindsOutdated` shows that the walk is then not blocked, although
Outdated parts are not disjoint, because all parts in memory are laminar as well
(`RememberedLaminar`). A second cleaner would break this with parts that are
Deleting in its own hands (`StatesExact` says whose they are), a failed commit with a
rolled-back part that blocks the walk. In the refinement an insert is the step that renames
and publishes, a drop happens at the renames of its empty parts, and every other step, the rename of a merged
part and removals included, leaves the rows unchanged (`renamePartsDurable`,
`removeDurable`). Assumptions on constants: `LevelAssumption`, `BoundsAssumption`.

`MovingPartsProofs` proves, for any number of movers and disks, any block numbers, levels
and mutation versions, and any crashes:

- `ReadableStaysOnDisk`: `Spec => []ReadableOnDisk`
- `NoDirectoryForgotten`: `Spec => []DirectoriesKnown`
- `ActivePartsDisjoint`: no two Active parts overlap
- `RestartLosesNoPart`: after a crash at any moment every part with rows that was Active,
  or renamed and about to be committed, is among the topmost directories
- `RestartShowsWhatIsActive`: `Spec /\ [][GapsNotMutated]_vars => []RestartShowsActive /\ []NamesNested`,
  a restart also shows nothing else, and no two directories intersect
- `RestartShowsNoOldPart`: the first part of this under the weaker `[]OutdatedNested`
- `TypeCorrect` and `InvariantHolds`, the invariant they follow from

A part may become Active on another disk while a query still reads the original, and
the original goes only when its destructor runs. `Placed` says of every object that the
working set, a query or a mover's tagger holds that its directory is there;
`HeldStays` that what is held is in the working set or doomed, so the destructor
waits for it; `OneCopy` that a part under a tagger has no second object. `Renaming`
is about the stage between the rename and the swap: the copy's directory is on a disk where
the part is not, so that giving the copy up removes no directory somebody reads.
`ActivePartsDisjoint` needs `Results` (what a merge, a mutation or a drop makes covers
its tagged sources and nothing else), `NothingAbove` and `Numbers` (an insert's number is above
every part). A restart needs `Loadable`, without which the tree of directories could
have two tops that overlap. Assumptions: `BoundsAssumption`, `LevelAssumption`.

That a restart loses nothing follows from `NothingAbove` and `Renaming`. That it shows nothing old needs
`OldCovered`: a directory of rows that are gone is below an Active part, or below an empty Outdated
one that `grabOldParts` keeps for its sake. Keeping it rests on the walk at `MergeTreeData.cpp:5051`, which
finds all covered parts only if no Outdated part lies across its way, hence `OutdatedNested`. The code
does not guarantee that: `canMergeParts` compares the level of what lies in a gap, not its mutation (see
the variations above). `GapsNotMutated` is the missing guard, "every directory that the result of a merge
overlaps has at most its mutation"; it holds of a table without drops, for instance, where a
gap is empty. With it, `NamesNested` (directories and the coming result are nested or apart) is inductive.

On `DedupLog`, `InsertProofs` proves, for any windows, block ids and numbers of ids in an insert, disks with and
without append, torn writes, and any number of drops, failed inserts, changes of the window and restarts:

- `RestartRefuses`: `DedupSpec => []RestartRefusesNoMore`
- `RefusedInTable`: `DedupSpec => []RefusedAreInTable`
- `RotationForgets`: `DedupSpec => []RotationForgetsNothing`
- `DedupTypeCorrect`: `DedupSpec => []DedupTypeOK`

The map and the files meet only in `load`, which reads all records in their order into a bounded queue, so
that what one record does depends on all before it. `dropOutdatedLogs` takes
records away from the front, and these may be the ones that kept an id in its place or that a DROP
record refers to. The invariant therefore does not speak of the files as they are but of every tail of
them and every window up to the present one. `Sound` says that reading any tail with any such window finds an end of
the map, and that more files or a larger window find an end that is no shorter. A rotation then only picks
another tail and a smaller window another column, and neither changes what was claimed.
A new record has to be shown to act alike on the map and on what any tail gives: an insert pushes the
oldest entry out of both or out of the map alone (`EndsInsert`), a drop takes an entry out of the
middle, after which the shorter window has lost one that the larger one still has (`EndsErase`).

`RotationForgetsNothing` also needs that enough is left. `Whole` says, until something is dropped, that
a tail gives a full window or as many entries as its files have records by their counts; `dropOutdatedLogs`
keeps a file unless the newer ones count more than the window, so it keeps a full one (`WholeSince`). The counts must not exceed
the records (`Counts`): a file that a crash tore counts nothing after the restart, which keeps more files, never fewer.
Until the window grows or a record is written behind a torn one (`events`), all this is inductive; afterwards it is false (see
the divergences above).

The loops of the code are functions on `0..N`. A fact about all their steps is proved of the set of the steps it holds
for: if it is not all of `0..N`, its complement has a least number (`UpTo`, from the
well-foundedness of the naturals), which is how an induction over the files and over the records of one is done without
an induction rule. Assumption on constants: `DedupAssumption`, that they have their types.

`BackgroundExecutorProofs` proves, for any number of workers, tables and tasks, any
limits and both policies, with changes of the policy and the limits:

- `TaskInOneQueue`: `Spec => []OneQueue`
- `TasksAreKept`: `Spec => []NoTaskLost`
- `FinishIsFinal`: `Spec => []FinishedIsQuiet`, assuming `~AsyncMoves`
- `ExecutorTypes`: `Spec => []TypeOK`

`NoTaskLost` is about a circular buffer that overwrites. A worker pushes a task
back without looking at its size, so there must be room whenever a worker holds
one: `LimitKept` says that the tasks that exist are at most `max_tasks_count`. A
queue without repetitions is as long as its tasks are many (`LengthCounts`), the task of
the worker exists and is not pending, so fewer than the limit are (`PushAppends`).
That in turn needs `QueuesApart` (`OneQueue` worker by worker), and for the steps
of a removal `TasksWhole`, `RemovalApart` and `RemovalOnly`: a task that a removal
cancels is in no queue, one that is done is destroyed, and the lists of the
removal are empty when it begins. `FinishIsFinal` adds `NothingComes`: from the
removal on no task of the table is pending or about to be scheduled, and every one that
executes is marked and waited for, so that `restart_task` cannot put it back. With
asynchronous moves it is false (see the divergences). Assumptions on constants:
`ExecutorAssumption`.

`ReplicationQueueProofs` proves, for any number of log entries, mutations, threads, failed attempts and
restarts, that the ALTERs of a replica are executed in their order:

- `AltersAreOrdered`: `Spec => []AltersInOrder`, assuming `~LateCrashes`

`AltersInOrder` speaks of entries that execute, but what orders them is `alter_sequence`, which is not
stored: a restart rebuilds it from the entries left in `/queue`, and from then on it knows
nothing of the ALTERs that are finished. The invariant says what it may be read for. `InOrder` compares it with the
ALTERs pulled, those in the queue and those executing: a version that was pulled and is missing is smaller than all that
are there, one whose metadata is finished is the first, and every other one is still in the
queue. All operations keep that (`FinishMetadata`, `FinishData`, `AddMetadata`, `AddMutations`),
`finishDataAlter` only for a version that was pulled. `Awaited` keeps an ALTER from being left behind: a loaded
mutation that the pointer has not passed finds its version in the sequence with unfinished data. For this the two logs
have to agree (`Written`): the versions of ALTERs increase along the log, and mutations and entries with a version
come with or after its ALTER. And the replica has to read them in the right order (`Pointers`): with an ALTER it has its mutation, and
a mutation is passed only after its ALTER was pulled. While mutations are being finalized the pointer in ZooKeeper is ahead of
the one in memory, and the queue changes between the steps; `Finalizing` keeps what the later steps rely on: the candidates are ahead of the pointer
in memory, the ALTERs of all mutations up to them are in the log that is being pulled, and those that are finished are not ahead of
the pointer in ZooKeeper. A restart keeps `InOrder` (`Reloaded`) because, without late crashes,
what is left in `/queue` is what was in memory (`Entries`); with them the property is false (see the divergences).
`Min` and the loop over mutations (`FinishDataAlters`) need the well-foundedness of the naturals, as in `InsertProofs`.
No assumption about parts or bounds is needed: their sets are opaque in this proof.

On `ActiveDataPartSet`, `MergeAssignmentProofs` shows that in a set of disjoint parts it is enough to look at
neighbours: `getContainingPart` finds the containing part if there is one
(`ContainingPartFound`), the walks of `addImpl` and `getPartsCoveredByImpl` visit every part
that overlaps the argument if they stop at none that intersects it
(`RunComplete`), and `add` keeps the set disjoint and covering, or throws
(`AddKeepsDisjoint`).

Above that it proves, for any number of replicas that assign merges
and mutations while inserts commit, and any bounds:

- `GapTheorem`: `Spec => []GapStaysEmpty`
- `AssignedOnceTheorem`: `Spec => []AssignedOnce`
- `NoIntersectionTheorem`: `Spec => []NoIntersection`, so a queue that pulls an
  entry never throws "Part ... intersects ..."
- `SameMutationsTheorem`: `Spec => []SameMutations`
- `HeldPartsTheorem`: `Spec => HeldPartsNotMerged`
- `Invariant` and `MutationsInvariant`: the invariants they follow from, the first three
  from the first one

ZooKeeper gives the predicate no snapshot; what it may conclude follows from the
order of its reads. It takes the virtual parts (`prev`) before the block numbers, so
a number that it did not see is above all of `prev`, while it is held
(`HeldAreSeen`) and after it was committed, if the log was listed before that
(`LateAreSeen`). It lists the log after the block numbers and pulls as far as it listed,
so an earlier commit is in its virtual parts (`VirtualCovers`). If the version of `/log`
is still the listed one, only inserts have been added (`VersionKnown`). A block number
in the gap of two parts would be one of these three, and each is excluded by a
check of `canMergeParts`; `canUsePartInMerges` is needed because it compares with
`prev`. So what is selected fits the log (`Fits`): it covers an earlier part or
does not overlap it, no held number is in it, and no source was taken before.
This needs that the log is `Laminar` and that virtual parts are disjoint
(`VirtualDisjoint`), which is where `AddKeepsDisjoint` and, for the gap, `RunComplete`
come in. A new entry is the only step that uses `Fits`; an insert keeps it
because of `HeldApart`, another assignment because the version changes.

For mutations the same order of reads is used once more. Mutations are written in the
order of their numbers, and numbers of inserts are others (`NumbersInOrder`), so what a
replica has loaded is a first part of them (`LoadedFirst`). The predicate reads the
numbers that are held before it loads the mutations: one that it finds in neither is
above all of `prev` (`Knows`). A part includes every mutation whose number lies
among its blocks (`Applied`), because the number of an insert is never one of a mutation, and
because no mutation lies in the gap of a merge. So two neighbours that include the same
loaded mutations agree on the others as well, on those that hold a number and on those
still to come (`Agree`): none of these can lie between their data versions. For the
quorum, a part whose status came up after it was asked for has a block number
that was held then, which no part of `prev` contains, and `canUsePartInMerges` wants one that
does. Pinned parts are read after the version and change with it.
Assumptions: `AssignmentAssumption`, `LevelAssumption`.

On `ReplicatedInsert`, `InsertProofs` proves, for any number of replicas, inserts, block numbers,
lost connections and crashes, and any quorum:

- `LocalMatches`: `Spec => []LocalMatchesKeeper`
- `NothingStoredTwice`: `Spec => []StoredOnce`
- `AcknowledgedInsertsAreStored`: `Spec => []AcknowledgedIsStored`
- `AcknowledgedQuorumReached`: `Spec => []QuorumReached`
- `TypeCorrect` and `InvariantHolds`, the invariant they follow from

What makes these hard is that a request may be applied long after the server that sent
it has given up. `Requests` says what a request in flight may still do: its session is
alive, the number it will commit is `held` by that session and by no other insert, and its
part has no other writer. `Sessions` says when a request can no longer be applied, and `Answers`
what an insert knows that is told so; only then `recover` may conclude from the absence of the part
that it must start anew. `FreshNumbers` and `BlockNodes` exclude a second part of the
same block: the id is created in the same multi request as the part. `Kept` says
that a part in ZooKeeper is on the replica that announced it or is in the hands of its
check thread or of an insert that will finish, which is what an acknowledgement
relies on; `Succeeding` and `Quorums` say the same of an insert that waits for its
quorum, whose node counts the replicas that have the part, and `Hosts` that a replica
whose session ended cannot pass for the one that began again. Assumption: `InsertAssumption`; that
`Replicas` is finite is needed because the quorum counts.

On `ParallelReading`, `ReadingProofs` proves, for any replicas, marks, views of the parts, hashes and
sizes, and any number of lost answers and of replicas that are or become unavailable:

- `MarksReadOnce`: `Spec => []ReadOnce`
- `NoErrorThrown`: `Spec => []NoLogicalError`
- `PartsReadInOrder`: `Spec => ReadInOrder`
- `ReadingHolds`: the invariant they follow from

`ReadOnce` is almost inductive: besides, an answer must be on its way only to a pool that
asked for it, and with an empty buffer in the mode `Default` (`AnswerAwaited`), or it would
overwrite what is there. The work is in the request (`DefaultRequest`): what a scan
goes over is taken, queued for its owner, for its stealer or left over, and each mark
has exactly one of these fates (`Enqueued`, `Redistributed`), after which what is stolen
leaves all queues (`TakenOut`).

`NoLogicalError` says why the last replica leaves nothing. The number of finished and
unavailable replicas tells it that there is nobody else (`LastOne`: no replica is both).
Their queues are empty, as nothing is queued for one that does not come (`QueuesRead`),
and its own queue and the unscanned ranges are empty since it got nothing
(`NothingFor`). What is left over could still be of parts that it does not see; but the source
of the snapshot sees all of them, and it cannot finish while there are leftovers or
segments queued for a replica that never announced itself (`SourceFinishes`). This is
where `Abandoned` is needed. That later steps do not add leftovers again holds because
an announced replica's queue has only segments that it sees. A finished replica does not
ask again because its pool has left `idle` for good (`FinishedStays`).

`ReadInOrder` needs `Ordered`: what a replica was given is ahead of everything unscanned, and
the places in its buffer agree with the marks, since `FillBuffer` puts answers behind
or, in reverse order, before what is there. Assumptions: `SizesAssumption` (among others, the
replicas and marks are finitely many, which the count of finished replicas needs) and
`HashesAssumption` (a hash is one of the replicas).

On `BoolMask`, `ReadingProofs` shows that the algebra errs on one side only: if the masks of two
conditions are sound for a set of rows, so are those of their conjunction, disjunction
and negation (`AndSound`, `OrSound`, `NotSound`), `combine` is sound for the union of
two sets (`CombineSound`), and a complete mask is sound for everything
(`CompleteSound`), which is why `checkInRange` may stop as soon as it has one.

It proves of `markRangesFromPKRange`, for any number of marks and any
sound check:

- `SearchSound`: every mark with a matching row is in the result
- `ExactSound`: every mark in `exact_ranges` matches in full
- `SearchInvariant`: the invariant they follow from

The invariant says that every matching mark is in the result, in a range that is still
to be searched, on the stack, or in the range at hand (`Covered`), and that all of these are in
order (`Order`): `push` bridges a gap to the last range or extends it, which is only
right if what comes is behind it. The assumptions, `SoundCheck` and sorted input, are
what `CheckIsSound` checks of `KeyCondition` in the run `mark_selection`.

Only model-checked: `FinishEnds`, `NeverStarved`, `ShutdownEnds`, `GarbageReclaimed` and
`AllRead` (liveness under fairness); `RestartShowsActive` of `MovingParts` without
the hypothesis on gaps, which holds within the bounds of its run but not in general;
of `ReplicationQueue`, all but `AltersInOrder`, as the table that replicas converge to (`Final`) and the sets of parts
after a restart are folds over the log: `NoIntersection`, `Converged`, `NeverStuck` (whose last case asks
what can be selected), `MutationDoneIsDone`; and `MarkSelection`, where the RPN is built and evaluated by recursion over filters of any depth.

## 5. Plan

Done, in this order: the working set of a plain table with its abstract
specification, the deduplication log, the background executor, the parts mover
with mutations, the replication queue, the assignment of merges, the replicated insert,
parallel reading, and the index analysis; proofs about each of them, with the refinement of the abstract
specification of the first, the ALTERs of the fifth and the search and algebra of the last, and about the look-ups
in part sets.

What could follow: a composition of `ReplicationQueue` with the assignment of merges; the cleanup thread of a
replicated table; the pools that read local parts.

## 6. Not modelled

- Of modelled components: KILL MUTATION, intents of drop and replace, blocking of
  patch parts, `moveSiblingParts`, caches of asynchronous inserts, parallel quorum
  and majority, moves with zero-copy replication, REPLACE PARTITION of a plain table, projections,
  detached, broken and frozen parts. Two hazards belong here: of two intersecting directories
  the loader leaves out the one met later, even if the other one was rolled back
  (`MergeTreeData.cpp:1796`), and a mutation that commits while REPLACE PARTITION runs
  (`MutatePlainMergeTreeTask.cpp:119`).
- The cleanup of ZooKeeper, `PartMovesBetweenShards`, stages of `MergeTask` and
  `MutateTask`: they copy columns; what other threads see is the commit of their
  result, which is modelled.
- Of the index analysis: sets, Bloom filters, space-filling curves, polygons,
  NaN, conditions on part offsets, bulk filtering, text and vector indexes, top-k.
- Scores of merge selectors are floating point and only choose among ranges
  that the models leave open.
- The contents of part directories (columns, marks, checksums, indexes), codecs and
  text formats, settings, backups, statistics and metrics are data encoding or
  plain I/O.
- Code outside the repository (`StorageMergeTree`, `StorageReplicatedMergeTree`,
  `VersionMetadata`, ZooKeeper) is modelled only where the sources call it.
