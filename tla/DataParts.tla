----------------------------- MODULE DataParts -----------------------------
(***************************************************************************)
(* The working set of data parts of one MergeTree table (MergeTreeData):   *)
(* the parts kept in memory with their states, the part directories on     *)
(* disk, the transactions that add and replace parts, the readers that     *)
(* hold parts, the threads that remove old parts, and a crash followed by  *)
(* loading the directories found on disk.                                  *)
(*                                                                         *)
(* Every action that the code runs under data_parts_mutex is one step; the *)
(* renames, the removals of directories and the lock sections of a merge   *)
(* are separate steps, so everything else can happen between them.         *)
(***************************************************************************)
EXTENDS PartInfo, Integers, FiniteSets

CONSTANTS Writers,       \* threads that merge or drop parts
          Readers,       \* running queries
          Cleaners,      \* threads that may call clearOldPartsFromFilesystem
          MaxBlock,      \* bound: highest block number handed out
          MaxLevel,      \* bound: highest level of a part
          MaxRows,       \* bound: number of inserted batches of rows
          MaxCrashes,    \* bound: number of crashes
          MaxFailures,   \* bound: number of exceptions while parts are added
          MaxRemovalFailures, \* bound: number of exceptions while parts are removed
          LateFailures,  \* may an exception follow the rename of a directory?
          MarkStored     \* is the rolled-back mark of a part found by a restart?

ASSUME BoundsAssumption ==
    /\ MaxBlock \in Nat /\ MaxLevel \in Nat /\ MaxRows \in Nat
    /\ MaxCrashes \in Nat /\ MaxFailures \in Nat /\ MaxRemovalFailures \in Nat
    /\ LateFailures \in BOOLEAN /\ MarkStored \in BOOLEAN

VARIABLES
    state,       \* data_parts_indexes: part -> DataPartState
    rows,        \* part -> the inserted batches whose rows it holds
    activeCount, \* total_active_size_parts
    unloaded,    \* outdated_unloaded_data_parts
    increment,   \* the last block number handed out
    op,          \* per writer: its merge or drop, with its Transaction
    snapshot,    \* per reader: the parts its query holds
    cleaner,     \* per cleaner: the parts it grabbed
    phase,       \* "up" or "down" (crashed)
    disk,        \* part directories with a final name -> their rows
    marked,      \* directories that hold the rolled-back mark
    inserted,    \* batches inserted so far
    doomed,      \* batches some DROP was asked to delete
    crashes, failures, removalFailures   \* spent of the bounds

memory  == <<state, rows, activeCount, unloaded, increment>>
threads == <<op, snapshot, cleaner>>
stored  == <<disk, marked>>
history == <<inserted, doomed>>
budget  == <<crashes, failures, removalFailures>>
vars    == <<memory, threads, phase, stored, history, budget>>

(***************************************************************************)
(* Values                                                                  *)
(***************************************************************************)
PartInfos == {i \in [min : 1..MaxBlock, max : 1..MaxBlock, level : 0..MaxLevel, mutation : {0}] :
                 i.min <= i.max}
Rows      == 1..MaxRows
States    == {"PreActive", "Active", "Outdated", "Deleting"}

(* The operation of a writer: the parts it reads, the parts it will add,   *)
(* those already in its Transaction (precommitted_parts) and, of these,    *)
(* the ones whose directory still has its temporary name                   *)
(* (precommitted_parts_need_rename), and the rows each new part holds.     *)
Operations == [kind : {"none", "merge", "drop"}, sources : SUBSET PartInfos,
               todo : SUBSET PartInfos, precommitted : SUBSET PartInfos,
               need_rename : SUBSET PartInfos, rows : SUBSET Rows]
NoOperation == [kind |-> "none", sources |-> {}, todo |-> {}, precommitted |-> {},
                need_rename |-> {}, rows |-> {}]

(* Grabbed parts: to remove, removed, and failed to be removed.            *)
Cleanings == [todo : SUBSET PartInfos, done : SUBSET PartInfos, failed : SUBSET PartInfos]
NoCleaning == [todo |-> {}, done |-> {}, failed |-> {}]

TypeOK ==
    /\ DOMAIN state \subseteq PartInfos /\ state \in [DOMAIN state -> States]
    /\ rows \in [DOMAIN state -> SUBSET Rows]
    /\ unloaded \subseteq PartInfos
    /\ increment \in 0..MaxBlock
    /\ op \in [Writers -> Operations]
    /\ snapshot \in [Readers -> SUBSET PartInfos]
    /\ cleaner \in [Cleaners -> Cleanings]
    /\ phase \in {"up", "down"}
    /\ DOMAIN disk \subseteq PartInfos /\ disk \in [DOMAIN disk -> SUBSET Rows]
    /\ marked \subseteq PartInfos
    /\ inserted \subseteq Rows /\ doomed \subseteq Rows
    /\ crashes \in 0..MaxCrashes /\ failures \in 0..MaxFailures
    /\ removalFailures \in 0..MaxRemovalFailures

(***************************************************************************)
(* Helpers                                                                 *)
(***************************************************************************)
Put(f, p, v)       == [q \in DOMAIN f \cup {p} |-> IF q = p THEN v ELSE f[q]]
Without(f, S)      == [q \in DOMAIN f \ S |-> f[q]]
modifyPartState(st, S, v) == [q \in DOMAIN st |-> IF q \in S THEN v ELSE st[q]]

In(s)     == {p \in DOMAIN state : state[p] = s}
Active    == In("Active")
Outdated  == In("Outdated")

(* currently_merging_mutating_parts, and every part some thread points to. *)
Tagged == UNION {op[w].sources : w \in Writers}
(* A faulty variant: the parts held by queries are not counted.            *)
SharedByWriters == Tagged \cup UNION {op[w].precommitted : w \in Writers}
Shared == Tagged \cup (UNION {op[w].precommitted : w \in Writers})
                 \cup (UNION {snapshot[r] : r \in Readers})

RowsOf(S, f) == UNION {f[p] : p \in S}

IsMaxLevel(n, S) == (\E p \in S : p.level = n) /\ \A p \in S : p.level <= n

(***************************************************************************)
(* checkPartDuplicate and the checks of renameTempPartAndReplaceImpl: what *)
(* must hold for p to enter the working set; otherwise they throw.         *)
(***************************************************************************)
checkPart(p) == p \notin DOMAIN state /\ IntersectedParts(p, Active) = {}

(***************************************************************************)
(* Transaction::commit.  A part that is covered by an Active part by now   *)
(* is obsolete and goes straight to Outdated; any other one becomes Active *)
(* and the Active parts that it covers become Outdated.                    *)
(***************************************************************************)
Obsolete(P, act) == {p \in P : CoveringParts(p, act) # {}}
Replaced(P, act) == UNION {CoveredParts(p, act) : p \in P \ Obsolete(P, act)}

CommitState(st, P, act) ==
    [q \in DOMAIN st |->
        IF q \in P \ Obsolete(P, act) THEN "Active"
        ELSE IF q \in Obsolete(P, act) \cup Replaced(P, act) THEN "Outdated"
        ELSE st[q]]

CommitCount(P, act) ==
    activeCount + Cardinality(P \ Obsolete(P, act)) - Cardinality(Replaced(P, act))

(***************************************************************************)
(* MergeTreeSink::commitPart: under one lock the part gets the next block  *)
(* number, its directory gets its final name and the part becomes Active.  *)
(***************************************************************************)
NewPart == [min |-> increment + 1, max |-> increment + 1, level |-> 0, mutation |-> 0]
NewRow  == Cardinality(inserted) + 1

(* A faulty variant: rename_in_transaction, with the rename and the commit *)
(* in later lock sections (the FIXME in MergeTreeSink::commitPart).        *)
InsertPartInTransaction(p) ==
    /\ checkPart(p)
    /\ state' = Put(state, p, "PreActive")
    /\ rows' = Put(rows, p, {NewRow})
    /\ \E w \in Writers :
          /\ op[w].kind = "none"
          /\ op' = [op EXCEPT ![w] = [NoOperation EXCEPT !.kind = "merge", !.rows = {NewRow},
                                       !.precommitted = {p}, !.need_rename = {p}]]
    /\ UNCHANGED <<activeCount, disk, snapshot, cleaner>>

InsertPart(p) ==
    /\ checkPart(p)
    /\ CoveredParts(p, Active) = {}
    /\ state' = CommitState(Put(state, p, "PreActive"), {p}, Active)
    /\ activeCount' = CommitCount({p}, Active)
    /\ rows' = Put(rows, p, {NewRow})
    /\ disk' = Put(disk, p, {NewRow})
    /\ UNCHANGED threads

commitPart ==
    /\ phase = "up"
    /\ increment < MaxBlock /\ NewRow \in Rows
    /\ InsertPart(NewPart)
    /\ increment' = increment + 1
    /\ inserted' = inserted \cup {NewRow}
    /\ UNCHANGED <<unloaded, phase, marked, doomed, budget>>

(* renameTo throws after the directory was moved (its fsync fails): the    *)
(* part never reaches data_parts_indexes, its directory stays.             *)
commitPartThrows ==
    /\ phase = "up" /\ LateFailures /\ failures < MaxFailures
    /\ increment < MaxBlock /\ NewRow \in Rows
    /\ checkPart(NewPart)
    /\ disk' = Put(disk, NewPart, {NewRow})
    /\ increment' = increment + 1
    /\ inserted' = inserted \cup {NewRow}
    /\ failures' = failures + 1
    /\ UNCHANGED <<state, rows, activeCount, unloaded, threads, phase, marked, doomed, crashes,
                   removalFailures>>

(***************************************************************************)
(* Merges.  A merge takes a range of neighbouring Active parts; two        *)
(* neighbours are refused when the working set holds, between them, a part *)
(* of a level higher than both (canMergeParts, getMaxLevelInBetween).      *)
(***************************************************************************)
(* A faulty variant: the gap between the neighbours is not looked at.      *)
canMergePartsAnyGap(l, r) == TRUE

canMergeParts(l, r) ==
    \A q \in DOMAIN state : Less(l, q) /\ Less(q, r) => q.level <= l.level \/ q.level <= r.level

canUsePartInMerges(p) == p \notin Tagged

PartsRange(l, r) == {q \in Active : ~Less(q, l) /\ ~Less(r, q)}

Neighbours(S) == {x \in S \X S : Less(x[1], x[2]) /\ \A q \in S : ~(Less(x[1], q) /\ Less(q, x[2]))}

(* FutureMergedMutatedPart::assign: the blocks from l to r, and a level    *)
(* above the highest one among the sources.                                *)
assign(l, r, max_level) == [min |-> l.min, max |-> r.max, level |-> max_level + 1, mutation |-> 0]

selectPartsToMerge(w) ==
    /\ phase = "up" /\ op[w].kind = "none"
    /\ \A v \in Writers : op[v].kind # "drop"
    /\ \E l, r \in Active, max_level \in 0..MaxLevel-1 :
          /\ Less(l, r)
          /\ IsMaxLevel(max_level, PartsRange(l, r))
          /\ \A x \in Neighbours(PartsRange(l, r)) : canMergeParts(x[1], x[2])
          /\ \A q \in PartsRange(l, r) : canUsePartInMerges(q)
          /\ op' = [op EXCEPT ![w] = [NoOperation EXCEPT
                        !.kind = "merge", !.sources = PartsRange(l, r),
                        !.todo = {assign(l, r, max_level)}, !.rows = RowsOf(PartsRange(l, r), rows)]]
    /\ UNCHANGED <<memory, snapshot, cleaner, phase, stored, history, budget>>

(* DROP PART and DROP PARTITION cover each part with an empty one of the   *)
(* next level; merges are stopped meanwhile.                               *)
coverPartsWithEmptyParts(w) ==
    /\ phase = "up" /\ \A v \in Writers : op[v].kind = "none"
    /\ \E S \in (SUBSET Active) \ {{}} :
          /\ \A q \in S : q.level < MaxLevel
          /\ op' = [op EXCEPT ![w] = [NoOperation EXCEPT
                        !.kind = "drop", !.sources = S,
                        !.todo = {[q EXCEPT !.level = @ + 1] : q \in S}]]
          /\ doomed' = doomed \cup RowsOf(S, rows)
    /\ UNCHANGED <<memory, snapshot, cleaner, phase, stored, inserted, budget>>

(* MergePlainMergeTreeTask::cancel before the result enters the working set. *)
cancel(w) ==
    /\ phase = "up" /\ op[w].kind = "merge" /\ op[w].precommitted = {}
    /\ op' = [op EXCEPT ![w] = NoOperation]
    /\ UNCHANGED <<memory, snapshot, cleaner, phase, stored, history, budget>>

(* renameTempPartAndReplace with rename_in_transaction: the new part is    *)
(* PreActive and keeps its temporary directory name for now.               *)
renameTempPartAndReplace(w) ==
    /\ phase = "up"
    /\ \E p \in op[w].todo :
          /\ checkPart(p)
          /\ state' = Put(state, p, "PreActive")
          /\ rows' = Put(rows, p, op[w].rows)
          /\ op' = [op EXCEPT ![w].todo = @ \ {p},
                              ![w].precommitted = @ \cup {p}, ![w].need_rename = @ \cup {p}]
    /\ UNCHANGED <<activeCount, unloaded, increment, snapshot, cleaner, phase, stored, history,
                   budget>>

renameParts(w) ==
    /\ phase = "up" /\ op[w].todo = {}
    /\ \E p \in op[w].need_rename :
          /\ disk' = Put(disk, p, op[w].rows)
          /\ marked' = marked \ {p}
          /\ op' = [op EXCEPT ![w].need_rename = @ \ {p}]
    /\ UNCHANGED <<memory, snapshot, cleaner, phase, history, budget>>

commit(w) ==
    /\ phase = "up"
    /\ op[w].precommitted # {} /\ op[w].todo = {} /\ op[w].need_rename = {}
    /\ \A p \in op[w].precommitted : IntersectedParts(p, Active) = {}
    /\ state' = CommitState(state, op[w].precommitted, Active)
    /\ activeCount' = CommitCount(op[w].precommitted, Active)
    /\ op' = [op EXCEPT ![w] = NoOperation]
    /\ UNCHANGED <<rows, unloaded, increment, snapshot, cleaner, phase, stored, history,
                   budget>>

(* Transaction::rollback: the parts added so far become Outdated and those *)
(* whose directory has its final name are marked as rolled back.           *)
rollback(w, dirs) ==
    /\ state' = modifyPartState(state, op[w].precommitted, "Outdated")
    /\ marked' = IF MarkStored THEN marked \cup (op[w].precommitted \cap dirs) ELSE marked
    /\ op' = [op EXCEPT ![w] = NoOperation]
    /\ UNCHANGED <<rows, activeCount, unloaded, increment, snapshot, cleaner, phase, history, crashes,
                   removalFailures>>

(* A check of renameTempPartAndReplace throws, e.g. because a part of the  *)
(* same name is still to be removed.                                       *)
checkPartThrows(w) ==
    /\ phase = "up"
    /\ \E p \in op[w].todo : ~checkPart(p)
    /\ rollback(w, DOMAIN disk)
    /\ UNCHANGED <<disk, failures>>

renamePartsThrows(w) ==
    /\ phase = "up" /\ op[w].todo = {} /\ op[w].need_rename # {} /\ failures < MaxFailures
    /\ LateFailures \/ op[w].need_rename = op[w].precommitted
    /\ \/ UNCHANGED disk
       \/ LateFailures /\ \E p \in op[w].need_rename : disk' = Put(disk, p, op[w].rows)
    /\ rollback(w, DOMAIN disk')
    /\ failures' = failures + 1

(* commit throws before the first state change (addNewPartAndRemoveCovered *)
(* fails to lock a covered part).                                          *)
commitThrows(w) ==
    /\ phase = "up" /\ LateFailures /\ failures < MaxFailures
    /\ op[w].precommitted # {} /\ op[w].todo = {} /\ op[w].need_rename = {}
    /\ rollback(w, DOMAIN disk)
    /\ failures' = failures + 1
    /\ UNCHANGED disk

(***************************************************************************)
(* Queries: take the Active parts, release them at the end.                *)
(***************************************************************************)
getDataPartsVectorForInternalUsage(r) ==
    /\ phase = "up" /\ snapshot[r] = {}
    /\ snapshot' = [snapshot EXCEPT ![r] = Active]
    /\ UNCHANGED <<memory, op, cleaner, phase, stored, history, budget>>

releaseParts(r) ==
    /\ phase = "up" /\ snapshot[r] # {}
    /\ snapshot' = [snapshot EXCEPT ![r] = {}]
    /\ UNCHANGED <<memory, op, cleaner, phase, stored, history, budget>>

(***************************************************************************)
(* Removing old parts: grabOldParts, then the removal of the directories   *)
(* without a lock, then rollbackDeletingParts and removePartsFinally.      *)
(***************************************************************************)
getCoveredOutdatedParts(p) == CoveredParts(p, Outdated)

Removable == {p \in Outdated : p \notin Shared /\ (rows[p] = {} => getCoveredOutdatedParts(p) = {})}

(* Whether a part reached old_parts_lifetime is left open: any of them may. *)
grabOldParts(c) ==
    /\ phase = "up" /\ cleaner[c] = NoCleaning
    /\ \E S \in (SUBSET Removable) \ {{}} :
          /\ state' = modifyPartState(state, S, "Deleting")
          /\ cleaner' = [cleaner EXCEPT ![c].todo = S]
    /\ UNCHANGED <<rows, activeCount, unloaded, increment, op, snapshot, phase, stored, history,
                   budget>>

(* DataPartStorageOnDiskBase::remove gives the directory a delete_tmp_     *)
(* name, which takes it out of sight of the loader, and removes it.        *)
removePart(c) ==
    /\ phase = "up"
    /\ \E p \in cleaner[c].todo :
          /\ disk' = Without(disk, {p})
          /\ marked' = marked \ {p}
          /\ cleaner' = [cleaner EXCEPT ![c].todo = @ \ {p}, ![c].done = @ \cup {p}]
    /\ UNCHANGED <<memory, op, snapshot, phase, history, budget>>

(* A faulty variant: the parts that failed are taken for removed.          *)
removePartThrowsForgotten(c) ==
    /\ phase = "up" /\ removalFailures < MaxRemovalFailures
    /\ \E p \in cleaner[c].todo :
          cleaner' = [cleaner EXCEPT ![c].todo = @ \ {p}, ![c].done = @ \cup {p}]
    /\ removalFailures' = removalFailures + 1
    /\ UNCHANGED <<memory, op, snapshot, phase, stored, history, crashes, failures>>

(* remove throws before or after that rename; the serial loop gives up the *)
(* other parts too, the parallel one goes on with them.                    *)
removePartThrows(c) ==
    /\ phase = "up" /\ removalFailures < MaxRemovalFailures
    /\ \E p \in cleaner[c].todo :
          /\ \/ UNCHANGED stored
             \/ disk' = Without(disk, {p}) /\ marked' = marked \ {p}
          /\ \E S \in {{p}, cleaner[c].todo} :
                cleaner' = [cleaner EXCEPT ![c].todo = @ \ S, ![c].failed = @ \cup S]
    /\ removalFailures' = removalFailures + 1
    /\ UNCHANGED <<memory, op, snapshot, phase, history, crashes, failures>>

(* A faulty variant: the failed parts stay in the state Deleting.          *)
rollbackNoParts(c) ==
    /\ phase = "up" /\ cleaner[c].todo = {} /\ cleaner[c].failed # {}
    /\ cleaner' = [cleaner EXCEPT ![c].failed = {}]
    /\ UNCHANGED <<memory, op, snapshot, phase, stored, history, budget>>

rollbackDeletingParts(c) ==
    /\ phase = "up" /\ cleaner[c].todo = {} /\ cleaner[c].failed # {}
    /\ state' = modifyPartState(state, cleaner[c].failed, "Outdated")
    /\ cleaner' = [cleaner EXCEPT ![c].failed = {}]
    /\ UNCHANGED <<rows, activeCount, unloaded, increment, op, snapshot, phase, stored, history,
                   budget>>

removePartsFinally(c) ==
    /\ phase = "up" /\ cleaner[c].todo = {} /\ cleaner[c].failed = {} /\ cleaner[c].done # {}
    /\ state' = Without(state, cleaner[c].done)
    /\ rows' = Without(rows, cleaner[c].done)
    /\ cleaner' = [cleaner EXCEPT ![c].done = {}]
    /\ UNCHANGED <<activeCount, unloaded, increment, op, snapshot, phase, stored, history,
                   budget>>

(* A faulty variant: empty parts are dropped while old ones still load.    *)
loadingNotAwaited == TRUE

outdated_data_parts_loading_finished == unloaded = {}

(* clearEmptyParts, with dropPartNoWaitNoThrow for one of the parts found. *)
clearEmptyParts ==
    /\ phase = "up" /\ outdated_data_parts_loading_finished
    /\ \E p \in Active :
          /\ rows[p] = {} /\ p \notin Tagged
          /\ state' = modifyPartState(state, {p}, "Outdated")
    /\ activeCount' = activeCount - 1
    /\ UNCHANGED <<rows, unloaded, increment, threads, phase, stored, history, budget>>

(***************************************************************************)
(* Crash and restart.                                                      *)
(***************************************************************************)
Crash ==
    /\ phase = "up" /\ crashes < MaxCrashes
    /\ phase' = "down"
    /\ crashes' = crashes + 1
    /\ state' = <<>> /\ rows' = <<>> /\ activeCount' = 0 /\ unloaded' = {} /\ increment' = 0
    /\ op' = [w \in Writers |-> NoOperation]
    /\ snapshot' = [r \in Readers |-> {}]
    /\ cleaner' = [c \in Cleaners |-> NoCleaning]
    /\ UNCHANGED <<stored, history, failures, removalFailures>>

(* PartLoadingTree::add throws when two parts intersect and neither has a  *)
(* rolled-back mark; with a mark, the one that comes later in the order of *)
(* descending level is left out, whichever of the two has the mark.        *)
Loadable == \A p, q \in DOMAIN disk \ marked : ~Intersect(p, q)

PartLoadingTree ==
    {K \in SUBSET DOMAIN disk :
        /\ \A p, q \in K : ~Intersect(p, q)
        /\ \A p \in DOMAIN disk \ K : \E q \in K :
              Intersect(p, q) /\ q.level >= p.level /\ {p, q} \cap marked # {}}

(* The parts loaded at once: the most covering ones and, below a part that *)
(* turns out to be rolled back, its children.                              *)
Tops(K, bad) == {p \in K : \A q \in K \ {p} : contains(q, p) => q \in bad}

(* A faulty variant: block numbers start again after a restart.            *)
getMaxBlockNumberZero(n, S) == n = 0

(* getMaxBlockNumber: n is the highest block number among the parts S.     *)
getMaxBlockNumber(n, S) ==
    /\ \A p \in S : p.max <= n
    /\ n = 0 \/ \E p \in S : p.max = n

loadDataParts ==
    /\ phase = "down" /\ Loadable
    /\ \E K \in PartLoadingTree, n \in 0..MaxBlock :
          LET tops == Tops(K, marked) IN
          /\ state' = [p \in tops |-> IF p \in marked THEN "Outdated" ELSE "Active"]
          /\ rows' = [p \in tops |-> disk[p]]
          /\ activeCount' = Cardinality(tops \ marked)
          /\ unloaded' = K \ tops
          /\ getMaxBlockNumber(n, tops) /\ increment' = n
    /\ phase' = "up"
    /\ UNCHANGED <<threads, stored, history, budget>>

loadOutdatedDataParts ==
    /\ phase = "up"
    /\ \E p \in unloaded :
          /\ p \notin DOMAIN state
          /\ unloaded' = unloaded \ {p}
          /\ state' = Put(state, p, "Outdated")
          /\ rows' = Put(rows, p, disk[p])
    /\ UNCHANGED <<activeCount, increment, threads, phase, stored, history, budget>>

(***************************************************************************)
(* The specification                                                       *)
(***************************************************************************)
Init ==
    /\ state = <<>> /\ rows = <<>> /\ activeCount = 0 /\ unloaded = {} /\ increment = 0
    /\ op = [w \in Writers |-> NoOperation]
    /\ snapshot = [r \in Readers |-> {}]
    /\ cleaner = [c \in Cleaners |-> NoCleaning]
    /\ phase = "up"
    /\ disk = <<>> /\ marked = {}
    /\ inserted = {} /\ doomed = {}
    /\ crashes = 0 /\ failures = 0 /\ removalFailures = 0

WriterStep(w) ==
    \/ selectPartsToMerge(w) \/ coverPartsWithEmptyParts(w) \/ cancel(w)
    \/ renameTempPartAndReplace(w) \/ renameParts(w) \/ commit(w)
    \/ checkPartThrows(w) \/ renamePartsThrows(w) \/ commitThrows(w)

ReaderStep(r) == getDataPartsVectorForInternalUsage(r) \/ releaseParts(r)

CleanerStep(c) ==
    \/ grabOldParts(c) \/ removePart(c) \/ removePartThrows(c)
    \/ rollbackDeletingParts(c) \/ removePartsFinally(c)

Next ==
    \/ commitPart \/ commitPartThrows
    \/ \E w \in Writers : WriterStep(w)
    \/ \E r \in Readers : ReaderStep(r)
    \/ \E c \in Cleaners : CleanerStep(c)
    \/ clearEmptyParts
    \/ Crash \/ loadDataParts \/ loadOutdatedDataParts

Spec == Init /\ [][Next]_vars

(* Queries end, the background pool runs the operations it was given, the  *)
(* cleanup thread is rescheduled forever and a crashed server restarts.    *)
Fairness ==
    /\ \A r \in Readers : WF_vars(releaseParts(r))
    /\ \A w \in Writers :
          WF_vars(renameTempPartAndReplace(w) \/ renameParts(w) \/ commit(w) \/ checkPartThrows(w))
    /\ \A c \in Cleaners : WF_vars(CleanerStep(c))
    /\ WF_vars(loadDataParts)
    /\ WF_vars(loadOutdatedDataParts)

FairSpec == Spec /\ Fairness

(***************************************************************************)
(* Properties                                                              *)
(***************************************************************************)

(* No two Active parts overlap, whatever inserts, merges, drops, failures  *)
(* and restarts did: every block number is served by one part at most.     *)
ActiveDisjoint == \A p, q \in Active : p = q \/ isDisjoint(p, q)

(* total_active_size_parts, which Transaction::commit, removal and loading *)
(* adjust separately, is the number of Active parts.                       *)
ActiveCountExact == phase = "up" => activeCount = Cardinality(Active)

(* grabOldParts takes no part that is in use: the directory of a part that *)
(* a query, a merge or a drop holds stays on disk.                         *)
ReadPartsOnDisk ==
    phase = "up" => Tagged \cup (UNION {snapshot[r] : r \in Readers}) \subseteq DOMAIN disk

(* The rows of the parts that a restart would make Active.                 *)
DurableRows == RowsOf(Tops(DOMAIN disk \ marked, {}), disk)

(* "Avoids resurrection of old parts": a crash at any moment, followed by  *)
(* a restart, brings back no row that is not visible now.                  *)
NoResurrection == phase = "up" => DurableRows \subseteq RowsOf(Active, rows)

(* Some DROP is between its first rename and its commit.                   *)
DropInFlight == \E w \in Writers : op[w].kind = "drop" /\ op[w].precommitted \cap DOMAIN disk # {}

(* A crash at any moment, followed by a restart, neither loses a visible   *)
(* row nor brings back another one, but for a DROP caught between renaming *)
(* its empty parts and committing them, which may only lose its own rows.  *)
RestartShowsVisibleRows ==
    /\ NoResurrection
    /\ phase = "up" => RowsOf(Active, rows) \ DurableRows \subseteq doomed
    /\ phase = "up" /\ ~DropInFlight => RowsOf(Active, rows) \subseteq DurableRows

(* "if a non-temporary part in filesystem then it is in data_parts", once  *)
(* the directories that are still to be loaded are counted in.             *)
DiskPartsKnown == phase = "up" => DOMAIN disk \subseteq DOMAIN state \cup unloaded

(* A directory that is still to be loaded never meets a part of the same   *)
(* name in memory; loadDataPart would throw and the server terminate.      *)
UnloadedNamesFree == unloaded \cap DOMAIN state = {}

(* The directories of a table are always loadable: PartLoadingTree throws  *)
(* on parts that intersect, which merges across gaps must not produce.     *)
AlwaysLoadable == phase = "down" => Loadable

(* A directory that no Active part needs any more is removed in the end.   *)
Garbage == DOMAIN disk \ Active
GarbageReclaimed == \A p \in PartInfos : p \in Garbage ~> p \notin Garbage

(* What a restart would show changes as TableContents allows: nothing but  *)
(* inserts and the drops that were asked for changes it; merges, removals  *)
(* of old parts, crashes and restarts do not.                              *)
Table == INSTANCE TableContents WITH Batches <- Rows, contents <- DurableRows
ImplementsTable == Table!TableSpec
=============================================================================
