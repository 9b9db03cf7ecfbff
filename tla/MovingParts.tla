---------------------------- MODULE MovingParts ----------------------------
(***************************************************************************)
(* Moving the parts of one MergeTree table between disks                   *)
(* (MergeTreePartsMover) while inserts, merges, mutations and drops go on, *)
(* queries hold parts and the server may crash.  A moved part exists as    *)
(* two objects and two directories of the same name for a while: the copy  *)
(* takes the original's place in the working set, and the directory of the *)
(* original is removed by the destructor of its object, which nothing but  *)
(* its last owner can find any more.                                       *)
(***************************************************************************)
EXTENDS PartInfo, FiniteSets

CONSTANTS Disks,       \* the disks of the storage policy
          Movers,      \* tasks that move parts
          Queries,     \* running queries
          MaxBlock,    \* bound: highest block or mutation number handed out
          MaxLevel,    \* bound: highest level of a part
          MaxBatch,    \* bound: number of parts that a mover takes at once
          MaxCrashes,  \* bound: number of crashes
          QueryCrashes \* bound: number of crashes after which queries still begin

ASSUME BoundsAssumption ==
    MaxBlock \in Nat /\ MaxLevel \in Nat /\ MaxBatch \in Nat
    /\ MaxCrashes \in Nat /\ QueryCrashes \in Nat

VARIABLES
    increment,  \* the last block number handed out
    working,    \* data_parts_indexes: part -> its disk and state
    empties,    \* the parts without rows
    unloaded,   \* outdated_unloaded_data_parts
    doomed,     \* objects in the state DeleteOnDestroy, outside the working set
    query,      \* per query: the objects it holds
    mover,      \* per mover: its tagger and the part it moves
    task,       \* the merge, mutation or drop that runs
    dirs,       \* the part directories on disk
    phase,      \* "up" or "down"
    crashes     \* spent of the bound

memory == <<increment, working, empties, unloaded>>
vars   == <<memory, doomed, query, mover, task, dirs, phase, crashes>>

(***************************************************************************)
(* Values.  An object of a part, and its directory, is the part's identity *)
(* and its disk.                                                           *)
(***************************************************************************)
PartInfos == {i \in [min : 1..MaxBlock, max : 1..MaxBlock, level : 0..MaxLevel, mutation : 0..MaxBlock] :
                 i.min <= i.max}
Objects   == PartInfos \X Disks
States    == {"PreActive", "Active", "Outdated", "Deleting"}

(* MergeTreeMoveEntry: the part that is moved and the reserved disk.       *)
Moves == [part : PartInfos, from : Disks, to : Disks]

(* A mover: all of its tagger, the moves still to do, and the one at hand, *)
(* whose copy is "cloned" in the directory moving/ or "renamed", which is  *)
(* within the lock of the working set.                                     *)
MoverStates == [stage : {"ready", "cloned", "renamed"}, tagged : SUBSET Moves, todo : SUBSET Moves,
                current : SUBSET Moves]
Idle == [stage |-> "ready", tagged |-> {}, todo |-> {}, current |-> {}]

(* A task: its sources, the part it makes and where, and whether that is   *)
(* one without rows.                                                       *)
Tasks == [kind : {"none", "merge", "mutate", "drop"}, stage : {"run", "renamed"},
          sources : SUBSET Objects, result : SUBSET Objects, empty : BOOLEAN]
NoTask == [kind |-> "none", stage |-> "run", sources |-> {}, result |-> {}, empty |-> FALSE]

TypeOK ==
    /\ increment \in 0..MaxBlock
    /\ DOMAIN working \subseteq PartInfos
    /\ working \in [DOMAIN working -> [disk : Disks, state : States]]
    /\ empties \subseteq PartInfos
    /\ unloaded \subseteq Objects /\ doomed \subseteq Objects /\ dirs \subseteq Objects
    /\ query \in [Queries -> SUBSET Objects]
    /\ mover \in [Movers -> MoverStates]
    /\ task \in Tasks
    /\ phase \in {"up", "down"} /\ crashes \in 0..MaxCrashes

Put(f, p, v)  == [q \in DOMAIN f \cup {p} |-> IF q = p THEN v ELSE f[q]]
Without(f, S) == [q \in DOMAIN f \ S |-> f[q]]
modifyPartState(w, S, s) == [q \in DOMAIN w |-> IF q \in S THEN [w[q] EXCEPT !.state = s] ELSE w[q]]

In(s)        == {p \in DOMAIN working : working[p].state = s}
Active       == In("Active")
Object(p)    == <<p, working[p].disk>>
ObjectsOf(S) == {Object(p) : p \in S}
Parts(S)     == {o[1] : o \in S}

(* currently_moving_parts and currently_merging_mutating_parts.            *)
Moving == UNION {{mv.part : mv \in mover[m].tagged} : m \in Movers}
Merging == Parts(task.sources)

(* The objects that some thread points to.                                 *)
Held ==
    task.sources \cup (UNION {query[r] : r \in Queries})
    \cup (UNION {{<<mv.part, mv.from>> : mv \in mover[m].tagged} : m \in Movers})

(* No mover is inside its section of the data_parts lock.                  *)
Unlocked == phase = "up" /\ \A m \in Movers : mover[m].stage # "renamed"

(***************************************************************************)
(* Inserts and queries                                                     *)
(***************************************************************************)
commitPart ==
    /\ Unlocked /\ increment < MaxBlock
    /\ increment' = increment + 1
    /\ \E d \in Disks :
          LET p == [min |-> increment', max |-> increment', level |-> 0, mutation |-> 0] IN
          /\ working' = Put(working, p, [disk |-> d, state |-> "Active"])
          /\ dirs' = dirs \cup {<<p, d>>}
    /\ UNCHANGED <<empties, unloaded, doomed, query, mover, task, phase, crashes>>

getDataPartsVector(r) ==
    /\ Unlocked /\ query[r] = {}
    /\ crashes <= QueryCrashes
    /\ query' = [query EXCEPT ![r] = ObjectsOf(Active)]
    /\ UNCHANGED <<memory, doomed, mover, task, dirs, phase, crashes>>

releaseParts(r) ==
    /\ phase = "up" /\ query[r] # {}
    /\ query' = [query EXCEPT ![r] = {}]
    /\ UNCHANGED <<memory, doomed, mover, task, dirs, phase, crashes>>

(***************************************************************************)
(* Moves                                                                   *)
(***************************************************************************)
canMove(p) == p \notin Merging /\ p \notin Moving

(* The policy and the TTL rules choose any parts, and disks that they are  *)
(* not on; CurrentlyMovingPartsTagger.                                     *)
selectPartsForMove(m) ==
    /\ Unlocked /\ mover[m].tagged = {}
    /\ \E S \in (SUBSET {p \in Active : canMove(p)}) \ {{}} : \E to \in [S -> Disks] :
          /\ Cardinality(S) <= MaxBatch
          /\ \A p \in S : to[p] # working[p].disk
          /\ LET moves == {[part |-> p, from |-> working[p].disk, to |-> to[p]] : p \in S}
             IN mover' = [mover EXCEPT ![m] = [Idle EXCEPT !.tagged = moves, !.todo = moves]]
    /\ UNCHANGED <<memory, doomed, query, task, dirs, phase, crashes>>

(* MergeTreeData::moveParts: on with the next part, or ~CurrentlyMovingPartsTagger. *)
NextMove(mv, b) ==
    IF b.todo = {mv} THEN Idle ELSE [b EXCEPT !.stage = "ready", !.todo = @ \ {mv}, !.current = {}]

clonePart(m) ==
    /\ phase = "up" /\ mover[m].stage = "ready"
    /\ \E mv \in mover[m].todo :
          /\ <<mv.part, mv.from>> \in dirs
          /\ mover' = [mover EXCEPT ![m].stage = "cloned", ![m].current = {mv}]
    /\ UNCHANGED <<memory, doomed, query, task, dirs, phase, crashes>>

(* clonePart or swapClonedPart throws, e.g. because moves were cancelled:  *)
(* the copy in moving/ is temporary and goes, the other moves are given up. *)
movePartsThrows(m) ==
    /\ phase = "up" /\ mover[m].tagged # {} /\ mover[m].stage \in {"ready", "cloned"}
    /\ mover' = [mover EXCEPT ![m] = Idle]
    /\ UNCHANGED <<memory, doomed, query, task, dirs, phase, crashes>>

(* A faulty variant: parts in any state are looked at.                     *)
isActiveAnyState(p) == p \in DOMAIN working

(* getActiveContainingPart(name) returns the part itself, and swapActivePart *)
(* finds it among the Active parts.                                        *)
isActive(p) == p \in Active

(* swapClonedPart of a part that was merged, mutated or dropped meanwhile. *)
dropClonedPart(m) ==
    /\ Unlocked /\ mover[m].stage = "cloned"
    /\ \E mv \in mover[m].current :
          /\ ~isActive(mv.part)
          /\ mover' = [mover EXCEPT ![m] = NextMove(mv, @)]
    /\ UNCHANGED <<memory, doomed, query, task, dirs, phase, crashes>>

(* A faulty variant: a directory that is in the way is replaced.           *)
TargetFreeAlways(mv) == TRUE

(* renameTo, which does not remove a directory that exists (when there is  *)
(* one, it throws, see movePartsThrows).                                   *)
TargetFree(mv) == <<mv.part, mv.to>> \notin dirs

renameClonedPart(m) ==
    /\ Unlocked /\ mover[m].stage = "cloned"
    /\ \E mv \in mover[m].current :
          /\ isActive(mv.part) /\ TargetFree(mv)
          /\ dirs' = dirs \cup {<<mv.part, mv.to>>}
          /\ mover' = [mover EXCEPT ![m].stage = "renamed"]
    /\ UNCHANGED <<memory, doomed, query, task, phase, crashes>>

(* renameTo throws after the directory was renamed: the copy stays         *)
(* DeleteOnDestroy.                                                        *)
renameClonedPartThrows(m) ==
    /\ Unlocked /\ mover[m].stage = "cloned"
    /\ \E mv \in mover[m].current :
          /\ isActive(mv.part) /\ TargetFree(mv)
          /\ dirs' = dirs \cup {<<mv.part, mv.to>>}
          /\ doomed' = doomed \cup {<<mv.part, mv.to>>}
          /\ mover' = [mover EXCEPT ![m] = Idle]
    /\ UNCHANGED <<memory, query, task, phase, crashes>>

swapActivePart(m) ==
    /\ phase = "up" /\ mover[m].stage = "renamed"
    /\ \E mv \in mover[m].current :
          /\ working' = [working EXCEPT ![mv.part] = [disk |-> mv.to, state |-> "Active"]]
          /\ doomed' = doomed \cup {Object(mv.part)}
          /\ mover' = [mover EXCEPT ![m] = NextMove(mv, @)]
    /\ UNCHANGED <<increment, empties, unloaded, query, task, dirs, phase, crashes>>

(* ~IMergeTreeDataPart of an object whose last owner lets it go.           *)
removeIfNeeded ==
    /\ phase = "up"
    /\ \E o \in doomed \ Held :
          /\ doomed' = doomed \ {o}
          /\ dirs' = dirs \ {o}
    /\ UNCHANGED <<memory, query, mover, task, phase, crashes>>

(***************************************************************************)
(* Merges, mutations and drops.  They take the objects that are Active     *)
(* when they start; a move does not stop them, nor they a move.            *)
(***************************************************************************)
(* The comparison of the mutation versions of l and r is left out: parts   *)
(* may be merged here that the code would mutate first.  What lies in the  *)
(* gap between them is asked for its level only, here as there.            *)
canMergeParts(l, r) ==
    \A q \in DOMAIN working : Less(l, q) /\ Less(q, r) => q.level <= l.level \/ q.level <= r.level

PartsRange(l, r) == {q \in Active : ~Less(q, l) /\ ~Less(r, q)}

Neighbours(S) == {x \in S \X S : Less(x[1], x[2]) /\ \A q \in S : ~(Less(x[1], q) /\ Less(q, x[2]))}

IsMax(n, S) == n \in S /\ \A k \in S : k <= n

(* FutureMergedMutatedPart::assign.                                        *)
MergeResult(p, l, r) ==
    /\ p.min = l.min /\ p.max = r.max
    /\ p.level > 0 /\ IsMax(p.level - 1, {q.level : q \in PartsRange(l, r)})
    /\ IsMax(p.mutation, {q.mutation : q \in PartsRange(l, r)})

Start(kind, sources, p, d) ==
    task' = [kind |-> kind, stage |-> "run", sources |-> ObjectsOf(sources), result |-> {<<p, d>>},
             empty |-> kind = "drop" \/ sources \subseteq empties]

selectPartsToMerge ==
    /\ Unlocked /\ task = NoTask
    /\ \E l, r \in Active, d \in Disks, p \in PartInfos :
          /\ Less(l, r) /\ MergeResult(p, l, r)
          /\ \A x \in Neighbours(PartsRange(l, r)) : canMergeParts(x[1], x[2])
          /\ Start("merge", PartsRange(l, r), p, d)
    /\ UNCHANGED <<memory, doomed, query, mover, dirs, phase, crashes>>

(* The number of a mutation comes from the same counter as those of blocks. *)
(* The result is on the disk of the part: unchanged files are hard links.  *)
selectPartToMutate ==
    /\ Unlocked /\ task = NoTask /\ increment < MaxBlock
    /\ increment' = increment + 1
    /\ \E q \in Active :
          Start("mutate", {q}, [q EXCEPT !.mutation = increment'], working[q].disk)
    /\ UNCHANGED <<working, empties, unloaded, doomed, query, mover, dirs, phase, crashes>>

(* DROP PART: an empty part of the next level covers the part.             *)
coverPartWithEmptyPart ==
    /\ Unlocked /\ task = NoTask
    /\ \E q \in Active \ empties, d \in Disks :
          /\ q.level < MaxLevel
          /\ Start("drop", {q}, [q EXCEPT !.level = @ + 1], d)
    /\ UNCHANGED <<memory, doomed, query, mover, dirs, phase, crashes>>

Committed(w, o) ==
    Put(modifyPartState(w, CoveredParts(o[1], Active), "Outdated"), o[1],
        [disk |-> o[2], state |-> "Active"])

WithResult == IF task.empty THEN empties \cup Parts(task.result) ELSE empties

(* The working set takes p in: no part of its name, none that intersects.  *)
checkPart(p) == p \notin DOMAIN working /\ IntersectedParts(p, Active) = {}

(* renameMergedTemporaryPart: renameTempPartAndReplace, then renameParts,  *)
(* which DataParts has as steps of their own; then Transaction::commit.    *)
renameMergedTemporaryPart ==
    /\ Unlocked /\ task.kind \in {"merge", "drop"} /\ task.stage = "run"
    /\ \E o \in task.result :
          /\ checkPart(o[1])
          /\ working' = Put(working, o[1], [disk |-> o[2], state |-> "PreActive"])
          /\ dirs' = dirs \cup {o}
    /\ task' = [task EXCEPT !.stage = "renamed"]
    /\ empties' = WithResult
    /\ UNCHANGED <<increment, unloaded, doomed, query, mover, phase, crashes>>

commit ==
    /\ Unlocked /\ task.stage = "renamed"
    /\ \E o \in task.result : working' = Committed(working, o)
    /\ task' = NoTask
    /\ UNCHANGED <<increment, empties, unloaded, doomed, query, mover, dirs, phase, crashes>>

(* A mutation does all of it in one section of the lock.                   *)
commitMutation ==
    /\ Unlocked /\ task.kind = "mutate"
    /\ \E o \in task.result :
          /\ checkPart(o[1])
          /\ working' = Committed(working, o)
          /\ dirs' = dirs \cup {o}
    /\ empties' = WithResult
    /\ task' = NoTask
    /\ UNCHANGED <<increment, unloaded, doomed, query, mover, phase, crashes>>

cancel ==
    /\ phase = "up" /\ task.kind # "none" /\ task.stage = "run"
    /\ task' = NoTask
    /\ UNCHANGED <<memory, doomed, query, mover, dirs, phase, crashes>>

(***************************************************************************)
(* The cleanup thread: grabOldParts, the removal of the parts it took, and *)
(* the drop of empty parts.                                                *)
(***************************************************************************)
Removable ==
    {p \in In("Outdated") :
        /\ Object(p) \notin Held
        /\ p \in empties => CoveredParts(p, In("Outdated")) = {}}

grabOldParts ==
    /\ Unlocked /\ In("Deleting") = {}
    /\ \E S \in (SUBSET Removable) \ {{}} : working' = modifyPartState(working, S, "Deleting")
    /\ UNCHANGED <<increment, empties, unloaded, doomed, query, mover, task, dirs, phase, crashes>>

(* The removal of a directory and removePartsFinally, which only takes the *)
(* part out of the working set, are one step; see DataParts for both.      *)
clearPartsFromFilesystem ==
    /\ Unlocked
    /\ \E p \in In("Deleting") :
          /\ dirs' = dirs \ {Object(p)}
          /\ working' = Without(working, {p})
          /\ empties' = empties \ ({p} \ Parts(dirs'))
    /\ UNCHANGED <<increment, unloaded, doomed, query, mover, task, phase, crashes>>

clearEmptyParts ==
    /\ Unlocked /\ unloaded = {}
    /\ \E p \in Active \cap empties :
          /\ p \notin Merging
          /\ working' = modifyPartState(working, {p}, "Outdated")
    /\ UNCHANGED <<increment, empties, unloaded, doomed, query, mover, task, dirs, phase, crashes>>

(***************************************************************************)
(* Crash and restart                                                       *)
(***************************************************************************)
Crash ==
    /\ phase = "up" /\ crashes < MaxCrashes
    /\ phase' = "down" /\ crashes' = crashes + 1
    /\ increment' = 0 /\ working' = <<>> /\ unloaded' = {} /\ doomed' = {}
    /\ query' = [r \in Queries |-> {}]
    /\ mover' = [m \in Movers |-> Idle]
    /\ task' = NoTask
    /\ UNCHANGED <<empties, dirs>>

(* The most covering parts of a set.                                       *)
Tops(S) == {p \in S : \A q \in S \ {p} : ~contains(q, p)}

(* PartLoadingTree::add throws when two parts intersect.                   *)
Loadable == \A p, q \in Parts(dirs) : ~Intersect(p, q)

(* A faulty variant: a second copy of a part is left out of the tree.      *)
LaterOfOtherParts(disk) == {o \in dirs : o[1] \notin DOMAIN disk}

(* What is left for loadOutdatedDataParts once the parts of disk are loaded: *)
(* in the tree, a copy of the same name is a child of the one that came    *)
(* first, which need not be the one of the first disk: the sort of the     *)
(* directories by level is not stable.                                     *)
LoadedLater(disk) == {o \in dirs : ~(o[1] \in DOMAIN disk /\ disk[o[1]] = o[2])}

loadDataParts ==
    /\ phase = "down" /\ Loadable
    /\ \E disk \in [Tops(Parts(dirs)) -> Disks] :
          /\ \A p \in DOMAIN disk : <<p, disk[p]>> \in dirs
          /\ working' = [p \in DOMAIN disk |-> [disk |-> disk[p], state |-> "Active"]]
          /\ unloaded' = LoadedLater(disk)
    /\ \E n \in 0..MaxBlock :
          /\ n = 0 \/ \E p \in Parts(dirs) : n \in {p.max, p.mutation}
          /\ \A p \in Parts(dirs) : p.max <= n /\ p.mutation <= n
          /\ increment' = n
    /\ phase' = "up"
    /\ UNCHANGED <<empties, doomed, query, mover, task, dirs, crashes>>

(* A part that is known by now is a duplicate: its directory is removed.   *)
loadOutdatedDataParts ==
    /\ Unlocked
    /\ \E o \in unloaded :
          /\ unloaded' = unloaded \ {o}
          /\ IF o[1] \in DOMAIN working
             THEN dirs' = dirs \ {o} /\ UNCHANGED working
             ELSE working' = Put(working, o[1], [disk |-> o[2], state |-> "Outdated"]) /\ UNCHANGED dirs
    /\ UNCHANGED <<increment, empties, doomed, query, mover, task, phase, crashes>>

(***************************************************************************)
(* The specification                                                       *)
(***************************************************************************)
Init ==
    /\ increment = 0 /\ working = <<>> /\ empties = {} /\ unloaded = {} /\ doomed = {} /\ dirs = {}
    /\ query = [r \in Queries |-> {}]
    /\ mover = [m \in Movers |-> Idle]
    /\ task = NoTask
    /\ phase = "up" /\ crashes = 0

MoverStep(m) ==
    \/ selectPartsForMove(m) \/ clonePart(m) \/ movePartsThrows(m) \/ dropClonedPart(m)
    \/ renameClonedPart(m) \/ renameClonedPartThrows(m) \/ swapActivePart(m)

TaskStep ==
    \/ selectPartsToMerge \/ selectPartToMutate \/ coverPartWithEmptyPart
    \/ renameMergedTemporaryPart \/ commit \/ commitMutation \/ cancel

CleanupStep == grabOldParts \/ clearPartsFromFilesystem \/ clearEmptyParts

Next ==
    \/ commitPart
    \/ \E r \in Queries : getDataPartsVector(r) \/ releaseParts(r)
    \/ \E m \in Movers : MoverStep(m)
    \/ removeIfNeeded
    \/ TaskStep \/ CleanupStep
    \/ Crash \/ loadDataParts \/ loadOutdatedDataParts

Spec == Init /\ [][Next]_vars

(***************************************************************************)
(* Properties                                                              *)
(***************************************************************************)

(* Every object that can be read has its directory: those of the Active    *)
(* and Outdated parts and those that a query, a move or a task holds.  The *)
(* destructor of a moved original never removes the directory of the part  *)
(* that took its place, or of one that was moved back.                     *)
ReadableOnDisk ==
    phase = "up" => ObjectsOf(Active \cup In("Outdated")) \cup Held \subseteq dirs

Visible(S) == S \ empties

(* The Active parts once the result that has its directory is committed.   *)
AfterCommit ==
    IF task.stage = "renamed"
    THEN (Active \ {q \in Active : \E o \in task.result : contains(o[1], q)}) \cup Parts(task.result)
    ELSE Active

(* "If server goes down here we will get two copy of the part with the     *)
(* same name on different disks": at any moment a restart would show the   *)
(* parts that are Active now, no older version of one that was merged,     *)
(* mutated or dropped while it was moved; originals that wait for their    *)
(* destructor are not counted.                                             *)
RestartShowsActive ==
    phase = "up" => Visible(Tops(Parts(dirs \ doomed))) = Visible(AfterCommit)

(* "Avoids resurrection of old parts for MergeTree": the same, with the    *)
(* directories of moved originals that a query still holds counted in.     *)
NoOldPartReturns ==
    phase = "up" => Visible(Tops(Parts(dirs))) \subseteq Visible(AfterCommit)

(* The directories that a mover has renamed and whose objects it has not   *)
(* put into the working set yet.                                           *)
Copies ==
    UNION {{<<mv.part, mv.to>> : mv \in mover[m].current} : m \in {n \in Movers : mover[n].stage = "renamed"}}

(* No directory is forgotten: somebody will remove it or serves it.        *)
DirectoriesKnown ==
    phase = "up" => dirs \subseteq ObjectsOf(DOMAIN working) \cup doomed \cup unloaded \cup Copies
=============================================================================
