-------------------------- MODULE DataPartsProofs --------------------------
(***************************************************************************)
(* Theorems about the working set of data parts, for any number of         *)
(* writers, readers and cleaners, any bounds and any level constants.      *)
(***************************************************************************)
EXTENDS DataParts, PartInfoProofs, FiniteSetTheorems

USE BoundsAssumption, LevelAssumption

(***************************************************************************)
(* The inductive invariant, in parts.                                      *)
(***************************************************************************)
NewParts(w) == op[w].todo \cup op[w].precommitted

(* The parts that one operation adds do not overlap.                       *)
NewPartsDisjoint ==
    \A w \in Writers : \A p, q \in NewParts(w) : p = q \/ isDisjoint(p, q)

(* Nothing that is or will be Active lies beyond the block counter.        *)
BlocksHandedOut ==
    /\ \A p \in Active : p.max <= increment
    /\ \A w \in Writers : \A p \in NewParts(w) : p.max <= increment

(* While a directory waits to be loaded some Active part contains its part,*)
(* its name is free and nobody is about to use that name.                  *)
UnloadedCovered ==
    /\ \A u \in unloaded : u \in DOMAIN disk /\ \E a \in Active : contains(a, u)
    /\ UnloadedNamesFree
    /\ \A w \in Writers : op[w].todo \cap unloaded = {}

ActiveOnDisk == Active \subseteq DOMAIN disk

(* What an operation or a query holds is on disk, Active or Outdated.      *)
HeldParts ==
    /\ \A w \in Writers : op[w].sources \subseteq (Active \cup Outdated) \cap DOMAIN disk
    /\ \A r \in Readers : snapshot[r] \subseteq (Active \cup Outdated) \cap DOMAIN disk

(* The parts of a Transaction are PreActive and no other one's; they are   *)
(* on disk once they are renamed.                                          *)
TransactionParts ==
    /\ \A w \in Writers :
          /\ op[w].precommitted \subseteq In("PreActive")
          /\ op[w].need_rename \subseteq op[w].precommitted
          /\ op[w].precommitted \ op[w].need_rename \subseteq DOMAIN disk
    /\ \A w, v \in Writers : w = v \/ op[w].precommitted \cap op[v].precommitted = {}

Grabbed(c) == cleaner[c].todo \cup cleaner[c].done \cup cleaner[c].failed

(* The parts a cleaner grabbed are in the state Deleting and no other      *)
(* cleaner's; each is still to be removed, removed or failed.              *)
GrabbedParts ==
    /\ \A c \in Cleaners :
          /\ Grabbed(c) \subseteq In("Deleting")
          /\ cleaner[c].done \cap cleaner[c].failed = {}
          /\ cleaner[c].done \cap cleaner[c].todo = {}
          /\ cleaner[c].failed \cap cleaner[c].todo = {}
    /\ \A c, d \in Cleaners : c = d \/ Grabbed(c) \cap Grabbed(d) = {}

(* A crash leaves no thread and no part in memory.                         *)
DownEmpty ==
    phase # "up" =>
        /\ DOMAIN state = {} /\ unloaded = {}
        /\ \A w \in Writers : op[w] = NoOperation
        /\ \A r \in Readers : snapshot[r] = {}
        /\ \A c \in Cleaners : cleaner[c] = NoCleaning

IInv ==
    /\ TypeOK
    /\ ActiveDisjoint /\ NewPartsDisjoint
    /\ BlocksHandedOut /\ UnloadedCovered
    /\ ActiveOnDisk /\ HeldParts /\ TransactionParts /\ GrabbedParts
    /\ DownEmpty

(***************************************************************************)
(* Type correctness                                                        *)
(***************************************************************************)

(* Adding one part to a map of parts keeps it a map of parts.              *)
LEMMA PutStateType ==
    ASSUME NEW f, DOMAIN f \subseteq PartInfos, f \in [DOMAIN f -> States],
           NEW p \in PartInfos, NEW v \in States
    PROVE  /\ DOMAIN Put(f, p, v) = DOMAIN f \cup {p}
           /\ DOMAIN f \cup {p} \subseteq PartInfos
           /\ Put(f, p, v) \in [DOMAIN f \cup {p} -> States]
  BY DEF Put

(* Removing parts from a map of parts keeps it a map of parts.             *)
LEMMA WithoutStateType ==
    ASSUME NEW f, f \in [DOMAIN f -> States], NEW S
    PROVE  /\ DOMAIN Without(f, S) = DOMAIN f \ S
           /\ Without(f, S) \in [DOMAIN f \ S -> States]
  BY DEF Without

(* The maps of parts, as TypeOK types them.                                *)
LEMMA MapTypes ==
    ASSUME TypeOK
    PROVE  /\ DOMAIN state \subseteq PartInfos /\ state \in [DOMAIN state -> States]
           /\ rows \in [DOMAIN state -> SUBSET Rows]
           /\ DOMAIN disk \subseteq PartInfos /\ disk \in [DOMAIN disk -> SUBSET Rows]
  BY DEF TypeOK

(* Changing the state of parts adds and removes none.                      *)
LEMMA ModifyType ==
    ASSUME NEW f, f \in [DOMAIN f -> States], NEW S, NEW v \in States
    PROVE  /\ DOMAIN modifyPartState(f, S, v) = DOMAIN f
           /\ modifyPartState(f, S, v) \in [DOMAIN f -> States]
  BY DEF modifyPartState

LEMMA CommitType ==
    ASSUME NEW f, f \in [DOMAIN f -> States], NEW P, NEW act
    PROVE  /\ DOMAIN CommitState(f, P, act) = DOMAIN f
           /\ CommitState(f, P, act) \in [DOMAIN f -> States]
  BY DEF CommitState, States

LEMMA InitType == Init => TypeOK
  BY DEF Init, TypeOK, NoOperation, Operations, NoCleaning, Cleanings, PartInfos, Rows

(* The bookkeeping of a writer stays well typed.                           *)
LEMMA OperationType ==
    ASSUME NEW o \in Operations
    PROVE  /\ o.kind \in {"none", "merge", "drop"}
           /\ o.sources \subseteq PartInfos /\ o.todo \subseteq PartInfos
           /\ o.precommitted \subseteq PartInfos /\ o.need_rename \subseteq PartInfos
           /\ o.rows \subseteq Rows
  BY DEF Operations

LEMMA NoOperationType == NoOperation \in Operations /\ NoCleaning \in Cleanings
  BY DEF NoOperation, Operations, NoCleaning, Cleanings

(* A record of a merge or drop, as the two selecting actions build it.     *)
LEMMA NewOperationType ==
    ASSUME NEW k \in {"merge", "drop"}, NEW S \in SUBSET PartInfos, NEW T \in SUBSET PartInfos,
           NEW R \in SUBSET Rows
    PROVE  /\ [NoOperation EXCEPT !.kind = k, !.sources = S, !.todo = T, !.rows = R] \in Operations
           /\ [NoOperation EXCEPT !.kind = k, !.sources = S, !.todo = T] \in Operations
  BY DEF NoOperation, Operations

LEMMA RowsOfType ==
    ASSUME NEW D, NEW f \in [D -> SUBSET Rows], NEW S \in SUBSET D
    PROVE  RowsOf(S, f) \subseteq Rows
  BY DEF RowsOf

LEMMA rollbackType ==
    ASSUME TypeOK, NEW w \in Writers, NEW D, rollback(w, D)
    PROVE  /\ DOMAIN state' \subseteq PartInfos /\ state' \in [DOMAIN state' -> States]
           /\ rows' \in [DOMAIN state' -> SUBSET Rows]
           /\ unloaded' \subseteq PartInfos /\ increment' \in 0..MaxBlock
           /\ op' \in [Writers -> Operations]
           /\ snapshot' \in [Readers -> SUBSET PartInfos]
           /\ cleaner' \in [Cleaners -> Cleanings]
           /\ phase' \in {"up", "down"}
           /\ marked' \subseteq PartInfos
           /\ inserted' \subseteq Rows /\ doomed' \subseteq Rows
           /\ crashes' \in 0..MaxCrashes /\ removalFailures' \in 0..MaxRemovalFailures
  <1>1. "Outdated" \in States
    BY DEF States
  <1>2. DOMAIN state' = DOMAIN state /\ state' \in [DOMAIN state' -> States]
    BY <1>1, ModifyType DEF rollback, TypeOK
  <1>3. op' \in [Writers -> Operations]
    BY NoOperationType DEF rollback, TypeOK
  <1>4. marked' \subseteq PartInfos
    BY OperationType DEF rollback, TypeOK
  <1> QED
    <2>1. rows' \in [DOMAIN state' -> SUBSET Rows] /\ DOMAIN state' \subseteq PartInfos
      BY <1>2, MapTypes DEF rollback
    <2>2. UNCHANGED <<unloaded, increment, snapshot, cleaner, phase, inserted, doomed, crashes,
                      removalFailures>>
      BY DEF rollback, history
    <2> QED
      BY <1>2, <1>3, <1>4, <2>1, <2>2 DEF TypeOK

(***************************************************************************)
(* Every step keeps the types.                                             *)
(***************************************************************************)
LEMMA NextType == TypeOK /\ UnloadedCovered /\ [Next]_vars => TypeOK'
  <1> SUFFICES ASSUME TypeOK, UnloadedCovered, [Next]_vars
               PROVE  TypeOK'
    OBVIOUS
  <1> USE DEF memory, threads, stored, history, budget
  <1>1. CASE commitPart
    <2>1. NewPart \in PartInfos /\ {NewRow} \in SUBSET Rows
      BY <1>1 DEF commitPart, NewPart, PartInfos, TypeOK
    <2>2. "PreActive" \in States
      BY DEF States
    <2>3. DOMAIN state' \subseteq PartInfos /\ state' \in [DOMAIN state' -> States]
          /\ DOMAIN state' = DOMAIN state \cup {NewPart}
      <3>1. state' = CommitState(Put(state, NewPart, "PreActive"), {NewPart}, Active)
        BY <1>1 DEF commitPart, InsertPart
      <3>2. /\ DOMAIN Put(state, NewPart, "PreActive") = DOMAIN state \cup {NewPart}
            /\ DOMAIN state \cup {NewPart} \subseteq PartInfos
            /\ Put(state, NewPart, "PreActive") \in [DOMAIN state \cup {NewPart} -> States]
        BY <2>1, <2>2, MapTypes, PutStateType
      <3> QED
        BY <3>1, <3>2, CommitType
    <2>4. rows' \in [DOMAIN state' -> SUBSET Rows]
      <3>1. rows' = Put(rows, NewPart, {NewRow})
        BY <1>1 DEF commitPart, InsertPart
      <3> QED
        BY <2>1, <2>3, <3>1, MapTypes DEF Put
    <2>5. DOMAIN disk' \subseteq PartInfos /\ disk' \in [DOMAIN disk' -> SUBSET Rows]
      <3>1. disk' = Put(disk, NewPart, {NewRow})
        BY <1>1 DEF commitPart, InsertPart
      <3> QED
        BY <2>1, <3>1, MapTypes DEF Put
    <2>6. increment' \in 0..MaxBlock
      BY <1>1 DEF commitPart, TypeOK
    <2> QED
      BY <1>1, <2>1, <2>3, <2>4, <2>5, <2>6 DEF commitPart, InsertPart, TypeOK
  <1>2. CASE commitPartThrows
    <2>1. NewPart \in PartInfos /\ {NewRow} \in SUBSET Rows
      BY <1>2 DEF commitPartThrows, NewPart, PartInfos, TypeOK
    <2>2. DOMAIN disk' \subseteq PartInfos /\ disk' \in [DOMAIN disk' -> SUBSET Rows]
      <3>1. disk' = Put(disk, NewPart, {NewRow})
        BY <1>2 DEF commitPartThrows
      <3> QED
        BY <2>1, <3>1, MapTypes DEF Put
    <2>3. increment' \in 0..MaxBlock /\ failures' \in 0..MaxFailures
      BY <1>2 DEF commitPartThrows, TypeOK
    <2> QED
      BY <1>2, <2>1, <2>2, <2>3 DEF commitPartThrows, TypeOK
  <1>3. CASE \E w \in Writers : WriterStep(w)
    <2> SUFFICES ASSUME NEW w \in Writers, WriterStep(w)
                 PROVE  TypeOK'
      BY <1>3
    <2>0. op[w] \in Operations
      BY DEF TypeOK
    <2>1. CASE selectPartsToMerge(w)
      <3>1. PICK l \in Active, r \in Active, max_level \in 0..MaxLevel-1 :
               Less(l, r) /\ op' = [op EXCEPT ![w] = [NoOperation EXCEPT
                  !.kind = "merge", !.sources = PartsRange(l, r),
                  !.todo = {assign(l, r, max_level)}, !.rows = RowsOf(PartsRange(l, r), rows)]]
        BY <2>1 DEF selectPartsToMerge
      <3>2. l \in PartInfos /\ r \in PartInfos /\ PartsRange(l, r) \subseteq DOMAIN state
        BY DEF PartsRange, Active, In, TypeOK
      <3>3. l.min <= r.max
        BY <3>1, <3>2 DEF Less, SameBlocks, PartInfos
      <3>4. assign(l, r, max_level) \in PartInfos
        BY <3>2, <3>3 DEF assign, PartInfos
      <3>5. RowsOf(PartsRange(l, r), rows) \subseteq Rows
        BY <3>2, RowsOfType DEF TypeOK
      <3>6. op' \in [Writers -> Operations]
        BY <3>1, <3>2, <3>4, <3>5, NewOperationType DEF TypeOK
      <3> QED
        BY <2>1, <3>6 DEF selectPartsToMerge, TypeOK
    <2>2. CASE coverPartsWithEmptyParts(w)
      <3>1. PICK S \in SUBSET Active :
               /\ \A q \in S : q.level < MaxLevel
               /\ op' = [op EXCEPT ![w] = [NoOperation EXCEPT
                        !.kind = "drop", !.sources = S,
                        !.todo = {[q EXCEPT !.level = @ + 1] : q \in S}]]
               /\ doomed' = doomed \cup RowsOf(S, rows)
        BY <2>2 DEF coverPartsWithEmptyParts
      <3>2. S \subseteq PartInfos /\ S \subseteq DOMAIN state
        BY DEF Active, In, TypeOK
      <3>3. {[q EXCEPT !.level = @ + 1] : q \in S} \subseteq PartInfos
        BY <3>1, <3>2 DEF PartInfos
      <3>4. RowsOf(S, rows) \subseteq Rows
        BY <3>2, RowsOfType DEF TypeOK
      <3>5. op' \in [Writers -> Operations]
        BY <3>1, <3>2, <3>3, NewOperationType DEF TypeOK
      <3> QED
        BY <2>2, <3>1, <3>4, <3>5 DEF coverPartsWithEmptyParts, TypeOK
    <2>3. CASE cancel(w)
      BY <2>3, NoOperationType DEF cancel, TypeOK
    <2>4. CASE renameTempPartAndReplace(w)
      <3>1. PICK p \in op[w].todo :
               /\ state' = Put(state, p, "PreActive")
               /\ rows' = Put(rows, p, op[w].rows)
               /\ op' = [op EXCEPT ![w].todo = @ \ {p},
                              ![w].precommitted = @ \cup {p}, ![w].need_rename = @ \cup {p}]
        BY <2>4 DEF renameTempPartAndReplace
      <3>2. p \in PartInfos /\ op[w].rows \in SUBSET Rows
        BY <2>0, OperationType
      <3>3. "PreActive" \in States
        BY DEF States
      <3>4. DOMAIN state' \subseteq PartInfos /\ state' \in [DOMAIN state' -> States]
            /\ DOMAIN state' = DOMAIN state \cup {p}
        BY <3>1, <3>2, <3>3, MapTypes DEF Put
      <3>5. rows' \in [DOMAIN state' -> SUBSET Rows]
        <4>1. rows' = Put(rows, p, op[w].rows) /\ DOMAIN state' = DOMAIN state \cup {p}
          BY <3>1, <3>4
        <4> QED
          BY <3>2, <4>1, MapTypes DEF Put
      <3>6. op' \in [Writers -> Operations]
        <4>1. [op[w] EXCEPT !.todo = @ \ {p}, !.precommitted = @ \cup {p},
                            !.need_rename = @ \cup {p}] \in Operations
          BY <2>0, <3>2 DEF Operations
        <4>2. op' = [op EXCEPT ![w] = [op[w] EXCEPT !.todo = @ \ {p}, !.precommitted = @ \cup {p},
                            !.need_rename = @ \cup {p}]]
          BY <3>1 DEF TypeOK
        <4> QED
          BY <4>1, <4>2 DEF TypeOK
      <3> QED
        BY <2>4, <3>4, <3>5, <3>6 DEF renameTempPartAndReplace, TypeOK
    <2>5. CASE renameParts(w)
      <3>1. PICK p \in op[w].need_rename :
               /\ disk' = Put(disk, p, op[w].rows)
               /\ marked' = marked \ {p}
               /\ op' = [op EXCEPT ![w].need_rename = @ \ {p}]
        BY <2>5 DEF renameParts
      <3>2. p \in PartInfos /\ op[w].rows \in SUBSET Rows
        BY <2>0, OperationType
      <3>3. DOMAIN disk' \subseteq PartInfos /\ disk' \in [DOMAIN disk' -> SUBSET Rows]
        BY <3>1, <3>2, MapTypes DEF Put
      <3>4. op' \in [Writers -> Operations]
        BY <3>1, <3>2 DEF TypeOK, Operations
      <3> QED
        BY <2>5, <3>1, <3>3, <3>4 DEF renameParts, TypeOK
    <2>6. CASE commit(w)
      <3>1. DOMAIN state' = DOMAIN state /\ state' \in [DOMAIN state' -> States]
        BY <2>6, CommitType DEF commit, TypeOK
      <3> QED
        BY <2>6, <3>1, NoOperationType DEF commit, TypeOK
    <2>7. CASE checkPartThrows(w)
      BY <2>7, rollbackType DEF checkPartThrows, TypeOK
    <2>8. CASE renamePartsThrows(w)
      <3>1. DOMAIN disk' \subseteq PartInfos /\ disk' \in [DOMAIN disk' -> SUBSET Rows]
        <4>1. CASE UNCHANGED disk
          BY <4>1 DEF TypeOK
        <4>2. CASE \E p \in op[w].need_rename : disk' = Put(disk, p, op[w].rows)
          BY <2>0, <4>2, OperationType, MapTypes DEF Put
        <4> QED
          BY <2>8, <4>1, <4>2 DEF renamePartsThrows
      <3>2. failures' \in 0..MaxFailures
        BY <2>8 DEF renamePartsThrows, TypeOK
      <3>3. rollback(w, DOMAIN disk')
        BY <2>8 DEF renamePartsThrows
      <3> QED
        BY <3>1, <3>2, <3>3, rollbackType DEF TypeOK
    <2>9. CASE commitThrows(w)
      <3>1. failures' \in 0..MaxFailures /\ rollback(w, DOMAIN disk) /\ UNCHANGED disk
        BY <2>9 DEF commitThrows, TypeOK
      <3> QED
        BY <3>1, rollbackType DEF TypeOK
    <2> QED
      BY <2>1, <2>2, <2>3, <2>4, <2>5, <2>6, <2>7, <2>8, <2>9 DEF WriterStep
  <1>4. CASE \E r \in Readers : ReaderStep(r)
    <2> SUFFICES ASSUME NEW r \in Readers, ReaderStep(r)
                 PROVE  TypeOK'
      BY <1>4
    <2>1. Active \subseteq PartInfos
      BY DEF Active, In, TypeOK
    <2> QED
      BY <2>1 DEF ReaderStep, getDataPartsVectorForInternalUsage, releaseParts, TypeOK
  <1>5. CASE \E c \in Cleaners : CleanerStep(c)
    <2> SUFFICES ASSUME NEW c \in Cleaners, CleanerStep(c)
                 PROVE  TypeOK'
      BY <1>5
    <2>0. cleaner[c] \in Cleanings /\ "Deleting" \in States /\ "Outdated" \in States
      BY DEF TypeOK, States
    <2>1. CASE grabOldParts(c)
      <3>1. PICK S \in SUBSET Removable : state' = modifyPartState(state, S, "Deleting")
                                         /\ cleaner' = [cleaner EXCEPT ![c].todo = S]
        BY <2>1 DEF grabOldParts
      <3>2. S \subseteq PartInfos
        BY DEF Removable, Outdated, In, TypeOK
      <3>3. DOMAIN state' = DOMAIN state /\ state' \in [DOMAIN state' -> States]
        BY <2>0, <3>1, ModifyType DEF TypeOK
      <3>4. cleaner' \in [Cleaners -> Cleanings]
        BY <3>1, <3>2 DEF TypeOK, Cleanings
      <3> QED
        BY <2>1, <3>3, <3>4 DEF grabOldParts, TypeOK
    <2>2. CASE removePart(c)
      <3>1. PICK p \in cleaner[c].todo :
               /\ disk' = Without(disk, {p})
               /\ marked' = marked \ {p}
               /\ cleaner' = [cleaner EXCEPT ![c].todo = @ \ {p}, ![c].done = @ \cup {p}]
        BY <2>2 DEF removePart
      <3>2. DOMAIN disk' \subseteq PartInfos /\ disk' \in [DOMAIN disk' -> SUBSET Rows]
        BY <3>1, MapTypes DEF Without
      <3>3. cleaner' \in [Cleaners -> Cleanings]
        BY <3>1 DEF TypeOK, Cleanings
      <3> QED
        BY <2>2, <3>1, <3>2, <3>3 DEF removePart, TypeOK
    <2>3. CASE removePartThrows(c)
      <3>1. PICK p \in cleaner[c].todo :
               /\ \/ UNCHANGED stored
                  \/ disk' = Without(disk, {p}) /\ marked' = marked \ {p}
               /\ \E S \in {{p}, cleaner[c].todo} :
                     cleaner' = [cleaner EXCEPT ![c].todo = @ \ S, ![c].failed = @ \cup S]
        BY <2>3 DEF removePartThrows
      <3>2. DOMAIN disk' \subseteq PartInfos /\ disk' \in [DOMAIN disk' -> SUBSET Rows]
        BY <3>1, MapTypes DEF Without
      <3>3. cleaner' \in [Cleaners -> Cleanings]
        <4>1. PICK S \in {{p}, cleaner[c].todo} :
                 cleaner' = [cleaner EXCEPT ![c].todo = @ \ S, ![c].failed = @ \cup S]
          BY <3>1
        <4>2. S \subseteq PartInfos
          BY <2>0 DEF Cleanings
        <4> QED
          BY <2>0, <4>1, <4>2 DEF TypeOK, Cleanings
      <3>4. marked' \subseteq PartInfos
        BY <3>1 DEF TypeOK
      <3>5. removalFailures' \in 0..MaxRemovalFailures
        BY <2>3 DEF removePartThrows, TypeOK
      <3> QED
        BY <2>3, <3>2, <3>3, <3>4, <3>5 DEF removePartThrows, TypeOK
    <2>4. CASE rollbackDeletingParts(c)
      <3>1. DOMAIN state' = DOMAIN state /\ state' \in [DOMAIN state' -> States]
        BY <2>0, <2>4, ModifyType DEF rollbackDeletingParts, TypeOK
      <3>2. cleaner' \in [Cleaners -> Cleanings]
        BY <2>4 DEF rollbackDeletingParts, TypeOK, Cleanings
      <3> QED
        BY <2>4, <3>1, <3>2 DEF rollbackDeletingParts, TypeOK
    <2>5. CASE removePartsFinally(c)
      <3>1. DOMAIN state' = DOMAIN state \ cleaner[c].done /\ state' \in [DOMAIN state' -> States]
        BY <2>5, MapTypes, WithoutStateType DEF removePartsFinally
      <3>2. rows' \in [DOMAIN state' -> SUBSET Rows]
        BY <2>5, <3>1, MapTypes DEF removePartsFinally, Without
      <3>3. cleaner' \in [Cleaners -> Cleanings]
        BY <2>5 DEF removePartsFinally, TypeOK, Cleanings
      <3> QED
        BY <2>5, <3>1, <3>2, <3>3 DEF removePartsFinally, TypeOK
    <2> QED
      BY <2>1, <2>2, <2>3, <2>4, <2>5 DEF CleanerStep
  <1>6. CASE clearEmptyParts
    <2>1. PICK p \in Active : state' = modifyPartState(state, {p}, "Outdated")
      BY <1>6 DEF clearEmptyParts
    <2>2. "Outdated" \in States
      BY DEF States
    <2>3. DOMAIN state' = DOMAIN state /\ state' \in [DOMAIN state' -> States]
      BY <2>1, <2>2, ModifyType DEF TypeOK
    <2> QED
      BY <1>6, <2>3 DEF clearEmptyParts, TypeOK
  <1>7. CASE Crash
    BY <1>7, NoOperationType DEF Crash, TypeOK
  <1>8. CASE loadDataParts
    <2>1. PICK K \in PartLoadingTree, n \in 0..MaxBlock :
             /\ state' = [p \in Tops(K, marked) |-> IF p \in marked THEN "Outdated" ELSE "Active"]
             /\ rows' = [p \in Tops(K, marked) |-> disk[p]]
             /\ unloaded' = K \ Tops(K, marked)
             /\ increment' = n
      BY <1>8 DEF loadDataParts
    <2>2. K \subseteq DOMAIN disk /\ Tops(K, marked) \subseteq K
      BY DEF PartLoadingTree, Tops
    <2>3. DOMAIN state' = Tops(K, marked) /\ state' \in [DOMAIN state' -> States]
      BY <2>1 DEF States
    <2>4. rows' \in [DOMAIN state' -> SUBSET Rows]
      BY <2>1, <2>2, <2>3 DEF TypeOK
    <2>5. DOMAIN state' \subseteq PartInfos /\ unloaded' \subseteq PartInfos
      BY <2>1, <2>2, <2>3 DEF TypeOK
    <2> QED
      BY <1>8, <2>1, <2>3, <2>4, <2>5 DEF loadDataParts, TypeOK
  <1>10. CASE loadOutdatedDataParts
    <2>1. PICK p \in unloaded : /\ unloaded' = unloaded \ {p}
                                /\ state' = Put(state, p, "Outdated")
                                /\ rows' = Put(rows, p, disk[p])
      BY <1>10 DEF loadOutdatedDataParts
    <2>2. p \in PartInfos /\ disk[p] \in SUBSET Rows /\ "Outdated" \in States
      BY DEF TypeOK, UnloadedCovered, States
    <2>3. DOMAIN state' \subseteq PartInfos /\ state' \in [DOMAIN state' -> States]
          /\ DOMAIN state' = DOMAIN state \cup {p}
      BY <2>1, <2>2, MapTypes DEF Put
    <2>4. rows' \in [DOMAIN state' -> SUBSET Rows]
      <3>1. rows' = Put(rows, p, disk[p]) /\ DOMAIN state' = DOMAIN state \cup {p}
        BY <2>1, <2>3
      <3> QED
        BY <2>2, <3>1, MapTypes DEF Put
    <2> QED
      BY <1>10, <2>1, <2>3, <2>4 DEF loadOutdatedDataParts, TypeOK
  <1>11. CASE UNCHANGED vars
    BY <1>11 DEF vars, TypeOK
  <1> QED
    BY <1>1, <1>2, <1>3, <1>4, <1>5, <1>6, <1>7, <1>8, <1>10, <1>11 DEF Next

(***************************************************************************)
(* Lemmas on how steps change the sets of parts                            *)
(***************************************************************************)
LEMMA PartInfosAreInfos == PartInfos \subseteq AnyInfo
  BY DEF PartInfos, AnyInfo

Weight(p) == (p.max - p.min) + p.level + p.mutation

(* A part weighs more than any other part that it contains.                *)
LEMMA ContainerWeighsMore ==
    ASSUME NEW a \in AnyInfo, NEW b \in AnyInfo, contains(a, b), a # b
    PROVE  Weight(a) > Weight(b)
  <1>1. a.min <= b.min /\ a.max >= b.max /\ a.level >= b.level /\ a.mutation >= b.mutation
    BY DEF contains
  <1>2. a.min # b.min \/ a.max # b.max \/ a.level # b.level \/ a.mutation # b.mutation
    BY DEF AnyInfo
  <1> QED
    BY <1>1, <1>2 DEF AnyInfo, Weight

(* Among parts of bounded weight there is a heaviest one.                  *)
LEMMA HeaviestExists ==
    ASSUME NEW S \in SUBSET PartInfos, S # {}
    PROVE  \E h \in S : \A q \in S : Weight(q) <= Weight(h)
  <1> DEFINE N == MaxBlock + MaxLevel
             M == {N - Weight(q) : q \in S}
             R == {ss \in Nat \X Nat : ss[1] < ss[2]}
  <1>1. N \in Nat /\ \A q \in PartInfos : Weight(q) \in Nat /\ N - Weight(q) \in Nat
    BY DEF PartInfos, Weight
  <1>2. M \subseteq Nat /\ M # {}
    BY <1>1
  <1>3. IsWellFoundedOn(R, Nat)
    BY NatLessThanWellFounded, Zenon DEF OpToRel
  <1>4. PICK x \in M : \A y \in M : ~(<<y, x>> \in R)
    BY <1>2, <1>3, WFMin
  <1>5. \A y, z \in Nat : y < z => <<y, z>> \in R
    OBVIOUS
  <1>6. \A y \in M : y \in Nat /\ ~(y < x)
    BY <1>2, <1>4, <1>5
  <1>7. PICK h \in S : N - Weight(h) = x
    OBVIOUS
  <1> HIDE DEF N
  <1> QED
    BY <1>1, <1>6, <1>7

(* Every loaded directory that is not loaded at once lies below one that   *)
(* is loaded at once and becomes Active.                                   *)
LEMMA TopAbove ==
    ASSUME NEW K \in SUBSET PartInfos, NEW bad, NEW u \in K \ Tops(K, bad)
    PROVE  \E a \in Tops(K, bad) \ bad : contains(a, u)
  <1> DEFINE C == {q \in K \ bad : contains(q, u)}
  <1>1. C # {} /\ C \subseteq PartInfos
    BY DEF Tops
  <1>2. PICK h \in C : \A q \in C : Weight(q) <= Weight(h)
    BY <1>1, HeaviestExists
  <1>3. \A q \in K \ {h} : contains(q, h) => q \in bad
    <2> SUFFICES ASSUME NEW q \in K \ {h}, contains(q, h), q \notin bad
                 PROVE  FALSE
      OBVIOUS
    <2>1. q \in AnyInfo /\ h \in AnyInfo /\ u \in AnyInfo
      BY PartInfosAreInfos
    <2>2. contains(q, u)
      BY <2>1, ContainsTransitive
    <2>3. Weight(q) > Weight(h) /\ Weight(q) <= Weight(h)
      BY <1>2, <2>1, <2>2, ContainerWeighsMore
    <2>4. Weight(q) \in Int /\ Weight(h) \in Int
      BY <2>1 DEF Weight, AnyInfo
    <2> QED
      BY <2>3, <2>4
  <1> QED
    BY <1>3 DEF Tops

(* The parts that become Active at a restart do not overlap.               *)
LEMMA TopsDisjoint ==
    ASSUME NEW K \in SUBSET PartInfos, NEW bad, \A p, q \in K : ~Intersect(p, q)
    PROVE  PairwiseDisjoint(Tops(K, bad) \ bad)
  <1> SUFFICES ASSUME NEW a \in Tops(K, bad) \ bad, NEW b \in Tops(K, bad) \ bad, a # b
               PROVE  isDisjoint(a, b)
    BY DEF PairwiseDisjoint
  <1>1. a \in K /\ b \in K /\ ~contains(a, b) /\ ~contains(b, a)
    BY DEF Tops
  <1> QED
    BY <1>1 DEF Intersect

(***************************************************************************)
(* Transaction::commit and the insert.  st is the working set with the new *)
(* parts P already in it.                                                  *)
(***************************************************************************)
LEMMA CommitEffect ==
    ASSUME TypeOK, ActiveDisjoint, NEW st, NEW P,
           DOMAIN st = DOMAIN state \cup P, P \subseteq PartInfos,
           \A q \in DOMAIN state \ P : st[q] = state[q],
           P \cap Active = {}, PairwiseDisjoint(P),
           \A p \in P : IntersectedParts(p, Active) = {},
           state' = CommitState(st, P, Active)
    PROVE  /\ Active' \subseteq Active \cup P
           /\ ActiveDisjoint'
           /\ \A a \in Active : \E b \in Active' : contains(b, a)
           /\ Active \cup P \subseteq Active' \cup Outdated'
           /\ Outdated \subseteq Active' \cup Outdated'
           /\ In("PreActive") \ P \subseteq In("PreActive")'
           /\ In("Deleting") \ P \subseteq In("Deleting")'
  <1> DEFINE New == P \ Obsolete(P, Active)
             Old == Replaced(P, Active)
  <1>1. Active \subseteq PartInfos /\ Active \subseteq AnyInfo /\ P \subseteq AnyInfo
    BY PartInfosAreInfos DEF Active, In, TypeOK
  <1>2. \A q \in Old : q \in Active /\ \E p \in New : contains(p, q)
    BY <1>1, CoveredAreContained DEF Replaced
  <1>3. Obsolete(P, Active) \subseteq P
    BY DEF Obsolete
  <1>4. DOMAIN state' = DOMAIN state \cup P
    BY DEF CommitState
  <1>5. /\ \A q \in New : state'[q] = "Active"
        /\ \A q \in P \ New : state'[q] = "Outdated"
        /\ \A q \in Old : state'[q] = "Outdated"
        /\ \A q \in (DOMAIN state \ P) \ Old : state'[q] = state[q]
    <2>1. Active \subseteq DOMAIN state
      BY DEF Active, In
    <2>2. \A q \in DOMAIN st : state'[q] = IF q \in P \ Obsolete(P, Active) THEN "Active"
                ELSE IF q \in Obsolete(P, Active) \cup Replaced(P, Active) THEN "Outdated"
                ELSE st[q]
      BY DEF CommitState
    <2> QED
      BY <1>2, <1>3, <2>1, <2>2
  <1> HIDE DEF New, Old
  <1>6. Active' = (Active \ Old) \cup New
    <2>1. New \subseteq P
      BY DEF New
    <2> QED
      BY <1>2, <1>4, <1>5, <2>1 DEF Active, In
  <1>7. ActiveDisjoint'
    <2>1. PairwiseDisjoint(Active)
      BY DEF ActiveDisjoint, PairwiseDisjoint
    <2>2. \A p \in New, q \in Active \ Old : isDisjoint(p, q) /\ isDisjoint(q, p)
      <3> SUFFICES ASSUME NEW p \in New, NEW q \in Active \ Old
                   PROVE  isDisjoint(p, q) /\ isDisjoint(q, p)
        OBVIOUS
      <3>1. p \in P /\ CoveringParts(p, Active) = {} /\ IntersectedParts(p, Active) = {} /\ q # p
        BY DEF New, Obsolete
      <3>2. q \notin CoveredParts(p, Active)
        BY <3>1 DEF Old, New, Replaced
      <3>3. isDisjoint(p, q)
        BY <1>1, <2>1, <3>1, <3>2, WalkComplete
      <3> QED
        BY <1>1, <3>1, <3>3, DisjointSymmetric
    <2>3. New \subseteq P
      BY DEF New
    <2> QED
      BY <1>6, <2>1, <2>2, <2>3 DEF ActiveDisjoint, PairwiseDisjoint
  <1>8. \A a \in Active : \E b \in Active' : contains(b, a)
    <2> SUFFICES ASSUME NEW a \in Active
                 PROVE  \E b \in Active' : contains(b, a)
      OBVIOUS
    <2>1. contains(a, a)
      BY <1>1 DEF contains, SameBlocks, AnyInfo
    <2> QED
      BY <1>2, <1>6, <2>1
  <1>9. New \subseteq P
    BY DEF New
  <1>10. Active' \subseteq Active \cup P
    BY <1>6, <1>9
  <1>11. Active \cup P \subseteq Active' \cup Outdated'
    <2>1. \A q \in Old : q \in Outdated'
      BY <1>2, <1>4, <1>5 DEF Active, Outdated, In
    <2>2. \A q \in P \ New : q \in Outdated'
      BY <1>4, <1>5 DEF Outdated, In
    <2> QED
      BY <1>6, <2>1, <2>2
  <1>12. /\ Outdated \subseteq Active' \cup Outdated'
         /\ In("PreActive") \ P \subseteq In("PreActive")'
         /\ In("Deleting") \ P \subseteq In("Deleting")'
    BY <1>2, <1>4, <1>5, <1>11 DEF Active, Outdated, In
  <1> QED
    BY <1>7, <1>8, <1>10, <1>11, <1>12

(***************************************************************************)
(* Every action preserves the invariant.                                   *)
(***************************************************************************)
LEMMA commitPartInv == ASSUME IInv, TypeOK', commitPart PROVE IInv'
  <1> USE DEF memory, threads, stored, history, budget
  <1> DEFINE p == NewPart
  <1>1. p \in PartInfos /\ p.min = increment + 1 /\ p.max = increment + 1
    BY DEF commitPart, NewPart, PartInfos, IInv, TypeOK
  <1>2. /\ p \notin DOMAIN state /\ IntersectedParts(p, Active) = {}
        /\ state' = CommitState(Put(state, p, "PreActive"), {p}, Active)
        /\ disk' = Put(disk, p, {NewRow})
        /\ UNCHANGED <<op, snapshot, cleaner, unloaded, phase>>
        /\ increment' = increment + 1 /\ phase = "up"
    BY DEF commitPart, InsertPart, checkPart
  <1> HIDE DEF p
  <1>3. /\ DOMAIN Put(state, p, "PreActive") = DOMAIN state \cup {p}
        /\ \A q \in DOMAIN state \ {p} : Put(state, p, "PreActive")[q] = state[q]
        /\ DOMAIN disk' = DOMAIN disk \cup {p}
    BY <1>2 DEF Put
  <1>4. DOMAIN state' = DOMAIN state \cup {p}
    BY <1>2, <1>3 DEF CommitState
  <1>5. p \notin Active /\ p \notin Outdated /\ p \notin In("PreActive") /\ p \notin In("Deleting")
    BY <1>2 DEF Active, Outdated, In
  <1>6. /\ Active' \subseteq Active \cup {p}
        /\ ActiveDisjoint'
        /\ \A a \in Active : \E b \in Active' : contains(b, a)
        /\ Active \cup {p} \subseteq Active' \cup Outdated'
        /\ Outdated \subseteq Active' \cup Outdated'
        /\ In("PreActive") \subseteq In("PreActive")'
        /\ In("Deleting") \subseteq In("Deleting")'
    <2>1. PairwiseDisjoint({p}) /\ {p} \cap Active = {} /\ {p} \subseteq PartInfos
      BY <1>1, <1>5 DEF PairwiseDisjoint
    <2>2. /\ Active' \subseteq Active \cup {p}
          /\ ActiveDisjoint'
          /\ \A a \in Active : \E b \in Active' : contains(b, a)
          /\ Active \cup {p} \subseteq Active' \cup Outdated'
          /\ Outdated \subseteq Active' \cup Outdated'
          /\ In("PreActive") \ {p} \subseteq In("PreActive")'
          /\ In("Deleting") \ {p} \subseteq In("Deleting")'
      BY <1>2, <1>3, <2>1, CommitEffect DEF IInv
    <2> QED
      BY <1>5, <2>2
  <1>7. NewPartsDisjoint'
    BY <1>2 DEF IInv, NewPartsDisjoint, NewParts
  <1>8. BlocksHandedOut'
    <2>1. increment \in Int /\ \A q \in PartInfos : q.max \in Int
      BY DEF IInv, TypeOK, PartInfos
    <2>2. \A q \in Active : q \in PartInfos /\ q.max <= increment
      BY DEF IInv, TypeOK, Active, In, BlocksHandedOut
    <2>3. \A w \in Writers : \A q \in NewParts(w) : q \in PartInfos /\ q.max <= increment
      BY DEF IInv, TypeOK, Operations, NewParts, BlocksHandedOut
    <2>4. \A q \in Active' : q.max <= increment'
      BY <1>1, <1>2, <1>6, <2>1, <2>2
    <2>5. \A w \in Writers : \A q \in NewParts(w)' : q.max <= increment'
      BY <1>2, <2>1, <2>3 DEF NewParts
    <2> QED
      BY <2>4, <2>5 DEF BlocksHandedOut
  <1>9. UnloadedCovered'
    <2>1. \A u \in unloaded : u \in DOMAIN disk /\ \E a \in Active : contains(a, u)
      BY DEF IInv, UnloadedCovered
    <2>2. \A u \in unloaded' : u \in DOMAIN disk' /\ \E b \in Active' : contains(b, u)
      <3> SUFFICES ASSUME NEW u \in unloaded
                   PROVE  u \in DOMAIN disk' /\ \E b \in Active' : contains(b, u)
        BY <1>2
      <3>1. PICK a \in Active : contains(a, u)
        BY <2>1
      <3>2. PICK b \in Active' : contains(b, a)
        BY <1>6
      <3>3. u \in AnyInfo /\ a \in AnyInfo /\ b \in AnyInfo
        BY PartInfosAreInfos DEF IInv, TypeOK, Active, In
      <3> QED
        BY <1>3, <2>1, <3>1, <3>2, <3>3, ContainsTransitive
    <2>3. p \notin unloaded
      <3> SUFFICES ASSUME p \in unloaded
                   PROVE  FALSE
        OBVIOUS
      <3>1. PICK a \in Active : contains(a, p)
        BY <2>1
      <3>2. a \in PartInfos /\ a.max <= increment /\ a.max >= p.max /\ increment \in Int
        BY <3>1 DEF IInv, TypeOK, Active, In, BlocksHandedOut, contains
      <3> QED
        BY <1>1, <3>2 DEF PartInfos
    <2>4. UnloadedNamesFree'
      BY <1>2, <1>4, <2>3 DEF IInv, UnloadedCovered, UnloadedNamesFree
    <2> QED
      BY <1>2, <2>2, <2>4 DEF IInv, UnloadedCovered
  <1>10. ActiveOnDisk'
    BY <1>3, <1>6 DEF IInv, ActiveOnDisk
  <1>11. HeldParts'
    BY <1>2, <1>3, <1>6 DEF IInv, HeldParts
  <1>12. TransactionParts'
    BY <1>2, <1>3, <1>6 DEF IInv, TransactionParts
  <1>13. GrabbedParts'
    BY <1>2, <1>6 DEF IInv, GrabbedParts, Grabbed
  <1>14. DownEmpty'
    BY <1>2 DEF DownEmpty
  <1> QED
    BY <1>6, <1>7, <1>8, <1>9, <1>10, <1>11, <1>12, <1>13, <1>14 DEF IInv

LEMMA commitPartThrowsInv == ASSUME IInv, TypeOK', commitPartThrows PROVE IInv'
  <1> USE DEF memory, threads, stored, history, budget
  <1>1. /\ DOMAIN disk \subseteq DOMAIN disk'
        /\ UNCHANGED <<state, op, snapshot, cleaner, unloaded, phase>>
        /\ increment' = increment + 1 /\ phase = "up"
    BY DEF commitPartThrows, Put
  <1>2. BlocksHandedOut'
    <2>1. increment \in Int /\ \A q \in PartInfos : q.max \in Int
      BY DEF IInv, TypeOK, PartInfos
    <2>2. \A q \in Active : q \in PartInfos /\ q.max <= increment
      BY DEF IInv, TypeOK, Active, In, BlocksHandedOut
    <2>3. \A w \in Writers : \A q \in NewParts(w) : q \in PartInfos /\ q.max <= increment
      BY DEF IInv, TypeOK, Operations, NewParts, BlocksHandedOut
    <2>4. \A q \in Active' : q.max <= increment'
      BY <1>1, <2>1, <2>2 DEF Active, In
    <2>5. \A w \in Writers : \A q \in NewParts(w)' : q.max <= increment'
      BY <1>1, <2>1, <2>3 DEF NewParts
    <2> QED
      BY <2>4, <2>5 DEF BlocksHandedOut
  <1>3. ActiveDisjoint' /\ NewPartsDisjoint' /\ ActiveOnDisk'
    BY <1>1 DEF IInv, ActiveDisjoint, NewPartsDisjoint, NewParts, ActiveOnDisk, Active, In
  <1>4. UnloadedCovered' /\ HeldParts' /\ TransactionParts'
    BY <1>1 DEF IInv, UnloadedCovered, UnloadedNamesFree, HeldParts, TransactionParts,
                Active, Outdated, In
  <1>5. GrabbedParts' /\ DownEmpty'
    BY <1>1 DEF IInv, GrabbedParts, Grabbed, DownEmpty, In
  <1> QED
    BY <1>2, <1>3, <1>4, <1>5 DEF IInv

(* A step that leaves parts, directories and cleaners alone and only gives *)
(* writer w the sources S and the new parts T, or takes them away.         *)
LEMMA AssignedInv ==
    ASSUME IInv, TypeOK', NEW w \in Writers, NEW o \in Operations,
           op' = [op EXCEPT ![w] = o], o.precommitted = {}, o.need_rename = {},
           o.sources \subseteq Active, PairwiseDisjoint(o.todo),
           \A q \in o.todo : q.max <= increment /\ q \notin unloaded,
           UNCHANGED <<state, unloaded, increment, disk, snapshot, cleaner, phase>>, phase = "up"
    PROVE  IInv'
  <1>1. op'[w] = o /\ \A v \in Writers : v # w => op'[v] = op[v]
    BY DEF IInv, TypeOK
  <1>2. NewParts(w)' = o.todo /\ \A v \in Writers : v # w => NewParts(v)' = NewParts(v)
    BY <1>1 DEF NewParts
  <1>3. ActiveDisjoint' /\ ActiveOnDisk' /\ GrabbedParts' /\ DownEmpty'
    BY DEF IInv, ActiveDisjoint, ActiveOnDisk, GrabbedParts, Grabbed, DownEmpty, Active, In
  <1>4. NewPartsDisjoint'
    BY <1>2 DEF IInv, NewPartsDisjoint, PairwiseDisjoint
  <1>5. BlocksHandedOut'
    BY <1>2 DEF IInv, BlocksHandedOut, Active, In
  <1>6. UnloadedCovered'
    BY <1>1 DEF IInv, UnloadedCovered, UnloadedNamesFree, Active, In
  <1>7. HeldParts'
    BY <1>1 DEF IInv, HeldParts, ActiveOnDisk, Active, Outdated, In
  <1>8. TransactionParts'
    BY <1>1 DEF IInv, TransactionParts, In
  <1> QED
    BY <1>3, <1>4, <1>5, <1>6, <1>7, <1>8 DEF IInv

LEMMA selectPartsToMergeInv ==
    ASSUME IInv, TypeOK', NEW w \in Writers, selectPartsToMerge(w) PROVE IInv'
  <1> USE DEF memory, threads, stored, history, budget
  <1>1. PICK l \in Active, r \in Active, max_level \in 0..MaxLevel-1 :
           Less(l, r) /\ op' = [op EXCEPT ![w] = [NoOperation EXCEPT
              !.kind = "merge", !.sources = PartsRange(l, r),
              !.todo = {assign(l, r, max_level)}, !.rows = RowsOf(PartsRange(l, r), rows)]]
    BY DEF selectPartsToMerge
  <1> DEFINE o == [NoOperation EXCEPT
              !.kind = "merge", !.sources = PartsRange(l, r),
              !.todo = {assign(l, r, max_level)}, !.rows = RowsOf(PartsRange(l, r), rows)]
             p == assign(l, r, max_level)
  <1>2. /\ o.sources = PartsRange(l, r) /\ o.todo = {p}
        /\ o.precommitted = {} /\ o.need_rename = {}
    BY DEF NoOperation
  <1>3. op' = [op EXCEPT ![w] = o]
    BY <1>1
  <1>4. o \in Operations
    <2>1. op'[w] = o
      BY <1>3 DEF IInv, TypeOK
    <2> QED
      BY <2>1 DEF TypeOK
  <1>5. PartsRange(l, r) \subseteq Active
    BY DEF PartsRange
  <1>6. l \in PartInfos /\ r \in PartInfos /\ l # r
    <2>1. l \in PartInfos /\ r \in PartInfos
      BY DEF IInv, TypeOK, Active, In
    <2> QED
      BY <1>1, <2>1, LessIrreflexive, PartInfosAreInfos
  <1>7. p.max = r.max /\ p.min = l.min
    BY DEF assign
  <1>8. p.max <= increment
    BY <1>7 DEF IInv, BlocksHandedOut
  <1>9. p \notin unloaded
    <2> SUFFICES ASSUME p \in unloaded
                 PROVE  FALSE
      OBVIOUS
    <2>1. PICK a \in Active : contains(a, p)
      BY DEF IInv, UnloadedCovered
    <2>2. a \in PartInfos
      BY DEF IInv, TypeOK, Active, In
    <2>3. l.min <= r.min
      BY <1>1, <1>6 DEF Less, SameBlocks, PartInfos
    <2>4. isDisjoint(l, r)
      BY <1>6 DEF IInv, ActiveDisjoint
    <2>5. ~isDisjoint(a, l) /\ ~isDisjoint(a, r)
      BY <1>6, <1>7, <2>1, <2>2, <2>3, <2>4 DEF contains, isDisjoint, PartInfos
    <2>6. a = l /\ a = r
      BY <2>5 DEF IInv, ActiveDisjoint
    <2> QED
      BY <1>6, <2>6
  <1>10. UNCHANGED <<state, unloaded, increment, disk, snapshot, cleaner, phase>> /\ phase = "up"
    BY DEF selectPartsToMerge
  <1>11. PairwiseDisjoint(o.todo)
    BY <1>2 DEF PairwiseDisjoint
  <1> HIDE DEF o, p
  <1> QED
    BY <1>2, <1>3, <1>4, <1>5, <1>8, <1>9, <1>10, <1>11, AssignedInv

LEMMA coverPartsWithEmptyPartsInv ==
    ASSUME IInv, TypeOK', NEW w \in Writers, coverPartsWithEmptyParts(w) PROVE IInv'
  <1> USE DEF memory, threads, stored, history, budget
  <1>1. PICK S \in SUBSET Active :
           op' = [op EXCEPT ![w] = [NoOperation EXCEPT
                    !.kind = "drop", !.sources = S,
                    !.todo = {[q EXCEPT !.level = @ + 1] : q \in S}]]
    BY DEF coverPartsWithEmptyParts
  <1> DEFINE o == [NoOperation EXCEPT
                    !.kind = "drop", !.sources = S,
                    !.todo = {[q EXCEPT !.level = @ + 1] : q \in S}]
             T == {[q EXCEPT !.level = @ + 1] : q \in S}
  <1>2. o.sources = S /\ o.todo = T /\ o.precommitted = {} /\ o.need_rename = {}
    BY DEF NoOperation
  <1>3. op' = [op EXCEPT ![w] = o]
    BY <1>1
  <1>4. o \in Operations
    <2>1. op'[w] = o
      BY <1>3 DEF IInv, TypeOK
    <2> QED
      BY <2>1 DEF TypeOK
  <1>5. S \subseteq PartInfos
    BY DEF IInv, TypeOK, Active, In
  <1>6. \A t \in T : \E q \in S : t = [q EXCEPT !.level = @ + 1] /\ SameBlocks(t, q)
                                  /\ t.level = q.level + 1
    BY <1>5 DEF SameBlocks, PartInfos
  <1>7. PairwiseDisjoint(T)
    <2> SUFFICES ASSUME NEW a \in T, NEW b \in T
                 PROVE  a = b \/ isDisjoint(a, b)
      BY DEF PairwiseDisjoint
    <2>1. PICK x \in S : a = [x EXCEPT !.level = @ + 1] /\ SameBlocks(a, x)
      BY <1>6
    <2>2. PICK y \in S : b = [y EXCEPT !.level = @ + 1] /\ SameBlocks(b, y)
      BY <1>6
    <2>3. x = y \/ isDisjoint(x, y)
      BY DEF IInv, ActiveDisjoint
    <2> QED
      BY <2>1, <2>2, <2>3 DEF SameBlocks, isDisjoint
  <1>8. \A t \in T : t.max <= increment /\ t \notin unloaded
    <2> SUFFICES ASSUME NEW t \in T
                 PROVE  t.max <= increment /\ t \notin unloaded
      OBVIOUS
    <2>1. PICK q \in S : SameBlocks(t, q) /\ t.level = q.level + 1
      BY <1>6
    <2>2. t.max <= increment
      BY <2>1 DEF SameBlocks, IInv, BlocksHandedOut
    <2>3. ASSUME t \in unloaded
          PROVE  FALSE
      <3>1. PICK a \in Active : contains(a, t)
        BY <2>3 DEF IInv, UnloadedCovered
      <3>2. a \in PartInfos /\ q \in PartInfos
        BY <1>5 DEF IInv, TypeOK, Active, In
      <3>3. ~isDisjoint(a, q)
        BY <2>1, <3>1, <3>2 DEF contains, isDisjoint, SameBlocks, PartInfos
      <3>4. a = q
        BY <3>3 DEF IInv, ActiveDisjoint
      <3> QED
        BY <2>1, <3>1, <3>2, <3>4 DEF contains, PartInfos
    <2> QED
      BY <2>2, <2>3
  <1>9. UNCHANGED <<state, unloaded, increment, disk, snapshot, cleaner, phase>> /\ phase = "up"
    BY DEF coverPartsWithEmptyParts
  <1> HIDE DEF o, T
  <1> QED
    BY <1>2, <1>3, <1>4, <1>7, <1>8, <1>9, AssignedInv

LEMMA cancelInv == ASSUME IInv, TypeOK', NEW w \in Writers, cancel(w) PROVE IInv'
  <1> USE DEF memory, threads, stored, history, budget
  <1>1. /\ op' = [op EXCEPT ![w] = NoOperation] /\ phase = "up"
        /\ UNCHANGED <<state, unloaded, increment, disk, snapshot, cleaner, phase>>
    BY DEF cancel
  <1>2. /\ NoOperation.precommitted = {} /\ NoOperation.need_rename = {}
        /\ NoOperation.sources = {} /\ NoOperation.todo = {}
    BY DEF NoOperation
  <1> QED
    BY <1>1, <1>2, NoOperationType, AssignedInv DEF PairwiseDisjoint

LEMMA renameTempPartAndReplaceInv ==
    ASSUME IInv, TypeOK', NEW w \in Writers, renameTempPartAndReplace(w) PROVE IInv'
  <1> USE DEF memory, threads, stored, history, budget
  <1>1. PICK p \in op[w].todo :
           /\ p \notin DOMAIN state
           /\ state' = Put(state, p, "PreActive")
           /\ op' = [op EXCEPT ![w].todo = @ \ {p},
                          ![w].precommitted = @ \cup {p}, ![w].need_rename = @ \cup {p}]
    BY DEF renameTempPartAndReplace, checkPart
  <1>2. UNCHANGED <<unloaded, increment, disk, snapshot, cleaner, phase>> /\ phase = "up"
    BY DEF renameTempPartAndReplace
  <1>3. /\ op'[w].todo = op[w].todo \ {p} /\ op'[w].sources = op[w].sources
        /\ op'[w].precommitted = op[w].precommitted \cup {p}
        /\ op'[w].need_rename = op[w].need_rename \cup {p}
        /\ \A v \in Writers : v # w => op'[v] = op[v]
    BY <1>1 DEF IInv, TypeOK, Operations
  <1>4. /\ DOMAIN state' = DOMAIN state \cup {p} /\ state'[p] = "PreActive"
        /\ \A q \in DOMAIN state : state'[q] = state[q]
    BY <1>1 DEF Put
  <1>5. /\ Active' = Active /\ Outdated' = Outdated /\ In("Deleting")' = In("Deleting")
        /\ In("PreActive")' = In("PreActive") \cup {p}
    BY <1>1, <1>4 DEF Active, Outdated, In
  <1>6. \A v \in Writers : NewParts(v)' = NewParts(v)
    BY <1>3 DEF NewParts
  <1>7. ActiveDisjoint' /\ ActiveOnDisk' /\ DownEmpty'
    BY <1>2, <1>5 DEF IInv, ActiveDisjoint, ActiveOnDisk, DownEmpty
  <1>8. NewPartsDisjoint' /\ BlocksHandedOut'
    BY <1>2, <1>5, <1>6 DEF IInv, NewPartsDisjoint, BlocksHandedOut
  <1>9. UnloadedCovered'
    BY <1>1, <1>2, <1>3, <1>4, <1>5 DEF IInv, UnloadedCovered, UnloadedNamesFree
  <1>10. HeldParts'
    BY <1>2, <1>3, <1>5 DEF IInv, HeldParts
  <1>11. TransactionParts'
    <2>1. \A v \in Writers : op[v].precommitted \subseteq DOMAIN state
      BY DEF IInv, TransactionParts, In
    <2>2. \A v \in Writers : p \notin op[v].precommitted
      BY <1>1, <2>1
    <2>3. \A v \in Writers :
             /\ op[v].precommitted \subseteq In("PreActive")
             /\ op[v].need_rename \subseteq op[v].precommitted
             /\ op[v].precommitted \ op[v].need_rename \subseteq DOMAIN disk
      BY DEF IInv, TransactionParts
    <2>4. \A v \in Writers :
             /\ op'[v].precommitted \subseteq In("PreActive")'
             /\ op'[v].need_rename \subseteq op'[v].precommitted
             /\ op'[v].precommitted \ op'[v].need_rename \subseteq DOMAIN disk'
      BY <1>2, <1>3, <1>5, <2>3
    <2>5. \A u, v \in Writers : u = v \/ op[u].precommitted \cap op[v].precommitted = {}
      BY DEF IInv, TransactionParts
    <2>6. \A u, v \in Writers : u = v \/ op'[u].precommitted \cap op'[v].precommitted = {}
      BY <1>3, <2>2, <2>5
    <2> QED
      BY <2>4, <2>6 DEF TransactionParts
  <1>12. GrabbedParts'
    BY <1>2, <1>5 DEF IInv, GrabbedParts, Grabbed
  <1> QED
    BY <1>7, <1>8, <1>9, <1>10, <1>11, <1>12 DEF IInv

LEMMA renamePartsInv == ASSUME IInv, TypeOK', NEW w \in Writers, renameParts(w) PROVE IInv'
  <1> USE DEF memory, threads, stored, history, budget
  <1>1. PICK p \in op[w].need_rename :
           /\ disk' = Put(disk, p, op[w].rows)
           /\ op' = [op EXCEPT ![w].need_rename = @ \ {p}]
    BY DEF renameParts
  <1>2. UNCHANGED <<state, unloaded, increment, snapshot, cleaner, phase>> /\ phase = "up"
    BY DEF renameParts
  <1>3. /\ op'[w].todo = op[w].todo /\ op'[w].sources = op[w].sources
        /\ op'[w].precommitted = op[w].precommitted
        /\ op'[w].need_rename = op[w].need_rename \ {p}
        /\ \A v \in Writers : v # w => op'[v] = op[v]
    BY <1>1 DEF IInv, TypeOK, Operations
  <1>4. DOMAIN disk' = DOMAIN disk \cup {p}
    BY <1>1 DEF Put
  <1>5. \A v \in Writers : NewParts(v)' = NewParts(v)
    BY <1>3 DEF NewParts
  <1>6. /\ Active' = Active /\ Outdated' = Outdated /\ In("Deleting")' = In("Deleting")
        /\ In("PreActive")' = In("PreActive")
    BY <1>2 DEF Active, Outdated, In
  <1>7. ActiveDisjoint' /\ ActiveOnDisk' /\ DownEmpty'
    BY <1>2, <1>4, <1>6 DEF IInv, ActiveDisjoint, ActiveOnDisk, DownEmpty
  <1>8. NewPartsDisjoint' /\ BlocksHandedOut'
    BY <1>2, <1>5, <1>6 DEF IInv, NewPartsDisjoint, BlocksHandedOut
  <1>9. UnloadedCovered'
    BY <1>2, <1>3, <1>4, <1>6 DEF IInv, UnloadedCovered, UnloadedNamesFree
  <1>10. HeldParts'
    BY <1>2, <1>3, <1>4, <1>6 DEF IInv, HeldParts
  <1>11. TransactionParts'
    BY <1>2, <1>3, <1>4, <1>6 DEF IInv, TransactionParts
  <1>12. GrabbedParts'
    BY <1>2, <1>6 DEF IInv, GrabbedParts, Grabbed
  <1> QED
    BY <1>7, <1>8, <1>9, <1>10, <1>11, <1>12 DEF IInv

LEMMA commitInv == ASSUME IInv, TypeOK', NEW w \in Writers, commit(w) PROVE IInv'
  <1> USE DEF memory, threads, stored, history, budget
  <1> DEFINE P == op[w].precommitted
  <1>1. /\ op[w].need_rename = {}
        /\ \A p \in P : IntersectedParts(p, Active) = {}
        /\ state' = CommitState(state, P, Active)
        /\ op' = [op EXCEPT ![w] = NoOperation]
        /\ UNCHANGED <<unloaded, increment, disk, snapshot, cleaner, phase>> /\ phase = "up"
    BY DEF commit
  <1>2. /\ P \subseteq In("PreActive") /\ P \subseteq DOMAIN disk /\ P \subseteq DOMAIN state
        /\ P \subseteq PartInfos /\ P \cap Active = {} /\ P \cap In("Deleting") = {}
        /\ PairwiseDisjoint(P)
    <2>1. P \subseteq In("PreActive") /\ P \subseteq DOMAIN disk
      BY <1>1 DEF IInv, TransactionParts
    <2>2. P \subseteq DOMAIN state /\ P \subseteq PartInfos
      BY <2>1 DEF IInv, TypeOK, In
    <2>3. P \cap Active = {} /\ P \cap In("Deleting") = {}
      BY <2>1 DEF Active, In
    <2>4. PairwiseDisjoint(P)
      BY DEF IInv, NewPartsDisjoint, NewParts, PairwiseDisjoint
    <2> QED
      BY <2>1, <2>2, <2>3, <2>4
  <1>3. /\ op'[w] = NoOperation /\ \A v \in Writers : v # w => op'[v] = op[v]
    BY <1>1 DEF IInv, TypeOK
  <1>4. /\ NoOperation.precommitted = {} /\ NoOperation.need_rename = {}
        /\ NoOperation.sources = {} /\ NoOperation.todo = {}
    BY DEF NoOperation
  <1>5. DOMAIN state' = DOMAIN state
    BY <1>1 DEF CommitState
  <1>6. DOMAIN state = DOMAIN state \cup P
    BY <1>2
  <1>7. \A p \in P : p.max <= increment
    BY DEF IInv, BlocksHandedOut, NewParts
  <1>8. \A v \in Writers : v # w => op[v].precommitted \cap P = {}
    BY DEF IInv, TransactionParts
  <1> HIDE DEF P
  <1>9. /\ Active' \subseteq Active \cup P
        /\ ActiveDisjoint'
        /\ \A a \in Active : \E b \in Active' : contains(b, a)
        /\ Active \cup P \subseteq Active' \cup Outdated'
        /\ Outdated \subseteq Active' \cup Outdated'
        /\ In("PreActive") \ P \subseteq In("PreActive")'
        /\ In("Deleting") \ P \subseteq In("Deleting")'
    BY <1>1, <1>2, <1>6, CommitEffect DEF IInv
  <1>10. NewPartsDisjoint'
    BY <1>3, <1>4 DEF IInv, NewPartsDisjoint, NewParts
  <1>11. BlocksHandedOut'
    BY <1>1, <1>3, <1>4, <1>7, <1>9 DEF IInv, BlocksHandedOut, NewParts
  <1>12. UnloadedCovered'
    <2>1. \A u \in unloaded' : u \in DOMAIN disk' /\ \E b \in Active' : contains(b, u)
      <3> SUFFICES ASSUME NEW u \in unloaded
                   PROVE  u \in DOMAIN disk /\ \E b \in Active' : contains(b, u)
        BY <1>1
      <3>1. PICK a \in Active : contains(a, u) /\ u \in DOMAIN disk
        BY DEF IInv, UnloadedCovered
      <3>2. PICK b \in Active' : contains(b, a)
        BY <1>9
      <3>3. u \in AnyInfo /\ a \in AnyInfo /\ b \in AnyInfo
        BY PartInfosAreInfos DEF IInv, TypeOK, Active, In
      <3> QED
        BY <3>1, <3>2, <3>3, ContainsTransitive
    <2>2. UnloadedNamesFree'
      BY <1>1, <1>5 DEF IInv, UnloadedCovered, UnloadedNamesFree
    <2> QED
      BY <1>1, <1>3, <1>4, <2>1, <2>2 DEF IInv, UnloadedCovered
  <1>13. ActiveOnDisk'
    BY <1>1, <1>2, <1>9 DEF IInv, ActiveOnDisk
  <1>14. HeldParts'
    BY <1>1, <1>3, <1>4, <1>9 DEF IInv, HeldParts
  <1>15. TransactionParts'
    <2>1. \A v \in Writers :
             /\ op'[v].precommitted \subseteq In("PreActive")'
             /\ op'[v].need_rename \subseteq op'[v].precommitted
             /\ op'[v].precommitted \ op'[v].need_rename \subseteq DOMAIN disk'
      BY <1>1, <1>3, <1>4, <1>8, <1>9 DEF IInv, TransactionParts
    <2>2. \A u, v \in Writers : u = v \/ op'[u].precommitted \cap op'[v].precommitted = {}
      BY <1>3, <1>4 DEF IInv, TransactionParts
    <2> QED
      BY <2>1, <2>2 DEF TransactionParts
  <1>16. GrabbedParts'
    BY <1>1, <1>2, <1>9 DEF IInv, GrabbedParts, Grabbed
  <1>17. DownEmpty'
    BY <1>1 DEF DownEmpty
  <1> QED
    BY <1>9, <1>10, <1>11, <1>12, <1>13, <1>14, <1>15, <1>16, <1>17 DEF IInv

(* Rolling back changes no part but those of the Transaction.              *)
LEMMA rollbackInv ==
    ASSUME IInv, TypeOK', NEW w \in Writers, NEW D, rollback(w, D), phase = "up",
           DOMAIN disk \subseteq DOMAIN disk'
    PROVE  IInv'
  <1> DEFINE P == op[w].precommitted
  <1>1. /\ state' = modifyPartState(state, P, "Outdated")
        /\ op' = [op EXCEPT ![w] = NoOperation]
        /\ UNCHANGED <<unloaded, increment, snapshot, cleaner, phase>>
    BY DEF rollback
  <1>2. op'[w] = NoOperation /\ \A v \in Writers : v # w => op'[v] = op[v]
    BY <1>1 DEF IInv, TypeOK
  <1>3. /\ NoOperation.precommitted = {} /\ NoOperation.need_rename = {}
        /\ NoOperation.sources = {} /\ NoOperation.todo = {}
    BY DEF NoOperation
  <1>4. P \subseteq In("PreActive") /\ P \subseteq DOMAIN state
        /\ \A v \in Writers : v # w => op[v].precommitted \cap P = {}
    BY DEF IInv, TransactionParts, In
  <1> HIDE DEF P
  <1>5. DOMAIN state' = DOMAIN state
        /\ \A q \in DOMAIN state : state'[q] = IF q \in P THEN "Outdated" ELSE state[q]
    BY <1>1 DEF modifyPartState
  <1>6. /\ Active' = Active /\ Outdated' = Outdated \cup P
        /\ In("PreActive")' = In("PreActive") \ P /\ In("Deleting")' = In("Deleting")
    BY <1>4, <1>5 DEF Active, Outdated, In
  <1>7. ActiveDisjoint' /\ ActiveOnDisk' /\ DownEmpty'
    BY <1>1, <1>6 DEF IInv, ActiveDisjoint, ActiveOnDisk, DownEmpty
  <1>8. NewPartsDisjoint' /\ BlocksHandedOut'
    BY <1>1, <1>2, <1>3, <1>6 DEF IInv, NewPartsDisjoint, BlocksHandedOut, NewParts
  <1>9. UnloadedCovered'
    BY <1>1, <1>2, <1>3, <1>5, <1>6 DEF IInv, UnloadedCovered, UnloadedNamesFree
  <1>10. HeldParts'
    BY <1>1, <1>2, <1>3, <1>6 DEF IInv, HeldParts
  <1>11. TransactionParts'
    <2>1. \A v \in Writers :
             /\ op'[v].precommitted \subseteq In("PreActive")'
             /\ op'[v].need_rename \subseteq op'[v].precommitted
             /\ op'[v].precommitted \ op'[v].need_rename \subseteq DOMAIN disk'
      BY <1>2, <1>3, <1>4, <1>6 DEF IInv, TransactionParts
    <2>2. \A u, v \in Writers : u = v \/ op'[u].precommitted \cap op'[v].precommitted = {}
      BY <1>2, <1>3 DEF IInv, TransactionParts
    <2> QED
      BY <2>1, <2>2 DEF TransactionParts
  <1>12. GrabbedParts'
    BY <1>1, <1>6 DEF IInv, GrabbedParts, Grabbed
  <1> QED
    BY <1>7, <1>8, <1>9, <1>10, <1>11, <1>12 DEF IInv

LEMMA WriterInv == ASSUME IInv, TypeOK', NEW w \in Writers, WriterStep(w) PROVE IInv'
  <1>1. CASE checkPartThrows(w)
    BY <1>1, rollbackInv DEF checkPartThrows
  <1>2. CASE renamePartsThrows(w)
    <2>1. DOMAIN disk \subseteq DOMAIN disk'
      BY <1>2 DEF renamePartsThrows, Put
    <2> QED
      BY <1>2, <2>1, rollbackInv DEF renamePartsThrows
  <1>3. CASE commitThrows(w)
    BY <1>3, rollbackInv DEF commitThrows
  <1> QED
    BY <1>1, <1>2, <1>3, selectPartsToMergeInv, coverPartsWithEmptyPartsInv, cancelInv,
       renameTempPartAndReplaceInv, renamePartsInv, commitInv DEF WriterStep

LEMMA ReaderInv == ASSUME IInv, TypeOK', NEW r \in Readers, ReaderStep(r) PROVE IInv'
  <1> USE DEF memory, threads, stored, history, budget
  <1>1. /\ UNCHANGED <<state, unloaded, increment, disk, op, cleaner, phase>> /\ phase = "up"
        /\ snapshot' = [snapshot EXCEPT ![r] = Active] \/ snapshot' = [snapshot EXCEPT ![r] = {}]
    BY DEF ReaderStep, getDataPartsVectorForInternalUsage, releaseParts
  <1>2. HeldParts'
    <2>1. \A s \in Readers : snapshot'[s] \subseteq snapshot[s] \cup Active
      BY <1>1 DEF IInv, TypeOK
    <2> QED
      BY <1>1, <2>1 DEF IInv, HeldParts, ActiveOnDisk, Active, Outdated, In
  <1>3. ActiveDisjoint' /\ ActiveOnDisk' /\ NewPartsDisjoint' /\ BlocksHandedOut'
    BY <1>1 DEF IInv, ActiveDisjoint, ActiveOnDisk, NewPartsDisjoint, BlocksHandedOut, NewParts,
                Active, In
  <1>4. UnloadedCovered' /\ TransactionParts'
    BY <1>1 DEF IInv, UnloadedCovered, UnloadedNamesFree, TransactionParts, Active, In
  <1>5. GrabbedParts' /\ DownEmpty'
    BY <1>1 DEF IInv, GrabbedParts, Grabbed, DownEmpty, In
  <1> QED
    BY <1>2, <1>3, <1>4, <1>5 DEF IInv

LEMMA grabOldPartsInv == ASSUME IInv, TypeOK', NEW c \in Cleaners, grabOldParts(c) PROVE IInv'
  <1> USE DEF memory, threads, stored, history, budget
  <1>1. PICK S \in SUBSET Removable :
           state' = modifyPartState(state, S, "Deleting") /\ cleaner' = [cleaner EXCEPT ![c].todo = S]
    BY DEF grabOldParts
  <1>2. UNCHANGED <<unloaded, increment, disk, op, snapshot, phase>> /\ phase = "up"
        /\ cleaner[c] = NoCleaning
    BY DEF grabOldParts
  <1>3. S \subseteq Outdated /\ S \subseteq DOMAIN state
        /\ (\A w \in Writers : op[w].sources \cap S = {})
        /\ (\A r \in Readers : snapshot[r] \cap S = {})
    <2>1. S \subseteq Outdated /\ S \cap Shared = {}
      BY DEF Removable
    <2>2. \A w \in Writers : op[w].sources \subseteq Shared
      BY DEF Shared, Tagged
    <2>3. \A r \in Readers : snapshot[r] \subseteq Shared
      BY DEF Shared
    <2> QED
      BY <2>1, <2>2, <2>3 DEF Outdated, In
  <1>4. DOMAIN state' = DOMAIN state
        /\ \A q \in DOMAIN state : state'[q] = IF q \in S THEN "Deleting" ELSE state[q]
    BY <1>1 DEF modifyPartState
  <1>5. /\ Active' = Active /\ Outdated' = Outdated \ S /\ In("PreActive")' = In("PreActive")
        /\ In("Deleting")' = In("Deleting") \cup S /\ In("Deleting") \cap S = {}
    BY <1>3, <1>4 DEF Active, Outdated, In
  <1>6. ActiveDisjoint' /\ ActiveOnDisk' /\ DownEmpty'
    BY <1>2, <1>5 DEF IInv, ActiveDisjoint, ActiveOnDisk, DownEmpty
  <1>7. NewPartsDisjoint' /\ BlocksHandedOut'
    BY <1>2, <1>5 DEF IInv, NewPartsDisjoint, BlocksHandedOut, NewParts
  <1>8. UnloadedCovered' /\ TransactionParts'
    BY <1>2, <1>4, <1>5 DEF IInv, UnloadedCovered, UnloadedNamesFree, TransactionParts
  <1>9. HeldParts'
    BY <1>2, <1>3, <1>5 DEF IInv, HeldParts
  <1>10. GrabbedParts'
    <2>1. /\ cleaner'[c].todo = S /\ cleaner'[c].done = {} /\ cleaner'[c].failed = {}
          /\ \A d \in Cleaners : d # c => cleaner'[d] = cleaner[d]
      BY <1>1, <1>2 DEF IInv, TypeOK, Cleanings, NoCleaning
    <2>2. Grabbed(c)' = S /\ \A d \in Cleaners : d # c => Grabbed(d)' = Grabbed(d)
      BY <2>1 DEF Grabbed
    <2> QED
      BY <1>5, <2>1, <2>2 DEF IInv, GrabbedParts
  <1> QED
    BY <1>6, <1>7, <1>8, <1>9, <1>10 DEF IInv

(* Taking directories of grabbed parts away disturbs nobody else.          *)
LEMMA RemovalInv ==
    ASSUME IInv, TypeOK', NEW c \in Cleaners, NEW G \in SUBSET cleaner[c].todo,
           DOMAIN disk \ G \subseteq DOMAIN disk',
           UNCHANGED <<state, unloaded, increment, op, snapshot, phase>>, phase = "up",
           GrabbedParts'
    PROVE  IInv'
  <1>1. G \subseteq In("Deleting")
    BY DEF IInv, GrabbedParts, Grabbed
  <1>2. /\ Active' = Active /\ Outdated' = Outdated /\ In("PreActive")' = In("PreActive")
    BY DEF Active, Outdated, In
  <1>3. Active \cap G = {} /\ Outdated \cap G = {} /\ In("PreActive") \cap G = {}
        /\ G \subseteq DOMAIN state
    BY <1>1 DEF Active, Outdated, In
  <1>4. ActiveDisjoint' /\ NewPartsDisjoint' /\ BlocksHandedOut' /\ DownEmpty'
    BY <1>2 DEF IInv, ActiveDisjoint, NewPartsDisjoint, BlocksHandedOut, NewParts, DownEmpty
  <1>5. ActiveOnDisk'
    BY <1>2, <1>3 DEF IInv, ActiveOnDisk
  <1>6. UnloadedCovered'
    BY <1>2, <1>3 DEF IInv, UnloadedCovered, UnloadedNamesFree
  <1>7. HeldParts'
    BY <1>2, <1>3 DEF IInv, HeldParts
  <1>8. TransactionParts'
    BY <1>2, <1>3 DEF IInv, TransactionParts
  <1> QED
    BY <1>4, <1>5, <1>6, <1>7, <1>8 DEF IInv

LEMMA removePartInv == ASSUME IInv, TypeOK', NEW c \in Cleaners, removePart(c) PROVE IInv'
  <1> USE DEF memory, threads, stored, history, budget
  <1>1. PICK p \in cleaner[c].todo :
           /\ disk' = Without(disk, {p})
           /\ cleaner' = [cleaner EXCEPT ![c].todo = @ \ {p}, ![c].done = @ \cup {p}]
    BY DEF removePart
  <1>2. UNCHANGED <<state, unloaded, increment, op, snapshot, phase>> /\ phase = "up"
    BY DEF removePart
  <1>3. DOMAIN disk' = DOMAIN disk \ {p}
    BY <1>1 DEF Without
  <1>4. GrabbedParts'
    <2>1. /\ cleaner'[c].todo = cleaner[c].todo \ {p}
          /\ cleaner'[c].done = cleaner[c].done \cup {p}
          /\ cleaner'[c].failed = cleaner[c].failed
          /\ \A d \in Cleaners : d # c => cleaner'[d] = cleaner[d]
      BY <1>1 DEF IInv, TypeOK, Cleanings
    <2>2. \A d \in Cleaners : Grabbed(d)' = Grabbed(d)
      BY <2>1 DEF Grabbed
    <2>3. In("Deleting")' = In("Deleting")
      BY <1>2 DEF In
    <2> QED
      BY <2>1, <2>2, <2>3 DEF IInv, GrabbedParts
  <1> QED
    BY <1>2, <1>3, <1>4, RemovalInv

LEMMA removePartThrowsInv ==
    ASSUME IInv, TypeOK', NEW c \in Cleaners, removePartThrows(c) PROVE IInv'
  <1> USE DEF memory, threads, stored, history, budget
  <1>1. PICK p \in cleaner[c].todo :
           /\ UNCHANGED disk \/ disk' = Without(disk, {p})
           /\ \E S \in {{p}, cleaner[c].todo} :
                 cleaner' = [cleaner EXCEPT ![c].todo = @ \ S, ![c].failed = @ \cup S]
    BY DEF removePartThrows
  <1>2. PICK S \in {{p}, cleaner[c].todo} :
           cleaner' = [cleaner EXCEPT ![c].todo = @ \ S, ![c].failed = @ \cup S]
    BY <1>1
  <1>3. UNCHANGED <<state, unloaded, increment, op, snapshot, phase>> /\ phase = "up"
    BY DEF removePartThrows
  <1>4. DOMAIN disk \ {p} \subseteq DOMAIN disk'
    BY <1>1 DEF Without
  <1>5. GrabbedParts'
    <2>1. /\ cleaner'[c].todo = cleaner[c].todo \ S
          /\ cleaner'[c].done = cleaner[c].done
          /\ cleaner'[c].failed = cleaner[c].failed \cup S
          /\ \A d \in Cleaners : d # c => cleaner'[d] = cleaner[d]
      BY <1>2 DEF IInv, TypeOK, Cleanings
    <2>2. S \subseteq cleaner[c].todo
      OBVIOUS
    <2>3. \A d \in Cleaners : Grabbed(d)' = Grabbed(d)
      BY <2>1, <2>2 DEF Grabbed
    <2>4. In("Deleting")' = In("Deleting")
      BY <1>3 DEF In
    <2> QED
      BY <2>1, <2>2, <2>3, <2>4 DEF IInv, GrabbedParts
  <1> QED
    BY <1>3, <1>4, <1>5, RemovalInv

LEMMA rollbackDeletingPartsInv ==
    ASSUME IInv, TypeOK', NEW c \in Cleaners, rollbackDeletingParts(c) PROVE IInv'
  <1> USE DEF memory, threads, stored, history, budget
  <1> DEFINE F == cleaner[c].failed
  <1>1. /\ state' = modifyPartState(state, F, "Outdated") /\ cleaner[c].todo = {}
        /\ cleaner' = [cleaner EXCEPT ![c].failed = {}]
        /\ UNCHANGED <<unloaded, increment, disk, op, snapshot, phase>> /\ phase = "up"
    BY DEF rollbackDeletingParts
  <1>2. F \subseteq In("Deleting") /\ F \subseteq DOMAIN state /\ cleaner[c].done \cap F = {}
        /\ \A d \in Cleaners : d # c => Grabbed(d) \cap F = {}
    BY DEF IInv, GrabbedParts, Grabbed, In
  <1>3. /\ cleaner'[c].todo = {} /\ cleaner'[c].done = cleaner[c].done
        /\ cleaner'[c].failed = {}
        /\ \A d \in Cleaners : d # c => cleaner'[d] = cleaner[d]
    BY <1>1 DEF IInv, TypeOK, Cleanings
  <1> HIDE DEF F
  <1>4. DOMAIN state' = DOMAIN state
        /\ \A q \in DOMAIN state : state'[q] = IF q \in F THEN "Outdated" ELSE state[q]
    BY <1>1 DEF modifyPartState
  <1>5. /\ Active' = Active /\ Outdated' = Outdated \cup F /\ In("PreActive")' = In("PreActive")
        /\ In("Deleting")' = In("Deleting") \ F
    BY <1>2, <1>4 DEF Active, Outdated, In
  <1>6. ActiveDisjoint' /\ ActiveOnDisk' /\ DownEmpty'
    BY <1>1, <1>5 DEF IInv, ActiveDisjoint, ActiveOnDisk, DownEmpty
  <1>7. NewPartsDisjoint' /\ BlocksHandedOut'
    BY <1>1, <1>5 DEF IInv, NewPartsDisjoint, BlocksHandedOut, NewParts
  <1>8. UnloadedCovered' /\ TransactionParts'
    BY <1>1, <1>4, <1>5 DEF IInv, UnloadedCovered, UnloadedNamesFree, TransactionParts
  <1>9. HeldParts'
    BY <1>1, <1>5 DEF IInv, HeldParts
  <1>10. GrabbedParts'
    <2>1. /\ Grabbed(c)' = cleaner[c].done /\ cleaner[c].done \subseteq Grabbed(c)
          /\ \A d \in Cleaners : d # c => Grabbed(d)' = Grabbed(d)
      BY <1>3 DEF Grabbed
    <2>2. \A d \in Cleaners : Grabbed(d)' \subseteq Grabbed(d) \ F
      BY <1>2, <2>1
    <2> QED
      BY <1>3, <1>5, <2>2 DEF IInv, GrabbedParts
  <1> QED
    BY <1>6, <1>7, <1>8, <1>9, <1>10 DEF IInv

LEMMA removePartsFinallyInv ==
    ASSUME IInv, TypeOK', NEW c \in Cleaners, removePartsFinally(c) PROVE IInv'
  <1> USE DEF memory, threads, stored, history, budget
  <1> DEFINE G == cleaner[c].done
  <1>1. /\ state' = Without(state, G) /\ cleaner[c].todo = {} /\ cleaner[c].failed = {}
        /\ cleaner' = [cleaner EXCEPT ![c].done = {}]
        /\ UNCHANGED <<unloaded, increment, disk, op, snapshot, phase>> /\ phase = "up"
    BY DEF removePartsFinally
  <1>2. G \subseteq In("Deleting") /\ G \subseteq DOMAIN state
        /\ \A d \in Cleaners : d # c => Grabbed(d) \cap G = {}
    BY DEF IInv, GrabbedParts, Grabbed, In
  <1>3. /\ cleaner'[c].todo = {} /\ cleaner'[c].done = {} /\ cleaner'[c].failed = {}
        /\ \A d \in Cleaners : d # c => cleaner'[d] = cleaner[d]
    BY <1>1 DEF IInv, TypeOK, Cleanings
  <1> HIDE DEF G
  <1>4. DOMAIN state' = DOMAIN state \ G
        /\ \A q \in DOMAIN state \ G : state'[q] = state[q]
    BY <1>1 DEF Without
  <1>5. /\ Active' = Active /\ Outdated' = Outdated /\ In("PreActive")' = In("PreActive")
        /\ In("Deleting")' = In("Deleting") \ G
    BY <1>2, <1>4 DEF Active, Outdated, In
  <1>6. ActiveDisjoint' /\ ActiveOnDisk' /\ DownEmpty'
    BY <1>1, <1>5 DEF IInv, ActiveDisjoint, ActiveOnDisk, DownEmpty
  <1>7. NewPartsDisjoint' /\ BlocksHandedOut'
    BY <1>1, <1>5 DEF IInv, NewPartsDisjoint, BlocksHandedOut, NewParts
  <1>8. UnloadedCovered' /\ TransactionParts'
    BY <1>1, <1>4, <1>5 DEF IInv, UnloadedCovered, UnloadedNamesFree, TransactionParts
  <1>9. HeldParts'
    BY <1>1, <1>5 DEF IInv, HeldParts
  <1>10. GrabbedParts'
    <2>1. Grabbed(c)' = {} /\ \A d \in Cleaners : d # c => Grabbed(d)' = Grabbed(d)
      BY <1>3 DEF Grabbed
    <2>2. \A d \in Cleaners : Grabbed(d)' \subseteq Grabbed(d) \ G
      BY <1>2, <2>1
    <2> QED
      BY <1>3, <1>5, <2>2 DEF IInv, GrabbedParts
  <1> QED
    BY <1>6, <1>7, <1>8, <1>9, <1>10 DEF IInv

LEMMA clearEmptyPartsInv == ASSUME IInv, TypeOK', clearEmptyParts PROVE IInv'
  <1> USE DEF memory, threads, stored, history, budget
  <1>1. PICK p \in Active : state' = modifyPartState(state, {p}, "Outdated")
    BY DEF clearEmptyParts
  <1>2. /\ UNCHANGED <<unloaded, increment, disk, op, snapshot, cleaner, phase>> /\ phase = "up"
        /\ unloaded = {}
    BY DEF clearEmptyParts, outdated_data_parts_loading_finished
  <1>3. DOMAIN state' = DOMAIN state
        /\ \A q \in DOMAIN state : state'[q] = IF q = p THEN "Outdated" ELSE state[q]
    BY <1>1 DEF modifyPartState
  <1>4. /\ Active' = Active \ {p} /\ Outdated' = Outdated \cup {p}
        /\ In("PreActive")' = In("PreActive") /\ In("Deleting")' = In("Deleting")
    BY <1>3 DEF Active, Outdated, In
  <1>5. ActiveDisjoint' /\ ActiveOnDisk' /\ DownEmpty'
    BY <1>2, <1>4 DEF IInv, ActiveDisjoint, ActiveOnDisk, DownEmpty
  <1>6. NewPartsDisjoint' /\ BlocksHandedOut'
    BY <1>2, <1>4 DEF IInv, NewPartsDisjoint, BlocksHandedOut, NewParts
  <1>7. UnloadedCovered' /\ TransactionParts'
    BY <1>2, <1>4 DEF IInv, UnloadedCovered, UnloadedNamesFree, TransactionParts
  <1>8. HeldParts'
    BY <1>2, <1>4 DEF IInv, HeldParts
  <1>9. GrabbedParts'
    BY <1>2, <1>4 DEF IInv, GrabbedParts, Grabbed
  <1> QED
    BY <1>5, <1>6, <1>7, <1>8, <1>9 DEF IInv

(* With no thread running, most of the invariant says nothing.             *)
LEMMA IdleInv ==
    ASSUME TypeOK', ActiveDisjoint', ActiveOnDisk', DownEmpty',
           \A w \in Writers : op'[w] = NoOperation,
           \A r \in Readers : snapshot'[r] = {},
           \A c \in Cleaners : cleaner'[c] = NoCleaning,
           \A p \in Active' : p.max <= increment',
           \A u \in unloaded' : u \in DOMAIN disk' /\ \E a \in Active' : contains(a, u),
           UnloadedNamesFree'
    PROVE  IInv'
  <1>1. /\ NoOperation.precommitted = {} /\ NoOperation.need_rename = {}
        /\ NoOperation.sources = {} /\ NoOperation.todo = {}
        /\ NoCleaning.todo = {} /\ NoCleaning.done = {} /\ NoCleaning.failed = {}
    BY DEF NoOperation, NoCleaning
  <1>2. NewPartsDisjoint' /\ BlocksHandedOut'
    BY <1>1 DEF NewPartsDisjoint, BlocksHandedOut, NewParts
  <1>3. UnloadedCovered'
    BY <1>1 DEF UnloadedCovered
  <1>4. HeldParts'
    BY <1>1 DEF HeldParts
  <1>5. TransactionParts'
    BY <1>1 DEF TransactionParts
  <1>6. GrabbedParts'
    BY <1>1 DEF GrabbedParts, Grabbed
  <1> QED
    BY <1>2, <1>3, <1>4, <1>5, <1>6 DEF IInv

LEMMA CrashInv == ASSUME IInv, TypeOK', Crash PROVE IInv'
  <1>1. DOMAIN state' = {} /\ unloaded' = {}
    BY DEF Crash
  <1>2. /\ \A w \in Writers : op'[w] = NoOperation
        /\ \A r \in Readers : snapshot'[r] = {}
        /\ \A c \in Cleaners : cleaner'[c] = NoCleaning
    BY DEF Crash
  <1>3. Active' = {}
    BY <1>1 DEF Active, In
  <1>4. ActiveDisjoint' /\ ActiveOnDisk' /\ DownEmpty' /\ UnloadedNamesFree'
    BY <1>1, <1>2, <1>3 DEF ActiveDisjoint, ActiveOnDisk, DownEmpty, UnloadedNamesFree
  <1> QED
    BY <1>1, <1>2, <1>3, <1>4, IdleInv

LEMMA loadDataPartsInv == ASSUME IInv, TypeOK', loadDataParts PROVE IInv'
  <1> USE DEF memory, threads, stored, history, budget
  <1>1. PICK K \in PartLoadingTree, n \in 0..MaxBlock :
           /\ state' = [p \in Tops(K, marked) |-> IF p \in marked THEN "Outdated" ELSE "Active"]
           /\ unloaded' = K \ Tops(K, marked)
           /\ getMaxBlockNumber(n, Tops(K, marked)) /\ increment' = n
    BY DEF loadDataParts
  <1>2. UNCHANGED <<disk, op, snapshot, cleaner>> /\ phase = "down" /\ phase' = "up"
    BY DEF loadDataParts
  <1>3. /\ K \subseteq DOMAIN disk /\ K \in SUBSET PartInfos /\ Tops(K, marked) \subseteq K
        /\ \A p, q \in K : ~Intersect(p, q)
    BY DEF PartLoadingTree, Tops, IInv, TypeOK
  <1>4. Active' = Tops(K, marked) \ marked /\ DOMAIN state' = Tops(K, marked)
    BY <1>1 DEF Active, In
  <1>5. PairwiseDisjoint(Tops(K, marked) \ marked)
    BY <1>3, TopsDisjoint
  <1>6. /\ \A w \in Writers : op'[w] = NoOperation
        /\ \A r \in Readers : snapshot'[r] = {}
        /\ \A c \in Cleaners : cleaner'[c] = NoCleaning
    BY <1>2 DEF IInv, DownEmpty
  <1>7. \A p \in Active' : p.max <= increment'
    BY <1>1, <1>4 DEF getMaxBlockNumber
  <1>8. \A u \in unloaded' : u \in DOMAIN disk' /\ \E a \in Active' : contains(a, u)
    BY <1>1, <1>2, <1>3, <1>4, TopAbove
  <1>9. ActiveDisjoint' /\ ActiveOnDisk' /\ DownEmpty' /\ UnloadedNamesFree'
    BY <1>1, <1>2, <1>3, <1>4, <1>5
    DEF ActiveDisjoint, ActiveOnDisk, DownEmpty, UnloadedNamesFree, PairwiseDisjoint
  <1> QED
    BY <1>6, <1>7, <1>8, <1>9, IdleInv

LEMMA loadOutdatedDataPartsInv == ASSUME IInv, TypeOK', loadOutdatedDataParts PROVE IInv'
  <1> USE DEF memory, threads, stored, history, budget
  <1>1. PICK p \in unloaded : /\ p \notin DOMAIN state
                              /\ unloaded' = unloaded \ {p}
                              /\ state' = Put(state, p, "Outdated")
    BY DEF loadOutdatedDataParts
  <1>2. UNCHANGED <<increment, disk, op, snapshot, cleaner, phase>> /\ phase = "up"
    BY DEF loadOutdatedDataParts
  <1>3. /\ DOMAIN state' = DOMAIN state \cup {p} /\ state'[p] = "Outdated"
        /\ \A q \in DOMAIN state : state'[q] = state[q]
    BY <1>1 DEF Put
  <1>4. /\ Active' = Active /\ Outdated' = Outdated \cup {p} /\ In("Deleting")' = In("Deleting")
        /\ In("PreActive")' = In("PreActive")
    BY <1>1, <1>3 DEF Active, Outdated, In
  <1>5. ActiveDisjoint' /\ ActiveOnDisk' /\ DownEmpty'
    BY <1>2, <1>4 DEF IInv, ActiveDisjoint, ActiveOnDisk, DownEmpty
  <1>6. NewPartsDisjoint' /\ BlocksHandedOut'
    BY <1>2, <1>4 DEF IInv, NewPartsDisjoint, BlocksHandedOut, NewParts
  <1>7. UnloadedCovered' /\ TransactionParts'
    BY <1>1, <1>2, <1>3, <1>4 DEF IInv, UnloadedCovered, UnloadedNamesFree, TransactionParts
  <1>8. HeldParts'
    BY <1>2, <1>4 DEF IInv, HeldParts
  <1>9. GrabbedParts'
    BY <1>2, <1>4 DEF IInv, GrabbedParts, Grabbed
  <1> QED
    BY <1>5, <1>6, <1>7, <1>8, <1>9 DEF IInv

(* A step that changes nothing.                                            *)
LEMMA StutterInv ==
    ASSUME IInv, TypeOK', UNCHANGED vars
    PROVE  IInv'
  <1> USE DEF memory, threads, stored, history, budget
  <1>1. UNCHANGED <<state, unloaded, increment, disk, op, snapshot, cleaner>>
        /\ (phase # "up" \/ phase' = phase)
    BY DEF vars
  <1>2. ActiveDisjoint' /\ ActiveOnDisk' /\ NewPartsDisjoint' /\ BlocksHandedOut'
    BY <1>1 DEF IInv, ActiveDisjoint, ActiveOnDisk, NewPartsDisjoint, BlocksHandedOut, NewParts,
                Active, In
  <1>3. UnloadedCovered' /\ TransactionParts' /\ HeldParts'
    BY <1>1 DEF IInv, UnloadedCovered, UnloadedNamesFree, TransactionParts, HeldParts, Active,
                Outdated, In
  <1>4. GrabbedParts' /\ DownEmpty'
    BY <1>1 DEF IInv, GrabbedParts, Grabbed, DownEmpty, In
  <1> QED
    BY <1>2, <1>3, <1>4 DEF IInv

LEMMA InitInv == Init => IInv
  <1> SUFFICES ASSUME Init
               PROVE  IInv
    OBVIOUS
  <1>1. /\ DOMAIN state = {} /\ unloaded = {}
        /\ \A w \in Writers : op[w] = NoOperation
        /\ \A r \in Readers : snapshot[r] = {}
        /\ \A c \in Cleaners : cleaner[c] = NoCleaning
    BY DEF Init
  <1>2. /\ NoOperation.precommitted = {} /\ NoOperation.need_rename = {}
        /\ NoOperation.sources = {} /\ NoOperation.todo = {}
        /\ NoCleaning.todo = {} /\ NoCleaning.done = {} /\ NoCleaning.failed = {}
    BY DEF NoOperation, NoCleaning
  <1>3. ActiveDisjoint /\ ActiveOnDisk /\ NewPartsDisjoint /\ BlocksHandedOut /\ DownEmpty
    BY <1>1, <1>2 DEF ActiveDisjoint, ActiveOnDisk, NewPartsDisjoint, BlocksHandedOut, NewParts,
                      DownEmpty, Active, In
  <1>4. UnloadedCovered /\ TransactionParts /\ HeldParts
    BY <1>1, <1>2 DEF UnloadedCovered, UnloadedNamesFree, TransactionParts, HeldParts
  <1>5. GrabbedParts
    BY <1>1, <1>2 DEF GrabbedParts, Grabbed
  <1> QED
    BY <1>3, <1>4, <1>5, InitType DEF IInv

LEMMA NextInv == IInv /\ [Next]_vars => IInv'
  <1> SUFFICES ASSUME IInv, [Next]_vars
               PROVE  IInv'
    OBVIOUS
  <1>1. TypeOK'
    BY NextType DEF IInv
  <1>2. CASE \E w \in Writers : WriterStep(w)
    BY <1>1, <1>2, WriterInv
  <1>3. CASE \E r \in Readers : ReaderStep(r)
    BY <1>1, <1>3, ReaderInv
  <1>4. CASE \E c \in Cleaners : CleanerStep(c)
    BY <1>1, <1>4, grabOldPartsInv, removePartInv, removePartThrowsInv, rollbackDeletingPartsInv,
       removePartsFinallyInv DEF CleanerStep
  <1> QED
    BY <1>1, <1>2, <1>3, <1>4, commitPartInv, commitPartThrowsInv, clearEmptyPartsInv, CrashInv,
       loadDataPartsInv, loadOutdatedDataPartsInv, StutterInv DEF Next

(***************************************************************************)
(* The theorems                                                            *)
(***************************************************************************)

(* The inductive invariant holds in every reachable state.                 *)
THEOREM InvariantHolds == Spec => []IInv
  BY InitInv, NextInv, PTL DEF Spec

(* Every value the code keeps about parts, directories, transactions and   *)
(* cleaners has its type; in particular every directory queued for loading *)
(* is still there when loadOutdatedDataParts reads it.                     *)
THEOREM TypeCorrect == Spec => []TypeOK
  <1>1. IInv => TypeOK
    BY DEF IInv
  <1> QED
    BY <1>1, InvariantHolds, PTL

(* Transaction::commit, inserts and loading never leave two overlapping    *)
(* parts Active: no block is read twice, for any number of writers and     *)
(* cleaners, any levels and any failures and crashes.                      *)
THEOREM NoOverlap == Spec => []ActiveDisjoint
  <1>1. IInv => ActiveDisjoint
    BY DEF IInv
  <1> QED
    BY <1>1, InvariantHolds, PTL

(* grabOldParts never hands to the removal a part that a query, a merge or *)
(* a drop is reading.                                                      *)
THEOREM PartsInUseStay == Spec => []ReadPartsOnDisk
  <1>1. IInv => ReadPartsOnDisk
    BY DEF IInv, HeldParts, ReadPartsOnDisk, Tagged
  <1> QED
    BY <1>1, InvariantHolds, PTL

(* While loadOutdatedDataParts runs in the background, no insert, merge or *)
(* drop takes the name of a part it has still to load.                     *)
THEOREM NamesStayFree == Spec => []UnloadedNamesFree
  <1>1. IInv => UnloadedNamesFree
    BY DEF IInv, UnloadedCovered
  <1> QED
    BY <1>1, InvariantHolds, PTL

-----------------------------------------------------------------------------
(***************************************************************************)
(* total_active_size_parts is kept by hand: the commit of a Transaction    *)
(* adds what becomes Active and takes off what it replaces, other places   *)
(* add or take off one part or leave it alone. It never drifts from the    *)
(* number of Active parts.                                                 *)
(***************************************************************************)
FinitelyMany == IsFiniteSet(DOMAIN state) /\ IsFiniteSet(DOMAIN disk)
Counted == activeCount = Cardinality(Active)

LEMMA ActiveFinite ==
    ASSUME FinitelyMany
    PROVE  IsFiniteSet(Active) /\ Cardinality(Active) \in Nat
  <1>1. Active \in SUBSET DOMAIN state
    BY DEF Active, In
  <1> QED
    BY <1>1, FS_Subset, FS_CardinalityType DEF FinitelyMany

(* A step puts at most one part into the working set or onto the disk, or  *)
(* loads parts that are on the disk.                                       *)
LEMMA OneMore ==
    ASSUME NEW S, IsFiniteSet(S), NEW T, NEW p, T \subseteq S \cup {p}
    PROVE  IsFiniteSet(T)
  <1>1. IsFiniteSet(S \cup {p}) /\ T \in SUBSET (S \cup {p})
    BY FS_AddElement
  <1> QED
    BY <1>1, FS_Subset

LEMMA FiniteState ==
    ASSUME FinitelyMany, [Next]_vars
    PROVE  IsFiniteSet(DOMAIN state')
  <1> USE DEF memory, threads, stored, history, budget
  <1>1. CASE \E p : DOMAIN state' \subseteq DOMAIN state \cup {p}
    BY <1>1, OneMore DEF FinitelyMany
  <1>2. CASE DOMAIN state' \subseteq DOMAIN disk
    BY <1>2, OneMore DEF FinitelyMany
  <1>3. CASE commitPart \/ commitPartThrows
    BY <1>1, <1>3 DEF commitPart, commitPartThrows, InsertPart, CommitState, Put
  <1>4. CASE \E w \in Writers : WriterStep(w)
    <2>1. PICK w \in Writers : WriterStep(w)
      BY <1>4
    <2>2. CASE renameTempPartAndReplace(w)
      BY <1>1, <2>2 DEF renameTempPartAndReplace, Put
    <2>3. CASE commit(w) \/ checkPartThrows(w) \/ renamePartsThrows(w) \/ commitThrows(w)
      BY <1>1, <2>3 DEF commit, CommitState, checkPartThrows, renamePartsThrows, commitThrows,
                        rollback, modifyPartState
    <2>4. CASE selectPartsToMerge(w) \/ coverPartsWithEmptyParts(w) \/ cancel(w) \/ renameParts(w)
      BY <1>1, <2>4 DEF selectPartsToMerge, coverPartsWithEmptyParts, cancel, renameParts
    <2> QED
      BY <2>1, <2>2, <2>3, <2>4 DEF WriterStep
  <1>5. CASE \E r \in Readers : ReaderStep(r)
    BY <1>1, <1>5 DEF ReaderStep, getDataPartsVectorForInternalUsage, releaseParts
  <1>6. CASE \E c \in Cleaners : CleanerStep(c)
    BY <1>1, <1>6 DEF CleanerStep, grabOldParts, removePart, removePartThrows,
                      rollbackDeletingParts, removePartsFinally, modifyPartState, Without
  <1>7. CASE clearEmptyParts \/ Crash
    BY <1>1, <1>7 DEF clearEmptyParts, Crash, modifyPartState
  <1>8. CASE loadDataParts
    BY <1>2, <1>8 DEF loadDataParts, PartLoadingTree, Tops
  <1>9. CASE loadOutdatedDataParts
    BY <1>1, <1>9 DEF loadOutdatedDataParts, Put
  <1>10. CASE UNCHANGED vars
    BY <1>1, <1>10 DEF vars
  <1> QED
    BY <1>3, <1>4, <1>5, <1>6, <1>7, <1>8, <1>9, <1>10 DEF Next

LEMMA FiniteDisk ==
    ASSUME FinitelyMany, [Next]_vars
    PROVE  IsFiniteSet(DOMAIN disk')
  <1> USE DEF memory, threads, stored, history, budget
  <1>1. CASE \E p : DOMAIN disk' \subseteq DOMAIN disk \cup {p}
    BY <1>1, OneMore DEF FinitelyMany
  <1>2. CASE commitPart \/ commitPartThrows
    BY <1>1, <1>2 DEF commitPart, commitPartThrows, InsertPart, Put
  <1>3. CASE \E w \in Writers : WriterStep(w)
    <2>1. PICK w \in Writers : WriterStep(w)
      BY <1>3
    <2>2. CASE renameParts(w) \/ renamePartsThrows(w)
      BY <1>1, <2>2 DEF renameParts, renamePartsThrows, Put
    <2>3. CASE ~(renameParts(w) \/ renamePartsThrows(w))
      <3>1. UNCHANGED disk
        BY <2>1, <2>3 DEF WriterStep, selectPartsToMerge, coverPartsWithEmptyParts, cancel,
                          renameTempPartAndReplace, commit, checkPartThrows, commitThrows
      <3> QED
        BY <1>1, <3>1
    <2> QED
      BY <2>2, <2>3
  <1>4. CASE \E r \in Readers : ReaderStep(r)
    BY <1>1, <1>4 DEF ReaderStep, getDataPartsVectorForInternalUsage, releaseParts
  <1>5. CASE \E c \in Cleaners : CleanerStep(c)
    BY <1>1, <1>5 DEF CleanerStep, grabOldParts, removePart, removePartThrows,
                      rollbackDeletingParts, removePartsFinally, Without
  <1>6. CASE clearEmptyParts \/ Crash \/ loadDataParts \/ loadOutdatedDataParts
    BY <1>1, <1>6 DEF clearEmptyParts, Crash, loadDataParts, loadOutdatedDataParts
  <1>7. CASE UNCHANGED vars
    BY <1>1, <1>7 DEF vars
  <1> QED
    BY <1>2, <1>3, <1>4, <1>5, <1>6, <1>7 DEF Next

LEMMA DisjointCount ==
    ASSUME NEW S, NEW T, IsFiniteSet(S), IsFiniteSet(T), S \cap T = {}
    PROVE  Cardinality(S \cup T) = Cardinality(S) + Cardinality(T)
  <1>1. Cardinality(S) \in Nat /\ Cardinality(T) \in Nat
    BY FS_CardinalityType
  <1>2. Cardinality(S \cup T) = Cardinality(S) + Cardinality(T) - Cardinality(S \cap T)
    BY FS_Union
  <1> QED
    BY <1>1, <1>2, FS_EmptySet

(* Transaction::commit: what becomes Active was not, what is replaced was. *)
LEMMA CommitCounted ==
    ASSUME FinitelyMany, Counted, NEW st, NEW P, IsFiniteSet(P),
           DOMAIN st = DOMAIN state \cup P,
           \A q \in DOMAIN state \ P : st[q] = state[q],
           P \cap Active = {},
           \A q \in P : st[q] # "Active",
           state' = CommitState(st, P, Active), activeCount' = CommitCount(P, Active)
    PROVE  Counted'
  <1> DEFINE New == P \ Obsolete(P, Active)
             Old == Replaced(P, Active)
  <1>1. Old \in SUBSET Active /\ New \in SUBSET P
    BY DEF Replaced, CoveredParts, LeftRun, RightRun, Left, Right
  <1>2. Active' = (Active \ Old) \cup New
    <2>1. DOMAIN state' = DOMAIN state \cup P
      BY DEF CommitState
    <2>2. \A q \in DOMAIN state' : state'[q] = "Active" <=> q \in New \/ (q \in Active /\ q \notin Old)
      BY <1>1, <2>1 DEF CommitState, Active, In, Obsolete
    <2> QED
      BY <2>1, <2>2 DEF Active, In
  <1>3. /\ IsFiniteSet(Active) /\ Cardinality(Active) \in Nat
        /\ IsFiniteSet(Old) /\ Cardinality(Old) \in Nat
        /\ IsFiniteSet(New) /\ Cardinality(New) \in Nat
    BY <1>1, ActiveFinite, FS_Subset, FS_CardinalityType
  <1>4. /\ IsFiniteSet(Active \ Old)
        /\ Cardinality(Active \ Old) = Cardinality(Active) - Cardinality(Old)
    <2>1. Active \cap Old = Old
      BY <1>1
    <2> QED
      BY <1>3, <2>1, FS_Difference
  <1>5. Cardinality((Active \ Old) \cup New) = Cardinality(Active \ Old) + Cardinality(New)
    <2>1. (Active \ Old) \cap New = {}
      BY <1>1
    <2> QED
      BY <1>3, <1>4, <2>1, DisjointCount
  <1>6. activeCount' = activeCount + Cardinality(New) - Cardinality(Old)
    BY DEF CommitCount
  <1> QED
    BY <1>2, <1>3, <1>4, <1>5, <1>6 DEF Counted

LEMMA SameCounted ==
    ASSUME Counted, Active' = Active, activeCount' = activeCount
    PROVE  Counted'
  BY DEF Counted

LEMMA WriterCounted ==
    ASSUME IInv, FinitelyMany, Counted, NEW w \in Writers, WriterStep(w)
    PROVE  Counted'
  <1> USE DEF memory, threads, stored, history, budget
  <1>1. op[w].precommitted \in SUBSET In("PreActive")
    BY DEF IInv, TransactionParts
  <1>2. CASE commit(w)
    <2> DEFINE P == op[w].precommitted
    <2>1. IsFiniteSet(P) /\ DOMAIN state = DOMAIN state \cup P /\ P \cap Active = {}
          /\ \A q \in P : state[q] # "Active"
      BY <1>1, OneMore DEF FinitelyMany, In, Active
    <2>2. state' = CommitState(state, P, Active) /\ activeCount' = CommitCount(P, Active)
      BY <1>2 DEF commit
    <2> HIDE DEF P
    <2> QED
      BY <2>1, <2>2, CommitCounted
  <1>3. CASE renameTempPartAndReplace(w)
    <2>1. PICK p : p \notin DOMAIN state /\ state' = Put(state, p, "PreActive")
      BY <1>3 DEF renameTempPartAndReplace, checkPart
    <2>2. Active' = Active
      BY <2>1 DEF Put, Active, In
    <2> QED
      BY <1>3, <2>2, SameCounted DEF renameTempPartAndReplace
  <1>4. CASE checkPartThrows(w) \/ renamePartsThrows(w) \/ commitThrows(w)
    <2>1. /\ state' = modifyPartState(state, op[w].precommitted, "Outdated")
          /\ activeCount' = activeCount
      BY <1>4 DEF checkPartThrows, renamePartsThrows, commitThrows, rollback
    <2>2. Active' = Active
      BY <1>1, <2>1 DEF modifyPartState, Active, In
    <2> QED
      BY <2>1, <2>2, SameCounted
  <1>5. CASE selectPartsToMerge(w) \/ coverPartsWithEmptyParts(w) \/ cancel(w) \/ renameParts(w)
    <2>1. UNCHANGED <<state, activeCount>>
      BY <1>5 DEF selectPartsToMerge, coverPartsWithEmptyParts, cancel, renameParts
    <2> QED
      BY <2>1, SameCounted DEF Active, In
  <1> QED
    BY <1>2, <1>3, <1>4, <1>5 DEF WriterStep

(* The cleanup only moves parts between Outdated and Deleting.             *)
LEMMA CleanerCounted ==
    ASSUME IInv, Counted, NEW c \in Cleaners, CleanerStep(c)
    PROVE  Counted'
  <1> USE DEF memory, threads, stored, history, budget
  <1>1. cleaner[c].failed \cup cleaner[c].done \subseteq In("Deleting")
    BY DEF IInv, GrabbedParts, Grabbed
  <1>2. activeCount' = activeCount
    BY DEF CleanerStep, grabOldParts, removePart, removePartThrows, rollbackDeletingParts,
           removePartsFinally
  <1>3. CASE grabOldParts(c)
    <2>1. PICK S \in SUBSET Removable : state' = modifyPartState(state, S, "Deleting")
      BY <1>3 DEF grabOldParts
    <2>2. Active' = Active
      BY <2>1 DEF modifyPartState, Active, Outdated, Removable, In
    <2> QED
      BY <1>2, <2>2, SameCounted
  <1>4. CASE rollbackDeletingParts(c)
    <2>1. Active' = Active
      BY <1>1, <1>4 DEF rollbackDeletingParts, modifyPartState, Active, In
    <2> QED
      BY <1>2, <2>1, SameCounted
  <1>5. CASE removePartsFinally(c)
    <2>1. Active' = Active
      BY <1>1, <1>5 DEF removePartsFinally, Without, Active, In
    <2> QED
      BY <1>2, <2>1, SameCounted
  <1>6. CASE removePart(c) \/ removePartThrows(c)
    BY <1>2, <1>6, SameCounted DEF removePart, removePartThrows, Active, In
  <1> QED
    BY <1>3, <1>4, <1>5, <1>6 DEF CleanerStep

LEMMA InsertCounted ==
    ASSUME FinitelyMany, Counted, commitPart
    PROVE  Counted'
  <1> DEFINE p == NewPart
             st == Put(state, p, "PreActive")
  <1>1. /\ p \notin DOMAIN state
        /\ state' = CommitState(st, {p}, Active) /\ activeCount' = CommitCount({p}, Active)
    BY DEF commitPart, InsertPart, checkPart
  <1> HIDE DEF p
  <1>2. /\ DOMAIN st = DOMAIN state \cup {p}
        /\ \A q \in DOMAIN state \ {p} : st[q] = state[q]
        /\ \A q \in {p} : st[q] # "Active"
    BY DEF Put
  <1>3. IsFiniteSet({p}) /\ {p} \cap Active = {}
    BY <1>1, FS_Singleton DEF Active, In
  <1> HIDE DEF st
  <1> QED
    BY <1>1, <1>2, <1>3, CommitCounted

LEMMA NextCounted ==
    ASSUME IInv, FinitelyMany, Counted, [Next]_vars
    PROVE  Counted'
  <1> USE DEF memory, threads, stored, history, budget
  <1>1. CASE commitPartThrows
    BY <1>1, SameCounted DEF commitPartThrows, Active, In
  <1>2. CASE \E w \in Writers : WriterStep(w)
    BY <1>2, WriterCounted
  <1>3. CASE \E r \in Readers : ReaderStep(r)
    <2>1. UNCHANGED <<state, activeCount>>
      BY <1>3 DEF ReaderStep, getDataPartsVectorForInternalUsage, releaseParts
    <2> QED
      BY <2>1, SameCounted DEF Active, In
  <1>4. CASE \E c \in Cleaners : CleanerStep(c)
    BY <1>4, CleanerCounted
  <1>5. CASE clearEmptyParts
    <2>1. PICK p \in Active : state' = modifyPartState(state, {p}, "Outdated")
      BY <1>5 DEF clearEmptyParts
    <2>2. Active' = Active \ {p}
      BY <2>1 DEF modifyPartState, Active, In
    <2>3. Cardinality(Active \ {p}) = Cardinality(Active) - 1
      BY <2>1, ActiveFinite, FS_RemoveElement
    <2> QED
      BY <1>5, <2>2, <2>3 DEF clearEmptyParts, Counted
  <1>6. CASE Crash
    <2>1. Active' = {} /\ activeCount' = 0
      BY <1>6 DEF Crash, Active, In
    <2> QED
      BY <2>1, FS_EmptySet DEF Counted
  <1>7. CASE loadDataParts
    <2>1. PICK K \in PartLoadingTree :
             /\ state' = [p \in Tops(K, marked) |-> IF p \in marked THEN "Outdated" ELSE "Active"]
             /\ activeCount' = Cardinality(Tops(K, marked) \ marked)
      BY <1>7 DEF loadDataParts
    <2>2. Active' = Tops(K, marked) \ marked
      BY <2>1 DEF Active, In
    <2> QED
      BY <2>1, <2>2 DEF Counted
  <1>8. CASE loadOutdatedDataParts
    <2>1. PICK p : p \notin DOMAIN state /\ state' = Put(state, p, "Outdated")
      BY <1>8 DEF loadOutdatedDataParts
    <2>2. Active' = Active
      BY <2>1 DEF Put, Active, In
    <2> QED
      BY <1>8, <2>2, SameCounted DEF loadOutdatedDataParts
  <1>9. CASE UNCHANGED vars
    BY <1>9, SameCounted DEF vars, Active, In
  <1> QED
    BY <1>1, <1>2, <1>3, <1>4, <1>5, <1>6, <1>7, <1>8, <1>9, InsertCounted DEF Next

(* total_active_size_parts, which the limits on the number of parts of an  *)
(* insert read without the lock, is the number of Active parts whatever    *)
(* commits, fails, is cleaned up or loaded again after a crash.            *)
THEOREM CountExact == Spec => []ActiveCountExact
  <1> DEFINE Inv == IInv /\ FinitelyMany /\ Counted
  <1>1. Init => Inv
    <2>1. SUFFICES ASSUME Init
                   PROVE  FinitelyMany /\ Counted
      BY InitInv
    <2>2. DOMAIN state = {} /\ DOMAIN disk = {} /\ activeCount = 0
      BY <2>1 DEF Init
    <2>3. Active = {}
      BY <2>2 DEF Active, In
    <2> QED
      BY <2>2, <2>3, FS_EmptySet DEF FinitelyMany, Counted
  <1>2. Inv /\ [Next]_vars => Inv'
    BY NextInv, FiniteState, FiniteDisk, NextCounted DEF FinitelyMany
  <1>3. Inv => ActiveCountExact
    BY DEF Counted, ActiveCountExact
  <1> QED
    BY <1>1, <1>2, <1>3, PTL DEF Spec

(***************************************************************************)
(* What a restart finds.  There is no log: the table is what the names of  *)
(* the directories say, so every directory that is renamed or removed has  *)
(* to leave behind names from which the same rows come back.               *)
(***************************************************************************)

(* No exception strikes after a directory got its final name.              *)
NoLateFailure == ~LateFailures \/ MaxFailures = 0

(***************************************************************************)
(* The first invariant: the names on disk never intersect.                 *)
(***************************************************************************)
(* Directories that are not of a Transaction that may still fail.          *)
Settled == {q \in DOMAIN disk : \A w \in Writers : q \notin op[w].precommitted}

(* The names on disk, with those that a merge or drop will add, form a     *)
(* family of parts that are nested or apart.                               *)
Laminar ==
    /\ \A p, q \in DOMAIN disk : ~Intersect(p, q)
    /\ \A w \in Writers : \A p \in NewParts(w), q \in DOMAIN disk : ~Intersect(p, q)

(* Nothing but the result of a Transaction covers an Active part.          *)
Topmost == \A q \in Settled, a \in Active : contains(q, a) => q = a

(* What a merge or drop reads stays Active until it ends, and no other one *)
(* reads it.                                                               *)
SourcesActive ==
    /\ \A w \in Writers : op[w].sources \subseteq Active
    /\ \A w, v \in Writers : w = v \/ op[w].sources \cap op[v].sources = {}

(* A new part covers a source of its operation, and it overlaps no Active  *)
(* part but such sources, which it covers.                                 *)
NewCoversSources ==
    \A w \in Writers : \A p \in NewParts(w) :
        /\ \E s \in op[w].sources : contains(p, s)
        /\ \A x \in Active : isDisjoint(p, x) \/ (x \in op[w].sources /\ contains(p, x))

(* The new parts of two operations do not overlap.                         *)
OperationsApart ==
    \A w, v \in Writers : w = v \/ \A p \in NewParts(w), q \in NewParts(v) : isDisjoint(p, q)

Names == Laminar /\ Topmost /\ SourcesActive /\ NewCoversSources /\ OperationsApart

(* What a cleaner removed is gone from the disk.                           *)
RemovedAreGone == \A c \in Cleaners : cleaner[c].done \cap DOMAIN disk = {}

(* A Transaction renames its directories after it has added all its parts; *)
(* until then none of them has its final name.                             *)
RenamedLast ==
    \A w \in Writers :
        /\ op[w].need_rename \cap DOMAIN disk = {} /\ op[w].todo \cap DOMAIN disk = {}
        /\ op[w].todo # {} => op[w].need_rename = op[w].precommitted

(* No directory lies beyond the block counter.                             *)
DirectoriesHandedOut == phase = "up" => \A q \in DOMAIN disk : q.max <= increment

(* A writer without an operation has no parts.                             *)
IdleWriters == \A w \in Writers : op[w].kind = "none" => op[w] = NoOperation

Directories ==
    /\ marked = {} /\ IdleWriters
    /\ DiskPartsKnown /\ RemovedAreGone /\ RenamedLast /\ DirectoriesHandedOut

NamesInv == IInv /\ Names /\ Directories

-----------------------------------------------------------------------------
(***************************************************************************)
(* Facts about parts                                                       *)
(***************************************************************************)
LEMMA IntersectSymmetric ==
    ASSUME NEW a \in AnyInfo, NEW b \in AnyInfo, ~Intersect(a, b)
    PROVE  ~Intersect(b, a)
  BY DisjointSymmetric DEF Intersect

LEMMA ContainsItself ==
    ASSUME NEW a \in AnyInfo
    PROVE  contains(a, a) /\ ~isDisjoint(a, a)
  BY DEF AnyInfo, contains, SameBlocks, isDisjoint

(* What overlaps a part overlaps whatever contains it.                     *)
LEMMA OverlapsContainer ==
    ASSUME NEW a \in AnyInfo, NEW b \in AnyInfo, NEW c \in AnyInfo,
           contains(a, b), ~isDisjoint(b, c)
    PROVE  ~isDisjoint(a, c) /\ ~isDisjoint(c, a)
  BY DEF AnyInfo, contains, isDisjoint

(* All the parts there are.                                                *)
LEMMA KnownAreInfos ==
    ASSUME IInv
    PROVE  /\ Active \subseteq PartInfos /\ Active \subseteq AnyInfo
           /\ DOMAIN disk \subseteq PartInfos /\ DOMAIN disk \subseteq AnyInfo
           /\ DOMAIN state \subseteq PartInfos /\ DOMAIN state \subseteq AnyInfo
           /\ unloaded \subseteq PartInfos /\ unloaded \subseteq AnyInfo
           /\ \A w \in Writers : NewParts(w) \subseteq PartInfos /\ NewParts(w) \subseteq AnyInfo
           /\ Settled \subseteq DOMAIN disk /\ Active \subseteq DOMAIN disk /\ Active \subseteq Settled
  <1>1. DOMAIN state \subseteq PartInfos /\ DOMAIN disk \subseteq PartInfos
        /\ unloaded \subseteq PartInfos
    BY DEF IInv, TypeOK
  <1>2. Active \subseteq DOMAIN state /\ Settled \subseteq DOMAIN disk /\ Active \subseteq DOMAIN disk
    BY DEF Active, In, Settled, IInv, ActiveOnDisk
  <1>3. \A w \in Writers : NewParts(w) \subseteq PartInfos
    BY OperationType DEF IInv, TypeOK, NewParts
  <1>4. \A w \in Writers : op[w].precommitted \cap Active = {}
    BY DEF IInv, TransactionParts, In, Active
  <1>5. Active \subseteq Settled
    BY <1>2, <1>4 DEF Settled
  <1> QED
    BY <1>1, <1>2, <1>3, <1>5, PartInfosAreInfos

(* A settled directory that overlaps an Active part lies below it.         *)
LEMMA SettledBelow ==
    ASSUME IInv, Names, NEW q \in Settled, NEW a \in Active, ~isDisjoint(q, a)
    PROVE  contains(a, q)
  <1>1. q \in AnyInfo /\ a \in AnyInfo /\ q \in DOMAIN disk /\ a \in DOMAIN disk
    BY KnownAreInfos
  <1>2. ~Intersect(q, a)
    BY <1>1 DEF Names, Laminar
  <1>3. CASE contains(q, a)
    <2>1. q = a
      BY <1>3 DEF Names, Topmost
    <2> QED
      BY <1>1, <2>1, ContainsItself
  <1> QED
    BY <1>2, <1>3 DEF Intersect

(* Among parts there is one that begins last.                              *)
LEMMA LastExists ==
    ASSUME NEW S \in SUBSET PartInfos, S # {}
    PROVE  \E f \in S : \A q \in S : q.min <= f.min
  <1> DEFINE M == {MaxBlock - q.min : q \in S}
             R == {ss \in Nat \X Nat : ss[1] < ss[2]}
  <1>1. \A q \in PartInfos : q.min \in Nat /\ MaxBlock - q.min \in Nat
    BY DEF PartInfos
  <1>2. M \subseteq Nat /\ M # {}
    BY <1>1
  <1>3. IsWellFoundedOn(R, Nat)
    BY NatLessThanWellFounded, Zenon DEF OpToRel
  <1>4. PICK x \in M : \A y \in M : ~(<<y, x>> \in R)
    BY <1>2, <1>3, WFMin
  <1>5. \A y, z \in Nat : y < z => <<y, z>> \in R
    OBVIOUS
  <1>6. \A y \in M : y \in Nat /\ ~(y < x)
    BY <1>2, <1>4, <1>5
  <1>7. PICK h \in S : MaxBlock - h.min = x
    OBVIOUS
  <1>8. \A q \in S : q.min \in Nat /\ MaxBlock - q.min \in M
    BY <1>1
  <1>9. \A q \in S : q.min \in Nat /\ ~(MaxBlock - q.min < MaxBlock - h.min)
    BY <1>6, <1>7, <1>8
  <1> HIDE DEF M, R
  <1>10. \A q \in S : q.min <= h.min
    BY <1>9
  <1> QED
    BY <1>10

(* A part that lies between disjoint ones has two neighbours among them.   *)
LEMMA NeighboursAround ==
    ASSUME NEW S \in SUBSET PartInfos, PairwiseDisjoint(S), NEW q \in AnyInfo,
           \A x \in S : isDisjoint(x, q),
           NEW l \in S, NEW r \in S, Less(l, q), Less(q, r)
    PROVE  \E a, b \in S : <<a, b>> \in Neighbours(S) /\ Less(a, q) /\ Less(q, b)
  <1> DEFINE A == {x \in S : Less(x, q)}
             B == {x \in S : Less(q, x)}
  <1>1. S \subseteq AnyInfo
    BY PartInfosAreInfos
  <1>2. PICK a \in A : \A x \in A : x.min <= a.min
    <2>1. A # {} /\ A \in SUBSET PartInfos
      OBVIOUS
    <2> QED
      BY <2>1, LastExists
  <1>3. PICK b \in B : \A x \in B : b.min <= x.min
    <2>1. B # {} /\ B \in SUBSET AnyInfo
      BY <1>1
    <2> QED
      BY <2>1, FirstExists
  <1>4. a \in AnyInfo /\ b \in AnyInfo /\ Less(a, q) /\ Less(q, b)
    BY <1>1
  <1>5. Less(a, b)
    BY <1>4 DEF AnyInfo, Less, SameBlocks
  <1>6. \A s \in S : ~(Less(a, s) /\ Less(s, b))
    <2> SUFFICES ASSUME NEW s \in S, Less(a, s), Less(s, b)
                 PROVE  FALSE
      OBVIOUS
    <2>1. s \in AnyInfo /\ isDisjoint(s, q) /\ s # q
      BY <1>1, ContainsItself
    <2>2. (s = a \/ isDisjoint(s, a)) /\ (s = b \/ isDisjoint(s, b))
      BY DEF PairwiseDisjoint
    <2>3. s # a /\ s # b
      BY <1>4, LessIrreflexive
    <2>4. CASE Less(s, q)
      <3>1. s.min <= a.min
        BY <1>2, <2>4
      <3>2. a.min <= s.min
        BY <1>4, <2>1 DEF AnyInfo, Less, SameBlocks
      <3> QED
        BY <1>4, <2>1, <2>2, <2>3, <3>1, <3>2 DEF AnyInfo, isDisjoint
    <2>5. CASE Less(q, s)
      <3>1. b.min <= s.min
        BY <1>3, <2>5
      <3>2. s.min <= b.min
        BY <1>4, <2>1 DEF AnyInfo, Less, SameBlocks
      <3> QED
        BY <1>4, <2>1, <2>2, <2>3, <3>1, <3>2 DEF AnyInfo, isDisjoint
    <2> QED
      BY <2>1, <2>4, <2>5, LessTotal
  <1> QED
    BY <1>4, <1>5, <1>6 DEF Neighbours

-----------------------------------------------------------------------------
(***************************************************************************)
(* Merges.  canMergeParts looks for a part of a higher level between two   *)
(* neighbours; a directory that it does not find there is covered by the   *)
(* merge, or has nothing to do with it.                                    *)
(***************************************************************************)
MergeChosen(l, r, n) ==
    /\ l \in Active /\ r \in Active /\ n \in 0..MaxLevel-1 /\ Less(l, r)
    /\ IsMaxLevel(n, PartsRange(l, r))
    /\ \A x \in Neighbours(PartsRange(l, r)) : canMergeParts(x[1], x[2])
    /\ \A q \in PartsRange(l, r) : canUsePartInMerges(q)

(* The range that a merge takes, and its result.                           *)
LEMMA MergedRange ==
    ASSUME IInv, NEW l, NEW r, NEW n, MergeChosen(l, r, n)
    PROVE  /\ assign(l, r, n) \in PartInfos
           /\ l \in PartsRange(l, r) /\ r \in PartsRange(l, r) /\ l # r
           /\ \A x \in Active : \/ isDisjoint(assign(l, r, n), x) /\ x \notin PartsRange(l, r)
                                \/ x \in PartsRange(l, r) /\ contains(assign(l, r, n), x)
  <1> DEFINE p == assign(l, r, n)
  <1>1. l \in PartInfos /\ r \in PartInfos /\ l \in AnyInfo /\ r \in AnyInfo
        /\ n \in Nat /\ n + 1 \in 0..MaxLevel
    BY KnownAreInfos DEF MergeChosen
  <1>2. l # r /\ isDisjoint(l, r) /\ l.max < r.min
    <2>1. l # r
      BY <1>1, LessIrreflexive DEF MergeChosen
    <2>2. isDisjoint(l, r)
      BY <2>1 DEF IInv, ActiveDisjoint, MergeChosen
    <2> QED
      BY <1>1, <2>1, <2>2 DEF MergeChosen, Less, SameBlocks, isDisjoint, AnyInfo
  <1>3. p.min = l.min /\ p.max = r.max /\ p.level = n + 1 /\ p.mutation = 0
    BY DEF assign
  <1>4. p \in PartInfos
    BY <1>1, <1>2 DEF assign, PartInfos
  <1>5. l \in PartsRange(l, r) /\ r \in PartsRange(l, r)
    <2>1. ~Less(l, l) /\ ~Less(r, l) /\ ~Less(r, r)
      BY <1>1, <1>2, LessIrreflexive DEF Less, SameBlocks, AnyInfo
    <2> QED
      BY <2>1 DEF PartsRange, MergeChosen
  <1>6. ASSUME NEW x \in Active, x \notin PartsRange(l, r)
        PROVE  isDisjoint(p, x)
    <2>1. x \in AnyInfo /\ (Less(x, l) \/ Less(r, x)) /\ x # l /\ x # r
      BY <1>5, <1>6, KnownAreInfos DEF PartsRange
    <2>2. isDisjoint(x, l) /\ isDisjoint(x, r)
      BY <2>1 DEF IInv, ActiveDisjoint, MergeChosen
    <2> QED
      BY <1>1, <1>2, <1>3, <2>1, <2>2 DEF Less, SameBlocks, isDisjoint, AnyInfo
  <1>7. ASSUME NEW x \in PartsRange(l, r)
        PROVE  contains(p, x)
    <2>1. x \in Active /\ x \in PartInfos /\ x \in AnyInfo /\ ~Less(x, l) /\ ~Less(r, x)
      BY KnownAreInfos DEF PartsRange
    <2>2. (x = l \/ isDisjoint(x, l)) /\ (x = r \/ isDisjoint(x, r))
      BY <2>1 DEF IInv, ActiveDisjoint, MergeChosen
    <2>3. x.level <= n /\ x.mutation = 0
      BY <2>1 DEF MergeChosen, IsMaxLevel, PartInfos
    <2>4. l.min <= x.min /\ x.max <= r.max
      <3>1. x = l \/ Less(l, x)
        BY <1>1, <2>1, LessTotal
      <3>2. x = r \/ Less(x, r)
        BY <1>1, <2>1, LessTotal
      <3> QED
        BY <1>1, <1>2, <2>1, <2>2, <3>1, <3>2 DEF Less, SameBlocks, isDisjoint, AnyInfo
    <2> QED
      BY <1>1, <1>3, <2>1, <2>3, <2>4 DEF contains, AnyInfo
  <1> QED
    BY <1>2, <1>4, <1>5, <1>6, <1>7 DEF PartsRange

(* A merge covers what lies below the Active parts, and what it finds in   *)
(* memory between them.                                                    *)
LEMMA MergeCovers ==
    ASSUME IInv, NEW l, NEW r, NEW n, MergeChosen(l, r, n), NEW q \in PartInfos,
           \A a \in Active : isDisjoint(q, a) \/ contains(a, q),
           (\A a \in Active : isDisjoint(q, a)) => q \in DOMAIN state,
           ~isDisjoint(assign(l, r, n), q)
    PROVE  contains(assign(l, r, n), q)
  <1> DEFINE p == assign(l, r, n)
             S == PartsRange(l, r)
  <1>1. /\ p \in PartInfos /\ p \in AnyInfo /\ l \in S /\ r \in S /\ l # r
        /\ \A x \in Active : isDisjoint(p, x) \/ (x \in S /\ contains(p, x))
    BY MergedRange, PartInfosAreInfos
  <1>2. /\ S \subseteq Active /\ q \in AnyInfo
        /\ Active \subseteq AnyInfo /\ Active \subseteq PartInfos
    BY KnownAreInfos, PartInfosAreInfos DEF PartsRange
  <1>3. p.min = l.min /\ p.max = r.max /\ p.level = n + 1 /\ p.mutation = 0 /\ n \in Nat
    BY DEF assign, MergeChosen
  <1> HIDE DEF p, S
  <1>4. CASE \E a \in Active : ~isDisjoint(q, a)
    <2>1. PICK a \in Active : ~isDisjoint(q, a)
      BY <1>4
    <2>2. contains(a, q) /\ a \in AnyInfo
      BY <1>2, <2>1
    <2>3. ~isDisjoint(p, a)
      <3>1. ~isDisjoint(q, p)
        BY <1>1, <1>2, DisjointSymmetric DEF p
      <3> QED
        BY <1>1, <1>2, <2>2, <3>1, OverlapsContainer
    <2>4. contains(p, a)
      BY <1>1, <2>3
    <2> QED
      BY <1>1, <1>2, <2>2, <2>4, ContainsTransitive DEF p
  <1>5. CASE \A a \in Active : isDisjoint(q, a)
    <2>1. \A x \in S : isDisjoint(x, q)
      BY <1>2, <1>5, DisjointSymmetric
    <2>2. l \in AnyInfo /\ r \in AnyInfo /\ isDisjoint(l, q) /\ isDisjoint(r, q) /\ isDisjoint(l, r)
          /\ Less(l, r)
      BY <1>1, <1>2, <2>1 DEF IInv, ActiveDisjoint, MergeChosen
    <2>3. ~isDisjoint(p, q)
      BY DEF p
    <2>4. l.max < q.min /\ q.max < r.min
      BY <1>1, <1>2, <1>3, <2>2, <2>3 DEF Less, SameBlocks, isDisjoint, AnyInfo
    <2>5. Less(l, q) /\ Less(q, r)
      BY <1>2, <2>2, <2>4 DEF Less, AnyInfo
    <2>6. PairwiseDisjoint(S) /\ S \in SUBSET PartInfos
      BY <1>2 DEF IInv, ActiveDisjoint, PairwiseDisjoint
    <2>7. PICK a \in S, b \in S : <<a, b>> \in Neighbours(S) /\ Less(a, q) /\ Less(q, b)
      BY <1>1, <1>2, <2>1, <2>5, <2>6, NeighboursAround
    <2>8. canMergeParts(a, b)
      <3>1. canMergeParts(<<a, b>>[1], <<a, b>>[2])
        BY <2>7 DEF MergeChosen, S
      <3> QED
        BY <3>1
    <2>9. q \in DOMAIN state
      BY <1>5
    <2>10. q.level <= a.level \/ q.level <= b.level
      BY <2>7, <2>8, <2>9 DEF canMergeParts
    <2>11. a.level <= n /\ b.level <= n /\ a \in AnyInfo /\ b \in AnyInfo
      BY <1>2, <2>7 DEF MergeChosen, IsMaxLevel, S
    <2>12. q.level <= n /\ q.mutation = 0
      BY <1>2, <1>3, <2>10, <2>11 DEF AnyInfo, PartInfos
    <2>13. contains(p, q)
      BY <1>1, <1>2, <1>3, <2>2, <2>4, <2>12 DEF contains, AnyInfo
    <2> QED
      BY <2>13 DEF p
  <1> QED
    BY <1>4, <1>5

(* Between the blocks of a merge there is no directory that it does not    *)
(* cover.                                                                  *)
LEMMA MergeCoversSettled ==
    ASSUME IInv, Names, Directories, phase = "up", NEW l, NEW r, NEW n, MergeChosen(l, r, n),
           NEW q \in Settled, ~isDisjoint(assign(l, r, n), q)
    PROVE  contains(assign(l, r, n), q)
  <1>1. q \in PartInfos /\ q \in AnyInfo /\ q \in DOMAIN disk /\ Active \subseteq AnyInfo
    BY KnownAreInfos
  <1>2. \A a \in Active : isDisjoint(q, a) \/ contains(a, q)
    BY SettledBelow
  <1>3. (\A a \in Active : isDisjoint(q, a)) => q \in DOMAIN state
    <2> SUFFICES ASSUME \A a \in Active : isDisjoint(q, a), q \in unloaded
                 PROVE  FALSE
      BY <1>1 DEF Directories, DiskPartsKnown
    <2>1. PICK c \in Active : contains(c, q)
      BY DEF IInv, UnloadedCovered
    <2> QED
      BY <1>1, <2>1, ContainsOverlaps, DisjointSymmetric
  <1> QED
    BY <1>1, <1>2, <1>3, MergeCovers

(* Operations at work do not reach into the range of a new merge.          *)
LEMMA MergeApart ==
    ASSUME IInv, Names, NEW l, NEW r, NEW n, MergeChosen(l, r, n),
           NEW v \in Writers, NEW q \in NewParts(v)
    PROVE  isDisjoint(assign(l, r, n), q)
  <1> DEFINE p == assign(l, r, n)
  <1>1. /\ p \in PartInfos /\ p \in AnyInfo /\ l \in PartsRange(l, r) /\ r \in PartsRange(l, r)
        /\ \A x \in PartsRange(l, r) : x \notin op[v].sources
    BY MergedRange, PartInfosAreInfos DEF MergeChosen, canUsePartInMerges, Tagged
  <1>2. q \in AnyInfo /\ Active \subseteq AnyInfo /\ l \in Active /\ r \in Active /\ Less(l, r)
    BY KnownAreInfos DEF MergeChosen
  <1>3. PICK s \in op[v].sources : contains(q, s)
    BY DEF Names, NewCoversSources
  <1>4. s \in Active /\ s \in AnyInfo /\ s \notin PartsRange(l, r)
    BY <1>1, <1>2 DEF Names, SourcesActive
  <1>5. isDisjoint(p, s)
    BY <1>4, MergedRange
  <1>6. isDisjoint(q, l) /\ isDisjoint(q, r)
    BY <1>1, <1>2 DEF Names, NewCoversSources
  <1>7. p.min = l.min /\ p.max = r.max
    BY DEF assign
  <1> HIDE DEF p
  <1>8. isDisjoint(p, q)
    BY <1>1, <1>2, <1>3, <1>4, <1>5, <1>6, <1>7 DEF contains, isDisjoint, AnyInfo
  <1> QED
    BY <1>8 DEF p

-----------------------------------------------------------------------------
(***************************************************************************)
(* How steps change the names                                              *)
(***************************************************************************)
(* A step that makes nothing Active and begins no operation.               *)
Shrinks ==
    /\ \A q \in DOMAIN disk' : q \in DOMAIN disk \/ \E w \in Writers : q \in NewParts(w)
    /\ Settled' \subseteq Settled
    /\ Active' \subseteq Active
    /\ \A w \in Writers :
          /\ op'[w].sources \subseteq op[w].sources /\ op'[w].sources \subseteq Active'
          /\ NewParts(w)' \subseteq NewParts(w)
          /\ NewParts(w)' = {} \/ op'[w].sources = op[w].sources

(* New parts do not intersect each other either.                           *)
LEMMA NewLaminar ==
    ASSUME IInv, Names, NEW w \in Writers, NEW v \in Writers,
           NEW p \in NewParts(w), NEW q \in NewParts(v)
    PROVE  ~Intersect(p, q)
  <1>1. p = q \/ isDisjoint(p, q)
    BY DEF IInv, NewPartsDisjoint, Names, OperationsApart
  <1>2. p \in AnyInfo /\ q \in AnyInfo
    BY KnownAreInfos
  <1> QED
    BY <1>1, <1>2, ContainsItself DEF Intersect

LEMMA ShrinkNames ==
    ASSUME IInv, Names, Shrinks
    PROVE  Names'
  <1>1. \A p, q \in DOMAIN disk' : ~Intersect(p, q)
    <2> SUFFICES ASSUME NEW p \in DOMAIN disk', NEW q \in DOMAIN disk'
                 PROVE  ~Intersect(p, q)
      OBVIOUS
    <2>1. CASE p \in DOMAIN disk /\ q \in DOMAIN disk
      BY <2>1 DEF Names, Laminar
    <2>2. CASE q \in DOMAIN disk /\ \E w \in Writers : p \in NewParts(w)
      BY <2>2 DEF Names, Laminar
    <2>3. CASE p \in DOMAIN disk /\ \E w \in Writers : q \in NewParts(w)
      <3>1. ~Intersect(q, p) /\ p \in AnyInfo /\ q \in AnyInfo
        BY <2>3, KnownAreInfos DEF Names, Laminar
      <3> QED
        BY <3>1, IntersectSymmetric
    <2>4. CASE (\E w \in Writers : p \in NewParts(w)) /\ (\E w \in Writers : q \in NewParts(w))
      BY <2>4, NewLaminar
    <2> QED
      BY <2>1, <2>2, <2>3, <2>4 DEF Shrinks
  <1>2. \A w \in Writers : \A p \in NewParts(w)', q \in DOMAIN disk' : ~Intersect(p, q)
    <2> SUFFICES ASSUME NEW w \in Writers, NEW p \in NewParts(w)', NEW q \in DOMAIN disk'
                 PROVE  ~Intersect(p, q)
      OBVIOUS
    <2>1. p \in NewParts(w)
      BY DEF Shrinks
    <2>2. CASE q \in DOMAIN disk
      BY <2>1, <2>2 DEF Names, Laminar
    <2>3. CASE \E v \in Writers : q \in NewParts(v)
      BY <2>1, <2>3, NewLaminar
    <2> QED
      BY <2>2, <2>3 DEF Shrinks
  <1>3. Topmost'
    BY DEF Shrinks, Names, Topmost
  <1>4. SourcesActive'
    BY DEF Shrinks, Names, SourcesActive
  <1>5. NewCoversSources'
    <2> SUFFICES ASSUME NEW w \in Writers, NEW p \in NewParts(w)'
                 PROVE  /\ \E s \in op'[w].sources : contains(p, s)
                        /\ \A x \in Active' : isDisjoint(p, x) \/ (x \in op'[w].sources /\ contains(p, x))
      BY DEF NewCoversSources
    <2>1. p \in NewParts(w) /\ op'[w].sources = op[w].sources
      BY DEF Shrinks
    <2> QED
      BY <2>1 DEF Shrinks, Names, NewCoversSources
  <1>6. OperationsApart'
    BY DEF Shrinks, Names, OperationsApart
  <1> QED
    BY <1>1, <1>2, <1>3, <1>4, <1>5, <1>6 DEF Names, Laminar

(* A merge or drop begins; its new parts have new names.                   *)
Begun(w) ==
    /\ op'[w].precommitted = {} /\ op'[w].need_rename = {}
    /\ \A t \in op'[w].todo :
          /\ t \notin Active /\ \E s \in Active : contains(t, s)
          /\ \A v \in Writers : t \notin NewParts(v)

LEMMA AssignedNames ==
    ASSUME IInv, Names, NEW w \in Writers, NEW o \in Operations, op' = [op EXCEPT ![w] = o],
           NewParts(w) = {}, o.precommitted = {}, o.need_rename = {}, o.kind # "none", Directories,
           UNCHANGED <<state, unloaded, increment, cleaner, phase, disk, marked>>,
           o.sources \subseteq Active, \A v \in Writers : op[v].sources \cap o.sources = {},
           \A p \in o.todo : \E s \in o.sources : contains(p, s),
           \A p \in o.todo : \A x \in Active :
              isDisjoint(p, x) \/ (x \in o.sources /\ contains(p, x)),
           \A p \in o.todo : \A q \in Settled : ~isDisjoint(p, q) => contains(p, q),
           \A p \in o.todo : \A v \in Writers : \A q \in NewParts(v) : isDisjoint(p, q),
           o.todo \cap Active = {}
    PROVE  /\ Names' /\ Directories' /\ Settled' = Settled /\ Active' = Active
           /\ op'[w] = o /\ \A v \in Writers : v # w => op'[v] = op[v]
           /\ Begun(w)
  <1>1. op'[w] = o /\ \A v \in Writers : v # w => op'[v] = op[v]
    BY DEF IInv, TypeOK
  <1>2. NewParts(w)' = o.todo /\ \A v \in Writers : v # w => NewParts(v)' = NewParts(v)
    BY <1>1 DEF NewParts
  <1>3. Active' = Active /\ DOMAIN disk' = DOMAIN disk
    BY DEF Active, In
  <1>4. Settled' = Settled
    <2>1. op[w].precommitted = {}
      BY DEF NewParts
    <2> QED
      BY <1>1, <1>3, <2>1 DEF Settled
  <1>5. o.todo \subseteq AnyInfo
    BY OperationType, PartInfosAreInfos
  <1>6. \A p \in o.todo, q \in DOMAIN disk : ~Intersect(p, q)
    <2> SUFFICES ASSUME NEW p \in o.todo, NEW q \in DOMAIN disk
                 PROVE  ~Intersect(p, q)
      OBVIOUS
    <2>1. q \in Settled \/ \E v \in Writers : q \in NewParts(v)
      BY DEF Settled, NewParts
    <2> QED
      BY <2>1 DEF Intersect
  <1>7. Laminar'
    BY <1>2, <1>3, <1>6 DEF Names, Laminar
  <1>8. Topmost'
    BY <1>3, <1>4 DEF Names, Topmost
  <1>9. SourcesActive'
    BY <1>1, <1>3 DEF Names, SourcesActive
  <1>10. NewCoversSources'
    BY <1>1, <1>2, <1>3 DEF Names, NewCoversSources
  <1>11. OperationsApart'
    <2> SUFFICES ASSUME NEW u \in Writers, NEW v \in Writers, u # v,
                        NEW p \in NewParts(u)', NEW q \in NewParts(v)'
                 PROVE  isDisjoint(p, q)
      BY DEF OperationsApart
    <2>1. CASE u = w
      BY <1>2, <2>1
    <2>2. CASE v = w
      <3>1. isDisjoint(q, p) /\ q \in AnyInfo /\ p \in AnyInfo
        BY <1>2, <1>5, <2>2, KnownAreInfos
      <3> QED
        BY <3>1, DisjointSymmetric
    <2>3. CASE u # w /\ v # w
      BY <1>2, <2>3 DEF Names, OperationsApart
    <2> QED
      BY <2>1, <2>2, <2>3
  <1>12. Names'
    BY <1>7, <1>8, <1>9, <1>10, <1>11 DEF Names
  <1>13. o.todo \cap DOMAIN disk = {}
    <2> SUFFICES ASSUME NEW p \in o.todo, p \in DOMAIN disk
                 PROVE  FALSE
      OBVIOUS
    <2>1. p \in Settled \/ \E v \in Writers : p \in NewParts(v)
      BY DEF Settled, NewParts
    <2>2. p \in AnyInfo /\ ~isDisjoint(p, p)
      BY <1>5, ContainsItself
    <2>3. p \in Settled
      BY <2>1, <2>2
    <2>4. PICK s \in o.sources : contains(p, s)
      OBVIOUS
    <2>5. p = s
      BY <2>3, <2>4 DEF Names, Topmost
    <2> QED
      BY <2>5
  <1>14. Directories'
    <2>1. IdleWriters'
      BY <1>1 DEF Directories, IdleWriters
    <2>2. DiskPartsKnown' /\ RemovedAreGone' /\ DirectoriesHandedOut' /\ marked' = {}
      BY DEF Directories, DiskPartsKnown, RemovedAreGone, DirectoriesHandedOut
    <2>3. RenamedLast'
      BY <1>1, <1>13 DEF Directories, RenamedLast
    <2> QED
      BY <2>1, <2>2, <2>3 DEF Directories
  <1>15. Begun(w)
    <2>1. \A t \in o.todo : \A v \in Writers : t \notin NewParts(v)
      BY <1>5, ContainsItself
    <2> QED
      BY <1>1, <2>1 DEF Begun
  <1> QED
    BY <1>1, <1>3, <1>4, <1>12, <1>14, <1>15

LEMMA selectPartsToMergeNames ==
    ASSUME IInv, Names, Directories, TypeOK', NEW w \in Writers, selectPartsToMerge(w)
    PROVE  /\ Names' /\ Directories' /\ Settled' = Settled /\ Active' = Active /\ NewParts(w) = {}
           /\ \A v \in Writers : v # w => op'[v] = op[v]
           /\ Begun(w)
  <1> USE DEF memory, threads, stored, history, budget
  <1>1. PICK l \in Active, r \in Active, n \in 0..MaxLevel-1 :
           /\ MergeChosen(l, r, n)
           /\ op' = [op EXCEPT ![w] = [NoOperation EXCEPT
              !.kind = "merge", !.sources = PartsRange(l, r),
              !.todo = {assign(l, r, n)}, !.rows = RowsOf(PartsRange(l, r), rows)]]
    BY DEF selectPartsToMerge, MergeChosen
  <1> DEFINE o == [NoOperation EXCEPT
              !.kind = "merge", !.sources = PartsRange(l, r),
              !.todo = {assign(l, r, n)}, !.rows = RowsOf(PartsRange(l, r), rows)]
  <1>2. o.sources = PartsRange(l, r) /\ o.todo = {assign(l, r, n)} /\ o.precommitted = {}
    BY DEF NoOperation
  <1>3. op' = [op EXCEPT ![w] = o]
    BY <1>1
  <1>4. o \in Operations
    <2>1. op'[w] = o
      BY <1>3 DEF IInv, TypeOK
    <2> QED
      BY <2>1 DEF TypeOK
  <1>5. /\ phase = "up" /\ op[w].kind = "none"
        /\ UNCHANGED <<state, unloaded, increment, cleaner, phase, disk, marked>>
    BY DEF selectPartsToMerge
  <1>6. PartsRange(l, r) \subseteq Active /\ \A v \in Writers : op[v].sources \cap PartsRange(l, r) = {}
    BY <1>1 DEF PartsRange, MergeChosen, canUsePartInMerges, Tagged
  <1>7. NewParts(w) = {}
    BY <1>5 DEF Directories, IdleWriters, NoOperation, NewParts
  <1> DEFINE p == assign(l, r, n)
  <1>8. /\ \A x \in Active : isDisjoint(p, x) \/ (x \in PartsRange(l, r) /\ contains(p, x))
        /\ \E s \in PartsRange(l, r) : contains(p, s)
    <2>1. /\ l \in PartsRange(l, r) /\ ~isDisjoint(p, l)
          /\ \A x \in Active : isDisjoint(p, x) \/ (x \in PartsRange(l, r) /\ contains(p, x))
      BY <1>1, MergedRange, KnownAreInfos, ContainsOverlaps, PartInfosAreInfos
    <2> QED
      BY <2>1
  <1>9. \A q \in Settled : ~isDisjoint(p, q) => contains(p, q)
    BY <1>1, <1>5, MergeCoversSettled
  <1>10. \A v \in Writers : \A q \in NewParts(v) : isDisjoint(p, q)
    BY <1>1, MergeApart
  <1>14. p \notin Active
    <2>1. /\ l \in Active /\ r \in Active /\ l # r /\ l \in AnyInfo /\ r \in AnyInfo /\ p \in AnyInfo
          /\ contains(p, l) /\ contains(p, r)
      <3>1. l \in PartsRange(l, r) /\ r \in PartsRange(l, r) /\ l # r /\ p \in AnyInfo
        BY <1>1, MergedRange, PartInfosAreInfos
      <3>2. l \in Active /\ r \in Active /\ l \in AnyInfo /\ r \in AnyInfo
        BY KnownAreInfos
      <3> QED
        BY <1>1, <3>1, <3>2, MergedRange
    <2> QED
      BY <2>1, ContainsOverlaps DEF IInv, ActiveDisjoint
  <1> HIDE DEF o, p
  <1>11. o.todo = {p} /\ o.need_rename = {} /\ o.kind # "none"
    BY <1>2 DEF p, o, NoOperation
  <1>12. /\ \A x \in o.todo : \E s \in o.sources : contains(x, s)
         /\ \A t \in o.todo : \A x \in Active :
                isDisjoint(t, x) \/ (x \in o.sources /\ contains(t, x))
         /\ \A t \in o.todo : \A q \in Settled : ~isDisjoint(t, q) => contains(t, q)
         /\ \A t \in o.todo : \A v \in Writers : \A q \in NewParts(v) : isDisjoint(t, q)
    BY <1>2, <1>8, <1>9, <1>10, <1>11
  <1>13. o.sources \subseteq Active /\ \A v \in Writers : op[v].sources \cap o.sources = {}
    BY <1>2, <1>6
  <1>15. o.precommitted = {} /\ o.todo \cap Active = {}
    BY <1>2, <1>11, <1>14
  <1>16. /\ Names' /\ Directories' /\ Settled' = Settled /\ Active' = Active
         /\ \A v \in Writers : v # w => op'[v] = op[v]
         /\ Begun(w)
    BY <1>3, <1>4, <1>5, <1>7, <1>11, <1>12, <1>13, <1>15, AssignedNames
  <1> QED
    BY <1>7, <1>16

LEMMA coverPartsWithEmptyPartsNames ==
    ASSUME IInv, Names, Directories, TypeOK', NEW w \in Writers, coverPartsWithEmptyParts(w)
    PROVE  /\ Names' /\ Directories' /\ Settled' = Settled /\ Active' = Active /\ NewParts(w) = {}
           /\ \A v \in Writers : v # w => op'[v] = op[v]
           /\ Begun(w)
  <1> USE DEF memory, threads, stored, history, budget
  <1>1. PICK S \in SUBSET Active :
           op' = [op EXCEPT ![w] = [NoOperation EXCEPT
                    !.kind = "drop", !.sources = S,
                    !.todo = {[q EXCEPT !.level = @ + 1] : q \in S}]]
    BY DEF coverPartsWithEmptyParts
  <1> DEFINE o == [NoOperation EXCEPT
                    !.kind = "drop", !.sources = S,
                    !.todo = {[q EXCEPT !.level = @ + 1] : q \in S}]
             T == {[q EXCEPT !.level = @ + 1] : q \in S}
  <1>2. o.sources = S /\ o.todo = T /\ o.precommitted = {}
    BY DEF NoOperation
  <1>3. op' = [op EXCEPT ![w] = o]
    BY <1>1
  <1>4. o \in Operations
    <2>1. op'[w] = o
      BY <1>3 DEF IInv, TypeOK
    <2> QED
      BY <2>1 DEF TypeOK
  <1>5. /\ phase = "up" /\ \A v \in Writers : op[v].kind = "none"
        /\ UNCHANGED <<state, unloaded, increment, cleaner, phase, disk, marked>>
    BY DEF coverPartsWithEmptyParts
  <1>6. \A v \in Writers : NewParts(v) = {} /\ op[v].sources = {}
    BY <1>5 DEF Directories, IdleWriters, NoOperation, NewParts
  <1>7. S \subseteq PartInfos /\ S \subseteq AnyInfo /\ Active \subseteq AnyInfo
    BY KnownAreInfos
  <1>8. \A t \in T : \E s \in S : /\ contains(t, s) /\ t \in AnyInfo /\ s \in AnyInfo
                                  /\ SameBlocks(t, s) /\ t.level = s.level + 1
    <2> SUFFICES ASSUME NEW s \in S
                 PROVE  LET t == [s EXCEPT !.level = @ + 1]
                        IN  /\ contains(t, s) /\ t \in AnyInfo /\ s \in AnyInfo
                            /\ SameBlocks(t, s) /\ t.level = s.level + 1
      OBVIOUS
    <2> QED
      BY <1>7 DEF AnyInfo, contains, SameBlocks
  <1>12. o.need_rename = {} /\ o.kind # "none"
    BY DEF NoOperation
  <1>13. ASSUME NEW t \in T
         PROVE  t \notin Active
    <2>1. PICK s \in S : /\ contains(t, s) /\ t \in AnyInfo /\ s \in AnyInfo
                         /\ SameBlocks(t, s) /\ t.level = s.level + 1
      BY <1>8
    <2>2. t # s /\ ~isDisjoint(t, s)
      BY <2>1, ContainsOverlaps DEF AnyInfo
    <2> QED
      BY <2>2 DEF IInv, ActiveDisjoint
  <1> HIDE DEF T, o
  <1>9. ASSUME NEW t \in T
        PROVE  /\ \E s \in S : contains(t, s)
               /\ \A x \in Active : isDisjoint(t, x) \/ (x \in S /\ contains(t, x))
               /\ \A q \in Settled : ~isDisjoint(t, q) => contains(t, q)
    <2>1. PICK s \in S : /\ contains(t, s) /\ t \in AnyInfo /\ s \in AnyInfo
                         /\ SameBlocks(t, s) /\ t.level = s.level + 1
      BY <1>8
    <2>2. ASSUME NEW x \in Active, ~isDisjoint(t, x)
          PROVE  x = s
      <3>1. x \in AnyInfo /\ ~isDisjoint(s, x)
        BY <1>7, <2>1, <2>2 DEF SameBlocks, isDisjoint
      <3> QED
        BY <3>1 DEF IInv, ActiveDisjoint
    <2>3. ASSUME NEW q \in Settled, ~isDisjoint(t, q)
          PROVE  contains(t, q)
      <3>1. q \in AnyInfo
        BY KnownAreInfos
      <3>2. ~isDisjoint(s, q) /\ ~isDisjoint(q, s)
        BY <2>1, <2>3, <3>1, DisjointSymmetric DEF SameBlocks, isDisjoint
      <3>3. contains(s, q)
        BY <3>2, SettledBelow
      <3> QED
        BY <2>1, <3>1, <3>3, ContainsTransitive
    <2> QED
      BY <2>1, <2>2, <2>3
  <1>10. /\ \A x \in o.todo : \E s \in o.sources : contains(x, s)
         /\ \A t \in o.todo : \A x \in Active :
                isDisjoint(t, x) \/ (x \in o.sources /\ contains(t, x))
         /\ \A t \in o.todo : \A q \in Settled : ~isDisjoint(t, q) => contains(t, q)
    BY <1>2, <1>9
  <1>11. /\ \A t \in o.todo : \A v \in Writers : \A q \in NewParts(v) : isDisjoint(t, q)
         /\ o.sources \subseteq Active /\ \A v \in Writers : op[v].sources \cap o.sources = {}
    BY <1>2, <1>6
  <1> QED
    BY <1>2, <1>3, <1>4, <1>5, <1>6, <1>10, <1>11, <1>12, <1>13, AssignedNames

(***************************************************************************)
(* What Transaction::commit does, when the Active parts cover none of the  *)
(* new ones: they become Active in place of all that they cover.           *)
(***************************************************************************)
LEMMA CommitExact ==
    ASSUME IInv, NEW st, NEW P, DOMAIN st = DOMAIN state \cup P, P \subseteq PartInfos,
           \A q \in DOMAIN state \ P : st[q] = state[q],
           P \cap Active = {}, \A p \in P, a \in Active : ~contains(a, p),
           \A p \in P : IntersectedParts(p, Active) = {},
           state' = CommitState(st, P, Active)
    PROVE  /\ Active' = {a \in Active : \A p \in P : ~contains(p, a)} \cup P
           /\ DOMAIN state' = DOMAIN state \cup P
           /\ \A q \in DOMAIN state \ P :
                 state'[q] = IF q \in Active /\ q \notin Active' THEN "Outdated" ELSE state[q]
  <1> DEFINE Old == {a \in Active : \E p \in P : contains(p, a)}
  <1>1. Active \subseteq AnyInfo /\ P \subseteq AnyInfo /\ Active \in SUBSET AnyInfo
    BY KnownAreInfos, PartInfosAreInfos
  <1>2. Obsolete(P, Active) = {}
    BY DEF Obsolete, CoveringParts, Stops, Left, Right
  <1>3. Replaced(P, Active) = Old
    <2>1. ASSUME NEW p \in P, NEW q \in CoveredParts(p, Active)
          PROVE  q \in Active /\ contains(p, q)
      BY <1>1, <2>1, CoveredAreContained
    <2>2. ASSUME NEW p \in P, NEW q \in Active, contains(p, q)
          PROVE  q \in CoveredParts(p, Active)
      <3>1. CoveringParts(p, Active) = {} /\ IntersectedParts(p, Active) = {} /\ q # p
        BY <1>2 DEF Obsolete
      <3>2. PairwiseDisjoint(Active)
        BY DEF IInv, ActiveDisjoint, PairwiseDisjoint
      <3>3. ~isDisjoint(p, q)
        BY <1>1, <2>2, ContainsOverlaps
      <3> QED
        BY <1>1, <3>1, <3>2, <3>3, WalkComplete
    <2> QED
      BY <1>2, <2>1, <2>2 DEF Replaced
  <1>4. DOMAIN state' = DOMAIN state \cup P
    BY DEF CommitState
  <1>5. \A q \in DOMAIN st : state'[q] = IF q \in P THEN "Active" ELSE IF q \in Old THEN "Outdated" ELSE st[q]
    BY <1>2, <1>3 DEF CommitState
  <1>6. Active \subseteq DOMAIN state /\ \A q \in DOMAIN state : q \in Active <=> state[q] = "Active"
    BY DEF Active, In
  <1> HIDE DEF Old
  <1>7. Active' = (Active \ Old) \cup P
    <2>1. \A q : q \in Active' <=> q \in DOMAIN state \cup P /\ state'[q] = "Active"
      BY <1>4 DEF Active, In
    <2>2. \A q \in DOMAIN state \cup P : state'[q] = "Active" <=> q \in (Active \ Old) \cup P
      BY <1>5, <1>6
    <2> QED
      BY <1>6, <2>1, <2>2
  <1> QED
    BY <1>4, <1>5, <1>6, <1>7 DEF Old

LEMMA commitNames ==
    ASSUME IInv, Names, Directories, TypeOK', NEW w \in Writers, commit(w)
    PROVE  /\ Names'
           /\ Active' = {a \in Active : \A p \in op[w].precommitted : ~contains(p, a)}
                           \cup op[w].precommitted
           /\ DOMAIN state' = DOMAIN state
           /\ \A q \in DOMAIN state \ op[w].precommitted :
                 state'[q] = IF q \in Active /\ q \notin Active' THEN "Outdated" ELSE state[q]
           /\ Settled' = Settled \cup op[w].precommitted
  <1> USE DEF memory, threads, stored, history, budget
  <1> DEFINE P == op[w].precommitted
  <1>1. /\ op[w].todo = {} /\ op[w].need_rename = {}
        /\ \A p \in P : IntersectedParts(p, Active) = {}
        /\ state' = CommitState(state, P, Active)
        /\ op' = [op EXCEPT ![w] = NoOperation] /\ UNCHANGED disk
    BY DEF commit
  <1>2. /\ P \subseteq DOMAIN state /\ P \subseteq PartInfos /\ P \subseteq AnyInfo
        /\ P \cap Active = {} /\ P \subseteq DOMAIN disk /\ P = NewParts(w)
    BY <1>1, KnownAreInfos DEF IInv, TransactionParts, In, Active, NewParts
  <1>3. /\ op'[w].sources = {} /\ NewParts(w)' = {} /\ op'[w].precommitted = {}
        /\ \A v \in Writers : v # w => op'[v] = op[v] /\ NewParts(v)' = NewParts(v)
    <2>1. op'[w] = NoOperation /\ \A v \in Writers : v # w => op'[v] = op[v]
      BY <1>1 DEF IInv, TypeOK
    <2> QED
      BY <2>1 DEF NoOperation, NewParts
  <1> HIDE DEF P
  <1>4. Active \subseteq AnyInfo /\ Settled \subseteq AnyInfo /\ Settled \subseteq DOMAIN disk
    BY KnownAreInfos
  <1>5. \A p \in P, a \in Active :
           /\ isDisjoint(p, a) \/ (a \in op[w].sources /\ contains(p, a))
           /\ ~contains(a, p)
    <2> SUFFICES ASSUME NEW p \in P, NEW a \in Active
                 PROVE  /\ isDisjoint(p, a) \/ (a \in op[w].sources /\ contains(p, a))
                        /\ ~contains(a, p)
      OBVIOUS
    <2>1. isDisjoint(p, a) \/ (a \in op[w].sources /\ contains(p, a))
      BY <1>2 DEF Names, NewCoversSources
    <2>2. a # p /\ a \in AnyInfo /\ p \in AnyInfo
      BY <1>2, <1>4
    <2> QED
      BY <2>1, <2>2, ContainsAntisymmetric, ContainsOverlaps, DisjointSymmetric
  <1>6. /\ Active' = {a \in Active : \A p \in P : ~contains(p, a)} \cup P
        /\ DOMAIN state' = DOMAIN state
        /\ \A q \in DOMAIN state \ P :
              state'[q] = IF q \in Active /\ q \notin Active' THEN "Outdated" ELSE state[q]
    <2>1. DOMAIN state = DOMAIN state \cup P
      BY <1>2
    <2> QED
      BY <1>1, <1>2, <1>5, <2>1, CommitExact
  <1>7. Settled' = Settled \cup P
    <2>1. \A q \in P : \A v \in Writers : v # w => q \notin op[v].precommitted
      BY DEF IInv, TransactionParts, P
    <2> QED
      BY <1>1, <1>2, <1>3, <2>1 DEF Settled, P
  <1>8. Laminar'
    BY <1>1, <1>3 DEF Names, Laminar
  <1>9. Topmost'
    <2> SUFFICES ASSUME NEW q \in Settled', NEW a \in Active', contains(q, a)
                 PROVE  q = a
      BY DEF Topmost
    <2>1. q \in AnyInfo /\ a \in AnyInfo
      BY <1>2, <1>4, <1>6, <1>7
    <2>2. CASE q \in Settled /\ a \in P
      <3>1. PICK s \in op[w].sources : contains(a, s)
        BY <1>2, <2>2 DEF Names, NewCoversSources
      <3>2. s \in Active /\ s \in AnyInfo /\ s # a
        BY <1>2, <1>4, <2>2 DEF Names, SourcesActive
      <3>3. contains(q, s)
        BY <2>1, <3>1, <3>2, ContainsTransitive
      <3>4. q = s
        BY <2>2, <3>2, <3>3 DEF Names, Topmost
      <3> QED
        BY <2>1, <3>1, <3>2, <3>4, ContainsAntisymmetric
    <2>3. CASE q \in P /\ a \in P
      <3>1. q = a \/ isDisjoint(q, a)
        BY <1>2, <2>3 DEF IInv, NewPartsDisjoint
      <3> QED
        BY <2>1, <3>1, ContainsOverlaps
    <2>4. CASE q \in Settled /\ a \in Active
      BY <2>4 DEF Names, Topmost
    <2>5. CASE q \in P /\ a \notin P
      BY <1>6, <2>5
    <2> QED
      BY <1>6, <1>7, <2>2, <2>3, <2>4, <2>5
  <1>10. SourcesActive'
    <2>1. ASSUME NEW v \in Writers, v # w, NEW x \in op[v].sources
          PROVE  x \in Active'
      <3>1. x \in Active /\ x \notin op[w].sources /\ x \in AnyInfo
        BY <1>4, <2>1 DEF Names, SourcesActive
      <3>2. \A p \in P : isDisjoint(p, x)
        BY <1>5, <3>1
      <3>3. \A p \in P : ~contains(p, x)
        BY <1>2, <3>1, <3>2, ContainsOverlaps
      <3> QED
        BY <1>6, <3>1, <3>3
    <2> QED
      BY <1>3, <2>1 DEF Names, SourcesActive
  <1>11. NewCoversSources'
    <2> SUFFICES ASSUME NEW v \in Writers, NEW p \in NewParts(v)'
                 PROVE  /\ \E s \in op'[v].sources : contains(p, s)
                        /\ \A x \in Active' : isDisjoint(p, x) \/ (x \in op'[v].sources /\ contains(p, x))
      BY DEF NewCoversSources
    <2>1. v # w /\ p \in NewParts(v) /\ op'[v] = op[v]
      BY <1>3
    <2>2. \A x \in P : isDisjoint(p, x)
      BY <1>2, <2>1 DEF Names, OperationsApart
    <2>3. \A x \in Active : isDisjoint(p, x) \/ (x \in op[v].sources /\ contains(p, x))
      BY <2>1 DEF Names, NewCoversSources
    <2>4. \E s \in op[v].sources : contains(p, s)
      BY <2>1 DEF Names, NewCoversSources
    <2>5. \A x \in Active' : isDisjoint(p, x) \/ (x \in op[v].sources /\ contains(p, x))
      BY <1>6, <2>2, <2>3
    <2> QED
      BY <2>1, <2>4, <2>5
  <1>12. OperationsApart'
    BY <1>3 DEF Names, OperationsApart
  <1>13. Names'
    BY <1>8, <1>9, <1>10, <1>11, <1>12 DEF Names
  <1> QED
    BY <1>6, <1>7, <1>13 DEF P

(* The part of an insert is above everything.                              *)
LEMMA NewPartAbove ==
    ASSUME IInv, Directories, phase = "up", increment < MaxBlock
    PROVE  /\ NewPart \in PartInfos /\ NewPart \in AnyInfo
           /\ NewPart.max = increment + 1 /\ NewPart.min = increment + 1
           /\ \A x \in Active \cup DOMAIN disk \cup unloaded : isDisjoint(NewPart, x) /\ isDisjoint(x, NewPart)
           /\ \A w \in Writers : \A x \in NewParts(w) : isDisjoint(NewPart, x) /\ isDisjoint(x, NewPart)
           /\ NewPart \notin DOMAIN disk
  <1> DEFINE p == NewPart
  <1>1. increment \in Nat /\ increment + 1 \in 1..MaxBlock
    BY DEF IInv, TypeOK
  <1>2. p \in PartInfos /\ p.min = increment + 1 /\ p.max = increment + 1
    BY <1>1 DEF NewPart, PartInfos
  <1>3. \A x \in PartInfos : x.max <= increment => isDisjoint(p, x) /\ isDisjoint(x, p)
    BY <1>1, <1>2 DEF PartInfos, isDisjoint
  <1>4. \A x \in Active \cup DOMAIN disk \cup unloaded : x \in PartInfos /\ x.max <= increment
    BY KnownAreInfos DEF Directories, DirectoriesHandedOut, IInv, UnloadedCovered
  <1>5. \A w \in Writers : \A x \in NewParts(w) : x \in PartInfos /\ x.max <= increment
    BY KnownAreInfos DEF IInv, BlocksHandedOut
  <1>6. p \in AnyInfo
    BY <1>2, PartInfosAreInfos
  <1>7. p \notin DOMAIN disk
    BY <1>3, <1>4, <1>6, ContainsItself
  <1> QED
    BY <1>2, <1>3, <1>4, <1>5, <1>6, <1>7

LEMMA commitPartNames ==
    ASSUME IInv, Names, Directories, TypeOK', commitPart
    PROVE  /\ Names'
           /\ Active' = Active \cup {NewPart} /\ Settled' = Settled \cup {NewPart}
           /\ DOMAIN state' = DOMAIN state \cup {NewPart}
           /\ \A q \in DOMAIN state : state'[q] = state[q]
           /\ NewPart \notin DOMAIN state
  <1> USE DEF memory, threads, stored, history, budget
  <1> DEFINE p == NewPart
  <1>1. /\ p \notin DOMAIN state /\ IntersectedParts(p, Active) = {}
        /\ state' = CommitState(Put(state, p, "PreActive"), {p}, Active)
        /\ disk' = Put(disk, p, {NewRow})
        /\ UNCHANGED op /\ phase = "up" /\ increment < MaxBlock
    BY DEF commitPart, InsertPart, checkPart
  <1>2. /\ p \in PartInfos /\ p \in AnyInfo
        /\ \A x \in Active \cup DOMAIN disk : isDisjoint(p, x) /\ isDisjoint(x, p)
        /\ \A w \in Writers : \A x \in NewParts(w) : isDisjoint(p, x) /\ isDisjoint(x, p)
        /\ p \notin DOMAIN disk
    BY <1>1, NewPartAbove
  <1> HIDE DEF p
  <1>3. /\ DOMAIN disk' = DOMAIN disk \cup {p}
        /\ DOMAIN Put(state, p, "PreActive") = DOMAIN state \cup {p}
        /\ \A q \in DOMAIN state \ {p} : Put(state, p, "PreActive")[q] = state[q]
    BY <1>1 DEF Put
  <1>4. /\ Active \subseteq AnyInfo /\ DOMAIN disk \subseteq AnyInfo /\ Active \subseteq DOMAIN state
        /\ \A w \in Writers : NewParts(w) \subseteq AnyInfo
    BY KnownAreInfos DEF Active, In
  <1>5. \A a \in Active : ~contains(a, p) /\ ~contains(p, a)
    BY <1>2, <1>4, ContainsOverlaps
  <1>6. /\ Active' = Active \cup {p}
        /\ DOMAIN state' = DOMAIN state \cup {p}
        /\ \A q \in DOMAIN state \ {p} : state'[q] = state[q]
    <2>1. /\ Active' = {a \in Active : \A x \in {p} : ~contains(x, a)} \cup {p}
          /\ DOMAIN state' = DOMAIN state \cup {p}
          /\ \A q \in DOMAIN state \ {p} :
                state'[q] = IF q \in Active /\ q \notin Active' THEN "Outdated" ELSE state[q]
      <3>1. {p} \subseteq PartInfos /\ {p} \cap Active = {}
        BY <1>1, <1>2, <1>4
      <3>2. \A x \in {p}, a \in Active : ~contains(a, x)
        BY <1>5
      <3>3. \A x \in {p} : IntersectedParts(x, Active) = {}
        BY <1>1
      <3> QED
        BY <1>1, <1>3, <3>1, <3>2, <3>3, CommitExact
    <2> QED
      BY <1>5, <2>1
  <1>7. \A w \in Writers : p \notin op[w].precommitted
    BY <1>1 DEF IInv, TransactionParts, In
  <1>8. Settled' = Settled \cup {p}
    BY <1>1, <1>3, <1>7 DEF Settled
  <1>9. \A w \in Writers : NewParts(w)' = NewParts(w)
    BY <1>1 DEF NewParts
  <1>10. \A x \in DOMAIN disk : ~Intersect(p, x) /\ ~Intersect(x, p)
    BY <1>2 DEF Intersect
  <1>11. ~Intersect(p, p)
    BY <1>2, ContainsItself DEF Intersect
  <1>12. Laminar'
    <2>1. \A w \in Writers : \A x \in NewParts(w) : ~Intersect(x, p)
      BY <1>2 DEF Intersect
    <2> QED
      BY <1>3, <1>9, <1>10, <1>11, <2>1 DEF Names, Laminar
  <1>13. Topmost'
    <2>1. \A q \in Settled : ~contains(q, p)
      BY <1>2, <1>4, KnownAreInfos, ContainsOverlaps
    <2> QED
      BY <1>5, <1>6, <1>8, <2>1 DEF Names, Topmost
  <1>14. SourcesActive'
    BY <1>1, <1>6 DEF Names, SourcesActive
  <1>15. NewCoversSources'
    <2> SUFFICES ASSUME NEW v \in Writers, NEW y \in NewParts(v)
                 PROVE  /\ \E s \in op[v].sources : contains(y, s)
                        /\ \A x \in Active' : isDisjoint(y, x) \/ (x \in op[v].sources /\ contains(y, x))
      BY <1>1, <1>9 DEF NewCoversSources
    <2> QED
      BY <1>2, <1>6 DEF Names, NewCoversSources
  <1>16. OperationsApart'
    BY <1>9 DEF Names, OperationsApart
  <1>17. Names'
    BY <1>12, <1>13, <1>14, <1>15, <1>16 DEF Names
  <1> QED
    BY <1>1, <1>6, <1>8, <1>17 DEF p

(* A restart loads what is on disk.                                        *)
LEMMA loadDataPartsNames ==
    ASSUME IInv, Names, Directories, TypeOK', loadDataParts
    PROVE  /\ Names'
           /\ Active' = Tops(DOMAIN disk, {}) /\ Settled' = DOMAIN disk
           /\ DOMAIN state' = Active' /\ unloaded' = DOMAIN disk \ Active'
           /\ rows' = [p \in Active' |-> disk[p]]
           /\ \A p \in Active' : p.max <= increment'
           /\ \A w \in Writers : op'[w] = NoOperation /\ op[w] = NoOperation
           /\ \A c \in Cleaners : cleaner'[c] = NoCleaning
  <1> USE DEF memory, threads, stored, history, budget
  <1>1. PICK K \in PartLoadingTree, n \in 0..MaxBlock :
           /\ state' = [p \in Tops(K, marked) |-> IF p \in marked THEN "Outdated" ELSE "Active"]
           /\ rows' = [p \in Tops(K, marked) |-> disk[p]]
           /\ unloaded' = K \ Tops(K, marked)
           /\ getMaxBlockNumber(n, Tops(K, marked)) /\ increment' = n
    BY DEF loadDataParts
  <1>2. UNCHANGED <<disk, op, cleaner>> /\ phase = "down"
    BY DEF loadDataParts
  <1>3. marked = {}
    BY DEF Directories
  <1>4. K = DOMAIN disk
    BY <1>3 DEF PartLoadingTree
  <1>5. /\ Active' = Tops(DOMAIN disk, {}) /\ DOMAIN state' = Active'
        /\ unloaded' = DOMAIN disk \ Active' /\ rows' = [p \in Active' |-> disk[p]]
    BY <1>1, <1>3, <1>4 DEF Active, In
  <1>6. \A p \in Active' : p.max <= increment'
    BY <1>1, <1>3, <1>4, <1>5 DEF getMaxBlockNumber
  <1>7. /\ \A w \in Writers : op'[w] = NoOperation /\ op[w] = NoOperation
        /\ \A c \in Cleaners : cleaner'[c] = NoCleaning
    BY <1>2 DEF IInv, DownEmpty
  <1>8. /\ \A w \in Writers : /\ op'[w].sources = {} /\ op'[w].precommitted = {} /\ NewParts(w)' = {}
        /\ Settled' = DOMAIN disk
    BY <1>2, <1>7 DEF NoOperation, NewParts, Settled
  <1>9. Laminar' /\ SourcesActive' /\ NewCoversSources' /\ OperationsApart'
    BY <1>2, <1>8 DEF Names, Laminar, SourcesActive, NewCoversSources, OperationsApart
  <1>10. Topmost'
    BY <1>5, <1>8 DEF Topmost, Tops
  <1>11. Names'
    BY <1>9, <1>10 DEF Names
  <1> QED
    BY <1>5, <1>6, <1>7, <1>8, <1>11

-----------------------------------------------------------------------------
(***************************************************************************)
(* The steps that make nothing Active and begin no operation               *)
(***************************************************************************)
NothingLeft(o) ==
    /\ o.sources = {} /\ o.todo = {} /\ o.precommitted = {} /\ o.need_rename = {} /\ o.kind = "none"
    /\ o.rows = {}

LEMMA NoOperationEmpty == NothingLeft(NoOperation)
  BY DEF NothingLeft, NoOperation

(* The end of an operation whose directories are not renamed.              *)
LEMMA EndNames ==
    ASSUME IInv, Names, NEW w \in Writers, op' = [op EXCEPT ![w] = NoOperation],
           Active' = Active, UNCHANGED disk, op[w].precommitted \cap DOMAIN disk = {}
    PROVE  /\ Names' /\ Settled' = Settled
           /\ op'[w] = NoOperation /\ \A v \in Writers : v # w => op'[v] = op[v]
  <1>1. op'[w] = NoOperation /\ \A v \in Writers : v # w => op'[v] = op[v]
    BY DEF IInv, TypeOK
  <1>2. /\ op'[w].sources = {} /\ op'[w].precommitted = {} /\ NewParts(w)' = {}
        /\ \A v \in Writers : v # w => op'[v] = op[v] /\ NewParts(v)' = NewParts(v)
    BY <1>1 DEF NoOperation, NewParts
  <1>3. Settled' = Settled
    BY <1>2 DEF Settled
  <1>4. \A v \in Writers :
          /\ op'[v].sources \subseteq op[v].sources /\ op'[v].sources \subseteq Active
          /\ NewParts(v)' \subseteq NewParts(v)
          /\ NewParts(v)' = {} \/ op'[v].sources = op[v].sources
    BY <1>2 DEF Names, SourcesActive
  <1>5. Shrinks
    BY <1>3, <1>4 DEF Shrinks
  <1> QED
    BY <1>1, <1>3, <1>5, ShrinkNames

Rollback(w) == checkPartThrows(w) \/ renamePartsThrows(w) \/ commitThrows(w)

(* Without late failures no directory is renamed when a Transaction rolls  *)
(* back.                                                                   *)
LEMMA RollbackEarly ==
    ASSUME NoLateFailure, IInv, Names, Directories, NEW w \in Writers, Rollback(w)
    PROVE  /\ UNCHANGED disk /\ marked' = {}
           /\ op[w].precommitted \cap DOMAIN disk = {}
           /\ state' = modifyPartState(state, op[w].precommitted, "Outdated")
           /\ op' = [op EXCEPT ![w] = NoOperation]
           /\ UNCHANGED <<rows, unloaded, increment, snapshot, cleaner, phase, history>> /\ phase = "up"
  <1>1. ~(LateFailures /\ failures < MaxFailures)
    BY DEF NoLateFailure, IInv, TypeOK
  <1>2. ~commitThrows(w)
    BY <1>1 DEF commitThrows
  <1>3. op[w].need_rename = op[w].precommitted
    BY <1>1, <1>2 DEF Rollback, checkPartThrows, renamePartsThrows, Directories, RenamedLast
  <1>4. UNCHANGED disk /\ phase = "up"
    BY <1>1, <1>2 DEF Rollback, checkPartThrows, renamePartsThrows
  <1>5. op[w].precommitted \cap DOMAIN disk = {}
    BY <1>3 DEF Directories, RenamedLast
  <1>6. rollback(w, DOMAIN disk)
    BY <1>1, <1>2, <1>4 DEF Rollback, checkPartThrows, renamePartsThrows
  <1>7. marked' = {}
    BY <1>5, <1>6 DEF rollback, Directories
  <1> QED
    BY <1>4, <1>5, <1>6, <1>7 DEF rollback

LEMMA RollbackNames ==
    ASSUME NoLateFailure, IInv, Names, Directories, NEW w \in Writers, Rollback(w)
    PROVE  /\ Names' /\ Settled' = Settled /\ Active' = Active
           /\ op'[w] = NoOperation /\ \A v \in Writers : v # w => op'[v] = op[v]
           /\ DOMAIN state' = DOMAIN state
  <1> DEFINE P == op[w].precommitted
  <1>1. /\ UNCHANGED disk /\ P \cap DOMAIN disk = {}
        /\ state' = modifyPartState(state, P, "Outdated")
        /\ op' = [op EXCEPT ![w] = NoOperation]
    BY RollbackEarly
  <1>2. P \cap Active = {}
    BY DEF IInv, TransactionParts, In, Active
  <1>3. Active' = Active /\ DOMAIN state' = DOMAIN state
    BY <1>1, <1>2 DEF modifyPartState, Active, In
  <1> QED
    BY <1>1, <1>3, EndNames

LEMMA cancelNames ==
    ASSUME IInv, Names, Directories, NEW w \in Writers, cancel(w)
    PROVE  /\ Names' /\ Settled' = Settled /\ Active' = Active
           /\ op'[w] = NoOperation /\ \A v \in Writers : v # w => op'[v] = op[v]
  <1>1. /\ UNCHANGED <<state, disk>> /\ op[w].precommitted = {}
        /\ op' = [op EXCEPT ![w] = NoOperation]
    BY DEF cancel, memory, stored
  <1>2. Active' = Active /\ op[w].precommitted \cap DOMAIN disk = {}
    BY <1>1 DEF Active, In
  <1> QED
    BY <1>1, <1>2, EndNames

(* A part enters the working set.                                          *)
LEMMA renameTempEffect ==
    ASSUME IInv, Names, Directories, NEW w \in Writers, NEW p \in op[w].todo,
           p \notin DOMAIN state, state' = Put(state, p, "PreActive"),
           op' = [op EXCEPT ![w].todo = @ \ {p},
                            ![w].precommitted = @ \cup {p}, ![w].need_rename = @ \cup {p}],
           UNCHANGED disk
    PROVE  /\ Names' /\ Settled' = Settled /\ Active' = Active
           /\ DOMAIN state' = DOMAIN state \cup {p} /\ state'[p] = "PreActive"
           /\ \A q \in DOMAIN state : state'[q] = state[q]
           /\ op'[w].todo = op[w].todo \ {p} /\ op'[w].sources = op[w].sources
           /\ op'[w].precommitted = op[w].precommitted \cup {p}
           /\ op'[w].need_rename = op[w].need_rename \cup {p}
           /\ op'[w].kind = op[w].kind /\ op'[w].rows = op[w].rows
           /\ \A v \in Writers : v # w => op'[v] = op[v]
           /\ p \notin DOMAIN disk
  <1>1. /\ op'[w].todo = op[w].todo \ {p} /\ op'[w].sources = op[w].sources
        /\ op'[w].precommitted = op[w].precommitted \cup {p}
        /\ op'[w].need_rename = op[w].need_rename \cup {p}
        /\ op'[w].kind = op[w].kind /\ op'[w].rows = op[w].rows
        /\ \A v \in Writers : v # w => op'[v] = op[v]
    BY DEF IInv, TypeOK, Operations
  <1>2. /\ DOMAIN state' = DOMAIN state \cup {p} /\ state'[p] = "PreActive"
        /\ \A q \in DOMAIN state : state'[q] = state[q]
    BY DEF Put
  <1>3. Active' = Active
    BY <1>2 DEF Active, In
  <1>4. p \notin DOMAIN disk
    BY DEF Directories, RenamedLast
  <1>5. Settled' = Settled
    BY <1>1, <1>4 DEF Settled
  <1>6. \A v \in Writers : NewParts(v)' = NewParts(v) /\ op'[v].sources = op[v].sources
    BY <1>1 DEF NewParts
  <1>7. Shrinks
    BY <1>3, <1>5, <1>6 DEF Shrinks, Names, SourcesActive
  <1>8. Names'
    BY <1>7, ShrinkNames
  <1> QED
    BY <1>1, <1>2, <1>3, <1>4, <1>5, <1>8

(* A directory of a Transaction gets its final name.                       *)
LEMMA renamePartsEffect ==
    ASSUME IInv, Names, Directories, NEW w \in Writers, NEW p \in op[w].need_rename,
           disk' = Put(disk, p, op[w].rows), op' = [op EXCEPT ![w].need_rename = @ \ {p}],
           UNCHANGED state
    PROVE  /\ Names' /\ Settled' = Settled /\ Active' = Active
           /\ DOMAIN disk' = DOMAIN disk \cup {p} /\ disk'[p] = op[w].rows
           /\ \A q \in DOMAIN disk : disk'[q] = disk[q]
           /\ p \notin DOMAIN disk /\ p \in op[w].precommitted /\ p \in DOMAIN state
           /\ op'[w].todo = op[w].todo /\ op'[w].sources = op[w].sources
           /\ op'[w].precommitted = op[w].precommitted
           /\ op'[w].need_rename = op[w].need_rename \ {p}
           /\ op'[w].kind = op[w].kind /\ op'[w].rows = op[w].rows
           /\ \A v \in Writers : v # w => op'[v] = op[v]
  <1>1. /\ op'[w].todo = op[w].todo /\ op'[w].sources = op[w].sources
        /\ op'[w].precommitted = op[w].precommitted
        /\ op'[w].need_rename = op[w].need_rename \ {p}
        /\ op'[w].kind = op[w].kind /\ op'[w].rows = op[w].rows
        /\ \A v \in Writers : v # w => op'[v] = op[v]
    BY DEF IInv, TypeOK, Operations
  <1>2. p \notin DOMAIN disk /\ p \in op[w].precommitted /\ p \in DOMAIN state
    BY DEF Directories, RenamedLast, IInv, TransactionParts, In
  <1>3. /\ DOMAIN disk' = DOMAIN disk \cup {p} /\ disk'[p] = op[w].rows
        /\ \A q \in DOMAIN disk : disk'[q] = disk[q]
    BY <1>2 DEF Put
  <1>4. Active' = Active
    BY DEF Active, In
  <1>5. \A v \in Writers : /\ NewParts(v)' = NewParts(v) /\ op'[v].sources = op[v].sources
                           /\ op'[v].precommitted = op[v].precommitted
    BY <1>1 DEF NewParts
  <1>6. Settled' = Settled
    BY <1>2, <1>3, <1>5 DEF Settled
  <1>7. \A q \in DOMAIN disk' : q \in DOMAIN disk \/ \E v \in Writers : q \in NewParts(v)
    BY <1>2, <1>3 DEF NewParts
  <1>8. Shrinks
    BY <1>4, <1>5, <1>6, <1>7 DEF Shrinks, Names, SourcesActive
  <1>9. Names'
    BY <1>8, ShrinkNames
  <1> QED
    BY <1>1, <1>2, <1>3, <1>4, <1>6, <1>9

(* A step that is no writer's.                                             *)
LEMMA OthersNames ==
    ASSUME IInv, Names, UNCHANGED op, DOMAIN disk' \subseteq DOMAIN disk, Active' \subseteq Active,
           \A w \in Writers : op[w].sources \subseteq Active'
    PROVE  Names' /\ Settled' = Settled \cap DOMAIN disk'
  <1>1. \A v \in Writers : NewParts(v)' = NewParts(v)
    BY DEF NewParts
  <1>2. Settled' = Settled \cap DOMAIN disk'
    BY DEF Settled
  <1>3. Shrinks
    BY <1>1, <1>2 DEF Shrinks
  <1> QED
    BY <1>2, <1>3, ShrinkNames

LEMMA CrashNames ==
    ASSUME IInv, Names, Crash
    PROVE  /\ Names' /\ Active' = {} /\ Settled' = DOMAIN disk
           /\ \A w \in Writers : op'[w] = NoOperation
           /\ \A c \in Cleaners : cleaner'[c] = NoCleaning
           /\ DOMAIN state' = {} /\ unloaded' = {} /\ UNCHANGED <<disk, marked>> /\ phase' = "down"
  <1>1. /\ \A w \in Writers : op'[w] = NoOperation
        /\ \A c \in Cleaners : cleaner'[c] = NoCleaning
        /\ DOMAIN state' = {} /\ unloaded' = {} /\ UNCHANGED <<disk, marked>> /\ phase' = "down"
    BY DEF Crash, stored
  <1>2. Active' = {}
    BY <1>1 DEF Active, In
  <1>3. \A w \in Writers : op'[w].sources = {} /\ op'[w].precommitted = {} /\ NewParts(w)' = {}
    BY <1>1 DEF NoOperation, NewParts
  <1>4. Settled' = DOMAIN disk
    BY <1>1, <1>3 DEF Settled
  <1>5. Names'
    BY <1>1, <1>2, <1>3 DEF Names, Laminar, Topmost, SourcesActive, NewCoversSources, OperationsApart
  <1> QED
    BY <1>1, <1>2, <1>4, <1>5

-----------------------------------------------------------------------------
(***************************************************************************)
(* The directories and the working set                                     *)
(***************************************************************************)
(* A writer's step: what its operation is afterwards.                      *)
LEMMA WriterDirectories ==
    ASSUME IInv, Directories, NEW w \in Writers, phase = "up",
           \A v \in Writers : v # w => op'[v] = op[v],
           op'[w].kind = "none" => op'[w] = NoOperation,
           UNCHANGED <<unloaded, increment, cleaner, phase>>, marked' = {},
           DOMAIN state \subseteq DOMAIN state',
           NEW P \in SUBSET DOMAIN state, DOMAIN disk' = DOMAIN disk \cup P,
           P \subseteq op[w].precommitted,
           op'[w].need_rename \cap DOMAIN disk' = {} /\ op'[w].todo \cap DOMAIN disk' = {},
           op'[w].todo # {} => op'[w].need_rename = op'[w].precommitted,
           \A v \in Writers : v # w => NewParts(v) \cap P = {}
    PROVE  Directories'
  <1>1. IdleWriters'
    BY DEF Directories, IdleWriters
  <1>2. DiskPartsKnown'
    BY DEF Directories, DiskPartsKnown
  <1>3. RemovedAreGone'
    <2>1. \A c \in Cleaners : cleaner[c].done \cap P = {}
      BY DEF IInv, GrabbedParts, Grabbed, TransactionParts, In
    <2> QED
      BY <2>1 DEF Directories, RemovedAreGone
  <1>4. RenamedLast'
    BY DEF Directories, RenamedLast, NewParts, IInv, TransactionParts
  <1>5. DirectoriesHandedOut'
    <2>1. \A q \in P : q.max <= increment
      BY DEF IInv, BlocksHandedOut, NewParts
    <2> QED
      BY <2>1 DEF Directories, DirectoriesHandedOut
  <1> QED
    BY <1>1, <1>2, <1>3, <1>4, <1>5 DEF Directories

(* An operation ends.                                                      *)
LEMMA EndDirectories ==
    ASSUME IInv, Directories, NEW w \in Writers, phase = "up",
           \A v \in Writers : v # w => op'[v] = op[v], op'[w] = NoOperation,
           UNCHANGED <<unloaded, increment, cleaner, phase, disk>>, marked' = {},
           DOMAIN state \subseteq DOMAIN state'
    PROVE  Directories'
  <1> DEFINE P == {}
  <1>1. /\ P \in SUBSET DOMAIN state /\ DOMAIN disk' = DOMAIN disk \cup P
        /\ P \subseteq op[w].precommitted /\ \A v \in Writers : v # w => NewParts(v) \cap P = {}
    OBVIOUS
  <1>2. /\ op'[w].need_rename \cap DOMAIN disk' = {} /\ op'[w].todo \cap DOMAIN disk' = {}
        /\ op'[w].todo # {} => op'[w].need_rename = op'[w].precommitted
    BY NoOperationEmpty DEF NothingLeft
  <1> HIDE DEF P
  <1> QED
    BY <1>1, <1>2, WriterDirectories

LEMMA WriterNames ==
    ASSUME NoLateFailure, IInv, Names, Directories, TypeOK', NEW w \in Writers, WriterStep(w)
    PROVE  Names' /\ Directories'
  <1> USE DEF memory, threads, stored, history, budget
  <1>1. CASE selectPartsToMerge(w) \/ coverPartsWithEmptyParts(w)
    BY <1>1, selectPartsToMergeNames, coverPartsWithEmptyPartsNames
  <1>2. CASE cancel(w)
    <2>1. /\ UNCHANGED <<state, unloaded, increment, cleaner, phase, disk>> /\ marked' = {} /\ phase = "up"
      BY <1>2 DEF cancel, Directories
    <2>2. /\ Names' /\ op'[w] = NoOperation /\ \A v \in Writers : v # w => op'[v] = op[v]
      BY <1>2, cancelNames
    <2> QED
      BY <2>1, <2>2, EndDirectories
  <1>3. CASE Rollback(w)
    <2>1. /\ UNCHANGED <<unloaded, increment, cleaner, phase, disk>> /\ marked' = {} /\ phase = "up"
      BY <1>3, RollbackEarly
    <2>2. /\ Names' /\ op'[w] = NoOperation /\ \A v \in Writers : v # w => op'[v] = op[v]
          /\ DOMAIN state' = DOMAIN state
      BY <1>3, RollbackNames
    <2> QED
      BY <2>1, <2>2, EndDirectories
  <1>4. CASE commit(w)
    <2>1. /\ UNCHANGED <<unloaded, increment, cleaner, phase, disk>> /\ marked' = {} /\ phase = "up"
          /\ op' = [op EXCEPT ![w] = NoOperation]
      BY <1>4 DEF commit, Directories
    <2>2. Names' /\ DOMAIN state' = DOMAIN state
      BY <1>4, commitNames
    <2>3. /\ op'[w] = NoOperation /\ \A v \in Writers : v # w => op'[v] = op[v]
      BY <2>1 DEF IInv, TypeOK
    <2> QED
      BY <2>1, <2>2, <2>3, EndDirectories
  <1>5. CASE renameTempPartAndReplace(w)
    <2>1. PICK p \in op[w].todo :
           /\ p \notin DOMAIN state /\ state' = Put(state, p, "PreActive")
           /\ op' = [op EXCEPT ![w].todo = @ \ {p},
                              ![w].precommitted = @ \cup {p}, ![w].need_rename = @ \cup {p}]
      BY <1>5 DEF renameTempPartAndReplace, checkPart
    <2>2. /\ UNCHANGED <<unloaded, increment, cleaner, phase, disk>> /\ marked' = {} /\ phase = "up"
      BY <1>5 DEF renameTempPartAndReplace, Directories
    <2>3. /\ Names' /\ DOMAIN state' = DOMAIN state \cup {p}
          /\ op'[w].todo = op[w].todo \ {p}
          /\ op'[w].precommitted = op[w].precommitted \cup {p}
          /\ op'[w].need_rename = op[w].need_rename \cup {p}
          /\ op'[w].kind = op[w].kind
          /\ \A v \in Writers : v # w => op'[v] = op[v]
          /\ p \notin DOMAIN disk
      BY <2>1, <2>2, renameTempEffect
    <2>4. op[w].kind # "none"
      BY NoOperationEmpty DEF Directories, IdleWriters, NothingLeft
    <2>5. /\ op'[w].need_rename \cap DOMAIN disk' = {} /\ op'[w].todo \cap DOMAIN disk' = {}
          /\ op'[w].todo # {} => op'[w].need_rename = op'[w].precommitted
      BY <2>2, <2>3 DEF Directories, RenamedLast
    <2> DEFINE P == {}
    <2>6. /\ P \in SUBSET DOMAIN state /\ DOMAIN disk' = DOMAIN disk \cup P
          /\ P \subseteq op[w].precommitted /\ \A v \in Writers : v # w => NewParts(v) \cap P = {}
      BY <2>2
    <2> HIDE DEF P
    <2>7. DOMAIN state \subseteq DOMAIN state' /\ (op'[w].kind = "none" => op'[w] = NoOperation)
      BY <2>3, <2>4
    <2>8. Directories'
      BY <2>2, <2>3, <2>5, <2>6, <2>7, WriterDirectories
    <2> QED
      BY <2>3, <2>8
  <1>6. CASE renameParts(w)
    <2>1. PICK p \in op[w].need_rename :
           /\ disk' = Put(disk, p, op[w].rows) /\ marked' = marked \ {p}
           /\ op' = [op EXCEPT ![w].need_rename = @ \ {p}]
      BY <1>6 DEF renameParts
    <2>2. /\ UNCHANGED <<state, unloaded, increment, cleaner, phase>> /\ marked' = {} /\ phase = "up"
          /\ op[w].todo = {}
      BY <1>6, <2>1 DEF renameParts, Directories
    <2>3. /\ Names' /\ DOMAIN disk' = DOMAIN disk \cup {p} /\ p \in op[w].precommitted
          /\ p \in DOMAIN state
          /\ op'[w].todo = op[w].todo
          /\ op'[w].need_rename = op[w].need_rename \ {p}
          /\ op'[w].kind = op[w].kind
          /\ \A v \in Writers : v # w => op'[v] = op[v]
      BY <2>1, <2>2, renamePartsEffect
    <2>4. op[w].kind # "none"
      BY NoOperationEmpty DEF Directories, IdleWriters, NothingLeft
    <2>5. /\ op'[w].need_rename \cap DOMAIN disk' = {} /\ op'[w].todo \cap DOMAIN disk' = {}
          /\ op'[w].todo # {} => op'[w].need_rename = op'[w].precommitted
      BY <2>2, <2>3 DEF Directories, RenamedLast
    <2>6. \A v \in Writers : v # w => NewParts(v) \cap {p} = {}
      <3>1. p \in AnyInfo /\ p \in NewParts(w)
        BY <2>3, KnownAreInfos DEF NewParts
      <3> QED
        BY <3>1, ContainsItself DEF Names, OperationsApart
    <2>7. (op'[w].kind = "none" => op'[w] = NoOperation) /\ {p} \in SUBSET DOMAIN state
          /\ {p} \subseteq op[w].precommitted
      BY <2>3, <2>4
    <2>8. Directories'
      BY <2>2, <2>3, <2>5, <2>6, <2>7, WriterDirectories
    <2> QED
      BY <2>3, <2>8
  <1> QED
    BY <1>1, <1>2, <1>3, <1>4, <1>5, <1>6 DEF WriterStep, Rollback
(* A step that is no writer's.                                             *)
LEMMA OthersDirectories ==
    ASSUME Directories, UNCHANGED <<op, increment, phase>>, marked' = {},
           DOMAIN disk' \subseteq DOMAIN disk,
           DOMAIN disk' \subseteq DOMAIN state' \cup unloaded', RemovedAreGone'
    PROVE  Directories'
  <1>1. IdleWriters' /\ RenamedLast' /\ DirectoriesHandedOut' /\ DiskPartsKnown'
    BY DEF Directories, IdleWriters, RenamedLast, DirectoriesHandedOut, DiskPartsKnown
  <1> QED
    BY <1>1 DEF Directories

LEMMA SameNames ==
    ASSUME IInv, Names, Directories, DOMAIN state' = DOMAIN state, Active' = Active,
           UNCHANGED <<op, increment, phase, disk, unloaded>>, marked' = {}, RemovedAreGone'
    PROVE  Names' /\ Directories'
  <1>1. phase = "up" => DOMAIN disk \subseteq DOMAIN state \cup unloaded
    BY DEF Directories, DiskPartsKnown
  <1>2. IdleWriters' /\ RenamedLast' /\ DirectoriesHandedOut' /\ DiskPartsKnown'
    BY <1>1 DEF Directories, IdleWriters, RenamedLast, DirectoriesHandedOut, DiskPartsKnown
  <1>3. Directories'
    BY <1>2 DEF Directories
  <1>4. \A w \in Writers : op[w].sources \subseteq Active'
    BY DEF Names, SourcesActive
  <1>5. Names'
    BY <1>4, OthersNames
  <1> QED
    BY <1>3, <1>5

LEMMA CleanerNames ==
    ASSUME IInv, Names, Directories, NEW c \in Cleaners, CleanerStep(c)
    PROVE  Names' /\ Directories'
  <1> USE DEF memory, threads, stored, history, budget
  <1>1. CASE grabOldParts(c)
    <2>1. PICK S \in SUBSET Removable :
             state' = modifyPartState(state, S, "Deleting") /\ cleaner' = [cleaner EXCEPT ![c].todo = S]
      BY <1>1 DEF grabOldParts
    <2>2. UNCHANGED <<op, increment, phase, disk, unloaded>> /\ marked' = {}
      BY <1>1 DEF grabOldParts, Directories
    <2>3. DOMAIN state' = DOMAIN state /\ Active' = Active
      BY <2>1 DEF modifyPartState, Removable, Active, Outdated, In
    <2>4. \A d \in Cleaners : cleaner'[d].done = cleaner[d].done
      BY <2>1 DEF IInv, TypeOK, Cleanings
    <2>5. RemovedAreGone'
      BY <2>2, <2>4 DEF Directories, RemovedAreGone
    <2> QED
      BY <2>2, <2>3, <2>5, SameNames
  <1>2. CASE removePart(c) \/ removePartThrows(c)
    <2>1. PICK p \in cleaner[c].todo :
             /\ UNCHANGED <<state, op, increment, phase, unloaded>> /\ phase = "up"
             /\ marked' \subseteq marked
             /\ DOMAIN disk' \subseteq DOMAIN disk
             /\ \A d \in Cleaners : cleaner'[d].done \cap DOMAIN disk' \subseteq cleaner[d].done
      <3>1. CASE removePart(c)
        <4>1. PICK p \in cleaner[c].todo :
                 /\ disk' = Without(disk, {p}) /\ marked' = marked \ {p}
                 /\ cleaner' = [cleaner EXCEPT ![c].todo = @ \ {p}, ![c].done = @ \cup {p}]
          BY <3>1 DEF removePart
        <4>2. DOMAIN disk' = DOMAIN disk \ {p}
          BY <4>1 DEF Without
        <4>3. \A d \in Cleaners : cleaner'[d].done \subseteq cleaner[d].done \cup {p}
          BY <4>1 DEF IInv, TypeOK, Cleanings
        <4> QED
          BY <3>1, <4>1, <4>2, <4>3 DEF removePart
      <3>2. CASE removePartThrows(c)
        <4>1. PICK p \in cleaner[c].todo :
                 /\ UNCHANGED stored \/ (disk' = Without(disk, {p}) /\ marked' = marked \ {p})
                 /\ \E S \in {{p}, cleaner[c].todo} :
                       cleaner' = [cleaner EXCEPT ![c].todo = @ \ S, ![c].failed = @ \cup S]
          BY <3>2 DEF removePartThrows
        <4>2. DOMAIN disk' \subseteq DOMAIN disk
          BY <4>1 DEF Without
        <4>3. PICK S \in {{p}, cleaner[c].todo} :
                 cleaner' = [cleaner EXCEPT ![c].todo = @ \ S, ![c].failed = @ \cup S]
          BY <4>1
        <4>4. \A d \in Cleaners : cleaner'[d].done = cleaner[d].done
          BY <4>3 DEF IInv, TypeOK, Cleanings
        <4> QED
          BY <3>2, <4>1, <4>2, <4>4 DEF removePartThrows
      <3> QED
        BY <1>2, <3>1, <3>2
    <2>2. Active' = Active
      BY <2>1 DEF Active, In
    <2>3. \A w \in Writers : op[w].sources \subseteq Active'
      BY <2>2 DEF Names, SourcesActive
    <2>4. Names'
      BY <2>1, <2>2, <2>3, OthersNames
    <2>5. RemovedAreGone'
      BY <2>1 DEF Directories, RemovedAreGone
    <2>6. marked' = {} /\ DOMAIN disk' \subseteq DOMAIN state' \cup unloaded'
      BY <2>1 DEF Directories, DiskPartsKnown
    <2> QED
      BY <2>1, <2>4, <2>5, <2>6, OthersDirectories
  <1>3. CASE rollbackDeletingParts(c)
    <2>1. /\ state' = modifyPartState(state, cleaner[c].failed, "Outdated")
          /\ cleaner' = [cleaner EXCEPT ![c].failed = {}]
          /\ UNCHANGED <<op, increment, phase, disk, unloaded>> /\ marked' = {}
      BY <1>3 DEF rollbackDeletingParts, Directories
    <2>2. cleaner[c].failed \subseteq In("Deleting")
      BY DEF IInv, GrabbedParts, Grabbed
    <2>3. DOMAIN state' = DOMAIN state /\ Active' = Active
      BY <2>1, <2>2 DEF modifyPartState, Active, In
    <2>4. \A d \in Cleaners : cleaner'[d].done = cleaner[d].done
      BY <2>1 DEF IInv, TypeOK, Cleanings
    <2>5. RemovedAreGone'
      BY <2>1, <2>4 DEF Directories, RemovedAreGone
    <2> QED
      BY <2>1, <2>3, <2>5, SameNames
  <1>4. CASE removePartsFinally(c)
    <2>1. /\ state' = Without(state, cleaner[c].done) /\ phase = "up"
          /\ cleaner' = [cleaner EXCEPT ![c].done = {}]
          /\ UNCHANGED <<op, increment, phase, disk, unloaded>> /\ marked' = {}
      BY <1>4 DEF removePartsFinally, Directories
    <2>2. cleaner[c].done \subseteq In("Deleting") /\ cleaner[c].done \cap DOMAIN disk = {}
      BY DEF IInv, GrabbedParts, Grabbed, Directories, RemovedAreGone
    <2>3. DOMAIN state' = DOMAIN state \ cleaner[c].done /\ Active' = Active
      BY <2>1, <2>2 DEF Without, Active, In
    <2>4. \A d \in Cleaners : cleaner'[d].done \subseteq cleaner[d].done
      BY <2>1 DEF IInv, TypeOK, Cleanings
    <2>5. RemovedAreGone'
      BY <2>1, <2>4 DEF Directories, RemovedAreGone
    <2>6. DOMAIN disk' \subseteq DOMAIN state' \cup unloaded'
      BY <2>1, <2>2, <2>3 DEF Directories, DiskPartsKnown
    <2>7. \A w \in Writers : op[w].sources \subseteq Active'
      BY <2>3 DEF Names, SourcesActive
    <2>8. Names'
      BY <2>1, <2>3, <2>7, OthersNames
    <2> QED
      BY <2>1, <2>5, <2>6, <2>8, OthersDirectories
  <1> QED
    BY <1>1, <1>2, <1>3, <1>4 DEF CleanerStep

LEMMA commitPartDirectories ==
    ASSUME IInv, Names, Directories, TypeOK', commitPart
    PROVE  Directories'
  <1> USE DEF memory, threads, stored, history, budget
  <1> DEFINE p == NewPart
  <1>1. /\ UNCHANGED <<op, cleaner, unloaded, phase>> /\ marked' = {} /\ phase = "up"
        /\ increment < MaxBlock /\ increment' = increment + 1
        /\ disk' = Put(disk, p, {NewRow})
    BY DEF commitPart, InsertPart, Directories
  <1>2. DOMAIN state' = DOMAIN state \cup {p} /\ p \notin DOMAIN state
    BY commitPartNames
  <1>3. /\ p.max = increment + 1 /\ p \in AnyInfo
        /\ \A w \in Writers : p \notin NewParts(w)
    <2>1. p.max = increment + 1 /\ p \in AnyInfo
      BY <1>1, NewPartAbove
    <2>2. \A w \in Writers : \A x \in NewParts(w) : isDisjoint(p, x)
      BY <1>1, NewPartAbove
    <2> QED
      BY <2>1, <2>2, ContainsItself
  <1> HIDE DEF p
  <1>4. DOMAIN disk' = DOMAIN disk \cup {p}
    BY <1>1 DEF Put
  <1>5. \A c \in Cleaners : p \notin cleaner[c].done
    BY <1>2 DEF IInv, GrabbedParts, Grabbed, In
  <1>6. RemovedAreGone' /\ IdleWriters'
    BY <1>1, <1>4, <1>5 DEF Directories, RemovedAreGone, IdleWriters
  <1>7. DiskPartsKnown'
    BY <1>1, <1>2, <1>4 DEF Directories, DiskPartsKnown
  <1>8. RenamedLast'
    <2>1. \A w \in Writers : p \notin op[w].need_rename /\ p \notin op[w].todo
      BY <1>3 DEF NewParts, IInv, TransactionParts
    <2> QED
      BY <1>1, <1>4, <2>1 DEF Directories, RenamedLast
  <1>9. DirectoriesHandedOut'
    <2>1. increment \in Nat /\ \A q \in DOMAIN disk : q.max \in Nat /\ q.max <= increment
      BY <1>1, KnownAreInfos DEF IInv, TypeOK, Directories, DirectoriesHandedOut, AnyInfo
    <2>2. \A q \in DOMAIN disk : q.max <= increment + 1
      BY <2>1
    <2> QED
      BY <1>1, <1>3, <1>4, <2>1, <2>2 DEF DirectoriesHandedOut
  <1> QED
    BY <1>1, <1>6, <1>7, <1>8, <1>9 DEF Directories

(* Without late failures the part of an insert that failed has no          *)
(* directory.                                                              *)
LEMMA NoDirectoryLeft == NoLateFailure /\ TypeOK => ~commitPartThrows
  BY DEF NoLateFailure, TypeOK, commitPartThrows

LEMMA loadDataPartsDirectories ==
    ASSUME IInv, Names, Directories, TypeOK', loadDataParts
    PROVE  Directories'
  <1> USE DEF memory, threads, stored, history, budget
  <1>1. UNCHANGED <<op, disk, cleaner>> /\ marked' = {}
    BY DEF loadDataParts, Directories
  <1>2. /\ Active' = Tops(DOMAIN disk, {})
        /\ DOMAIN state' = Active' /\ unloaded' = DOMAIN disk \ Active'
        /\ \A p \in Active' : p.max <= increment'
        /\ \A w \in Writers : op'[w] = NoOperation /\ op[w] = NoOperation
        /\ \A c \in Cleaners : cleaner'[c] = NoCleaning
    BY loadDataPartsNames
  <1>3. IdleWriters' /\ RenamedLast' /\ RemovedAreGone'
    BY <1>2, NoOperationEmpty DEF NothingLeft, IdleWriters, RenamedLast, RemovedAreGone, NoCleaning
  <1>4. DiskPartsKnown'
    BY <1>1, <1>2 DEF DiskPartsKnown
  <1>5. \A q \in DOMAIN disk : \E a \in Tops(DOMAIN disk, {}) : q.max <= a.max
    <2> SUFFICES ASSUME NEW q \in DOMAIN disk
                 PROVE  \E a \in Tops(DOMAIN disk, {}) : q.max <= a.max
      OBVIOUS
    <2>1. DOMAIN disk \in SUBSET PartInfos
      BY KnownAreInfos
    <2>2. q.max \in Nat
      BY <2>1, PartInfosAreInfos DEF AnyInfo
    <2>3. CASE q \in Tops(DOMAIN disk, {})
      BY <2>2, <2>3
    <2>4. CASE q \notin Tops(DOMAIN disk, {})
      <3> DEFINE D == DOMAIN disk
                 bad == {}
      <3>1. D \in SUBSET PartInfos /\ q \in D \ Tops(D, bad)
        BY <2>1, <2>4
      <3> HIDE DEF D, bad
      <3>2. PICK a \in Tops(D, bad) \ bad : contains(a, q)
        BY <3>1, TopAbove
      <3>3. a \in Tops(D, {})
        BY <3>2 DEF bad
      <3> QED
        BY <3>2, <3>3 DEF contains, D
    <2> QED
      BY <2>3, <2>4
  <1>6. \A q \in DOMAIN disk : q.max \in Nat
    BY KnownAreInfos DEF AnyInfo
  <1>7. Tops(DOMAIN disk, {}) \subseteq DOMAIN disk /\ increment' \in Nat
    BY DEF Tops, TypeOK
  <1>8. \A q \in DOMAIN disk : q.max <= increment'
    <2> SUFFICES ASSUME NEW q \in DOMAIN disk
                 PROVE  q.max <= increment'
      OBVIOUS
    <2>1. PICK a \in Tops(DOMAIN disk, {}) : q.max <= a.max
      BY <1>5
    <2>2. a.max <= increment' /\ a.max \in Nat
      BY <1>2, <1>6, <1>7
    <2> QED
      BY <1>6, <1>7, <2>1, <2>2
  <1>9. DirectoriesHandedOut'
    BY <1>1, <1>8 DEF DirectoriesHandedOut
  <1> QED
    BY <1>1, <1>3, <1>4, <1>9 DEF Directories

LEMMA CrashDirectories ==
    ASSUME IInv, Names, Directories, Crash
    PROVE  Directories'
  <1>1. /\ \A w \in Writers : op'[w] = NoOperation
        /\ \A c \in Cleaners : cleaner'[c] = NoCleaning
        /\ UNCHANGED <<disk, marked>> /\ phase' = "down"
    BY CrashNames
  <1>2. IdleWriters' /\ RenamedLast' /\ RemovedAreGone'
    BY <1>1, NoOperationEmpty DEF NothingLeft, IdleWriters, RenamedLast, RemovedAreGone, NoCleaning
  <1>3. DirectoriesHandedOut' /\ DiskPartsKnown'
    BY <1>1 DEF DirectoriesHandedOut, DiskPartsKnown
  <1> QED
    BY <1>1, <1>2, <1>3 DEF Directories

LEMMA loadOutdatedNames ==
    ASSUME IInv, Names, Directories, loadOutdatedDataParts
    PROVE  Names' /\ Directories' /\ Active' = Active /\ Settled' = Settled
  <1> USE DEF memory, threads, stored, history, budget
  <1>1. PICK p \in unloaded : /\ p \notin DOMAIN state
                              /\ unloaded' = unloaded \ {p}
                              /\ state' = Put(state, p, "Outdated")
    BY DEF loadOutdatedDataParts
  <1>2. UNCHANGED <<increment, disk, op, cleaner, phase>> /\ phase = "up" /\ marked' = {}
    BY DEF loadOutdatedDataParts, Directories
  <1>3. /\ DOMAIN state' = DOMAIN state \cup {p} /\ state'[p] = "Outdated"
        /\ \A q \in DOMAIN state : state'[q] = state[q]
    BY <1>1 DEF Put
  <1>4. Active' = Active
    BY <1>1, <1>3 DEF Active, In
  <1>5. \A w \in Writers : op[w].sources \subseteq Active'
    BY <1>4 DEF Names, SourcesActive
  <1>6. Names' /\ Settled' = Settled
    BY <1>2, <1>4, <1>5, OthersNames DEF Settled
  <1>7. RemovedAreGone' /\ DOMAIN disk' \subseteq DOMAIN state' \cup unloaded'
    BY <1>1, <1>2, <1>3 DEF Directories, RemovedAreGone, DiskPartsKnown
  <1>8. Directories'
    BY <1>2, <1>7, OthersDirectories
  <1> QED
    BY <1>4, <1>6, <1>8

LEMMA clearEmptyPartsNames ==
    ASSUME IInv, Names, Directories, clearEmptyParts
    PROVE  Names' /\ Directories'
  <1> USE DEF memory, threads, stored, history, budget
  <1>1. PICK p \in Active : p \notin Tagged /\ state' = modifyPartState(state, {p}, "Outdated")
    BY DEF clearEmptyParts
  <1>2. /\ UNCHANGED <<unloaded, increment, disk, op, cleaner, phase>> /\ phase = "up" /\ marked' = {}
    BY DEF clearEmptyParts, Directories
  <1>3. DOMAIN state' = DOMAIN state /\ Active' = Active \ {p}
    BY <1>1 DEF modifyPartState, Active, In
  <1>4. \A w \in Writers : op[w].sources \subseteq Active'
    BY <1>1, <1>3 DEF Names, SourcesActive, Tagged
  <1>5. Names'
    BY <1>2, <1>3, <1>4, OthersNames
  <1>6. RemovedAreGone' /\ DOMAIN disk' \subseteq DOMAIN state' \cup unloaded'
    BY <1>2, <1>3 DEF Directories, RemovedAreGone, DiskPartsKnown
  <1>7. Directories'
    BY <1>2, <1>6, OthersDirectories
  <1> QED
    BY <1>5, <1>7

LEMMA ReaderNames ==
    ASSUME IInv, Names, Directories, NEW r \in Readers, ReaderStep(r)
    PROVE  Names' /\ Directories'
  <1> USE DEF memory, threads, stored, history, budget
  <1>1. UNCHANGED <<state, unloaded, increment, disk, op, cleaner, phase>> /\ marked' = {}
    BY DEF ReaderStep, getDataPartsVectorForInternalUsage, releaseParts, Directories
  <1>2. DOMAIN state' = DOMAIN state /\ Active' = Active /\ RemovedAreGone'
    BY <1>1 DEF Active, In, Directories, RemovedAreGone
  <1> QED
    BY <1>1, <1>2, SameNames

LEMMA StutterNames ==
    ASSUME IInv, Names, Directories, UNCHANGED vars
    PROVE  Names' /\ Directories'
  <1>1. UNCHANGED <<state, unloaded, increment, disk, op, cleaner, phase, marked>>
    BY DEF vars, memory, threads, stored
  <1>2. DOMAIN state' = DOMAIN state /\ Active' = Active /\ RemovedAreGone' /\ marked' = {}
    BY <1>1 DEF Active, In, Directories, RemovedAreGone
  <1> QED
    BY <1>1, <1>2, SameNames

LEMMA InitNames == Init => NamesInv
  <1> SUFFICES ASSUME Init
               PROVE  NamesInv
    OBVIOUS
  <1>1. /\ DOMAIN state = {} /\ DOMAIN disk = {} /\ marked = {}
        /\ \A w \in Writers : op[w] = NoOperation
        /\ \A c \in Cleaners : cleaner[c] = NoCleaning
    BY DEF Init
  <1>2. Active = {} /\ Settled = {} /\ \A w \in Writers : NewParts(w) = {} /\ op[w].sources = {}
    BY <1>1 DEF Active, In, Settled, NoOperation, NewParts
  <1>3. Names
    BY <1>1, <1>2 DEF Names, Laminar, Topmost, SourcesActive, NewCoversSources, OperationsApart
  <1>4. IdleWriters /\ RenamedLast /\ RemovedAreGone /\ DirectoriesHandedOut /\ DiskPartsKnown
    BY <1>1, NoOperationEmpty DEF NothingLeft, IdleWriters, RenamedLast, RemovedAreGone, NoCleaning,
       DirectoriesHandedOut, DiskPartsKnown
  <1> QED
    BY <1>1, <1>3, <1>4, InitInv DEF NamesInv, Directories

LEMMA NextNames == NoLateFailure /\ NamesInv /\ [Next]_vars => NamesInv'
  <1> SUFFICES ASSUME NoLateFailure, NamesInv, [Next]_vars
               PROVE  NamesInv'
    OBVIOUS
  <1>1. IInv' /\ IInv /\ Names /\ Directories /\ TypeOK'
    BY NextInv DEF NamesInv, IInv
  <1>2. CASE \E w \in Writers : WriterStep(w)
    BY <1>1, <1>2, WriterNames DEF NamesInv
  <1>3. CASE \E r \in Readers : ReaderStep(r)
    BY <1>1, <1>3, ReaderNames DEF NamesInv
  <1>4. CASE \E c \in Cleaners : CleanerStep(c)
    BY <1>1, <1>4, CleanerNames DEF NamesInv
  <1>5. CASE commitPart
    BY <1>1, <1>5, commitPartNames, commitPartDirectories DEF NamesInv
  <1>6. CASE commitPartThrows
    BY <1>1, <1>6, NoDirectoryLeft DEF IInv
  <1>7. CASE loadDataParts
    BY <1>1, <1>7, loadDataPartsNames, loadDataPartsDirectories DEF NamesInv
  <1>8. CASE Crash
    BY <1>1, <1>8, CrashNames, CrashDirectories DEF NamesInv
  <1>9. CASE clearEmptyParts \/ loadOutdatedDataParts \/ UNCHANGED vars
    BY <1>1, <1>9, clearEmptyPartsNames, loadOutdatedNames, StutterNames DEF NamesInv
  <1> QED
    BY <1>2, <1>3, <1>4, <1>5, <1>6, <1>7, <1>8, <1>9 DEF Next

(* Without late failures the names on disk always form a family of parts   *)
(* that are nested or apart, and nothing but the result of an unfinished   *)
(* operation covers an Active part.                                        *)
THEOREM NamesHold ==
    ASSUME NoLateFailure
    PROVE  Spec => []NamesInv
  <1>1. NamesInv /\ [Next]_vars => NamesInv'
    BY NextNames
  <1> QED
    BY <1>1, InitNames, PTL DEF Spec

(* No directory is forgotten: whatever inserts, merges, drops, failed      *)
(* removals and restarts did, a directory with a final name is in          *)
(* data_parts or queued for loadOutdatedDataParts.                         *)
THEOREM NoDirectoryUnknown ==
    ASSUME NoLateFailure
    PROVE  Spec => []DiskPartsKnown
  <1>1. NamesInv => DiskPartsKnown
    BY DEF NamesInv, Directories
  <1> QED
    BY <1>1, NamesHold, PTL

(* A restart never finds parts that intersect: canMergeParts, which looks  *)
(* at the parts in memory alone, keeps a merge from spanning a directory   *)
(* that its result does not cover.                                         *)
THEOREM DirectoriesLoadable ==
    ASSUME NoLateFailure
    PROVE  Spec => []AlwaysLoadable
  <1>1. NamesInv => AlwaysLoadable
    BY DEF NamesInv, Names, Laminar, AlwaysLoadable, Loadable
  <1> QED
    BY <1>1, NamesHold, PTL
-----------------------------------------------------------------------------
(***************************************************************************)
(* The second invariant: the rows behind the names.  It needs more: that   *)
(* adding parts does not fail, for a rolled-back part has a name in the    *)
(* way of later ones, and that one thread at a time removes old parts.     *)
(***************************************************************************)
Orderly == MaxFailures = 0 /\ \A c, d \in Cleaners : c = d

(* Parts in memory that are not of a Transaction at work.                  *)
Remembered == {q \in DOMAIN state : \A w \in Writers : q \notin op[w].precommitted}

(* The parts in memory fit the names on disk as the directories do, those  *)
(* included whose directory is gone, and the names to come are free.       *)
NamesFree == \A w \in Writers : op[w].todo \cap DOMAIN state = {}
RememberedTopmost == \A q \in Remembered, a \in Active : contains(q, a) => q = a
RememberedLaminar ==
    \A q \in Remembered :
        /\ \A x \in Settled : ~Intersect(q, x)
        /\ \A w \in Writers : \A p \in NewParts(w) : ~Intersect(p, q)
RememberedHandedOut == phase = "up" => \A q \in DOMAIN state : q.max <= increment

Memory == NamesFree /\ RememberedTopmost /\ RememberedLaminar /\ RememberedHandedOut

(* A part in memory has the rows of its directory; a merge has the rows of *)
(* its sources and a drop none, and only rows that it may drop are lost.   *)
RowsStored == \A p \in DOMAIN state \cap DOMAIN disk : rows[p] = disk[p]
HasRows(w) ==
    /\ \A p \in op[w].precommitted : rows[p] = op[w].rows
    /\ op[w].kind = "merge" => op[w].rows = RowsOf(op[w].sources, rows)
    /\ op[w].kind = "drop" => op[w].rows = {} /\ RowsOf(op[w].sources, rows) \subseteq doomed
OperationRows == \A w \in Writers : HasRows(w)

(* Whoever put a part into its state still has it.                         *)
StatesExact ==
    /\ In("Deleting") \subseteq UNION {Grabbed(c) : c \in Cleaners}
    /\ In("PreActive") \subseteq UNION {op[w].precommitted : w \in Writers}

(* A directory that nothing covers is Active or empty.                     *)
TopsVisible ==
    phase = "up" => \A t \in Settled :
        (\A x \in Settled : contains(x, t) => x = t) => t \in Active \/ disk[t] = {}

(* A part without directory covers directories only below another one, so  *)
(* does a part whose directory is about to be removed.                     *)
GhostsCovered ==
    \A x \in Remembered \ DOMAIN disk, q \in DOMAIN disk :
        contains(x, q) => \E y \in Settled : contains(y, x)
GrabbedCovered ==
    \A c \in Cleaners : \A d \in cleaner[c].todo \cap DOMAIN disk, q \in DOMAIN disk :
        contains(d, q) /\ q # d => \E y \in Settled \ Grabbed(c) : contains(y, d)

(* The batches are numbered as they come.                                  *)
InsertedCounted == \E n \in Nat : inserted = 1..n

Covered == TopsVisible /\ GhostsCovered /\ GrabbedCovered
RowsKept == RowsStored /\ OperationRows

ContentsInv == NamesInv /\ Memory /\ RowsKept /\ StatesExact /\ Covered /\ InsertedCounted

LEMMA OrderlyEarly == Orderly => NoLateFailure
  BY DEF Orderly, NoLateFailure

(***************************************************************************)
(* The parts in memory                                                     *)
(***************************************************************************)
LEMMA RememberedBelow ==
    ASSUME IInv, Memory, NEW q \in Remembered, NEW a \in Active, ~isDisjoint(q, a)
    PROVE  contains(a, q)
  <1>1. q \in AnyInfo /\ a \in AnyInfo /\ a \in Settled
    BY KnownAreInfos DEF Remembered
  <1>2. ~Intersect(q, a)
    BY <1>1 DEF Memory, RememberedLaminar
  <1>3. CASE contains(q, a)
    <2>1. q = a
      BY <1>3 DEF Memory, RememberedTopmost
    <2> QED
      BY <1>1, <2>1, ContainsItself
  <1> QED
    BY <1>2, <1>3 DEF Intersect

(* A step that makes nothing Active and adds no names.                     *)
LEMMA ShrinkMemory ==
    ASSUME Memory, Active' \subseteq Active, Settled' \subseteq Settled,
           Remembered' \subseteq Remembered, DOMAIN state' \subseteq DOMAIN state,
           \A w \in Writers : op'[w].todo \subseteq op[w].todo,
           \A w \in Writers : NewParts(w)' \subseteq NewParts(w),
           UNCHANGED <<increment, phase>>
    PROVE  Memory'
  <1>1. NamesFree'
    BY DEF Memory, NamesFree
  <1>2. RememberedTopmost'
    BY DEF Memory, RememberedTopmost
  <1>3. RememberedLaminar'
    BY DEF Memory, RememberedLaminar
  <1>4. RememberedHandedOut'
    BY DEF Memory, RememberedHandedOut
  <1> QED
    BY <1>1, <1>2, <1>3, <1>4 DEF Memory

LEMMA BegunMemory ==
    ASSUME IInv, Memory, NEW w \in Writers, Begun(w),
           \A v \in Writers : v # w => op'[v] = op[v],
           NewParts(w) = {}, Active' = Active, Settled' = Settled,
           UNCHANGED <<state, increment, phase>>,
           \A t \in op'[w].todo, q \in Remembered : ~Intersect(t, q)
    PROVE  Memory'
  <1>1. op[w].precommitted = {} /\ op'[w].precommitted = {} /\ NewParts(w)' = op'[w].todo
        /\ \A v \in Writers : v # w => NewParts(v)' = NewParts(v)
    BY DEF NewParts, Begun
  <1>2. Remembered' = Remembered
    BY <1>1 DEF Remembered
  <1>3. NamesFree'
    <2>1. ASSUME NEW t \in op'[w].todo, t \in DOMAIN state
          PROVE  FALSE
      <3>1. t \in Remembered
        BY <2>1 DEF Begun, Remembered, NewParts
      <3>2. PICK s \in Active : contains(t, s) /\ t # s
        BY DEF Begun
      <3> QED
        BY <3>1, <3>2 DEF Memory, RememberedTopmost
    <2> QED
      BY <2>1 DEF Memory, NamesFree
  <1>4. RememberedTopmost'
    BY <1>2 DEF Memory, RememberedTopmost
  <1>5. RememberedLaminar'
    BY <1>1, <1>2 DEF Memory, RememberedLaminar
  <1>6. RememberedHandedOut'
    BY DEF Memory, RememberedHandedOut
  <1> QED
    BY <1>3, <1>4, <1>5, <1>6 DEF Memory

LEMMA selectPartsToMergeMemory ==
    ASSUME IInv, Names, Directories, Memory, TypeOK', NEW w \in Writers, selectPartsToMerge(w)
    PROVE  Memory'
  <1> USE DEF memory, threads, stored, history, budget
  <1>1. PICK l \in Active, r \in Active, n \in 0..MaxLevel-1 :
           /\ MergeChosen(l, r, n)
           /\ op' = [op EXCEPT ![w] = [NoOperation EXCEPT
              !.kind = "merge", !.sources = PartsRange(l, r),
              !.todo = {assign(l, r, n)}, !.rows = RowsOf(PartsRange(l, r), rows)]]
    BY DEF selectPartsToMerge, MergeChosen
  <1> DEFINE o == [NoOperation EXCEPT
              !.kind = "merge", !.sources = PartsRange(l, r),
              !.todo = {assign(l, r, n)}, !.rows = RowsOf(PartsRange(l, r), rows)]
  <1>2. o.todo = {assign(l, r, n)}
    BY DEF NoOperation
  <1>3. op'[w] = o
    BY <1>1 DEF IInv, TypeOK
  <1>4. op'[w].todo = {assign(l, r, n)}
    BY <1>2, <1>3
  <1>5. ASSUME NEW q \in Remembered
        PROVE  ~Intersect(assign(l, r, n), q)
    <2>1. q \in PartInfos /\ q \in DOMAIN state
      BY KnownAreInfos DEF Remembered
    <2>2. \A a \in Active : isDisjoint(q, a) \/ contains(a, q)
      BY RememberedBelow
    <2>3. ~isDisjoint(assign(l, r, n), q) => contains(assign(l, r, n), q)
      BY <1>1, <2>1, <2>2, MergeCovers
    <2> QED
      BY <2>3 DEF Intersect
  <1>6. UNCHANGED <<state, increment, phase>>
    BY DEF selectPartsToMerge
  <1> HIDE DEF o
  <1>7. \A t \in op'[w].todo, q \in Remembered : ~Intersect(t, q)
    BY <1>4, <1>5
  <1>8. /\ Settled' = Settled /\ Active' = Active /\ NewParts(w) = {} /\ Begun(w)
        /\ \A v \in Writers : v # w => op'[v] = op[v]
    BY selectPartsToMergeNames
  <1> QED
    BY <1>6, <1>7, <1>8, BegunMemory

LEMMA coverPartsWithEmptyPartsMemory ==
    ASSUME IInv, Names, Directories, Memory, TypeOK', NEW w \in Writers, coverPartsWithEmptyParts(w)
    PROVE  Memory'
  <1> USE DEF memory, threads, stored, history, budget
  <1>1. PICK S \in SUBSET Active :
           op' = [op EXCEPT ![w] = [NoOperation EXCEPT
                    !.kind = "drop", !.sources = S,
                    !.todo = {[q EXCEPT !.level = @ + 1] : q \in S}]]
    BY DEF coverPartsWithEmptyParts
  <1> DEFINE T == {[q EXCEPT !.level = @ + 1] : q \in S}
             o == [NoOperation EXCEPT !.kind = "drop", !.sources = S, !.todo = T]
  <1>2. o.todo = T
    BY DEF NoOperation
  <1>3. op'[w] = o
    BY <1>1 DEF IInv, TypeOK
  <1>4. op'[w].todo = T
    BY <1>2, <1>3
  <1>5. \A t \in T : \E s \in S : contains(t, s) /\ SameBlocks(t, s) /\ t \in AnyInfo /\ s \in AnyInfo
    <2> SUFFICES ASSUME NEW s \in S
                 PROVE  LET t == [s EXCEPT !.level = @ + 1]
                        IN  contains(t, s) /\ SameBlocks(t, s) /\ t \in AnyInfo /\ s \in AnyInfo
      OBVIOUS
    <2>1. s \in AnyInfo
      BY KnownAreInfos
    <2> QED
      BY <2>1 DEF AnyInfo, contains, SameBlocks
  <1> HIDE DEF T, o
  <1>6. ASSUME NEW t \in T, NEW q \in Remembered
        PROVE  ~Intersect(t, q)
    <2>1. PICK s \in S : contains(t, s) /\ SameBlocks(t, s) /\ t \in AnyInfo /\ s \in AnyInfo
      BY <1>5
    <2>2. s \in Active /\ q \in AnyInfo
      BY KnownAreInfos DEF Remembered
    <2>3. CASE isDisjoint(s, q)
      BY <2>1, <2>3 DEF SameBlocks, isDisjoint, Intersect
    <2>4. CASE ~isDisjoint(s, q)
      <3>1. ~isDisjoint(q, s)
        BY <2>1, <2>2, <2>4, DisjointSymmetric
      <3>2. contains(s, q)
        BY <2>2, <3>1, RememberedBelow
      <3> QED
        BY <2>1, <2>2, <3>2, ContainsTransitive DEF Intersect
    <2> QED
      BY <2>3, <2>4
  <1>7. UNCHANGED <<state, increment, phase>>
    BY DEF coverPartsWithEmptyParts
  <1>8. \A t \in op'[w].todo, q \in Remembered : ~Intersect(t, q)
    BY <1>4, <1>6
  <1>9. /\ Settled' = Settled /\ Active' = Active /\ NewParts(w) = {} /\ Begun(w)
        /\ \A v \in Writers : v # w => op'[v] = op[v]
    BY coverPartsWithEmptyPartsNames
  <1> QED
    BY <1>7, <1>8, <1>9, BegunMemory

(* The part of an insert overlaps nothing in memory.                       *)
LEMMA NewPartUnknown ==
    ASSUME IInv, Directories, Memory, phase = "up", increment < MaxBlock
    PROVE  \A q \in DOMAIN state : isDisjoint(NewPart, q) /\ isDisjoint(q, NewPart)
  <1>1. increment \in Nat /\ NewPart.min = increment + 1 /\ NewPart.max = increment + 1
    BY NewPartAbove DEF IInv, TypeOK
  <1>2. \A q \in DOMAIN state : q.min \in Nat /\ q.max \in Nat /\ q.max <= increment
    BY KnownAreInfos DEF AnyInfo, Memory, RememberedHandedOut
  <1> QED
    BY <1>1, <1>2 DEF isDisjoint

LEMMA commitPartMemory ==
    ASSUME IInv, Names, Directories, Memory, TypeOK', commitPart
    PROVE  Memory'
  <1> USE DEF memory, threads, stored, history, budget
  <1> DEFINE p == NewPart
  <1>1. /\ UNCHANGED op /\ phase = "up" /\ phase' = phase /\ increment < MaxBlock
        /\ increment' = increment + 1 /\ increment \in Nat
    BY DEF commitPart, InsertPart, IInv, TypeOK
  <1>2. /\ Active' = Active \cup {p} /\ Settled' = Settled \cup {p}
        /\ DOMAIN state' = DOMAIN state \cup {p}
    BY commitPartNames
  <1>3. /\ p \in AnyInfo /\ p.max = increment + 1
        /\ \A x \in Active \cup DOMAIN disk : isDisjoint(p, x) /\ isDisjoint(x, p)
        /\ \A w \in Writers : \A x \in NewParts(w) : isDisjoint(p, x) /\ isDisjoint(x, p)
    BY <1>1, NewPartAbove
  <1>4. \A q \in DOMAIN state : isDisjoint(p, q) /\ isDisjoint(q, p)
    BY <1>1, NewPartUnknown
  <1> HIDE DEF p
  <1>5. /\ Active \subseteq AnyInfo /\ Settled \subseteq DOMAIN disk /\ DOMAIN state \subseteq AnyInfo
        /\ \A w \in Writers : NewParts(w) \subseteq AnyInfo
    BY KnownAreInfos
  <1>6. ~isDisjoint(p, p) /\ ~Intersect(p, p)
    BY <1>3, ContainsItself DEF Intersect
  <1>7. \A w \in Writers : NewParts(w)' = NewParts(w) /\ p \notin NewParts(w)
    BY <1>1, <1>3, <1>6 DEF NewParts
  <1>8. Remembered' \subseteq Remembered \cup {p}
    BY <1>1, <1>2 DEF Remembered
  <1>9. NamesFree'
    BY <1>1, <1>2, <1>7 DEF Memory, NamesFree, NewParts
  <1>10. RememberedTopmost'
    <2>1. \A q \in Remembered : q \in DOMAIN state
      BY DEF Remembered
    <2>2. \A q \in Remembered : ~contains(q, p)
      BY <1>3, <1>4, <1>5, <2>1, ContainsOverlaps
    <2>3. \A a \in Active : ~contains(p, a)
      BY <1>3, <1>5, ContainsOverlaps
    <2> QED
      BY <1>2, <1>8, <2>2, <2>3 DEF Memory, RememberedTopmost
  <1>11. RememberedLaminar'
    <2>1. \A q \in Remembered : ~Intersect(q, p) /\ ~Intersect(p, q)
      BY <1>4 DEF Remembered, Intersect
    <2>2. \A x \in Settled : ~Intersect(p, x)
      BY <1>3, <1>5 DEF Intersect
    <2>3. \A w \in Writers : \A x \in NewParts(w) : ~Intersect(x, p)
      BY <1>3 DEF Intersect
    <2> QED
      BY <1>2, <1>6, <1>7, <1>8, <2>1, <2>2, <2>3 DEF Memory, RememberedLaminar
  <1>12. RememberedHandedOut'
    <2>1. \A q \in DOMAIN state : q.max \in Nat /\ q.max <= increment
      BY <1>1, <1>5 DEF AnyInfo, Memory, RememberedHandedOut
    <2>2. \A q \in DOMAIN state : q.max <= increment + 1
      BY <1>1, <2>1
    <2> QED
      BY <1>1, <1>2, <1>3, <2>2 DEF RememberedHandedOut
  <1> QED
    BY <1>9, <1>10, <1>11, <1>12 DEF Memory

LEMMA renameTempMemory ==
    ASSUME IInv, Names, Directories, Memory, NEW w \in Writers, renameTempPartAndReplace(w)
    PROVE  Memory'
  <1> USE DEF memory, threads, stored, history, budget
  <1>1. PICK p \in op[w].todo :
           /\ p \notin DOMAIN state /\ state' = Put(state, p, "PreActive")
           /\ op' = [op EXCEPT ![w].todo = @ \ {p},
                              ![w].precommitted = @ \cup {p}, ![w].need_rename = @ \cup {p}]
    BY DEF renameTempPartAndReplace, checkPart
  <1>2. UNCHANGED <<unloaded, increment, cleaner, phase, disk>> /\ phase = "up"
    BY DEF renameTempPartAndReplace
  <1>3. /\ Settled' = Settled /\ Active' = Active
        /\ DOMAIN state' = DOMAIN state \cup {p}
        /\ op'[w].todo = op[w].todo \ {p}
        /\ op'[w].precommitted = op[w].precommitted \cup {p}
        /\ \A v \in Writers : v # w => op'[v] = op[v]
    BY <1>1, <1>2, renameTempEffect
  <1>4. \A v \in Writers : NewParts(v)' = NewParts(v)
    BY <1>3 DEF NewParts
  <1>5. Remembered' = Remembered
    BY <1>1, <1>3 DEF Remembered
  <1>6. p \in NewParts(w) /\ p \in AnyInfo
    BY KnownAreInfos DEF NewParts
  <1>7. \A v \in Writers : p \notin op'[v].todo
    <2>1. \A v \in Writers : v # w => p \notin NewParts(v)
      BY <1>6, ContainsItself DEF Names, OperationsApart
    <2> QED
      BY <1>3, <2>1 DEF NewParts
  <1>8. NamesFree'
    <2>1. \A v \in Writers : op'[v].todo \subseteq op[v].todo
      BY <1>3
    <2> QED
      BY <1>3, <1>7, <2>1 DEF Memory, NamesFree
  <1>9. RememberedTopmost' /\ RememberedLaminar'
    BY <1>3, <1>4, <1>5 DEF Memory, RememberedTopmost, RememberedLaminar
  <1>10. RememberedHandedOut'
    BY <1>2, <1>3, <1>6 DEF Memory, RememberedHandedOut, IInv, BlocksHandedOut
  <1> QED
    BY <1>8, <1>9, <1>10 DEF Memory

LEMMA commitMemory ==
    ASSUME IInv, Names, Directories, Memory, TypeOK', NEW w \in Writers, commit(w)
    PROVE  Memory'
  <1> USE DEF memory, threads, stored, history, budget
  <1> DEFINE P == op[w].precommitted
  <1>1. op' = [op EXCEPT ![w] = NoOperation] /\ op[w].todo = {} /\ op[w].need_rename = {}
        /\ UNCHANGED <<increment, phase>>
    BY DEF commit
  <1>2. /\ Active' = {a \in Active : \A p \in P : ~contains(p, a)} \cup P
        /\ DOMAIN state' = DOMAIN state /\ Settled' = Settled \cup P /\ Names'
    BY commitNames
  <1>3. op'[w] = NoOperation /\ \A v \in Writers : v # w => op'[v] = op[v]
    BY <1>1 DEF IInv, TypeOK
  <1>4. /\ op'[w].todo = {} /\ op'[w].precommitted = {} /\ NewParts(w)' = {}
        /\ \A v \in Writers : v # w => op'[v] = op[v] /\ NewParts(v)' = NewParts(v)
    BY <1>3 DEF NoOperation, NewParts
  <1>5. P = NewParts(w) /\ P \subseteq AnyInfo /\ P \cap Active = {} /\ P \subseteq DOMAIN state
    BY <1>1, KnownAreInfos DEF NewParts, IInv, TransactionParts, In, Active
  <1>6. Remembered' \subseteq Remembered \cup P
    BY <1>2, <1>3 DEF Remembered
  <1> HIDE DEF P
  <1>7. Active \subseteq AnyInfo /\ Remembered \subseteq AnyInfo
    BY KnownAreInfos DEF Remembered
  <1>8. NamesFree'
    BY <1>2, <1>4 DEF Memory, NamesFree
  <1>9. RememberedTopmost'
    <2> SUFFICES ASSUME NEW q \in Remembered', NEW a \in Active', contains(q, a)
                 PROVE  q = a
      BY DEF RememberedTopmost
    <2>1. CASE q \in Remembered /\ a \in P
      <3>1. PICK s \in op[w].sources : contains(a, s)
        BY <1>5, <2>1 DEF Names, NewCoversSources
      <3>2. s \in Active /\ s \in AnyInfo /\ s # a
        BY <1>5, <1>7, <2>1 DEF Names, SourcesActive
      <3>3. contains(q, s)
        BY <1>5, <1>7, <2>1, <3>1, <3>2, ContainsTransitive
      <3>4. q = s
        BY <2>1, <3>2, <3>3 DEF Memory, RememberedTopmost
      <3> QED
        BY <1>5, <2>1, <3>1, <3>2, <3>4, ContainsAntisymmetric
    <2>2. CASE q \in P /\ a \in P
      <3>1. q = a \/ isDisjoint(q, a)
        BY <1>5, <2>2 DEF IInv, NewPartsDisjoint
      <3> QED
        BY <1>5, <2>2, <3>1, ContainsOverlaps
    <2>3. CASE q \in Remembered /\ a \in Active
      BY <2>3 DEF Memory, RememberedTopmost
    <2>4. CASE q \in P /\ a \notin P
      BY <1>2, <2>4
    <2> QED
      BY <1>2, <1>6, <2>1, <2>2, <2>3, <2>4
  <1>10. RememberedLaminar'
    <2>1. \A q \in Remembered : \A x \in P : ~Intersect(q, x)
      BY <1>5, <1>7, IntersectSymmetric DEF Memory, RememberedLaminar
    <2>2. \A q \in P : \A x \in Settled : ~Intersect(q, x)
      BY <1>5, KnownAreInfos DEF Names, Laminar
    <2>3. \A q \in P, x \in P : ~Intersect(q, x)
      BY <1>5, NewLaminar
    <2>4. \A v \in Writers : \A x \in NewParts(v)', q \in P : ~Intersect(x, q)
      BY <1>4, <1>5, NewLaminar
    <2>5. \A v \in Writers : \A x \in NewParts(v)', q \in Remembered : ~Intersect(x, q)
      BY <1>4 DEF Memory, RememberedLaminar
    <2>6. \A q \in Remembered : \A x \in Settled : ~Intersect(q, x)
      BY DEF Memory, RememberedLaminar
    <2> QED
      BY <1>2, <1>6, <2>1, <2>2, <2>3, <2>4, <2>5, <2>6 DEF RememberedLaminar
  <1>11. RememberedHandedOut'
    BY <1>1, <1>2 DEF Memory, RememberedHandedOut
  <1> QED
    BY <1>8, <1>9, <1>10, <1>11 DEF Memory

LEMMA loadDataPartsMemory ==
    ASSUME IInv, Names, Directories, TypeOK', loadDataParts
    PROVE  Memory'
  <1>1. /\ Active' = Tops(DOMAIN disk, {}) /\ Settled' = DOMAIN disk /\ Names'
        /\ DOMAIN state' = Active'
        /\ \A p \in Active' : p.max <= increment'
        /\ \A w \in Writers : op'[w] = NoOperation
    BY loadDataPartsNames
  <1>2. UNCHANGED disk
    BY DEF loadDataParts, stored
  <1>3. Remembered' \subseteq DOMAIN disk
    BY <1>1 DEF Remembered, Tops
  <1>4. \A w \in Writers : op'[w].todo = {} /\ NewParts(w)' = {}
    BY <1>1, NoOperationEmpty DEF NothingLeft, NewParts
  <1>5. NamesFree' /\ RememberedHandedOut'
    BY <1>1, <1>4 DEF NamesFree, RememberedHandedOut
  <1>6. RememberedTopmost'
    BY <1>1, <1>3 DEF RememberedTopmost, Names, Topmost
  <1>7. RememberedLaminar'
    BY <1>1, <1>3, <1>4 DEF RememberedLaminar, Names, Laminar
  <1> QED
    BY <1>5, <1>6, <1>7 DEF Memory

LEMMA CrashMemory ==
    ASSUME IInv, Names, Crash
    PROVE  Memory'
  <1>1. /\ DOMAIN state' = {} /\ phase' = "down" /\ \A w \in Writers : op'[w] = NoOperation
    BY CrashNames
  <1>2. Remembered' = {}
    BY <1>1 DEF Remembered
  <1> QED
    BY <1>1, <1>2 DEF Memory, NamesFree, RememberedTopmost, RememberedLaminar, RememberedHandedOut

LEMMA loadOutdatedMemory ==
    ASSUME IInv, Names, Directories, Memory, loadOutdatedDataParts
    PROVE  Memory'
  <1> USE DEF memory, threads, stored, history, budget
  <1>1. PICK p \in unloaded : p \notin DOMAIN state /\ state' = Put(state, p, "Outdated")
    BY DEF loadOutdatedDataParts
  <1>2. UNCHANGED <<increment, op, phase, disk>> /\ phase = "up" /\ Active' = Active /\ Settled' = Settled
    BY loadOutdatedNames DEF loadOutdatedDataParts
  <1>3. DOMAIN state' = DOMAIN state \cup {p}
    BY <1>1 DEF Put
  <1>4. p \in DOMAIN disk /\ p \in Settled /\ \A w \in Writers : p \notin op[w].todo
    BY <1>1 DEF IInv, UnloadedCovered, TransactionParts, In, Settled
  <1>5. Remembered' \subseteq Remembered \cup {p}
    BY <1>2, <1>3 DEF Remembered
  <1>6. \A w \in Writers : NewParts(w)' = NewParts(w)
    BY <1>2 DEF NewParts
  <1>7. NamesFree'
    BY <1>2, <1>3, <1>4 DEF Memory, NamesFree
  <1>8. RememberedTopmost'
    BY <1>2, <1>4, <1>5 DEF Memory, RememberedTopmost, Names, Topmost
  <1>9. RememberedLaminar'
    <2>1. Settled \subseteq DOMAIN disk
      BY KnownAreInfos
    <2> QED
      BY <1>2, <1>4, <1>5, <1>6, <2>1 DEF Memory, RememberedLaminar, Names, Laminar
  <1>10. RememberedHandedOut'
    BY <1>2, <1>3, <1>4 DEF Memory, RememberedHandedOut, Directories, DirectoriesHandedOut
  <1> QED
    BY <1>7, <1>8, <1>9, <1>10 DEF Memory

(***************************************************************************)
(* The rows and the states                                                 *)
(***************************************************************************)
(* An orderly Transaction never rolls back: no name of it is taken and the *)
(* Active parts in its way are its sources.                                *)
LEMMA NoRollback ==
    ASSUME Orderly, IInv, Names, Memory, NEW w \in Writers
    PROVE  ~Rollback(w)
  <1>1. ~renamePartsThrows(w) /\ ~commitThrows(w)
    BY DEF Orderly, IInv, TypeOK, renamePartsThrows, commitThrows
  <1>2. ASSUME NEW p \in op[w].todo
        PROVE  checkPart(p)
    <2>1. p \notin DOMAIN state /\ p \in NewParts(w) /\ p \in AnyInfo
      BY KnownAreInfos DEF Memory, NamesFree, NewParts
    <2>2. \A x \in Active : x \in AnyInfo /\ (isDisjoint(p, x) \/ contains(p, x))
      BY <2>1, KnownAreInfos DEF Names, NewCoversSources
    <2>3. \A x \in Stops(p, Active) : x \in Active /\ ~contains(p, x)
      BY DEF Stops, Left, Right
    <2> QED
      BY <2>1, <2>2, <2>3 DEF checkPart, IntersectedParts
  <1>3. ~checkPartThrows(w)
    BY <1>2 DEF checkPartThrows
  <1> QED
    BY <1>1, <1>3 DEF Rollback

(* What a thread holds is in memory, and no cleaner has it.                *)
LEMMA HeldInMemory ==
    ASSUME IInv, Names, NEW w \in Writers
    PROVE  /\ op[w].sources \subseteq DOMAIN state /\ op[w].precommitted \subseteq DOMAIN state
           /\ \A c \in Cleaners : (op[w].sources \cup op[w].precommitted) \cap Grabbed(c) = {}
  BY DEF Names, SourcesActive, IInv, TransactionParts, GrabbedParts, Active, In

LEMMA KeepsRows ==
    ASSUME NEW w \in Writers, HasRows(w), op'[w].sources = op[w].sources,
           op'[w].kind = op[w].kind, op'[w].rows = op[w].rows,
           \A q \in op[w].sources : rows'[q] = rows[q],
           \A q \in op'[w].precommitted : rows'[q] = op[w].rows,
           doomed \subseteq doomed'
    PROVE  HasRows(w)'
  <1>1. RowsOf(op'[w].sources, rows') = RowsOf(op[w].sources, rows)
    BY DEF RowsOf
  <1> QED
    BY <1>1 DEF HasRows

LEMMA IdleRows ==
    ASSUME NEW w \in Writers, op'[w] = NoOperation
    PROVE  HasRows(w)'
  BY NoOperationEmpty DEF NothingLeft, HasRows

(* A step in which no part changes its rows.                               *)
LEMMA SameRows ==
    ASSUME IInv, Names, RowsKept, NEW W \in SUBSET Writers,
           DOMAIN state' \cap DOMAIN disk' \subseteq DOMAIN state \cap DOMAIN disk,
           \A q \in DOMAIN state' \cap DOMAIN disk' : rows'[q] = rows[q] /\ disk'[q] = disk[q],
           \A v \in W : HasRows(v)',
           \A v \in Writers \ W : /\ op'[v] = op[v]
                                  /\ \A q \in op[v].sources \cup op[v].precommitted : rows'[q] = rows[q],
           doomed \subseteq doomed'
    PROVE  RowsKept'
  <1>1. RowsStored'
    BY DEF RowsKept, RowsStored
  <1>2. ASSUME NEW v \in Writers
        PROVE  HasRows(v)'
    <2>1. CASE v \in W
      BY <2>1
    <2>2. CASE v \notin W
      <3>1. op'[v] = op[v] /\ \A q \in op[v].sources \cup op[v].precommitted : rows'[q] = rows[q]
        BY <2>2
      <3>2. HasRows(v) /\ \A q \in op'[v].precommitted : rows'[q] = op[v].rows
        BY <3>1 DEF RowsKept, OperationRows, HasRows
      <3> QED
        BY <3>1, <3>2, KeepsRows
    <2> QED
      BY <2>1, <2>2
  <1> QED
    BY <1>1, <1>2 DEF RowsKept, OperationRows

LEMMA commitPartRows ==
    ASSUME IInv, Names, Directories, RowsKept, TypeOK', commitPart
    PROVE  RowsKept'
  <1> USE DEF memory, threads, stored, history, budget
  <1> DEFINE p == NewPart
  <1>1. /\ UNCHANGED <<op, doomed>> /\ rows' = Put(rows, p, {NewRow}) /\ disk' = Put(disk, p, {NewRow})
        /\ phase = "up" /\ increment < MaxBlock
    BY DEF commitPart, InsertPart
  <1>2. DOMAIN state' = DOMAIN state \cup {p} /\ p \notin DOMAIN state /\ p \notin DOMAIN disk
    BY <1>1, commitPartNames, NewPartAbove
  <1> HIDE DEF p
  <1>3. DOMAIN rows = DOMAIN state
    BY DEF IInv, TypeOK
  <1>4. /\ \A q \in DOMAIN state : rows'[q] = rows[q]
        /\ \A q \in DOMAIN disk : disk'[q] = disk[q]
        /\ DOMAIN disk' = DOMAIN disk \cup {p} /\ rows'[p] = {NewRow} /\ disk'[p] = {NewRow}
    BY <1>1, <1>2, <1>3 DEF Put
  <1>5. RowsStored'
    BY <1>2, <1>4 DEF RowsKept, RowsStored
  <1>6. ASSUME NEW v \in Writers
        PROVE  HasRows(v)'
    <2>1. /\ \A q \in op[v].sources \cup op[v].precommitted : rows'[q] = rows[q]
          /\ HasRows(v) /\ op'[v] = op[v] /\ doomed \subseteq doomed'
      BY <1>1, <1>4, HeldInMemory DEF RowsKept, OperationRows
    <2>2. \A q \in op'[v].precommitted : rows'[q] = op[v].rows
      BY <2>1 DEF HasRows
    <2> QED
      BY <2>1, <2>2, KeepsRows
  <1> QED
    BY <1>5, <1>6 DEF RowsKept, OperationRows

(* A merge or drop begins.                                                 *)
LEMMA BegunRows ==
    ASSUME IInv, Names, Directories, RowsKept, TypeOK', NEW w \in Writers,
           selectPartsToMerge(w) \/ coverPartsWithEmptyParts(w)
    PROVE  RowsKept'
  <1> USE DEF memory, threads, stored, history, budget
  <1>1. UNCHANGED <<state, rows, disk>> /\ doomed \subseteq doomed'
    BY DEF selectPartsToMerge, coverPartsWithEmptyParts
  <1>2. \A v \in Writers : v # w => op'[v] = op[v]
    BY selectPartsToMergeNames, coverPartsWithEmptyPartsNames
  <1>3. HasRows(w)'
    <2>1. CASE selectPartsToMerge(w)
      <3>1. PICK l \in Active, r \in Active, n \in 0..MaxLevel-1 :
              op' = [op EXCEPT ![w] = [NoOperation EXCEPT
                 !.kind = "merge", !.sources = PartsRange(l, r),
                 !.todo = {assign(l, r, n)}, !.rows = RowsOf(PartsRange(l, r), rows)]]
        BY <2>1 DEF selectPartsToMerge
      <3> DEFINE S == PartsRange(l, r)
                 o == [NoOperation EXCEPT !.kind = "merge", !.sources = S,
                         !.todo = {assign(l, r, n)}, !.rows = RowsOf(S, rows)]
      <3>2. o.kind = "merge" /\ o.sources = S /\ o.rows = RowsOf(S, rows) /\ o.precommitted = {}
        BY DEF NoOperation
      <3>3. op'[w] = o
        BY <3>1 DEF IInv, TypeOK
      <3> HIDE DEF o, S
      <3> QED
        BY <1>1, <3>2, <3>3 DEF HasRows
    <2>2. CASE coverPartsWithEmptyParts(w)
      <3>1. PICK S \in SUBSET Active :
              /\ op' = [op EXCEPT ![w] = [NoOperation EXCEPT
                       !.kind = "drop", !.sources = S,
                       !.todo = {[q EXCEPT !.level = @ + 1] : q \in S}]]
              /\ doomed' = doomed \cup RowsOf(S, rows)
        BY <2>2 DEF coverPartsWithEmptyParts
      <3> DEFINE T == {[q EXCEPT !.level = @ + 1] : q \in S}
                 o == [NoOperation EXCEPT !.kind = "drop", !.sources = S, !.todo = T]
      <3>2. o.kind = "drop" /\ o.sources = S /\ o.rows = {} /\ o.precommitted = {}
        BY DEF NoOperation
      <3>3. op'[w] = o
        BY <3>1 DEF IInv, TypeOK
      <3> HIDE DEF o, T
      <3> QED
        BY <1>1, <3>1, <3>2, <3>3 DEF HasRows
    <2> QED
      BY <2>1, <2>2
  <1> DEFINE W == {w}
  <1>4. /\ W \in SUBSET Writers /\ \A v \in W : HasRows(v)'
        /\ \A v \in Writers \ W : /\ op'[v] = op[v]
                                  /\ \A q \in op[v].sources \cup op[v].precommitted : rows'[q] = rows[q]
    BY <1>1, <1>2, <1>3
  <1> HIDE DEF W
  <1>5. /\ DOMAIN state' \cap DOMAIN disk' \subseteq DOMAIN state \cap DOMAIN disk
        /\ \A q \in DOMAIN state' \cap DOMAIN disk' : rows'[q] = rows[q] /\ disk'[q] = disk[q]
    BY <1>1
  <1> QED
    BY <1>1, <1>4, <1>5, SameRows

(* A merge is cancelled or a Transaction commits.                          *)
LEMMA EndedRows ==
    ASSUME IInv, Names, Directories, RowsKept, NEW w \in Writers, cancel(w) \/ commit(w)
    PROVE  RowsKept'
  <1> USE DEF memory, threads, stored, history, budget
  <1>1. /\ UNCHANGED <<rows, disk, doomed>> /\ op' = [op EXCEPT ![w] = NoOperation]
        /\ DOMAIN state' = DOMAIN state
    BY DEF cancel, commit, CommitState
  <1>2. op'[w] = NoOperation /\ \A v \in Writers : v # w => op'[v] = op[v]
    BY <1>1 DEF IInv, TypeOK
  <1>3. HasRows(w)'
    BY <1>2, IdleRows
  <1> DEFINE W == {w}
  <1>4. /\ W \in SUBSET Writers /\ \A v \in W : HasRows(v)'
        /\ \A v \in Writers \ W : /\ op'[v] = op[v]
                                  /\ \A q \in op[v].sources \cup op[v].precommitted : rows'[q] = rows[q]
    BY <1>1, <1>2, <1>3
  <1> HIDE DEF W
  <1>5. /\ DOMAIN state' \cap DOMAIN disk' \subseteq DOMAIN state \cap DOMAIN disk
        /\ \A q \in DOMAIN state' \cap DOMAIN disk' : rows'[q] = rows[q] /\ disk'[q] = disk[q]
        /\ doomed \subseteq doomed'
    BY <1>1
  <1> QED
    BY <1>4, <1>5, SameRows

LEMMA renameTempRows ==
    ASSUME IInv, Names, Directories, RowsKept, NEW w \in Writers, renameTempPartAndReplace(w)
    PROVE  RowsKept'
  <1> USE DEF memory, threads, stored, history, budget
  <1>1. PICK p \in op[w].todo :
           /\ p \notin DOMAIN state /\ state' = Put(state, p, "PreActive")
           /\ rows' = Put(rows, p, op[w].rows)
           /\ op' = [op EXCEPT ![w].todo = @ \ {p},
                              ![w].precommitted = @ \cup {p}, ![w].need_rename = @ \cup {p}]
    BY DEF renameTempPartAndReplace, checkPart
  <1>2. UNCHANGED <<disk, doomed>>
    BY DEF renameTempPartAndReplace
  <1>3. /\ DOMAIN state' = DOMAIN state \cup {p}
        /\ op'[w].precommitted = op[w].precommitted \cup {p} /\ op'[w].sources = op[w].sources
        /\ op'[w].kind = op[w].kind /\ op'[w].rows = op[w].rows
        /\ \A v \in Writers : v # w => op'[v] = op[v]
        /\ p \notin DOMAIN disk
    BY <1>1, <1>2, renameTempEffect
  <1>4. \A q \in DOMAIN state : rows'[q] = rows[q]
    BY <1>1 DEF Put, IInv, TypeOK
  <1>5. rows'[p] = op[w].rows
    BY <1>1 DEF Put
  <1>6. HasRows(w)'
    <2>1. HasRows(w) /\ \A q \in op[w].sources \cup op[w].precommitted : rows'[q] = rows[q]
      BY <1>4, HeldInMemory DEF RowsKept, OperationRows
    <2>2. \A q \in op'[w].precommitted : rows'[q] = op[w].rows
      BY <1>3, <1>5, <2>1 DEF HasRows
    <2> QED
      BY <1>2, <1>3, <2>1, <2>2, KeepsRows
  <1> DEFINE W == {w}
  <1>7. /\ W \in SUBSET Writers /\ \A v \in W : HasRows(v)'
        /\ \A v \in Writers \ W : /\ op'[v] = op[v]
                                  /\ \A q \in op[v].sources \cup op[v].precommitted : rows'[q] = rows[q]
    BY <1>3, <1>4, <1>6, HeldInMemory
  <1> HIDE DEF W
  <1>8. /\ DOMAIN state' \cap DOMAIN disk' \subseteq DOMAIN state \cap DOMAIN disk
        /\ \A q \in DOMAIN state' \cap DOMAIN disk' : rows'[q] = rows[q] /\ disk'[q] = disk[q]
        /\ doomed \subseteq doomed'
    BY <1>2, <1>3, <1>4
  <1> QED
    BY <1>7, <1>8, SameRows

LEMMA renamePartsRows ==
    ASSUME IInv, Names, Directories, RowsKept, NEW w \in Writers, renameParts(w)
    PROVE  RowsKept'
  <1> USE DEF memory, threads, stored, history, budget
  <1>1. PICK p \in op[w].need_rename :
           /\ disk' = Put(disk, p, op[w].rows)
           /\ op' = [op EXCEPT ![w].need_rename = @ \ {p}]
    BY DEF renameParts
  <1>2. UNCHANGED <<state, rows, doomed>>
    BY DEF renameParts
  <1>3. /\ DOMAIN disk' = DOMAIN disk \cup {p} /\ disk'[p] = op[w].rows
        /\ \A q \in DOMAIN disk : disk'[q] = disk[q]
        /\ p \in op[w].precommitted
        /\ op'[w].sources = op[w].sources /\ op'[w].precommitted = op[w].precommitted
        /\ op'[w].kind = op[w].kind /\ op'[w].rows = op[w].rows
        /\ \A v \in Writers : v # w => op'[v] = op[v]
    BY <1>1, <1>2, renamePartsEffect
  <1>4. rows[p] = op[w].rows
    BY <1>3 DEF RowsKept, OperationRows, HasRows
  <1>5. RowsStored'
    BY <1>2, <1>3, <1>4 DEF RowsKept, RowsStored
  <1>6. ASSUME NEW v \in Writers
        PROVE  HasRows(v)'
    <2>1. /\ op'[v].sources = op[v].sources /\ op'[v].precommitted = op[v].precommitted
          /\ op'[v].kind = op[v].kind /\ op'[v].rows = op[v].rows /\ HasRows(v)
      BY <1>3 DEF RowsKept, OperationRows
    <2>2. \A q \in op'[v].precommitted : rows'[q] = op[v].rows
      BY <1>2, <2>1 DEF HasRows
    <2>3. doomed \subseteq doomed' /\ \A q \in op[v].sources : rows'[q] = rows[q]
      BY <1>2
    <2> QED
      BY <2>1, <2>2, <2>3, KeepsRows
  <1> QED
    BY <1>5, <1>6 DEF RowsKept, OperationRows

(* A step that is no writer's.                                             *)
LEMMA OthersRows ==
    ASSUME IInv, Names, RowsKept, UNCHANGED <<op, doomed>>,
           DOMAIN state' \cap DOMAIN disk' \subseteq DOMAIN state \cap DOMAIN disk,
           \A q \in DOMAIN state' \cap DOMAIN disk' : rows'[q] = rows[q] /\ disk'[q] = disk[q],
           \A v \in Writers : \A q \in op[v].sources \cup op[v].precommitted : rows'[q] = rows[q]
    PROVE  RowsKept'
  <1> DEFINE W == {}
  <1>1. /\ W \in SUBSET Writers /\ \A v \in W : HasRows(v)'
        /\ \A v \in Writers \ W : /\ op'[v] = op[v]
                                  /\ \A q \in op[v].sources \cup op[v].precommitted : rows'[q] = rows[q]
    OBVIOUS
  <1>2. doomed \subseteq doomed'
    OBVIOUS
  <1> HIDE DEF W
  <1> QED
    BY <1>1, <1>2, SameRows

LEMMA loadDataPartsRows ==
    ASSUME IInv, Names, Directories, TypeOK', loadDataParts
    PROVE  RowsKept'
  <1>1. /\ DOMAIN state' = Active' /\ rows' = [p \in Active' |-> disk[p]]
        /\ \A w \in Writers : op'[w] = NoOperation
    BY loadDataPartsNames
  <1>2. UNCHANGED disk
    BY DEF loadDataParts, stored
  <1> QED
    BY <1>1, <1>2, IdleRows DEF RowsKept, RowsStored, OperationRows

LEMMA CrashRows ==
    ASSUME IInv, Names, Crash
    PROVE  RowsKept'
  BY CrashNames, IdleRows DEF RowsKept, RowsStored, OperationRows

LEMMA loadOutdatedRows ==
    ASSUME IInv, Names, RowsKept, loadOutdatedDataParts
    PROVE  RowsKept'
  <1> USE DEF memory, threads, stored, history, budget
  <1>1. PICK p \in unloaded : /\ p \notin DOMAIN state /\ state' = Put(state, p, "Outdated")
                              /\ rows' = Put(rows, p, disk[p])
    BY DEF loadOutdatedDataParts
  <1>2. UNCHANGED <<op, disk, doomed>>
    BY DEF loadOutdatedDataParts
  <1>3. DOMAIN state' = DOMAIN state \cup {p} /\ rows'[p] = disk[p]
    BY <1>1 DEF Put
  <1>4. \A q \in DOMAIN state : rows'[q] = rows[q]
    BY <1>1 DEF Put, IInv, TypeOK
  <1>5. RowsStored'
    BY <1>2, <1>3, <1>4 DEF RowsKept, RowsStored
  <1>6. ASSUME NEW v \in Writers
        PROVE  HasRows(v)'
    <2>1. /\ \A q \in op[v].sources \cup op[v].precommitted : rows'[q] = rows[q]
          /\ HasRows(v) /\ op'[v] = op[v] /\ doomed \subseteq doomed'
      BY <1>2, <1>4, HeldInMemory DEF RowsKept, OperationRows
    <2>2. \A q \in op'[v].precommitted : rows'[q] = op[v].rows
      BY <2>1 DEF HasRows
    <2> QED
      BY <2>1, <2>2, KeepsRows
  <1> QED
    BY <1>5, <1>6 DEF RowsKept, OperationRows

(***************************************************************************)
(* The removal of old parts                                                *)
(***************************************************************************)
LEMMA grabEffect ==
    ASSUME IInv, NEW c \in Cleaners, grabOldParts(c)
    PROVE  /\ UNCHANGED <<rows, unloaded, increment, op, phase, disk, inserted, doomed>> /\ phase = "up"
           /\ DOMAIN state' = DOMAIN state /\ Active' = Active /\ Grabbed(c) = {}
           /\ In("PreActive")' = In("PreActive")
           /\ \A d \in Cleaners : d # c => cleaner'[d] = cleaner[d] /\ Grabbed(d)' = Grabbed(d)
           /\ \E S \in SUBSET Removable :
                 /\ Grabbed(c)' = S /\ cleaner'[c].todo = S
                 /\ In("Deleting")' = In("Deleting") \cup S
  <1> USE DEF memory, threads, stored, history, budget
  <1>1. PICK S \in SUBSET Removable :
           state' = modifyPartState(state, S, "Deleting") /\ cleaner' = [cleaner EXCEPT ![c].todo = S]
    BY DEF grabOldParts
  <1>2. UNCHANGED <<rows, unloaded, increment, op, phase, disk, inserted, doomed>> /\ phase = "up"
        /\ cleaner[c] = NoCleaning
    BY DEF grabOldParts
  <1>3. S \subseteq Outdated /\ S \subseteq DOMAIN state
    BY DEF Removable, Outdated, In
  <1>4. DOMAIN state' = DOMAIN state
        /\ \A q \in DOMAIN state : state'[q] = IF q \in S THEN "Deleting" ELSE state[q]
    BY <1>1 DEF modifyPartState
  <1>5. /\ Active' = Active /\ In("PreActive")' = In("PreActive")
        /\ In("Deleting")' = In("Deleting") \cup S
    BY <1>3, <1>4 DEF Active, Outdated, In
  <1>6. /\ cleaner'[c].todo = S /\ cleaner'[c].done = {} /\ cleaner'[c].failed = {}
        /\ \A d \in Cleaners : d # c => cleaner'[d] = cleaner[d]
    BY <1>1, <1>2 DEF IInv, TypeOK, Cleanings, NoCleaning
  <1>7. /\ Grabbed(c) = {} /\ Grabbed(c)' = S
        /\ \A d \in Cleaners : d # c => Grabbed(d)' = Grabbed(d)
    BY <1>2, <1>6 DEF Grabbed, NoCleaning
  <1> QED
    BY <1>2, <1>4, <1>5, <1>6, <1>7

LEMMA removeEffect ==
    ASSUME IInv, NEW c \in Cleaners, removePart(c) \/ removePartThrows(c)
    PROVE  /\ UNCHANGED <<state, rows, unloaded, increment, op, phase, inserted, doomed>> /\ phase = "up"
           /\ \A d \in Cleaners : /\ Grabbed(d)' = Grabbed(d)
                                  /\ cleaner'[d].todo \subseteq cleaner[d].todo
           /\ \/ UNCHANGED disk
              \/ \E p \in cleaner[c].todo : disk' = Without(disk, {p})
  <1> USE DEF memory, threads, stored, history, budget
  <1>1. UNCHANGED <<state, rows, unloaded, increment, op, phase, inserted, doomed>> /\ phase = "up"
    BY DEF removePart, removePartThrows
  <1>2. CASE removePart(c)
    <2>1. PICK p \in cleaner[c].todo :
             /\ disk' = Without(disk, {p})
             /\ cleaner' = [cleaner EXCEPT ![c].todo = @ \ {p}, ![c].done = @ \cup {p}]
      BY <1>2 DEF removePart
    <2>2. /\ cleaner'[c].todo = cleaner[c].todo \ {p}
          /\ cleaner'[c].done = cleaner[c].done \cup {p}
          /\ cleaner'[c].failed = cleaner[c].failed
          /\ \A d \in Cleaners : d # c => cleaner'[d] = cleaner[d]
      BY <2>1 DEF IInv, TypeOK, Cleanings
    <2>3. \A d \in Cleaners : Grabbed(d)' = Grabbed(d)
      BY <2>2 DEF Grabbed
    <2> QED
      BY <1>1, <2>1, <2>2, <2>3
  <1>3. CASE removePartThrows(c)
    <2>1. PICK p \in cleaner[c].todo :
             /\ UNCHANGED stored \/ (disk' = Without(disk, {p}) /\ marked' = marked \ {p})
             /\ \E S \in {{p}, cleaner[c].todo} :
                   cleaner' = [cleaner EXCEPT ![c].todo = @ \ S, ![c].failed = @ \cup S]
      BY <1>3 DEF removePartThrows
    <2>2. PICK S \in {{p}, cleaner[c].todo} :
             cleaner' = [cleaner EXCEPT ![c].todo = @ \ S, ![c].failed = @ \cup S]
      BY <2>1
    <2>3. /\ cleaner'[c].todo = cleaner[c].todo \ S
          /\ cleaner'[c].done = cleaner[c].done
          /\ cleaner'[c].failed = cleaner[c].failed \cup S
          /\ \A d \in Cleaners : d # c => cleaner'[d] = cleaner[d]
      BY <2>2 DEF IInv, TypeOK, Cleanings
    <2>4. S \subseteq cleaner[c].todo
      OBVIOUS
    <2>5. \A d \in Cleaners : Grabbed(d)' = Grabbed(d)
      BY <2>3, <2>4 DEF Grabbed
    <2>6. \A d \in Cleaners : cleaner'[d].todo \subseteq cleaner[d].todo
      BY <2>3
    <2>7. UNCHANGED disk \/ disk' = Without(disk, {p})
      BY <2>1
    <2> QED
      BY <1>1, <2>5, <2>6, <2>7
  <1> QED
    BY <1>2, <1>3

LEMMA rollbackDeletingEffect ==
    ASSUME IInv, NEW c \in Cleaners, rollbackDeletingParts(c)
    PROVE  /\ UNCHANGED <<rows, unloaded, increment, op, phase, disk, inserted, doomed>>
           /\ DOMAIN state' = DOMAIN state /\ Active' = Active
           /\ In("PreActive")' = In("PreActive")
           /\ In("Deleting")' = In("Deleting") \ cleaner[c].failed
           /\ \A d \in Cleaners : cleaner'[d].todo = cleaner[d].todo
           /\ Grabbed(c)' = Grabbed(c) \ cleaner[c].failed
           /\ \A d \in Cleaners : d # c => Grabbed(d)' = Grabbed(d)
  <1> USE DEF memory, threads, stored, history, budget
  <1> DEFINE F == cleaner[c].failed
  <1>1. /\ state' = modifyPartState(state, F, "Outdated")
        /\ cleaner' = [cleaner EXCEPT ![c].failed = {}]
        /\ UNCHANGED <<rows, unloaded, increment, op, phase, disk, inserted, doomed>>
    BY DEF rollbackDeletingParts
  <1>2. F \subseteq In("Deleting") /\ cleaner[c].done \cap F = {} /\ cleaner[c].todo \cap F = {}
    BY DEF IInv, GrabbedParts, Grabbed
  <1>3. /\ cleaner'[c].todo = cleaner[c].todo /\ cleaner'[c].done = cleaner[c].done
        /\ cleaner'[c].failed = {}
        /\ \A d \in Cleaners : d # c => cleaner'[d] = cleaner[d]
    BY <1>1 DEF IInv, TypeOK, Cleanings
  <1>4. /\ Grabbed(c)' = Grabbed(c) \ F
        /\ \A d \in Cleaners : d # c => Grabbed(d)' = Grabbed(d)
    BY <1>2, <1>3 DEF Grabbed
  <1> HIDE DEF F
  <1>5. DOMAIN state' = DOMAIN state
        /\ \A q \in DOMAIN state : state'[q] = IF q \in F THEN "Outdated" ELSE state[q]
    BY <1>1 DEF modifyPartState
  <1>6. /\ Active' = Active /\ In("PreActive")' = In("PreActive")
        /\ In("Deleting")' = In("Deleting") \ F
    BY <1>2, <1>5 DEF Active, In
  <1>7. \A d \in Cleaners : cleaner'[d].todo = cleaner[d].todo
    BY <1>3
  <1> QED
    BY <1>1, <1>4, <1>5, <1>6, <1>7 DEF F

LEMMA removeFinallyEffect ==
    ASSUME IInv, NEW c \in Cleaners, removePartsFinally(c)
    PROVE  /\ UNCHANGED <<unloaded, increment, op, phase, disk, inserted, doomed>>
           /\ DOMAIN state' = DOMAIN state \ cleaner[c].done /\ Active' = Active
           /\ \A q \in DOMAIN state' : rows'[q] = rows[q]
           /\ In("PreActive")' = In("PreActive")
           /\ In("Deleting")' = In("Deleting") \ cleaner[c].done
           /\ \A d \in Cleaners : cleaner'[d].todo = cleaner[d].todo
           /\ Grabbed(c)' = Grabbed(c) \ cleaner[c].done
           /\ \A d \in Cleaners : d # c => Grabbed(d)' = Grabbed(d)
  <1> USE DEF memory, threads, stored, history, budget
  <1> DEFINE G == cleaner[c].done
  <1>1. /\ state' = Without(state, G) /\ rows' = Without(rows, G)
        /\ cleaner' = [cleaner EXCEPT ![c].done = {}]
        /\ UNCHANGED <<unloaded, increment, op, phase, disk, inserted, doomed>>
    BY DEF removePartsFinally
  <1>2. G \subseteq In("Deleting") /\ cleaner[c].failed \cap G = {} /\ cleaner[c].todo \cap G = {}
    BY DEF IInv, GrabbedParts, Grabbed
  <1>3. /\ cleaner'[c].todo = cleaner[c].todo /\ cleaner'[c].failed = cleaner[c].failed
        /\ cleaner'[c].done = {}
        /\ \A d \in Cleaners : d # c => cleaner'[d] = cleaner[d]
    BY <1>1 DEF IInv, TypeOK, Cleanings
  <1>4. /\ Grabbed(c)' = Grabbed(c) \ G
        /\ \A d \in Cleaners : d # c => Grabbed(d)' = Grabbed(d)
    BY <1>2, <1>3 DEF Grabbed
  <1> HIDE DEF G
  <1>5. /\ DOMAIN state' = DOMAIN state \ G
        /\ \A q \in DOMAIN state \ G : state'[q] = state[q] /\ rows'[q] = rows[q]
    BY <1>1 DEF Without, IInv, TypeOK
  <1>6. /\ Active' = Active /\ In("PreActive")' = In("PreActive")
        /\ In("Deleting")' = In("Deleting") \ G
    BY <1>2, <1>5 DEF Active, In
  <1>7. \A d \in Cleaners : cleaner'[d].todo = cleaner[d].todo
    BY <1>3
  <1> QED
    BY <1>1, <1>4, <1>5, <1>6, <1>7 DEF G

(***************************************************************************)
(* The states                                                              *)
(***************************************************************************)
LEMMA SameStates ==
    ASSUME StatesExact, In("Deleting")' \subseteq In("Deleting"),
           In("PreActive")' \subseteq In("PreActive"),
           \A c \in Cleaners : Grabbed(c)' = Grabbed(c),
           \A w \in Writers : op[w].precommitted \subseteq op'[w].precommitted
    PROVE  StatesExact'
  BY DEF StatesExact

LEMMA WriterStates ==
    ASSUME Orderly, IInv, Names, Directories, Memory, StatesExact, TypeOK',
           NEW w \in Writers, WriterStep(w)
    PROVE  StatesExact'
  <1> USE DEF memory, threads, stored, history, budget
  <1>1. UNCHANGED cleaner
    BY DEF WriterStep, selectPartsToMerge, coverPartsWithEmptyParts, cancel, renameTempPartAndReplace,
           renameParts, commit, checkPartThrows, renamePartsThrows, commitThrows, rollback
  <1>2. \A c \in Cleaners : Grabbed(c)' = Grabbed(c)
    BY <1>1 DEF Grabbed
  <1>3. CASE selectPartsToMerge(w) \/ coverPartsWithEmptyParts(w)
    <2>1. UNCHANGED state
      BY <1>3 DEF selectPartsToMerge, coverPartsWithEmptyParts
    <2>2. op[w].precommitted = {} /\ \A v \in Writers : v # w => op'[v] = op[v]
      BY <1>3, selectPartsToMergeNames, coverPartsWithEmptyPartsNames DEF NewParts
    <2> QED
      BY <1>2, <2>1, <2>2, SameStates DEF In
  <1>4. CASE cancel(w)
    <2>1. UNCHANGED state /\ op[w].precommitted = {}
      BY <1>4 DEF cancel
    <2>2. \A v \in Writers : v # w => op'[v] = op[v]
      BY <1>4, cancelNames
    <2> QED
      BY <1>2, <2>1, <2>2, SameStates DEF In
  <1>5. CASE renameTempPartAndReplace(w)
    <2>1. PICK p \in op[w].todo :
             /\ p \notin DOMAIN state /\ state' = Put(state, p, "PreActive")
             /\ op' = [op EXCEPT ![w].todo = @ \ {p},
                                ![w].precommitted = @ \cup {p}, ![w].need_rename = @ \cup {p}]
      BY <1>5 DEF renameTempPartAndReplace, checkPart
    <2>2. UNCHANGED disk
      BY <1>5 DEF renameTempPartAndReplace
    <2>3. /\ DOMAIN state' = DOMAIN state \cup {p} /\ state'[p] = "PreActive"
          /\ \A q \in DOMAIN state : state'[q] = state[q]
          /\ op'[w].precommitted = op[w].precommitted \cup {p}
          /\ \A v \in Writers : v # w => op'[v] = op[v]
      BY <2>1, <2>2, renameTempEffect
    <2>4. In("Deleting")' \subseteq In("Deleting") /\ In("PreActive")' \subseteq In("PreActive") \cup {p}
      BY <2>3 DEF In
    <2> QED
      BY <1>2, <2>3, <2>4 DEF StatesExact
  <1>6. CASE renameParts(w)
    <2>1. PICK p \in op[w].need_rename :
             disk' = Put(disk, p, op[w].rows) /\ op' = [op EXCEPT ![w].need_rename = @ \ {p}]
      BY <1>6 DEF renameParts
    <2>2. UNCHANGED state
      BY <1>6 DEF renameParts
    <2>3. /\ op'[w].precommitted = op[w].precommitted
          /\ \A v \in Writers : v # w => op'[v] = op[v]
      BY <2>1, <2>2, renamePartsEffect
    <2> QED
      BY <1>2, <2>2, <2>3, SameStates DEF In
  <1>7. CASE commit(w)
    <2>1. op' = [op EXCEPT ![w] = NoOperation]
      BY <1>7 DEF commit
    <2>2. \A v \in Writers : v # w => op'[v] = op[v]
      BY <2>1 DEF IInv, TypeOK
    <2>3. /\ op[w].precommitted \subseteq Active' /\ DOMAIN state' = DOMAIN state
          /\ \A q \in DOMAIN state \ op[w].precommitted : state'[q] = "Outdated" \/ state'[q] = state[q]
      BY <1>7, commitNames
    <2>4. In("Deleting")' \subseteq In("Deleting")
          /\ In("PreActive")' \subseteq In("PreActive") \ op[w].precommitted
      BY <2>3 DEF In, Active
    <2> QED
      BY <1>2, <2>2, <2>4 DEF StatesExact
  <1> QED
    BY <1>3, <1>4, <1>5, <1>6, <1>7, NoRollback DEF WriterStep, Rollback

LEMMA CleanerStates ==
    ASSUME IInv, StatesExact, NEW c \in Cleaners, CleanerStep(c)
    PROVE  StatesExact'
  <1>1. CASE grabOldParts(c)
    <2>1. /\ UNCHANGED op /\ In("PreActive")' = In("PreActive") /\ Grabbed(c) = {}
          /\ \A d \in Cleaners : d # c => Grabbed(d)' = Grabbed(d)
          /\ In("Deleting")' \subseteq In("Deleting") \cup Grabbed(c)'
      BY <1>1, grabEffect
    <2> QED
      BY <2>1 DEF StatesExact
  <1>2. CASE removePart(c) \/ removePartThrows(c)
    BY <1>2, removeEffect DEF StatesExact, In
  <1>3. CASE rollbackDeletingParts(c)
    BY <1>3, rollbackDeletingEffect DEF StatesExact
  <1>4. CASE removePartsFinally(c)
    <2>1. /\ UNCHANGED op /\ In("PreActive")' = In("PreActive")
          /\ In("Deleting")' = In("Deleting") \ cleaner[c].done
          /\ \A d \in Cleaners : Grabbed(d) \ cleaner[c].done \subseteq Grabbed(d)'
      BY <1>4, removeFinallyEffect
    <2> QED
      BY <2>1 DEF StatesExact
  <1> QED
    BY <1>1, <1>2, <1>3, <1>4 DEF CleanerStep

LEMMA OtherStates ==
    ASSUME IInv, Names, Directories, StatesExact, TypeOK',
           commitPart \/ clearEmptyParts \/ loadDataParts \/ loadOutdatedDataParts \/ Crash
    PROVE  StatesExact'
  <1> USE DEF memory, threads, stored, history, budget
  <1>1. CASE commitPart
    <2>1. UNCHANGED <<op, cleaner>>
      BY <1>1 DEF commitPart, InsertPart
    <2>2. /\ Active' = Active \cup {NewPart} /\ DOMAIN state' = DOMAIN state \cup {NewPart}
          /\ \A q \in DOMAIN state : state'[q] = state[q]
      BY <1>1, commitPartNames
    <2>3. In("Deleting")' \subseteq In("Deleting") /\ In("PreActive")' \subseteq In("PreActive")
      BY <2>2 DEF In, Active
    <2> QED
      BY <2>1, <2>3, SameStates DEF Grabbed
  <1>2. CASE clearEmptyParts
    <2>1. PICK p \in Active : state' = modifyPartState(state, {p}, "Outdated")
      BY <1>2 DEF clearEmptyParts
    <2>2. UNCHANGED <<op, cleaner>>
      BY <1>2 DEF clearEmptyParts
    <2>3. In("Deleting")' \subseteq In("Deleting") /\ In("PreActive")' \subseteq In("PreActive")
      BY <2>1 DEF In, modifyPartState
    <2> QED
      BY <2>2, <2>3, SameStates DEF Grabbed
  <1>3. CASE loadDataParts
    <2>1. DOMAIN state' = Active'
      BY <1>3, loadDataPartsNames
    <2>2. In("Deleting")' = {} /\ In("PreActive")' = {}
      BY <2>1 DEF In, Active
    <2> QED
      BY <2>2 DEF StatesExact
  <1>4. CASE loadOutdatedDataParts
    <2>1. PICK p \in unloaded : p \notin DOMAIN state /\ state' = Put(state, p, "Outdated")
      BY <1>4 DEF loadOutdatedDataParts
    <2>2. UNCHANGED <<op, cleaner>>
      BY <1>4 DEF loadOutdatedDataParts
    <2>3. In("Deleting")' \subseteq In("Deleting") /\ In("PreActive")' \subseteq In("PreActive")
      BY <2>1 DEF In, Put
    <2> QED
      BY <2>2, <2>3, SameStates DEF Grabbed
  <1>5. CASE Crash
    <2>1. In("Deleting")' = {} /\ In("PreActive")' = {}
      BY <1>5, CrashNames DEF In
    <2> QED
      BY <2>1 DEF StatesExact
  <1> QED
    BY <1>1, <1>2, <1>3, <1>4, <1>5

(***************************************************************************)
(* What covers what                                                        *)
(***************************************************************************)
(* Whatever covers a new part covers a source of it, so it is that source. *)
LEMMA AboveNewPart ==
    ASSUME IInv, Names, Memory, NEW w \in Writers, NEW p \in NewParts(w), NEW x \in Remembered,
           contains(x, p)
    PROVE  x \in Active
  <1>1. PICK s \in op[w].sources : contains(p, s)
    BY DEF Names, NewCoversSources
  <1>2. s \in Active
    BY DEF Names, SourcesActive
  <1>3. x \in AnyInfo /\ p \in AnyInfo /\ s \in AnyInfo
    BY <1>2, KnownAreInfos DEF Remembered
  <1>4. contains(x, s)
    BY <1>1, <1>3, ContainsTransitive
  <1> QED
    BY <1>2, <1>4 DEF Memory, RememberedTopmost

LEMMA GrabbedRemembered ==
    ASSUME IInv, NEW c \in Cleaners
    PROVE  Grabbed(c) \subseteq Remembered /\ Grabbed(c) \cap Active = {}
  BY DEF IInv, GrabbedParts, TransactionParts, In, Active, Remembered

(* A step that leaves the directories alone.                               *)
LEMMA SameCovered ==
    ASSUME Covered, UNCHANGED <<disk, phase>>, Settled' = Settled, Active' = Active,
           Remembered' \ DOMAIN disk \subseteq Remembered,
           \A c \in Cleaners : cleaner'[c].todo \subseteq cleaner[c].todo /\ Grabbed(c)' \subseteq Grabbed(c)
    PROVE  Covered'
  <1>1. TopsVisible'
    BY DEF Covered, TopsVisible
  <1>2. GhostsCovered'
    BY DEF Covered, GhostsCovered
  <1>3. GrabbedCovered'
    BY DEF Covered, GrabbedCovered
  <1> QED
    BY <1>1, <1>2, <1>3 DEF Covered

LEMMA renamePartsCovered ==
    ASSUME IInv, Names, Directories, Memory, Covered, NEW w \in Writers, renameParts(w)
    PROVE  Covered'
  <1> USE DEF memory, threads, stored, history, budget
  <1>1. PICK p \in op[w].need_rename :
           disk' = Put(disk, p, op[w].rows) /\ op' = [op EXCEPT ![w].need_rename = @ \ {p}]
    BY DEF renameParts
  <1>2. UNCHANGED <<state, cleaner, phase>>
    BY DEF renameParts
  <1>3. /\ Settled' = Settled /\ Active' = Active
        /\ DOMAIN disk' = DOMAIN disk \cup {p}
        /\ \A q \in DOMAIN disk : disk'[q] = disk[q]
        /\ p \in op[w].precommitted
        /\ op'[w].precommitted = op[w].precommitted
        /\ \A v \in Writers : v # w => op'[v] = op[v]
    BY <1>1, <1>2, renamePartsEffect
  <1>4. Remembered' = Remembered
    BY <1>2, <1>3 DEF Remembered
  <1>5. Settled \subseteq DOMAIN disk /\ Active \subseteq DOMAIN disk
    BY KnownAreInfos
  <1>6. \A x \in Remembered : contains(x, p) => x \in Active
    BY <1>3, AboveNewPart DEF NewParts
  <1>7. \A c \in Cleaners : /\ Grabbed(c)' = Grabbed(c) /\ cleaner'[c].todo = cleaner[c].todo
                            /\ cleaner[c].todo \subseteq Remembered /\ cleaner[c].todo \cap Active = {}
    BY <1>2, GrabbedRemembered DEF Grabbed
  <1>8. p \notin Remembered
    BY <1>3 DEF Remembered
  <1>9. TopsVisible'
    BY <1>2, <1>3, <1>5 DEF Covered, TopsVisible
  <1>10. GhostsCovered'
    <2> SUFFICES ASSUME NEW x \in Remembered, x \notin DOMAIN disk', NEW q \in DOMAIN disk', contains(x, q)
                 PROVE  \E y \in Settled : contains(y, x)
      BY <1>3, <1>4 DEF GhostsCovered
    <2>1. q # p /\ x \notin DOMAIN disk
      BY <1>3, <1>5, <1>6
    <2> QED
      BY <1>3, <2>1 DEF Covered, GhostsCovered
  <1>11. GrabbedCovered'
    <2> SUFFICES ASSUME NEW c \in Cleaners, NEW d \in cleaner[c].todo, d \in DOMAIN disk',
                        NEW q \in DOMAIN disk', contains(d, q), q # d
                 PROVE  \E y \in Settled \ Grabbed(c) : contains(y, d)
      BY <1>3, <1>7 DEF GrabbedCovered
    <2>1. q # p /\ d # p
      BY <1>6, <1>7, <1>8
    <2> QED
      BY <1>3, <2>1 DEF Covered, GrabbedCovered
  <1> QED
    BY <1>9, <1>10, <1>11 DEF Covered

LEMMA commitCovered ==
    ASSUME IInv, Names, Directories, Memory, Covered, TypeOK', NEW w \in Writers, commit(w)
    PROVE  Covered'
  <1> USE DEF memory, threads, stored, history, budget
  <1> DEFINE P == op[w].precommitted
  <1>1. /\ UNCHANGED <<disk, cleaner, phase>> /\ op[w].need_rename = {}
        /\ op' = [op EXCEPT ![w] = NoOperation]
    BY DEF commit
  <1>2. /\ Active' = {a \in Active : \A p \in P : ~contains(p, a)} \cup P
        /\ DOMAIN state' = DOMAIN state /\ Settled' = Settled \cup P
    BY commitNames
  <1>3. \A v \in Writers : v # w => op'[v] = op[v]
    BY <1>1 DEF IInv, TypeOK
  <1>4. Remembered' \subseteq Remembered \cup P
    BY <1>2, <1>3 DEF Remembered
  <1>5. P \subseteq DOMAIN disk /\ P \cap Active = {}
    BY <1>1 DEF IInv, TransactionParts, In, Active
  <1>6. \A c \in Cleaners : Grabbed(c)' = Grabbed(c) /\ cleaner'[c].todo = cleaner[c].todo
    BY <1>1 DEF Grabbed
  <1> HIDE DEF P
  <1>7. TopsVisible'
    <2> SUFFICES ASSUME phase = "up", NEW t \in Settled', \A x \in Settled' : contains(x, t) => x = t
                 PROVE  t \in Active' \/ disk[t] = {}
      BY <1>1 DEF TopsVisible
    <2>1. CASE t \in P
      BY <1>2, <2>1
    <2>2. CASE t \in Settled
      <3>1. t \in Active \/ disk[t] = {}
        BY <1>2, <2>2 DEF Covered, TopsVisible
      <3>2. \A p \in P : t \in Active => ~contains(p, t)
        BY <1>2, <1>5
      <3> QED
        BY <1>2, <3>1, <3>2
    <2> QED
      BY <1>2, <2>1, <2>2
  <1>8. GhostsCovered'
    <2>1. Remembered' \ DOMAIN disk \subseteq Remembered
      BY <1>4, <1>5
    <2> QED
      BY <1>1, <1>2, <2>1 DEF Covered, GhostsCovered
  <1>9. GrabbedCovered'
    BY <1>1, <1>2, <1>6 DEF Covered, GrabbedCovered
  <1> QED
    BY <1>7, <1>8, <1>9 DEF Covered

LEMMA commitPartCovered ==
    ASSUME IInv, Names, Directories, Memory, Covered, TypeOK', commitPart
    PROVE  Covered'
  <1> USE DEF memory, threads, stored, history, budget
  <1> DEFINE p == NewPart
  <1>1. /\ UNCHANGED <<op, cleaner, phase>> /\ disk' = Put(disk, p, {NewRow})
        /\ phase = "up" /\ increment < MaxBlock
    BY DEF commitPart, InsertPart
  <1>2. /\ Active' = Active \cup {p} /\ Settled' = Settled \cup {p}
        /\ DOMAIN state' = DOMAIN state \cup {p} /\ p \notin DOMAIN state
    BY commitPartNames
  <1>3. p \notin DOMAIN disk /\ p \in AnyInfo /\ Settled \subseteq DOMAIN disk
    BY <1>1, NewPartAbove, KnownAreInfos
  <1>4. \A q \in DOMAIN state : ~contains(q, p)
    <2>1. \A q \in DOMAIN state : q \in AnyInfo /\ isDisjoint(q, p)
      BY <1>1, NewPartUnknown, KnownAreInfos
    <2> QED
      BY <1>3, <2>1, ContainsOverlaps
  <1> HIDE DEF p
  <1>5. /\ DOMAIN disk' = DOMAIN disk \cup {p}
        /\ \A q \in DOMAIN disk : disk'[q] = disk[q]
    BY <1>1, <1>3 DEF Put
  <1>6. Remembered' \subseteq Remembered \cup {p} /\ Remembered \subseteq DOMAIN state
    BY <1>1, <1>2 DEF Remembered
  <1>7. \A c \in Cleaners : /\ Grabbed(c)' = Grabbed(c) /\ cleaner'[c].todo = cleaner[c].todo
                            /\ cleaner[c].todo \subseteq DOMAIN state
    BY <1>1, <1>6, GrabbedRemembered DEF Grabbed
  <1>8. TopsVisible'
    <2> SUFFICES ASSUME NEW t \in Settled', \A x \in Settled' : contains(x, t) => x = t
                 PROVE  t \in Active' \/ disk'[t] = {}
      BY DEF TopsVisible
    <2>1. CASE t \in Settled
      <3>1. t \in Active \/ disk[t] = {}
        BY <1>1, <1>2, <2>1 DEF Covered, TopsVisible
      <3> QED
        BY <1>2, <1>3, <1>5, <2>1, <3>1
    <2> QED
      BY <1>2, <2>1
  <1>9. GhostsCovered'
    <2> SUFFICES ASSUME NEW x \in Remembered', x \notin DOMAIN disk', NEW q \in DOMAIN disk', contains(x, q)
                 PROVE  \E y \in Settled' : contains(y, x)
      BY DEF GhostsCovered
    <2>1. x \in Remembered /\ x \notin DOMAIN disk /\ q \in DOMAIN disk
      BY <1>4, <1>5, <1>6
    <2> QED
      BY <1>2, <2>1 DEF Covered, GhostsCovered
  <1>10. GrabbedCovered'
    <2> SUFFICES ASSUME NEW c \in Cleaners, NEW d \in cleaner[c].todo, d \in DOMAIN disk',
                        NEW q \in DOMAIN disk', contains(d, q), q # d
                 PROVE  \E y \in Settled' \ Grabbed(c) : contains(y, d)
      BY <1>7 DEF GrabbedCovered
    <2>1. d \in DOMAIN disk /\ q \in DOMAIN disk
      BY <1>2, <1>4, <1>5, <1>7
    <2> QED
      BY <1>2, <2>1 DEF Covered, GrabbedCovered
  <1> QED
    BY <1>8, <1>9, <1>10 DEF Covered

LEMMA clearEmptyPartsCovered ==
    ASSUME IInv, Names, Directories, RowsKept, Covered, clearEmptyParts
    PROVE  Covered'
  <1> USE DEF memory, threads, stored, history, budget
  <1>1. PICK p \in Active : rows[p] = {} /\ state' = modifyPartState(state, {p}, "Outdated")
    BY DEF clearEmptyParts
  <1>2. UNCHANGED <<disk, op, cleaner, phase>>
    BY DEF clearEmptyParts
  <1>3. DOMAIN state' = DOMAIN state /\ Active' = Active \ {p} /\ Settled' = Settled
        /\ Remembered' = Remembered
    BY <1>1, <1>2 DEF modifyPartState, Active, In, Settled, Remembered
  <1>4. disk[p] = {}
    <2>1. p \in DOMAIN state \cap DOMAIN disk
      BY KnownAreInfos DEF Active, In
    <2> QED
      BY <1>1, <2>1 DEF RowsKept, RowsStored
  <1>5. TopsVisible'
    BY <1>2, <1>3, <1>4 DEF Covered, TopsVisible
  <1>6. GhostsCovered' /\ GrabbedCovered'
    BY <1>2, <1>3 DEF Covered, GhostsCovered, GrabbedCovered, Grabbed
  <1> QED
    BY <1>5, <1>6 DEF Covered

LEMMA loadDataPartsCovered ==
    ASSUME IInv, Names, Directories, TypeOK', loadDataParts
    PROVE  Covered'
  <1>1. /\ Active' = Tops(DOMAIN disk, {}) /\ Settled' = DOMAIN disk
        /\ DOMAIN state' = Active'
        /\ \A c \in Cleaners : cleaner'[c] = NoCleaning
    BY loadDataPartsNames
  <1>2. UNCHANGED disk
    BY DEF loadDataParts, stored
  <1>3. TopsVisible'
    BY <1>1, <1>2 DEF TopsVisible, Tops
  <1>4. Remembered' \subseteq DOMAIN disk
    BY <1>1 DEF Remembered, Tops
  <1>5. GhostsCovered'
    BY <1>2, <1>4 DEF GhostsCovered
  <1>6. GrabbedCovered'
    BY <1>1 DEF GrabbedCovered, NoCleaning
  <1> QED
    BY <1>3, <1>5, <1>6 DEF Covered

LEMMA CrashCovered ==
    ASSUME IInv, Names, Crash
    PROVE  Covered'
  <1>1. /\ DOMAIN state' = {} /\ phase' = "down" /\ \A c \in Cleaners : cleaner'[c] = NoCleaning
    BY CrashNames
  <1>2. Remembered' = {}
    BY <1>1 DEF Remembered
  <1> QED
    BY <1>1, <1>2 DEF Covered, TopsVisible, GhostsCovered, GrabbedCovered, NoCleaning

LEMMA loadOutdatedCovered ==
    ASSUME IInv, Names, Directories, Covered, loadOutdatedDataParts
    PROVE  Covered'
  <1> USE DEF memory, threads, stored, history, budget
  <1>1. PICK p \in unloaded : p \notin DOMAIN state /\ state' = Put(state, p, "Outdated")
    BY DEF loadOutdatedDataParts
  <1>2. UNCHANGED <<disk, op, cleaner, phase>> /\ Active' = Active /\ Settled' = Settled
    BY loadOutdatedNames DEF loadOutdatedDataParts
  <1>3. DOMAIN state' = DOMAIN state \cup {p} /\ p \in DOMAIN disk
    BY <1>1 DEF Put, IInv, UnloadedCovered
  <1>4. Remembered' \ DOMAIN disk \subseteq Remembered
    BY <1>2, <1>3 DEF Remembered
  <1> QED
    BY <1>2, <1>4, SameCovered DEF Grabbed

(***************************************************************************)
(* grabOldParts and the removal of directories                             *)
(***************************************************************************)
(* The walk from a part goes on until something in its way is not covered. *)
LEMMA WalkBlocked ==
    ASSUME NEW S \in SUBSET AnyInfo, NEW y \in AnyInfo, NEW d \in S, contains(y, d), d # y,
           CoveredParts(y, S) = {}
    PROVE  \E x \in S : ~isDisjoint(y, x) /\ ~contains(y, x)
  <1>1. d \in AnyInfo
    OBVIOUS
  <1>2. CASE Less(d, y)
    <2>1. d \in Left(y, S) /\ d \notin LeftRun(y, S)
      BY <1>2 DEF Left, CoveredParts
    <2>2. PICK x \in Left(y, S) : ~Less(x, d) /\ ~contains(y, x)
      BY <2>1 DEF LeftRun
    <2>3. x \in S /\ x \in AnyInfo /\ Less(x, y)
      BY DEF Left
    <2>4. ~isDisjoint(y, x)
      BY <1>1, <1>2, <2>2, <2>3 DEF AnyInfo, Less, SameBlocks, contains, isDisjoint
    <2> QED
      BY <2>2, <2>3, <2>4
  <1>3. CASE ~Less(d, y)
    <2>1. d \in Right(y, S) /\ d \notin RightRun(y, S)
      BY <1>3 DEF Right, CoveredParts
    <2>2. PICK x \in Right(y, S) : ~Less(d, x) /\ ~contains(y, x)
      BY <2>1 DEF RightRun
    <2>3. x \in S /\ x \in AnyInfo /\ ~Less(x, y)
      BY DEF Right
    <2>4. ~isDisjoint(y, x)
      BY <1>1, <1>3, <2>2, <2>3 DEF AnyInfo, Less, SameBlocks, contains, isDisjoint
    <2> QED
      BY <2>2, <2>3, <2>4
  <1> QED
    BY <1>2, <1>3

(* Above every settled directory there is a topmost one.                   *)
LEMMA TopOfSettled ==
    ASSUME IInv, NEW d \in Settled
    PROVE  \E y \in Settled : contains(y, d) /\ \A x \in Settled : contains(x, y) => x = y
  <1> DEFINE K == Settled
             bad == {}
  <1>1. K \in SUBSET PartInfos /\ d \in K /\ d \in AnyInfo
    BY KnownAreInfos
  <1>2. \A t \in Tops(K, bad) : t \in Settled /\ \A x \in Settled : contains(x, t) => x = t
    BY DEF Tops
  <1>3. CASE d \in Tops(K, bad)
    <2>1. contains(d, d)
      BY <1>1, ContainsItself
    <2> QED
      BY <1>2, <1>3, <2>1
  <1>4. CASE d \notin Tops(K, bad)
    <2>1. d \in K \ Tops(K, bad)
      BY <1>1, <1>4
    <2> HIDE DEF K, bad
    <2>2. \E a \in Tops(K, bad) \ bad : contains(a, d)
      BY <1>1, <2>1, TopAbove
    <2> QED
      BY <1>2, <2>2
  <1> QED
    BY <1>3, <1>4

(* A topmost directory finds the Outdated parts it covers.                 *)
LEMMA TopFindsOutdated ==
    ASSUME IInv, Names, Memory, Covered, NEW y \in Settled,
           \A x \in Settled : contains(x, y) => x = y,
           NEW d \in Outdated, contains(y, d), d # y
    PROVE  CoveredParts(y, Outdated) # {}
  <1> SUFFICES ASSUME CoveredParts(y, Outdated) = {}
               PROVE  FALSE
    OBVIOUS
  <1>1. Outdated \in SUBSET AnyInfo /\ y \in AnyInfo /\ y \in DOMAIN disk
    BY KnownAreInfos DEF Outdated, In
  <1>2. PICK x \in Outdated : ~isDisjoint(y, x) /\ ~contains(y, x)
    BY <1>1, WalkBlocked
  <1>3. x \in Remembered /\ x \in AnyInfo
    BY <1>1 DEF IInv, TransactionParts, Outdated, In, Remembered
  <1>4. contains(x, y)
    <2>1. ~Intersect(x, y)
      BY <1>3 DEF Memory, RememberedLaminar
    <2>2. ~isDisjoint(x, y)
      BY <1>1, <1>2, <1>3, DisjointSymmetric
    <2> QED
      BY <1>2, <2>1, <2>2 DEF Intersect
  <1>5. x # y
    BY <1>1, <1>2, ContainsItself
  <1>6. CASE x \in DOMAIN disk
    <2>1. x \in Settled
      BY <1>3, <1>6 DEF Remembered, Settled
    <2> QED
      BY <1>4, <1>5, <2>1
  <1>7. CASE x \notin DOMAIN disk
    <2>1. PICK z \in Settled : contains(z, x)
      BY <1>1, <1>3, <1>4, <1>7 DEF Covered, GhostsCovered
    <2>2. contains(z, y)
      BY <1>1, <1>3, <1>4, <2>1, KnownAreInfos, ContainsTransitive
    <2>3. z = y
      BY <2>2
    <2> QED
      BY <1>2, <2>1, <2>3
  <1> QED
    BY <1>6, <1>7

(* Of the parts that may be removed one that covers other directories is   *)
(* itself covered, by a directory that stays.                              *)
LEMMA RemovableCovered ==
    ASSUME IInv, Names, Directories, Memory, RowsKept, StatesExact, Covered, phase = "up",
           \A c \in Cleaners : Grabbed(c) = {},
           NEW S \in SUBSET Removable, NEW d \in S, d \in DOMAIN disk,
           NEW q \in DOMAIN disk, contains(d, q), q # d
    PROVE  \E y \in Settled \ S : contains(y, d)
  <1>1. S \subseteq Outdated /\ d \in Outdated
    BY DEF Removable
  <1>2. d \in Settled /\ d \in Remembered /\ d \notin Active
    BY <1>1 DEF IInv, TransactionParts, Outdated, Active, In, Settled, Remembered
  <1>3. PICK y \in Settled : contains(y, d) /\ \A x \in Settled : contains(x, y) => x = y
    BY <1>2, TopOfSettled
  <1>4. ASSUME y \in S
        PROVE  FALSE
    <2>1. y \in Outdated /\ y \notin Active /\ y \in DOMAIN state /\ y \in DOMAIN disk
      BY <1>1, <1>4, KnownAreInfos DEF Outdated, Active, In
    <2>2. disk[y] = {}
      BY <1>3, <2>1 DEF Covered, TopsVisible
    <2>3. rows[y] = {}
      BY <2>1, <2>2 DEF RowsKept, RowsStored
    <2>4. CoveredParts(y, Outdated) = {}
      BY <1>4, <2>3 DEF Removable, getCoveredOutdatedParts
    <2>5. \A x \in Outdated : contains(y, x) => x = y
      BY <1>3, <2>4, TopFindsOutdated
    <2>6. y = d
      BY <1>1, <1>3, <2>5
    <2>7. q \notin Outdated
      BY <2>5, <2>6
    <2>8. q \in AnyInfo /\ d \in AnyInfo
      BY <1>2, KnownAreInfos
    <2>9. CASE \E w \in Writers : q \in op[w].precommitted
      BY <1>2, <2>9, AboveNewPart DEF NewParts
    <2>10. CASE q \in Settled /\ q \in DOMAIN state
      <3>1. q \notin Active
        BY <1>2 DEF Names, Topmost
      <3>2. state[q] \in States
        BY <2>10 DEF IInv, TypeOK
      <3>3. q \in In("Deleting") \/ q \in In("PreActive")
        BY <2>7, <2>10, <3>1, <3>2 DEF States, Active, Outdated, In
      <3>4. q \notin In("Deleting")
        BY DEF StatesExact
      <3>5. q \notin In("PreActive")
        BY <2>10 DEF StatesExact, Settled
      <3> QED
        BY <3>3, <3>4, <3>5
    <2>11. CASE q \in unloaded
      <3>1. PICK a \in Active : contains(a, q)
        BY <2>11 DEF IInv, UnloadedCovered
      <3>2. a \in AnyInfo /\ a \in Settled
        BY KnownAreInfos
      <3>3. ~isDisjoint(q, a)
        BY <2>8, <3>1, <3>2, ContainsOverlaps, DisjointSymmetric
      <3>4. ~isDisjoint(d, a)
        BY <2>8, <3>2, <3>3, OverlapsContainer
      <3>5. contains(a, d)
        BY <1>2, <3>4, SettledBelow
      <3>6. a = d
        BY <1>3, <2>6, <3>2, <3>5
      <3> QED
        BY <1>2, <3>6
    <2> QED
      BY <2>9, <2>10, <2>11 DEF Directories, DiskPartsKnown, Settled
  <1> QED
    BY <1>3, <1>4

LEMMA grabCovered ==
    ASSUME Orderly, IInv, Names, Directories, Memory, RowsKept, StatesExact, Covered,
           NEW c \in Cleaners, grabOldParts(c)
    PROVE  Covered'
  <1>1. PICK S \in SUBSET Removable : Grabbed(c)' = S /\ cleaner'[c].todo = S
    BY grabEffect
  <1>2. /\ UNCHANGED <<disk, op, phase>> /\ phase = "up" /\ DOMAIN state' = DOMAIN state
        /\ Active' = Active /\ Grabbed(c) = {}
    BY grabEffect
  <1>3. Settled' = Settled /\ Remembered' = Remembered
    BY <1>2 DEF Settled, Remembered
  <1>4. TopsVisible' /\ GhostsCovered'
    BY <1>2, <1>3 DEF Covered, TopsVisible, GhostsCovered
  <1>5. \A e \in Cleaners : e = c
    BY DEF Orderly
  <1>6. \A e \in Cleaners : Grabbed(e) = {}
    BY <1>2, <1>5
  <1>7. \A d \in S \cap DOMAIN disk, q \in DOMAIN disk :
           contains(d, q) /\ q # d => \E y \in Settled \ S : contains(y, d)
    BY <1>2, <1>6, RemovableCovered
  <1>8. GrabbedCovered'
    BY <1>1, <1>2, <1>3, <1>5, <1>7 DEF GrabbedCovered
  <1> QED
    BY <1>4, <1>8 DEF Covered

(* The removal of a directory uncovers nothing.                            *)
LEMMA NothingUncovered ==
    ASSUME IInv, Covered, NEW c \in Cleaners, NEW p \in cleaner[c].todo, p \in DOMAIN disk,
           NEW q \in DOMAIN disk, contains(p, q), q # p
    PROVE  \E y \in Settled \ Grabbed(c) : /\ contains(y, p) /\ contains(y, q)
                                           /\ y # p /\ y # q /\ y \in DOMAIN disk
  <1>1. PICK y \in Settled \ Grabbed(c) : contains(y, p)
    BY DEF Covered, GrabbedCovered
  <1>2. p \in AnyInfo /\ q \in AnyInfo /\ y \in AnyInfo /\ y \in DOMAIN disk
    BY KnownAreInfos
  <1>3. y # p
    BY DEF Grabbed
  <1>4. y # q
    BY <1>1, <1>2, ContainsAntisymmetric
  <1>5. contains(y, q)
    BY <1>1, <1>2, ContainsTransitive
  <1> QED
    BY <1>1, <1>2, <1>3, <1>4, <1>5

LEMMA removeCovered ==
    ASSUME Orderly, IInv, Names, Directories, Covered,
           NEW c \in Cleaners, removePart(c) \/ removePartThrows(c)
    PROVE  Covered'
  <1>1. /\ UNCHANGED <<state, op, phase>>
        /\ \A d \in Cleaners : /\ Grabbed(d)' = Grabbed(d)
                               /\ cleaner'[d].todo \subseteq cleaner[d].todo
    BY removeEffect
  <1>2. Active' = Active /\ Remembered' = Remembered
    BY <1>1 DEF Active, In, Remembered
  <1>3. CASE UNCHANGED disk
    <2>1. Settled' = Settled
      BY <1>1, <1>3 DEF Settled
    <2> QED
      BY <1>1, <1>2, <1>3, <2>1, SameCovered
  <1>4. CASE \E p \in cleaner[c].todo : disk' = Without(disk, {p})
    <2>1. PICK p \in cleaner[c].todo : disk' = Without(disk, {p})
      BY <1>4
    <2>2. /\ DOMAIN disk' = DOMAIN disk \ {p} /\ \A q \in DOMAIN disk' : disk'[q] = disk[q]
      BY <2>1 DEF Without
    <2>3. Settled' = Settled \ {p} /\ Settled \subseteq DOMAIN disk
      BY <1>1, <2>2 DEF Settled
    <2>4. p \in AnyInfo /\ p \in Grabbed(c) /\ \A x \in Settled \cup Remembered : x \in AnyInfo
      <3>1. p \in Grabbed(c)
        BY DEF Grabbed
      <3> QED
        BY <3>1, GrabbedRemembered, KnownAreInfos DEF Remembered
    <2>5. TopsVisible'
      <3> SUFFICES ASSUME phase = "up", NEW t \in Settled, t # p,
                          \A x \in Settled : x # p /\ contains(x, t) => x = t
                   PROVE  t \in Active \/ disk[t] = {}
        BY <1>1, <1>2, <2>2, <2>3 DEF TopsVisible
      <3>1. ~(p \in Settled /\ contains(p, t))
        BY <2>3, NothingUncovered
      <3> QED
        BY <3>1 DEF Covered, TopsVisible
    <2>6. GhostsCovered'
      <3> SUFFICES ASSUME NEW x \in Remembered, x \notin DOMAIN disk', NEW q \in DOMAIN disk,
                          q # p, contains(x, q)
                   PROVE  \E y \in Settled : y # p /\ contains(y, x)
        BY <1>2, <2>2, <2>3 DEF GhostsCovered
      <3>1. CASE x \in DOMAIN disk
        <4>1. x = p
          BY <2>2, <3>1
        <4> QED
          BY <3>1, <4>1, NothingUncovered
      <3>2. CASE x \notin DOMAIN disk
        <4>1. PICK y \in Settled : contains(y, x)
          BY <3>2 DEF Covered, GhostsCovered
        <4>2. CASE y = p
          <5>1. contains(p, q) /\ q \in AnyInfo
            BY <2>4, <4>1, <4>2, KnownAreInfos, ContainsTransitive
          <5>2. PICK z \in Settled : contains(z, p) /\ z # p
            BY <2>3, <4>2, <5>1, NothingUncovered
          <5>3. contains(z, x)
            BY <2>4, <4>1, <4>2, <5>2, ContainsTransitive
          <5> QED
            BY <5>2, <5>3
        <4> QED
          BY <4>1, <4>2
      <3> QED
        BY <3>1, <3>2
    <2>7. GrabbedCovered'
      <3> SUFFICES ASSUME NEW e \in Cleaners, NEW d \in cleaner[e].todo, d \in DOMAIN disk,
                          NEW q \in DOMAIN disk, contains(d, q), q # d
                   PROVE  \E y \in Settled \ Grabbed(e) : y # p /\ contains(y, d)
        BY <1>1, <2>2, <2>3 DEF GrabbedCovered
      <3>1. e = c
        BY DEF Orderly
      <3> QED
        BY <2>4, <3>1 DEF Covered, GrabbedCovered
    <2> QED
      BY <2>5, <2>6, <2>7 DEF Covered
  <1> QED
    BY <1>3, <1>4, removeEffect

-----------------------------------------------------------------------------
(***************************************************************************)
(* The second invariant holds                                              *)
(***************************************************************************)
(* An operation begins, is cancelled, or puts a part into its Transaction: *)
(* the directories stay.                                                   *)
LEMMA WriterKeepsDisk ==
    ASSUME IInv, Names, Directories, Memory, Covered, TypeOK', NEW w \in Writers,
           \/ selectPartsToMerge(w) \/ coverPartsWithEmptyParts(w) \/ cancel(w)
           \/ renameTempPartAndReplace(w)
    PROVE  Covered'
  <1> USE DEF memory, threads, stored, history, budget
  <1>1. UNCHANGED <<disk, phase, cleaner>>
    BY DEF selectPartsToMerge, coverPartsWithEmptyParts, cancel, renameTempPartAndReplace
  <1>2. CASE selectPartsToMerge(w) \/ coverPartsWithEmptyParts(w)
    <2>1. /\ Settled' = Settled /\ Active' = Active /\ op[w].precommitted = {}
          /\ \A v \in Writers : v # w => op'[v] = op[v]
      BY <1>2, selectPartsToMergeNames, coverPartsWithEmptyPartsNames DEF NewParts
    <2>2. UNCHANGED state
      BY <1>2 DEF selectPartsToMerge, coverPartsWithEmptyParts
    <2>3. Remembered' \subseteq Remembered
      BY <2>1, <2>2 DEF Remembered
    <2> QED
      BY <1>1, <2>1, <2>3, SameCovered DEF Grabbed
  <1>3. CASE cancel(w)
    <2>1. /\ Settled' = Settled /\ Active' = Active
          /\ \A v \in Writers : v # w => op'[v] = op[v]
      BY <1>3, cancelNames
    <2>2. UNCHANGED state /\ op[w].precommitted = {}
      BY <1>3 DEF cancel
    <2>3. Remembered' \subseteq Remembered
      BY <2>1, <2>2 DEF Remembered
    <2> QED
      BY <1>1, <2>1, <2>3, SameCovered DEF Grabbed
  <1>4. CASE renameTempPartAndReplace(w)
    <2>1. PICK p \in op[w].todo :
           /\ p \notin DOMAIN state /\ state' = Put(state, p, "PreActive")
           /\ op' = [op EXCEPT ![w].todo = @ \ {p},
                              ![w].precommitted = @ \cup {p}, ![w].need_rename = @ \cup {p}]
      BY <1>4 DEF renameTempPartAndReplace, checkPart
    <2>2. /\ Settled' = Settled /\ Active' = Active
          /\ DOMAIN state' = DOMAIN state \cup {p}
          /\ op'[w].precommitted = op[w].precommitted \cup {p}
          /\ \A v \in Writers : v # w => op'[v] = op[v]
      BY <1>1, <2>1, renameTempEffect
    <2>3. Remembered' \subseteq Remembered
      BY <2>2 DEF Remembered
    <2> QED
      BY <1>1, <2>2, <2>3, SameCovered DEF Grabbed
  <1> QED
    BY <1>2, <1>3, <1>4

LEMMA cancelMemory ==
    ASSUME IInv, Names, Directories, Memory, NEW w \in Writers, cancel(w)
    PROVE  Memory'
  <1> USE DEF memory, threads, stored, history, budget
  <1>1. /\ Settled' = Settled /\ Active' = Active /\ op'[w] = NoOperation
        /\ \A v \in Writers : v # w => op'[v] = op[v]
    BY cancelNames
  <1>2. UNCHANGED <<state, increment, phase>> /\ op[w].precommitted = {}
    BY DEF cancel
  <1>3. Remembered' \subseteq Remembered
    BY <1>1, <1>2 DEF Remembered
  <1>4. /\ \A v \in Writers : op'[v].todo \subseteq op[v].todo
        /\ \A v \in Writers : NewParts(v)' \subseteq NewParts(v)
    BY <1>1, NoOperationEmpty DEF NothingLeft, NewParts
  <1> QED
    BY <1>1, <1>2, <1>3, <1>4, ShrinkMemory

LEMMA renamePartsMemory ==
    ASSUME IInv, Names, Directories, Memory, NEW w \in Writers, renameParts(w)
    PROVE  Memory'
  <1> USE DEF memory, threads, stored, history, budget
  <1>1. PICK p \in op[w].need_rename :
           disk' = Put(disk, p, op[w].rows) /\ op' = [op EXCEPT ![w].need_rename = @ \ {p}]
    BY DEF renameParts
  <1>2. UNCHANGED <<state, increment, phase>>
    BY DEF renameParts
  <1>3. /\ Settled' = Settled /\ Active' = Active
        /\ op'[w].todo = op[w].todo /\ op'[w].precommitted = op[w].precommitted
        /\ \A v \in Writers : v # w => op'[v] = op[v]
    BY <1>1, <1>2, renamePartsEffect
  <1>4. Remembered' \subseteq Remembered
    BY <1>2, <1>3 DEF Remembered
  <1>5. /\ \A v \in Writers : op'[v].todo \subseteq op[v].todo
        /\ \A v \in Writers : NewParts(v)' \subseteq NewParts(v)
    BY <1>3 DEF NewParts
  <1> QED
    BY <1>2, <1>3, <1>4, <1>5, ShrinkMemory

LEMMA WriterContents ==
    ASSUME Orderly, IInv, Names, Directories, Memory, RowsKept, Covered, TypeOK',
           NEW w \in Writers, WriterStep(w)
    PROVE  Memory' /\ RowsKept' /\ Covered'
  <1>1. ~Rollback(w)
    BY NoRollback
  <1>2. CASE selectPartsToMerge(w) \/ coverPartsWithEmptyParts(w)
    BY <1>2, selectPartsToMergeMemory, coverPartsWithEmptyPartsMemory, BegunRows, WriterKeepsDisk
  <1>3. CASE cancel(w)
    BY <1>3, cancelMemory, EndedRows, WriterKeepsDisk
  <1>4. CASE renameTempPartAndReplace(w)
    BY <1>4, renameTempMemory, renameTempRows, WriterKeepsDisk
  <1>5. CASE renameParts(w)
    BY <1>5, renamePartsMemory, renamePartsRows, renamePartsCovered
  <1>6. CASE commit(w)
    BY <1>6, commitMemory, EndedRows, commitCovered
  <1> QED
    BY <1>1, <1>2, <1>3, <1>4, <1>5, <1>6 DEF WriterStep, Rollback

LEMMA CleanerContents ==
    ASSUME Orderly, IInv, Names, Directories, Memory, RowsKept, StatesExact, Covered,
           NEW c \in Cleaners, CleanerStep(c)
    PROVE  Memory' /\ RowsKept' /\ Covered'
  <1>1. /\ UNCHANGED <<increment, op, phase, doomed>> /\ Active' = Active
        /\ DOMAIN state' \subseteq DOMAIN state
        /\ \A q \in DOMAIN state' : rows'[q] = rows[q]
        /\ DOMAIN disk' \subseteq DOMAIN disk /\ \A q \in DOMAIN disk' : disk'[q] = disk[q]
    <2>1. CASE grabOldParts(c) \/ rollbackDeletingParts(c) \/ removePartsFinally(c)
      BY <2>1, grabEffect, rollbackDeletingEffect, removeFinallyEffect
    <2>2. CASE removePart(c) \/ removePartThrows(c)
      <3>1. /\ UNCHANGED <<state, rows, increment, op, phase, doomed>>
            /\ UNCHANGED disk \/ \E p \in cleaner[c].todo : disk' = Without(disk, {p})
        BY <2>2, removeEffect
      <3>2. DOMAIN disk' \subseteq DOMAIN disk /\ \A q \in DOMAIN disk' : disk'[q] = disk[q]
        BY <3>1 DEF Without
      <3> QED
        BY <3>1, <3>2 DEF Active, In
    <2> QED
      BY <2>1, <2>2 DEF CleanerStep
  <1>2. Settled' \subseteq Settled /\ Remembered' \subseteq Remembered
    BY <1>1 DEF Settled, Remembered
  <1>3. Memory'
    BY <1>1, <1>2, ShrinkMemory DEF NewParts
  <1>4. RowsKept'
    <2>1. \A v \in Writers : \A q \in op[v].sources \cup op[v].precommitted : rows'[q] = rows[q]
      <3>1. CASE removePartsFinally(c)
        <4>1. DOMAIN state' = DOMAIN state \ cleaner[c].done
          BY <3>1, removeFinallyEffect
        <4> QED
          BY <1>1, <4>1, HeldInMemory DEF Grabbed
      <3>2. CASE grabOldParts(c) \/ rollbackDeletingParts(c)
        BY <3>2, grabEffect, rollbackDeletingEffect
      <3>3. CASE removePart(c) \/ removePartThrows(c)
        BY <3>3, removeEffect
      <3> QED
        BY <3>1, <3>2, <3>3 DEF CleanerStep
    <2> QED
      BY <1>1, <2>1, OthersRows
  <1>5. Covered'
    <2>1. CASE grabOldParts(c)
      BY <2>1, grabCovered
    <2>2. CASE removePart(c) \/ removePartThrows(c)
      BY <2>2, removeCovered
    <2>3. CASE rollbackDeletingParts(c) \/ removePartsFinally(c)
      <3>1. /\ UNCHANGED disk
            /\ \A d \in Cleaners : cleaner'[d].todo = cleaner[d].todo /\ Grabbed(d)' \subseteq Grabbed(d)
        BY <2>3, rollbackDeletingEffect, removeFinallyEffect
      <3>2. Settled' = Settled
        BY <1>1, <3>1 DEF Settled
      <3> QED
        BY <1>1, <1>2, <3>1, <3>2, SameCovered
    <2> QED
      BY <2>1, <2>2, <2>3 DEF CleanerStep
  <1> QED
    BY <1>3, <1>4, <1>5

LEMMA clearEmptyPartsContents ==
    ASSUME IInv, Names, Directories, Memory, RowsKept, Covered, clearEmptyParts
    PROVE  Memory' /\ RowsKept' /\ Covered'
  <1> USE DEF memory, threads, stored, history, budget
  <1>1. PICK p \in Active : state' = modifyPartState(state, {p}, "Outdated")
    BY DEF clearEmptyParts
  <1>2. UNCHANGED <<rows, increment, op, phase, disk, doomed>>
    BY DEF clearEmptyParts
  <1>3. /\ DOMAIN state' = DOMAIN state /\ Active' \subseteq Active /\ Settled' = Settled
        /\ Remembered' = Remembered
    BY <1>1, <1>2 DEF modifyPartState, Active, In, Settled, Remembered
  <1>4. Memory'
    BY <1>2, <1>3, ShrinkMemory DEF NewParts
  <1>5. RowsKept'
    BY <1>2, <1>3, OthersRows
  <1> QED
    BY <1>4, <1>5, clearEmptyPartsCovered

(* A step that changes neither the working set nor the directories.        *)
LEMMA NothingChanges ==
    ASSUME IInv, Names, Memory, RowsKept, StatesExact, Covered,
           UNCHANGED <<state, rows, increment, op, cleaner, phase, disk, doomed>>
    PROVE  Memory' /\ RowsKept' /\ StatesExact' /\ Covered'
  <1>1. /\ Active' = Active /\ Settled' = Settled /\ Remembered' = Remembered
        /\ \A w \in Writers : NewParts(w)' = NewParts(w)
        /\ \A c \in Cleaners : Grabbed(c)' = Grabbed(c)
        /\ In("Deleting")' = In("Deleting") /\ In("PreActive")' = In("PreActive")
    BY DEF Active, In, Settled, Remembered, NewParts, Grabbed
  <1>2. Memory'
    BY <1>1, ShrinkMemory
  <1>3. RowsKept'
    BY OthersRows
  <1>4. StatesExact'
    BY <1>1, SameStates
  <1>5. Covered'
    BY <1>1, SameCovered
  <1> QED
    BY <1>2, <1>3, <1>4, <1>5

(* The batches are counted: the next one was never inserted.               *)
LEMMA NextBatch ==
    ASSUME InsertedCounted
    PROVE  \E n \in Nat : inserted = 1..n /\ NewRow = n + 1 /\ NewRow \notin inserted
  <1>1. PICK n \in Nat : inserted = 1..n
    BY DEF InsertedCounted
  <1>2. Cardinality(inserted) = n
    BY <1>1, FS_Interval
  <1> QED
    BY <1>1, <1>2 DEF NewRow

LEMMA NextInserted ==
    ASSUME NoLateFailure, TypeOK, InsertedCounted, [Next]_vars
    PROVE  InsertedCounted'
  <1>1. CASE commitPart
    <2>1. PICK n \in Nat : inserted = 1..n /\ NewRow = n + 1
      BY NextBatch
    <2>2. inserted' = 1..(n + 1) /\ n + 1 \in Nat
      BY <1>1, <2>1 DEF commitPart
    <2> QED
      BY <2>2 DEF InsertedCounted
  <1>2. CASE ~commitPart
    <2>1. ~commitPartThrows
      BY NoDirectoryLeft
    <2>2. UNCHANGED inserted
      BY <1>2, <2>1 DEF Next, WriterStep, ReaderStep, CleanerStep, selectPartsToMerge,
         coverPartsWithEmptyParts, cancel, renameTempPartAndReplace, renameParts, commit,
         checkPartThrows, renamePartsThrows, commitThrows, rollback,
         getDataPartsVectorForInternalUsage, releaseParts, grabOldParts, removePart, removePartThrows,
         rollbackDeletingParts, removePartsFinally, clearEmptyParts, Crash, loadDataParts,
         loadOutdatedDataParts, vars, history
    <2> QED
      BY <2>2 DEF InsertedCounted
  <1> QED
    BY <1>1, <1>2

LEMMA InitContents == Init => ContentsInv
  <1> SUFFICES ASSUME Init
               PROVE  ContentsInv
    OBVIOUS
  <1>1. NamesInv
    BY InitNames
  <1>2. /\ DOMAIN state = {} /\ DOMAIN disk = {} /\ inserted = {}
        /\ \A w \in Writers : op[w] = NoOperation
        /\ \A c \in Cleaners : cleaner[c] = NoCleaning
    BY DEF Init
  <1>3. /\ Active = {} /\ Settled = {} /\ Remembered = {}
        /\ \A s : In(s) = {}
    BY <1>2 DEF Active, In, Settled, Remembered
  <1>4. Memory
    BY <1>2, <1>3 DEF Memory, NamesFree, RememberedTopmost, RememberedLaminar, RememberedHandedOut
  <1>5. RowsKept
    BY <1>2, NoOperationEmpty DEF RowsKept, RowsStored, OperationRows, HasRows, NothingLeft
  <1>6. StatesExact /\ Covered
    BY <1>2, <1>3 DEF StatesExact, Covered, TopsVisible, GhostsCovered, GrabbedCovered
  <1>7. inserted = 1..0 /\ 0 \in Nat
    BY <1>2
  <1>8. InsertedCounted
    BY <1>7 DEF InsertedCounted
  <1> QED
    BY <1>1, <1>4, <1>5, <1>6, <1>8 DEF ContentsInv

LEMMA NextContents == Orderly /\ ContentsInv /\ [Next]_vars => ContentsInv'
  <1> SUFFICES ASSUME Orderly, ContentsInv, [Next]_vars
               PROVE  ContentsInv'
    OBVIOUS
  <1>1. /\ NamesInv /\ Memory /\ RowsKept /\ StatesExact /\ Covered /\ InsertedCounted
        /\ IInv /\ Names /\ Directories /\ TypeOK /\ NoLateFailure
    BY OrderlyEarly DEF ContentsInv, NamesInv, IInv
  <1>2. NamesInv' /\ TypeOK'
    <2>1. NamesInv'
      BY <1>1, NextNames
    <2> QED
      BY <2>1 DEF NamesInv, IInv
  <1>3. InsertedCounted'
    BY <1>1, NextInserted
  <1>4. Memory' /\ RowsKept' /\ StatesExact' /\ Covered'
    <2>1. CASE \E w \in Writers : WriterStep(w)
      BY <1>1, <1>2, <2>1, WriterContents, WriterStates
    <2>2. CASE \E r \in Readers : ReaderStep(r)
      <3>1. UNCHANGED <<state, rows, increment, op, cleaner, phase, disk, doomed>>
        BY <2>2 DEF ReaderStep, getDataPartsVectorForInternalUsage, releaseParts, memory, stored, history
      <3> QED
        BY <1>1, <3>1, NothingChanges
    <2>3. CASE \E c \in Cleaners : CleanerStep(c)
      BY <1>1, <2>3, CleanerContents, CleanerStates
    <2>4. CASE commitPart
      BY <1>1, <1>2, <2>4, commitPartMemory, commitPartRows, commitPartCovered, OtherStates
    <2>5. CASE commitPartThrows
      BY <1>1, <2>5, NoDirectoryLeft
    <2>6. CASE clearEmptyParts
      BY <1>1, <1>2, <2>6, clearEmptyPartsContents, OtherStates
    <2>7. CASE Crash
      BY <1>1, <1>2, <2>7, CrashMemory, CrashRows, CrashCovered, OtherStates
    <2>8. CASE loadDataParts
      BY <1>1, <1>2, <2>8, loadDataPartsMemory, loadDataPartsRows, loadDataPartsCovered, OtherStates
    <2>9. CASE loadOutdatedDataParts
      BY <1>1, <1>2, <2>9, loadOutdatedMemory, loadOutdatedRows, loadOutdatedCovered, OtherStates
    <2>10. CASE UNCHANGED vars
      <3>1. UNCHANGED <<state, rows, increment, op, cleaner, phase, disk, doomed>>
        BY <2>10 DEF vars, memory, threads, stored, history
      <3> QED
        BY <1>1, <3>1, NothingChanges
    <2> QED
      BY <2>1, <2>2, <2>3, <2>4, <2>5, <2>6, <2>7, <2>8, <2>9, <2>10 DEF Next
  <1> QED
    BY <1>2, <1>3, <1>4 DEF ContentsInv

(* While adding parts does not fail and one thread at a time removes old   *)
(* parts, a directory that nothing covers is Active or empty, a part that  *)
(* covers removed ones keeps or is itself covered by a directory, and a    *)
(* merge or drop under way holds the rows of what it replaces.             *)
THEOREM ContentsHold ==
    ASSUME Orderly
    PROVE  Spec => []ContentsInv
  <1>1. ContentsInv /\ [Next]_vars => ContentsInv'
    BY NextContents
  <1> QED
    BY <1>1, InitContents, PTL DEF Spec

-----------------------------------------------------------------------------
(***************************************************************************)
(* What a restart would show                                               *)
(***************************************************************************)
TopDirectories == Tops(DOMAIN disk, {})

LEMMA TopsAre ==
    /\ TopDirectories \subseteq DOMAIN disk
    /\ \A t \in DOMAIN disk :
          t \in TopDirectories <=> \A q \in DOMAIN disk : contains(q, t) => q = t
  BY DEF TopDirectories, Tops

LEMMA DurableTops == Directories => DurableRows = RowsOf(TopDirectories, disk)
  <1> SUFFICES ASSUME Directories
               PROVE  DurableRows = RowsOf(TopDirectories, disk)
    OBVIOUS
  <1>1. marked = {}
    BY DEF Directories
  <1>2. DOMAIN disk \ marked = DOMAIN disk
    BY <1>1
  <1> QED
    BY <1>2 DEF DurableRows, TopDirectories

(* The directory of an operation's part holds the operation's rows.        *)
LEMMA RenamedRows ==
    ASSUME IInv, Names, RowsKept, NEW w \in Writers, NEW p \in op[w].precommitted, p \in DOMAIN disk
    PROVE  disk[p] = op[w].rows
  <1>1. p \in DOMAIN state
    BY HeldInMemory
  <1> QED
    BY <1>1 DEF RowsKept, RowsStored, OperationRows, HasRows

(* The kind of an operation that has parts.                                *)
LEMMA BusyWriter ==
    ASSUME IInv, Directories, NEW w \in Writers, NewParts(w) # {}
    PROVE  op[w].kind = "merge" \/ op[w].kind = "drop"
  <1>1. op[w].kind \in {"none", "merge", "drop"}
    BY OperationType DEF IInv, TypeOK
  <1>2. op[w].kind # "none"
    BY NoOperationEmpty DEF Directories, IdleWriters, NothingLeft, NewParts
  <1> QED
    BY <1>1, <1>2

LEMMA ActiveRowsStored ==
    ASSUME IInv, RowsKept, NEW a \in Active
    PROVE  a \in DOMAIN disk /\ rows[a] = disk[a]
  BY DEF Active, In, IInv, ActiveOnDisk, RowsKept, RowsStored

(* An Active part is on top, or below a renamed part of the operation that *)
(* reads it.                                                               *)
LEMMA OnTopOrMerged ==
    ASSUME IInv, Names, NEW a \in Active
    PROVE  \/ a \in TopDirectories
           \/ \E w \in Writers : /\ a \in op[w].sources
                                 /\ \E t \in op[w].precommitted : t \in TopDirectories
  <1>1. DOMAIN disk \in SUBSET PartInfos /\ DOMAIN disk \subseteq AnyInfo /\ a \in DOMAIN disk
        /\ a \in AnyInfo
    BY KnownAreInfos
  <1> SUFFICES ASSUME a \notin TopDirectories
               PROVE  \E w \in Writers : /\ a \in op[w].sources
                                         /\ \E t \in op[w].precommitted : t \in TopDirectories
    OBVIOUS
  <1> DEFINE bad == {}
  <1>2. TopDirectories = Tops(DOMAIN disk, bad) /\ TopDirectories \ bad = TopDirectories
    BY DEF TopDirectories
  <1> HIDE DEF bad
  <1>3. PICK t \in TopDirectories : contains(t, a)
    BY <1>1, <1>2, TopAbove
  <1>4. t \in DOMAIN disk /\ t # a
    BY <1>3, TopsAre
  <1>5. t \notin Settled
    BY <1>3, <1>4 DEF Names, Topmost
  <1>6. PICK w \in Writers : t \in op[w].precommitted
    BY <1>4, <1>5 DEF Settled
  <1>7. ~isDisjoint(t, a)
    BY <1>1, <1>3, <1>4, ContainsOverlaps
  <1>8. a \in op[w].sources
    BY <1>6, <1>7 DEF Names, NewCoversSources, NewParts
  <1> QED
    BY <1>3, <1>6, <1>8

(* A directory on top that is not of a Transaction is Active or empty.     *)
LEMMA SettledTop ==
    ASSUME Covered, phase = "up", NEW t \in TopDirectories, t \in Settled
    PROVE  t \in Active \/ disk[t] = {}
  BY TopsAre DEF Covered, TopsVisible, Settled

(* No row comes back.                                                      *)
LEMMA NothingResurrected ==
    ASSUME IInv, Names, Directories, RowsKept, Covered, phase = "up"
    PROVE  DurableRows \subseteq RowsOf(Active, rows)
  <1> SUFFICES ASSUME NEW t \in TopDirectories, NEW b \in disk[t]
               PROVE  \E a \in Active : b \in rows[a]
    BY DurableTops DEF RowsOf
  <1>1. CASE t \in Settled
    BY <1>1, SettledTop, ActiveRowsStored
  <1>2. CASE t \notin Settled
    <2>1. t \in DOMAIN disk
      BY TopsAre
    <2>2. PICK w \in Writers : t \in op[w].precommitted
      BY <1>2, <2>1 DEF Settled
    <2>3. disk[t] = op[w].rows
      BY <2>1, <2>2, RenamedRows
    <2>4. op[w].kind = "merge" /\ op[w].rows = RowsOf(op[w].sources, rows)
      BY <2>2, <2>3, BusyWriter DEF NewParts, RowsKept, OperationRows, HasRows
    <2> QED
      BY <2>3, <2>4 DEF RowsOf, Names, SourcesActive
  <1> QED
    BY <1>1, <1>2

(* A visible row that a restart would lose is one that a DROP under way    *)
(* may delete.                                                             *)
LEMMA OnlyDropsLose ==
    ASSUME IInv, Names, Directories, RowsKept, NEW a \in Active, NEW b \in rows[a], b \notin DurableRows
    PROVE  b \in doomed /\ DropInFlight
  <1>1. a \notin TopDirectories
    BY ActiveRowsStored, DurableTops DEF RowsOf
  <1>2. PICK w \in Writers : /\ a \in op[w].sources
                             /\ \E t \in op[w].precommitted : t \in TopDirectories
    BY <1>1, OnTopOrMerged
  <1>3. PICK t \in op[w].precommitted : t \in TopDirectories
    BY <1>2
  <1>4. t \in DOMAIN disk
    BY <1>3, TopsAre
  <1>5. b \notin op[w].rows
    BY <1>3, <1>4, RenamedRows, DurableTops DEF RowsOf
  <1>6. b \in RowsOf(op[w].sources, rows)
    BY <1>2 DEF RowsOf
  <1>7. op[w].kind = "drop" /\ RowsOf(op[w].sources, rows) \subseteq doomed
    BY <1>3, <1>5, <1>6, BusyWriter DEF NewParts, RowsKept, OperationRows, HasRows
  <1> QED
    BY <1>3, <1>4, <1>6, <1>7 DEF DropInFlight

(* "Avoids resurrection of old parts", and no loss either: while adding    *)
(* parts does not fail and one thread at a time removes old parts, a crash *)
(* at any moment followed by a restart shows the visible rows, but for the *)
(* rows that a DROP caught between its renames and its commit may delete.  *)
THEOREM RestartIsFaithful ==
    ASSUME Orderly
    PROVE  Spec => []RestartShowsVisibleRows
  <1>1. ContentsInv => RestartShowsVisibleRows
    <2> SUFFICES ASSUME ContentsInv
                 PROVE  RestartShowsVisibleRows
      OBVIOUS
    <2>1. IInv /\ Names /\ Directories /\ RowsKept /\ Covered
      BY DEF ContentsInv, NamesInv
    <2>2. NoResurrection
      BY <2>1, NothingResurrected DEF NoResurrection
    <2>3. RowsOf(Active, rows) \ DurableRows \subseteq doomed
      BY <2>1, OnlyDropsLose DEF RowsOf
    <2>4. ~DropInFlight => RowsOf(Active, rows) \subseteq DurableRows
      BY <2>1, OnlyDropsLose DEF RowsOf
    <2> QED
      BY <2>2, <2>3, <2>4 DEF RestartShowsVisibleRows
  <1> QED
    BY <1>1, ContentsHold, PTL

-----------------------------------------------------------------------------
(***************************************************************************)
(* The table keeps its promise                                             *)
(***************************************************************************)
LEMMA DurableTopsNext ==
    ASSUME Directories'
    PROVE  DurableRows' = RowsOf(TopDirectories', disk')
  <1>1. (DurableRows = RowsOf(TopDirectories, disk))'
    BY DurableTops, PTL
  <1> QED
    BY <1>1

(* What a merge reads would be there after a restart, as the source or as  *)
(* the merge's own renamed result.                                         *)
LEMMA SourcesDurable ==
    ASSUME IInv, Names, Directories, RowsKept, NEW w \in Writers, op[w].kind = "merge"
    PROVE  RowsOf(op[w].sources, rows) \subseteq DurableRows
  <1> SUFFICES ASSUME NEW s \in op[w].sources, NEW b \in rows[s]
               PROVE  b \in DurableRows
    BY DEF RowsOf
  <1>1. s \in Active
    BY DEF Names, SourcesActive
  <1>2. CASE s \in TopDirectories
    BY <1>1, <1>2, ActiveRowsStored, DurableTops DEF RowsOf
  <1>3. CASE s \notin TopDirectories
    <2>1. PICK v \in Writers : /\ s \in op[v].sources
                               /\ \E t \in op[v].precommitted : t \in TopDirectories
      BY <1>1, <1>3, OnTopOrMerged
    <2>2. v = w
      BY <2>1 DEF Names, SourcesActive
    <2>3. PICK t \in op[w].precommitted : t \in TopDirectories
      BY <2>1, <2>2
    <2>4. disk[t] = op[w].rows /\ disk[t] \subseteq DurableRows
      BY <2>3, TopsAre, RenamedRows, DurableTops DEF RowsOf
    <2>5. op[w].rows = RowsOf(op[w].sources, rows)
      BY DEF RowsKept, OperationRows, HasRows
    <2> QED
      BY <2>4, <2>5 DEF RowsOf
  <1> QED
    BY <1>2, <1>3

(* An insert adds one batch.                                               *)
LEMMA commitPartDurable ==
    ASSUME IInv, Names, Directories, Directories', commitPart
    PROVE  DurableRows' = DurableRows \cup {NewRow}
  <1> DEFINE p == NewPart
             b == NewRow
  <1>1. disk' = Put(disk, p, {b}) /\ phase = "up" /\ increment < MaxBlock
    BY DEF commitPart, InsertPart
  <1>2. p \notin DOMAIN disk /\ p \in AnyInfo
        /\ \A x \in DOMAIN disk : isDisjoint(p, x) /\ isDisjoint(x, p)
    BY <1>1, NewPartAbove
  <1>3. DOMAIN disk \subseteq AnyInfo
    BY KnownAreInfos
  <1> HIDE DEF p, b
  <1>4. \A x \in DOMAIN disk : ~contains(p, x) /\ ~contains(x, p)
    BY <1>2, <1>3, ContainsOverlaps
  <1>5. /\ DOMAIN disk' = DOMAIN disk \cup {p} /\ disk'[p] = {b}
        /\ \A q \in DOMAIN disk : disk'[q] = disk[q]
    BY <1>1, <1>2 DEF Put
  <1>6. TopDirectories' = TopDirectories \cup {p}
    BY <1>2, <1>4, <1>5 DEF TopDirectories, Tops
  <1>7. DurableRows' = RowsOf(TopDirectories', disk')
    BY DurableTopsNext
  <1>8. RowsOf(TopDirectories', disk') = RowsOf(TopDirectories, disk) \cup {b}
    BY <1>5, <1>6, TopsAre DEF RowsOf
  <1> QED
    BY <1>7, <1>8, DurableTops DEF b

(* A part that is renamed comes out on top, in place of those it covers.   *)
LEMMA renamePartsTops ==
    ASSUME IInv, Names, Directories, NEW w \in Writers, NEW p \in op[w].need_rename,
           DOMAIN disk' = DOMAIN disk \cup {p}
    PROVE  /\ p \notin DOMAIN disk
           /\ TopDirectories' = {p} \cup {t \in TopDirectories : ~contains(p, t)}
           /\ \A t \in TopDirectories : contains(p, t) => t \in Settled
  <1>1. p \in op[w].precommitted /\ p \in NewParts(w) /\ p \notin DOMAIN disk /\ p \in AnyInfo
    BY KnownAreInfos DEF IInv, TransactionParts, Directories, RenamedLast, NewParts
  <1>2. DOMAIN disk \subseteq AnyInfo
    BY KnownAreInfos
  <1>3. ASSUME NEW q \in DOMAIN disk, NEW v \in Writers, q \in op[v].precommitted
        PROVE  isDisjoint(p, q) /\ isDisjoint(q, p)
    <2>1. q \in NewParts(v) /\ q # p
      BY <1>1, <1>3 DEF NewParts
    <2>2. isDisjoint(p, q)
      BY <1>1, <2>1 DEF Names, OperationsApart, IInv, NewPartsDisjoint
    <2> QED
      BY <1>1, <1>2, <2>2, DisjointSymmetric
  <1>4. ASSUME NEW q \in DOMAIN disk
        PROVE  ~contains(q, p)
    <2> SUFFICES ASSUME contains(q, p)
                 PROVE  FALSE
      OBVIOUS
    <2>1. q \in Settled
      BY <1>1, <1>2, <1>3, ContainsOverlaps DEF Settled
    <2>2. PICK s \in op[w].sources : contains(p, s)
      BY <1>1 DEF Names, NewCoversSources
    <2>3. s \in Active /\ s \in AnyInfo /\ s \in DOMAIN disk
      BY KnownAreInfos DEF Names, SourcesActive
    <2>4. contains(q, s)
      BY <1>1, <1>2, <2>2, <2>3, ContainsTransitive
    <2>5. q = s
      BY <2>1, <2>3, <2>4 DEF Names, Topmost
    <2> QED
      BY <1>1, <2>2, <2>3, <2>5, ContainsAntisymmetric
  <1>5. TopDirectories' = {p} \cup {t \in TopDirectories : ~contains(p, t)}
    BY <1>1, <1>4 DEF TopDirectories, Tops
  <1>6. \A t \in TopDirectories : contains(p, t) => t \in Settled
    BY <1>1, <1>2, <1>3, TopsAre, ContainsOverlaps DEF Settled
  <1> QED
    BY <1>1, <1>5, <1>6

(* The rename of a merged part changes nothing; that of an empty part of a *)
(* DROP takes rows away that the DROP may delete.                          *)
LEMMA renamePartsDurable ==
    ASSUME IInv, Names, Directories, RowsKept, Covered, Directories', NEW w \in Writers, renameParts(w)
    PROVE  DurableRows' \subseteq DurableRows /\ DurableRows \ DurableRows' \subseteq doomed
  <1>1. PICK p \in op[w].need_rename : disk' = Put(disk, p, op[w].rows)
    BY DEF renameParts
  <1>2. /\ DOMAIN disk' = DOMAIN disk \cup {p} /\ disk'[p] = op[w].rows
        /\ \A q \in DOMAIN disk : q # p => disk'[q] = disk[q]
    BY <1>1 DEF Put
  <1>3. /\ p \notin DOMAIN disk
        /\ TopDirectories' = {p} \cup {t \in TopDirectories : ~contains(p, t)}
        /\ \A t \in TopDirectories : contains(p, t) => t \in Settled
    BY <1>2, renamePartsTops
  <1>4. p \in NewParts(w) /\ phase = "up"
    BY DEF renameParts, IInv, TransactionParts, NewParts
  <1>5. DurableRows' = op[w].rows \cup RowsOf({t \in TopDirectories : ~contains(p, t)}, disk)
    <2>1. DurableRows' = RowsOf(TopDirectories', disk')
      BY DurableTopsNext
    <2>2. \A t \in TopDirectories : t \in DOMAIN disk /\ t # p
      BY <1>3, TopsAre
    <2> QED
      BY <1>2, <1>3, <2>1, <2>2 DEF RowsOf
  <1>6. op[w].kind = "merge" \/ op[w].kind = "drop"
    BY <1>4, BusyWriter
  <1>7. op[w].rows \subseteq DurableRows
    BY <1>6, SourcesDurable DEF RowsKept, OperationRows, HasRows
  <1>8. ASSUME NEW t \in TopDirectories, contains(p, t)
        PROVE  disk[t] \subseteq RowsOf(op[w].sources, rows)
    <2>1. t \in Active \/ disk[t] = {}
      BY <1>3, <1>4, <1>8, SettledTop
    <2>2. CASE t \in Active
      <3>1. t \in AnyInfo /\ p \in AnyInfo
        BY <1>4, <2>2, KnownAreInfos
      <3>2. ~isDisjoint(p, t)
        BY <1>8, <3>1, ContainsOverlaps
      <3>3. t \in op[w].sources
        BY <1>4, <2>2, <3>2 DEF Names, NewCoversSources
      <3> QED
        BY <2>2, <3>3, ActiveRowsStored DEF RowsOf
    <2> QED
      BY <2>1, <2>2
  <1>9. DurableRows \ DurableRows' \subseteq RowsOf(op[w].sources, rows) \ op[w].rows
    BY <1>5, <1>8, DurableTops DEF RowsOf
  <1>10. RowsOf(op[w].sources, rows) \ op[w].rows \subseteq doomed
    BY <1>6 DEF RowsKept, OperationRows, HasRows
  <1> QED
    BY <1>5, <1>7, <1>9, <1>10, DurableTops DEF RowsOf

(* The removal of an old part uncovers no rows and takes none away.        *)
LEMMA removeDurable ==
    ASSUME IInv, Names, Directories, Covered, Directories', NEW c \in Cleaners,
           removePart(c) \/ removePartThrows(c)
    PROVE  DurableRows' = DurableRows
  <1>1. phase = "up" /\ (UNCHANGED disk \/ \E p \in cleaner[c].todo : disk' = Without(disk, {p}))
    BY removeEffect
  <1>2. DurableRows' = RowsOf(TopDirectories', disk')
    BY DurableTopsNext
  <1>3. CASE UNCHANGED disk
    BY <1>2, <1>3, DurableTops DEF TopDirectories
  <1>4. CASE \E p \in cleaner[c].todo : disk' = Without(disk, {p})
    <2>1. PICK p \in cleaner[c].todo : disk' = Without(disk, {p})
      BY <1>4
    <2>2. /\ DOMAIN disk' = DOMAIN disk \ {p}
          /\ \A q \in DOMAIN disk' : disk'[q] = disk[q]
      BY <2>1 DEF Without
    <2>3. TopDirectories' = TopDirectories \ {p}
      <3>1. ASSUME NEW q \in DOMAIN disk', \A y \in DOMAIN disk' : contains(y, q) => y = q
            PROVE  \A y \in DOMAIN disk : contains(y, q) => y = q
        <4> SUFFICES ASSUME p \in DOMAIN disk, contains(p, q), p # q
                     PROVE  FALSE
          BY <2>2, <3>1
        <4>1. PICK y \in DOMAIN disk : contains(y, q) /\ y # p /\ y # q
          BY <2>2, NothingUncovered
        <4> QED
          BY <2>2, <3>1, <4>1
      <3> QED
        BY <2>2, <3>1 DEF TopDirectories, Tops
    <2>4. p \in TopDirectories => disk[p] = {}
      <3>1. p \in Remembered /\ p \notin Active
        BY GrabbedRemembered DEF Grabbed
      <3>2. p \in DOMAIN disk => p \in Settled
        BY <3>1 DEF Remembered, Settled
      <3> QED
        BY <1>1, <3>1, <3>2, SettledTop, TopsAre
    <2>5. TopDirectories \ {p} \subseteq DOMAIN disk'
      BY <2>2, TopsAre
    <2>6. RowsOf(TopDirectories', disk') = RowsOf(TopDirectories \ {p}, disk)
      BY <2>2, <2>3, <2>5 DEF RowsOf
    <2>7. RowsOf(TopDirectories \ {p}, disk) = RowsOf(TopDirectories, disk)
      BY <2>4 DEF RowsOf
    <2> QED
      BY <1>2, <2>6, <2>7, DurableTops
  <1> QED
    BY <1>1, <1>3, <1>4

(* Every other step leaves the directories alone.                          *)
LEMMA OthersDurable ==
    ASSUME Orderly, IInv, Names, Directories, Memory, [Next]_vars, ~commitPart,
           \A w \in Writers : ~renameParts(w) /\ ~coverPartsWithEmptyParts(w),
           \A c \in Cleaners : ~removePart(c) /\ ~removePartThrows(c)
    PROVE  UNCHANGED <<disk, marked, inserted, doomed>>
  <1> USE DEF memory, stored, history
  <1>1. ~commitPartThrows
    BY OrderlyEarly, NoDirectoryLeft DEF IInv
  <1>2. CASE \E w \in Writers : WriterStep(w)
    <2>1. PICK w \in Writers : WriterStep(w)
      BY <1>2
    <2>2. ~Rollback(w)
      BY NoRollback
    <2> QED
      BY <2>1, <2>2 DEF WriterStep, Rollback, selectPartsToMerge, cancel, renameTempPartAndReplace, commit
  <1>3. CASE \E r \in Readers : ReaderStep(r)
    BY <1>3 DEF ReaderStep, getDataPartsVectorForInternalUsage, releaseParts
  <1>4. CASE \E c \in Cleaners : CleanerStep(c)
    BY <1>4 DEF CleanerStep, grabOldParts, rollbackDeletingParts, removePartsFinally
  <1>5. CASE clearEmptyParts \/ Crash \/ loadDataParts \/ loadOutdatedDataParts
    BY <1>5 DEF clearEmptyParts, Crash, loadDataParts, loadOutdatedDataParts
  <1>6. CASE UNCHANGED vars
    BY <1>6 DEF vars
  <1> QED
    BY <1>1, <1>2, <1>3, <1>4, <1>5, <1>6 DEF Next

LEMMA InitTable == Init => Table!TableInit
  <1> SUFFICES ASSUME Init
               PROVE  Table!TableInit
    OBVIOUS
  <1>1. disk = <<>> /\ inserted = {} /\ doomed = {}
    BY DEF Init
  <1>2. DurableRows = {}
    BY <1>1 DEF DurableRows, RowsOf, Tops
  <1> QED
    BY <1>1, <1>2 DEF Table!TableInit

LEMMA NextTable ==
    Orderly /\ ContentsInv /\ [Next]_vars => [Table!TableNext]_(Table!tableVars)
  <1> SUFFICES ASSUME Orderly, ContentsInv, [Next]_vars
               PROVE  Table!TableNext \/ UNCHANGED <<DurableRows, inserted, doomed>>
    BY DEF Table!tableVars
  <1>1. IInv /\ Names /\ Directories /\ Memory /\ RowsKept /\ Covered /\ InsertedCounted
    BY DEF ContentsInv, NamesInv
  <1>2. Directories'
    BY NextContents DEF ContentsInv, NamesInv
  <1>3. CASE commitPart
    <2> DEFINE b == NewRow
    <2>1. DurableRows' = DurableRows \cup {b}
      BY <1>1, <1>2, <1>3, commitPartDurable
    <2>2. b \in Rows /\ inserted' = inserted \cup {b} /\ UNCHANGED doomed
      BY <1>3 DEF commitPart
    <2>3. b \notin inserted
      BY <1>1, NextBatch
    <2> HIDE DEF b
    <2>4. Table!Insert(b)
      BY <2>1, <2>2, <2>3 DEF Table!Insert
    <2> QED
      BY <2>2, <2>4 DEF Table!TableNext
  <1>4. CASE \E w \in Writers : coverPartsWithEmptyParts(w)
    <2>1. PICK w \in Writers : coverPartsWithEmptyParts(w)
      BY <1>4
    <2>2. PICK S \in SUBSET Active : doomed' = doomed \cup RowsOf(S, rows)
      BY <2>1 DEF coverPartsWithEmptyParts
    <2>3. UNCHANGED <<disk, marked, inserted>> /\ ~DropInFlight
      BY <2>1 DEF coverPartsWithEmptyParts, stored, DropInFlight
    <2>4. RowsOf(S, rows) \in SUBSET DurableRows
      BY <1>1, <2>3, OnlyDropsLose DEF RowsOf
    <2>5. UNCHANGED DurableRows
      BY <2>3 DEF DurableRows
    <2> DEFINE R == RowsOf(S, rows)
    <2>6. R \in SUBSET DurableRows /\ doomed' = doomed \cup R
      BY <2>2, <2>4
    <2> HIDE DEF R
    <2>7. Table!AskDrop(R)
      BY <2>3, <2>5, <2>6 DEF Table!AskDrop
    <2> QED
      BY <2>6, <2>7 DEF Table!TableNext
  <1>5. CASE \E w \in Writers : renameParts(w)
    <2>1. PICK w \in Writers : renameParts(w)
      BY <1>5
    <2> DEFINE L == DurableRows \ DurableRows'
    <2>2. DurableRows' \subseteq DurableRows /\ L \subseteq doomed
      BY <1>1, <1>2, <2>1, renamePartsDurable
    <2>3. UNCHANGED <<inserted, doomed>>
      BY <2>1 DEF renameParts, history
    <2>4. L \in SUBSET (DurableRows \cap doomed) /\ DurableRows' = DurableRows \ L
      BY <2>2
    <2> HIDE DEF L
    <2>5. Table!Drop(L)
      BY <2>3, <2>4 DEF Table!Drop
    <2> QED
      BY <2>4, <2>5 DEF Table!TableNext
  <1>6. CASE \E c \in Cleaners : removePart(c) \/ removePartThrows(c)
    BY <1>1, <1>2, <1>6, removeDurable, removeEffect
  <1>7. CASE /\ ~commitPart
             /\ \A w \in Writers : ~renameParts(w) /\ ~coverPartsWithEmptyParts(w)
             /\ \A c \in Cleaners : ~removePart(c) /\ ~removePartThrows(c)
    <2>1. UNCHANGED <<disk, marked, inserted, doomed>>
      BY <1>1, <1>7, OthersDurable
    <2> QED
      BY <2>1 DEF DurableRows
  <1> QED
    BY <1>3, <1>4, <1>5, <1>6, <1>7

(* While adding parts does not fail and one thread at a time removes old   *)
(* parts, the directories hold what TableContents promises: a batch enters *)
(* with the one step that renames its directory and publishes it, merges,  *)
(* removals, crashes and restarts change nothing, and a DROP deletes only  *)
(* what it was asked to.                                                   *)
THEOREM TableImplemented ==
    ASSUME Orderly
    PROVE  Spec => ImplementsTable
  <1>1. ContentsInv /\ [Next]_vars => [Table!TableNext]_(Table!tableVars)
    BY NextTable
  <1> QED
    BY <1>1, InitTable, ContentsHold, PTL DEF Spec, ImplementsTable, Table!TableSpec
=============================================================================
