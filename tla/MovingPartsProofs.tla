-------------------------- MODULE MovingPartsProofs --------------------------
(***************************************************************************)
(* For any number of disks, movers and queries, any parts, batches and     *)
(* crashes: what can be read has its directory, no directory is forgotten, *)
(* Active parts never overlap, and a restart loses no part (and brings no  *)
(* old one back, if merges leave out gaps with later mutations).           *)
(*                                                                         *)
(* The argument is about the objects in the working set, those in the      *)
(* state DeleteOnDestroy and those still to be loaded: they never meet     *)
(* (Placed), nobody points to any other (HeldStays), and a copy that was   *)
(* renamed and is not swapped in yet belongs to none of them (Renaming).   *)
(* They never meet because a name is not used again: the result of a       *)
(* merge, a mutation or a drop contains its sources, which stay Active     *)
(* (Results), no directory has the name of a part that contains an Active  *)
(* one (NothingAbove), and the numbers of new parts are above those of all *)
(* directories (Numbers).  A walk over neighbours finds all that a result  *)
(* covers because Active parts do not overlap (ActiveDisjoint).            *)
(***************************************************************************)
EXTENDS MovingParts, PartInfoProofs

Shown == ObjectsOf(DOMAIN working)
Going == ObjectsOf(In("Deleting"))

(***************************************************************************)
(* The inductive invariant                                                 *)
(***************************************************************************)

(* An object is in the working set, or is to be destroyed, or is to be     *)
(* loaded, and has its directory.                                          *)
Placed ==
    /\ Shown \cup doomed \cup unloaded \subseteq dirs
    /\ Shown \cap (doomed \cup unloaded) = {}
    /\ doomed \cap unloaded = {}

(* Active parts do not overlap.                                            *)
ActiveDisjoint == PairwiseDisjoint(Active)

(* What a thread points to is not removed.                                 *)
HeldStays ==
    /\ Held \subseteq Shown \cup doomed
    /\ Held \cap Going = {}

(* A mover copies one part at a time.                                      *)
OneCopy == \A m \in Movers : mover[m].stage = "cloned" => \E mv \in Moves : mover[m].current = {mv}

(* A mover in its section of the lock is alone there, its part stays       *)
(* Active, and the directory that it renamed belongs to nothing else.      *)
Renaming ==
    /\ \A m \in Movers : mover[m].stage = "renamed" =>
          \E mv \in mover[m].current :
             /\ mover[m].current = {mv}
             /\ mv.part \in Active /\ <<mv.part, mv.to>> \in dirs
             /\ <<mv.part, mv.to>> \notin Shown \cup doomed \cup unloaded
    /\ \A m, n \in Movers : mover[m].stage = "renamed" /\ mover[n].stage = "renamed" => m = n

(* The result of a task contains its sources, which stay Active.           *)
Results ==
    /\ task.kind = "none" => task = NoTask
    /\ task.kind # "none" =>
          \E o \in Objects :
             /\ task.result = {o} /\ task.sources # {}
             /\ o[1].max <= increment /\ o[1].mutation <= increment
             /\ \A s \in task.sources : s[1] \in Active /\ contains(o[1], s[1]) /\ s[1] # o[1]
             /\ task.stage = "renamed" =>
                   /\ task.kind \in {"merge", "drop"}
                   /\ o[1] \in DOMAIN working /\ working[o[1]] = [disk |-> o[2], state |-> "PreActive"]
                   /\ \A a \in Active : isDisjoint(a, o[1]) \/ contains(o[1], a)

(* No directory has the name of a part that contains an Active one, but    *)
(* for a result about to be committed.                                     *)
NothingAbove ==
    \A a \in Active : \A q \in Parts(dirs) :
        contains(q, a) => q = a \/ (task.stage = "renamed" /\ q \in Parts(task.result))

Numbers == \A o \in dirs : o[1].max <= increment /\ o[1].mutation <= increment

Down == phase = "down" => /\ working = <<>> /\ doomed = {} /\ unloaded = {} /\ task = NoTask
                          /\ mover = [m \in Movers |-> Idle] /\ query = [r \in Queries |-> {}]

IInv ==
    /\ TypeOK /\ Down /\ OneCopy /\ Renaming /\ HeldStays
    /\ phase = "up" => Placed /\ ActiveDisjoint /\ DirectoriesKnown /\ Results /\ NothingAbove /\ Numbers

(***************************************************************************)
(* The working set                                                         *)
(***************************************************************************)
LEMMA PartInfosAreInfos == PartInfos \subseteq AnyInfo
  BY BoundsAssumption DEF PartInfos, AnyInfo

LEMMA WorkingTypes ==
    ASSUME TypeOK
    PROVE  /\ \A p \in DOMAIN working : /\ p \in PartInfos /\ working[p].disk \in Disks
                                        /\ working[p].state \in States /\ Object(p) \in Objects
           /\ Active \subseteq DOMAIN working /\ Active \subseteq PartInfos
           /\ Shown \subseteq Objects /\ Going \subseteq Shown
           /\ ObjectsOf(Active) \subseteq Shown /\ ObjectsOf(Active) \cap Going = {}
           /\ \A o \in Shown : o[1] \in DOMAIN working /\ o = Object(o[1])
  <1>1. \A p \in DOMAIN working : p \in PartInfos /\ working[p] \in [disk : Disks, state : States]
    BY DEF TypeOK
  <1>2. \A p \in DOMAIN working : Object(p) \in Objects /\ Object(p)[1] = p
    BY <1>1 DEF Object, Objects
  <1>3. Active \subseteq DOMAIN working /\ In("Deleting") \subseteq DOMAIN working /\ Active \cap In("Deleting") = {}
    BY DEF Active, In
  <1>4. \A S \in SUBSET DOMAIN working : \A o \in ObjectsOf(S) : o[1] \in S /\ o = Object(o[1])
    BY <1>2 DEF ObjectsOf
  <1>5. Shown \subseteq Objects /\ Going \subseteq Shown /\ ObjectsOf(Active) \subseteq Shown
    BY <1>2, <1>3 DEF Shown, Going, ObjectsOf
  <1>6. ObjectsOf(Active) \cap Going = {}
    BY <1>3, <1>4 DEF Going
  <1>7. \A o \in Shown : o[1] \in DOMAIN working /\ o = Object(o[1])
    BY <1>4 DEF Shown
  <1> QED
    BY <1>1, <1>2, <1>3, <1>5, <1>6, <1>7

(* A part joins the working set, or takes another object or state.         *)
LEMMA PutEffect ==
    ASSUME TypeOK, NEW p \in PartInfos, NEW d \in Disks, NEW s \in States,
           working' = Put(working, p, [disk |-> d, state |-> s])
    PROVE  /\ DOMAIN working' = DOMAIN working \cup {p}
           /\ working'[p] = [disk |-> d, state |-> s]
           /\ \A q \in DOMAIN working : q # p => working'[q] = working[q]
           /\ DOMAIN working' \subseteq PartInfos
           /\ working' \in [DOMAIN working' -> [disk : Disks, state : States]]
  BY DEF Put, TypeOK

(* Parts change their state only.                                          *)
LEMMA ModifyEffect ==
    ASSUME TypeOK, NEW S, NEW s \in States,
           working' = modifyPartState(working, S, s)
    PROVE  /\ DOMAIN working' = DOMAIN working
           /\ \A q \in DOMAIN working : q \notin S => working'[q] = working[q]
           /\ \A q \in DOMAIN working \cap S : working'[q].state = s /\ working'[q].disk = working[q].disk
           /\ working' \in [DOMAIN working' -> [disk : Disks, state : States]]
  <1>1. \A q \in DOMAIN working : working[q] \in [disk : Disks, state : States]
    BY DEF TypeOK
  <1>2. ASSUME NEW q \in DOMAIN working, NEW e, e = [working[q] EXCEPT !.state = s]
        PROVE  e \in [disk : Disks, state : States] /\ e.state = s /\ e.disk = working[q].disk
    BY <1>1, <1>2
  <1>3. \A q \in DOMAIN working : working'[q] = IF q \in S THEN [working[q] EXCEPT !.state = s] ELSE working[q]
    BY DEF modifyPartState
  <1>4. DOMAIN working' = DOMAIN working /\ working' = [q \in DOMAIN working' |-> working'[q]]
    BY DEF modifyPartState
  <1>5. \A q \in DOMAIN working : working'[q] \in [disk : Disks, state : States]
    BY <1>1, <1>2, <1>3
  <1> QED
    BY <1>2, <1>3, <1>4, <1>5

LEMMA CommittedEffect ==
    ASSUME TypeOK, NEW o \in Objects, working' = Committed(working, o)
    PROVE  /\ DOMAIN working' = DOMAIN working \cup {o[1]}
           /\ working'[o[1]] = [disk |-> o[2], state |-> "Active"]
           /\ \A q \in DOMAIN working : q # o[1] =>
                 /\ working'[q].disk = working[q].disk
                 /\ \/ working'[q].state = working[q].state
                    \/ working[q].state = "Active" /\ working'[q].state = "Outdated"
                 /\ IF q \in CoveredParts(o[1], Active) THEN working'[q].state = "Outdated"
                                                       ELSE working'[q].state = working[q].state
           /\ DOMAIN working' \subseteq PartInfos
           /\ working' \in [DOMAIN working' -> [disk : Disks, state : States]]
  <1> DEFINE C == CoveredParts(o[1], Active)
             w == modifyPartState(working, C, "Outdated")
  <1>1. o[1] \in PartInfos /\ o[2] \in Disks
    BY DEF Objects
  <1>2. C \subseteq Active
    <2>1. Active \in SUBSET AnyInfo /\ o[1] \in AnyInfo
      BY <1>1, WorkingTypes, PartInfosAreInfos
    <2> QED
      BY <2>1, CoveredAreContained
  <1>3. \A q \in DOMAIN working : working[q] \in [disk : Disks, state : States]
    BY DEF TypeOK
  <1>4. /\ DOMAIN w = DOMAIN working
        /\ \A q \in DOMAIN working : w[q] = IF q \in C THEN [working[q] EXCEPT !.state = "Outdated"] ELSE working[q]
    BY DEF modifyPartState
  <1>5. ASSUME NEW q \in DOMAIN working, NEW e, e = [working[q] EXCEPT !.state = "Outdated"]
        PROVE  e \in [disk : Disks, state : States] /\ e.state = "Outdated" /\ e.disk = working[q].disk
    BY <1>3, <1>5 DEF States
  <1>6. \A q \in DOMAIN working : /\ w[q] \in [disk : Disks, state : States]
                                  /\ w[q].disk = working[q].disk
                                  /\ q \in C => w[q].state = "Outdated"
                                  /\ q \notin C => w[q].state = working[q].state
    BY <1>3, <1>4, <1>5
  <1>7. \A q \in C : working[q].state = "Active"
    BY <1>2 DEF Active, In
  <1>8. working' = Put(w, o[1], [disk |-> o[2], state |-> "Active"])
    BY DEF Committed
  <1> HIDE DEF w, C
  <1>9. /\ DOMAIN working' = DOMAIN w \cup {o[1]}
        /\ working'[o[1]] = [disk |-> o[2], state |-> "Active"]
        /\ \A q \in DOMAIN w : q # o[1] => working'[q] = w[q]
        /\ working' = [q \in DOMAIN working' |-> working'[q]]
    BY <1>8 DEF Put
  <1>10. [disk |-> o[2], state |-> "Active"] \in [disk : Disks, state : States]
    BY <1>1 DEF States
  <1>11. DOMAIN working' \subseteq PartInfos
    BY <1>1, <1>4, <1>9, WorkingTypes
  <1>12. \A q \in DOMAIN working' : working'[q] \in [disk : Disks, state : States]
    BY <1>4, <1>6, <1>9, <1>10
  <1>13. /\ DOMAIN working' = DOMAIN working \cup {o[1]}
         /\ working'[o[1]] = [disk |-> o[2], state |-> "Active"]
         /\ \A q \in DOMAIN working : q # o[1] =>
               /\ working'[q].disk = working[q].disk
               /\ \/ working'[q].state = working[q].state
                  \/ working[q].state = "Active" /\ working'[q].state = "Outdated"
               /\ IF q \in C THEN working'[q].state = "Outdated" ELSE working'[q].state = working[q].state
    BY <1>4, <1>6, <1>7, <1>9
  <1>14. DOMAIN working' \subseteq PartInfos /\ working' \in [DOMAIN working' -> [disk : Disks, state : States]]
    BY <1>9, <1>11, <1>12
  <1> QED
    BY <1>13, <1>14 DEF C

(***************************************************************************)
(* What a step does to the objects in the working set                      *)
(***************************************************************************)
LEMMA SameObjects ==
    ASSUME DOMAIN working' = DOMAIN working,
           \A q \in DOMAIN working : working'[q].disk = working[q].disk
    PROVE  Shown' = Shown
  BY DEF Shown, ObjectsOf, Object

LEMMA SameGoing ==
    ASSUME DOMAIN working \subseteq DOMAIN working',
           \A q \in DOMAIN working' : working'[q].state = "Deleting" =>
               q \in DOMAIN working /\ working[q].state = "Deleting",
           \A q \in DOMAIN working : working[q].state = "Deleting" =>
               working'[q].state = "Deleting" /\ working'[q].disk = working[q].disk
    PROVE  Going' = Going
  <1>1. In("Deleting")' = In("Deleting")
    BY DEF In
  <1>2. \A q \in In("Deleting") : Object(q)' = Object(q)
    BY DEF In, Object
  <1> QED
    BY <1>1, <1>2 DEF Going, ObjectsOf

LEMMA OneMoreObject ==
    ASSUME NEW o, o[1] \notin DOMAIN working,
           DOMAIN working' = DOMAIN working \cup {o[1]},
           working'[o[1]].disk = o[2], <<o[1], o[2]>> = o,
           \A q \in DOMAIN working : working'[q].disk = working[q].disk
    PROVE  Shown' = Shown \cup {o}
  <1>1. Object(o[1])' = o
    BY DEF Object
  <1>2. \A q \in DOMAIN working : Object(q)' = Object(q)
    BY DEF Object
  <1> QED
    BY <1>1, <1>2 DEF Shown, ObjectsOf

(* The name of a result is new.                                            *)
LEMMA ResultIsNew ==
    ASSUME IInv, phase = "up", task.kind # "none", task.stage = "run", NEW o \in task.result
    PROVE  /\ o \in Objects /\ o = <<o[1], o[2]>> /\ o[1] \in PartInfos /\ o[2] \in Disks
           /\ task.result = {o}
           /\ o[1] \notin Parts(dirs) /\ o \notin dirs /\ o[1] \notin DOMAIN working
  <1>1. TypeOK /\ Placed /\ Results /\ NothingAbove
    BY DEF IInv
  <1>2. o \in Objects /\ task.result = {o} /\ task.sources # {}
        /\ \A s \in task.sources : s[1] \in Active /\ contains(o[1], s[1]) /\ s[1] # o[1]
    BY <1>1 DEF Results
  <1>3. o[1] \notin Parts(dirs)
    BY <1>1, <1>2 DEF NothingAbove
  <1>4. o \notin dirs
    BY <1>3 DEF Parts
  <1>5. o[1] \notin DOMAIN working
    <2>1. ASSUME o[1] \in DOMAIN working
          PROVE  FALSE
      <3>1. Object(o[1]) \in dirs
        BY <1>1, <2>1 DEF Placed, Shown, ObjectsOf
      <3>2. o[1] \in Parts(dirs)
        BY <3>1 DEF Parts, Object
      <3> QED
        BY <1>3, <3>2
    <2> QED
      BY <2>1
  <1> QED
    BY <1>2, <1>3, <1>4, <1>5 DEF Objects

(* The name of an inserted part is new as well.                            *)
LEMMA InsertedIsNew ==
    ASSUME TypeOK, Numbers, Placed, increment < MaxBlock, NEW p,
           p = [min |-> increment + 1, max |-> increment + 1, level |-> 0, mutation |-> 0]
    PROVE  /\ p \in PartInfos /\ p \notin Parts(dirs) /\ p \notin DOMAIN working
  <1>1. increment \in Nat /\ increment + 1 \in 1..MaxBlock /\ MaxLevel \in Nat /\ MaxBlock \in Nat
    BY BoundsAssumption DEF TypeOK
  <1>2. p \in PartInfos
    BY <1>1 DEF PartInfos
  <1>3. p.max = increment + 1
    OBVIOUS
  <1>4. p \notin Parts(dirs)
    <2>1. \A o \in dirs : o[1].max <= increment
      BY DEF Numbers
    <2> QED
      BY <1>1, <1>3, <2>1 DEF Parts
  <1>5. p \notin DOMAIN working
    <2>1. ASSUME p \in DOMAIN working
          PROVE  FALSE
      <3>1. Object(p) \in dirs
        BY <2>1 DEF Placed, Shown, ObjectsOf
      <3>2. p \in Parts(dirs)
        BY <3>1 DEF Parts, Object
      <3> QED
        BY <1>4, <3>2
    <2> QED
      BY <2>1
  <1> QED
    BY <1>2, <1>4, <1>5

-----------------------------------------------------------------------------
(* Each kind of change.                                                    *)
Adds(o) ==
    /\ o[1] \notin Parts(dirs) /\ o \notin dirs
    /\ Shown' = Shown \cup {o} /\ Going' = Going
    /\ dirs' = dirs \cup {o}
    /\ UNCHANGED <<doomed, unloaded>>

LEMMA commitPartEffect ==
    ASSUME IInv, phase = "up", commitPart
    PROVE  \E o \in Objects : /\ Adds(o)
                              /\ o[1].max = increment' /\ o[1].mutation = 0
                              /\ DOMAIN working' = DOMAIN working \cup {o[1]}
                              /\ \A q \in DOMAIN working : working'[q] = working[q]
  <1>1. TypeOK /\ Placed /\ Numbers
    BY DEF IInv
  <1>2. increment < MaxBlock /\ increment' = increment + 1 /\ UNCHANGED <<doomed, unloaded>>
    BY DEF commitPart
  <1>3. PICK d \in Disks :
          LET p == [min |-> increment', max |-> increment', level |-> 0, mutation |-> 0] IN
          /\ working' = Put(working, p, [disk |-> d, state |-> "Active"])
          /\ dirs' = dirs \cup {<<p, d>>}
    BY DEF commitPart
  <1> DEFINE p == [min |-> increment', max |-> increment', level |-> 0, mutation |-> 0]
             o == <<p, d>>
  <1>4. p \in PartInfos /\ p \notin Parts(dirs) /\ p \notin DOMAIN working
    BY <1>1, <1>2, InsertedIsNew
  <1>5. p.max = increment' /\ p.mutation = 0
    OBVIOUS
  <1>6. working' = Put(working, p, [disk |-> d, state |-> "Active"]) /\ dirs' = dirs \cup {o}
    BY <1>3
  <1>7. o \in Objects /\ o[1] = p /\ o[2] = d /\ o = <<o[1], o[2]>>
    BY <1>4 DEF Objects
  <1> HIDE DEF p, o
  <1>8. /\ DOMAIN working' = DOMAIN working \cup {p}
        /\ working'[p] = [disk |-> d, state |-> "Active"]
        /\ \A q \in DOMAIN working : working'[q] = working[q]
    BY <1>1, <1>4, <1>6, PutEffect DEF States
  <1>9. Shown' = Shown \cup {o}
    BY <1>4, <1>7, <1>8, OneMoreObject
  <1>10. Going' = Going
    BY <1>4, <1>8, SameGoing
  <1>11. o \notin dirs
    BY <1>4, <1>7 DEF Parts
  <1> QED
    BY <1>2, <1>4, <1>5, <1>6, <1>7, <1>8, <1>9, <1>10, <1>11 DEF Adds

LEMMA renameMergedEffect ==
    ASSUME IInv, phase = "up", renameMergedTemporaryPart
    PROVE  /\ task' = [task EXCEPT !.stage = "renamed"] /\ task.kind \in {"merge", "drop"} /\ task.stage = "run"
           /\ \E o \in task.result :
                 /\ Adds(o)
                 /\ DOMAIN working' = DOMAIN working \cup {o[1]}
                 /\ working'[o[1]] = [disk |-> o[2], state |-> "PreActive"]
                 /\ \A q \in DOMAIN working : working'[q] = working[q]
  <1>1. TypeOK
    BY DEF IInv
  <1>2. /\ task' = [task EXCEPT !.stage = "renamed"] /\ task.kind \in {"merge", "drop"} /\ task.stage = "run"
        /\ UNCHANGED <<doomed, unloaded>>
    BY DEF renameMergedTemporaryPart
  <1>3. PICK o \in task.result :
          /\ working' = Put(working, o[1], [disk |-> o[2], state |-> "PreActive"])
          /\ dirs' = dirs \cup {o}
    BY DEF renameMergedTemporaryPart
  <1>4. /\ o \in Objects /\ o = <<o[1], o[2]>> /\ o[1] \in PartInfos /\ o[2] \in Disks
        /\ o[1] \notin Parts(dirs) /\ o \notin dirs /\ o[1] \notin DOMAIN working
    BY <1>2, ResultIsNew
  <1>5. /\ DOMAIN working' = DOMAIN working \cup {o[1]}
        /\ working'[o[1]] = [disk |-> o[2], state |-> "PreActive"]
        /\ \A q \in DOMAIN working : working'[q] = working[q]
    BY <1>1, <1>3, <1>4, PutEffect DEF States
  <1>6. Shown' = Shown \cup {o}
    BY <1>4, <1>5, OneMoreObject
  <1>7. Going' = Going
    BY <1>4, <1>5, SameGoing
  <1> QED
    BY <1>2, <1>3, <1>4, <1>5, <1>6, <1>7 DEF Adds

LEMMA commitMutationEffect ==
    ASSUME IInv, phase = "up", commitMutation
    PROVE  /\ task.kind = "mutate" /\ task' = NoTask
           /\ task.stage = "run" => \E o \in task.result :
                 /\ Adds(o)
                 /\ DOMAIN working' = DOMAIN working \cup {o[1]}
                 /\ \A q \in DOMAIN working : working'[q].state = "Active" => working[q].state = "Active"
  <1>1. TypeOK
    BY DEF IInv
  <1>2. task.kind = "mutate" /\ task' = NoTask /\ UNCHANGED <<doomed, unloaded>>
    BY DEF commitMutation
  <1>3. PICK o \in task.result : working' = Committed(working, o) /\ dirs' = dirs \cup {o}
    BY DEF commitMutation
  <1>4. SUFFICES ASSUME task.stage = "run"
                 PROVE  /\ Adds(o)
                        /\ DOMAIN working' = DOMAIN working \cup {o[1]}
                        /\ \A q \in DOMAIN working : working'[q].state = "Active" => working[q].state = "Active"
    BY <1>2
  <1>5. /\ o \in Objects /\ o = <<o[1], o[2]>>
        /\ o[1] \notin Parts(dirs) /\ o \notin dirs /\ o[1] \notin DOMAIN working
    BY <1>2, <1>4, ResultIsNew
  <1>6. /\ DOMAIN working' = DOMAIN working \cup {o[1]}
        /\ working'[o[1]] = [disk |-> o[2], state |-> "Active"]
        /\ \A q \in DOMAIN working :
              /\ working'[q].disk = working[q].disk
              /\ \/ working'[q].state = working[q].state
                 \/ working[q].state = "Active" /\ working'[q].state = "Outdated"
    BY <1>1, <1>3, <1>5, CommittedEffect
  <1>7. Shown' = Shown \cup {o}
    BY <1>5, <1>6, OneMoreObject
  <1>8. Going' = Going
    BY <1>5, <1>6, SameGoing
  <1> QED
    BY <1>2, <1>3, <1>5, <1>6, <1>7, <1>8 DEF Adds

(***************************************************************************)
(* Movers                                                                  *)
(***************************************************************************)
LEMMA MoverUpdate ==
    ASSUME TypeOK, NEW m \in Movers, NEW e \in MoverStates, mover' = [mover EXCEPT ![m] = e]
    PROVE  /\ mover' \in [Movers -> MoverStates] /\ mover'[m] = e
           /\ \A n \in Movers : n # m => mover'[n] = mover[n]
  BY DEF TypeOK

LEMMA IdleType == Idle \in MoverStates /\ Idle.tagged = {} /\ Idle.stage = "ready" /\ Idle.current = {}
  BY DEF Idle, MoverStates

LEMMA NextMoveType ==
    ASSUME NEW b \in MoverStates, NEW mv
    PROVE  /\ NextMove(mv, b) \in MoverStates
           /\ NextMove(mv, b).tagged \subseteq b.tagged /\ NextMove(mv, b).stage = "ready"
           /\ NextMove(mv, b).current = {}
  <1>1. ASSUME NEW e, e = [b EXCEPT !.stage = "ready", !.todo = @ \ {mv}, !.current = {}]
        PROVE  e \in MoverStates /\ e.tagged = b.tagged /\ e.stage = "ready" /\ e.current = {}
    BY <1>1 DEF MoverStates
  <1> QED
    BY <1>1, IdleType DEF NextMove

(* What a mover does to its own state and leaves of the others'.           *)
LEMMA MoverEffect ==
    ASSUME TypeOK, NEW m \in Movers, MoverStep(m)
    PROVE  /\ mover' \in [Movers -> MoverStates]
           /\ \A n \in Movers : n # m => mover'[n] = mover[n]
           /\ \/ mover'[m].tagged \subseteq mover[m].tagged
              \/ \A mv \in mover'[m].tagged : <<mv.part, mv.from>> \in ObjectsOf(Active)
           /\ mover'[m].stage = "cloned" => \E mv \in Moves : mover'[m].current = {mv}
           /\ mover'[m].stage = "renamed" => renameClonedPart(m)
           /\ mover[m].stage = "renamed" => swapActivePart(m)
  <1>1. CASE selectPartsForMove(m)
    <2>1. PICK S \in (SUBSET {p \in Active : canMove(p)}) \ {{}} : \E to \in [S -> Disks] :
             LET moves == {[part |-> p, from |-> working[p].disk, to |-> to[p]] : p \in S}
             IN mover' = [mover EXCEPT ![m] = [Idle EXCEPT !.tagged = moves, !.todo = moves]]
      BY <1>1 DEF selectPartsForMove
    <2>2. PICK to \in [S -> Disks] :
             LET moves == {[part |-> p, from |-> working[p].disk, to |-> to[p]] : p \in S}
             IN mover' = [mover EXCEPT ![m] = [Idle EXCEPT !.tagged = moves, !.todo = moves]]
      BY <2>1
    <2> DEFINE moves == {[part |-> p, from |-> working[p].disk, to |-> to[p]] : p \in S}
    <2>3. \A p \in S : p \in Active /\ p \in PartInfos /\ working[p].disk \in Disks
      BY WorkingTypes
    <2>4. moves \subseteq Moves /\ \A mv \in moves : <<mv.part, mv.from>> \in ObjectsOf(Active)
      BY <2>3 DEF Moves, ObjectsOf, Object
    <2>5. mover' = [mover EXCEPT ![m] = [Idle EXCEPT !.tagged = moves, !.todo = moves]]
      BY <2>2
    <2> HIDE DEF moves
    <2>6. ASSUME NEW e, e = [Idle EXCEPT !.tagged = moves, !.todo = moves]
          PROVE  e \in MoverStates /\ e.tagged = moves /\ e.stage = "ready"
      BY <2>4, <2>6 DEF Idle, MoverStates
    <2>7. Unlocked
      BY <1>1 DEF selectPartsForMove
    <2> QED
      BY <2>4, <2>5, <2>6, <2>7, MoverUpdate DEF Unlocked
  <1>2. CASE clonePart(m)
    <2>1. PICK mv \in mover[m].todo : mover' = [mover EXCEPT ![m].stage = "cloned", ![m].current = {mv}]
      BY <1>2 DEF clonePart
    <2>2. mover[m] \in MoverStates /\ mover[m].stage = "ready"
      BY <1>2 DEF TypeOK, clonePart
    <2>3. ASSUME NEW e, e = [mover[m] EXCEPT !.stage = "cloned", !.current = {mv}]
          PROVE  /\ e \in MoverStates /\ e.tagged = mover[m].tagged /\ e.stage = "cloned"
                 /\ mv \in Moves /\ e.current = {mv}
      BY <2>2, <2>3 DEF MoverStates
    <2>4. mover' = [mover EXCEPT ![m] = [mover[m] EXCEPT !.stage = "cloned", !.current = {mv}]]
      BY <2>1 DEF TypeOK
    <2> QED
      BY <2>2, <2>3, <2>4, MoverUpdate
  <1>3. CASE movePartsThrows(m) \/ renameClonedPartThrows(m)
    <2>1. mover' = [mover EXCEPT ![m] = Idle] /\ mover[m].stage # "renamed"
      BY <1>3 DEF movePartsThrows, renameClonedPartThrows
    <2> QED
      BY <2>1, IdleType, MoverUpdate
  <1>4. CASE dropClonedPart(m)
    <2>1. PICK mv \in mover[m].current : mover' = [mover EXCEPT ![m] = NextMove(mv, mover[m])]
      BY <1>4 DEF dropClonedPart, TypeOK
    <2>2. mover[m] \in MoverStates /\ mover[m].stage = "cloned"
      BY <1>4 DEF TypeOK, dropClonedPart
    <2> QED
      BY <2>1, <2>2, NextMoveType, MoverUpdate
  <1>5. CASE renameClonedPart(m)
    <2>1. mover' = [mover EXCEPT ![m].stage = "renamed"] /\ mover[m].stage = "cloned" /\ mover[m] \in MoverStates
      BY <1>5 DEF renameClonedPart, TypeOK
    <2>2. ASSUME NEW e, e = [mover[m] EXCEPT !.stage = "renamed"]
          PROVE  e \in MoverStates /\ e.tagged = mover[m].tagged /\ e.stage = "renamed"
      BY <2>1, <2>2 DEF MoverStates
    <2>3. mover' = [mover EXCEPT ![m] = [mover[m] EXCEPT !.stage = "renamed"]]
      BY <2>1 DEF TypeOK
    <2> QED
      BY <1>5, <2>1, <2>2, <2>3, MoverUpdate
  <1>6. CASE swapActivePart(m)
    <2>1. PICK mv \in mover[m].current : mover' = [mover EXCEPT ![m] = NextMove(mv, mover[m])]
      BY <1>6 DEF swapActivePart, TypeOK
    <2>2. mover[m] \in MoverStates
      BY DEF TypeOK
    <2> QED
      BY <1>6, <2>1, <2>2, NextMoveType, MoverUpdate
  <1> QED
    BY <1>1, <1>2, <1>3, <1>4, <1>5, <1>6 DEF MoverStep

LEMMA CopiesSame ==
    ASSUME \A n \in Movers : mover[n].stage = "renamed" \/ mover'[n].stage = "renamed" => mover'[n] = mover[n]
    PROVE  Copies' = Copies
  BY DEF Copies

(* Who takes hold of objects takes those of Active parts.                  *)
LEMMA HeldGrows ==
    ASSUME task'.sources \subseteq task.sources \cup ObjectsOf(Active),
           \A r \in Queries : query'[r] \subseteq query[r] \cup ObjectsOf(Active),
           \A m \in Movers : \A mv \in mover'[m].tagged :
               mv \in mover[m].tagged \/ <<mv.part, mv.from>> \in ObjectsOf(Active)
    PROVE  Held' \subseteq Held \cup ObjectsOf(Active)
  BY DEF Held

LEMMA HeldShrinks ==
    ASSUME task'.sources \subseteq task.sources,
           \A r \in Queries : query'[r] \subseteq query[r],
           \A m \in Movers : mover'[m].tagged \subseteq mover[m].tagged
    PROVE  Held' \subseteq Held
  BY DEF Held

(***************************************************************************)
(* What the other steps do to the objects                                  *)
(***************************************************************************)
LEMMA GoingAmong ==
    ASSUME NEW X, \A q \in DOMAIN working' : working'[q].state = "Deleting" => Object(q)' \in X
    PROVE  Going' \subseteq X
  BY DEF Going, ObjectsOf, In

LEMMA GoingObject ==
    ASSUME NEW p \in DOMAIN working
    PROVE  /\ Object(p) \in Shown
           /\ working[p].state = "Deleting" => Object(p) \in Going
  BY DEF Shown, Going, ObjectsOf, In

LEMMA grabOldPartsEffect ==
    ASSUME TypeOK, grabOldParts
    PROVE  /\ Shown' = Shown /\ Going' \subseteq Going \cup (Shown \ Held)
           /\ DOMAIN working' = DOMAIN working /\ Active' \subseteq Active
           /\ \A q \in DOMAIN working : q \notin In("Outdated") => working'[q] = working[q]
  <1>1. PICK S \in SUBSET Removable : working' = modifyPartState(working, S, "Deleting")
    BY DEF grabOldParts
  <1>2. \A q \in S : q \in DOMAIN working /\ working[q].state = "Outdated" /\ Object(q) \notin Held
    BY DEF Removable, In
  <1>3. /\ DOMAIN working' = DOMAIN working
        /\ \A q \in DOMAIN working : q \notin S => working'[q] = working[q]
        /\ \A q \in DOMAIN working \cap S : working'[q].state = "Deleting" /\ working'[q].disk = working[q].disk
    BY <1>1, ModifyEffect DEF States
  <1>4. \A q \in DOMAIN working : working'[q].disk = working[q].disk
    BY <1>3
  <1>5. Shown' = Shown
    BY <1>3, <1>4, SameObjects
  <1>6. \A q \in DOMAIN working : Object(q)' = Object(q)
    BY <1>4 DEF Object
  <1>7. ASSUME NEW q \in DOMAIN working', working'[q].state = "Deleting"
        PROVE  Object(q)' \in Going \cup (Shown \ Held)
    <2>1. CASE q \in S
      BY <1>2, <1>6, <2>1, GoingObject
    <2>2. CASE q \notin S
      <3>1. q \in DOMAIN working /\ working[q].state = "Deleting"
        BY <1>3, <1>7, <2>2
      <3> QED
        BY <1>6, <3>1, GoingObject
    <2> QED
      BY <2>1, <2>2
  <1>8. Going' \subseteq Going \cup (Shown \ Held)
    BY <1>7, GoingAmong
  <1>9. Active' \subseteq Active
    BY <1>2, <1>3 DEF Active, In
  <1> QED
    BY <1>2, <1>3, <1>5, <1>8, <1>9 DEF In

LEMMA clearEmptyPartsEffect ==
    ASSUME TypeOK, clearEmptyParts
    PROVE  /\ Shown' = Shown /\ Going' \subseteq Going
           /\ DOMAIN working' = DOMAIN working /\ Active' \subseteq Active
           /\ \A q \in DOMAIN working : q \in Merging \/ q \notin Active => working'[q] = working[q]
  <1>1. PICK p \in Active : p \notin Merging /\ working' = modifyPartState(working, {p}, "Outdated")
    BY DEF clearEmptyParts
  <1>2. /\ DOMAIN working' = DOMAIN working
        /\ \A q \in DOMAIN working : q \notin {p} => working'[q] = working[q]
        /\ \A q \in DOMAIN working \cap {p} : working'[q].state = "Outdated" /\ working'[q].disk = working[q].disk
    BY <1>1, ModifyEffect DEF States
  <1>3. \A q \in DOMAIN working : working'[q].disk = working[q].disk
    BY <1>2
  <1>4. Shown' = Shown
    BY <1>2, <1>3, SameObjects
  <1>5. \A q \in DOMAIN working : Object(q)' = Object(q)
    BY <1>3 DEF Object
  <1>6. \A q \in DOMAIN working' : working'[q].state = "Deleting" => working[q].state = "Deleting"
    BY <1>2
  <1>7. Going' \subseteq Going
    BY <1>2, <1>5, <1>6, GoingAmong, GoingObject
  <1>8. Active' \subseteq Active
    BY <1>2 DEF Active, In
  <1> QED
    BY <1>1, <1>2, <1>4, <1>7, <1>8

LEMMA commitEffect ==
    ASSUME IInv, phase = "up", commit
    PROVE  /\ Shown' = Shown /\ Going' \subseteq Going /\ task' = NoTask /\ task.stage = "renamed"
           /\ DOMAIN working' = DOMAIN working
           /\ \E o \in Objects : task.result = {o} /\ working' = Committed(working, o) /\ o[1] \in DOMAIN working
  <1>1. TypeOK /\ Results
    BY DEF IInv
  <1>2. task.stage = "renamed" /\ task' = NoTask
    BY DEF commit
  <1>3. PICK o \in task.result : working' = Committed(working, o)
    BY DEF commit
  <1>4. task.kind # "none"
    BY <1>1, <1>2 DEF Results, NoTask
  <1>5. /\ o \in Objects /\ task.result = {o}
        /\ o[1] \in DOMAIN working /\ working[o[1]] = [disk |-> o[2], state |-> "PreActive"]
    BY <1>1, <1>2, <1>3, <1>4 DEF Results
  <1>6. /\ DOMAIN working' = DOMAIN working \cup {o[1]}
        /\ working'[o[1]] = [disk |-> o[2], state |-> "Active"]
        /\ \A q \in DOMAIN working : q # o[1] =>
              /\ working'[q].disk = working[q].disk
              /\ \/ working'[q].state = working[q].state
                 \/ working[q].state = "Active" /\ working'[q].state = "Outdated"
    BY <1>1, <1>3, <1>5, CommittedEffect
  <1>7. DOMAIN working' = DOMAIN working
    BY <1>5, <1>6
  <1>8. \A q \in DOMAIN working : working'[q].disk = working[q].disk
    BY <1>5, <1>6
  <1>9. Shown' = Shown
    BY <1>7, <1>8, SameObjects
  <1>10. \A q \in DOMAIN working : Object(q)' = Object(q)
    BY <1>8 DEF Object
  <1>11. \A q \in DOMAIN working : working'[q].state = "Deleting" => working[q].state = "Deleting"
    BY <1>6
  <1>12. Going' \subseteq Going
    BY <1>7, <1>10, <1>11, GoingAmong, GoingObject
  <1> QED
    BY <1>2, <1>3, <1>5, <1>7, <1>9, <1>12

LEMMA clearPartsEffect ==
    ASSUME TypeOK, clearPartsFromFilesystem
    PROVE  /\ \E o \in Going : Shown' = Shown \ {o} /\ Going' \subseteq Going \ {o} /\ dirs' = dirs \ {o}
           /\ empties' \subseteq empties
           /\ DOMAIN working' \subseteq DOMAIN working /\ Active' \subseteq Active
           /\ \A q \in DOMAIN working : working[q].state # "Deleting" =>
                 q \in DOMAIN working' /\ working'[q] = working[q]
           /\ \A q \in DOMAIN working' : working'[q] = working[q]
           /\ working' \in [DOMAIN working' -> [disk : Disks, state : States]]
  <1>1. PICK p \in In("Deleting") : /\ dirs' = dirs \ {Object(p)} /\ working' = Without(working, {p})
                                    /\ empties' = empties \ ({p} \ Parts(dirs'))
    BY DEF clearPartsFromFilesystem
  <1>2. p \in DOMAIN working /\ working[p].state = "Deleting" /\ Object(p) \in Going
    BY GoingObject DEF In
  <1>3. DOMAIN working' = DOMAIN working \ {p} /\ \A q \in DOMAIN working' : working'[q] = working[q]
    BY <1>1 DEF Without
  <1>4. working' = [q \in DOMAIN working' |-> working'[q]]
    BY <1>1 DEF Without
  <1>5. \A q \in DOMAIN working : working[q] \in [disk : Disks, state : States]
    BY DEF TypeOK
  <1>6. working' \in [DOMAIN working' -> [disk : Disks, state : States]]
    BY <1>3, <1>4, <1>5
  <1>7. \A q \in DOMAIN working' : Object(q)' = Object(q)
    BY <1>3 DEF Object
  <1>8. \A q \in DOMAIN working \ {p} : Object(q) # Object(p)
    BY DEF Object
  <1>9. Shown' = Shown \ {Object(p)}
    BY <1>2, <1>3, <1>7, <1>8 DEF Shown, ObjectsOf
  <1>10. Going' \subseteq Going \ {Object(p)}
    <2> DEFINE X == Going \ {Object(p)}
    <2>1. \A q \in DOMAIN working' : working'[q].state = "Deleting" => Object(q)' \in X
      BY <1>3, <1>7, <1>8, GoingObject
    <2> HIDE DEF X
    <2>2. Going' \subseteq X
      BY <2>1, GoingAmong
    <2> QED
      BY <2>2 DEF X
  <1>11. Active' \subseteq Active
    BY <1>3 DEF Active, In
  <1> QED
    BY <1>1, <1>2, <1>3, <1>6, <1>9, <1>10, <1>11

(* The copy takes the place of the original.                               *)
LEMMA swapEffect ==
    ASSUME IInv, phase = "up", NEW m \in Movers, swapActivePart(m)
    PROVE  \E mv \in Moves :
              LET old == Object(mv.part)
                  new == <<mv.part, mv.to>> IN
              /\ mover[m].stage = "renamed" /\ mover[m].current = {mv}
              /\ new \in Objects /\ new \in dirs /\ new \notin Shown \cup doomed \cup unloaded
              /\ old \in ObjectsOf(Active) /\ old \in Shown
              /\ Shown' = (Shown \ {old}) \cup {new} /\ Going' = Going
              /\ doomed' = doomed \cup {old}
              /\ DOMAIN working' = DOMAIN working /\ Active' = Active
              /\ working'[mv.part].state = working[mv.part].state
              /\ \A q \in DOMAIN working : q # mv.part => working'[q] = working[q]
              /\ working' \in [DOMAIN working' -> [disk : Disks, state : States]]
  <1>1. TypeOK /\ Renaming
    BY DEF IInv
  <1>2. mover[m].stage = "renamed" /\ mover[m] \in MoverStates
    BY <1>1 DEF swapActivePart, TypeOK
  <1>3. PICK mv \in mover[m].current :
          /\ mover[m].current = {mv}
          /\ mv.part \in Active /\ <<mv.part, mv.to>> \in dirs
          /\ <<mv.part, mv.to>> \notin Shown \cup doomed \cup unloaded
    BY <1>1, <1>2 DEF Renaming
  <1>4. /\ working' = [working EXCEPT ![mv.part] = [disk |-> mv.to, state |-> "Active"]]
        /\ doomed' = doomed \cup {Object(mv.part)}
    BY <1>3 DEF swapActivePart
  <1>5. mv \in Moves
    BY <1>2, <1>3 DEF MoverStates
  <1>6. mv.part \in PartInfos /\ mv.to \in Disks /\ <<mv.part, mv.to>> \in Objects
    BY <1>5 DEF Moves, Objects
  <1>7. mv.part \in DOMAIN working /\ working[mv.part].state = "Active"
    BY <1>3 DEF Active, In
  <1>8. /\ DOMAIN working' = DOMAIN working
        /\ working'[mv.part] = [disk |-> mv.to, state |-> "Active"]
        /\ \A q \in DOMAIN working : q # mv.part => working'[q] = working[q]
    BY <1>1, <1>4, <1>7 DEF TypeOK
  <1>9. working' \in [DOMAIN working' -> [disk : Disks, state : States]]
    <2>1. [disk |-> mv.to, state |-> "Active"] \in [disk : Disks, state : States]
      BY <1>6 DEF States
    <2> QED
      BY <1>1, <1>4, <2>1 DEF TypeOK
  <1>10. Active' = Active
    BY <1>7, <1>8 DEF Active, In
  <1>11. /\ Object(mv.part)' = <<mv.part, mv.to>>
         /\ \A q \in DOMAIN working : q # mv.part => Object(q)' = Object(q)
    BY <1>8 DEF Object
  <1>12. \A q \in DOMAIN working : q # mv.part => Object(q) # Object(mv.part)
    BY DEF Object
  <1>13. Shown' = (Shown \ {Object(mv.part)}) \cup {<<mv.part, mv.to>>}
    <2>1. Shown' = {Object(q)' : q \in DOMAIN working}
      BY <1>8 DEF Shown, ObjectsOf
    <2> QED
      BY <1>7, <1>11, <1>12, <2>1 DEF Shown, ObjectsOf
  <1>14. Going' = Going
    <2>1. \A q \in DOMAIN working' : working'[q].state = "Deleting" =>
              q \in DOMAIN working /\ working[q].state = "Deleting"
      BY <1>8
    <2>2. \A q \in DOMAIN working : working[q].state = "Deleting" =>
              working'[q].state = "Deleting" /\ working'[q].disk = working[q].disk
      BY <1>7, <1>8
    <2> QED
      BY <1>8, <2>1, <2>2, SameGoing
  <1>15. Object(mv.part) \in ObjectsOf(Active) /\ Object(mv.part) \in Shown
    BY <1>3, <1>7 DEF ObjectsOf, Shown
  <1> QED
    BY <1>2, <1>3, <1>4, <1>5, <1>6, <1>7, <1>8, <1>9, <1>10, <1>13, <1>14, <1>15

LEMMA loadOutdatedEffect ==
    ASSUME IInv, phase = "up", loadOutdatedDataParts
    PROVE  /\ \E o \in unloaded :
                 /\ unloaded' = unloaded \ {o} /\ Going' = Going
                 /\ \/ Shown' = Shown /\ dirs' = dirs \ {o} /\ UNCHANGED working
                    \/ /\ Shown' = Shown \cup {o} /\ UNCHANGED dirs
                       /\ DOMAIN working' = DOMAIN working \cup {o[1]}
                       /\ working' \in [DOMAIN working' -> [disk : Disks, state : States]]
           /\ DOMAIN working \subseteq DOMAIN working' /\ DOMAIN working' \subseteq PartInfos
           /\ Active' = Active
           /\ \A q \in DOMAIN working : working'[q] = working[q]
  <1>1. TypeOK
    BY DEF IInv
  <1>2. PICK o \in unloaded :
          /\ unloaded' = unloaded \ {o}
          /\ IF o[1] \in DOMAIN working
             THEN dirs' = dirs \ {o} /\ UNCHANGED working
             ELSE working' = Put(working, o[1], [disk |-> o[2], state |-> "Outdated"]) /\ UNCHANGED dirs
    BY DEF loadOutdatedDataParts
  <1>3. o \in Objects /\ o[1] \in PartInfos /\ o[2] \in Disks /\ o = <<o[1], o[2]>>
    BY <1>1 DEF TypeOK, Objects
  <1>4. CASE o[1] \in DOMAIN working
    <2>1. dirs' = dirs \ {o} /\ UNCHANGED working
      BY <1>2, <1>4
    <2>2. Shown' = Shown /\ Going' = Going /\ Active' = Active
      BY <2>1 DEF Shown, Going, ObjectsOf, Object, In, Active
    <2> QED
      BY <1>1, <1>2, <2>1, <2>2 DEF TypeOK
  <1>5. CASE o[1] \notin DOMAIN working
    <2>1. working' = Put(working, o[1], [disk |-> o[2], state |-> "Outdated"]) /\ UNCHANGED dirs
      BY <1>2, <1>5
    <2>2. /\ DOMAIN working' = DOMAIN working \cup {o[1]}
          /\ working'[o[1]] = [disk |-> o[2], state |-> "Outdated"]
          /\ \A q \in DOMAIN working : working'[q] = working[q]
          /\ DOMAIN working' \subseteq PartInfos
          /\ working' \in [DOMAIN working' -> [disk : Disks, state : States]]
      BY <1>1, <1>3, <1>5, <2>1, PutEffect DEF States
    <2>3. Shown' = Shown \cup {o}
      BY <1>3, <1>5, <2>2, OneMoreObject
    <2>4. Going' = Going
      BY <1>5, <2>2, SameGoing
    <2>5. Active' = Active
      BY <1>5, <2>2 DEF Active, In
    <2> QED
      BY <1>2, <2>1, <2>2, <2>3, <2>4, <2>5
  <1> QED
    BY <1>4, <1>5

(***************************************************************************)
(* Objects and directories                                                 *)
(***************************************************************************)
Files == Placed /\ HeldStays /\ DirectoriesKnown

LEMMA FilesKnown ==
    ASSUME phase = "up"
    PROVE  DirectoriesKnown <=> dirs \subseteq Shown \cup doomed \cup unloaded \cup Copies
  BY DEF DirectoriesKnown, Shown

LEMMA HeldSame ==
    ASSUME UNCHANGED <<query, mover, task>>
    PROVE  Held' = Held /\ Copies' = Copies
  BY DEF Held, Copies

LEMMA FilesKept ==
    ASSUME Files, phase = "up", phase' = "up", TypeOK,
           Shown' = Shown, Going' \subseteq Going \cup (Shown \ Held'), Held' \subseteq Held \cup ObjectsOf(Active),
           Copies' = Copies, UNCHANGED <<doomed, unloaded, dirs>>
    PROVE  Files'
  <1>1. ObjectsOf(Active) \subseteq Shown /\ ObjectsOf(Active) \cap Going = {}
    BY WorkingTypes
  <1>2. DirectoriesKnown'
    BY FilesKnown DEF Files, DirectoriesKnown, Shown
  <1>3. Placed'
    BY DEF Files, Placed
  <1>4. HeldStays'
    BY <1>1 DEF Files, HeldStays
  <1> QED
    BY <1>2, <1>3, <1>4 DEF Files

LEMMA FilesAdded ==
    ASSUME Files, phase = "up", phase' = "up", NEW o, Adds(o), Held' \subseteq Held, Copies' = Copies
    PROVE  Files'
  <1>1. /\ Shown' = Shown \cup {o} /\ Going' = Going /\ dirs' = dirs \cup {o} /\ o \notin dirs
        /\ doomed' = doomed /\ unloaded' = unloaded
    BY DEF Adds
  <1>2. DirectoriesKnown'
    BY <1>1, FilesKnown DEF Files, DirectoriesKnown, Shown
  <1>3. Placed'
    BY <1>1 DEF Files, Placed
  <1>4. HeldStays'
    BY <1>1 DEF Files, HeldStays
  <1> QED
    BY <1>2, <1>3, <1>4 DEF Files

LEMMA FilesMoverStep ==
    ASSUME IInv, phase = "up", NEW m \in Movers, MoverStep(m)
    PROVE  Files'
  <1>1. TypeOK /\ Files
    BY DEF IInv, Files
  <1>2. /\ \A n \in Movers : n # m => mover'[n] = mover[n]
        /\ \/ mover'[m].tagged \subseteq mover[m].tagged
           \/ \A mv \in mover'[m].tagged : <<mv.part, mv.from>> \in ObjectsOf(Active)
        /\ mover'[m].stage = "renamed" => renameClonedPart(m)
        /\ mover[m].stage = "renamed" => swapActivePart(m)
    BY <1>1, MoverEffect
  <1>3. UNCHANGED <<query, task>> /\ phase' = "up" /\ unloaded' = unloaded
    BY DEF MoverStep, selectPartsForMove, clonePart, movePartsThrows, dropClonedPart, renameClonedPart,
           renameClonedPartThrows, swapActivePart, memory
  <1>4. Held' \subseteq Held \cup ObjectsOf(Active)
    BY <1>2, <1>3, HeldGrows
  <1>5. CASE selectPartsForMove(m) \/ clonePart(m) \/ movePartsThrows(m) \/ dropClonedPart(m)
    <2>1. UNCHANGED <<working, doomed, dirs>> /\ ~renameClonedPart(m) /\ ~swapActivePart(m)
      <3>1. UNCHANGED <<working, doomed, dirs>>
        BY <1>5 DEF selectPartsForMove, clonePart, movePartsThrows, dropClonedPart, memory
      <3>3. ~renameClonedPart(m)
        BY <3>1 DEF renameClonedPart, TargetFree
      <3>4. ~swapActivePart(m)
        <4>1. ASSUME swapActivePart(m)
              PROVE  FALSE
          <5>1. \E o \in Shown : doomed' = doomed \cup {o}
            BY <4>1, swapEffect
          <5> QED
            BY <1>1, <3>1, <5>1 DEF Files, Placed
        <4> QED
          BY <4>1
      <3> QED
        BY <3>1, <3>3, <3>4
    <2>2. Copies' = Copies
      BY <1>2, <2>1, CopiesSame
    <2>3. Shown' = Shown /\ Going' = Going
      BY <2>1 DEF Shown, Going, ObjectsOf, Object, In
    <2> QED
      BY <1>1, <1>3, <1>4, <2>1, <2>2, <2>3, FilesKept
  <1>6. CASE renameClonedPart(m) \/ renameClonedPartThrows(m)
    <2>1. UNCHANGED working /\ mover[m].stage = "cloned"
      BY <1>6 DEF renameClonedPart, renameClonedPartThrows, memory
    <2>2. PICK mv \in mover[m].current :
             /\ <<mv.part, mv.to>> \notin dirs /\ dirs' = dirs \cup {<<mv.part, mv.to>>}
             /\ \/ doomed' = doomed /\ mover' = [mover EXCEPT ![m].stage = "renamed"]
                \/ doomed' = doomed \cup {<<mv.part, mv.to>>} /\ mover' = [mover EXCEPT ![m] = Idle]
      BY <1>6 DEF renameClonedPart, renameClonedPartThrows, TargetFree
    <2> DEFINE o == <<mv.part, mv.to>>
    <2>3. Shown' = Shown /\ Going' = Going
      BY <2>1 DEF Shown, Going, ObjectsOf, Object, In
    <2>4. Copies \subseteq Copies'
      BY <1>2, <2>1 DEF Copies
    <2>5. doomed' = doomed => o \in Copies'
      <3>1. SUFFICES ASSUME doomed' = doomed, mover' = [mover EXCEPT ![m].stage = "renamed"]
                     PROVE  o \in Copies'
        <4>1. o \notin doomed
          BY <1>1, <2>2 DEF Files, Placed
        <4> QED
          BY <2>2, <4>1
      <3>2. mover'[m].stage = "renamed" /\ mover'[m].current = mover[m].current
        <4>1. mover[m] \in MoverStates /\ DOMAIN mover = Movers
          BY <1>1 DEF TypeOK
        <4> QED
          BY <3>1, <4>1 DEF MoverStates
      <3> QED
        BY <2>2, <3>2 DEF Copies
    <2> HIDE DEF o
    <2>6. o \notin dirs /\ dirs' = dirs \cup {o} /\ (doomed' = doomed \/ doomed' = doomed \cup {o})
      BY <2>2 DEF o
    <2>7. Held' \subseteq Held
      <3>1. mover'[m].tagged \subseteq mover[m].tagged
        <4>1. mover[m] \in MoverStates /\ DOMAIN mover = Movers
          BY <1>1 DEF TypeOK
        <4> QED
          BY <2>2, <4>1 DEF MoverStates, Idle
      <3> QED
        BY <1>2, <1>3, <3>1, HeldShrinks
    <2>8. Placed'
      BY <1>1, <1>3, <2>3, <2>6 DEF Files, Placed
    <2>9. HeldStays'
      BY <1>1, <2>3, <2>6, <2>7 DEF Files, HeldStays
    <2>10. DirectoriesKnown'
      <3>1. dirs \subseteq Shown \cup doomed \cup unloaded \cup Copies
        BY <1>1, FilesKnown DEF Files
      <3>2. dirs' \subseteq Shown' \cup doomed' \cup unloaded' \cup Copies'
        BY <1>3, <2>3, <2>4, <2>5, <2>6, <3>1
      <3> QED
        BY <3>2 DEF DirectoriesKnown, Shown
    <2> QED
      BY <2>8, <2>9, <2>10 DEF Files
  <1>7. CASE swapActivePart(m)
    <2>1. PICK mv \in Moves :
              LET old == Object(mv.part)
                  new == <<mv.part, mv.to>> IN
              /\ mover[m].current = {mv}
              /\ new \in dirs /\ new \notin Shown \cup doomed \cup unloaded
              /\ old \in ObjectsOf(Active) /\ old \in Shown
              /\ Shown' = (Shown \ {old}) \cup {new} /\ Going' = Going
              /\ doomed' = doomed \cup {old}
      BY <1>7, swapEffect
    <2> DEFINE old == Object(mv.part)
               new == <<mv.part, mv.to>>
    <2>2. Copies \subseteq Copies' \cup {new}
      BY <1>2, <2>1 DEF Copies
    <2> HIDE DEF old, new
    <2>3. /\ new \in dirs /\ new \notin Shown \cup doomed \cup unloaded
          /\ old \in ObjectsOf(Active) /\ old \in Shown
          /\ Shown' = (Shown \ {old}) \cup {new} /\ Going' = Going
          /\ doomed' = doomed \cup {old}
      BY <2>1 DEF old, new
    <2>4. dirs' = dirs
      BY <1>7 DEF swapActivePart
    <2>5. Placed'
      BY <1>1, <1>3, <2>3, <2>4 DEF Files, Placed
    <2>6. HeldStays'
      <3>1. ObjectsOf(Active) \subseteq Shown /\ ObjectsOf(Active) \cap Going = {}
        BY <1>1, WorkingTypes
      <3> QED
        BY <1>1, <1>4, <2>3, <3>1 DEF Files, HeldStays
    <2>7. DirectoriesKnown'
      <3>1. dirs \subseteq Shown \cup doomed \cup unloaded \cup Copies
        BY <1>1, FilesKnown DEF Files
      <3>2. dirs' \subseteq Shown' \cup doomed' \cup unloaded' \cup Copies'
        BY <1>3, <2>2, <2>3, <2>4, <3>1
      <3> QED
        BY <3>2 DEF DirectoriesKnown, Shown
    <2> QED
      BY <2>5, <2>6, <2>7 DEF Files
  <1> QED
    BY <1>5, <1>6, <1>7 DEF MoverStep

LEMMA FilesTaskStep ==
    ASSUME IInv, phase = "up", TaskStep
    PROVE  Files'
  <1>1. TypeOK /\ Files /\ Results
    BY DEF IInv, Files
  <1>2. UNCHANGED <<query, mover, unloaded, doomed>> /\ phase' = "up"
    BY DEF TaskStep, selectPartsToMerge, selectPartToMutate, coverPartWithEmptyPart, renameMergedTemporaryPart,
           commit, commitMutation, cancel, memory
  <1>3. Copies' = Copies
    BY <1>2 DEF Copies
  <1>4. CASE selectPartsToMerge \/ selectPartToMutate \/ coverPartWithEmptyPart
    <2>1. UNCHANGED <<working, dirs>>
      BY <1>4 DEF selectPartsToMerge, selectPartToMutate, coverPartWithEmptyPart, memory
    <2>2. task'.sources \subseteq ObjectsOf(Active)
      <3>1. \A kind, S, p, d : Start(kind, S, p, d) => task'.sources = ObjectsOf(S)
        BY DEF Start
      <3>2. \E S \in SUBSET Active : task'.sources = ObjectsOf(S)
        <4>1. CASE selectPartsToMerge
          <5>1. \E l, r \in Active, d \in Disks, p \in PartInfos : Start("merge", PartsRange(l, r), p, d)
            BY <4>1 DEF selectPartsToMerge
          <5>2. \A l, r : PartsRange(l, r) \subseteq Active
            BY DEF PartsRange
          <5> QED
            BY <3>1, <5>1, <5>2
        <4>2. CASE selectPartToMutate
          <5>1. PICK q \in Active : Start("mutate", {q}, [q EXCEPT !.mutation = increment'], working[q].disk)
            BY <4>2 DEF selectPartToMutate
          <5> QED
            BY <3>1, <5>1
        <4>3. CASE coverPartWithEmptyPart
          <5>1. PICK q \in Active, d \in Disks : Start("drop", {q}, [q EXCEPT !.level = @ + 1], d)
            BY <4>3 DEF coverPartWithEmptyPart
          <5> QED
            BY <3>1, <5>1
        <4> QED
          BY <1>4, <4>1, <4>2, <4>3
      <3> QED
        BY <3>2 DEF ObjectsOf
    <2>3. Held' \subseteq Held \cup ObjectsOf(Active)
      BY <1>2, <2>2, HeldGrows
    <2>4. Shown' = Shown /\ Going' = Going
      BY <2>1 DEF Shown, Going, ObjectsOf, Object, In
    <2> QED
      BY <1>1, <1>2, <1>3, <2>1, <2>3, <2>4, FilesKept
  <1>5. CASE renameMergedTemporaryPart
    <2>1. task'.sources = task.sources
      <3>1. task' = [task EXCEPT !.stage = "renamed"]
        BY <1>5 DEF renameMergedTemporaryPart
      <3> QED
        BY <1>1, <3>1 DEF TypeOK, Tasks
    <2>2. Held' \subseteq Held
      BY <1>2, <2>1, HeldShrinks
    <2>3. \E o : Adds(o)
      BY <1>5, renameMergedEffect
    <2> QED
      BY <1>1, <1>2, <1>3, <2>2, <2>3, FilesAdded
  <1>6. CASE commit
    <2>1. Held' \subseteq Held
      <3>1. task' = NoTask
        BY <1>6 DEF commit
      <3> QED
        BY <1>2, <3>1, HeldShrinks DEF NoTask
    <2>2. Shown' = Shown /\ Going' \subseteq Going
      BY <1>6, commitEffect
    <2>3. dirs' = dirs
      BY <1>6 DEF commit
    <2> QED
      BY <1>1, <1>2, <1>3, <2>1, <2>2, <2>3, FilesKept
  <1>7. CASE commitMutation
    <2>1. task.stage = "run"
      <3>1. task.kind = "mutate" /\ task.stage \in {"run", "renamed"}
        BY <1>1, <1>7 DEF commitMutation, TypeOK, Tasks
      <3> QED
        BY <1>1, <3>1 DEF Results
    <2>2. Held' \subseteq Held
      <3>1. task' = NoTask
        BY <1>7 DEF commitMutation
      <3> QED
        BY <1>2, <3>1, HeldShrinks DEF NoTask
    <2>3. \E o : Adds(o)
      BY <1>7, <2>1, commitMutationEffect
    <2> QED
      BY <1>1, <1>2, <1>3, <2>2, <2>3, FilesAdded
  <1>8. CASE cancel
    <2>1. Held' \subseteq Held
      <3>1. task' = NoTask
        BY <1>8 DEF cancel
      <3> QED
        BY <1>2, <3>1, HeldShrinks DEF NoTask
    <2>2. UNCHANGED <<working, dirs>>
      BY <1>8 DEF cancel, memory
    <2>3. Shown' = Shown /\ Going' = Going
      BY <2>2 DEF Shown, Going, ObjectsOf, Object, In
    <2> QED
      BY <1>1, <1>2, <1>3, <2>1, <2>2, <2>3, FilesKept
  <1> QED
    BY <1>4, <1>5, <1>6, <1>7, <1>8 DEF TaskStep

LEMMA FilesCleanupStep ==
    ASSUME IInv, phase = "up", CleanupStep
    PROVE  Files'
  <1>1. TypeOK /\ Files
    BY DEF IInv, Files
  <1>2. UNCHANGED <<query, mover, task, unloaded, doomed>> /\ phase' = "up"
    BY DEF CleanupStep, grabOldParts, clearPartsFromFilesystem, clearEmptyParts
  <1>3. Held' = Held /\ Copies' = Copies
    BY <1>2, HeldSame
  <1>4. CASE grabOldParts
    <2>1. Shown' = Shown /\ Going' \subseteq Going \cup (Shown \ Held)
      BY <1>1, <1>4, grabOldPartsEffect
    <2>2. dirs' = dirs
      BY <1>4 DEF grabOldParts
    <2> QED
      BY <1>1, <1>2, <1>3, <2>1, <2>2, FilesKept
  <1>5. CASE clearEmptyParts
    <2>1. Shown' = Shown /\ Going' \subseteq Going
      BY <1>1, <1>5, clearEmptyPartsEffect
    <2>2. dirs' = dirs
      BY <1>5 DEF clearEmptyParts
    <2> QED
      BY <1>1, <1>2, <1>3, <2>1, <2>2, FilesKept
  <1>6. CASE clearPartsFromFilesystem
    <2>1. PICK o \in Going : Shown' = Shown \ {o} /\ Going' \subseteq Going \ {o} /\ dirs' = dirs \ {o}
      BY <1>1, <1>6, clearPartsEffect
    <2>2. o \in Shown
      BY <1>1, WorkingTypes
    <2>3. Placed'
      BY <1>1, <1>2, <2>1, <2>2 DEF Files, Placed
    <2>4. HeldStays'
      BY <1>1, <1>2, <1>3, <2>1 DEF Files, HeldStays
    <2>5. DirectoriesKnown'
      <3>1. dirs \subseteq Shown \cup doomed \cup unloaded \cup Copies
        BY <1>1, FilesKnown DEF Files
      <3>2. dirs' \subseteq Shown' \cup doomed' \cup unloaded' \cup Copies'
        BY <1>2, <1>3, <2>1, <3>1
      <3> QED
        BY <3>2 DEF DirectoriesKnown, Shown
    <2> QED
      BY <2>3, <2>4, <2>5 DEF Files
  <1> QED
    BY <1>4, <1>5, <1>6 DEF CleanupStep

(* The destructor takes an object that nobody holds.                       *)
LEMMA FilesRemoved ==
    ASSUME IInv, phase = "up", removeIfNeeded
    PROVE  Files'
  <1>1. TypeOK /\ Files
    BY DEF IInv, Files
  <1>2. UNCHANGED <<working, query, mover, task, unloaded>> /\ phase' = "up"
    BY DEF removeIfNeeded, memory
  <1>3. Held' = Held /\ Copies' = Copies
    BY <1>2, HeldSame
  <1>4. Shown' = Shown /\ Going' = Going
    BY <1>2 DEF Shown, Going, ObjectsOf, Object, In
  <1>5. PICK o \in doomed \ Held : doomed' = doomed \ {o} /\ dirs' = dirs \ {o}
    BY DEF removeIfNeeded
  <1>6. Placed'
    BY <1>1, <1>2, <1>4, <1>5 DEF Files, Placed
  <1>7. HeldStays'
    BY <1>1, <1>3, <1>4, <1>5 DEF Files, HeldStays
  <1>8. DirectoriesKnown'
    <2>1. dirs \subseteq Shown \cup doomed \cup unloaded \cup Copies
      BY <1>1, FilesKnown DEF Files
    <2>2. dirs' \subseteq Shown' \cup doomed' \cup unloaded' \cup Copies'
      BY <1>2, <1>3, <1>4, <1>5, <2>1
    <2> QED
      BY <2>2 DEF DirectoriesKnown, Shown
  <1> QED
    BY <1>6, <1>7, <1>8 DEF Files

LEMMA FilesLoadedLater ==
    ASSUME IInv, phase = "up", loadOutdatedDataParts
    PROVE  Files'
  <1>1. TypeOK /\ Files
    BY DEF IInv, Files
  <1>2. UNCHANGED <<query, mover, task, doomed>> /\ phase' = "up"
    BY DEF loadOutdatedDataParts
  <1>3. Held' = Held /\ Copies' = Copies
    BY <1>2, HeldSame
  <1>4. PICK o \in unloaded :
           /\ unloaded' = unloaded \ {o} /\ Going' = Going
           /\ \/ Shown' = Shown /\ dirs' = dirs \ {o}
              \/ Shown' = Shown \cup {o} /\ dirs' = dirs
    BY loadOutdatedEffect
  <1>5. Placed'
    BY <1>1, <1>2, <1>4 DEF Files, Placed
  <1>6. HeldStays'
    BY <1>1, <1>2, <1>3, <1>4 DEF Files, HeldStays
  <1>7. DirectoriesKnown'
    <2>1. dirs \subseteq Shown \cup doomed \cup unloaded \cup Copies
      BY <1>1, FilesKnown DEF Files
    <2>2. dirs' \subseteq Shown' \cup doomed' \cup unloaded' \cup Copies'
      BY <1>2, <1>3, <1>4, <2>1
    <2> QED
      BY <2>2 DEF DirectoriesKnown, Shown
  <1> QED
    BY <1>5, <1>6, <1>7 DEF Files

LEMMA FilesLoaded ==
    ASSUME IInv, loadDataParts
    PROVE  Files'
  <1>1. TypeOK /\ Down /\ phase = "down" /\ phase' = "up"
    BY DEF IInv, loadDataParts
  <1>2. UNCHANGED <<query, mover, task, doomed, dirs>>
    BY DEF loadDataParts
  <1>3. Held' = {} /\ doomed' = {}
    BY <1>1, <1>2 DEF Down, Held, NoTask, Idle
  <1>4. PICK disk \in [Tops(Parts(dirs)) -> Disks] :
          /\ \A p \in DOMAIN disk : <<p, disk[p]>> \in dirs
          /\ working' = [p \in DOMAIN disk |-> [disk |-> disk[p], state |-> "Active"]]
          /\ unloaded' = LoadedLater(disk)
    BY DEF loadDataParts
  <1>5. Shown' = {<<p, disk[p]>> : p \in DOMAIN disk}
    BY <1>4 DEF Shown, ObjectsOf, Object
  <1>6. \A o \in dirs : o = <<o[1], o[2]>>
    BY <1>1 DEF TypeOK, Objects
  <1>7. unloaded' = dirs \ Shown'
    BY <1>4, <1>5, <1>6 DEF LoadedLater
  <1>8. Shown' \subseteq dirs'
    BY <1>2, <1>4, <1>5
  <1>9. Placed' /\ HeldStays' /\ DirectoriesKnown'
    BY <1>2, <1>3, <1>7, <1>8 DEF Placed, HeldStays, DirectoriesKnown, Shown
  <1> QED
    BY <1>9 DEF Files

(***************************************************************************)
(* Names                                                                   *)
(***************************************************************************)
Names == ActiveDisjoint /\ Results /\ NothingAbove /\ Numbers

LEMMA ActiveHasDirectory ==
    ASSUME TypeOK, Placed
    PROVE  Active \subseteq Parts(dirs)
  <1>1. ObjectsOf(Active) \subseteq dirs
    BY WorkingTypes DEF Placed
  <1>2. ASSUME NEW p \in Active
        PROVE  p \in Parts(dirs)
    <2>1. Object(p) \in dirs /\ Object(p)[1] = p
      BY <1>1 DEF ObjectsOf, Object
    <2> QED
      BY <2>1 DEF Parts
  <1> QED
    BY <1>2

LEMMA NumbersOfParts ==
    Numbers <=> \A q \in Parts(dirs) : q.max <= increment /\ q.mutation <= increment
  BY DEF Numbers, Parts

LEMMA NamesKept ==
    ASSUME Names, task' = task, increment' = increment,
           Active' \subseteq Active, Parts(dirs') \subseteq Parts(dirs),
           \A q \in Active : q \in Merging => q \in Active',
           \A q \in DOMAIN working : working[q].state = "PreActive" =>
               q \in DOMAIN working' /\ working'[q] = working[q]
    PROVE  Names'
  <1>1. ActiveDisjoint'
    BY DEF Names, ActiveDisjoint, PairwiseDisjoint
  <1>2. NothingAbove'
    <2>1. Parts(dirs)' = Parts(dirs')
      BY DEF Parts
    <2>2. Parts(task.result)' = Parts(task.result)
      BY DEF Parts
    <2> QED
      BY <2>1, <2>2 DEF Names, NothingAbove
  <1>3. Numbers'
    BY DEF Names, Numbers, Parts
  <1>4. Results'
    <2>1. task.kind = "none" => task = NoTask
      BY DEF Names, Results
    <2>2. ASSUME task.kind # "none"
          PROVE  \E o \in Objects :
             /\ task.result = {o} /\ task.sources # {}
             /\ o[1].max <= increment /\ o[1].mutation <= increment
             /\ \A s \in task.sources : s[1] \in Active' /\ contains(o[1], s[1]) /\ s[1] # o[1]
             /\ task.stage = "renamed" =>
                   /\ task.kind \in {"merge", "drop"}
                   /\ o[1] \in DOMAIN working' /\ working'[o[1]] = [disk |-> o[2], state |-> "PreActive"]
                   /\ \A a \in Active' : isDisjoint(a, o[1]) \/ contains(o[1], a)
      <3>1. PICK o \in Objects :
             /\ task.result = {o} /\ task.sources # {}
             /\ o[1].max <= increment /\ o[1].mutation <= increment
             /\ \A s \in task.sources : s[1] \in Active /\ contains(o[1], s[1]) /\ s[1] # o[1]
             /\ task.stage = "renamed" =>
                   /\ task.kind \in {"merge", "drop"}
                   /\ o[1] \in DOMAIN working /\ working[o[1]] = [disk |-> o[2], state |-> "PreActive"]
                   /\ \A a \in Active : isDisjoint(a, o[1]) \/ contains(o[1], a)
        BY <2>2 DEF Names, Results
      <3>2. \A s \in task.sources : s[1] \in Active'
        BY <3>1 DEF Merging, Parts
      <3>3. task.stage = "renamed" =>
               o[1] \in DOMAIN working' /\ working'[o[1]] = [disk |-> o[2], state |-> "PreActive"]
        BY <3>1
      <3> QED
        BY <3>1, <3>2, <3>3
    <2> QED
      BY <2>1, <2>2 DEF Results
  <1> QED
    BY <1>1, <1>2, <1>3, <1>4 DEF Names

(* A result that is not above an Active part, and does not intersect one,  *)
(* covers every part that it overlaps.                                     *)
LEMMA OverlappedAreContained ==
    ASSUME TypeOK, ActiveDisjoint, NEW p \in PartInfos, p \notin Active,
           IntersectedParts(p, Active) = {}, CoveringParts(p, Active) = {}
    PROVE  \A a \in Active : isDisjoint(a, p) \/ contains(p, a)
  <1>1. Active \in SUBSET AnyInfo /\ p \in AnyInfo /\ PairwiseDisjoint(Active)
    BY WorkingTypes, PartInfosAreInfos DEF ActiveDisjoint
  <1> SUFFICES ASSUME NEW a \in Active, ~isDisjoint(a, p)
               PROVE  contains(p, a)
    OBVIOUS
  <1>2. a # p /\ ~isDisjoint(p, a)
    BY <1>1, DisjointSymmetric
  <1>3. a \in CoveredParts(p, Active)
    BY <1>1, <1>2, WalkComplete
  <1> QED
    BY <1>1, <1>3, CoveredAreContained

LEMMA CommittedActive ==
    ASSUME TypeOK, ActiveDisjoint, NEW o \in Objects, working' = Committed(working, o), o[1] \notin Active,
           \A a \in Active : isDisjoint(a, o[1]) \/ contains(o[1], a)
    PROVE  /\ Active' = {a \in Active : ~contains(o[1], a)} \cup {o[1]}
           /\ ActiveDisjoint'
  <1> DEFINE p == o[1]
  <1>1. Active \in SUBSET AnyInfo /\ p \in AnyInfo /\ PairwiseDisjoint(Active)
    BY WorkingTypes, PartInfosAreInfos DEF ActiveDisjoint, Objects
  <1>2. \A s \in Stops(p, Active) : s \in Active /\ ~contains(p, s)
    BY DEF Stops, Left, Right
  <1>3. \A s \in Stops(p, Active) : isDisjoint(s, p) /\ isDisjoint(p, s)
    BY <1>1, <1>2, DisjointSymmetric
  <1>4. IntersectedParts(p, Active) = {}
    BY <1>3 DEF IntersectedParts
  <1>5. CoveringParts(p, Active) = {}
    BY <1>1, <1>2, <1>3, ContainsOverlaps DEF CoveringParts
  <1>6. ASSUME NEW a \in Active
        PROVE  a \in CoveredParts(p, Active) <=> contains(p, a)
    <2>1. CASE contains(p, a)
      <3>1. ~isDisjoint(p, a)
        BY <1>1, <2>1, ContainsOverlaps
      <3> QED
        BY <1>1, <1>4, <1>5, <2>1, <3>1, WalkComplete
    <2>2. CASE ~contains(p, a)
      BY <1>1, <2>2, CoveredAreContained
    <2> QED
      BY <2>1, <2>2
  <1>7. CoveredParts(p, Active) \subseteq Active
    BY <1>1, CoveredAreContained
  <1>8. /\ DOMAIN working' = DOMAIN working \cup {p}
        /\ working'[p].state = "Active"
        /\ \A q \in DOMAIN working : q # p =>
              IF q \in CoveredParts(p, Active) THEN working'[q].state = "Outdated"
                                               ELSE working'[q].state = working[q].state
    <2>1. /\ DOMAIN working' = DOMAIN working \cup {o[1]}
          /\ working'[o[1]] = [disk |-> o[2], state |-> "Active"]
          /\ \A q \in DOMAIN working : q # o[1] =>
                IF q \in CoveredParts(o[1], Active) THEN working'[q].state = "Outdated"
                                                    ELSE working'[q].state = working[q].state
      BY CommittedEffect
    <2> QED
      BY <2>1
  <1> HIDE DEF p
  <1>9. Active' = {a \in Active : ~contains(p, a)} \cup {p}
    <2>1. ASSUME NEW q
          PROVE  q \in Active' <=> q \in {a \in Active : ~contains(p, a)} \cup {p}
      <3>1. CASE q = p
        BY <1>8, <3>1 DEF Active, In
      <3>2. CASE q # p /\ q \in CoveredParts(p, Active)
        <4>1. q \in Active /\ contains(p, q) /\ working'[q].state = "Outdated"
          BY <1>6, <1>7, <1>8, <3>2 DEF Active, In
        <4> QED
          BY <3>2, <4>1 DEF Active, In
      <3>3. CASE q # p /\ q \notin CoveredParts(p, Active)
        BY <1>6, <1>8, <3>3 DEF Active, In
      <3> QED
        BY <3>1, <3>2, <3>3
    <2> QED
      BY <2>1
  <1>10. ActiveDisjoint'
    <2>1. \A a \in Active : ~contains(p, a) => isDisjoint(a, p) /\ isDisjoint(p, a)
      BY <1>1, DisjointSymmetric DEF p
    <2> QED
      BY <1>1, <1>9, <2>1 DEF ActiveDisjoint, PairwiseDisjoint
  <1> QED
    BY <1>9, <1>10 DEF p

(* A task begins.                                                          *)
LEMMA NamesStarted ==
    ASSUME TypeOK, Names, UNCHANGED <<working, dirs>>, increment' \in Nat, increment <= increment', task = NoTask,
           NEW kind \in {"merge", "mutate", "drop"}, NEW S \in SUBSET Active, S # {},
           NEW p \in PartInfos, NEW d \in Disks, Start(kind, S, p, d),
           p.max <= increment', p.mutation <= increment',
           \A q \in S : contains(p, q) /\ p # q
    PROVE  Names'
  <1>1. ActiveDisjoint'
    BY DEF Names, ActiveDisjoint, Active, In
  <1>2. /\ task'.kind = kind /\ task'.stage = "run" /\ task'.sources = ObjectsOf(S) /\ task'.result = {<<p, d>>}
    BY DEF Start
  <1>3. NothingAbove'
    <2>1. Active' = Active /\ Parts(dirs)' = Parts(dirs)
      BY DEF Active, In, Parts
    <2>2. task.stage # "renamed"
      BY DEF NoTask
    <2> QED
      BY <2>1, <2>2 DEF Names, NothingAbove
  <1>4. Numbers'
    <2>1. \A o \in dirs : o[1].max \in Nat /\ o[1].mutation \in Nat
      BY PartInfosAreInfos DEF TypeOK, Objects, AnyInfo
    <2>2. increment \in Nat
      BY BoundsAssumption DEF TypeOK
    <2> QED
      BY <2>1, <2>2 DEF Names, Numbers
  <1>5. Results'
    <2> DEFINE o == <<p, d>>
    <2>1. o \in Objects /\ o[1] = p /\ o[2] = d
      BY DEF Objects
    <2>2. \A s \in ObjectsOf(S) : s[1] \in S
      BY DEF ObjectsOf, Object
    <2>3. ObjectsOf(S) # {}
      BY DEF ObjectsOf
    <2>4. Active' = Active
      BY DEF Active, In
    <2>5. /\ task'.result = {o} /\ task'.sources # {}
          /\ o[1].max <= increment' /\ o[1].mutation <= increment'
          /\ \A s \in task'.sources : s[1] \in Active' /\ contains(o[1], s[1]) /\ s[1] # o[1]
      BY <1>2, <2>1, <2>2, <2>3, <2>4
    <2> HIDE DEF o
    <2> QED
      BY <1>2, <2>1, <2>5 DEF Results
  <1> QED
    BY <1>1, <1>3, <1>4, <1>5 DEF Names

(* FutureMergedMutatedPart::assign makes a part that contains the range.   *)
LEMMA MergeContains ==
    ASSUME TypeOK, ActiveDisjoint, NEW l \in Active, NEW r \in Active, NEW p \in PartInfos,
           Less(l, r), MergeResult(p, l, r)
    PROVE  /\ l \in PartsRange(l, r) /\ r \in PartsRange(l, r)
           /\ \A q \in PartsRange(l, r) : contains(p, q) /\ p # q
           /\ \E q \in PartsRange(l, r) : p.mutation = q.mutation
  <1>1. Active \subseteq AnyInfo /\ p \in AnyInfo /\ \A q \in Active : q.min <= q.max
    BY WorkingTypes, PartInfosAreInfos DEF PartInfos
  <1>2. /\ p.min = l.min /\ p.max = r.max /\ p.level > 0
        /\ IsMax(p.level - 1, {q.level : q \in PartsRange(l, r)})
        /\ IsMax(p.mutation, {q.mutation : q \in PartsRange(l, r)})
    BY DEF MergeResult
  <1>3. ~Less(l, l) /\ ~Less(r, r) /\ ~Less(r, l)
    <2>1. l \in AnyInfo /\ r \in AnyInfo
      BY <1>1
    <2> QED
      BY <2>1 DEF Less, SameBlocks, AnyInfo
  <1>4. l \in PartsRange(l, r) /\ r \in PartsRange(l, r)
    BY <1>3 DEF PartsRange
  <1>5. ASSUME NEW q \in PartsRange(l, r)
        PROVE  contains(p, q) /\ p # q
    <2>1. q \in Active /\ ~Less(q, l) /\ ~Less(r, q)
      BY DEF PartsRange
    <2>2. q \in AnyInfo /\ l \in AnyInfo /\ r \in AnyInfo /\ q.min <= q.max /\ r.min <= r.max /\ l.min <= l.max
      BY <1>1, <2>1
    <2>3. (q = l \/ isDisjoint(q, l)) /\ (q = r \/ isDisjoint(q, r))
      BY <2>1 DEF ActiveDisjoint, PairwiseDisjoint
    <2>4. l.min <= q.min
      BY <2>1, <2>2 DEF Less, AnyInfo
    <2>5. q.max <= r.max
      <3>1. CASE q = r
        BY <2>2, <3>1 DEF AnyInfo
      <3>2. CASE isDisjoint(q, r)
        <4>1. q.min <= r.min
          BY <2>1, <2>2 DEF Less, AnyInfo
        <4> QED
          BY <2>2, <3>2, <4>1 DEF isDisjoint, AnyInfo
      <3> QED
        BY <2>3, <3>1, <3>2
    <2>6. q.level <= p.level - 1 /\ q.mutation <= p.mutation
      BY <1>2 DEF IsMax
    <2>7. q.level < p.level
      BY <1>1, <2>2, <2>6 DEF AnyInfo
    <2> QED
      BY <1>1, <1>2, <2>2, <2>4, <2>5, <2>6, <2>7 DEF contains, AnyInfo
  <1>6. \E q \in PartsRange(l, r) : p.mutation = q.mutation
    BY <1>2 DEF IsMax
  <1> QED
    BY <1>4, <1>5, <1>6

LEMMA NamesMergeSelected ==
    ASSUME IInv, phase = "up", selectPartsToMerge
    PROVE  Names'
  <1>1. TypeOK /\ Placed /\ Names /\ ActiveDisjoint
    BY DEF IInv, Names
  <1>2. task = NoTask /\ UNCHANGED <<working, dirs, increment>>
    BY DEF selectPartsToMerge, memory
  <1>3. PICK l \in Active, r \in Active, d \in Disks, p \in PartInfos :
          Less(l, r) /\ MergeResult(p, l, r) /\ Start("merge", PartsRange(l, r), p, d)
    BY DEF selectPartsToMerge
  <1>4. /\ l \in PartsRange(l, r) /\ r \in PartsRange(l, r)
        /\ \A q \in PartsRange(l, r) : contains(p, q) /\ p # q
        /\ \E q \in PartsRange(l, r) : p.mutation = q.mutation
    BY <1>1, <1>3, MergeContains
  <1>5. \A q \in Active : q.max <= increment /\ q.mutation <= increment
    BY <1>1, ActiveHasDirectory, NumbersOfParts DEF Names
  <1>6. PartsRange(l, r) \in SUBSET Active
    BY DEF PartsRange
  <1>7. p.max <= increment' /\ p.mutation <= increment'
    BY <1>2, <1>3, <1>4, <1>5, <1>6 DEF MergeResult
  <1>8. increment' \in Nat /\ increment <= increment'
    BY <1>1, <1>2, BoundsAssumption DEF TypeOK
  <1> DEFINE S == PartsRange(l, r)
  <1>9. /\ S \in SUBSET Active /\ S # {} /\ Start("merge", S, p, d) /\ \A q \in S : contains(p, q) /\ p # q
    BY <1>3, <1>4, <1>6
  <1> HIDE DEF S
  <1> QED
    BY <1>1, <1>2, <1>7, <1>8, <1>9, NamesStarted

LEMMA NamesMutationSelected ==
    ASSUME IInv, phase = "up", selectPartToMutate
    PROVE  Names'
  <1>1. TypeOK /\ Placed /\ Names
    BY DEF IInv, Names
  <1>2. task = NoTask /\ UNCHANGED <<working, dirs>> /\ increment < MaxBlock /\ increment' = increment + 1
    BY DEF selectPartToMutate
  <1>3. PICK q \in Active : Start("mutate", {q}, [q EXCEPT !.mutation = increment'], working[q].disk)
    BY DEF selectPartToMutate
  <1>4. q \in PartInfos /\ q \in AnyInfo /\ working[q].disk \in Disks
    BY <1>1, WorkingTypes, PartInfosAreInfos
  <1>5. q.max <= increment /\ q.mutation <= increment
    BY <1>1, ActiveHasDirectory, NumbersOfParts DEF Names
  <1>6. increment \in Nat /\ increment' \in Nat /\ increment' \in 0..MaxBlock /\ increment <= increment'
    BY <1>1, <1>2, BoundsAssumption DEF TypeOK
  <1> DEFINE p == [q EXCEPT !.mutation = increment']
             d == working[q].disk
             S == {q}
  <1>7. /\ p.min = q.min /\ p.max = q.max /\ p.level = q.level /\ p.mutation = increment'
        /\ p \in PartInfos
    BY <1>4, <1>6 DEF PartInfos
  <1>8. /\ d \in Disks /\ S \in SUBSET Active /\ S # {} /\ Start("mutate", S, p, d)
    BY <1>3, <1>4
  <1> HIDE DEF p, d
  <1>9. p.max <= increment' /\ p.mutation <= increment'
    BY <1>2, <1>4, <1>5, <1>6, <1>7 DEF AnyInfo
  <1>10. contains(p, q) /\ p # q
    BY <1>2, <1>4, <1>5, <1>6, <1>7 DEF contains, SameBlocks, AnyInfo
  <1>11. \A x \in S : contains(p, x) /\ p # x
    BY <1>10
  <1> HIDE DEF S
  <1> QED
    BY <1>1, <1>2, <1>6, <1>7, <1>8, <1>9, <1>11, NamesStarted

LEMMA NamesDropSelected ==
    ASSUME IInv, phase = "up", coverPartWithEmptyPart
    PROVE  Names'
  <1>1. TypeOK /\ Placed /\ Names
    BY DEF IInv, Names
  <1>2. task = NoTask /\ UNCHANGED <<working, dirs, increment>>
    BY DEF coverPartWithEmptyPart, memory
  <1>3. PICK q \in Active, d \in Disks : q.level < MaxLevel /\ Start("drop", {q}, [q EXCEPT !.level = @ + 1], d)
    BY DEF coverPartWithEmptyPart
  <1>4. q \in PartInfos /\ q \in AnyInfo
    BY <1>1, WorkingTypes, PartInfosAreInfos
  <1>5. q.max <= increment /\ q.mutation <= increment
    BY <1>1, ActiveHasDirectory, NumbersOfParts DEF Names
  <1>6. increment' \in Nat /\ increment <= increment'
    BY <1>1, <1>2, BoundsAssumption DEF TypeOK
  <1> DEFINE p == [q EXCEPT !.level = @ + 1]
             S == {q}
  <1>7. /\ p.min = q.min /\ p.max = q.max /\ p.level = q.level + 1 /\ p.mutation = q.mutation
        /\ p \in PartInfos
    BY <1>3, <1>4, BoundsAssumption DEF PartInfos
  <1>8. S \in SUBSET Active /\ S # {} /\ Start("drop", S, p, d)
    BY <1>3
  <1> HIDE DEF p
  <1>9. p.max <= increment' /\ p.mutation <= increment'
    BY <1>2, <1>5, <1>7
  <1>10. contains(p, q) /\ p # q
    BY <1>4, <1>7 DEF contains, SameBlocks, AnyInfo
  <1>11. \A x \in S : contains(p, x) /\ p # x
    BY <1>10
  <1> HIDE DEF S
  <1> QED
    BY <1>1, <1>2, <1>6, <1>7, <1>8, <1>9, <1>11, NamesStarted

LEMMA PartsAdd ==
    ASSUME NEW o, dirs' = dirs \cup {o}
    PROVE  Parts(dirs') = Parts(dirs) \cup {o[1]}
  BY DEF Parts

(* The state of the only new part says which parts are Active afterwards.  *)
LEMMA ActiveWithNew ==
    ASSUME NEW p, p \notin DOMAIN working, DOMAIN working' = DOMAIN working \cup {p},
           \A q \in DOMAIN working : working'[q] = working[q]
    PROVE  Active' = IF working'[p].state = "Active" THEN Active \cup {p} ELSE Active
  BY DEF Active, In

LEMMA NamesInserted ==
    ASSUME IInv, phase = "up", commitPart
    PROVE  Names'
  <1>1. TypeOK /\ Placed /\ Names
    BY DEF IInv, Names
  <1>2. UNCHANGED task /\ increment' = increment + 1 /\ increment \in Nat
    BY <1>1, BoundsAssumption DEF commitPart, TypeOK
  <1>3. PICK o \in Objects : /\ Adds(o)
                             /\ o[1].max = increment' /\ o[1].mutation = 0
                             /\ DOMAIN working' = DOMAIN working \cup {o[1]}
                             /\ \A q \in DOMAIN working : working'[q] = working[q]
    BY commitPartEffect
  <1> DEFINE p == o[1]
  <1>4. p \in PartInfos /\ p \in AnyInfo /\ p.max = increment + 1 /\ p.min = increment + 1 /\ p \notin DOMAIN working
    <2>1. PICK d \in Disks :
             dirs' = dirs \cup {<<[min |-> increment', max |-> increment', level |-> 0, mutation |-> 0], d>>}
      BY DEF commitPart
    <2>2. dirs' = dirs \cup {o} /\ o \notin dirs
      BY <1>3 DEF Adds
    <2>3. o = <<[min |-> increment', max |-> increment', level |-> 0, mutation |-> 0], d>>
      BY <2>1, <2>2
    <2>4. p \in PartInfos /\ p \in AnyInfo
      BY <1>3, PartInfosAreInfos DEF Objects
    <2>5. p \notin DOMAIN working
      <3>1. p \notin Parts(dirs)
        BY <1>3 DEF Adds
      <3>2. \A q \in DOMAIN working : Object(q) \in dirs /\ Object(q)[1] = q
        BY <1>1, GoingObject DEF Placed, Object
      <3> QED
        BY <3>1, <3>2 DEF Parts
    <2> QED
      BY <1>2, <2>3, <2>4, <2>5
  <1>5. Parts(dirs') = Parts(dirs) \cup {p}
    BY <1>3, PartsAdd DEF Adds
  <1>6. Active' \subseteq Active \cup {p} /\ Active \subseteq Active'
    BY <1>3, <1>4, ActiveWithNew
  <1>7. \A q \in Parts(dirs) : q.max <= increment /\ q.mutation <= increment /\ q \in PartInfos /\ q \in AnyInfo
                               /\ q.min <= q.max
    <2>1. Parts(dirs) \subseteq PartInfos
      BY <1>1 DEF TypeOK, Parts, Objects
    <2> QED
      BY <1>1, <2>1, NumbersOfParts, PartInfosAreInfos DEF Names, PartInfos
  <1>8. \A a \in Active : a \in Parts(dirs)
    BY <1>1, ActiveHasDirectory
  <1> HIDE DEF p
  <1>9. \A q \in Parts(dirs) : isDisjoint(q, p) /\ isDisjoint(p, q) /\ ~contains(p, q) /\ ~contains(q, p)
    BY <1>2, <1>4, <1>7 DEF isDisjoint, contains, AnyInfo
  <1>10. ActiveDisjoint'
    BY <1>1, <1>6, <1>8, <1>9 DEF Names, ActiveDisjoint, PairwiseDisjoint
  <1>11. NothingAbove'
    <2>1. Parts(dirs)' = Parts(dirs) \cup {p} /\ Parts(task.result)' = Parts(task.result)
      BY <1>2, <1>5 DEF Parts
    <2>2. ASSUME NEW a \in Active', NEW q \in Parts(dirs) \cup {p}, contains(q, a), q # a
          PROVE  task.stage = "renamed" /\ q \in Parts(task.result)
      <3>1. a \in Active /\ q \in Parts(dirs)
        BY <1>6, <1>8, <1>9, <2>2
      <3> QED
        BY <1>1, <2>2, <3>1 DEF Names, NothingAbove
    <2> QED
      BY <1>2, <2>1, <2>2 DEF NothingAbove
  <1>12. Numbers'
    <2>1. \A q \in Parts(dirs) \cup {p} : q.max <= increment' /\ q.mutation <= increment'
      BY <1>2, <1>3, <1>4, <1>7 DEF AnyInfo, p
    <2> QED
      BY <1>5, <2>1 DEF Numbers, Parts
  <1>13. Results'
    <2>1. task.kind = "none" => task = NoTask
      BY <1>1 DEF Names, Results
    <2>2. ASSUME task.kind # "none"
          PROVE  \E x \in Objects :
             /\ task.result = {x} /\ task.sources # {}
             /\ x[1].max <= increment' /\ x[1].mutation <= increment'
             /\ \A s \in task.sources : s[1] \in Active' /\ contains(x[1], s[1]) /\ s[1] # x[1]
             /\ task.stage = "renamed" =>
                   /\ task.kind \in {"merge", "drop"}
                   /\ x[1] \in DOMAIN working' /\ working'[x[1]] = [disk |-> x[2], state |-> "PreActive"]
                   /\ \A a \in Active' : isDisjoint(a, x[1]) \/ contains(x[1], a)
      <3>1. PICK x \in Objects :
             /\ task.result = {x} /\ task.sources # {}
             /\ x[1].max <= increment /\ x[1].mutation <= increment
             /\ \A s \in task.sources : s[1] \in Active /\ contains(x[1], s[1]) /\ s[1] # x[1]
             /\ task.stage = "renamed" =>
                   /\ task.kind \in {"merge", "drop"}
                   /\ x[1] \in DOMAIN working /\ working[x[1]] = [disk |-> x[2], state |-> "PreActive"]
                   /\ \A a \in Active : isDisjoint(a, x[1]) \/ contains(x[1], a)
        BY <1>1, <2>2 DEF Names, Results
      <3>2. x[1] \in AnyInfo
        BY PartInfosAreInfos DEF Objects
      <3>3. isDisjoint(p, x[1])
        BY <1>2, <1>4, <3>1, <3>2 DEF isDisjoint, AnyInfo
      <3>4. x[1].max <= increment' /\ x[1].mutation <= increment'
        BY <1>2, <3>1, <3>2 DEF AnyInfo
      <3>5. \A a \in Active' : task.stage = "renamed" => isDisjoint(a, x[1]) \/ contains(x[1], a)
        BY <1>6, <3>1, <3>3
      <3>6. task.stage = "renamed" =>
               x[1] \in DOMAIN working' /\ working'[x[1]] = [disk |-> x[2], state |-> "PreActive"]
        BY <1>3, <3>1
      <3> QED
        BY <1>6, <3>1, <3>4, <3>5, <3>6
    <2> QED
      BY <1>2, <2>1, <2>2 DEF Results
  <1> QED
    BY <1>10, <1>11, <1>12, <1>13 DEF Names

(* What is above the result of a task is above its sources.                *)
LEMMA NothingAboveResult ==
    ASSUME IInv, phase = "up", task.kind # "none", NEW o \in task.result, NEW q \in Parts(dirs), contains(q, o[1])
    PROVE  q = o[1]
  <1>1. TypeOK /\ Placed /\ Results /\ NothingAbove
    BY DEF IInv
  <1>2. /\ o \in Objects /\ task.result = {o} /\ task.sources # {}
        /\ \A s \in task.sources : s[1] \in Active /\ contains(o[1], s[1]) /\ s[1] # o[1]
    BY <1>1 DEF Results
  <1>3. PICK s \in task.sources : s[1] \in Active /\ contains(o[1], s[1]) /\ s[1] # o[1]
    BY <1>2
  <1>4. q \in AnyInfo /\ o[1] \in AnyInfo /\ s[1] \in AnyInfo
    <2>1. Parts(dirs) \subseteq PartInfos
      BY <1>1 DEF TypeOK, Parts, Objects
    <2>2. o[1] \in PartInfos /\ s[1] \in PartInfos
      BY <1>1, <1>2, <1>3, WorkingTypes DEF Objects
    <2> QED
      BY <2>1, <2>2, PartInfosAreInfos
  <1>5. contains(q, s[1])
    BY <1>3, <1>4, ContainsTransitive
  <1>6. q = s[1] \/ q \in Parts(task.result)
    BY <1>1, <1>3, <1>5 DEF NothingAbove
  <1>7. q # s[1]
    BY <1>3, <1>4, ContainsAntisymmetric
  <1> QED
    BY <1>2, <1>6, <1>7 DEF Parts

LEMMA NamesRenamed ==
    ASSUME IInv, phase = "up", renameMergedTemporaryPart
    PROVE  Names'
  <1>1. TypeOK /\ Placed /\ Names /\ ActiveDisjoint
    BY DEF IInv, Names
  <1>2. increment' = increment
    BY DEF renameMergedTemporaryPart
  <1>3. task' = [task EXCEPT !.stage = "renamed"] /\ task.kind \in {"merge", "drop"} /\ task.stage = "run"
    BY renameMergedEffect
  <1>4. PICK o \in task.result :
                 /\ Adds(o)
                 /\ DOMAIN working' = DOMAIN working \cup {o[1]}
                 /\ working'[o[1]] = [disk |-> o[2], state |-> "PreActive"]
                 /\ \A q \in DOMAIN working : working'[q] = working[q]
    BY renameMergedEffect
  <1>5. /\ o \in Objects /\ task.result = {o} /\ task.sources # {}
        /\ o[1].max <= increment /\ o[1].mutation <= increment
        /\ \A s \in task.sources : s[1] \in Active /\ contains(o[1], s[1]) /\ s[1] # o[1]
    BY <1>1, <1>3 DEF Names, Results
  <1>6. o[1] \in PartInfos /\ o[1] \notin DOMAIN working
    BY <1>3, ResultIsNew
  <1>7. Active' = Active
    BY <1>4, <1>6, ActiveWithNew
  <1>8. Parts(dirs') = Parts(dirs) \cup {o[1]}
    BY <1>4, PartsAdd DEF Adds
  <1>9. /\ task'.kind = task.kind /\ task'.stage = "renamed" /\ task'.sources = task.sources
        /\ task'.result = {o}
    BY <1>1, <1>3, <1>5 DEF TypeOK, Tasks
  <1>10. \A a \in Active : isDisjoint(a, o[1]) \/ contains(o[1], a)
    <2>1. o[1] \notin Active
      BY <1>6 DEF Active, In
    <2>2. IntersectedParts(o[1], Active) = {}
      <3>1. \E x \in task.result : IntersectedParts(x[1], Active) = {}
        BY DEF renameMergedTemporaryPart, checkPart
      <3> QED
        BY <1>5, <3>1
    <2>3. CoveringParts(o[1], Active) = {}
      <3>1. \A q \in CoveringParts(o[1], Active) : q \in Active /\ contains(q, o[1])
        BY DEF CoveringParts, Stops, Left, Right
      <3>2. \A q \in Active : ~contains(q, o[1])
        BY <1>1, <1>3, <2>1, ActiveHasDirectory, NothingAboveResult
      <3> QED
        BY <3>1, <3>2
    <2> QED
      BY <1>1, <1>6, <2>1, <2>2, <2>3, OverlappedAreContained
  <1>11. ActiveDisjoint'
    BY <1>1, <1>7 DEF ActiveDisjoint
  <1>12. NothingAbove'
    <2>1. Parts(dirs)' = Parts(dirs) \cup {o[1]} /\ o[1] \in Parts(task.result)'
      BY <1>8, <1>9 DEF Parts
    <2>2. \A a \in Active : \A q \in Parts(dirs) : contains(q, a) => q = a
      BY <1>1, <1>3 DEF Names, NothingAbove
    <2> QED
      BY <1>7, <1>9, <2>1, <2>2 DEF NothingAbove
  <1>13. Numbers'
    <2>1. \A q \in Parts(dirs') : q.max <= increment' /\ q.mutation <= increment'
      BY <1>1, <1>2, <1>5, <1>8, NumbersOfParts DEF Names
    <2> QED
      BY <2>1 DEF Numbers, Parts
  <1>14. Results'
    <2>1. /\ task'.result = {o} /\ task'.sources # {}
          /\ o[1].max <= increment' /\ o[1].mutation <= increment'
          /\ \A s \in task'.sources : s[1] \in Active' /\ contains(o[1], s[1]) /\ s[1] # o[1]
          /\ task'.kind \in {"merge", "drop"}
          /\ o[1] \in DOMAIN working' /\ working'[o[1]] = [disk |-> o[2], state |-> "PreActive"]
          /\ \A a \in Active' : isDisjoint(a, o[1]) \/ contains(o[1], a)
      BY <1>2, <1>3, <1>4, <1>5, <1>7, <1>9, <1>10
    <2> QED
      BY <1>5, <2>1 DEF Results
  <1> QED
    BY <1>11, <1>12, <1>13, <1>14 DEF Names

(* A result joins the Active parts and takes the place of what it covers.  *)
LEMMA NamesCommitted ==
    ASSUME IInv, phase = "up", task.kind # "none", task' = NoTask, increment' = increment,
           NEW o \in task.result, working' = Committed(working, o), o[1] \notin Active,
           \A a \in Active : isDisjoint(a, o[1]) \/ contains(o[1], a),
           Parts(dirs') \subseteq Parts(dirs) \cup {o[1]}
    PROVE  Names'
  <1>1. TypeOK /\ Placed /\ Names /\ ActiveDisjoint
    BY DEF IInv, Names
  <1>2. /\ o \in Objects /\ task.result = {o}
        /\ o[1].max <= increment /\ o[1].mutation <= increment
    BY <1>1 DEF Names, Results
  <1>3. Active' = {a \in Active : ~contains(o[1], a)} \cup {o[1]} /\ ActiveDisjoint'
    BY <1>1, <1>2, CommittedActive
  <1>4. NothingAbove'
    <2>1. ASSUME NEW a \in Active', NEW q \in Parts(dirs) \cup {o[1]}, contains(q, a)
          PROVE  q = a
      <3>1. CASE a = o[1]
        BY <2>1, <3>1, NothingAboveResult
      <3>2. CASE a \in Active /\ ~contains(o[1], a)
        <4>1. q \in Parts(dirs) /\ q # o[1]
          BY <2>1, <3>2
        <4>2. q = a \/ q \in Parts(task.result)
          BY <1>1, <2>1, <3>2, <4>1 DEF Names, NothingAbove
        <4> QED
          BY <1>2, <4>1, <4>2 DEF Parts
      <3> QED
        BY <1>3, <2>1, <3>1, <3>2
    <2>2. Parts(dirs)' = Parts(dirs')
      BY DEF Parts
    <2> QED
      BY <2>1, <2>2 DEF NothingAbove
  <1>5. Numbers'
    <2>1. \A q \in Parts(dirs') : q.max <= increment' /\ q.mutation <= increment'
      BY <1>1, <1>2, NumbersOfParts DEF Names
    <2> QED
      BY <2>1 DEF Numbers, Parts
  <1>6. Results'
    BY DEF Results, NoTask
  <1> QED
    BY <1>3, <1>4, <1>5, <1>6 DEF Names

LEMMA NamesTaskStep ==
    ASSUME IInv, phase = "up", TaskStep
    PROVE  Names'
  <1>1. TypeOK /\ Placed /\ Names /\ ActiveDisjoint
    BY DEF IInv, Names
  <1>2. CASE commit
    <2>1. task.stage = "renamed" /\ task' = NoTask /\ UNCHANGED <<increment, dirs>>
      BY <1>2 DEF commit
    <2>2. PICK o \in task.result : working' = Committed(working, o)
      BY <1>2 DEF commit
    <2>3. task.kind # "none"
      BY <1>1, <2>1 DEF Names, Results, NoTask
    <2>4. working[o[1]] = [disk |-> o[2], state |-> "PreActive"] /\ \A a \in Active : isDisjoint(a, o[1]) \/ contains(o[1], a)
      BY <1>1, <2>1, <2>2, <2>3 DEF Names, Results
    <2>5. o[1] \notin Active
      BY <2>4 DEF Active, In
    <2>6. Parts(dirs') \subseteq Parts(dirs) \cup {o[1]}
      BY <2>1
    <2> QED
      BY <2>1, <2>2, <2>3, <2>4, <2>5, <2>6, NamesCommitted
  <1>3. CASE commitMutation
    <2>1. task.kind = "mutate" /\ task' = NoTask /\ increment' = increment
      BY <1>3 DEF commitMutation
    <2>2. task.stage = "run"
      <3>1. task.stage \in {"run", "renamed"}
        BY <1>1 DEF TypeOK, Tasks
      <3> QED
        BY <1>1, <2>1, <3>1 DEF Names, Results
    <2>3. PICK o \in task.result :
             checkPart(o[1]) /\ working' = Committed(working, o) /\ dirs' = dirs \cup {o}
      BY <1>3 DEF commitMutation
    <2>4. o[1] \in PartInfos /\ o[1] \notin DOMAIN working
      BY <2>1, <2>2, ResultIsNew
    <2>5. o[1] \notin Active
      BY <2>4 DEF Active, In
    <2>6. CoveringParts(o[1], Active) = {}
      <3>1. \A q \in CoveringParts(o[1], Active) : q \in Active /\ contains(q, o[1])
        BY DEF CoveringParts, Stops, Left, Right
      <3>2. \A q \in Active : ~contains(q, o[1])
        BY <1>1, <2>1, <2>5, ActiveHasDirectory, NothingAboveResult
      <3> QED
        BY <3>1, <3>2
    <2>7. \A a \in Active : isDisjoint(a, o[1]) \/ contains(o[1], a)
      BY <1>1, <2>3, <2>4, <2>5, <2>6, OverlappedAreContained DEF checkPart
    <2>8. Parts(dirs') \subseteq Parts(dirs) \cup {o[1]}
      BY <2>3, PartsAdd
    <2> QED
      BY <2>1, <2>3, <2>5, <2>7, <2>8, NamesCommitted
  <1>4. CASE cancel
    <2>1. task.stage = "run" /\ task' = NoTask /\ UNCHANGED <<increment, working, dirs>>
      BY <1>4 DEF cancel, memory
    <2>2. Active' = Active /\ Parts(dirs)' = Parts(dirs)
      BY <2>1 DEF Active, In, Parts
    <2>3. ActiveDisjoint' /\ Numbers'
      BY <1>1, <2>1, <2>2 DEF ActiveDisjoint, Names, Numbers
    <2>4. Results'
      BY <2>1 DEF Results, NoTask
    <2>5. NothingAbove'
      BY <1>1, <2>1, <2>2 DEF Names, NothingAbove
    <2> QED
      BY <2>3, <2>4, <2>5 DEF Names
  <1> QED
    BY <1>2, <1>3, <1>4, NamesMergeSelected, NamesMutationSelected, NamesDropSelected, NamesRenamed DEF TaskStep

LEMMA NamesSameWorking ==
    ASSUME Names, UNCHANGED <<task, increment, working>>, Parts(dirs') \subseteq Parts(dirs)
    PROVE  Names'
  <1>1. Active' = Active
    BY DEF Active, In
  <1> QED
    BY <1>1, NamesKept

LEMMA NamesMoverStep ==
    ASSUME IInv, phase = "up", NEW m \in Movers, MoverStep(m)
    PROVE  Names'
  <1>1. TypeOK /\ Placed /\ Names
    BY DEF IInv, Names
  <1>2. UNCHANGED <<task, increment>>
    BY DEF MoverStep, selectPartsForMove, clonePart, movePartsThrows, dropClonedPart, renameClonedPart,
           renameClonedPartThrows, swapActivePart, memory
  <1>3. CASE selectPartsForMove(m) \/ clonePart(m) \/ movePartsThrows(m) \/ dropClonedPart(m)
    <2>1. UNCHANGED <<working, dirs>>
      BY <1>3 DEF selectPartsForMove, clonePart, movePartsThrows, dropClonedPart, memory
    <2> QED
      BY <1>1, <1>2, <2>1, NamesSameWorking
  <1>4. CASE renameClonedPart(m) \/ renameClonedPartThrows(m)
    <2>1. UNCHANGED working
      BY <1>4 DEF renameClonedPart, renameClonedPartThrows, memory
    <2>2. PICK mv \in mover[m].current : mv.part \in Active /\ dirs' = dirs \cup {<<mv.part, mv.to>>}
      BY <1>4 DEF renameClonedPart, renameClonedPartThrows, isActive
    <2>3. Parts(dirs') = Parts(dirs) \cup {mv.part}
      <3> DEFINE o == <<mv.part, mv.to>>
      <3>1. dirs' = dirs \cup {o} /\ o[1] = mv.part
        BY <2>2
      <3> HIDE DEF o
      <3> QED
        BY <3>1, PartsAdd
    <2>4. mv.part \in Parts(dirs)
      BY <1>1, <2>2, ActiveHasDirectory
    <2> QED
      BY <1>1, <1>2, <2>1, <2>3, <2>4, NamesSameWorking
  <1>5. CASE swapActivePart(m)
    <2>1. PICK mv \in Moves :
              /\ Object(mv.part) \in ObjectsOf(Active)
              /\ DOMAIN working' = DOMAIN working /\ Active' = Active
              /\ \A q \in DOMAIN working : q # mv.part => working'[q] = working[q]
      BY <1>5, swapEffect
    <2>2. mv.part \in Active
      BY <2>1 DEF ObjectsOf, Object
    <2>3. \A q \in DOMAIN working : working[q].state = "PreActive" =>
               q \in DOMAIN working' /\ working'[q] = working[q]
      BY <2>1, <2>2 DEF Active, In
    <2>4. dirs' = dirs
      BY <1>5 DEF swapActivePart
    <2> QED
      BY <1>1, <1>2, <2>1, <2>3, <2>4, NamesKept
  <1> QED
    BY <1>3, <1>4, <1>5 DEF MoverStep

LEMMA NamesCleanupStep ==
    ASSUME IInv, phase = "up", CleanupStep
    PROVE  Names'
  <1>1. TypeOK /\ Names
    BY DEF IInv, Names
  <1>2. UNCHANGED <<task, increment>>
    BY DEF CleanupStep, grabOldParts, clearPartsFromFilesystem, clearEmptyParts
  <1>3. CASE grabOldParts
    <2>1. /\ DOMAIN working' = DOMAIN working /\ Active' \subseteq Active
          /\ \A q \in DOMAIN working : q \notin In("Outdated") => working'[q] = working[q]
      BY <1>1, <1>3, grabOldPartsEffect
    <2>2. dirs' = dirs
      BY <1>3 DEF grabOldParts
    <2>3. \A q \in Active : q \in Active'
      BY <2>1 DEF Active, In
    <2>4. \A q \in DOMAIN working : working[q].state = "PreActive" =>
               q \in DOMAIN working' /\ working'[q] = working[q]
      BY <2>1 DEF In
    <2> QED
      BY <1>1, <1>2, <2>1, <2>2, <2>3, <2>4, NamesKept
  <1>4. CASE clearEmptyParts
    <2>1. /\ DOMAIN working' = DOMAIN working /\ Active' \subseteq Active
          /\ \A q \in DOMAIN working : q \in Merging \/ q \notin Active => working'[q] = working[q]
      BY <1>1, <1>4, clearEmptyPartsEffect
    <2>2. dirs' = dirs
      BY <1>4 DEF clearEmptyParts
    <2>3. \A q \in Active : q \in Merging => q \in Active'
      BY <2>1 DEF Active, In
    <2>4. \A q \in DOMAIN working : working[q].state = "PreActive" =>
               q \in DOMAIN working' /\ working'[q] = working[q]
      BY <2>1 DEF Active, In
    <2> QED
      BY <1>1, <1>2, <2>1, <2>2, <2>3, <2>4, NamesKept
  <1>5. CASE clearPartsFromFilesystem
    <2>1. /\ Active' \subseteq Active
          /\ \A q \in DOMAIN working : working[q].state # "Deleting" =>
                q \in DOMAIN working' /\ working'[q] = working[q]
      BY <1>1, <1>5, clearPartsEffect
    <2>2. Parts(dirs') \subseteq Parts(dirs)
      BY <1>5 DEF clearPartsFromFilesystem, Parts
    <2>3. \A q \in Active : q \in Active'
      BY <2>1 DEF Active, In
    <2> QED
      BY <1>1, <1>2, <2>1, <2>2, <2>3, NamesKept
  <1> QED
    BY <1>3, <1>4, <1>5 DEF CleanupStep

LEMMA NamesLoadedLater ==
    ASSUME IInv, phase = "up", loadOutdatedDataParts
    PROVE  Names'
  <1>1. Names
    BY DEF IInv, Names
  <1>2. UNCHANGED <<task, increment>>
    BY DEF loadOutdatedDataParts
  <1>3. /\ DOMAIN working \subseteq DOMAIN working' /\ Active' = Active
        /\ \A q \in DOMAIN working : working'[q] = working[q]
    BY loadOutdatedEffect
  <1>4. Parts(dirs') \subseteq Parts(dirs)
    BY DEF loadOutdatedDataParts, Parts
  <1> QED
    BY <1>1, <1>2, <1>3, <1>4, NamesKept

LEMMA NamesLoaded ==
    ASSUME IInv, loadDataParts
    PROVE  Names'
  <1>1. TypeOK /\ Down /\ phase = "down"
    BY DEF IInv, loadDataParts
  <1>2. task' = NoTask /\ dirs' = dirs
    BY <1>1 DEF Down, loadDataParts
  <1>3. PICK disk \in [Tops(Parts(dirs)) -> Disks] :
          working' = [p \in DOMAIN disk |-> [disk |-> disk[p], state |-> "Active"]]
    BY DEF loadDataParts
  <1>4. Active' = Tops(Parts(dirs))
    BY <1>3 DEF Active, In
  <1>5. ActiveDisjoint'
    <2>1. \A a, b \in Tops(Parts(dirs)) : a = b \/ isDisjoint(a, b)
      BY DEF loadDataParts, Loadable, Intersect, Tops
    <2> QED
      BY <1>4, <2>1 DEF ActiveDisjoint, PairwiseDisjoint
  <1>6. NothingAbove'
    BY <1>2, <1>4 DEF NothingAbove, Tops, Parts
  <1>7. Numbers'
    <2>1. \A p \in Parts(dirs) : p.max <= increment' /\ p.mutation <= increment'
      BY DEF loadDataParts
    <2> QED
      BY <1>2, <2>1 DEF Numbers, Parts
  <1>8. Results'
    BY <1>2 DEF Results, NoTask
  <1> QED
    BY <1>5, <1>6, <1>7, <1>8 DEF Names

(***************************************************************************)
(* The section of the lock in which a mover renames and swaps              *)
(***************************************************************************)
LEMMA RenamingKept ==
    ASSUME Renaming, UNCHANGED <<working, unloaded>>, doomed' \subseteq doomed, dirs \ doomed \subseteq dirs',
           \A n \in Movers : mover'[n].stage = "renamed" => mover'[n] = mover[n]
    PROVE  Renaming'
  <1>1. Active' = Active /\ Shown' = Shown
    BY DEF Active, In, Shown, ObjectsOf, Object
  <1>2. ASSUME NEW m \in Movers, mover'[m].stage = "renamed"
        PROVE  \E mv \in mover'[m].current :
             /\ mover'[m].current = {mv}
             /\ mv.part \in Active' /\ <<mv.part, mv.to>> \in dirs'
             /\ <<mv.part, mv.to>> \notin Shown' \cup doomed' \cup unloaded'
    <2>1. mover'[m] = mover[m]
      BY <1>2
    <2>2. PICK mv \in mover[m].current :
             /\ mover[m].current = {mv}
             /\ mv.part \in Active /\ <<mv.part, mv.to>> \in dirs
             /\ <<mv.part, mv.to>> \notin Shown \cup doomed \cup unloaded
      BY <1>2, <2>1 DEF Renaming
    <2> DEFINE o == <<mv.part, mv.to>>
    <2>3. o \in dirs /\ o \notin Shown \cup doomed \cup unloaded
      BY <2>2
    <2> HIDE DEF o
    <2>4. o \in dirs' /\ o \notin Shown' \cup doomed' \cup unloaded'
      BY <1>1, <2>3
    <2> QED
      BY <1>1, <2>1, <2>2, <2>4 DEF o
  <1>3. \A m, n \in Movers : mover'[m].stage = "renamed" /\ mover'[n].stage = "renamed" => m = n
    BY DEF Renaming
  <1> QED
    BY <1>2, <1>3 DEF Renaming

LEMMA RenamingNone ==
    ASSUME \A n \in Movers : mover'[n].stage # "renamed"
    PROVE  Renaming'
  BY DEF Renaming

LEMMA RenamingMoverStep ==
    ASSUME IInv, phase = "up", NEW m \in Movers, MoverStep(m)
    PROVE  Renaming'
  <1>1. TypeOK /\ Placed /\ Renaming
    BY DEF IInv
  <1>2. /\ \A n \in Movers : n # m => mover'[n] = mover[n]
        /\ mover'[m].stage = "renamed" => renameClonedPart(m)
        /\ mover[m].stage = "renamed" => swapActivePart(m)
    BY <1>1, MoverEffect
  <1>3. CASE clonePart(m) \/ movePartsThrows(m)
    <2>1. UNCHANGED <<working, unloaded, doomed, dirs>>
      BY <1>3 DEF clonePart, movePartsThrows, memory
    <2>2. ~renameClonedPart(m)
      BY <2>1 DEF renameClonedPart, TargetFree
    <2> QED
      BY <1>1, <1>2, <2>1, <2>2, RenamingKept
  <1>4. CASE selectPartsForMove(m) \/ dropClonedPart(m) \/ renameClonedPartThrows(m)
    <2>1. \A n \in Movers : mover[n].stage # "renamed"
      BY <1>4 DEF selectPartsForMove, dropClonedPart, renameClonedPartThrows, Unlocked
    <2>2. mover'[m].stage # "renamed"
      <3>1. CASE selectPartsForMove(m) \/ dropClonedPart(m)
        <4>1. dirs' = dirs
          BY <3>1 DEF selectPartsForMove, dropClonedPart
        <4>2. ~renameClonedPart(m)
          BY <4>1 DEF renameClonedPart, TargetFree
        <4> QED
          BY <1>2, <4>2
      <3>2. CASE renameClonedPartThrows(m)
        <4>1. mover' = [mover EXCEPT ![m] = Idle]
          BY <3>2 DEF renameClonedPartThrows
        <4> QED
          BY <1>1, <4>1, IdleType DEF TypeOK
      <3> QED
        BY <1>4, <3>1, <3>2
    <2> QED
      BY <1>2, <2>1, <2>2, RenamingNone
  <1>5. CASE renameClonedPart(m)
    <2>1. UNCHANGED <<working, unloaded, doomed>> /\ mover[m].stage = "cloned"
          /\ mover' = [mover EXCEPT ![m].stage = "renamed"] /\ \A n \in Movers : mover[n].stage # "renamed"
      BY <1>5 DEF renameClonedPart, memory, Unlocked
    <2>2. PICK mv \in mover[m].current :
             mv.part \in Active /\ <<mv.part, mv.to>> \notin dirs /\ dirs' = dirs \cup {<<mv.part, mv.to>>}
      BY <1>5 DEF renameClonedPart, isActive, TargetFree
    <2>3. mover[m] \in MoverStates /\ DOMAIN mover = Movers
      BY <1>1 DEF TypeOK
    <2>4. mover'[m].current = mover[m].current
      BY <2>1, <2>3 DEF MoverStates
    <2>5. mover[m].current = {mv}
      BY <1>1, <2>1, <2>2 DEF IInv, OneCopy
    <2>6. Active' = Active /\ Shown' = Shown
      BY <2>1 DEF Active, In, Shown, ObjectsOf, Object
    <2>7. <<mv.part, mv.to>> \in dirs' /\ <<mv.part, mv.to>> \notin Shown' \cup doomed' \cup unloaded'
      <3> DEFINE o == <<mv.part, mv.to>>
      <3>1. o \notin dirs /\ dirs' = dirs \cup {o}
        BY <2>2
      <3> HIDE DEF o
      <3>2. o \in dirs' /\ o \notin Shown' \cup doomed' \cup unloaded'
        BY <1>1, <2>1, <2>6, <3>1 DEF Placed
      <3> QED
        BY <3>2 DEF o
    <2>8. \A n \in Movers : mover'[n].stage = "renamed" => n = m
      BY <1>2, <2>1
    <2> QED
      BY <2>2, <2>4, <2>5, <2>6, <2>7, <2>8 DEF Renaming
  <1>6. CASE swapActivePart(m)
    <2>1. mover[m].stage = "renamed"
      BY <1>6 DEF swapActivePart
    <2>2. \A n \in Movers : n # m => mover[n].stage # "renamed"
      BY <1>1, <2>1 DEF Renaming
    <2>3. ~renameClonedPart(m)
      BY <2>1 DEF renameClonedPart
    <2> QED
      BY <1>2, <2>2, <2>3, RenamingNone
  <1> QED
    BY <1>3, <1>4, <1>5, <1>6 DEF MoverStep

(***************************************************************************)
(* Types                                                                   *)
(***************************************************************************)
LEMMA TypeKept ==
    ASSUME TypeOK, UNCHANGED <<increment, working, empties, task, crashes>>, phase' \in {"up", "down"},
           unloaded' \subseteq Objects, doomed' \subseteq Objects, dirs' \subseteq Objects,
           query' \in [Queries -> SUBSET Objects], mover' \in [Movers -> MoverStates]
    PROVE  TypeOK'
  BY DEF TypeOK

LEMMA TypeStarted ==
    ASSUME NEW kind \in {"merge", "mutate", "drop"}, TypeOK, NEW S \in SUBSET Active, NEW p \in PartInfos, NEW d \in Disks,
           Start(kind, S, p, d)
    PROVE  task' \in Tasks
  <1>1. ObjectsOf(S) \subseteq Objects
    <2>1. \A q \in S : Object(q) \in Objects
      BY WorkingTypes
    <2> QED
      BY <2>1 DEF ObjectsOf
  <1>2. {<<p, d>>} \subseteq Objects
    BY DEF Objects
  <1>3. (kind = "drop" \/ S \subseteq empties) \in BOOLEAN
    OBVIOUS
  <1> QED
    BY <1>1, <1>2, <1>3 DEF Start, Tasks

LEMMA NoTaskType == NoTask \in Tasks
  BY DEF NoTask, Tasks

LEMMA WithResultType ==
    ASSUME TypeOK
    PROVE  WithResult \subseteq PartInfos
  <1>1. task.result \subseteq Objects
    BY DEF TypeOK, Tasks
  <1>2. Parts(task.result) \subseteq PartInfos
    BY <1>1 DEF Parts, Objects
  <1> QED
    BY <1>2 DEF WithResult, TypeOK

WorkingOK == DOMAIN working \subseteq PartInfos /\ working \in [DOMAIN working -> [disk : Disks, state : States]]

LEMMA TypeTaskStep ==
    ASSUME IInv, phase = "up", TaskStep
    PROVE  TypeOK'
  <1>1. TypeOK /\ Results
    BY DEF IInv
  <1>2. UNCHANGED <<query, mover, unloaded, doomed, phase, crashes>>
    BY DEF TaskStep, selectPartsToMerge, selectPartToMutate, coverPartWithEmptyPart, renameMergedTemporaryPart,
           commit, commitMutation, cancel, memory
  <1>3. increment' \in 0..MaxBlock
    <2>1. increment' = increment \/ (increment < MaxBlock /\ increment' = increment + 1)
      BY DEF TaskStep, selectPartsToMerge, selectPartToMutate, coverPartWithEmptyPart, renameMergedTemporaryPart,
             commit, commitMutation, cancel, memory
    <2> QED
      BY <1>1, <2>1, BoundsAssumption DEF TypeOK
  <1>4. empties' \subseteq PartInfos
    <2>1. empties' = empties \/ empties' = WithResult
      BY DEF TaskStep, selectPartsToMerge, selectPartToMutate, coverPartWithEmptyPart, renameMergedTemporaryPart,
             commit, commitMutation, cancel, memory
    <2> QED
      BY <1>1, <2>1, WithResultType DEF TypeOK
  <1>5. dirs' \subseteq Objects
    <2>1. dirs' = dirs \/ \E o \in task.result : dirs' = dirs \cup {o}
      BY DEF TaskStep, selectPartsToMerge, selectPartToMutate, coverPartWithEmptyPart, renameMergedTemporaryPart,
             commit, commitMutation, cancel
    <2> QED
      BY <1>1, <2>1 DEF TypeOK, Tasks
  <1>6. WorkingOK'
    <2>1. CASE working' = working
      BY <1>1, <2>1 DEF WorkingOK, TypeOK
    <2>2. CASE renameMergedTemporaryPart
      <3>1. PICK o \in task.result : working' = Put(working, o[1], [disk |-> o[2], state |-> "PreActive"])
        BY <2>2 DEF renameMergedTemporaryPart
      <3>2. o[1] \in PartInfos /\ o[2] \in Disks
        BY <1>1 DEF TypeOK, Tasks, Objects
      <3> QED
        BY <1>1, <3>1, <3>2, PutEffect DEF WorkingOK, States
    <2>3. CASE commit \/ commitMutation
      <3>1. PICK o \in task.result : working' = Committed(working, o)
        BY <2>3 DEF commit, commitMutation
      <3>2. o \in Objects
        BY <1>1 DEF TypeOK, Tasks
      <3> QED
        BY <1>1, <3>1, <3>2, CommittedEffect DEF WorkingOK
    <2> QED
      BY <2>1, <2>2, <2>3 DEF TaskStep, selectPartsToMerge, selectPartToMutate, coverPartWithEmptyPart, cancel, memory
  <1>7. task' \in Tasks
    <2>1. CASE selectPartsToMerge
      <3>1. PICK l \in Active, r \in Active, d \in Disks, p \in PartInfos : Start("merge", PartsRange(l, r), p, d)
        BY <2>1 DEF selectPartsToMerge
      <3>2. PartsRange(l, r) \in SUBSET Active
        BY DEF PartsRange
      <3> QED
        BY <1>1, <3>1, <3>2, TypeStarted
    <2>2. CASE selectPartToMutate
      <3>1. PICK q \in Active : Start("mutate", {q}, [q EXCEPT !.mutation = increment'], working[q].disk)
        BY <2>2 DEF selectPartToMutate
      <3>2. q \in PartInfos /\ working[q].disk \in Disks
        BY <1>1, WorkingTypes
      <3> DEFINE p == [q EXCEPT !.mutation = increment']
                 d == working[q].disk
      <3>3. p \in PartInfos
        BY <1>3, <3>2 DEF PartInfos
      <3> HIDE DEF p, d
      <3>4. Start("mutate", {q}, p, d) /\ d \in Disks
        BY <3>1, <3>2 DEF p, d
      <3> QED
        BY <1>1, <3>3, <3>4, TypeStarted
    <2>3. CASE coverPartWithEmptyPart
      <3>1. PICK q \in Active, d \in Disks : q.level < MaxLevel /\ Start("drop", {q}, [q EXCEPT !.level = @ + 1], d)
        BY <2>3 DEF coverPartWithEmptyPart
      <3>2. q \in PartInfos
        BY <1>1, WorkingTypes
      <3> DEFINE p == [q EXCEPT !.level = @ + 1]
      <3>3. p \in PartInfos
        BY <3>1, <3>2, BoundsAssumption DEF PartInfos
      <3> HIDE DEF p
      <3>4. Start("drop", {q}, p, d)
        BY <3>1 DEF p
      <3> QED
        BY <1>1, <3>3, <3>4, TypeStarted
    <2>4. CASE renameMergedTemporaryPart
      <3>1. task' = [task EXCEPT !.stage = "renamed"] /\ task \in Tasks
        BY <1>1, <2>4 DEF renameMergedTemporaryPart, TypeOK
      <3>2. ASSUME NEW e, e = [task EXCEPT !.stage = "renamed"]
            PROVE  e \in Tasks
        BY <3>1, <3>2 DEF Tasks
      <3> QED
        BY <3>1, <3>2
    <2>5. CASE commit \/ commitMutation \/ cancel
      BY <2>5, NoTaskType DEF commit, commitMutation, cancel
    <2> QED
      BY <2>1, <2>2, <2>3, <2>4, <2>5 DEF TaskStep
  <1> QED
    BY <1>1, <1>2, <1>3, <1>4, <1>5, <1>6, <1>7 DEF TypeOK, WorkingOK

LEMMA TypeMoverStep ==
    ASSUME IInv, phase = "up", NEW m \in Movers, MoverStep(m)
    PROVE  TypeOK'
  <1>1. TypeOK
    BY DEF IInv
  <1>2. mover' \in [Movers -> MoverStates]
    BY <1>1, MoverEffect
  <1>3. UNCHANGED <<increment, empties, unloaded, query, task, phase, crashes>>
    BY DEF MoverStep, selectPartsForMove, clonePart, movePartsThrows, dropClonedPart, renameClonedPart,
           renameClonedPartThrows, swapActivePart, memory
  <1>4. CASE swapActivePart(m)
    <2>1. PICK mv \in Moves : /\ Object(mv.part) \in Shown /\ doomed' = doomed \cup {Object(mv.part)}
                              /\ DOMAIN working' = DOMAIN working
                              /\ working' \in [DOMAIN working' -> [disk : Disks, state : States]]
      BY <1>4, swapEffect
    <2>2. Object(mv.part) \in Objects
      BY <1>1, <2>1, WorkingTypes
    <2>3. dirs' = dirs
      BY <1>4 DEF swapActivePart
    <2> QED
      BY <1>1, <1>2, <1>3, <2>1, <2>2, <2>3 DEF TypeOK
  <1>5. CASE ~swapActivePart(m)
    <2>1. UNCHANGED working
      BY <1>5 DEF MoverStep, selectPartsForMove, clonePart, movePartsThrows, dropClonedPart, renameClonedPart,
             renameClonedPartThrows, memory
    <2>2. \/ UNCHANGED <<dirs, doomed>>
          \/ \E mv \in mover[m].current : /\ dirs' = dirs \cup {<<mv.part, mv.to>>}
                                          /\ doomed' = doomed \/ doomed' = doomed \cup {<<mv.part, mv.to>>}
      BY <1>5 DEF MoverStep, selectPartsForMove, clonePart, movePartsThrows, dropClonedPart, renameClonedPart,
             renameClonedPartThrows
    <2>3. \A mv \in mover[m].current : <<mv.part, mv.to>> \in Objects
      <3>1. mover[m] \in MoverStates
        BY <1>1 DEF TypeOK
      <3>2. \A mv \in mover[m].current : mv \in Moves
        BY <3>1 DEF MoverStates
      <3> QED
        BY <3>2 DEF Moves, Objects
    <2>4. dirs' \subseteq Objects /\ doomed' \subseteq Objects
      BY <1>1, <2>2, <2>3 DEF TypeOK
    <2>5. phase' \in {"up", "down"} /\ unloaded' \subseteq Objects /\ query' \in [Queries -> SUBSET Objects]
      BY <1>1, <1>3 DEF TypeOK
    <2> QED
      BY <1>1, <1>2, <1>3, <2>1, <2>4, <2>5, TypeKept
  <1> QED
    BY <1>4, <1>5

LEMMA TypeOthers ==
    ASSUME IInv, phase = "up",
           commitPart \/ (\E r \in Queries : getDataPartsVector(r) \/ releaseParts(r)) \/ removeIfNeeded
           \/ CleanupStep \/ loadOutdatedDataParts
    PROVE  TypeOK'
  <1>1. TypeOK
    BY DEF IInv
  <1>2. CASE commitPart
    <2>1. PICK o \in Objects : Adds(o)
      BY <1>2, commitPartEffect
    <2>2. dirs' \subseteq Objects
      BY <1>1, <2>1 DEF Adds, TypeOK
    <2>3. increment' \in 0..MaxBlock /\ UNCHANGED <<empties, unloaded, doomed, query, mover, task, phase, crashes>>
      BY <1>1, <1>2, BoundsAssumption DEF commitPart, TypeOK
    <2>4. DOMAIN working' \subseteq PartInfos /\ working' \in [DOMAIN working' -> [disk : Disks, state : States]]
      <3>1. PICK d \in Disks :
              working' = Put(working, [min |-> increment', max |-> increment', level |-> 0, mutation |-> 0],
                             [disk |-> d, state |-> "Active"])
        BY <1>2 DEF commitPart
      <3>2. increment < MaxBlock /\ increment' = increment + 1 /\ Numbers /\ Placed
        BY <1>2 DEF commitPart, IInv
      <3>3. [min |-> increment', max |-> increment', level |-> 0, mutation |-> 0] \in PartInfos
        BY <1>1, <3>2, InsertedIsNew
      <3> QED
        BY <1>1, <3>1, <3>3, PutEffect DEF States
    <2> QED
      BY <1>1, <2>2, <2>3, <2>4 DEF TypeOK
  <1>3. CASE \E r \in Queries : getDataPartsVector(r) \/ releaseParts(r)
    <2>1. PICK r \in Queries : query' = [query EXCEPT ![r] = ObjectsOf(Active)] \/ query' = [query EXCEPT ![r] = {}]
      BY <1>3 DEF getDataPartsVector, releaseParts
    <2>2. UNCHANGED <<memory, doomed, mover, task, dirs, phase, crashes>>
      BY <1>3 DEF getDataPartsVector, releaseParts
    <2>3. ObjectsOf(Active) \subseteq Objects
      BY <1>1, WorkingTypes
    <2>4. query' \in [Queries -> SUBSET Objects]
      BY <1>1, <2>1, <2>3 DEF TypeOK
    <2> QED
      BY <1>1, <2>2, <2>4 DEF TypeOK, memory
  <1>4. CASE removeIfNeeded
    <2>1. doomed' \subseteq doomed /\ dirs' \subseteq dirs /\ UNCHANGED <<memory, query, mover, task, phase, crashes>>
      BY <1>4 DEF removeIfNeeded
    <2> QED
      BY <1>1, <2>1 DEF TypeOK, memory
  <1>5. CASE grabOldParts
    <2>1. UNCHANGED <<increment, empties, unloaded, doomed, query, mover, task, dirs, phase, crashes>>
      BY <1>5 DEF grabOldParts
    <2>2. PICK S \in SUBSET Removable : working' = modifyPartState(working, S, "Deleting")
      BY <1>5 DEF grabOldParts
    <2>3. DOMAIN working' = DOMAIN working /\ working' \in [DOMAIN working' -> [disk : Disks, state : States]]
      BY <1>1, <2>2, ModifyEffect DEF States
    <2> QED
      BY <1>1, <2>1, <2>3 DEF TypeOK
  <1>6. CASE clearEmptyParts
    <2>1. UNCHANGED <<increment, empties, unloaded, doomed, query, mover, task, dirs, phase, crashes>>
      BY <1>6 DEF clearEmptyParts
    <2>2. PICK p \in Active : working' = modifyPartState(working, {p}, "Outdated")
      BY <1>6 DEF clearEmptyParts
    <2>3. DOMAIN working' = DOMAIN working /\ working' \in [DOMAIN working' -> [disk : Disks, state : States]]
      BY <1>1, <2>2, ModifyEffect DEF States
    <2> QED
      BY <1>1, <2>1, <2>3 DEF TypeOK
  <1>7. CASE clearPartsFromFilesystem
    <2>1. UNCHANGED <<increment, unloaded, doomed, query, mover, task, phase, crashes>> /\ dirs' \subseteq dirs
      BY <1>7 DEF clearPartsFromFilesystem
    <2>2. /\ empties' \subseteq empties /\ DOMAIN working' \subseteq DOMAIN working
          /\ working' \in [DOMAIN working' -> [disk : Disks, state : States]]
      BY <1>1, <1>7, clearPartsEffect
    <2> QED
      BY <1>1, <2>1, <2>2 DEF TypeOK
  <1>8. CASE loadOutdatedDataParts
    <2>1. UNCHANGED <<increment, empties, doomed, query, mover, task, phase, crashes>>
      BY <1>8 DEF loadOutdatedDataParts
    <2>2. unloaded' \subseteq unloaded /\ dirs' \subseteq dirs
      BY <1>8 DEF loadOutdatedDataParts
    <2>3. DOMAIN working' \subseteq PartInfos
          /\ (UNCHANGED working \/ working' \in [DOMAIN working' -> [disk : Disks, state : States]])
      BY <1>8, loadOutdatedEffect
    <2> QED
      BY <1>1, <2>1, <2>2, <2>3 DEF TypeOK
  <1> QED
    BY <1>2, <1>3, <1>4, <1>5, <1>6, <1>7, <1>8 DEF CleanupStep

LEMMA TypeLoaded ==
    ASSUME IInv, loadDataParts
    PROVE  TypeOK'
  <1>1. TypeOK
    BY DEF IInv
  <1>2. UNCHANGED <<empties, doomed, query, mover, task, dirs, crashes>> /\ phase' = "up" /\ increment' \in 0..MaxBlock
    BY DEF loadDataParts
  <1>3. PICK disk \in [Tops(Parts(dirs)) -> Disks] :
          /\ working' = [p \in DOMAIN disk |-> [disk |-> disk[p], state |-> "Active"]]
          /\ unloaded' = LoadedLater(disk)
    BY DEF loadDataParts
  <1>4. unloaded' \subseteq Objects
    BY <1>1, <1>3 DEF LoadedLater, TypeOK
  <1>5. Tops(Parts(dirs)) \subseteq PartInfos
    BY <1>1 DEF TypeOK, Objects, Parts, Tops
  <1>6. DOMAIN working' \subseteq PartInfos /\ working' \in [DOMAIN working' -> [disk : Disks, state : States]]
    BY <1>3, <1>5 DEF States
  <1> QED
    BY <1>1, <1>2, <1>4, <1>6 DEF TypeOK

(***************************************************************************)
(* The invariant                                                           *)
(***************************************************************************)
LEMMA DownIsFine == TypeOK /\ Down /\ phase = "down" => IInv
  <1> SUFFICES ASSUME TypeOK, Down, phase = "down" PROVE IInv
    OBVIOUS
  <1>1. /\ working = <<>> /\ task = NoTask
        /\ mover = [m \in Movers |-> Idle] /\ query = [r \in Queries |-> {}]
    BY DEF Down
  <1>2. Held = {}
    BY <1>1 DEF Held, NoTask, Idle
  <1>3. Renaming /\ OneCopy
    BY <1>1 DEF Renaming, OneCopy, Idle
  <1> QED
    BY <1>2, <1>3 DEF IInv, HeldStays

LEMMA InitHolds == Init => IInv
  <1> SUFFICES ASSUME Init PROVE IInv
    OBVIOUS
  <1> USE DEF Init
  <1>1. TypeOK
    BY BoundsAssumption, IdleType, NoTaskType DEF TypeOK
  <1>2. DOMAIN working = {} /\ Shown = {} /\ Active = {} /\ Held = {}
    BY DEF Shown, ObjectsOf, Active, In, Held, NoTask, Idle
  <1>3. Renaming /\ OneCopy
    BY DEF Renaming, OneCopy, Idle
  <1>4. HeldStays /\ Placed /\ ActiveDisjoint /\ DirectoriesKnown /\ NothingAbove /\ Numbers
    BY <1>2 DEF HeldStays, Placed, ActiveDisjoint, PairwiseDisjoint, DirectoriesKnown, NothingAbove, Numbers
  <1>5. Results
    BY DEF Results, NoTask
  <1> QED
    BY <1>1, <1>3, <1>4, <1>5 DEF IInv, Down

LEMMA OneCopyKept ==
    ASSUME OneCopy, UNCHANGED mover
    PROVE  OneCopy'
  BY DEF OneCopy

LEMMA StepHolds == IInv /\ [Next]_vars => IInv'
  <1> SUFFICES ASSUME IInv, [Next]_vars PROVE IInv'
    OBVIOUS
  <1>1. TypeOK /\ Down /\ OneCopy /\ Renaming
    BY DEF IInv
  <1>2. ASSUME TypeOK', phase' = "up", OneCopy', Renaming', Files', Names'
        PROVE  IInv'
    BY <1>2 DEF IInv, Down, Files, Names
  <1>3. CASE UNCHANGED vars
    <2>1. /\ UNCHANGED <<increment, working, empties, unloaded, doomed, query, mover>>
          /\ UNCHANGED <<task, dirs, phase, crashes>>
      BY <1>3 DEF vars, memory
    <2>2. TypeOK'
      BY <1>1, <2>1 DEF TypeOK
    <2>3. CASE phase = "down"
      <3>1. (TypeOK /\ Down /\ phase = "down")'
        BY <1>1, <2>1, <2>2, <2>3 DEF Down
      <3> QED
        BY <3>1, DownIsFine, PTL
    <2>4. CASE phase = "up"
      <3>1. Shown' = Shown /\ Going' = Going
        BY <2>1 DEF Shown, Going, ObjectsOf, Object, In
      <3>2. Held' = Held /\ Copies' = Copies
        BY <2>1, HeldSame
      <3>3. Files'
        BY <1>1, <2>1, <2>4, <3>1, <3>2, FilesKept DEF IInv, Files
      <3>4. Names'
        BY <2>1, <2>4, NamesSameWorking DEF IInv, Names
      <3>5. Renaming'
        BY <1>1, <2>1, RenamingKept
      <3> QED
        BY <1>1, <1>2, <2>1, <2>2, <2>4, <3>3, <3>4, <3>5, OneCopyKept
    <2> QED
      BY <1>1, <2>3, <2>4 DEF TypeOK
  <1>4. CASE commitPart
    <2>1. phase = "up" /\ phase' = "up" /\ UNCHANGED <<query, mover, task>> /\ \A n \in Movers : mover[n].stage # "renamed"
      BY <1>4 DEF commitPart, Unlocked
    <2>2. Files'
      BY <1>4, <2>1, HeldSame, FilesAdded, commitPartEffect DEF IInv, Files
    <2>3. Renaming'
      BY <2>1, RenamingNone
    <2> QED
      BY <1>1, <1>2, <1>4, <2>1, <2>2, <2>3, TypeOthers, NamesInserted, OneCopyKept
  <1>5. CASE \E r \in Queries : getDataPartsVector(r) \/ releaseParts(r)
    <2>1. PICK r \in Queries : getDataPartsVector(r) \/ releaseParts(r)
      BY <1>5
    <2>2. phase = "up" /\ phase' = "up" /\ UNCHANGED <<increment, working, unloaded, doomed, mover, task, dirs>>
      BY <2>1 DEF getDataPartsVector, releaseParts, memory, Unlocked
    <2>3. \A q \in Queries : query'[q] \subseteq query[q] \cup ObjectsOf(Active)
      BY <1>1, <2>1 DEF getDataPartsVector, releaseParts, TypeOK
    <2>4. Held' \subseteq Held \cup ObjectsOf(Active)
      BY <2>2, <2>3, HeldGrows
    <2>5. Shown' = Shown /\ Going' = Going /\ Copies' = Copies
      BY <2>2 DEF Shown, Going, ObjectsOf, Object, In, Copies
    <2>6. Files'
      BY <1>1, <2>2, <2>4, <2>5, FilesKept DEF IInv, Files
    <2>7. Names'
      BY <2>2, NamesSameWorking DEF IInv, Names
    <2>8. Renaming'
      BY <1>1, <2>2, RenamingKept
    <2> QED
      BY <1>1, <1>2, <1>5, <2>2, <2>6, <2>7, <2>8, TypeOthers, OneCopyKept
  <1>6. CASE \E m \in Movers : MoverStep(m)
    <2>1. PICK m \in Movers : MoverStep(m)
      BY <1>6
    <2>2. phase = "up" /\ phase' = "up"
      BY <2>1 DEF MoverStep, selectPartsForMove, clonePart, movePartsThrows, dropClonedPart, renameClonedPart,
             renameClonedPartThrows, swapActivePart, Unlocked
    <2>3. OneCopy'
      BY <1>1, <2>1, MoverEffect DEF OneCopy
    <2> QED
      BY <1>2, <2>1, <2>2, <2>3, TypeMoverStep, RenamingMoverStep, FilesMoverStep, NamesMoverStep
  <1>7. CASE removeIfNeeded
    <2>1. phase = "up" /\ phase' = "up" /\ UNCHANGED <<increment, working, unloaded, mover, task>>
      BY <1>7 DEF removeIfNeeded, memory
    <2>2. doomed' \subseteq doomed /\ dirs \ doomed \subseteq dirs' /\ Parts(dirs') \subseteq Parts(dirs)
      BY <1>7 DEF removeIfNeeded, Parts
    <2>3. Names'
      BY <2>1, <2>2, NamesSameWorking DEF IInv, Names
    <2>4. Renaming'
      BY <1>1, <2>1, <2>2, RenamingKept
    <2> QED
      BY <1>1, <1>2, <1>7, <2>1, <2>3, <2>4, TypeOthers, FilesRemoved, OneCopyKept
  <1>8. CASE TaskStep
    <2>1. phase = "up" /\ phase' = "up" /\ UNCHANGED mover
      BY <1>8 DEF TaskStep, selectPartsToMerge, selectPartToMutate, coverPartWithEmptyPart,
             renameMergedTemporaryPart, commit, commitMutation, cancel, Unlocked
    <2>2. Renaming'
      <3>1. CASE cancel
        <4>1. UNCHANGED <<working, unloaded, doomed, dirs>>
          BY <3>1 DEF cancel, memory
        <4> QED
          BY <1>1, <2>1, <4>1, RenamingKept
      <3>2. CASE ~cancel
        <4>1. \A n \in Movers : mover[n].stage # "renamed"
          BY <1>8, <3>2 DEF TaskStep, selectPartsToMerge, selectPartToMutate, coverPartWithEmptyPart,
                 renameMergedTemporaryPart, commit, commitMutation, Unlocked
        <4> QED
          BY <2>1, <4>1, RenamingNone
      <3> QED
        BY <3>1, <3>2
    <2> QED
      BY <1>1, <1>2, <1>8, <2>1, <2>2, TypeTaskStep, FilesTaskStep, NamesTaskStep, OneCopyKept
  <1>9. CASE CleanupStep
    <2>1. phase = "up" /\ phase' = "up" /\ UNCHANGED mover /\ \A n \in Movers : mover[n].stage # "renamed"
      BY <1>9 DEF CleanupStep, grabOldParts, clearPartsFromFilesystem, clearEmptyParts, Unlocked
    <2>2. Renaming'
      BY <2>1, RenamingNone
    <2> QED
      BY <1>1, <1>2, <1>9, <2>1, <2>2, TypeOthers, FilesCleanupStep, NamesCleanupStep, OneCopyKept
  <1>10. CASE Crash
    <2>1. TypeOK'
      BY <1>1, <1>10, BoundsAssumption, IdleType, NoTaskType DEF Crash, TypeOK
    <2>2. (TypeOK /\ Down /\ phase = "down")'
      BY <1>10, <2>1 DEF Crash, Down
    <2> QED
      BY <2>2, DownIsFine, PTL
  <1>11. CASE loadDataParts
    <2>1. phase = "down" /\ phase' = "up" /\ UNCHANGED mover
      BY <1>11 DEF loadDataParts
    <2>2. Renaming'
      BY <1>1, <2>1, RenamingNone DEF Down, Idle
    <2> QED
      BY <1>1, <1>2, <1>11, <2>1, <2>2, TypeLoaded, FilesLoaded, NamesLoaded, OneCopyKept
  <1>12. CASE loadOutdatedDataParts
    <2>1. phase = "up" /\ phase' = "up" /\ UNCHANGED mover /\ \A n \in Movers : mover[n].stage # "renamed"
      BY <1>12 DEF loadOutdatedDataParts, Unlocked
    <2>2. Renaming'
      BY <2>1, RenamingNone
    <2> QED
      BY <1>1, <1>2, <1>12, <2>1, <2>2, TypeOthers, FilesLoadedLater, NamesLoadedLater, OneCopyKept
  <1> QED
    BY <1>3, <1>4, <1>5, <1>6, <1>7, <1>8, <1>9, <1>10, <1>11, <1>12 DEF Next

(* All of the above stays true through inserts, moves, merges, mutations,  *)
(* drops, the cleanup, crashes and restarts.                               *)
THEOREM InvariantHolds == Spec => []IInv
  BY InitHolds, StepHolds, PTL DEF Spec

(* The working set, the taggers of the movers, the background task and the *)
(* directories keep their types.                                           *)
THEOREM TypeCorrect == Spec => []TypeOK
  <1>1. IInv => TypeOK
    BY DEF IInv
  <1> QED
    BY <1>1, InvariantHolds, PTL

(* What is Active or Outdated, and what a query, a mover or a merge points *)
(* to, has its directory: neither the cleanup thread nor the destructor of *)
(* a moved original takes it away.                                         *)
THEOREM ReadableStaysOnDisk == Spec => []ReadableOnDisk
  <1>1. ASSUME IInv
        PROVE  ReadableOnDisk
    <2>1. SUFFICES ASSUME phase = "up"
                   PROVE  ObjectsOf(Active \cup In("Outdated")) \cup Held \subseteq dirs
      BY DEF ReadableOnDisk
    <2>2. Placed /\ HeldStays
      BY <1>1, <2>1 DEF IInv
    <2>3. ObjectsOf(Active \cup In("Outdated")) \subseteq Shown
      BY DEF ObjectsOf, Shown, Active, In
    <2> QED
      BY <2>2, <2>3 DEF Placed, HeldStays
  <1> QED
    BY <1>1, InvariantHolds, PTL

(* Every directory is served by an object that swapClonedPart, the cleanup *)
(* thread, a destructor or loadOutdatedDataParts will come across.         *)
THEOREM NoDirectoryForgotten == Spec => []DirectoriesKnown
  <1>1. IInv => DirectoriesKnown
    BY DEF IInv, DirectoriesKnown
  <1> QED
    BY <1>1, InvariantHolds, PTL

(* Active parts never overlap, although a move replaces an Active part by  *)
(* a copy of the same name while merges and mutations of it go on.         *)
THEOREM ActivePartsDisjoint == Spec => [](phase = "up" => ActiveDisjoint)
  <1>1. IInv => (phase = "up" => ActiveDisjoint)
    BY DEF IInv
  <1> QED
    BY <1>1, InvariantHolds, PTL

-----------------------------------------------------------------------------
(***************************************************************************)
(* What a restart would show                                               *)
(*                                                                         *)
(* A restart makes the topmost directories Active.  Nothing that is Active *)
(* is missed: no directory lies above it (NothingAbove).  Nothing else is  *)
(* shown either, as long as every directory of a part with rows has an     *)
(* Active part above it, or an empty one that is kept for its sake; that   *)
(* grabOldParts keeps the empty part rests on its walk, which finds what   *)
(* it looks for only if the Outdated parts are nested or apart.            *)
(***************************************************************************)

(* The directories that a restart would find, without the originals of     *)
(* moved parts that wait for their destructor.                             *)
Live == Parts(dirs \ doomed)

(* The result whose directory is there, but which is not committed.        *)
Result == IF task.stage = "renamed" THEN Parts(task.result) ELSE {}

Covered(q) == \E a \in Active : contains(a, q)
Kept(q)    == \E e \in empties \cap In("Outdated") : contains(e, q)

(* Old directories are below Active parts, or below empty ones that stay.  *)
OldCovered ==
    phase = "up" =>
        /\ \A u \in Parts(unloaded) : Covered(u)
        /\ \A q \in Live \ empties : q \in Result \/ Covered(q) \/ Kept(q)
        /\ In("PreActive") \subseteq Result

OutdatedNested == phase = "up" => \A p, q \in In("Outdated") : ~Intersect(p, q)

LEMMA LiveTypes ==
    ASSUME TypeOK
    PROVE  Live \subseteq AnyInfo /\ Parts(unloaded) \subseteq AnyInfo /\ Active \subseteq AnyInfo
           /\ Parts(dirs) \subseteq PartInfos /\ In("Outdated") \subseteq PartInfos
  BY PartInfosAreInfos, WorkingTypes DEF Live, Parts, TypeOK, Objects, In

LEMMA ContainsItself ==
    ASSUME NEW a \in AnyInfo
    PROVE  contains(a, a)
  BY DEF AnyInfo, contains, SameBlocks

(* Parts in the working set whose object is in its place are Live.         *)
LEMMA ShownAreLive ==
    ASSUME TypeOK, Placed
    PROVE  DOMAIN working \subseteq Live
  <1> SUFFICES ASSUME NEW p \in DOMAIN working PROVE p \in Live
    OBVIOUS
  <1>1. Object(p) \in dirs \ doomed /\ Object(p)[1] = p
    BY GoingObject DEF Placed, Object
  <1> QED
    BY <1>1 DEF Live, Parts

(* A Live part is Active, or known to one of those who look after it.      *)
LEMMA LiveKnown ==
    ASSUME TypeOK, phase = "up", DirectoriesKnown, Copies = {}, NEW q \in Live
    PROVE  q \in DOMAIN working \/ q \in Parts(unloaded)
  <1>1. PICK o \in dirs \ doomed : o[1] = q
    BY DEF Live, Parts
  <1>2. o \in Shown \/ o \in unloaded
    BY <1>1 DEF DirectoriesKnown, Shown
  <1> QED
    BY <1>1, <1>2, WorkingTypes DEF Parts

-----------------------------------------------------------------------------
(* Most steps add to what covers, or add a part that is Active.            *)
LEMMA OldKept ==
    ASSUME TypeOK, OldCovered, phase = "up", TypeOK',
           Active \subseteq Active', In("Outdated") \subseteq In("Outdated")',
           Result \subseteq Result', In("PreActive")' \subseteq In("PreActive") \cup Result',
           empties \cap In("Outdated") \subseteq empties',
           Parts(unloaded)' \subseteq Parts(unloaded),
           (Live \ empties)' \subseteq (Live \ empties) \cup Active' \cup Result'
    PROVE  OldCovered'
  <1>1. \A q : Covered(q) => Covered(q)'
    BY DEF Covered
  <1>2. \A q : Kept(q) => Kept(q)'
    BY DEF Kept
  <1>3. \A q \in Active' : Covered(q)'
    <2>1. Active' \subseteq AnyInfo
      BY PartInfosAreInfos DEF TypeOK, Active, In
    <2> QED
      BY <2>1, ContainsItself DEF Covered
  <1>4. \A q \in (Live \ empties)' : q \in Result' \/ Covered(q)' \/ Kept(q)'
    BY <1>1, <1>2, <1>3 DEF OldCovered
  <1>5. \A u \in Parts(unloaded)' : Covered(u)'
    BY <1>1 DEF OldCovered
  <1>6. In("PreActive")' \subseteq Result'
    BY DEF OldCovered
  <1> QED
    BY <1>4, <1>5, <1>6 DEF OldCovered

LEMMA OldSameWorking ==
    ASSUME TypeOK, OldCovered, phase = "up", TypeOK', UNCHANGED <<working, empties>>,
           task' = task \/ task.stage # "renamed", Parts(unloaded)' \subseteq Parts(unloaded),
           Live' \subseteq Live \cup Active
    PROVE  OldCovered'
  <1>1. \A s : In(s)' = In(s)
    BY DEF In
  <1>2. Active' = Active
    BY <1>1 DEF Active
  <1>3. Result \subseteq Result'
    BY DEF Result
  <1>4. (Live \ empties)' \subseteq (Live \ empties) \cup Active'
    BY <1>2
  <1> QED
    BY <1>1, <1>2, <1>3, <1>4, OldKept

(* The steps that put a result in the place of what it contains.           *)
LEMMA OldCommitted ==
    ASSUME TypeOK, OldCovered, phase = "up", NEW o \in Objects, working' = Committed(working, o),
           task' = NoTask, Result \subseteq {o[1]}, empties \subseteq empties', UNCHANGED unloaded,
           (Live \ empties)' \subseteq (Live \ empties) \cup {o[1]}
    PROVE  OldCovered'
  <1>0. /\ DOMAIN working' = DOMAIN working \cup {o[1]}
        /\ working'[o[1]] = [disk |-> o[2], state |-> "Active"]
        /\ \A q \in DOMAIN working : q # o[1] =>
              /\ \/ working'[q].state = working[q].state
                 \/ working[q].state = "Active" /\ working'[q].state = "Outdated"
              /\ IF q \in CoveredParts(o[1], Active) THEN working'[q].state = "Outdated"
                                                    ELSE working'[q].state = working[q].state
    BY CommittedEffect
  <1>1. /\ DOMAIN working' = DOMAIN working \cup {o[1]}
        /\ working'[o[1]].state = "Active"
        /\ \A q \in DOMAIN working : q # o[1] =>
              /\ \/ working'[q].state = working[q].state
                 \/ working[q].state = "Active" /\ working'[q].state = "Outdated"
              /\ IF q \in CoveredParts(o[1], Active) THEN working'[q].state = "Outdated"
                                                    ELSE working'[q].state = working[q].state
    BY <1>0
  <1>2. Active \in SUBSET AnyInfo /\ o[1] \in AnyInfo
    BY LiveTypes, PartInfosAreInfos DEF Objects
  <1>3. o[1] \in Active'
    BY <1>1 DEF Active, In
  <1>4. Covered(o[1])'
    BY <1>2, <1>3, ContainsItself DEF Covered
  <1>5. ASSUME NEW q \in AnyInfo, Covered(q)
        PROVE  Covered(q)'
    <2>1. PICK a \in Active : contains(a, q)
      BY <1>5 DEF Covered
    <2>2. CASE a \in CoveredParts(o[1], Active)
      <3>1. contains(o[1], a)
        BY <1>2, <2>2, CoveredAreContained
      <3>2. contains(o[1], q)
        BY <1>2, <2>1, <3>1, ContainsTransitive
      <3> QED
        BY <1>3, <3>2 DEF Covered
    <2>3. CASE a \notin CoveredParts(o[1], Active)
      <3>1. a \in Active'
        BY <1>1, <1>3, <2>1, <2>3 DEF Active, In
      <3> QED
        BY <2>1, <3>1 DEF Covered
    <2> QED
      BY <2>2, <2>3
  <1>6. ASSUME NEW q, Kept(q)
        PROVE  Covered(q)' \/ Kept(q)'
    <2>1. PICK e \in empties \cap In("Outdated") : contains(e, q)
      BY <1>6 DEF Kept
    <2>2. CASE e = o[1]
      BY <1>3, <2>1, <2>2 DEF Covered
    <2>3. CASE e # o[1]
      <3>1. e \in In("Outdated")'
        BY <1>1, <2>1, <2>3 DEF In
      <3> QED
        BY <2>1, <3>1 DEF Kept
    <2> QED
      BY <2>2, <2>3
  <1>7. \A u \in Parts(unloaded)' : Covered(u)'
    BY <1>5, LiveTypes DEF OldCovered, Parts
  <1>8. \A q \in (Live \ empties)' : Covered(q)' \/ Kept(q)'
    <2> SUFFICES ASSUME NEW q \in (Live \ empties)' PROVE Covered(q)' \/ Kept(q)'
      OBVIOUS
    <2>1. CASE q = o[1]
      BY <1>4, <2>1
    <2>2. CASE q # o[1]
      <3>1. q \in Live \ empties /\ q \in AnyInfo /\ q \notin Result
        BY <2>2, LiveTypes
      <3>2. Covered(q) \/ Kept(q)
        BY <3>1 DEF OldCovered
      <3> QED
        BY <1>5, <1>6, <3>1, <3>2
    <2> QED
      BY <2>1, <2>2
  <1>9. In("PreActive")' = {}
    <2> SUFFICES ASSUME NEW q \in In("PreActive")' PROVE FALSE
      OBVIOUS
    <2>1. q # o[1] /\ q \in DOMAIN working /\ working'[q].state = "PreActive"
      BY <1>1 DEF In
    <2>2. q \in In("PreActive")
      BY <1>1, <2>1 DEF In
    <2> QED
      BY <2>1, <2>2 DEF OldCovered
  <1> QED
    BY <1>7, <1>8, <1>9 DEF OldCovered

(* grabOldParts leaves an empty part that is still needed.  Of those that  *)
(* cover q the walk from a heaviest one reaches q: a part on the way that  *)
(* it did not contain would contain it, and would be looked after by a     *)
(* still heavier one, or be below an Active part like q.                   *)
Weight(p) == (p.max - p.min) + p.level + p.mutation

LEMMA ContainerWeighsMore ==
    ASSUME NEW a \in AnyInfo, NEW b \in AnyInfo, contains(a, b), a # b
    PROVE  Weight(a) > Weight(b)
  <1>1. a.min <= b.min /\ a.max >= b.max /\ a.level >= b.level /\ a.mutation >= b.mutation
    BY DEF contains
  <1>2. a.min # b.min \/ a.max # b.max \/ a.level # b.level \/ a.mutation # b.mutation
    BY DEF AnyInfo
  <1> QED
    BY <1>1, <1>2 DEF AnyInfo, Weight

LEMMA HeaviestExists ==
    ASSUME NEW S \in SUBSET PartInfos, S # {}
    PROVE  \E h \in S : \A q \in S : Weight(q) <= Weight(h)
  <1> DEFINE N == MaxBlock + MaxLevel + MaxBlock
             M == {N - Weight(q) : q \in S}
             R == {ss \in Nat \X Nat : ss[1] < ss[2]}
  <1>1. N \in Nat /\ \A q \in PartInfos : Weight(q) \in Nat /\ N - Weight(q) \in Nat
    BY BoundsAssumption DEF PartInfos, Weight
  <1>2. M \subseteq Nat /\ M # {}
    BY <1>1
  <1>3. IsWellFoundedOn(R, Nat)
    BY NatLessThanWellFounded, Zenon DEF OpToRel
  <1>4. PICK x \in M : \A y \in M : ~(<<y, x>> \in R)
    BY <1>2, <1>3, WFMin
  <1>5. \A y, z \in Nat : y < z => <<y, z>> \in R
    OBVIOUS
  <1>6. \A y \in M : y \in Nat /\ ~(y < x)
    BY <1>2, <1>4, <1>5
  <1>7. PICK h \in S : N - Weight(h) = x
    OBVIOUS
  <1> HIDE DEF N
  <1> QED
    BY <1>1, <1>6, <1>7

(* Among parts of a set that contain q there is one that no other of them  *)
(* contains.                                                               *)
LEMMA OutermostExists ==
    ASSUME NEW S \in SUBSET PartInfos, S # {}
    PROVE  \E h \in S : \A q \in S : contains(q, h) => q = h
  <1>1. PICK h \in S : \A q \in S : Weight(q) <= Weight(h)
    BY HeaviestExists
  <1>2. ASSUME NEW q \in S, contains(q, h), q # h
        PROVE  FALSE
    <2>1. q \in AnyInfo /\ h \in AnyInfo
      BY PartInfosAreInfos
    <2>2. Weight(q) > Weight(h) /\ Weight(q) <= Weight(h)
      BY <1>1, <1>2, <2>1, ContainerWeighsMore
    <2>3. Weight(q) \in Int /\ Weight(h) \in Int
      BY <2>1 DEF Weight, AnyInfo
    <2> QED
      BY <2>2, <2>3
  <1> QED
    BY <1>2

(* The walk from e over parts that are nested or apart finds what e        *)
(* contains, if nothing else there contains e.                             *)
LEMMA WalkFinds ==
    ASSUME NEW S \in SUBSET AnyInfo, \A p, q \in S : ~Intersect(p, q),
           NEW e \in S, \A r \in S : contains(r, e) => r = e,
           NEW q \in S, q # e, contains(e, q)
    PROVE  CoveredParts(e, S) # {}
  <1>1. e \in AnyInfo /\ q \in AnyInfo /\ contains(e, e) /\ ~Less(e, e)
    BY ContainsItself, LessIrreflexive
  <1>2. ASSUME NEW r \in S, ~isDisjoint(e, r)
        PROVE  contains(e, r)
    <2>1. contains(e, r) \/ contains(r, e)
      BY <1>2 DEF Intersect
    <2> QED
      BY <1>1, <2>1
  <1>3. CASE Less(q, e)
    <2>1. ASSUME NEW r \in Left(e, S), ~Less(r, q)
          PROVE  contains(e, r)
      <3>1. r \in S /\ r \in AnyInfo /\ Less(r, e)
        BY DEF Left
      <3>2. ~isDisjoint(e, r)
        BY <1>1, <1>3, <2>1, <3>1 DEF Less, contains, isDisjoint, AnyInfo, SameBlocks
      <3> QED
        BY <1>2, <3>1, <3>2
    <2>2. q \in LeftRun(e, S)
      BY <1>3, <2>1 DEF LeftRun, Left
    <2> QED
      BY <2>2 DEF CoveredParts
  <1>4. CASE ~Less(q, e)
    <2>1. ASSUME NEW r \in Right(e, S), ~Less(q, r)
          PROVE  contains(e, r)
      <3>1. r \in S /\ r \in AnyInfo /\ ~Less(r, e)
        BY DEF Right
      <3>2. ~isDisjoint(e, r)
        BY <1>1, <1>4, <2>1, <3>1 DEF Less, contains, isDisjoint, AnyInfo, SameBlocks
      <3> QED
        BY <1>2, <3>1, <3>2
    <2>2. q \in RightRun(e, S)
      BY <1>4, <2>1 DEF RightRun, Right
    <2> QED
      BY <2>2 DEF CoveredParts
  <1> QED
    BY <1>3, <1>4

(* A Live part that nothing Active covers and that is no result is         *)
(* Outdated or Deleting.                                                   *)
LEMMA UncoveredIsOld ==
    ASSUME IInv, OldCovered, phase = "up", Copies = {},
           NEW q \in Live, ~Covered(q), q \notin Result
    PROVE  q \in In("Outdated") \/ q \in In("Deleting")
  <1>1. TypeOK /\ DirectoriesKnown
    BY DEF IInv
  <1>2. q \notin Parts(unloaded)
    BY DEF OldCovered
  <1>3. q \in DOMAIN working
    BY <1>1, <1>2, LiveKnown
  <1>4. working[q].state \in States
    BY <1>1, <1>3, WorkingTypes
  <1>5. q \notin Active
    BY <1>1, LiveTypes, ContainsItself DEF Covered
  <1>6. q \notin In("PreActive")
    BY DEF OldCovered
  <1> QED
    BY <1>3, <1>4, <1>5, <1>6 DEF States, In, Active

(* The result of a task is none of the Outdated parts.                     *)
LEMMA ResultNotOutdated ==
    ASSUME IInv, phase = "up"
    PROVE  Result \cap In("Outdated") = {}
  <1>1. Results
    BY DEF IInv
  <1>2. CASE task.stage # "renamed"
    BY <1>2 DEF Result
  <1>3. CASE task.stage = "renamed"
    <2>1. task.kind # "none"
      BY <1>1, <1>3 DEF Results, NoTask
    <2>2. PICK o \in Objects : task.result = {o} /\ working[o[1]] = [disk |-> o[2], state |-> "PreActive"]
      BY <1>1, <1>3, <2>1 DEF Results
    <2> QED
      BY <2>2 DEF Result, Parts, In
  <1> QED
    BY <1>2, <1>3

LEMMA NeededStays ==
    ASSUME IInv, OldCovered, OutdatedNested, phase = "up", Copies = {}, In("Deleting") = {},
           NEW q \in Live \ empties, ~Covered(q), q \notin Result
    PROVE  \E e \in (empties \cap In("Outdated")) \ Removable : contains(e, q)
  <1> DEFINE S == In("Outdated")
             E == {e \in empties \cap S : contains(e, q)}
  <1>1. TypeOK /\ Placed
    BY DEF IInv
  <1>2. q \in S /\ S \in SUBSET PartInfos /\ S \in SUBSET AnyInfo /\ S \subseteq Live
    <2>1. S \subseteq DOMAIN working
      BY DEF In
    <2> QED
      BY <1>1, <2>1, UncoveredIsOld, LiveTypes, PartInfosAreInfos, ShownAreLive
  <1>3. E # {}
    BY DEF OldCovered, Kept
  <1>4. PICK h \in E : \A e \in E : contains(e, h) => e = h
    BY <1>2, <1>3, OutermostExists
  <1>5. ASSUME NEW r \in S, contains(r, h)
        PROVE  r = h
    <2>1. contains(r, q)
      BY <1>2, <1>4, <1>5, ContainsTransitive
    <2>2. CASE r \in empties
      BY <1>4, <1>5, <2>1, <2>2
    <2>3. CASE r \notin empties
      <3>1. r \in Live \ empties /\ r \notin Result
        BY <1>2, <2>3, ResultNotOutdated
      <3>2. ~Covered(r)
        <4> SUFFICES ASSUME NEW a \in Active, contains(a, r) PROVE FALSE
          BY DEF Covered
        <4>1. a \in AnyInfo
          BY <1>1, LiveTypes
        <4>2. contains(a, q)
          BY <1>2, <2>1, <4>1, ContainsTransitive
        <4> QED
          BY <4>2 DEF Covered
      <3>3. PICK e \in empties \cap S : contains(e, r)
        BY <3>1, <3>2 DEF OldCovered, Kept
      <3>4. contains(e, q) /\ contains(e, h)
        BY <1>2, <1>4, <1>5, <2>1, <3>3, ContainsTransitive
      <3>5. e = h
        BY <1>4, <3>3, <3>4
      <3> QED
        BY <1>2, <1>4, <1>5, <3>3, <3>5, ContainsAntisymmetric
    <2> QED
      BY <2>2, <2>3
  <1>6. h \in S /\ contains(h, q) /\ h \in empties /\ q # h
    BY <1>4
  <1>7. \A p, r \in S : ~Intersect(p, r)
    BY DEF OutdatedNested
  <1> HIDE DEF E, S
  <1>8. CoveredParts(h, S) # {}
    BY <1>2, <1>5, <1>6, <1>7, WalkFinds
  <1>9. h \notin Removable
    BY <1>6, <1>8 DEF Removable, S
  <1> QED
    BY <1>6, <1>9 DEF S

LEMMA OldGrabbed ==
    ASSUME IInv, OldCovered, OutdatedNested, phase = "up", Copies = {}, grabOldParts
    PROVE  OldCovered'
  <1>1. TypeOK
    BY DEF IInv
  <1>2. PICK S \in SUBSET Removable : working' = modifyPartState(working, S, "Deleting")
    BY DEF grabOldParts
  <1>3. In("Deleting") = {} /\ UNCHANGED <<empties, unloaded, doomed, task, dirs>>
    BY DEF grabOldParts
  <1>4. /\ DOMAIN working' = DOMAIN working
        /\ \A q \in DOMAIN working : q \notin S => working'[q] = working[q]
        /\ \A q \in DOMAIN working \cap S : working'[q].state = "Deleting"
    BY <1>1, <1>2, ModifyEffect DEF States
  <1>5. \A q \in S : q \in In("Outdated")
    BY <1>2 DEF Removable
  <1>6. Active' = Active /\ In("PreActive")' = In("PreActive") /\ In("Outdated") \ S \subseteq In("Outdated")'
    BY <1>4, <1>5 DEF Active, In
  <1>7. Live' = Live /\ Result' = Result /\ \A q : Covered(q)' <=> Covered(q)
    BY <1>3, <1>6 DEF Live, Result, Covered, Parts
  <1>8. ASSUME NEW q \in Live \ empties, ~Covered(q), q \notin Result
        PROVE  Kept(q)'
    <2>1. PICK e \in (empties \cap In("Outdated")) \ Removable : contains(e, q)
      BY <1>3, <1>8, NeededStays
    <2> QED
      BY <1>2, <1>3, <1>6, <2>1 DEF Kept
  <1>9. \A q \in (Live \ empties)' : q \in Result' \/ Covered(q)' \/ Kept(q)'
    BY <1>3, <1>7, <1>8
  <1>10. \A u \in Parts(unloaded)' : Covered(u)'
    BY <1>3, <1>7 DEF OldCovered, Parts
  <1>11. In("PreActive")' \subseteq Result'
    BY <1>6, <1>7 DEF OldCovered
  <1> QED
    BY <1>9, <1>10, <1>11 DEF OldCovered

(* An empty part that is no longer Active goes on covering.                *)
LEMMA OldEmptied ==
    ASSUME IInv, OldCovered, phase = "up", clearEmptyParts
    PROVE  OldCovered'
  <1>1. TypeOK
    BY DEF IInv
  <1>2. PICK p \in Active \cap empties : working' = modifyPartState(working, {p}, "Outdated")
    BY DEF clearEmptyParts
  <1>3. unloaded = {} /\ UNCHANGED <<empties, unloaded, doomed, task, dirs>>
    BY DEF clearEmptyParts
  <1>4. /\ DOMAIN working' = DOMAIN working
        /\ \A q \in DOMAIN working : q \notin {p} => working'[q] = working[q]
        /\ \A q \in DOMAIN working \cap {p} : working'[q].state = "Outdated" /\ working'[q].disk = working[q].disk
    BY <1>1, <1>2, ModifyEffect DEF States
  <1>5. p \in DOMAIN working
    BY DEF Active, In
  <1>6. /\ Active \ {p} \subseteq Active' /\ In("PreActive")' \subseteq In("PreActive")
        /\ In("Outdated") \cup {p} \subseteq In("Outdated")'
    BY <1>4, <1>5 DEF Active, In
  <1>7. Live' = Live /\ Result' = Result
    BY <1>3 DEF Live, Result, Parts
  <1>8. \A q : Kept(q) => Kept(q)'
    BY <1>3, <1>6 DEF Kept
  <1>9. \A q : Covered(q) => Covered(q)' \/ Kept(q)'
    BY <1>2, <1>3, <1>6 DEF Covered, Kept
  <1>10. \A q \in (Live \ empties)' : q \in Result' \/ Covered(q)' \/ Kept(q)'
    BY <1>3, <1>7, <1>8, <1>9 DEF OldCovered
  <1>11. Parts(unloaded)' = {}
    BY <1>3 DEF Parts
  <1>12. In("PreActive")' \subseteq Result'
    BY <1>6, <1>7 DEF OldCovered
  <1> QED
    BY <1>10, <1>11, <1>12 DEF OldCovered

(* Every directory is below one of those that are loaded first.            *)
LEMMA TopAbove ==
    ASSUME NEW K \in SUBSET PartInfos, NEW u \in K
    PROVE  \E a \in Tops(K) : contains(a, u)
  <1> DEFINE C == {q \in K : contains(q, u)}
  <1>1. u \in C /\ C \in SUBSET PartInfos
    BY PartInfosAreInfos, ContainsItself
  <1>2. PICK h \in C : \A q \in C : contains(q, h) => q = h
    BY <1>1, OutermostExists
  <1>3. ASSUME NEW q \in K \ {h}, contains(q, h)
        PROVE  FALSE
    <2>1. contains(q, u)
      BY <1>3, PartInfosAreInfos, ContainsTransitive
    <2> QED
      BY <1>2, <1>3, <2>1
  <1> QED
    BY <1>3 DEF Tops

LEMMA OldLoaded ==
    ASSUME IInv, loadDataParts
    PROVE  OldCovered'
  <1>1. TypeOK /\ Down /\ phase = "down"
    BY DEF IInv, loadDataParts
  <1>2. task' = NoTask /\ UNCHANGED <<dirs, doomed, empties>> /\ doomed = {}
    BY <1>1 DEF Down, loadDataParts
  <1>3. PICK disk \in [Tops(Parts(dirs)) -> Disks] :
          /\ working' = [p \in DOMAIN disk |-> [disk |-> disk[p], state |-> "Active"]]
          /\ unloaded' = LoadedLater(disk)
    BY DEF loadDataParts
  <1>4. Active' = Tops(Parts(dirs)) /\ In("PreActive")' = {}
    BY <1>3 DEF Active, In
  <1>5. Live' = Parts(dirs) /\ Parts(unloaded)' \subseteq Parts(dirs)
    BY <1>2, <1>3 DEF Live, Parts, LoadedLater
  <1>6. \A q \in Parts(dirs) : Covered(q)'
    BY <1>1, <1>4, LiveTypes, TopAbove DEF Covered
  <1> QED
    BY <1>4, <1>5, <1>6 DEF OldCovered

-----------------------------------------------------------------------------
LEMMA OldMoverStep ==
    ASSUME IInv, OldCovered, phase = "up", TypeOK', NEW m \in Movers, MoverStep(m)
    PROVE  OldCovered'
  <1>1. TypeOK
    BY DEF IInv
  <1>2. CASE selectPartsForMove(m) \/ clonePart(m) \/ movePartsThrows(m) \/ dropClonedPart(m)
    <2>1. UNCHANGED <<working, empties, unloaded, doomed, task, dirs>>
      BY <1>2 DEF selectPartsForMove, clonePart, movePartsThrows, dropClonedPart, memory
    <2>2. Live' = Live /\ Parts(unloaded)' = Parts(unloaded)
      BY <2>1 DEF Live, Parts
    <2> QED
      BY <1>1, <2>1, <2>2, OldSameWorking
  <1>3. CASE renameClonedPart(m) \/ renameClonedPartThrows(m)
    <2>1. UNCHANGED <<working, empties, unloaded, task>>
      BY <1>3 DEF renameClonedPart, renameClonedPartThrows, memory
    <2>2. \E mv \in mover[m].current : /\ mv.part \in Active /\ dirs' = dirs \cup {<<mv.part, mv.to>>}
                                       /\ doomed \subseteq doomed'
      BY <1>3 DEF renameClonedPart, renameClonedPartThrows, isActive
    <2>3. Live' \subseteq Live \cup Active /\ Parts(unloaded)' = Parts(unloaded)
      BY <2>1, <2>2 DEF Live, Parts
    <2> QED
      BY <1>1, <2>1, <2>3, OldSameWorking
  <1>4. CASE swapActivePart(m)
    <2>1. UNCHANGED <<empties, unloaded, task, dirs>>
      BY <1>4 DEF swapActivePart
    <2>2. PICK mv \in Moves :
             /\ Object(mv.part) \in ObjectsOf(Active)
             /\ doomed' = doomed \cup {Object(mv.part)}
             /\ DOMAIN working' = DOMAIN working /\ Active' = Active
             /\ working'[mv.part].state = working[mv.part].state
             /\ \A q \in DOMAIN working : q # mv.part => working'[q] = working[q]
      BY <1>4, swapEffect
    <2>3. \A s : In(s)' = In(s)
      BY <2>2 DEF In
    <2>4. Live' \subseteq Live /\ Parts(unloaded)' = Parts(unloaded) /\ Result' = Result
      BY <2>1, <2>2 DEF Live, Parts, Result
    <2> QED
      BY <1>1, <2>1, <2>2, <2>3, <2>4, OldKept
  <1> QED
    BY <1>2, <1>3, <1>4 DEF MoverStep

LEMMA OldTaskStep ==
    ASSUME IInv, OldCovered, phase = "up", TypeOK', TaskStep
    PROVE  OldCovered'
  <1>1. TypeOK /\ Results
    BY DEF IInv
  <1>2. CASE selectPartsToMerge \/ selectPartToMutate \/ coverPartWithEmptyPart \/ cancel
    <2>1. UNCHANGED <<working, empties, unloaded, doomed, dirs>> /\ task.stage # "renamed"
      BY <1>2 DEF selectPartsToMerge, selectPartToMutate, coverPartWithEmptyPart, cancel, memory, NoTask
    <2>2. Live' = Live /\ Parts(unloaded)' = Parts(unloaded)
      BY <2>1 DEF Live, Parts
    <2> QED
      BY <1>1, <2>1, <2>2, OldSameWorking
  <1>3. CASE renameMergedTemporaryPart
    <2>1. /\ task' = [task EXCEPT !.stage = "renamed"] /\ task.stage = "run"
          /\ empties \subseteq empties' /\ UNCHANGED <<unloaded, doomed>>
      BY <1>3, renameMergedEffect DEF renameMergedTemporaryPart, WithResult
    <2>2. PICK o \in task.result : /\ dirs' = dirs \cup {o}
                                   /\ DOMAIN working' = DOMAIN working \cup {o[1]}
                                   /\ working'[o[1]] = [disk |-> o[2], state |-> "PreActive"]
                                   /\ o[1] \notin DOMAIN working
                                   /\ \A q \in DOMAIN working : working'[q] = working[q]
      <3>1. PICK o \in task.result : /\ Adds(o)
                                     /\ DOMAIN working' = DOMAIN working \cup {o[1]}
                                     /\ working'[o[1]] = [disk |-> o[2], state |-> "PreActive"]
                                     /\ \A q \in DOMAIN working : working'[q] = working[q]
        BY <1>3, renameMergedEffect
      <3>2. task.kind # "none"
        BY <1>3 DEF renameMergedTemporaryPart
      <3> QED
        BY <2>1, <3>1, <3>2, ResultIsNew DEF Adds
    <2>3. Result = {} /\ Result' = Parts(task.result) /\ o[1] \in Result'
      <3>1. task'.stage = "renamed" /\ task'.result = task.result
        BY <1>1, <2>1 DEF TypeOK, Tasks
      <3> QED
        BY <2>1, <2>2, <3>1 DEF Result, Parts
    <2>4. /\ Active' = Active /\ In("Outdated")' = In("Outdated")
          /\ In("PreActive")' \subseteq In("PreActive") \cup {o[1]}
      BY <2>2 DEF Active, In
    <2>5. Live' \subseteq Live \cup {o[1]} /\ Parts(unloaded)' = Parts(unloaded)
      BY <2>1, <2>2 DEF Live, Parts
    <2> QED
      BY <1>1, <2>1, <2>3, <2>4, <2>5, OldKept
  <1>4. CASE commit
    <2>1. UNCHANGED <<empties, unloaded, doomed, dirs>> /\ task' = NoTask
      BY <1>4 DEF commit
    <2>2. PICK o \in Objects : task.result = {o} /\ working' = Committed(working, o)
      BY <1>4, commitEffect
    <2>3. Live' = Live /\ Result \subseteq {o[1]}
      BY <2>1, <2>2 DEF Live, Result, Parts
    <2> QED
      BY <1>1, <2>1, <2>2, <2>3, OldCommitted
  <1>5. CASE commitMutation
    <2>1. task.kind = "mutate" /\ task' = NoTask /\ empties \subseteq empties' /\ UNCHANGED <<unloaded, doomed>>
      BY <1>5 DEF commitMutation, WithResult
    <2>2. PICK o \in task.result : working' = Committed(working, o) /\ dirs' = dirs \cup {o}
      BY <1>5 DEF commitMutation
    <2>3. o \in Objects /\ task.stage # "renamed"
      BY <1>1, <2>1, <2>2 DEF Results, TypeOK, Tasks
    <2>4. Live' \subseteq Live \cup {o[1]} /\ Result = {}
      BY <2>1, <2>2, <2>3 DEF Live, Result, Parts
    <2> QED
      BY <1>1, <2>1, <2>2, <2>3, <2>4, OldCommitted
  <1> QED
    BY <1>2, <1>3, <1>4, <1>5 DEF TaskStep

LEMMA OldCleanupStep ==
    ASSUME IInv, OldCovered, OutdatedNested, phase = "up", TypeOK', CleanupStep
    PROVE  OldCovered'
  <1>1. TypeOK
    BY DEF IInv
  <1>2. CASE grabOldParts
    <2>1. Copies = {}
      BY <1>2 DEF grabOldParts, Unlocked, Copies
    <2> QED
      BY <1>2, <2>1, OldGrabbed
  <1>3. CASE clearPartsFromFilesystem
    <2>1. UNCHANGED <<unloaded, doomed, task>>
      BY <1>3 DEF clearPartsFromFilesystem
    <2>2. PICK p \in In("Deleting") : /\ dirs' = dirs \ {Object(p)} /\ working' = Without(working, {p})
                                      /\ empties' = empties \ ({p} \ Parts(dirs'))
      BY <1>3 DEF clearPartsFromFilesystem
    <2>3. /\ Active' = Active /\ In("Outdated")' = In("Outdated") /\ In("PreActive")' = In("PreActive")
          /\ p \notin In("Outdated")
      BY <2>2 DEF Active, In, Without
    <2>4. Live' \subseteq Live /\ Live' \subseteq Parts(dirs') /\ Parts(unloaded)' = Parts(unloaded) /\ Result' = Result
      BY <2>1, <2>2 DEF Live, Parts, Result
    <2>5. (Live \ empties)' \subseteq Live \ empties
      BY <2>2, <2>4
    <2> QED
      BY <1>1, <2>2, <2>3, <2>4, <2>5, OldKept
  <1> QED
    BY <1>2, <1>3, OldEmptied DEF CleanupStep

LEMMA OldStep == IInv /\ IInv' /\ OldCovered /\ OutdatedNested /\ [Next]_vars => OldCovered'
  <1> SUFFICES ASSUME IInv, IInv', OldCovered, OutdatedNested, [Next]_vars
               PROVE  OldCovered'
    OBVIOUS
  <1>1. TypeOK /\ TypeOK'
    BY DEF IInv
  <1>2. CASE phase = "down"
    <2>1. CASE loadDataParts
      BY <2>1, OldLoaded
    <2>2. CASE ~loadDataParts
      <3>1. UNCHANGED vars
        BY <1>2, <2>2 DEF Next, commitPart, getDataPartsVector, releaseParts, MoverStep, selectPartsForMove,
               clonePart, movePartsThrows, dropClonedPart, renameClonedPart, renameClonedPartThrows,
               swapActivePart, removeIfNeeded, TaskStep, selectPartsToMerge, selectPartToMutate,
               coverPartWithEmptyPart, renameMergedTemporaryPart, commit, commitMutation, cancel,
               CleanupStep, grabOldParts, clearPartsFromFilesystem, clearEmptyParts, Crash,
               loadOutdatedDataParts, Unlocked
      <3> QED
        BY <1>2, <3>1 DEF OldCovered, vars
    <2> QED
      BY <2>1, <2>2
  <1>3. CASE phase = "up"
    <2>1. CASE UNCHANGED vars \/ (\E r \in Queries : getDataPartsVector(r) \/ releaseParts(r)) \/ removeIfNeeded
      <3>1. UNCHANGED <<working, empties, unloaded, task>>
        BY <2>1 DEF vars, memory, getDataPartsVector, releaseParts, removeIfNeeded
      <3>2. dirs' \ doomed' \subseteq dirs \ doomed
        BY <2>1 DEF vars, memory, getDataPartsVector, releaseParts, removeIfNeeded
      <3>3. Live' \subseteq Live /\ Parts(unloaded)' = Parts(unloaded)
        BY <3>1, <3>2 DEF Live, Parts
      <3> QED
        BY <1>1, <1>3, <3>1, <3>3, OldSameWorking
    <2>2. CASE commitPart
      <3>1. UNCHANGED <<empties, unloaded, doomed, task>>
        BY <2>2 DEF commitPart
      <3>2. PICK d \in Disks :
              LET p == [min |-> increment', max |-> increment', level |-> 0, mutation |-> 0] IN
              /\ working' = Put(working, p, [disk |-> d, state |-> "Active"])
              /\ dirs' = dirs \cup {<<p, d>>}
        BY <2>2 DEF commitPart
      <3> DEFINE p == [min |-> increment', max |-> increment', level |-> 0, mutation |-> 0]
      <3>3. working' = Put(working, p, [disk |-> d, state |-> "Active"]) /\ dirs' = dirs \cup {<<p, d>>}
        BY <3>2
      <3>4. p \notin DOMAIN working
        BY <1>3, <2>2, InsertedIsNew DEF IInv, commitPart
      <3> HIDE DEF p
      <3>5. Active' = Active \cup {p} /\ In("Outdated")' = In("Outdated") /\ In("PreActive")' = In("PreActive")
        BY <3>3, <3>4 DEF Active, In, Put
      <3>6. Live' \subseteq Live \cup {p} /\ Parts(unloaded)' = Parts(unloaded) /\ Result' = Result
        BY <3>1, <3>3 DEF Live, Parts, Result
      <3> QED
        BY <1>1, <1>3, <3>1, <3>5, <3>6, OldKept
    <2>3. CASE loadOutdatedDataParts
      <3>1. UNCHANGED <<empties, doomed, task>>
        BY <2>3 DEF loadOutdatedDataParts
      <3>2. PICK o \in unloaded :
              /\ unloaded' = unloaded \ {o}
              /\ IF o[1] \in DOMAIN working
                 THEN dirs' = dirs \ {o} /\ UNCHANGED working
                 ELSE working' = Put(working, o[1], [disk |-> o[2], state |-> "Outdated"]) /\ UNCHANGED dirs
        BY <2>3 DEF loadOutdatedDataParts
      <3>3. Live' \subseteq Live /\ Parts(unloaded)' \subseteq Parts(unloaded) /\ Result' = Result
        BY <3>1, <3>2 DEF Live, Parts, Result
      <3>4. /\ Active' = Active /\ In("Outdated") \subseteq In("Outdated")'
            /\ In("PreActive")' = In("PreActive")
        <4>1. CASE o[1] \in DOMAIN working
          BY <3>2, <4>1 DEF Active, In
        <4>2. CASE o[1] \notin DOMAIN working
          BY <3>2, <4>2 DEF Active, In, Put
        <4> QED
          BY <4>1, <4>2
      <3> QED
        BY <1>1, <1>3, <3>1, <3>3, <3>4, OldKept
    <2>4. CASE Crash
      BY <2>4 DEF Crash, OldCovered
    <2>5. CASE \E m \in Movers : MoverStep(m)
      BY <1>1, <1>3, <2>5, OldMoverStep
    <2>6. CASE TaskStep
      BY <1>1, <1>3, <2>6, OldTaskStep
    <2>7. CASE CleanupStep
      BY <1>1, <1>3, <2>7, OldCleanupStep
    <2>8. CASE loadDataParts
      BY <1>3, <2>8 DEF loadDataParts
    <2> QED
      BY <2>1, <2>2, <2>3, <2>4, <2>5, <2>6, <2>7, <2>8 DEF Next
  <1> QED
    BY <1>1, <1>2, <1>3 DEF TypeOK

LEMMA OldInit == Init => OldCovered
  BY DEF Init, OldCovered, Live, Parts, In

-----------------------------------------------------------------------------
(* Whatever is shown now a restart would show.                             *)
RestartLosesNothing ==
    phase = "up" => Visible(AfterCommit) \subseteq Visible(Tops(Parts(dirs \ doomed)))

LEMMA NothingLost == IInv => RestartLosesNothing
  <1> SUFFICES ASSUME IInv, phase = "up", NEW x \in AfterCommit
               PROVE  x \in Tops(Live)
    BY DEF RestartLosesNothing, Visible, Live
  <1>1. TypeOK /\ Placed /\ Results /\ NothingAbove
    BY DEF IInv
  <1>2. Live \subseteq Parts(dirs) /\ Active \subseteq Live /\ DOMAIN working \subseteq Live
    BY <1>1, ShownAreLive DEF Live, Parts, Active, In
  <1>3. CASE task.stage # "renamed"
    <2>1. x \in Active
      BY <1>3 DEF AfterCommit
    <2>2. \A q \in Live : contains(q, x) => q = x
      BY <1>1, <1>2, <1>3, <2>1 DEF NothingAbove
    <2> QED
      BY <1>2, <2>1, <2>2 DEF Tops
  <1>4. CASE task.stage = "renamed"
    <2>1. task.kind # "none"
      BY <1>1, <1>4 DEF Results, NoTask
    <2>2. PICK o \in Objects :
             /\ task.result = {o} /\ task.sources # {} /\ o[1] \in DOMAIN working
             /\ \A s \in task.sources : s[1] \in Active /\ contains(o[1], s[1]) /\ s[1] # o[1]
      BY <1>1, <1>4, <2>1 DEF Results
    <2>3. Parts(task.result) = {o[1]}
      BY <2>2 DEF Parts
    <2>4. o[1] \in AnyInfo /\ Live \subseteq AnyInfo /\ Active \subseteq AnyInfo
      BY <1>1, LiveTypes, PartInfosAreInfos DEF Objects
    <2>5. CASE x = o[1]
      <3>1. PICK s \in task.sources : TRUE
        BY <2>2
      <3>2. ASSUME NEW q \in Live, contains(q, x)
            PROVE  q = x
        <4>1. contains(q, s[1])
          BY <2>2, <2>4, <2>5, <3>2, ContainsTransitive
        <4>2. q = s[1] \/ q = o[1]
          BY <1>1, <1>2, <2>2, <2>3, <4>1 DEF NothingAbove
        <4>3. q # s[1]
          BY <2>2, <2>4, <2>5, <3>2, ContainsAntisymmetric
        <4> QED
          BY <2>5, <4>2, <4>3
      <3> QED
        BY <1>2, <2>2, <2>5, <3>2 DEF Tops
    <2>6. CASE x # o[1]
      <3>1. x \in Active /\ ~contains(o[1], x)
        BY <1>4, <2>2, <2>3, <2>6 DEF AfterCommit
      <3>2. \A q \in Live : contains(q, x) => q = x
        BY <1>1, <1>2, <2>3, <3>1 DEF NothingAbove
      <3> QED
        BY <1>2, <3>1, <3>2 DEF Tops
    <2> QED
      BY <2>5, <2>6
  <1> QED
    BY <1>3, <1>4

LEMMA NothingOldShown == IInv /\ OldCovered => RestartShowsActive
  <1> SUFFICES ASSUME IInv, OldCovered, phase = "up"
               PROVE  Visible(Tops(Live)) = Visible(AfterCommit)
    BY DEF RestartShowsActive, Live
  <1>1. TypeOK /\ Placed
    BY DEF IInv
  <1>2. Visible(AfterCommit) \subseteq Visible(Tops(Live))
    BY NothingLost DEF RestartLosesNothing, Live
  <1>3. Active \subseteq Live /\ In("Outdated") \subseteq Live
    BY <1>1, ShownAreLive DEF Active, In
  <1>4. ASSUME NEW q \in Tops(Live), q \notin empties
        PROVE  q \in AfterCommit
    <2>1. q \in Live \ empties /\ \A r \in Live : contains(r, q) => r = q
      BY <1>4 DEF Tops
    <2>2. ~Kept(q)
      BY <1>3, <1>4, <2>1 DEF Kept
    <2>3. q \in Result \/ q \in Active
      BY <1>3, <2>1, <2>2 DEF OldCovered, Covered
    <2>4. Result \subseteq AfterCommit
      BY DEF Result, AfterCommit
    <2>5. ASSUME q \in Active
          PROVE  q \in AfterCommit
      <3>1. CASE task.stage # "renamed"
        BY <2>5, <3>1 DEF AfterCommit
      <3>2. CASE task.stage = "renamed"
        <4>1. \A o \in task.result : o[1] \in Live
          <5>1. task.kind # "none"
            BY <3>2 DEF IInv, Results, NoTask
          <5>2. \A o \in task.result : o[1] \in DOMAIN working
            BY <3>2, <5>1 DEF IInv, Results
          <5> QED
            BY <1>1, <5>2, ShownAreLive
        <4>2. \A o \in task.result : contains(o[1], q) => q \in Parts(task.result)
          BY <2>1, <4>1 DEF Parts
        <4> QED
          BY <2>5, <3>2, <4>2 DEF AfterCommit
      <3> QED
        BY <3>1, <3>2
    <2> QED
      BY <2>3, <2>4, <2>5
  <1> QED
    BY <1>2, <1>4 DEF Visible

(* A crash at any moment, also between the rename of a copy and the swap:  *)
(* every part with rows that is Active now, or about to be committed with  *)
(* its directory in place, is what loadDataParts will make Active.         *)
THEOREM RestartLosesNoPart == Spec => []RestartLosesNothing
  BY NothingLost, InvariantHolds, PTL

(* While the Outdated parts are nested or apart a restart would also show  *)
(* nothing else: no older version of a part that was moved, merged,        *)
(* mutated or dropped.                                                     *)
THEOREM RestartShowsNoOldPart == Spec /\ []OutdatedNested => []RestartShowsActive
  <1>1. Spec => []IInv
    BY InvariantHolds
  <1>2. Spec /\ []IInv /\ []OutdatedNested => []OldCovered
    BY OldInit, OldStep, PTL DEF Spec
  <1> QED
    BY <1>1, <1>2, NothingOldShown, PTL

(***************************************************************************)
(* When are they nested or apart?  canMergeParts compares the level of what *)
(* lies in the gap between two neighbours, not its mutation.               *)
(***************************************************************************)
NewNames == Live \cup Parts(task.result)

NamesNested == phase = "up" => \A p, q \in NewNames : ~Intersect(p, q)

(* A merge is not over a gap that holds a directory with a later mutation  *)
(* than that of its result.                                                *)
GapsNotMutated ==
    selectPartsToMerge =>
        \A o \in task'.result : \A q \in Live : ~isDisjoint(q, o[1]) => q.mutation <= o[1].mutation

LEMMA DisjointNotIntersect ==
    ASSUME NEW p, NEW q, p.min > q.max \/ p.max < q.min
    PROVE  ~Intersect(p, q)
  BY DEF Intersect, isDisjoint

LEMMA IntersectSymmetric ==
    ASSUME NEW p \in AnyInfo, NEW q \in AnyInfo, ~Intersect(p, q)
    PROVE  ~Intersect(q, p)
  BY DisjointSymmetric DEF Intersect

LEMMA NewNamesTypes ==
    ASSUME TypeOK
    PROVE  NewNames \subseteq AnyInfo
  <1>1. task.result \subseteq Objects
    BY DEF TypeOK, Tasks
  <1> QED
    BY <1>1, LiveTypes, PartInfosAreInfos DEF NewNames, Parts, Objects

LEMMA NestedKept ==
    ASSUME NamesNested, phase = "up", NewNames' \subseteq NewNames
    PROVE  NamesNested'
  BY DEF NamesNested, Intersect, isDisjoint, contains, SameBlocks, isFakeDropRangePart

LEMMA NestedAdded ==
    ASSUME NamesNested, TypeOK, phase = "up", NEW p \in AnyInfo, NewNames' \subseteq NewNames \cup {p},
           \A q \in NewNames : ~Intersect(p, q)
    PROVE  NamesNested'
  <1>1. ~Intersect(p, p)
    BY ContainsItself DEF Intersect
  <1>2. \A q \in NewNames : ~Intersect(q, p)
    BY NewNamesTypes, IntersectSymmetric
  <1>3. \A q, r \in NewNames \cup {p} : ~Intersect(q, r)
    BY <1>1, <1>2 DEF NamesNested
  <1> QED
    BY <1>3 DEF NamesNested

(* A part of the same blocks as an Active one, but newer, stays nested.    *)
LEMMA SuccessorNested ==
    ASSUME IInv, NamesNested, phase = "up", task = NoTask, NEW q \in Active, NEW p \in AnyInfo,
           p.min = q.min, p.max = q.max, contains(p, q)
    PROVE  \A r \in NewNames : ~Intersect(p, r)
  <1>1. TypeOK /\ Placed /\ NothingAbove
    BY DEF IInv
  <1>2. NewNames = Live
    BY DEF NewNames, NoTask, Parts
  <1>3. q \in Live /\ q \in AnyInfo /\ Live \subseteq AnyInfo /\ Live \subseteq Parts(dirs)
    BY <1>1, LiveTypes, ShownAreLive DEF Active, In, Live, Parts
  <1> SUFFICES ASSUME NEW r \in Live PROVE ~Intersect(p, r)
    BY <1>2
  <1>4. ~Intersect(q, r)
    BY <1>2, <1>3 DEF NamesNested
  <1>5. CASE isDisjoint(q, r)
    BY <1>5 DEF isDisjoint, Intersect
  <1>6. CASE contains(q, r)
    <2>1. contains(p, r)
      BY <1>3, <1>6, ContainsTransitive
    <2> QED
      BY <2>1 DEF Intersect
  <1>7. CASE contains(r, q)
    <2>1. r = q
      BY <1>1, <1>3, <1>7 DEF NothingAbove, NoTask
    <2> QED
      BY <2>1 DEF Intersect
  <1> QED
    BY <1>4, <1>5, <1>6, <1>7 DEF Intersect

(* Every set of parts has one that begins no earlier than the others.      *)
LEMMA LastExists ==
    ASSUME NEW S \in SUBSET PartInfos, S # {}
    PROVE  \E f \in S : \A q \in S : q.min <= f.min
  <1> DEFINE M == {MaxBlock - q.min : q \in S}
             R == {ss \in Nat \X Nat : ss[1] < ss[2]}
  <1>1. \A q \in PartInfos : q.min \in Nat /\ MaxBlock - q.min \in Nat
    BY BoundsAssumption DEF PartInfos
  <1>2. M \subseteq Nat /\ M # {}
    BY <1>1
  <1>3. IsWellFoundedOn(R, Nat)
    BY NatLessThanWellFounded, Zenon DEF OpToRel
  <1>4. PICK x \in M : \A y \in M : ~(<<y, x>> \in R)
    BY <1>2, <1>3, WFMin
  <1>5. \A y, z \in Nat : y < z => <<y, z>> \in R
    OBVIOUS
  <1>6. \A y \in M : y \in Nat /\ ~(y < x)
    BY <1>2, <1>4, <1>5
  <1>7. PICK h \in S : MaxBlock - h.min = x
    OBVIOUS
  <1>8. \A q \in S : q.min \in Nat /\ MaxBlock - q.min \in M
    BY <1>1
  <1>9. \A q \in S : q.min \in Nat /\ ~(MaxBlock - q.min < MaxBlock - h.min)
    BY <1>6, <1>7, <1>8
  <1> HIDE DEF M, R
  <1>10. \A q \in S : q.min <= h.min
    BY <1>9, BoundsAssumption
  <1> QED
    BY <1>10

(* A part that lies between disjoint ones has two neighbours among them.   *)
LEMMA NeighboursAround ==
    ASSUME NEW S \in SUBSET PartInfos, PairwiseDisjoint(S), NEW q \in AnyInfo,
           \A x \in S : isDisjoint(x, q),
           NEW l \in S, NEW r \in S, Less(l, q), Less(q, r)
    PROVE  \E a, b \in S : <<a, b>> \in Neighbours(S) /\ Less(a, q) /\ Less(q, b)
  <1> DEFINE A == {x \in S : Less(x, q)}
             B == {x \in S : Less(q, x)}
  <1>1. S \subseteq AnyInfo
    BY PartInfosAreInfos
  <1>2. PICK a \in A : \A x \in A : x.min <= a.min
    <2>1. A # {} /\ A \in SUBSET PartInfos
      OBVIOUS
    <2> QED
      BY <2>1, LastExists
  <1>3. PICK b \in B : \A x \in B : b.min <= x.min
    <2>1. B # {} /\ B \in SUBSET AnyInfo
      BY <1>1
    <2> QED
      BY <2>1, FirstExists
  <1>4. a \in AnyInfo /\ b \in AnyInfo /\ Less(a, q) /\ Less(q, b)
    BY <1>1
  <1>5. Less(a, b)
    BY <1>4 DEF AnyInfo, Less, SameBlocks
  <1>6. \A s \in S : ~(Less(a, s) /\ Less(s, b))
    <2> SUFFICES ASSUME NEW s \in S, Less(a, s), Less(s, b)
                 PROVE  FALSE
      OBVIOUS
    <2>1. s \in AnyInfo /\ isDisjoint(s, q) /\ s # q
      BY <1>1, ContainsItself, ContainsOverlaps
    <2>2. (s = a \/ isDisjoint(s, a)) /\ (s = b \/ isDisjoint(s, b))
      BY DEF PairwiseDisjoint
    <2>3. s # a /\ s # b
      BY <1>4, LessIrreflexive
    <2>4. CASE Less(s, q)
      <3>1. s.min <= a.min
        BY <1>2, <2>4
      <3>2. a.min <= s.min
        BY <1>4, <2>1 DEF AnyInfo, Less, SameBlocks
      <3> QED
        BY <1>4, <2>1, <2>2, <2>3, <3>1, <3>2 DEF AnyInfo, isDisjoint
    <2>5. CASE Less(q, s)
      <3>1. b.min <= s.min
        BY <1>3, <2>5
      <3>2. s.min <= b.min
        BY <1>4, <2>1 DEF AnyInfo, Less, SameBlocks
      <3> QED
        BY <1>4, <2>1, <2>2, <2>3, <3>1, <3>2 DEF AnyInfo, isDisjoint
    <2> QED
      BY <2>1, <2>4, <2>5, LessTotal
  <1> QED
    BY <1>4, <1>5, <1>6 DEF Neighbours

(* What lies in a gap of a merge was not loaded yet, and then an Active    *)
(* part covers it and fills the gap, or canMergeParts looks at its level.  *)
LEMMA MergeNested ==
    ASSUME IInv, OldCovered, NamesNested, phase = "up", Copies = {}, task = NoTask,
           NEW l \in Active, NEW r \in Active, NEW p \in PartInfos, Less(l, r), MergeResult(p, l, r),
           \A x \in Neighbours(PartsRange(l, r)) : canMergeParts(x[1], x[2]),
           \A q \in Live : ~isDisjoint(q, p) => q.mutation <= p.mutation
    PROVE  \A q \in NewNames : ~Intersect(p, q)
  <1> DEFINE S == PartsRange(l, r)
  <1>1. TypeOK /\ Placed /\ NothingAbove /\ ActiveDisjoint /\ DirectoriesKnown
    BY DEF IInv
  <1>2. NewNames = Live
    BY DEF NewNames, NoTask, Parts
  <1>3. Active \subseteq Live /\ Live \subseteq AnyInfo /\ Live \subseteq Parts(dirs) /\ p \in AnyInfo
    BY <1>1, LiveTypes, ShownAreLive, PartInfosAreInfos DEF Active, In, Live, Parts
  <1>4. l \in S /\ r \in S /\ \A x \in S : contains(p, x)
    BY <1>1, MergeContains
  <1>5. S \subseteq Active /\ S \in SUBSET PartInfos
    BY <1>1, WorkingTypes DEF PartsRange
  <1> SUFFICES ASSUME NEW q \in Live PROVE ~Intersect(p, q)
    BY <1>2
  <1>6. q \in AnyInfo /\ l \in AnyInfo /\ r \in AnyInfo
    BY <1>3
  <1>7. CASE \E a \in S : ~isDisjoint(a, q)
    <2>1. PICK a \in S : ~isDisjoint(a, q)
      BY <1>7
    <2>2. a \in Active /\ a \in AnyInfo /\ ~Intersect(a, q)
      BY <1>2, <1>3, <1>5 DEF NamesNested
    <2>3. CASE contains(a, q)
      BY <1>3, <1>4, <1>6, <2>2, <2>3, ContainsTransitive DEF Intersect
    <2>4. CASE contains(q, a)
      <3>1. q = a
        BY <1>1, <1>3, <2>2, <2>4 DEF NothingAbove, NoTask
      <3> QED
        BY <1>4, <3>1 DEF Intersect
    <2> QED
      BY <2>1, <2>2, <2>3, <2>4 DEF Intersect
  <1>8. CASE \A a \in S : isDisjoint(a, q)
    <2>1. p.min = l.min /\ p.max = r.max
      BY DEF MergeResult
    <2>2. isDisjoint(l, q) /\ isDisjoint(r, q)
      BY <1>4, <1>8
    <2>3. CASE isDisjoint(p, q)
      BY <2>3 DEF Intersect
    <2>4. CASE ~isDisjoint(p, q)
      <3>1. l.max < q.min /\ q.max < r.min
        BY <1>3, <1>6, <2>1, <2>2, <2>4 DEF isDisjoint, AnyInfo
      <3>2. Less(l, q) /\ Less(q, r)
        BY <1>6, <3>1 DEF Less, AnyInfo
      <3>3. q \in DOMAIN working
        <4> SUFFICES ASSUME q \notin DOMAIN working PROVE FALSE
          OBVIOUS
        <4>1. PICK x \in Active : contains(x, q)
          BY <1>1, LiveKnown DEF OldCovered, Covered
        <4>2. x \in AnyInfo
          BY <1>3
        <4>3. (x = l \/ isDisjoint(x, l)) /\ (x = r \/ isDisjoint(x, r))
          BY <1>1 DEF ActiveDisjoint, PairwiseDisjoint
        <4>4. ~Less(x, l) /\ ~Less(r, x)
          BY <1>6, <3>1, <4>1, <4>2, <4>3 DEF contains, isDisjoint, Less, AnyInfo, SameBlocks
        <4>5. x \in S
          BY <4>4 DEF PartsRange
        <4> QED
          BY <1>6, <1>8, <4>1, <4>2, <4>5, ContainsOverlaps
      <3>4. PairwiseDisjoint(S)
        BY <1>1, <1>5 DEF ActiveDisjoint, PairwiseDisjoint
      <3>5. PICK a \in S, b \in S : <<a, b>> \in Neighbours(S) /\ Less(a, q) /\ Less(q, b)
        <4> HIDE DEF S
        <4> QED
          BY <1>4, <1>5, <1>6, <1>8, <3>2, <3>4, NeighboursAround
      <3>6. q.level <= a.level \/ q.level <= b.level
        BY <3>3, <3>5 DEF canMergeParts
      <3>7. p.level > 0 /\ a.level <= p.level - 1 /\ b.level <= p.level - 1
        BY <3>5 DEF MergeResult, IsMax
      <3>8. a \in AnyInfo /\ b \in AnyInfo
        BY <1>3, <1>5
      <3>9. q.level < p.level
        BY <1>3, <1>6, <3>6, <3>7, <3>8 DEF AnyInfo
      <3>10. q.mutation <= p.mutation
        BY <1>3, <1>6, <2>4, DisjointSymmetric
      <3>11. contains(p, q)
        BY <1>3, <1>6, <2>1, <3>1, <3>9, <3>10 DEF contains, AnyInfo
      <3> QED
        BY <3>11 DEF Intersect
    <2> QED
      BY <2>3, <2>4
  <1> QED
    BY <1>7, <1>8

LEMMA NestedStarted ==
    ASSUME IInv, OldCovered, NamesNested, phase = "up", Copies = {}, GapsNotMutated,
           selectPartsToMerge \/ selectPartToMutate \/ coverPartWithEmptyPart
    PROVE  NamesNested'
  <1>1. TypeOK /\ Numbers
    BY DEF IInv
  <1>2. task = NoTask /\ UNCHANGED <<doomed, dirs>>
    BY DEF selectPartsToMerge, selectPartToMutate, coverPartWithEmptyPart
  <1>3. Live' = Live /\ Live \subseteq NewNames
    BY <1>2 DEF Live, NewNames, Parts
  <1>4. ASSUME NEW p \in PartInfos, NEW d, task'.result = {<<p, d>>},
               \A q \in NewNames : ~Intersect(p, q)
        PROVE  NamesNested'
    <2>1. Parts(task'.result) = {p}
      <3> DEFINE o == <<p, d>>
      <3>1. task'.result = {o} /\ o[1] = p
        BY <1>4
      <3> HIDE DEF o
      <3> QED
        BY <3>1 DEF Parts
    <2>2. NewNames' \subseteq NewNames \cup {p}
      BY <1>3, <2>1 DEF NewNames
    <2> QED
      BY <1>1, <1>4, <2>2, PartInfosAreInfos, NestedAdded
  <1>5. CASE selectPartsToMerge
    <2>1. PICK l \in Active, r \in Active, d \in Disks, p \in PartInfos :
             /\ Less(l, r) /\ MergeResult(p, l, r)
             /\ \A x \in Neighbours(PartsRange(l, r)) : canMergeParts(x[1], x[2])
             /\ Start("merge", PartsRange(l, r), p, d)
      BY <1>5 DEF selectPartsToMerge
    <2>2. task'.result = {<<p, d>>}
      BY <2>1 DEF Start
    <2>3. \A q \in Live : ~isDisjoint(q, p) => q.mutation <= p.mutation
      <3> DEFINE o == <<p, d>>
      <3>1. o \in task'.result /\ o[1] = p
        BY <2>2
      <3> HIDE DEF o
      <3> QED
        BY <1>5, <3>1 DEF GapsNotMutated
    <2>4. \A q \in NewNames : ~Intersect(p, q)
      BY <1>2, <2>1, <2>3, MergeNested
    <2> QED
      BY <1>4, <2>2, <2>4
  <1>6. CASE selectPartToMutate
    <2>1. increment' = increment + 1 /\ increment < MaxBlock
      BY <1>6 DEF selectPartToMutate
    <2>2. PICK q \in Active : Start("mutate", {q}, [q EXCEPT !.mutation = increment'], working[q].disk)
      BY <1>6 DEF selectPartToMutate
    <2> DEFINE p == [q EXCEPT !.mutation = increment']
    <2>3. q \in PartInfos /\ q \in AnyInfo /\ q.mutation <= increment
      <3>1. q \in Parts(dirs)
        BY <1>1, ActiveHasDirectory DEF IInv
      <3> QED
        BY <1>1, <3>1, WorkingTypes, PartInfosAreInfos, NumbersOfParts
    <2>4. increment \in Nat /\ increment' \in 0..MaxBlock
      BY <1>1, <2>1, BoundsAssumption DEF TypeOK
    <2>5. /\ p.min = q.min /\ p.max = q.max /\ p.level = q.level /\ p.mutation = increment'
          /\ p \in PartInfos
      BY <2>3, <2>4 DEF PartInfos
    <2>6. task'.result = {<<p, working[q].disk>>}
      BY <2>2 DEF Start
    <2> HIDE DEF p
    <2>7. p \in AnyInfo /\ contains(p, q)
      BY <2>1, <2>3, <2>4, <2>5, PartInfosAreInfos DEF contains, SameBlocks, AnyInfo
    <2>8. \A x \in NewNames : ~Intersect(p, x)
      BY <1>2, <2>5, <2>7, SuccessorNested
    <2> QED
      BY <1>4, <2>5, <2>6, <2>8
  <1>7. CASE coverPartWithEmptyPart
    <2>1. PICK q \in Active, d \in Disks : q.level < MaxLevel /\ Start("drop", {q}, [q EXCEPT !.level = @ + 1], d)
      BY <1>7 DEF coverPartWithEmptyPart
    <2> DEFINE p == [q EXCEPT !.level = @ + 1]
    <2>2. q \in PartInfos /\ q \in AnyInfo
      BY <1>1, WorkingTypes, PartInfosAreInfos
    <2>3. /\ p.min = q.min /\ p.max = q.max /\ p.level = q.level + 1 /\ p.mutation = q.mutation
          /\ p \in PartInfos
      BY <2>1, <2>2, BoundsAssumption DEF PartInfos
    <2>4. task'.result = {<<p, d>>}
      BY <2>1 DEF Start
    <2> HIDE DEF p
    <2>5. p \in AnyInfo /\ contains(p, q)
      BY <2>2, <2>3, PartInfosAreInfos DEF contains, SameBlocks, AnyInfo
    <2>6. \A x \in NewNames : ~Intersect(p, x)
      BY <1>2, <2>3, <2>5, SuccessorNested
    <2> QED
      BY <1>4, <2>3, <2>4, <2>6
  <1> QED
    BY <1>5, <1>6, <1>7

(* The block of an inserted part is later than all others.                 *)
LEMMA NestedInserted ==
    ASSUME IInv, NamesNested, phase = "up", commitPart
    PROVE  NamesNested'
  <1>1. TypeOK /\ Numbers /\ Results
    BY DEF IInv
  <1>2. increment' = increment + 1 /\ UNCHANGED <<task, doomed>> /\ increment \in Nat
    BY <1>1, BoundsAssumption DEF commitPart, TypeOK
  <1>3. PICK p \in PartInfos, d \in Disks : p.min = increment' /\ dirs' = dirs \cup {<<p, d>>}
    <2>1. PICK d \in Disks :
            LET p == [min |-> increment', max |-> increment', level |-> 0, mutation |-> 0]
            IN dirs' = dirs \cup {<<p, d>>}
      BY DEF commitPart
    <2> DEFINE p == [min |-> increment', max |-> increment', level |-> 0, mutation |-> 0]
    <2>2. p \in PartInfos
      BY InsertedIsNew DEF IInv, commitPart
    <2>3. p.min = increment' /\ dirs' = dirs \cup {<<p, d>>}
      BY <2>1
    <2> QED
      BY <2>2, <2>3
  <1>4. p \in AnyInfo
    BY PartInfosAreInfos
  <1>5. NewNames' \subseteq NewNames \cup {p}
    BY <1>2, <1>3 DEF NewNames, Live, Parts
  <1>6. \A q \in NewNames : q.max <= increment
    <2>1. \A q \in Live : q.max <= increment
      BY <1>1, NumbersOfParts DEF Live, Parts
    <2>2. \A q \in Parts(task.result) : q.max <= increment
      <3>1. CASE task.kind = "none"
        BY <1>1, <3>1 DEF Results, Parts, NoTask
      <3>2. CASE task.kind # "none"
        <4>1. PICK o \in Objects : task.result = {o} /\ o[1].max <= increment
          BY <1>1, <3>2 DEF Results
        <4> QED
          BY <4>1 DEF Parts
      <3> QED
        BY <3>1, <3>2
    <2> QED
      BY <2>1, <2>2 DEF NewNames
  <1>7. \A q \in NewNames : p.min > q.max
    BY <1>1, <1>2, <1>3, <1>6, NewNamesTypes DEF AnyInfo
  <1> QED
    BY <1>1, <1>4, <1>5, <1>7, NestedAdded, DisjointNotIntersect

LEMMA NestedMoverStep ==
    ASSUME IInv, NamesNested, phase = "up", NEW m \in Movers, MoverStep(m)
    PROVE  NamesNested'
  <1>1. UNCHANGED task
    BY DEF MoverStep, selectPartsForMove, clonePart, movePartsThrows, dropClonedPart, renameClonedPart,
           renameClonedPartThrows, swapActivePart
  <1>2. Active \subseteq Live
    BY ShownAreLive DEF IInv, Active, In
  <1>3. CASE renameClonedPart(m) \/ renameClonedPartThrows(m)
    <2>1. \E mv \in mover[m].current : /\ mv.part \in Active /\ dirs' = dirs \cup {<<mv.part, mv.to>>}
                                       /\ doomed \subseteq doomed'
      BY <1>3 DEF renameClonedPart, renameClonedPartThrows, isActive
    <2>2. Live' \subseteq Live
      BY <1>2, <2>1 DEF Live, Parts
    <2> QED
      BY <1>1, <2>2, NestedKept DEF NewNames
  <1>4. CASE ~(renameClonedPart(m) \/ renameClonedPartThrows(m))
    <2>1. dirs' = dirs /\ doomed \subseteq doomed'
      BY <1>4 DEF MoverStep, selectPartsForMove, clonePart, movePartsThrows, dropClonedPart, swapActivePart
    <2>2. Live' \subseteq Live
      BY <2>1 DEF Live, Parts
    <2> QED
      BY <1>1, <2>2, NestedKept DEF NewNames
  <1> QED
    BY <1>3, <1>4

LEMMA NestedTaskStep ==
    ASSUME IInv, OldCovered, NamesNested, phase = "up", GapsNotMutated, TaskStep
    PROVE  NamesNested'
  <1>1. TypeOK /\ Results
    BY DEF IInv
  <1>2. CASE selectPartsToMerge \/ selectPartToMutate \/ coverPartWithEmptyPart
    <2>1. Copies = {}
      BY <1>2 DEF selectPartsToMerge, selectPartToMutate, coverPartWithEmptyPart, Unlocked, Copies
    <2> QED
      BY <1>2, <2>1, NestedStarted
  <1>3. CASE renameMergedTemporaryPart \/ commitMutation
    <2>1. PICK o \in task.result : dirs' = dirs \cup {o}
      BY <1>3 DEF renameMergedTemporaryPart, commitMutation
    <2>2. UNCHANGED doomed /\ (task' = NoTask \/ task' = [task EXCEPT !.stage = "renamed"])
      BY <1>3 DEF renameMergedTemporaryPart, commitMutation
    <2>3. task'.result \subseteq task.result
      BY <1>1, <2>2 DEF NoTask, TypeOK, Tasks
    <2>4. NewNames' \subseteq NewNames
      BY <2>1, <2>2, <2>3 DEF NewNames, Live, Parts
    <2> QED
      BY <2>4, NestedKept
  <1>4. CASE commit \/ cancel
    <2>1. UNCHANGED <<dirs, doomed>> /\ task' = NoTask
      BY <1>4 DEF commit, cancel
    <2>2. NewNames' \subseteq NewNames
      BY <2>1 DEF NewNames, Live, Parts, NoTask
    <2> QED
      BY <2>2, NestedKept
  <1> QED
    BY <1>2, <1>3, <1>4 DEF TaskStep

LEMMA NestedLoaded ==
    ASSUME IInv, loadDataParts
    PROVE  NamesNested'
  <1>1. Down /\ phase = "down"
    BY DEF IInv, loadDataParts
  <1>2. task' = NoTask /\ UNCHANGED dirs /\ Loadable
    BY <1>1 DEF Down, loadDataParts
  <1>3. NewNames' \subseteq Parts(dirs)
    BY <1>2 DEF NewNames, Live, Parts, NoTask
  <1> QED
    BY <1>2, <1>3 DEF NamesNested, Loadable, Intersect, isDisjoint, contains, SameBlocks, isFakeDropRangePart

LEMMA NestedStep ==
    IInv /\ IInv' /\ OldCovered /\ NamesNested /\ [Next]_vars /\ [GapsNotMutated]_vars => NamesNested'
  <1> SUFFICES ASSUME IInv, IInv', OldCovered, NamesNested, [Next]_vars, [GapsNotMutated]_vars
               PROVE  NamesNested'
    OBVIOUS
  <1>1. TypeOK
    BY DEF IInv
  <1>2. CASE UNCHANGED vars
    <2>1. phase' = phase /\ NewNames' = NewNames
      BY <1>2 DEF vars, NewNames, Live, Parts
    <2> QED
      BY <2>1 DEF NamesNested, Intersect, isDisjoint, contains, SameBlocks, isFakeDropRangePart
  <1>3. CASE phase = "down" /\ Next
    <2>1. loadDataParts
      BY <1>3 DEF Next, commitPart, getDataPartsVector, releaseParts, MoverStep, selectPartsForMove,
             clonePart, movePartsThrows, dropClonedPart, renameClonedPart, renameClonedPartThrows,
             swapActivePart, removeIfNeeded, TaskStep, selectPartsToMerge, selectPartToMutate,
             coverPartWithEmptyPart, renameMergedTemporaryPart, commit, commitMutation, cancel,
             CleanupStep, grabOldParts, clearPartsFromFilesystem, clearEmptyParts, Crash,
             loadOutdatedDataParts, Unlocked
    <2> QED
      BY <2>1, NestedLoaded
  <1>4. CASE phase = "up" /\ Next /\ ~UNCHANGED vars
    <2>1. GapsNotMutated
      BY <1>4
    <2>2. CASE (\E r \in Queries : getDataPartsVector(r) \/ releaseParts(r)) \/ removeIfNeeded \/ CleanupStep
               \/ loadOutdatedDataParts
      <3>1. UNCHANGED task /\ dirs' \ doomed' \subseteq dirs \ doomed
        BY <2>2 DEF getDataPartsVector, releaseParts, removeIfNeeded, CleanupStep, grabOldParts,
               clearPartsFromFilesystem, clearEmptyParts, loadOutdatedDataParts
      <3>2. NewNames' \subseteq NewNames
        BY <3>1 DEF NewNames, Live, Parts
      <3> QED
        BY <1>4, <3>2, NestedKept
    <2>3. CASE Crash
      BY <2>3 DEF Crash, NamesNested
    <2>4. CASE loadDataParts
      BY <2>4, NestedLoaded
    <2> QED
      BY <1>4, <2>1, <2>2, <2>3, <2>4, NestedInserted, NestedMoverStep, NestedTaskStep DEF Next
  <1> QED
    BY <1>1, <1>2, <1>3, <1>4 DEF TypeOK

LEMMA NestedInit == Init => NamesNested
  BY DEF Init, NamesNested, NewNames, Live, Parts, NoTask

LEMMA OutdatedAreNested == IInv /\ NamesNested => OutdatedNested
  <1>1. IInv /\ phase = "up" => In("Outdated") \subseteq NewNames
    BY ShownAreLive DEF IInv, In, NewNames
  <1> QED
    BY <1>1 DEF NamesNested, OutdatedNested

(* If no merge is over a gap with a later mutation than its result has, no *)
(* two directories intersect, so that loadDataParts never refuses the      *)
(* table, and a restart shows exactly the parts that are Active: no older  *)
(* version of one that was moved, merged, mutated or dropped.              *)
THEOREM RestartShowsWhatIsActive ==
    Spec /\ [][GapsNotMutated]_vars => []RestartShowsActive /\ []NamesNested
  <1>1. Spec => []IInv
    BY InvariantHolds
  <1>2. Spec /\ []IInv /\ [][GapsNotMutated]_vars => [](OldCovered /\ NamesNested)
    BY OldInit, OldStep, NestedInit, NestedStep, OutdatedAreNested, PTL DEF Spec
  <1> QED
    BY <1>1, <1>2, NothingOldShown, PTL

=============================================================================
