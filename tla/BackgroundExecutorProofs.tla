---------------------- MODULE BackgroundExecutorProofs ----------------------
(***************************************************************************)
(* Theorems about the pool of background tasks, for any number of workers, *)
(* tables and tasks, any limits and both policies.                         *)
(***************************************************************************)
EXTENDS BackgroundExecutor, FiniteSetTheorems, SequenceTheorems, TLAPS

(***************************************************************************)
(* Queues without repetitions, and the sets of their tasks                 *)
(***************************************************************************)
Distinct(q) == \A i, j \in DOMAIN q : i # j => q[i] # q[j]

(* A push at the end adds one task.                                        *)
LEMMA AppendAdds ==
    ASSUME NEW q \in Seq(Tasks), Distinct(q), NEW t \in Tasks, t \notin ToSet(q)
    PROVE  /\ Append(q, t) \in Seq(Tasks) /\ Distinct(Append(q, t))
           /\ ToSet(Append(q, t)) = ToSet(q) \cup {t}
<1> DEFINE r == Append(q, t)
<1>1. /\ r \in Seq(Tasks) /\ Len(r) = Len(q) + 1
      /\ \A i \in 1..Len(q) : r[i] = q[i]
      /\ r[Len(q) + 1] = t
      /\ DOMAIN q = 1..Len(q) /\ DOMAIN r = 1..Len(r) /\ Len(q) \in Nat
    OBVIOUS
<1>2. \A i \in DOMAIN q : q[i] # t
    BY DEF ToSet
<1> HIDE DEF r
<1>3. Distinct(r)
    BY <1>1, <1>2 DEF Distinct
<1>4. ToSet(r) = ToSet(q) \cup {t}
    <2>1. \A x \in ToSet(r) : x \in ToSet(q) \cup {t}
        BY <1>1 DEF ToSet
    <2>2. ToSet(q) \subseteq ToSet(r)
        <3>1. \A i \in DOMAIN q : i \in DOMAIN r /\ r[i] = q[i]
            BY <1>1
        <3>2. QED
            BY <3>1 DEF ToSet
    <2>3. t \in ToSet(r)
        <3>1. Len(q) + 1 \in DOMAIN r
            BY <1>1
        <3>2. QED
            BY <1>1, <3>1 DEF ToSet
    <2>4. QED
        BY <2>1, <2>2, <2>3
<1>5. QED
    BY <1>1, <1>3, <1>4 DEF r

(* A pop takes one task away.                                              *)
LEMMA RemoveAtTakes ==
    ASSUME NEW q \in Seq(Tasks), Distinct(q), NEW i \in DOMAIN q
    PROVE  /\ RemoveAt(q, i) \in Seq(Tasks) /\ Distinct(RemoveAt(q, i))
           /\ ToSet(RemoveAt(q, i)) = ToSet(q) \ {q[i]}
<1> DEFINE r == RemoveAt(q, i)
<1>1. /\ DOMAIN q = 1..Len(q) /\ Len(q) \in Nat /\ i \in 1..Len(q)
    OBVIOUS
<1>2. /\ r \in Seq(Tasks) /\ Len(r) = Len(q) - 1 /\ DOMAIN r = 1..Len(r)
      /\ \A j \in 1..Len(q) - 1 : r[j] = IF j < i THEN q[j] ELSE q[j + 1]
    <2> DEFINE a == SubSeq(q, 1, i - 1)
               b == SubSeq(q, i + 1, Len(q))
    <2>1. /\ a \in Seq(Tasks) /\ Len(a) = i - 1
          /\ \A j \in 1..i - 1 : a[j] = q[j]
        BY <1>1
    <2>2. /\ b \in Seq(Tasks) /\ Len(b) = Len(q) - i
          /\ \A j \in 1..Len(q) - i : b[j] = q[i + j]
        BY <1>1
    <2>3. r = a \o b
        BY DEF RemoveAt
    <2> HIDE DEF a, b, r
    <2>4. /\ r \in Seq(Tasks) /\ Len(r) = Len(a) + Len(b)
          /\ \A j \in 1..Len(r) : r[j] = IF j <= Len(a) THEN a[j] ELSE b[j - Len(a)]
        <3>1. /\ a \o b \in Seq(Tasks) /\ Len(a \o b) = Len(a) + Len(b)
              /\ \A j \in 1..Len(a) + Len(b) :
                     (a \o b)[j] = IF j <= Len(a) THEN a[j] ELSE b[j - Len(a)]
            BY <2>1, <2>2, ConcatProperties
        <3>2. QED
            BY <2>3, <3>1
    <2>5. ASSUME NEW j \in 1..Len(q) - 1
          PROVE  r[j] = IF j < i THEN q[j] ELSE q[j + 1]
        <3>1. j \in 1..Len(r)
            BY <1>1, <2>1, <2>2, <2>4
        <3>2. CASE j < i
            BY <1>1, <2>1, <2>4, <3>1, <3>2
        <3>3. CASE ~(j < i)
            <4>1. j - (i - 1) \in 1..Len(q) - i /\ ~(j <= Len(a))
                BY <1>1, <2>1, <3>3
            <4>2. b[j - (i - 1)] = q[i + (j - (i - 1))]
                BY <2>2, <4>1
            <4>3. i + (j - (i - 1)) = j + 1
                BY <1>1
            <4>4. QED
                BY <2>1, <2>4, <3>1, <3>3, <4>1, <4>2, <4>3
        <3>4. QED
            BY <3>2, <3>3
    <2>6. QED
        BY <1>1, <2>1, <2>2, <2>4, <2>5
<1> HIDE DEF r
<1>3. Distinct(r)
    <2> SUFFICES ASSUME NEW j \in DOMAIN r, NEW k \in DOMAIN r, j # k
                 PROVE  r[j] # r[k]
        BY DEF Distinct
    <2>1. /\ j \in 1..Len(q) - 1 /\ k \in 1..Len(q) - 1
        BY <1>1, <1>2
    <2> DEFINE at(n) == IF n < i THEN n ELSE n + 1
    <2>2. /\ r[j] = q[at(j)] /\ r[k] = q[at(k)]
        BY <1>2, <2>1
    <2>3. at(j) \in DOMAIN q /\ at(k) \in DOMAIN q /\ at(j) # at(k)
        BY <1>1, <2>1
    <2> HIDE DEF at
    <2>4. QED
        BY <2>2, <2>3 DEF Distinct
<1>4. ToSet(r) = ToSet(q) \ {q[i]}
    <2>1. ASSUME NEW j \in DOMAIN r PROVE r[j] \in ToSet(q) \ {q[i]}
        <3> DEFINE k == IF j < i THEN j ELSE j + 1
        <3>1. k \in DOMAIN q /\ k # i /\ r[j] = q[k]
            BY <1>1, <1>2
        <3> HIDE DEF k
        <3>2. QED
            BY <3>1 DEF ToSet, Distinct
    <2>2. ASSUME NEW k \in DOMAIN q, q[k] # q[i] PROVE q[k] \in ToSet(r)
        <3> DEFINE j == IF k < i THEN k ELSE k - 1
        <3>1. k # i
            BY <2>2
        <3>2. j \in DOMAIN r /\ r[j] = q[k]
            BY <1>1, <1>2, <3>1
        <3> HIDE DEF j
        <3>3. QED
            BY <3>2 DEF ToSet
    <2>3. QED
        BY <2>1, <2>2 DEF ToSet
<1>5. QED
    BY <1>2, <1>3, <1>4 DEF r

(* An enumeration of a set of tasks has all of them, each once.            *)
LEMMA EnumerationComplete ==
    ASSUME NEW S \in SUBSET Tasks, NEW q \in SetToSeqs(S)
    PROVE  q \in Seq(Tasks) /\ Distinct(q) /\ ToSet(q) = S
<1>1. IsFiniteSet(S) /\ Cardinality(S) \in Nat
    BY FS_Subset, FS_CardinalityType, ExecutorAssumption
<1> DEFINE n == Cardinality(S)
<1>2. /\ q \in [1..n -> S]
      /\ \A i, j \in 1..n : i # j => q[i] # q[j]
    BY DEF SetToSeqs
<1>3. IsFiniteSet(1..n) /\ Cardinality(1..n) = n
    BY <1>1, FS_Interval
<1> HIDE DEF n
<1>4. q \in Injection(1..n, S)
    BY <1>2 DEF Injection, IsInjective
<1>5. q \in Surjection(1..n, S)
    BY <1>1, <1>3, <1>4, FS_Injection DEF n
<1>6. ToSet(q) = S
    BY <1>2, <1>5 DEF ToSet, Surjection
<1>7. n \in Nat
    BY <1>1 DEF n
<1>8. q \in Seq(Tasks) /\ DOMAIN q = 1..n
    BY <1>2, <1>7
<1>9. QED
    BY <1>2, <1>6, <1>8 DEF Distinct

(* A queue without repetitions is as long as its tasks are many.           *)
LEMMA LengthCounts ==
    ASSUME NEW q \in Seq(Tasks), Distinct(q)
    PROVE  Cardinality(ToSet(q)) = Len(q)
<1>1. Len(q) \in Nat /\ DOMAIN q = 1..Len(q) /\ q \in [1..Len(q) -> Tasks]
    OBVIOUS
<1>2. IsFiniteSet(1..Len(q)) /\ Cardinality(1..Len(q)) = Len(q)
    BY <1>1, FS_Interval
<1>3. q \in Surjection(1..Len(q), ToSet(q))
    BY <1>1 DEF Surjection, ToSet
<1>4. q \in Injection(1..Len(q), ToSet(q))
    BY <1>1, <1>3 DEF Injection, Surjection, Distinct, IsInjective
<1>5. QED
    BY <1>2, <1>3, <1>4, FS_Surjection

(***************************************************************************)
(* The inductive invariant, in parts.                                      *)
(***************************************************************************)
Removed == UNION {tasks_to_cancel[s] \cup tasks_to_wait[s] : s \in Storages}

Live == ToSet(pending) \cup active \cup Removed

(* OneQueue, worker by worker.                                             *)
QueuesApart ==
    /\ Distinct(pending)
    /\ ToSet(pending) \cap active = {}
    /\ \A t \in active : \E w \in Workers : item[w] = t
    /\ \A w \in Workers : item[w] # NoTask => item[w] \in active
    /\ \A v, w \in Workers : v # w /\ item[v] # NoTask => item[v] # item[w]

LimitKept == Cardinality(Live) <= max_tasks_count

(* A task exists from trySchedule to resetTask, and is_done comes later.   *)
TasksWhole ==
    /\ unfinished \subseteq Live
    /\ ToSet(pending) \subseteq unfinished
    /\ \A w \in Workers : item[w] # NoTask => (item[w] \in unfinished <=> pc[w] # "erase")
    /\ done \cap (unfinished \cup active) = {}

(* What a removal cancels is in no queue.                                  *)
RemovalApart == \A s \in Storages : tasks_to_cancel[s] \cap (ToSet(pending) \cup active) = {}

(* The lists of a removal are empty before and after it.                   *)
RemovalOnly ==
    \A s \in Storages : stage[s] # "removing" => tasks_to_cancel[s] = {} /\ tasks_to_wait[s] = {}

IInv == TypeOK /\ QueuesApart /\ LimitKept /\ TasksWhole /\ RemovalApart /\ RemovalOnly

USE ExecutorAssumption

(* The pointers that workers hold are those of the active queue.           *)
LEMMA LiveIsAlive ==
    ASSUME TypeOK, QueuesApart
    PROVE  Live = Alive /\ active = UNION {Held(w) : w \in Workers}
<1>1. active \subseteq UNION {Held(w) : w \in Workers}
    <2> SUFFICES ASSUME NEW t \in active PROVE \E w \in Workers : t \in Held(w)
        OBVIOUS
    <2>1. PICK w \in Workers : item[w] = t
        BY DEF QueuesApart
    <2>2. t # NoTask
        BY DEF TypeOK
    <2>3. QED
        BY <2>1, <2>2 DEF Held
<1>2. UNION {Held(w) : w \in Workers} \subseteq active
    BY DEF QueuesApart, Held
<1>3. QED
    BY <1>1, <1>2 DEF Live, Alive, Removed

(* No pointer, no object: a smaller set keeps the limit.                   *)
LEMMA FewerKeepLimit ==
    ASSUME NEW S \in SUBSET Tasks, NEW T \in SUBSET S, NEW m \in Nat, NEW n \in Nat,
           Cardinality(S) <= m, m <= n
    PROVE  Cardinality(T) <= n
<1>1. IsFiniteSet(S)
    BY FS_Subset
<1>2. IsFiniteSet(T) /\ Cardinality(T) <= Cardinality(S)
    BY <1>1, FS_Subset
<1>3. Cardinality(S) \in Nat /\ Cardinality(T) \in Nat
    BY <1>1, <1>2, FS_CardinalityType
<1>4. QED
    BY <1>2, <1>3

(* The tasks that exist are tasks, so finitely many.                       *)
LEMMA LiveTasks ==
    ASSUME TypeOK
    PROVE  Live \subseteq Tasks /\ IsFiniteSet(Live) /\ Cardinality(Live) \in Nat
           /\ ToSet(pending) \subseteq Live /\ IsFiniteSet(ToSet(pending))
           /\ Len(pending) \in Nat /\ max_tasks_count \in Nat
<1>1. ToSet(pending) \subseteq Tasks
    BY DEF TypeOK, ToSet
<1>2. Removed \subseteq Tasks
    BY DEF TypeOK, Removed
<1>3. Live \subseteq Tasks /\ ToSet(pending) \subseteq Live
    BY <1>1, <1>2 DEF TypeOK, Live
<1>4. QED
    BY <1>1, <1>3, FS_Subset, FS_CardinalityType DEF TypeOK

(* While there is room the circular buffer overwrites nothing.             *)
LEMMA PushAppends ==
    ASSUME TypeOK, QueuesApart, NEW t,
           \/ Cardinality(Live) < max_tasks_count
           \/ LimitKept /\ t \in active
    PROVE  push(pending, t) = Append(pending, t)
<1>1. Cardinality(ToSet(pending)) = Len(pending)
    BY LengthCounts DEF TypeOK, QueuesApart
<1>2. Len(pending) < max_tasks_count
    <2>1. CASE Cardinality(Live) < max_tasks_count
        <3>1. Cardinality(ToSet(pending)) <= Cardinality(Live)
            BY LiveTasks, FS_Subset
        <3>2. QED
            BY <1>1, <2>1, <3>1, LiveTasks
    <2>2. CASE LimitKept /\ t \in active
        <3>1. t \notin ToSet(pending) /\ ToSet(pending) \cup {t} \subseteq Live
            BY <2>2 DEF QueuesApart, Live
        <3>2. Cardinality(ToSet(pending) \cup {t}) = Cardinality(ToSet(pending)) + 1
            BY <3>1, LiveTasks, FS_AddElement
        <3>3. Cardinality(ToSet(pending) \cup {t}) <= Cardinality(Live)
            BY <3>1, LiveTasks, FS_Subset
        <3>4. QED
            BY <1>1, <2>2, <3>2, <3>3, LiveTasks DEF LimitKept
    <2>3. QED
        BY <2>1, <2>2
<1>3. QED
    BY <1>2, LiveTasks DEF push

(* A notification wakes workers that sleep and does nothing else.          *)
Wakes(f, g) ==
    /\ g \in [Workers -> Resting \cup Executing]
    /\ \A w \in Workers : g[w] = f[w] \/ (f[w] = "sleeping" /\ g[w] = "idle")

LEMMA NotifyWakes ==
    ASSUME NEW f \in [Workers -> Resting \cup Executing], NEW g \in NotifyOne(f) \cup NotifyAll(f)
    PROVE  Wakes(f, g)
<1>1. CASE g \in NotifyOne(f)
    BY <1>1 DEF NotifyOne, Wakes, Resting
<1>2. CASE g \in NotifyAll(f)
    BY <1>2 DEF NotifyAll, Wakes, Resting
<1>3. QED
    BY <1>1, <1>2

(* The pool starts without tasks.                                          *)
LEMMA InitHolds == Init => IInv
<1> SUFFICES ASSUME Init PROVE IInv
    OBVIOUS
<1>1. ToSet(pending) = {}
    BY DEF Init, ToSet
<1>2. Live = {}
    BY <1>1 DEF Init, Live, Removed
<1>3. TypeOK
    <2>1. pc \in [Workers -> Resting \cup Executing] /\ \A w \in Workers : pc[w] \in Resting
        BY DEF Init, Resting
    <2>2. scheduled \in [Storages -> BOOLEAN] /\ shutdown \in BOOLEAN
        BY DEF Init
    <2>3. pending \in Seq(Tasks)
        BY DEF Init
    <2>4. QED
        BY <2>1, <2>2, <2>3 DEF Init, TypeOK
<1>4. LimitKept
    BY <1>2, <1>3, FS_EmptySet DEF LimitKept, TypeOK
<1>5. Distinct(pending)
    BY DEF Init, Distinct
<1>6. QED
    BY <1>1, <1>3, <1>4, <1>5
    DEF IInv, Init, QueuesApart, TasksWhole, RemovalApart, RemovalOnly

(***************************************************************************)
(* One action at a time                                                    *)
(***************************************************************************)

(* What is left of IInv when no task changes hands.                        *)
LEMMA NothingMoves ==
    ASSUME IInv, TypeOK',
           UNCHANGED <<pending, active, item, done, unfinished, tasks_to_cancel, tasks_to_wait>>,
           max_tasks_count' >= max_tasks_count,
           \A w \in Workers : pc'[w] = "erase" <=> pc[w] = "erase",
           \A s \in Storages : stage'[s] = "removing" \/ stage[s] # "removing"
                               \/ (tasks_to_cancel[s] = {} /\ tasks_to_wait[s] = {})
    PROVE  IInv'
<1>1. Live' = Live
    BY DEF Live, Removed
<1>2. LimitKept'
    <2>1. max_tasks_count' \in Nat /\ Live \subseteq Tasks /\ max_tasks_count \in Nat
        BY LiveTasks DEF IInv, TypeOK
    <2>2. QED
        BY <1>1, <2>1, FewerKeepLimit DEF IInv, LimitKept
<1>3. QueuesApart'
    BY DEF IInv, QueuesApart
<1>4. TasksWhole'
    BY <1>1 DEF IInv, TasksWhole
<1>5. RemovalApart' /\ RemovalOnly'
    BY DEF IInv, RemovalApart, RemovalOnly
<1>6. QED
    BY <1>2, <1>3, <1>4, <1>5 DEF IInv

(* A worker that goes on with the task it holds, or rests on.              *)
LEMMA GotoKeeps ==
    ASSUME TypeOK, NEW w \in Workers, NEW l \in Resting \cup Executing, Goto(w, l),
           l \in Resting <=> pc[w] \in Resting
    PROVE  /\ pc' \in [Workers -> Resting \cup Executing]
           /\ \A v \in Workers : item[v] = NoTask <=> pc'[v] \in Resting
           /\ pc'[w] = l /\ \A v \in Workers \ {w} : pc'[v] = pc[v]
    BY DEF TypeOK, Goto

(* A worker that gives its task away and is idle again, after a wake-up.   *)
LEMMA IdleAgain ==
    ASSUME TypeOK, NEW w \in Workers, pc' \in NotifyOne([pc EXCEPT ![w] = "idle"]),
           item' = [item EXCEPT ![w] = NoTask]
    PROVE  /\ pc' \in [Workers -> Resting \cup Executing]
           /\ item' \in [Workers -> Tasks \cup {NoTask}]
           /\ item'[w] = NoTask /\ \A v \in Workers \ {w} : item'[v] = item[v]
           /\ \A v \in Workers : item'[v] = NoTask <=> pc'[v] \in Resting
           /\ \A v \in Workers \ {w} : pc'[v] = "erase" <=> pc[v] = "erase"
<1> DEFINE f == [pc EXCEPT ![w] = "idle"]
<1>1. f \in [Workers -> Resting \cup Executing]
    BY DEF TypeOK, Resting
<1>2. Wakes(f, pc')
    BY <1>1, NotifyWakes
<1>3. QED
    BY <1>1, <1>2 DEF TypeOK, Wakes, Resting, Executing

(* A wake-up alone.                                                        *)
LEMMA WakeKeeps ==
    ASSUME TypeOK, pc' \in NotifyOne(pc) \cup NotifyAll(pc)
    PROVE  /\ pc' \in [Workers -> Resting \cup Executing]
           /\ \A v \in Workers : item[v] = NoTask <=> pc'[v] \in Resting
           /\ \A v \in Workers : pc'[v] = "erase" <=> pc[v] = "erase"
<1>1. Wakes(pc, pc')
    BY NotifyWakes DEF TypeOK
<1>2. QED
    BY <1>1 DEF TypeOK, Wakes, Resting, Executing

(* trySchedule adds one task, which nobody had a pointer to.               *)
LEMMA PushKeeps ==
    ASSUME IInv, NEW s \in Storages, NEW t \in Tasks, NEW p \in Priorities,
           trySchedulePush(s, t, p), UNCHANGED <<stage, removal>>,
           scheduled' \in [Storages -> BOOLEAN], thread' \in [Storages -> {"no", "job", "call"}]
    PROVE  IInv' /\ ToSet(pending') = ToSet(pending) \cup {t}
<1> USE DEF removal
<1>1. TypeOK /\ QueuesApart
    BY DEF IInv
<1>2. t \notin Live /\ Cardinality(Live) < max_tasks_count
    <2>1. t \notin Live /\ ~(Cardinality(Live) >= max_tasks_count)
        BY <1>1, LiveIsAlive DEF trySchedulePush, Refuses, metric
    <2>2. QED
        BY <1>1, <2>1, LiveTasks
<1>3. /\ pending' \in Seq(Tasks) /\ Distinct(pending')
      /\ ToSet(pending') = ToSet(pending) \cup {t}
    <2>1. pending' = Append(pending, t)
        BY <1>1, <1>2, PushAppends DEF trySchedulePush
    <2>2. t \notin ToSet(pending)
        BY <1>2 DEF Live
    <2>3. QED
        BY <1>1, <2>1, <2>2, AppendAdds DEF TypeOK, QueuesApart
<1>4. /\ pc' \in [Workers -> Resting \cup Executing]
      /\ \A v \in Workers : item[v] = NoTask <=> pc'[v] \in Resting
      /\ \A v \in Workers : pc'[v] = "erase" <=> pc[v] = "erase"
    BY <1>1, WakeKeeps DEF trySchedulePush
<1>5. TypeOK'
    BY <1>1, <1>3, <1>4 DEF TypeOK, trySchedulePush
<1>6. Live' = Live \cup {t}
    BY <1>3 DEF Live, Removed, trySchedulePush
<1>7. LimitKept'
    <2>1. Cardinality(Live \cup {t}) = Cardinality(Live) + 1
        BY <1>1, <1>2, LiveTasks, FS_AddElement
    <2>2. QED
        BY <1>1, <1>2, <1>6, <2>1, LiveTasks DEF LimitKept, trySchedulePush
<1>8. QueuesApart'
    BY <1>2, <1>3 DEF QueuesApart, IInv, Live, trySchedulePush
<1>9. TasksWhole'
    <2>1. \A w \in Workers : item[w] # NoTask => item[w] # t
        BY <1>2 DEF IInv, QueuesApart, Live
    <2>2. QED
        BY <1>2, <1>3, <1>4, <1>6, <2>1 DEF IInv, TasksWhole, Live, trySchedulePush
<1>10. RemovalApart' /\ RemovalOnly'
    <2>1. \A u \in Storages : t \notin tasks_to_cancel[u]
        BY <1>2 DEF Live, Removed
    <2>2. QED
        BY <1>3, <2>1 DEF IInv, RemovalApart, RemovalOnly, trySchedulePush
<1>11. QED
    BY <1>3, <1>5, <1>7, <1>8, <1>9, <1>10 DEF IInv

(* A pop moves one task from the pending queue to a worker.                *)
LEMMA PopKeeps ==
    ASSUME IInv, NEW w \in Workers, popTask(w)
    PROVE  /\ IInv'
           /\ \E t \in ToSet(pending) : /\ ToSet(pending') = ToSet(pending) \ {t}
                                        /\ active' = active \cup {t}
<1>1. TypeOK /\ QueuesApart
    BY DEF IInv
<1>2. PICK i \in Poppable : /\ item' = [item EXCEPT ![w] = pending[i]]
                            /\ active' = active \cup {pending[i]}
                            /\ pending' = RemoveAt(pending, i)
    BY DEF popTask
<1>3. i \in DOMAIN pending
    <2>1. 1 \in DOMAIN pending
        BY <1>1 DEF popTask, TypeOK
    <2>2. QED
        BY <2>1 DEF Poppable
<1> DEFINE t == pending[i]
<1>4. t \in Tasks /\ t \in ToSet(pending)
    BY <1>1, <1>3 DEF TypeOK, ToSet
<1>5. /\ pending' \in Seq(Tasks) /\ Distinct(pending')
      /\ ToSet(pending') = ToSet(pending) \ {t}
    BY <1>1, <1>2, <1>3, RemoveAtTakes DEF TypeOK, QueuesApart
<1>6. item' = [item EXCEPT ![w] = t] /\ active' = active \cup {t} /\ t # NoTask
    BY <1>2, <1>4
<1> HIDE DEF t
<1>7. pc[w] = "idle" /\ pc' = [pc EXCEPT ![w] = "execute"]
    BY DEF popTask, Goto
<1>8. item[w] = NoTask
    BY <1>1, <1>7 DEF TypeOK, Resting
<1>9. TypeOK'
    BY <1>1, <1>4, <1>5, <1>6, <1>7 DEF TypeOK, popTask, Resting, Executing, items, assignee, removal
<1>10. Live' = Live
    BY <1>4, <1>5, <1>6 DEF Live, Removed, popTask, removal
<1>11. LimitKept'
    BY <1>10 DEF IInv, LimitKept, popTask
<1>12. QueuesApart'
    <2>1. ToSet(pending') \cap active' = {}
        BY <1>1, <1>5, <1>6 DEF QueuesApart
    <2>2. item' \in [Workers -> Tasks \cup {NoTask}] /\ item'[w] = t
          /\ \A v \in Workers \ {w} : item'[v] = item[v]
        BY <1>1, <1>4, <1>6 DEF TypeOK
    <2>3. \A u \in active' : \E v \in Workers : item'[v] = u
        <3> SUFFICES ASSUME NEW u \in active', u # t PROVE \E v \in Workers : item'[v] = u
            BY <2>2
        <3>1. PICK v \in Workers : item[v] = u
            BY <1>1, <1>6 DEF QueuesApart
        <3>2. v # w
            BY <1>1, <1>6, <1>8, <3>1 DEF TypeOK
        <3>3. QED
            BY <2>2, <3>1, <3>2
    <2>4. \A v \in Workers : item'[v] # NoTask => item'[v] \in active'
        BY <1>1, <1>6, <2>2 DEF QueuesApart
    <2>5. \A v \in Workers : item[v] # t
        BY <1>1, <1>4, <1>6 DEF QueuesApart
    <2>6. \A u, v \in Workers : u # v /\ item'[u] # NoTask => item'[u] # item'[v]
        BY <1>1, <2>2, <2>5 DEF QueuesApart
    <2>7. QED
        BY <1>5, <2>1, <2>3, <2>4, <2>6 DEF QueuesApart
<1>13. TasksWhole'
    <2>1. \A v \in Workers : item'[v] = (IF v = w THEN t ELSE item[v])
                             /\ pc'[v] = (IF v = w THEN "execute" ELSE pc[v])
        BY <1>1, <1>6, <1>7 DEF TypeOK
    <2>2. t \in unfinished
        BY <1>4 DEF IInv, TasksWhole
    <2>3. QED
        BY <1>5, <1>6, <1>10, <2>1, <2>2 DEF IInv, TasksWhole, popTask, items
<1>14. RemovalApart' /\ RemovalOnly'
    BY <1>4, <1>5, <1>6 DEF IInv, RemovalApart, RemovalOnly, popTask, removal, assignee
<1>15. QED
    BY <1>4, <1>5, <1>6, <1>9, <1>11, <1>12, <1>13, <1>14 DEF IInv

(* A worker that gives its task away leaves the rest of QueuesApart alone. *)
LEMMA GivesAway ==
    ASSUME QueuesApart, NEW w \in Workers, item[w] # NoTask, item'[w] = NoTask,
           \A v \in Workers \ {w} : item'[v] = item[v],
           active' = active \ {item[w]}
    PROVE  /\ \A t \in active' : \E v \in Workers : item'[v] = t
           /\ \A v \in Workers : item'[v] # NoTask => item'[v] \in active'
           /\ \A u, v \in Workers : u # v /\ item'[u] # NoTask => item'[u] # item'[v]
<1>1. \A v \in Workers \ {w} : item[v] # NoTask => item[v] # item[w]
    BY DEF QueuesApart
<1>2. ASSUME NEW t \in active' PROVE \E v \in Workers : item'[v] = t
    <2>1. PICK v \in Workers : item[v] = t
        BY DEF QueuesApart
    <2>2. QED
        BY <2>1
<1>3. QED
    BY <1>1, <1>2 DEF QueuesApart

(* A task goes back to the queue, or its table shuts down.                 *)
LEMMA RestartKeeps ==
    ASSUME IInv, NEW w \in Workers, restart_task(w)
    PROVE  /\ IInv'
           /\ \/ UNCHANGED <<pending, active>>
              \/ /\ item[w] \notin deleting /\ item[w] \in active
                 /\ ToSet(pending') = ToSet(pending) \cup {item[w]}
                 /\ active' = active \ {item[w]}
<1> USE DEF queues, items, assignee, removal
<1>1. TypeOK /\ QueuesApart
    BY DEF IInv
<1>2. item[w] # NoTask /\ pc[w] = "restart"
    BY <1>1 DEF restart_task, TypeOK, Resting
<1>3. CASE item[w] \in deleting
    <2>1. Goto(w, "cancel") /\ UNCHANGED <<queues, item, items, assignee, removal>>
        BY <1>3 DEF restart_task
    <2>2. /\ pc' \in [Workers -> Resting \cup Executing]
          /\ \A v \in Workers : item[v] = NoTask <=> pc'[v] \in Resting
          /\ pc'[w] = "cancel" /\ \A v \in Workers \ {w} : pc'[v] = pc[v]
        BY <1>1, <1>2, <2>1, GotoKeeps DEF Resting, Executing
    <2>3. TypeOK'
        BY <1>1, <2>1, <2>2 DEF TypeOK
    <2>4. \A v \in Workers : pc'[v] = "erase" <=> pc[v] = "erase"
        BY <1>2, <2>2
    <2>5. max_tasks_count' >= max_tasks_count
        BY <1>1, <2>1, LiveTasks
    <2>6. IInv'
        BY <2>1, <2>3, <2>4, <2>5, NothingMoves
    <2>7. QED
        BY <2>1, <2>6
<1>4. CASE item[w] \notin deleting
    <2> DEFINE t == item[w]
    <2>1. active' = active \ {t} /\ Requeue(w) /\ UNCHANGED <<items, assignee, removal>>
        BY <1>4 DEF restart_task
    <2>2. t \in active /\ t \in Tasks /\ t \notin ToSet(pending)
        BY <1>1, <1>2 DEF QueuesApart, TypeOK
    <2>3. /\ pc' \in [Workers -> Resting \cup Executing]
          /\ item' \in [Workers -> Tasks \cup {NoTask}]
          /\ item'[w] = NoTask /\ \A v \in Workers \ {w} : item'[v] = item[v]
          /\ \A v \in Workers : item'[v] = NoTask <=> pc'[v] \in Resting
          /\ \A v \in Workers \ {w} : pc'[v] = "erase" <=> pc[v] = "erase"
        BY <1>1, <2>1, IdleAgain DEF Requeue
    <2>4. /\ pending' \in Seq(Tasks) /\ Distinct(pending')
          /\ ToSet(pending') = ToSet(pending) \cup {t}
        <3>1. pending' = Append(pending, t)
            BY <1>1, <2>1, <2>2, PushAppends DEF Requeue, IInv
        <3>2. QED
            BY <1>1, <2>2, <3>1, AppendAdds DEF TypeOK, QueuesApart
    <2>5. \A v \in Workers \ {w} : item[v] # NoTask => item[v] # t
        BY <1>1, <1>2 DEF QueuesApart
    <2>6. t \in unfinished
        BY <1>2 DEF IInv, TasksWhole
    <2>7. /\ \A x \in active' : \E v \in Workers : item'[v] = x
          /\ \A v \in Workers : item'[v] # NoTask => item'[v] \in active'
          /\ \A u, v \in Workers : u # v /\ item'[u] # NoTask => item'[u] # item'[v]
        BY <1>1, <1>2, <2>1, <2>3, GivesAway
    <2> HIDE DEF t
    <2>8. TypeOK'
        BY <1>1, <2>1, <2>3, <2>4 DEF TypeOK, Requeue
    <2>9. Live' = Live
        BY <2>1, <2>2, <2>4 DEF Live, Removed
    <2>10. LimitKept'
        BY <2>1, <2>9 DEF IInv, LimitKept, Requeue
    <2>11. QueuesApart'
        BY <1>1, <2>1, <2>4, <2>7 DEF QueuesApart
    <2>12. TasksWhole'
        BY <2>1, <2>2, <2>3, <2>4, <2>5, <2>6, <2>9 DEF IInv, TasksWhole
    <2>13. RemovalApart' /\ RemovalOnly'
        BY <2>1, <2>2, <2>4 DEF IInv, RemovalApart, RemovalOnly
    <2>14. IInv'
        BY <2>8, <2>10, <2>11, <2>12, <2>13 DEF IInv
    <2>15. QED
        BY <1>4, <2>1, <2>2, <2>4, <2>14 DEF t
<1>5. QED
    BY <1>3, <1>4

(* The task is destroyed while its item is still active.                   *)
LEMMA ResetKeeps ==
    ASSUME IInv, NEW w \in Workers, resetTask(w)
    PROVE  IInv'
<1> USE DEF queues, assignee, removal
<1>1. TypeOK /\ QueuesApart
    BY DEF IInv
<1>2. item[w] # NoTask /\ pc[w] = "reset"
    BY <1>1 DEF resetTask, TypeOK, Resting
<1>3. /\ pc' \in [Workers -> Resting \cup Executing]
      /\ \A v \in Workers : item[v] = NoTask <=> pc'[v] \in Resting
      /\ pc'[w] = "erase" /\ \A v \in Workers \ {w} : pc'[v] = pc[v]
    BY <1>1, <1>2, GotoKeeps DEF Resting, Executing, resetTask
<1>4. TypeOK'
    BY <1>1, <1>3 DEF TypeOK, resetTask
<1>5. Live' = Live
    BY DEF Live, Removed, resetTask
<1>6. QueuesApart' /\ LimitKept' /\ RemovalApart' /\ RemovalOnly'
    BY <1>5 DEF IInv, QueuesApart, LimitKept, RemovalApart, RemovalOnly, resetTask
<1>7. item[w] \in active /\ item[w] \notin ToSet(pending)
      /\ \A v \in Workers \ {w} : item[v] # item[w]
    BY <1>1, <1>2 DEF QueuesApart
<1>8. TasksWhole'
    BY <1>3, <1>5, <1>7 DEF IInv, TasksWhole, resetTask
<1>9. QED
    BY <1>4, <1>6, <1>8 DEF IInv

(* The item leaves the active queue.                                       *)
LEMMA ReleaseKeeps ==
    ASSUME IInv, NEW w \in Workers, release_task(w)
    PROVE  IInv'
<1> USE DEF assignee, removal
<1>1. TypeOK /\ QueuesApart
    BY DEF IInv
<1>2. item[w] # NoTask /\ pc[w] = "erase"
    BY <1>1 DEF release_task, TypeOK, Resting
<1>3. /\ pc' \in [Workers -> Resting \cup Executing]
      /\ item' \in [Workers -> Tasks \cup {NoTask}]
      /\ item'[w] = NoTask /\ \A v \in Workers \ {w} : item'[v] = item[v]
      /\ \A v \in Workers : item'[v] = NoTask <=> pc'[v] \in Resting
      /\ \A v \in Workers \ {w} : pc'[v] = "erase" <=> pc[v] = "erase"
    BY <1>1, IdleAgain DEF release_task
<1>4. item[w] \in active /\ item[w] \in Tasks /\ item[w] \notin unfinished
    BY <1>1, <1>2 DEF IInv, QueuesApart, TasksWhole, TypeOK
<1>5. TypeOK'
    BY <1>1, <1>3, <1>4 DEF TypeOK, release_task
<1>6. Live' \subseteq Live /\ Live \subseteq Live' \cup {item[w]}
    BY DEF Live, Removed, release_task
<1>7. LimitKept'
    <2>1. max_tasks_count \in Nat /\ Live \subseteq Tasks /\ max_tasks_count' = max_tasks_count
        BY <1>1, LiveTasks DEF release_task
    <2>2. QED
        BY <1>6, <2>1, FewerKeepLimit DEF IInv, LimitKept
<1>8. QueuesApart'
    <2>1. /\ \A x \in active' : \E v \in Workers : item'[v] = x
          /\ \A v \in Workers : item'[v] # NoTask => item'[v] \in active'
          /\ \A u, v \in Workers : u # v /\ item'[u] # NoTask => item'[u] # item'[v]
        BY <1>1, <1>2, <1>3, GivesAway DEF release_task
    <2>2. QED
        BY <1>1, <2>1 DEF QueuesApart, release_task
<1>9. TasksWhole'
    BY <1>3, <1>4, <1>6 DEF IInv, TasksWhole, release_task
<1>10. RemovalApart' /\ RemovalOnly'
    BY DEF IInv, RemovalApart, RemovalOnly, release_task
<1>11. QED
    BY <1>5, <1>7, <1>8, <1>9, <1>10 DEF IInv

(* The pending tasks of the table go to tasks_to_cancel, the active ones   *)
(* to tasks_to_wait; both lists were empty.                                *)
LEMMA RemovalKeeps ==
    ASSUME IInv, NEW s \in Storages, removeTasksCorrespondingToStorage(s)
    PROVE  /\ IInv'
           /\ ToSet(pending') = {t \in ToSet(pending) : storage[t] # s}
<1> USE DEF workers
<1> DEFINE C == {t \in ToSet(pending) : storage[t] = s}
           K == {t \in ToSet(pending) : storage[t] # s}
<1>1. TypeOK /\ QueuesApart
    BY DEF IInv
<1>2. ToSet(pending) \subseteq Tasks
    BY <1>1, LiveTasks
<1>3. /\ pending' \in Seq(Tasks) /\ Distinct(pending') /\ ToSet(pending') = K
    BY <1>2, EnumerationComplete DEF removeTasksCorrespondingToStorage
<1>4. /\ ActiveOf(s) \subseteq active
      /\ tasks_to_cancel' = [tasks_to_cancel EXCEPT ![s] = C]
      /\ tasks_to_wait' = [tasks_to_wait EXCEPT ![s] = ActiveOf(s)]
      /\ tasks_to_cancel[s] = {} /\ tasks_to_wait[s] = {}
      /\ stage' = [stage EXCEPT ![s] = "removing"]
    BY DEF ActiveOf, removeTasksCorrespondingToStorage, SetStage, IInv, RemovalOnly
<1>5. C \subseteq ToSet(pending) /\ K \subseteq ToSet(pending) /\ ToSet(pending) = C \cup K
      /\ C \cap K = {}
    OBVIOUS
<1> HIDE DEF C, K
<1>6. TypeOK'
    <2>1. tasks_to_cancel' \in [Storages -> SUBSET Tasks] /\ tasks_to_wait' \in [Storages -> SUBSET Tasks]
        BY <1>1, <1>2, <1>4, <1>5 DEF TypeOK
    <2>2. stage' \in [Storages -> {"started", "moved", "deactivated", "removing", "finished"}]
        BY <1>1, <1>4 DEF TypeOK
    <2>3. deleting' \subseteq Tasks
        BY <1>1, <1>4 DEF TypeOK, removeTasksCorrespondingToStorage
    <2>4. QED
        BY <1>1, <1>3, <2>1, <2>2, <2>3 DEF TypeOK, removeTasksCorrespondingToStorage
<1>7. /\ tasks_to_cancel'[s] = C /\ tasks_to_wait'[s] = ActiveOf(s)
      /\ \A u \in Storages \ {s} : /\ tasks_to_cancel'[u] = tasks_to_cancel[u]
                                   /\ tasks_to_wait'[u] = tasks_to_wait[u]
                                   /\ stage'[u] = stage[u]
      /\ stage'[s] = "removing" /\ active' = active
    BY <1>1, <1>4 DEF TypeOK, removeTasksCorrespondingToStorage
<1>8. Live' = Live
    <2>1. Removed' = Removed \cup C \cup ActiveOf(s)
        BY <1>4, <1>7 DEF Removed
    <2>2. QED
        BY <1>3, <1>4, <1>5, <1>7, <2>1 DEF Live
<1>9. LimitKept'
    BY <1>8 DEF IInv, LimitKept, removeTasksCorrespondingToStorage
<1>10. QueuesApart'
    BY <1>1, <1>3, <1>5, <1>7 DEF QueuesApart, removeTasksCorrespondingToStorage
<1>11. TasksWhole'
    BY <1>3, <1>5, <1>7, <1>8 DEF IInv, TasksWhole, removeTasksCorrespondingToStorage
<1>12. RemovalApart' /\ RemovalOnly'
    BY <1>1, <1>3, <1>5, <1>7 DEF IInv, QueuesApart, RemovalApart, RemovalOnly
<1>13. QED
    BY <1>3, <1>6, <1>9, <1>10, <1>11, <1>12 DEF IInv, K

(* A task that is cancelled is in no queue, so nobody else misses it.      *)
LEMMA CancelKeeps ==
    ASSUME IInv, NEW s \in Storages, cancelPending(s)
    PROVE  IInv'
<1> USE DEF queues, workers, assignee
<1>1. TypeOK /\ QueuesApart
    BY DEF IInv
<1>2. PICK t \in tasks_to_cancel[s] :
          /\ tasks_to_cancel' = [tasks_to_cancel EXCEPT ![s] = @ \ {t}]
          /\ unfinished' = unfinished \ {t}
    BY DEF cancelPending
<1>3. /\ tasks_to_cancel'[s] = tasks_to_cancel[s] \ {t}
      /\ \A u \in Storages \ {s} : tasks_to_cancel'[u] = tasks_to_cancel[u]
      /\ tasks_to_cancel' \in [Storages -> SUBSET Tasks]
    BY <1>1, <1>2 DEF TypeOK
<1>4. TypeOK'
    BY <1>1, <1>2, <1>3 DEF TypeOK, cancelPending
<1>5. Live' \subseteq Live /\ Live \subseteq Live' \cup {t}
    <2>1. Removed' \subseteq Removed /\ Removed \subseteq Removed' \cup {t}
        BY <1>3 DEF Removed, cancelPending
    <2>2. QED
        BY <2>1 DEF Live, cancelPending
<1>6. LimitKept'
    <2>1. max_tasks_count \in Nat /\ Live \subseteq Tasks /\ max_tasks_count' = max_tasks_count
        BY <1>1, LiveTasks DEF cancelPending
    <2>2. QED
        BY <1>5, <2>1, FewerKeepLimit DEF IInv, LimitKept
<1>7. QueuesApart'
    BY <1>1 DEF QueuesApart, cancelPending
<1>8. t \notin ToSet(pending) /\ t \notin active
    BY DEF IInv, RemovalApart
<1>9. TasksWhole'
    BY <1>1, <1>2, <1>5, <1>8 DEF IInv, TasksWhole, QueuesApart, cancelPending
<1>10. RemovalApart' /\ RemovalOnly'
    BY <1>3 DEF IInv, RemovalApart, RemovalOnly, cancelPending
<1>11. QED
    BY <1>4, <1>6, <1>7, <1>9, <1>10 DEF IInv

(* A removal lets go of a task that is done, hence destroyed.              *)
LEMMA WaitKeeps ==
    ASSUME IInv, NEW s \in Storages, waitForActive(s)
    PROVE  IInv'
<1> USE DEF queues, items, workers, assignee
<1>1. TypeOK /\ QueuesApart
    BY DEF IInv
<1>2. PICK t \in tasks_to_wait[s] \cap done :
          tasks_to_wait' = [tasks_to_wait EXCEPT ![s] = @ \ {t}]
    BY DEF waitForActive
<1>3. /\ tasks_to_wait'[s] = tasks_to_wait[s] \ {t}
      /\ \A u \in Storages \ {s} : tasks_to_wait'[u] = tasks_to_wait[u]
      /\ tasks_to_wait' \in [Storages -> SUBSET Tasks]
    BY <1>1, <1>2 DEF TypeOK
<1>4. TypeOK'
    BY <1>1, <1>3 DEF TypeOK, waitForActive
<1>5. Live' \subseteq Live /\ Live \subseteq Live' \cup {t}
    <2>1. Removed' \subseteq Removed /\ Removed \subseteq Removed' \cup {t}
        BY <1>3 DEF Removed, waitForActive
    <2>2. QED
        BY <2>1 DEF Live, waitForActive
<1>6. LimitKept'
    <2>1. max_tasks_count \in Nat /\ Live \subseteq Tasks /\ max_tasks_count' = max_tasks_count
        BY <1>1, LiveTasks DEF waitForActive
    <2>2. QED
        BY <1>5, <2>1, FewerKeepLimit DEF IInv, LimitKept
<1>7. QueuesApart'
    BY <1>1 DEF QueuesApart, waitForActive
<1>8. TasksWhole'
    <2>1. t \notin unfinished
        BY DEF IInv, TasksWhole
    <2>2. QED
        BY <1>5, <2>1 DEF IInv, TasksWhole, waitForActive
<1>9. RemovalApart' /\ RemovalOnly'
    BY <1>3 DEF IInv, RemovalApart, RemovalOnly, waitForActive
<1>10. QED
    BY <1>4, <1>6, <1>7, <1>8, <1>9 DEF IInv

(* Another policy keeps the pending tasks, perhaps in another order.       *)
LEMMA PolicyKeeps ==
    ASSUME IInv, NEW p \in Policies, updateSchedulingPolicy(p)
    PROVE  IInv' /\ ToSet(pending') = ToSet(pending)
<1> USE DEF items, workers, assignee, removal
<1>1. TypeOK /\ QueuesApart
    BY DEF IInv
<1>2. pending' \in Seq(Tasks) /\ Distinct(pending') /\ ToSet(pending') = ToSet(pending)
    <2>1. CASE pending' = pending
        BY <1>1, <2>1 DEF TypeOK, QueuesApart
    <2>2. CASE pending' \in SetToSeqs(ToSet(pending))
        BY <1>1, <2>2, LiveTasks, EnumerationComplete
    <2>3. QED
        BY <2>1, <2>2 DEF updateSchedulingPolicy
<1>3. TypeOK'
    BY <1>1, <1>2 DEF TypeOK, updateSchedulingPolicy
<1>4. Live' = Live
    BY <1>2 DEF Live, Removed, updateSchedulingPolicy
<1>5. LimitKept' /\ QueuesApart'
    BY <1>1, <1>2, <1>4 DEF IInv, LimitKept, QueuesApart, updateSchedulingPolicy
<1>6. TasksWhole' /\ RemovalApart' /\ RemovalOnly'
    BY <1>2, <1>4 DEF IInv, TasksWhole, RemovalApart, RemovalOnly, updateSchedulingPolicy
<1>7. QED
    BY <1>2, <1>3, <1>5, <1>6 DEF IInv

(* A step of a worker that moves no task, from l to m.                     *)
LEMMA WorkerKeeps ==
    ASSUME IInv, NEW w \in Workers, NEW m \in (Resting \cup Executing) \ {"erase"},
           pc[w] # "erase", Goto(w, m), m \in Resting <=> pc[w] \in Resting,
           UNCHANGED <<queues, items, item, stage, thread, removal>>,
           scheduled' \in [Storages -> BOOLEAN]
    PROVE  IInv'
<1> USE DEF queues, items, removal
<1>1. /\ pc' \in [Workers -> Resting \cup Executing]
      /\ \A v \in Workers : item[v] = NoTask <=> pc'[v] \in Resting
      /\ pc'[w] = m /\ \A v \in Workers \ {w} : pc'[v] = pc[v]
    BY GotoKeeps DEF IInv
<1>2. TypeOK'
    BY <1>1 DEF IInv, TypeOK
<1>3. max_tasks_count' >= max_tasks_count
    BY LiveTasks DEF IInv
<1>4. \A v \in Workers : pc'[v] = "erase" <=> pc[v] = "erase"
    BY <1>1
<1>5. QED
    BY <1>2, <1>3, <1>4, NothingMoves

(* A step of a table that moves no task.                                   *)
LEMMA TableKeeps ==
    ASSUME IInv, UNCHANGED <<queues, items, workers, removal>>,
           stage' \in [Storages -> {"started", "moved", "deactivated", "removing", "finished"}],
           scheduled' \in [Storages -> BOOLEAN], thread' \in [Storages -> {"no", "job", "call"}],
           \A s \in Storages : stage'[s] = "removing" \/ stage[s] # "removing"
                               \/ (tasks_to_cancel[s] = {} /\ tasks_to_wait[s] = {})
    PROVE  IInv'
<1> USE DEF queues, items, workers, removal
<1>1. TypeOK'
    BY DEF IInv, TypeOK
<1>2. max_tasks_count' >= max_tasks_count
    BY LiveTasks DEF IInv
<1>3. QED
    BY <1>1, <1>2, NothingMoves

(* Waking the assignee keeps the type of scheduled.                        *)
LEMMA TriggeredType ==
    ASSUME TypeOK, NEW s \in Storages
    PROVE  Triggered(s) \in [Storages -> BOOLEAN]
<1>1. (scheduled[s] \/ stage[s] = "started") \in BOOLEAN
    OBVIOUS
<1>2. QED
    BY <1>1 DEF TypeOK, Triggered

(* Every step of a worker keeps IInv.                                      *)
LEMMA ThreadFunctionKeeps ==
    ASSUME IInv, NEW w \in Workers, threadFunction(w)
    PROVE  IInv'
<1> USE DEF assignee
<1>1. TypeOK
    BY DEF IInv
<1>2. scheduled \in [Storages -> BOOLEAN]
    BY <1>1 DEF TypeOK
<1>3. CASE waitForTasks(w)
    BY <1>2, <1>3, WorkerKeeps DEF waitForTasks, Resting, Executing
<1>4. CASE stopThread(w)
    BY <1>2, <1>4, WorkerKeeps DEF stopThread, Resting, Executing
<1>5. CASE popTask(w)
    BY <1>5, PopKeeps
<1>6. CASE executeStep(w)
    <2>1. PICK next \in {"restart", "complete", "cancel"} : Goto(w, next)
        BY <1>6 DEF executeStep
    <2>2. QED
        BY <1>2, <1>6, <2>1, WorkerKeeps DEF executeStep, Resting, Executing
<1>7. CASE onCompleted(w)
    <2>1. item[w] \in Tasks
        BY <1>1, <1>7 DEF TypeOK, onCompleted, Resting
    <2>2. scheduled' \in [Storages -> BOOLEAN]
        BY <1>1, <1>7, <2>1, TriggeredType DEF onCompleted, TypeOK
    <2>3. QED
        BY <1>7, <2>2, WorkerKeeps DEF onCompleted, Resting, Executing
<1>8. CASE onCompletedThrows(w)
    BY <1>2, <1>8, WorkerKeeps DEF onCompletedThrows, Resting, Executing
<1>9. CASE cancelTask(w)
    BY <1>2, <1>9, WorkerKeeps DEF cancelTask, Resting, Executing
<1>10. CASE restart_task(w)
    BY <1>10, RestartKeeps
<1>11. CASE resetTask(w)
    BY <1>11, ResetKeeps
<1>12. CASE release_task(w)
    BY <1>12, ReleaseKeeps
<1>13. QED
    BY <1>3, <1>4, <1>5, <1>6, <1>7, <1>8, <1>9, <1>10, <1>11, <1>12 DEF threadFunction

(* Every step of a table keeps IInv.                                       *)
LEMMA StorageKeeps ==
    ASSUME IInv, NEW s \in Storages,
           Finishing(s) \/ Scheduling(s) \/ finish(s) \/ start(s) \/ trigger(s)
    PROVE  IInv'
<1>1. TypeOK
    BY DEF IInv
<1>2. /\ stage \in [Storages -> {"started", "moved", "deactivated", "removing", "finished"}]
      /\ scheduled \in [Storages -> BOOLEAN] /\ thread \in [Storages -> {"no", "job", "call"}]
      /\ Triggered(s) \in [Storages -> BOOLEAN]
    BY <1>1, TriggeredType DEF TypeOK
<1>3. CASE deactivate(s)
    BY <1>2, <1>3, TableKeeps DEF deactivate, SetStage
<1>4. CASE removeTasksCorrespondingToStorage(s)
    BY <1>4, RemovalKeeps
<1>5. CASE cancelPending(s)
    BY <1>5, CancelKeeps
<1>6. CASE waitForActive(s)
    BY <1>6, WaitKeeps
<1>7. CASE finishReturns(s)
    BY <1>2, <1>7, TableKeeps DEF finishReturns, SetStage
<1>8. CASE threadFunc(s)
    BY <1>2, <1>8, TableKeeps DEF threadFunc
<1>9. CASE scheduleNothing(s)
    BY <1>2, <1>9, TableKeeps DEF scheduleNothing
<1>10. CASE threadFuncEnds(s)
    BY <1>2, <1>10, TableKeeps DEF threadFuncEnds
<1>11. CASE \E t \in Tasks, p \in Priorities : scheduleTask(s, t, p)
    BY <1>2, <1>11, PushKeeps DEF scheduleTask
<1>12. CASE finish(s)
    BY <1>2, <1>12, TableKeeps DEF finish, SetStage
<1>13. CASE start(s)
    BY <1>2, <1>13, TableKeeps DEF start, SetStage
<1>14. CASE trigger(s)
    BY <1>2, <1>14, TableKeeps DEF trigger
<1>15. QED
    BY <1>3, <1>4, <1>5, <1>6, <1>7, <1>8, <1>9, <1>10, <1>11, <1>12, <1>13, <1>14
    DEF Finishing, Scheduling

(* The pool shuts down or grows.                                           *)
LEMMA PoolKeeps ==
    ASSUME IInv,
           \/ wait
           \/ \E W \in SUBSET Workers, n \in TaskLimits : increaseThreadsAndMaxTasksCount(W, n)
    PROVE  IInv'
<1> USE DEF items, assignee, removal
<1>1. TypeOK
    BY DEF IInv
<1>2. CASE wait
    <2>1. /\ pc' \in [Workers -> Resting \cup Executing]
          /\ \A v \in Workers : item[v] = NoTask <=> pc'[v] \in Resting
          /\ \A v \in Workers : pc'[v] = "erase" <=> pc[v] = "erase"
        BY <1>1, <1>2, WakeKeeps DEF wait
    <2>2. TypeOK'
        BY <1>1, <1>2, <2>1 DEF TypeOK, wait
    <2>3. max_tasks_count' >= max_tasks_count
        BY <1>1, <1>2, LiveTasks DEF wait
    <2>4. QED
        BY <1>2, <2>1, <2>2, <2>3, NothingMoves DEF wait
<1>3. ASSUME NEW W \in SUBSET Workers, NEW n \in TaskLimits,
             increaseThreadsAndMaxTasksCount(W, n)
      PROVE  IInv'
    <2>1. /\ \A w \in W : pc[w] = "off"
          /\ pc' = [w \in Workers |-> IF w \in W THEN "idle" ELSE pc[w]]
          /\ max_tasks_count' = n /\ n >= max_tasks_count
        BY <1>3 DEF increaseThreadsAndMaxTasksCount
    <2>2. /\ pc' \in [Workers -> Resting \cup Executing]
          /\ \A v \in Workers : item[v] = NoTask <=> pc'[v] \in Resting
          /\ \A v \in Workers : pc'[v] = "erase" <=> pc[v] = "erase"
        BY <1>1, <2>1 DEF TypeOK, Resting, Executing
    <2>3. TypeOK'
        BY <1>1, <1>3, <2>1, <2>2 DEF TypeOK, increaseThreadsAndMaxTasksCount
    <2>4. QED
        BY <1>3, <2>1, <2>2, <2>3, NothingMoves DEF increaseThreadsAndMaxTasksCount
<1>4. QED
    BY <1>2, <1>3

(* Every step of the specification keeps IInv.                             *)
LEMMA StepHolds == IInv /\ [Next]_vars => IInv'
<1> SUFFICES ASSUME IInv, [Next]_vars PROVE IInv'
    OBVIOUS
<1>1. ASSUME NEW w \in Workers, threadFunction(w) PROVE IInv'
    BY <1>1, ThreadFunctionKeeps
<1>2. ASSUME NEW s \in Storages,
             Finishing(s) \/ Scheduling(s) \/ finish(s) \/ start(s) \/ trigger(s)
      PROVE  IInv'
    BY <1>2, StorageKeeps
<1>3. ASSUME NEW s \in Storages, NEW t \in Tasks, NEW p \in Priorities, movePartsToSpace(s, t, p)
      PROVE  IInv'
    <2>1. /\ scheduled' \in [Storages -> BOOLEAN] /\ thread' \in [Storages -> {"no", "job", "call"}]
        BY <1>3, TriggeredType DEF movePartsToSpace, IInv, TypeOK
    <2>2. QED
        BY <1>3, <2>1, PushKeeps DEF movePartsToSpace
<1>4. ASSUME NEW p \in Policies, updateSchedulingPolicy(p) PROVE IInv'
    BY <1>4, PolicyKeeps
<1>5. CASE wait \/ \E W \in SUBSET Workers, n \in TaskLimits : increaseThreadsAndMaxTasksCount(W, n)
    BY <1>5, PoolKeeps
<1>6. CASE UNCHANGED vars
    <2>1. UNCHANGED <<queues, items, workers, assignee, removal>>
        BY <1>6 DEF vars
    <2>2. QED
        BY <2>1, TableKeeps DEF IInv, TypeOK, assignee
<1>7. QED
    BY <1>1, <1>2, <1>3, <1>4, <1>5, <1>6 DEF Next

(***************************************************************************)
(* The properties                                                          *)
(***************************************************************************)
(* IInv holds in every reachable state.                                    *)
LEMMA ExecutorInvariant == Spec => []IInv
<1>1. QED
    BY InitHolds, StepHolds, PTL DEF Spec

(* TypeOK is an invariant: a worker holds a task exactly while it executes *)
(* one.                                                                    *)
THEOREM ExecutorTypes == Spec => []TypeOK
<1>1. IInv => TypeOK
    BY DEF IInv
<1>2. QED
    BY <1>1, ExecutorInvariant, PTL

(* OneQueue is an invariant: "task may occur only in one of these queue",  *)
(* and the active tasks are those of the workers.                          *)
THEOREM TaskInOneQueue == Spec => []OneQueue
<1>1. IInv => OneQueue
    <2> SUFFICES ASSUME IInv PROVE OneQueue
        OBVIOUS
    <2>1. active = UNION {Held(w) : w \in Workers}
        BY LiveIsAlive DEF IInv
    <2>2. \A v, w \in Workers : v # w => Held(v) \cap Held(w) = {}
        BY DEF IInv, QueuesApart, Held
    <2>3. QED
        BY <2>1, <2>2 DEF IInv, QueuesApart, Distinct, OneQueue
<1>2. QED
    BY <1>1, ExecutorInvariant, PTL

(* NoTaskLost is an invariant: the metric that trySchedule checks counts   *)
(* every task that may be pushed again, so that the circular buffer is     *)
(* never full when a task goes back and overwrites none.                   *)
THEOREM TasksAreKept == Spec => []NoTaskLost
<1>1. IInv => NoTaskLost
    BY LiveIsAlive DEF IInv, TasksWhole, NoTaskLost
<1>2. QED
    BY <1>1, ExecutorInvariant, PTL

(***************************************************************************)
(* A finished table.  A query that moves parts schedules a task whatever   *)
(* the state of the assignee is; without such queries finish is final.     *)
(***************************************************************************)
Shut(s) == stage[s] \in {"removing", "finished"}

RemovalOwn ==
    \A s \in Storages : \A t \in tasks_to_cancel[s] \cup tasks_to_wait[s] : storage[t] = s

(* From the removal on no task of the table comes; those that execute are  *)
(* marked and waited for.                                                  *)
NothingComes ==
    \A s \in Storages : Shut(s) =>
        /\ thread[s] = "no"
        /\ \A t \in ToSet(pending) : storage[t] # s
        /\ \A t \in active : storage[t] = s => t \in tasks_to_wait[s] /\ t \in deleting

Quiet == RemovalOwn /\ NothingComes

(* No task comes and none is forgotten by a removal.                       *)
LEMMA QuietUnmoved ==
    ASSUME Quiet, ToSet(pending') \subseteq ToSet(pending), active' \subseteq active,
           UNCHANGED <<storage, deleting, removal>>,
           \A s \in Storages : Shut(s)' => Shut(s) /\ thread'[s] = "no"
    PROVE  Quiet'
    BY DEF Quiet, RemovalOwn, NothingComes, removal

(* Every step of a worker keeps a finished table quiet.                    *)
LEMMA ThreadFunctionQuiet ==
    ASSUME IInv, Quiet, NEW w \in Workers, threadFunction(w)
    PROVE  Quiet'
<1> USE DEF assignee, items, queues
<1>1. /\ UNCHANGED <<storage, deleting, removal, stage, thread>>
    BY DEF threadFunction, waitForTasks, stopThread, popTask, executeStep, onCompleted,
           onCompletedThrows, cancelTask, restart_task, resetTask, release_task
<1>2. \A s \in Storages : Shut(s)' => Shut(s) /\ thread'[s] = "no"
    BY <1>1 DEF Quiet, NothingComes, Shut
<1>3. CASE popTask(w)
    <2>1. PICK t \in ToSet(pending) : /\ ToSet(pending') = ToSet(pending) \ {t}
                                      /\ active' = active \cup {t}
        BY <1>3, PopKeeps
    <2>2. QED
        BY <1>1, <1>2, <2>1 DEF Quiet, RemovalOwn, NothingComes, Shut, removal
<1>4. CASE restart_task(w)
    <2>1. CASE UNCHANGED <<pending, active>>
        BY <1>1, <1>2, <2>1, QuietUnmoved
    <2>2. CASE /\ item[w] \notin deleting /\ item[w] \in active
               /\ ToSet(pending') = ToSet(pending) \cup {item[w]}
               /\ active' = active \ {item[w]}
        BY <1>1, <1>2, <2>2 DEF Quiet, RemovalOwn, NothingComes, Shut, removal
    <2>3. QED
        BY <1>4, <2>1, <2>2, RestartKeeps
<1>5. CASE release_task(w)
    BY <1>1, <1>2, <1>5, QuietUnmoved DEF release_task
<1>6. CASE UNCHANGED <<pending, active>>
    BY <1>1, <1>2, <1>6, QuietUnmoved
<1>7. QED
    BY <1>3, <1>4, <1>5, <1>6
    DEF threadFunction, waitForTasks, stopThread, executeStep, onCompleted, onCompletedThrows,
        cancelTask, resetTask

(* The thread of a table that is not shut schedules a task of that table.  *)
LEMMA ScheduleQuiet ==
    ASSUME IInv, Quiet, NEW s \in Storages, NEW t \in Tasks, NEW p \in Priorities,
           scheduleTask(s, t, p)
    PROVE  Quiet'
<1>1. ToSet(pending') = ToSet(pending) \cup {t}
    <2>1. /\ scheduled' \in [Storages -> BOOLEAN] /\ thread' \in [Storages -> {"no", "job", "call"}]
        BY DEF scheduleTask, IInv, TypeOK
    <2>2. QED
        BY <2>1, PushKeeps DEF scheduleTask
<1>2. t \notin Live
    BY LiveIsAlive DEF IInv, scheduleTask, trySchedulePush
<1>3. storage'[t] = s /\ \A u \in Tasks \ {t} : storage'[u] = storage[u]
    BY DEF IInv, TypeOK, scheduleTask, trySchedulePush
<1>4. ~Shut(s)
    BY DEF Quiet, NothingComes, scheduleTask
<1>5. \A u \in Storages : u # s => thread'[u] = thread[u]
    BY DEF scheduleTask, IInv, TypeOK
<1>6. RemovalOwn'
    <2>1. \A u \in Storages : tasks_to_cancel[u] \cup tasks_to_wait[u] \subseteq Tasks \ {t}
        BY <1>2 DEF IInv, TypeOK, Live, Removed
    <2>2. QED
        BY <1>3, <2>1 DEF Quiet, RemovalOwn, scheduleTask, removal
<1>7. NothingComes'
    <2> SUFFICES ASSUME NEW u \in Storages, Shut(u)'
                 PROVE  /\ thread'[u] = "no"
                        /\ \A x \in ToSet(pending') : storage'[x] # u
                        /\ \A x \in active' : storage'[x] = u =>
                               x \in tasks_to_wait'[u] /\ x \in deleting'
        BY DEF NothingComes
    <2>1. Shut(u) /\ u # s
        BY <1>4 DEF Shut, scheduleTask
    <2>2. ToSet(pending) \subseteq Tasks \ {t} /\ active \subseteq Tasks \ {t}
        BY <1>2, LiveTasks DEF IInv, TypeOK, Live
    <2>3. QED
        BY <1>1, <1>3, <1>5, <2>1, <2>2
        DEF Quiet, NothingComes, scheduleTask, trySchedulePush, removal
<1>8. QED
    BY <1>6, <1>7 DEF Quiet

(* The removal leaves no pending task of the table.                        *)
LEMMA RemovalQuiet ==
    ASSUME IInv, Quiet, NEW s \in Storages, removeTasksCorrespondingToStorage(s)
    PROVE  Quiet'
<1>1. ToSet(pending') = {t \in ToSet(pending) : storage[t] # s}
    BY RemovalKeeps
<1>2. /\ tasks_to_cancel'[s] = {t \in ToSet(pending) : storage[t] = s}
      /\ tasks_to_wait'[s] = ActiveOf(s) /\ stage'[s] = "removing"
      /\ \A u \in Storages \ {s} : /\ tasks_to_cancel'[u] = tasks_to_cancel[u]
                                   /\ tasks_to_wait'[u] = tasks_to_wait[u]
                                   /\ stage'[u] = stage[u]
    BY DEF IInv, TypeOK, removeTasksCorrespondingToStorage, SetStage
<1>3. RemovalOwn'
    BY <1>2 DEF Quiet, RemovalOwn, ActiveOf, removeTasksCorrespondingToStorage
<1>4. NothingComes'
    BY <1>1, <1>2 DEF Quiet, NothingComes, Shut, ActiveOf, removeTasksCorrespondingToStorage
<1>5. QED
    BY <1>3, <1>4 DEF Quiet

(* Every step of a table keeps the finished tables quiet.                  *)
LEMMA StorageQuiet ==
    ASSUME IInv, Quiet, NEW s \in Storages,
           Finishing(s) \/ Scheduling(s) \/ finish(s) \/ start(s) \/ trigger(s)
    PROVE  Quiet'
<1> USE DEF items, queues, SetStage
<1>1. /\ stage \in [Storages -> {"started", "moved", "deactivated", "removing", "finished"}]
      /\ thread \in [Storages -> {"no", "job", "call"}]
      /\ tasks_to_cancel \in [Storages -> SUBSET Tasks]
      /\ tasks_to_wait \in [Storages -> SUBSET Tasks]
    BY DEF IInv, TypeOK
<1>2. \A u \in Storages : Shut(u) => thread[u] = "no"
    BY DEF Quiet, NothingComes
<1>3. CASE removeTasksCorrespondingToStorage(s)
    BY <1>3, RemovalQuiet
<1>4. CASE \E t \in Tasks, p \in Priorities : scheduleTask(s, t, p)
    BY <1>4, ScheduleQuiet
<1>5. CASE cancelPending(s)
    <2>1. \A u \in Storages : tasks_to_cancel'[u] \subseteq tasks_to_cancel[u]
        BY <1>1, <1>5 DEF cancelPending
    <2>2. QED
        BY <1>5, <2>1 DEF cancelPending, Quiet, RemovalOwn, NothingComes, Shut, assignee
<1>6. CASE waitForActive(s)
    <2>1. PICK t \in tasks_to_wait[s] \cap done :
              tasks_to_wait' = [tasks_to_wait EXCEPT ![s] = @ \ {t}]
        BY <1>6 DEF waitForActive
    <2>2. t \notin active
        BY DEF IInv, TasksWhole
    <2>3. /\ \A u \in Storages : tasks_to_wait'[u] \subseteq tasks_to_wait[u]
          /\ \A u \in Storages : \A x \in tasks_to_wait[u] : x # t => x \in tasks_to_wait'[u]
        BY <1>1, <2>1
    <2>4. QED
        BY <1>6, <2>2, <2>3 DEF waitForActive, Quiet, RemovalOwn, NothingComes, Shut, assignee
<1>7. CASE finishReturns(s)
    BY <1>1, <1>2, <1>7, QuietUnmoved DEF finishReturns, Shut
<1>8. CASE deactivate(s)
    BY <1>1, <1>2, <1>8, QuietUnmoved DEF deactivate, Shut
<1>9. CASE threadFunc(s)
    BY <1>1, <1>2, <1>9, QuietUnmoved DEF threadFunc, Shut
<1>10. CASE scheduleNothing(s)
    BY <1>1, <1>2, <1>10, QuietUnmoved DEF scheduleNothing, Shut
<1>11. CASE threadFuncEnds(s)
    BY <1>1, <1>2, <1>11, QuietUnmoved DEF threadFuncEnds, Shut
<1>12. CASE finish(s)
    BY <1>1, <1>2, <1>12, QuietUnmoved DEF finish, Shut
<1>13. CASE start(s)
    BY <1>1, <1>2, <1>13, QuietUnmoved DEF start, Shut
<1>14. CASE trigger(s)
    BY <1>1, <1>2, <1>14, QuietUnmoved DEF trigger, Shut
<1>15. QED
    BY <1>3, <1>4, <1>5, <1>6, <1>7, <1>8, <1>9, <1>10, <1>11, <1>12, <1>13, <1>14
    DEF Finishing, Scheduling

(* Every step keeps the finished tables quiet, without moves by queries.   *)
LEMMA QuietStep ==
    ASSUME ~AsyncMoves
    PROVE  IInv /\ Quiet /\ [Next]_vars => Quiet'
<1> SUFFICES ASSUME IInv, Quiet, [Next]_vars PROVE Quiet'
    OBVIOUS
<1> USE DEF items, assignee, workers
<1>1. ASSUME NEW w \in Workers, threadFunction(w) PROVE Quiet'
    BY <1>1, ThreadFunctionQuiet
<1>2. ASSUME NEW s \in Storages,
             Finishing(s) \/ Scheduling(s) \/ finish(s) \/ start(s) \/ trigger(s)
      PROVE  Quiet'
    BY <1>2, StorageQuiet
<1>3. ASSUME NEW s \in Storages, NEW t \in Tasks, NEW p \in Priorities, movePartsToSpace(s, t, p)
      PROVE  Quiet'
    BY <1>3 DEF movePartsToSpace
<1>4. ASSUME UNCHANGED <<stage, thread, storage, deleting, removal, active>>,
             ToSet(pending') = ToSet(pending)
      PROVE  Quiet'
    <2>1. \A s \in Storages : Shut(s)' => Shut(s) /\ thread'[s] = "no"
        BY <1>4 DEF Quiet, NothingComes, Shut
    <2>2. QED
        BY <1>4, <2>1, QuietUnmoved
<1>5. ASSUME NEW p \in Policies, updateSchedulingPolicy(p) PROVE Quiet'
    BY <1>4, <1>5, PolicyKeeps DEF updateSchedulingPolicy
<1>6. ASSUME NEW W \in SUBSET Workers, NEW n \in TaskLimits, increaseThreadsAndMaxTasksCount(W, n)
      PROVE  Quiet'
    BY <1>4, <1>6 DEF increaseThreadsAndMaxTasksCount
<1>7. CASE wait
    BY <1>4, <1>7 DEF wait
<1>8. CASE UNCHANGED vars
    BY <1>4, <1>8 DEF vars, queues
<1>9. QED
    BY <1>1, <1>2, <1>3, <1>5, <1>6, <1>7, <1>8 DEF Next

(* FinishedIsQuiet is an invariant: "when a Storage wants to shutdown, it  *)
(* must wait until all its background operations are finished", as long as *)
(* only threadFunc schedules tasks.                                        *)
THEOREM FinishIsFinal ==
    ASSUME ~AsyncMoves
    PROVE  Spec => []FinishedIsQuiet
<1>1. Init => Quiet
    BY DEF Init, Quiet, RemovalOwn, NothingComes, Shut
<1>2. IInv /\ Quiet /\ [Next]_vars => Quiet'
    BY QuietStep
<1>3. IInv /\ Quiet => FinishedIsQuiet
    <2> SUFFICES ASSUME IInv, Quiet, NEW s \in Storages, stage[s] = "finished"
                 PROVE  thread[s] = "no" /\ \A t \in Alive \cup unfinished : storage[t] # s
        BY DEF FinishedIsQuiet
    <2>1. Alive = Live /\ unfinished \subseteq Live
        BY LiveIsAlive DEF IInv, TasksWhole
    <2>2. tasks_to_cancel[s] = {} /\ tasks_to_wait[s] = {}
        BY DEF IInv, RemovalOnly
    <2>3. \A t \in Removed : storage[t] # s
        BY <2>2 DEF Quiet, RemovalOwn, Removed
    <2>4. \A t \in ToSet(pending) \cup active : storage[t] # s
        BY <2>2 DEF Quiet, NothingComes, Shut
    <2>5. thread[s] = "no"
        BY DEF Quiet, NothingComes, Shut
    <2>6. QED
        BY <2>1, <2>3, <2>4, <2>5 DEF Live
<1>4. QED
    BY <1>1, <1>2, <1>3, ExecutorInvariant, PTL DEF Spec
=============================================================================
