------------------------- MODULE BackgroundExecutor -------------------------
(***************************************************************************)
(* The pool that runs merges, mutations, fetches and moves of all tables   *)
(* (MergeTreeBackgroundExecutor), and the object of each table that gives  *)
(* it tasks and takes them back when the table shuts down                  *)
(* (BackgroundJobsAssignee).                                               *)
(*                                                                         *)
(* A task is a sequence of steps.  A worker takes a task from the pending  *)
(* queue, executes one step and puts the task back.  The queues are under  *)
(* one mutex; steps, callbacks, cancellation and destruction of tasks are  *)
(* outside of it.  One action is one section under a mutex or one call     *)
(* outside of it.                                                          *)
(***************************************************************************)
EXTENDS Integers, SequencesExt

CONSTANTS Workers,         \* threads that may ever run
          InitialWorkers,  \* those the constructor starts
          Tasks,           \* identities of tasks; one may be used again once it is free
          NoTask,          \* what an idle worker holds
          Storages,        \* tables
          Priorities,      \* what getPriority may return, least first
          TaskLimits,      \* values of max_tasks_count
          Policies,        \* names of scheduling policies
          AsyncMoves       \* may a query schedule a move by itself?

ASSUME ExecutorAssumption ==
    /\ InitialWorkers \subseteq Workers
    /\ IsFiniteSet(Tasks) /\ NoTask \notin Tasks
    /\ Priorities \subseteq Int
    /\ TaskLimits \subseteq Nat \ {0}
    /\ Policies \subseteq {"round_robin", "shortest_task_first"}
    /\ AsyncMoves \in BOOLEAN

VARIABLES
    pending,          \* the queue of tasks that wait for a worker
    active,           \* tasks that a worker executes
    policy,           \* the class of the pending queue
    max_tasks_count,
    shutdown,
    pc, item,         \* per worker: where it is, and the task it holds
    deleting,         \* tasks with is_currently_deleting
    done,             \* tasks with is_done set
    storage, priority,\* storage_id and priority of a task
    unfinished,       \* accepted tasks whose IExecutableTask still exists
    stage,            \* per table: the progress of BackgroundJobsAssignee::finish
    scheduled,        \* per table: is threadFunc to run (again)?
    thread,           \* per table: where threadFunc is
    tasks_to_cancel, tasks_to_wait   \* per table: the lists of a removal

queues   == <<pending, active, policy, max_tasks_count, shutdown>>
items    == <<deleting, done, storage, priority, unfinished>>
workers  == <<pc, item>>
assignee == <<stage, scheduled, thread>>
removal  == <<tasks_to_cancel, tasks_to_wait>>
vars     == <<queues, items, workers, assignee, removal>>

Resting   == {"off", "idle", "sleeping", "stopped"}
Executing == {"execute", "complete", "restart", "cancel", "reset", "erase"}

TypeOK ==
    /\ pending \in Seq(Tasks) /\ active \subseteq Tasks
    /\ policy \in Policies /\ max_tasks_count \in TaskLimits /\ shutdown \in BOOLEAN
    /\ pc \in [Workers -> Resting \cup Executing]
    /\ item \in [Workers -> Tasks \cup {NoTask}]
    /\ \A w \in Workers : item[w] = NoTask <=> pc[w] \in Resting
    /\ deleting \subseteq Tasks /\ done \subseteq Tasks /\ unfinished \subseteq Tasks
    /\ storage \in [Tasks -> Storages] /\ priority \in [Tasks -> Priorities]
    /\ stage \in [Storages -> {"started", "moved", "deactivated", "removing", "finished"}]
    /\ scheduled \in [Storages -> BOOLEAN]
    /\ thread \in [Storages -> {"no", "job", "call"}]
    /\ tasks_to_cancel \in [Storages -> SUBSET Tasks]
    /\ tasks_to_wait \in [Storages -> SUBSET Tasks]

(***************************************************************************)
(* The objects TaskRuntimeData that exist, which is what the metric of the *)
(* executor counts: someone holds a pointer to them.                       *)
(***************************************************************************)
Held(w) == {item[w]} \ {NoTask}

Alive ==
    ToSet(pending) \cup active \cup (UNION {Held(w) : w \in Workers})
        \cup (UNION {tasks_to_cancel[s] \cup tasks_to_wait[s] : s \in Storages})

metric == Cardinality(Alive)

(***************************************************************************)
(* The pending queue: a circular buffer, which forgets its first element   *)
(* when it is full, or a heap.                                             *)
(***************************************************************************)
push(q, t) ==
    IF policy = "round_robin" /\ Len(q) = max_tasks_count THEN Append(Tail(q), t)
    ELSE Append(q, t)

(* The places that pop may take a task from.                               *)
Poppable ==
    IF policy = "round_robin" THEN {1}
    ELSE {i \in DOMAIN pending : \A j \in DOMAIN pending :
             priority[pending[i]] <= priority[pending[j]]}

(* The tasks of q wait in the same order in the pending queue.             *)
KeepsOrder(q) ==
    \A i, j \in DOMAIN q : i < j =>
        \E k, l \in DOMAIN pending : k < l /\ pending[k] = q[i] /\ pending[l] = q[j]

(* Moving the tasks to a circular buffer takes them from the heap in order. *)
updateSchedulingPolicy(p) ==
    /\ p # policy
    /\ policy' = p
    /\ IF p = "shortest_task_first" THEN UNCHANGED pending
       ELSE \E q \in SetToSeqs(ToSet(pending)) :
               /\ \A i, j \in DOMAIN q : i < j => priority[q[i]] <= priority[q[j]]
               /\ pending' = q
    /\ UNCHANGED <<active, max_tasks_count, shutdown, items, workers, assignee, removal>>

(* has_tasks.notify_one and notify_all, as what may become of pc.          *)
NotifyOne(f) ==
    IF \E w \in Workers : f[w] = "sleeping"
    THEN {[f EXCEPT ![w] = "idle"] : w \in {v \in Workers : f[v] = "sleeping"}}
    ELSE {f}

NotifyAll(f) == {[w \in Workers |-> IF f[w] = "sleeping" THEN "idle" ELSE f[w]]}

(***************************************************************************)
(* Scheduling                                                              *)
(***************************************************************************)

(* A faulty variant: one task too many.                                    *)
RefusesLate == shutdown \/ metric > max_tasks_count

Refuses == shutdown \/ metric >= max_tasks_count

(* A faulty variant: no worker is woken.                                   *)
trySchedulePushSilently(s, t, p) ==
    /\ ~Refuses /\ t \notin Alive
    /\ storage' = [storage EXCEPT ![t] = s] /\ priority' = [priority EXCEPT ![t] = p]
    /\ deleting' = deleting \ {t} /\ done' = done \ {t}
    /\ unfinished' = unfinished \cup {t}
    /\ pending' = push(pending, t)
    /\ UNCHANGED <<active, policy, max_tasks_count, shutdown, pc, item>>

(* trySchedule of a new task of the table s that is accepted.              *)
trySchedulePush(s, t, p) ==
    /\ ~Refuses /\ t \notin Alive
    /\ storage' = [storage EXCEPT ![t] = s] /\ priority' = [priority EXCEPT ![t] = p]
    /\ deleting' = deleting \ {t} /\ done' = done \ {t}
    /\ unfinished' = unfinished \cup {t}
    /\ pending' = push(pending, t)
    /\ pc' \in NotifyOne(pc)
    /\ UNCHANGED <<active, policy, max_tasks_count, shutdown, item>>

(* threadFunc begins unless the holder was deactivated.                    *)
threadFunc(s) ==
    /\ scheduled[s] /\ thread[s] = "no" /\ stage[s] \in {"started", "moved"}
    /\ scheduled' = [scheduled EXCEPT ![s] = FALSE]
    /\ thread' = [thread EXCEPT ![s] = "job"]
    /\ UNCHANGED <<queues, items, workers, stage, removal>>

(* scheduleDataProcessingJob found something to do; the pool takes it.     *)
scheduleTask(s, t, p) ==
    /\ thread[s] = "job"
    /\ trySchedulePush(s, t, p)
    /\ thread' = [thread EXCEPT ![s] = "call"]
    /\ UNCHANGED <<stage, scheduled, removal>>

(* There was nothing to do, or the pool refused the task.                  *)
scheduleNothing(s) ==
    /\ thread[s] = "job"
    /\ thread' = [thread EXCEPT ![s] = "call"]
    /\ UNCHANGED <<queues, items, workers, stage, scheduled, removal>>

(* What trigger and postpone make of scheduled; they differ in the delay.  *)
Triggered(s) == [scheduled EXCEPT ![s] = @ \/ stage[s] = "started"]

threadFuncEnds(s) ==
    /\ thread[s] = "call"
    /\ scheduled' = Triggered(s)
    /\ thread' = [thread EXCEPT ![s] = "no"]
    /\ UNCHANGED <<queues, items, workers, stage, removal>>

(* An insert, or the replication queue, has new work.                      *)
trigger(s) ==
    /\ ~scheduled[s] /\ stage[s] = "started"
    /\ scheduled' = Triggered(s)
    /\ UNCHANGED <<queues, items, workers, stage, thread, removal>>

(* ALTER TABLE ... MOVE schedules a task from the thread of the query.     *)
movePartsToSpace(s, t, p) ==
    /\ AsyncMoves
    /\ trySchedulePush(s, t, p)
    /\ scheduled' = Triggered(s)
    /\ UNCHANGED <<stage, thread, removal>>

(***************************************************************************)
(* Workers                                                                 *)
(***************************************************************************)
Goto(w, l) == pc' = [pc EXCEPT ![w] = l]

waitForTasks(w) ==
    /\ pc[w] = "idle" /\ pending = <<>> /\ ~shutdown
    /\ Goto(w, "sleeping")
    /\ UNCHANGED <<queues, items, item, assignee, removal>>

stopThread(w) ==
    /\ pc[w] = "idle" /\ shutdown
    /\ Goto(w, "stopped")
    /\ UNCHANGED <<queues, items, item, assignee, removal>>

popTask(w) ==
    /\ pc[w] = "idle" /\ pending # <<>> /\ ~shutdown
    /\ \E i \in Poppable :
          /\ item' = [item EXCEPT ![w] = pending[i]]
          /\ active' = active \cup {pending[i]}
          /\ pending' = RemoveAt(pending, i)
    /\ Goto(w, "execute")
    /\ UNCHANGED <<policy, max_tasks_count, shutdown, items, assignee, removal>>

(* A step wants to be followed by another one, was the last, or throws.    *)
executeStep(w) ==
    /\ pc[w] = "execute"
    /\ \E next \in {"restart", "complete", "cancel"} : Goto(w, next)
    /\ UNCHANGED <<queues, items, item, assignee, removal>>

(* The callback triggers the table's assignee.                             *)
onCompleted(w) ==
    /\ pc[w] = "complete"
    /\ scheduled' = Triggered(storage[item[w]])
    /\ Goto(w, "reset")
    /\ UNCHANGED <<queues, items, item, stage, thread, removal>>

onCompletedThrows(w) ==
    /\ pc[w] = "complete"
    /\ Goto(w, "cancel")
    /\ UNCHANGED <<queues, items, item, assignee, removal>>

cancelTask(w) ==
    /\ pc[w] = "cancel"
    /\ Goto(w, "reset")
    /\ UNCHANGED <<queues, items, item, assignee, removal>>

(* The task goes back to the queue.                                        *)
Requeue(w) ==
    /\ pending' = push(pending, item[w])
    /\ item' = [item EXCEPT ![w] = NoTask]
    /\ pc' \in NotifyOne([pc EXCEPT ![w] = "idle"])
    /\ UNCHANGED <<policy, max_tasks_count, shutdown>>

(* A faulty variant: a task of a table that shuts down goes back too.      *)
restart_taskAlways(w) ==
    /\ pc[w] = "restart"
    /\ active' = active \ {item[w]}
    /\ Requeue(w)
    /\ UNCHANGED <<items, assignee, removal>>

(* A faulty variant: the task stays in the active queue.                   *)
restart_taskKeepsActive(w) ==
    /\ pc[w] = "restart"
    /\ IF item[w] \in deleting THEN Goto(w, "cancel") /\ UNCHANGED <<queues, item>>
       ELSE UNCHANGED active /\ Requeue(w)
    /\ UNCHANGED <<items, assignee, removal>>

restart_task(w) ==
    /\ pc[w] = "restart"
    /\ IF item[w] \in deleting THEN Goto(w, "cancel") /\ UNCHANGED <<queues, item>>
       ELSE active' = active \ {item[w]} /\ Requeue(w)
    /\ UNCHANGED <<items, assignee, removal>>

(* release_task, outside of the mutex: the task is destroyed.              *)
resetTask(w) ==
    /\ pc[w] = "reset"
    /\ unfinished' = unfinished \ {item[w]}
    /\ Goto(w, "erase")
    /\ UNCHANGED <<queues, deleting, done, storage, priority, item, assignee, removal>>

(* release_task, under the mutex.                                          *)
release_task(w) ==
    /\ pc[w] = "erase"
    /\ active' = active \ {item[w]}
    /\ done' = done \cup {item[w]}
    /\ item' = [item EXCEPT ![w] = NoTask]
    /\ pc' \in NotifyOne([pc EXCEPT ![w] = "idle"])
    /\ UNCHANGED <<pending, policy, max_tasks_count, shutdown, deleting, storage, priority,
                   unfinished, assignee, removal>>

(***************************************************************************)
(* BackgroundJobsAssignee::finish of the table s                           *)
(***************************************************************************)
SetStage(s, l) == stage' = [stage EXCEPT ![s] = l]

(* The holder leaves the assignee, so that trigger and postpone do nothing. *)
finish(s) ==
    /\ stage[s] = "started"
    /\ SetStage(s, "moved")
    /\ UNCHANGED <<queues, items, workers, scheduled, thread, removal>>

(* No run of threadFunc begins from now on.                                *)
deactivate(s) ==
    /\ stage[s] = "moved"
    /\ SetStage(s, "deactivated")
    /\ scheduled' = [scheduled EXCEPT ![s] = FALSE]
    /\ UNCHANGED <<queues, items, workers, thread, removal>>

(* A faulty variant: an active task whose IExecutableTask was destroyed    *)
(* does not tell its table any more.                                       *)
ActiveOfWithTask(s) == {t \in active : storage[t] = s /\ t \in unfinished}

ActiveOf(s) == {t \in active : storage[t] = s}

(* deactivate has waited for threadFunc; removeTasksCorrespondingToStorage *)
(* collects the tasks under the mutex.                                     *)
removeTasksCorrespondingToStorage(s) ==
    /\ stage[s] = "deactivated" /\ thread[s] = "no"
    /\ SetStage(s, "removing")
    /\ tasks_to_cancel' =
           [tasks_to_cancel EXCEPT ![s] = {t \in ToSet(pending) : storage[t] = s}]
    /\ \E q \in SetToSeqs({t \in ToSet(pending) : storage[t] # s}) :
          KeepsOrder(q) /\ pending' = q
    /\ tasks_to_wait' = [tasks_to_wait EXCEPT ![s] = ActiveOf(s)]
    /\ deleting' = deleting \cup ActiveOf(s)
    /\ UNCHANGED <<active, policy, max_tasks_count, shutdown, done, storage, priority, unfinished,
                   workers, scheduled, thread>>

(* The last pointer to a pending task goes, and the task with it.          *)
cancelPending(s) ==
    /\ \E t \in tasks_to_cancel[s] :
          /\ tasks_to_cancel' = [tasks_to_cancel EXCEPT ![s] = @ \ {t}]
          /\ unfinished' = unfinished \ {t}
    /\ UNCHANGED <<queues, deleting, done, storage, priority, workers, assignee, tasks_to_wait>>

waitForActive(s) ==
    /\ tasks_to_cancel[s] = {}
    /\ \E t \in tasks_to_wait[s] \cap done :
          tasks_to_wait' = [tasks_to_wait EXCEPT ![s] = @ \ {t}]
    /\ UNCHANGED <<queues, items, workers, assignee, tasks_to_cancel>>

finishReturns(s) ==
    /\ stage[s] = "removing" /\ tasks_to_cancel[s] = {} /\ tasks_to_wait[s] = {}
    /\ SetStage(s, "finished")
    /\ UNCHANGED <<queues, items, workers, scheduled, thread, removal>>

(* A table may start again, for instance with a new session.               *)
start(s) ==
    /\ stage[s] = "finished"
    /\ SetStage(s, "started")
    /\ scheduled' = [scheduled EXCEPT ![s] = TRUE]
    /\ UNCHANGED <<queues, items, workers, thread, removal>>

(***************************************************************************)
(* The life of the pool                                                    *)
(***************************************************************************)

(* A faulty variant: one worker is woken.                                  *)
waitNotifiesOne ==
    /\ ~shutdown
    /\ shutdown' = TRUE
    /\ pc' \in NotifyOne(pc)
    /\ UNCHANGED <<pending, active, policy, max_tasks_count, items, item, assignee, removal>>

wait ==
    /\ ~shutdown
    /\ shutdown' = TRUE
    /\ pc' \in NotifyAll(pc)
    /\ UNCHANGED <<pending, active, policy, max_tasks_count, items, item, assignee, removal>>

(* New threads start; neither number gets smaller.                         *)
increaseThreadsAndMaxTasksCount(W, n) ==
    /\ \A w \in W : pc[w] = "off"
    /\ n >= max_tasks_count
    /\ W # {} \/ n # max_tasks_count
    /\ pc' = [w \in Workers |-> IF w \in W THEN "idle" ELSE pc[w]]
    /\ max_tasks_count' = n
    /\ UNCHANGED <<pending, active, policy, shutdown, items, item, assignee, removal>>

Init ==
    /\ pending = <<>> /\ active = {} /\ shutdown = FALSE
    /\ policy \in Policies /\ max_tasks_count \in TaskLimits
    /\ pc = [w \in Workers |-> IF w \in InitialWorkers THEN "idle" ELSE "off"]
    /\ item = [w \in Workers |-> NoTask]
    /\ deleting = {} /\ done = {} /\ unfinished = {}
    /\ storage \in [Tasks -> Storages] /\ priority \in [Tasks -> Priorities]
    /\ stage = [s \in Storages |-> "started"]
    /\ scheduled = [s \in Storages |-> TRUE] /\ thread = [s \in Storages |-> "no"]
    /\ tasks_to_cancel = [s \in Storages |-> {}] /\ tasks_to_wait = [s \in Storages |-> {}]

threadFunction(w) ==
    \/ waitForTasks(w) \/ stopThread(w) \/ popTask(w)
    \/ executeStep(w) \/ onCompleted(w) \/ onCompletedThrows(w) \/ cancelTask(w)
    \/ restart_task(w) \/ resetTask(w) \/ release_task(w)

Finishing(s) ==
    \/ deactivate(s) \/ removeTasksCorrespondingToStorage(s)
    \/ cancelPending(s) \/ waitForActive(s) \/ finishReturns(s)

Scheduling(s) ==
    \/ threadFunc(s) \/ scheduleNothing(s) \/ threadFuncEnds(s)
    \/ \E t \in Tasks, p \in Priorities : scheduleTask(s, t, p)

Next ==
    \/ \E w \in Workers : threadFunction(w)
    \/ \E s \in Storages : Finishing(s) \/ Scheduling(s) \/ finish(s) \/ start(s) \/ trigger(s)
    \/ \E s \in Storages, t \in Tasks, p \in Priorities : movePartsToSpace(s, t, p)
    \/ \E p \in Policies : updateSchedulingPolicy(p)
    \/ \E W \in SUBSET Workers, n \in TaskLimits : increaseThreadsAndMaxTasksCount(W, n)
    \/ wait

(***************************************************************************)
(* Steps, callbacks and destructors return, a mutex is got in the end, and *)
(* a call of finish goes on.                                               *)
(***************************************************************************)
Fairness ==
    /\ \A w \in Workers : WF_vars(threadFunction(w))
    /\ \A s \in Storages : WF_vars(Finishing(s)) /\ WF_vars(Scheduling(s))

Spec == Init /\ [][Next]_vars

FairSpec == Spec /\ Fairness

(***************************************************************************)
(* Properties                                                              *)
(***************************************************************************)

(* "task may occur only in one of these queue": no task is pending twice   *)
(* or pending and active, and the active tasks are those that the workers  *)
(* hold, each one held by a single worker.                                 *)
OneQueue ==
    /\ \A i, j \in DOMAIN pending : i # j => pending[i] # pending[j]
    /\ ToSet(pending) \cap active = {}
    /\ active = UNION {Held(w) : w \in Workers}
    /\ \A v, w \in Workers : v # w => Held(v) \cap Held(w) = {}

(* "when a Storage wants to shutdown, it must wait until all its           *)
(* background operations are finished": once finish has returned nothing   *)
(* of the table is queued, executed, destroyed or about to be scheduled.   *)
FinishedIsQuiet ==
    \A s \in Storages : stage[s] = "finished" =>
        /\ thread[s] = "no"
        /\ \A t \in Alive \cup unfinished : storage[t] # s

(* A task that was accepted is in a queue, or in the hands of a removal,   *)
(* until it is destroyed: the circular buffer never overwrites one.        *)
NoTaskLost == unfinished \subseteq Alive

(* finish returns, although tasks may want to execute forever.             *)
FinishEnds == \A s \in Storages : stage[s] = "moved" ~> stage[s] = "finished"

(* "all merges / mutations are fairly scheduled and never starved": with   *)
(* the round robin policy each pending task gets its turn, unless it is    *)
(* removed or the pool shuts down.                                         *)
NeverStarved ==
    [](policy = "round_robin") =>
        \A t \in Tasks : t \in ToSet(pending) ~> t \notin ToSet(pending) \/ shutdown

(* wait returns: every worker leaves its loop.                             *)
ShutdownEnds == shutdown ~> \A w \in Workers : pc[w] \in {"off", "stopped"}
=============================================================================
