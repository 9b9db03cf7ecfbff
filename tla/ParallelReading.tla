-------------------------- MODULE ParallelReading --------------------------
(***************************************************************************)
(* Reading one table of a query by several replicas                        *)
(* (ParallelReplicasReadingCoordinator on the initiator, and a             *)
(* MergeTreeReadPoolParallelReplicas or ...InOrder on every replica).  A   *)
(* replica announces the parts it sees, then asks for marks to read until  *)
(* it is told that there are none.  The first announcement is the snapshot *)
(* that the query reads.  The coordinator does its work under one lock:    *)
(* each of its handlers is one step.                                       *)
(***************************************************************************)
EXTENDS Integers, FiniteSets

CONSTANTS Replicas,     \* the replicas of the query
          Marks,        \* the marks to read: <<part, number>>; parts are numbered from the biggest
          SegmentSize,  \* mark_segment_size
          MinMarks,     \* announced_min_marks_per_request, per mode
          Snapshots,    \* bound: replicas whose announcement may come first
          Common,       \* bound: parts that every replica sees
          Hashes,       \* bound: the assignments of segments, <<owner, stealer>>
          MaxFailures   \* bound: replicas that are unavailable and answers that are lost

Modes == {"Default", "WithOrder", "ReverseOrder"}

ASSUME SizesAssumption ==
    /\ SegmentSize \in Nat \ {0} /\ MinMarks \in [Modes -> Nat \ {0}] /\ MaxFailures \in Nat
    /\ IsFiniteSet(Replicas)
    /\ IsFiniteSet(Marks) /\ Marks \subseteq Nat \X Nat

VARIABLES
    mode,         \* CoordinationMode
    view,         \* per replica: the parts that it sees
    owner,        \* computeConsistentHash(TakeWhatsMineByHash) of a segment
    stealer,      \* computeConsistentHash(TakeWhatsMineForStealing) of a segment
    source,       \* source_replica_for_parts_snapshot, or {}
    announced,    \* replicas with is_announcement_received
    unavailable,  \* replicas with is_unavailable
    unscanned,    \* the ranges of all_parts_to_read
    queue,        \* distribution_by_hash_queue
    leftovers,    \* ranges_for_stealing_queue
    finished,     \* replicas with is_finished
    used,         \* replicas_used
    completed,    \* is_reading_completed
    excluded,     \* replicas_to_exclude
    pool,         \* per replica: what its read pool is doing
    tasks,        \* per replica: parts whose readers still ask (0 for the threads in the mode Default)
    response,     \* per replica: marks in the answer on its way to it
    buffer,       \* per replica: buffered_ranges or buffered_tasks, the marks of the answers
                  \* that are in no task yet, each with the place of its answer
    read,         \* per replica: the marks of its tasks
    failures,     \* spent of the bound
    failed,       \* replicas whose connections failed the query
    error         \* a LOGICAL_ERROR was thrown

parameters  == <<mode, view, owner, stealer>>
coordinator == <<source, announced, unavailable, unscanned, queue, leftovers, finished, used, completed, excluded>>
pools       == <<pool, tasks, response, buffer, read>>
vars        == <<parameters, coordinator, pools, failures, failed, error>>

(***************************************************************************)
(* Values.                                                                 *)
(***************************************************************************)
Part(m)    == m[1]
Number(m)  == m[2]
Parts      == {Part(m) : m \in Marks}
Segment(m) == <<Part(m), Number(m) - (Number(m) % SegmentSize)>>
Segments   == {Segment(m) : m \in Marks}

ASSUME HashesAssumption ==
    Hashes \subseteq [Segments -> Replicas] \X [Segments -> Replicas] /\ Hashes # {}

PoolStates == {"new", "idle", "waiting", "failed", "done", "cancelled"}

(* The order in which all_parts_to_read is scanned.                        *)
Before(m, n) == Part(m) < Part(n) \/ (Part(m) = Part(n) /\ Number(m) < Number(n))

OfPart(S, p) == {m \in S : Part(m) = p}
Seen(r, S)   == {m \in S : Part(m) \in view[r]}
Least(a, b)  == IF a < b THEN a ELSE b
Queued       == UNION {queue[r] : r \in Replicas}

(* takeFromRange: up to k marks, each segment's from its front.  The order *)
(* of the segments is left open.                                           *)
SomeOf(S, k) ==
    {T \in SUBSET S : /\ Cardinality(T) = Least(k, Cardinality(S))
                      /\ \A m \in T, n \in S \ T : Segment(m) = Segment(n) => Before(m, n)}

(* The same from the biggest part on, as a multiset by BiggerPartsFirst is *)
(* read.                                                                   *)
FirstOf(S, k) == {T \in SomeOf(S, k) : \A m \in T, n \in S \ T : Part(m) <= Part(n)}

(* The k first, or last, of a part's marks.                                *)
FromFront(S, k) == {m \in S : Cardinality({n \in S : Before(n, m)}) < k}
FromBack(S, k)  == {m \in S : Cardinality({n \in S : Before(m, n)}) < k}

(***************************************************************************)
(* The coordinator in the mode Default.                                    *)
(***************************************************************************)
(* possiblyCanReadPart: before its announcement a replica is trusted.      *)
possiblyCanReadPart(r, m) ==
    /\ r \notin unavailable'
    /\ r \notin finished
    /\ r \in announced' => Part(m) \in view[r]

(* enqueueSegment and enqueueToStealerOrStealingQueue, for a set of marks: *)
(* those that go to the queue of r, and those that go to no queue.         *)
ToOwner(S, r)   == {m \in S : owner[Segment(m)] = r /\ possiblyCanReadPart(r, m)}
Ownerless(S)    == {m \in S : ~possiblyCanReadPart(owner[Segment(m)], m)}
ToStealer(S, r) == {m \in S : stealer[Segment(m)] = r /\ possiblyCanReadPart(r, m)}
Orphans(S)      == {m \in S : ~possiblyCanReadPart(stealer[Segment(m)], m)}

(* Moves S, which the queue of r gives up, on to the stealers.             *)
MoveOn(r, S) ==
    /\ queue'     = [q \in Replicas |-> (IF q = r THEN queue[q] \ S ELSE queue[q]) \union ToStealer(S, q)]
    /\ leftovers' = leftovers \union Orphans(S)

(* handleInitialAllRangesAnnouncement.  The first one sets what the query  *)
(* reads.  In the mode Default the segments queued for the replica that it *)
(* does not see move on.                                                   *)
announce(r) ==
    /\ pool[r] = "new" /\ r \notin unavailable
    /\ source = {} => r \in Snapshots
    /\ failed = {}
    /\ pool' = [pool EXCEPT ![r] = "idle"]
    /\ UNCHANGED unavailable
    /\ IF completed
       THEN UNCHANGED <<source, announced, unscanned, queue, leftovers>>
       ELSE /\ announced' = announced \union {r}
            /\ source'    = IF source = {} THEN {r} ELSE source
            /\ unscanned' = IF source = {} THEN Seen(r, Marks) ELSE unscanned
            /\ MoveOn(r, queue[r] \ Seen(r, queue[r]))
    /\ UNCHANGED <<parameters, finished, used, completed, excluded, tasks, response, buffer, read, failures, failed, error>>

(* markReplicaAsUnavailable, called by the executor when it cannot connect *)
(* to a replica; the loss of one that announced fails the query.           *)
markReplicaAsUnavailable(r) ==
    /\ pool[r] = "new" /\ r \notin unavailable
    /\ failures < MaxFailures /\ failures' = failures + 1
    /\ failed = {}
    /\ unavailable' = unavailable \union {r}
    /\ failed'      = (IF unavailable' = Replicas THEN Replicas ELSE {})
    /\ UNCHANGED announced
    /\ IF unavailable' = Replicas THEN UNCHANGED <<queue, leftovers>> ELSE MoveOn(r, queue[r])
    /\ UNCHANGED <<parameters, source, unscanned, finished, used, completed, excluded, pools, error>>

(* tryToTakeFromDistributionQueue passes the segments that the replica     *)
(* does not see on its way to the last one it takes, or to the end.        *)
Passed(r, Q, T, k) ==
    {m \in Q \ Seen(r, Q) : Cardinality(T) < k \/ \E n \in T : Part(m) < Part(n)}

(* A faulty variant: the scan does not ask whether the owner sees the part.*)
MineUnseen(r) == {m \in unscanned : owner[Segment(m)] = r}

(* processPartsFurther: the marks of r that are still unscanned, and what  *)
(* a scan goes over until it has found k of them.                          *)
Mine(r)       == {m \in Seen(r, unscanned) : owner[Segment(m)] = r}
Scanned(r, k) == {m \in unscanned : Cardinality({n \in Mine(r) : Before(n, m)}) < k}

(* A faulty variant: nobody takes over from a replica that is silent.      *)
AbandonedUnavailable(r, Q) ==
    IF r \in source THEN Seen(r, UNION {Q[q] : q \in unavailable}) ELSE {}

(* tryToStealFromQueues: by the second hash from every queue; else the     *)
(* leftovers, and for the source the queues of replicas that may never     *)
(* come for theirs.                                                        *)
StolenByHash(r, Q) == {m \in Seen(r, UNION {Q[q] : q \in Replicas}) : stealer[Segment(m)] = r}
Abandoned(r, Q)    == IF r \in source
                      THEN Seen(r, UNION {Q[q] : q \in unavailable \union (Replicas \ announced)})
                      ELSE {}

(* What the answer to a request means for the coordinator: a replica that  *)
(* gets nothing is finished; the last one must leave nothing unread, and   *)
(* with nothing left the reading is completed.                             *)
Unread == unscanned' # {} \/ leftovers' # {} \/ \E q \in Replicas : queue'[q] # {}

Answer(r, T) ==
    /\ response' = [response EXCEPT ![r] = T]
    /\ IF T # {}
       THEN /\ used' = used \union {r}
            /\ pool' = [pool EXCEPT ![r] = "waiting"]
            /\ UNCHANGED <<finished, completed, excluded, error>>
       ELSE IF /\ mode = "Default"
               /\ Cardinality(finished) + 1 = Cardinality(Replicas) - Cardinality(unavailable)
               /\ Unread
       THEN /\ error' = TRUE
            /\ pool'  = [pool EXCEPT ![r] = "failed"]
            /\ UNCHANGED <<finished, used, completed, excluded>>
       ELSE /\ finished'  = finished \union {r}
            /\ completed' = (mode = "Default" /\ ~Unread)
            /\ excluded'  = IF completed' THEN used \union {r} ELSE excluded
            /\ pool'      = [pool EXCEPT ![r] = "waiting"]
            /\ UNCHANGED <<used, error>>

(* DefaultCoordinator::handleRequest: the replica's queue, the scan, its   *)
(* queue again, what it steals by hash and, when that is nothing, what it  *)
(* can get.                                                                *)
handleDefaultRequest(r) ==
    \E a \in FirstOf(Seen(r, queue[r]), MinMarks[mode]) :
    LET passed == Passed(r, queue[r], a, MinMarks[mode])
        scan   == Scanned(r, MinMarks[mode] - Cardinality(a))
        b      == scan \intersect Mine(r)
        others == scan \ b
        on     == passed \union Ownerless(others)
        filled == [q \in Replicas |->
                     (IF q = r THEN queue[q] \ (a \union passed) ELSE queue[q])
                         \union ToOwner(others, q) \union ToStealer(on, q)]
    IN  \E c \in FirstOf(Seen(r, filled[r]), MinMarks[mode] - Cardinality(a \union b)) :
        LET owned == a \union b \union c
            rest  == [q \in Replicas |-> filled[q] \ c]
            over  == leftovers \union Orphans(on)
        IN  \E d \in SomeOf(StolenByHash(r, rest), MinMarks[mode] - Cardinality(owned)) :
            LET wanted == IF owned \union d = {} THEN MinMarks[mode] ELSE 0
            IN  \E e \in SomeOf(Seen(r, over), wanted) :
                \E f \in SomeOf(Abandoned(r, rest), wanted - Cardinality(e)) :
                    /\ unscanned' = unscanned \ scan
                    /\ queue'     = [q \in Replicas |-> rest[q] \ (d \union f)]
                    /\ leftovers' = over \ e
                    /\ Answer(r, owned \union d \union e \union f)

(* InOrderCoordinator::handleRequest: up to MinMarks of every part that    *)
(* the replica announced, from its front or from its back.                 *)
handleInOrderRequest(r) ==
    /\ LET next(p) == IF mode = "WithOrder" THEN FromFront(OfPart(unscanned, p), MinMarks[mode])
                                            ELSE FromBack(OfPart(unscanned, p), MinMarks[mode])
           T       == UNION {next(p) : p \in view[r]}
       IN  unscanned' = unscanned \ T /\ Answer(r, T)
    /\ UNCHANGED <<queue, leftovers>>

(***************************************************************************)
(* The read pools.  The marks of a buffer that are of one part, and the    *)
(* ways to split off a task: from the front, or from the back.             *)
(***************************************************************************)
Answered(S)   == [m \in S |-> 0]
Without(b, T) == [m \in DOMAIN b \ T |-> b[m]]

(* sortResponseRanges orders an answer, the places order the answers.      *)
InFront(b, m, n) == b[m] < b[n] \/ (b[m] = b[n] /\ Before(m, n))

(* getTask asks when it finds nothing in the buffer: in the mode Default   *)
(* nothing at all, else nothing of the part p, whose reader stops when the *)
(* answer has nothing of p either.  The pool's lock is held until the      *)
(* answer is there.                                                        *)
sendReadRequest(r, p) ==
    /\ pool[r] = "idle" /\ failed \subseteq {r}
    /\ p \in tasks[r]
    /\ IF mode = "Default" THEN DOMAIN buffer[r] = {} ELSE OfPart(DOMAIN buffer[r], p) = {}
    /\ UNCHANGED <<source, announced, unavailable>>
    /\ CASE completed ->
              /\ pool'     = [pool EXCEPT ![r] = "waiting"]
              /\ response' = [response EXCEPT ![r] = {}]
              /\ UNCHANGED <<unscanned, queue, leftovers, finished, used, completed, excluded, error>>
         [] ~completed /\ r \in finished ->
              /\ error' = TRUE
              /\ pool'  = [pool EXCEPT ![r] = "failed"]
              /\ UNCHANGED <<response, unscanned, queue, leftovers, finished, used, completed, excluded>>
         [] OTHER ->
              IF mode = "Default" THEN handleDefaultRequest(r) ELSE handleInOrderRequest(r)
    /\ tasks' = IF mode = "Default" \/ OfPart(response'[r], p) # {} THEN tasks
                ELSE [tasks EXCEPT ![r] = @ \ {p}]
    /\ UNCHANGED <<parameters, buffer, read, failures, failed>>

(* A task of some marks of one part in b, from the front of its ranges or, *)
(* in reverse order, from the back.  A part the replica does not have is   *)
(* an error.                                                               *)
TakeTask(r, b) ==
    \E p \in Parts : \E task \in (SUBSET OfPart(DOMAIN b, p)) \ {{}} :
        /\ \A m \in task, n \in OfPart(DOMAIN b, p) \ task :
              IF mode = "ReverseOrder" THEN InFront(b, n, m) ELSE InFront(b, m, n)
        /\ IF p \in view[r]
           THEN /\ read'   = [read EXCEPT ![r] = @ \union task]
                /\ buffer' = [buffer EXCEPT ![r] = Without(b, task)]
                /\ UNCHANGED error
           ELSE error' = TRUE /\ UNCHANGED <<read, buffer>>

Place(b, S, step) == [m \in DOMAIN b \union S |-> IF m \in S THEN 0 ELSE b[m] + step]

(* A faulty variant: the buffer is filled at its end in both orders.       *)
FillBufferAtEnd(b, S) == Place(b, S, -1)

(* In order, the marks S of an answer come behind those that the buffer    *)
(* has; in reverse order, before them.                                     *)
FillBuffer(b, S) == IF mode = "WithOrder" THEN Place(b, S, -1) ELSE Place(b, S, 1)

(* The answer arrives: an empty one is the end.  In the mode Default the   *)
(* thread that asked gets a task at once.                                  *)
receive(r) ==
    /\ pool[r] = "waiting" /\ failed \subseteq {r}
    /\ response' = [response EXCEPT ![r] = {}]
    /\ pool'     = [pool EXCEPT ![r] = IF response[r] = {} THEN "done" ELSE "idle"]
    /\ CASE response[r] = {} -> UNCHANGED <<buffer, read, error>>
         [] response[r] # {} /\ mode = "Default" -> TakeTask(r, Answered(response[r]))
         [] OTHER ->
              /\ buffer' = [buffer EXCEPT ![r] = FillBuffer(@, response[r])]
              /\ UNCHANGED <<read, error>>
    /\ UNCHANGED <<parameters, coordinator, tasks, failures, failed>>

(* A faulty variant: failed_to_get_task is not set.                        *)
receiveThrowsAsksAgain(r) ==
    /\ pool[r] = "waiting"
    /\ failures < MaxFailures /\ failures' = failures + 1
    /\ failed = {}
    /\ pool'   = [pool EXCEPT ![r] = "idle"]
    /\ failed' = {r}
    /\ UNCHANGED <<parameters, coordinator, tasks, response, buffer, read, error>>

(* The connection fails after the coordinator has answered: the exception  *)
(* fails the query.  Until it has ended, other threads call getTask; those *)
(* of the same replica are followed here.                                  *)
receiveThrows(r) ==
    /\ pool[r] = "waiting"
    /\ failures < MaxFailures /\ failures' = failures + 1
    /\ failed = {}
    /\ pool'   = [pool EXCEPT ![r] = "failed"]
    /\ failed' = {r}
    /\ UNCHANGED <<parameters, coordinator, tasks, response, buffer, read, error>>

(* getTask with something in the buffer.                                   *)
getTask(r) ==
    /\ pool[r] \in {"idle", "done"} /\ failed \subseteq {r}
    /\ TakeTask(r, buffer[r])
    /\ UNCHANGED <<parameters, coordinator, pool, tasks, response, failures, failed>>

(* read_completed_callback cancels the replicas that were given nothing.   *)
cancelUnused ==
    /\ completed
    /\ \E r \in Replicas \ excluded : pool[r] \in {"new", "idle", "waiting"}
    /\ pool' = [r \in Replicas |-> IF r \notin excluded /\ pool[r] \in {"new", "idle", "waiting"}
                                   THEN "cancelled" ELSE pool[r]]
    /\ UNCHANGED <<parameters, coordinator, tasks, response, buffer, read, failures, failed, error>>

(***************************************************************************)
(* The specification.                                                      *)
(***************************************************************************)
Init ==
    /\ mode \in Modes
    /\ view \in [Replicas -> SUBSET Parts] /\ \A r \in Replicas : Common \subseteq view[r]
    /\ \E hash \in IF mode = "Default" THEN Hashes ELSE {CHOOSE h \in Hashes : TRUE} :
          owner = hash[1] /\ stealer = hash[2]
    /\ source = {} /\ announced = {} /\ unavailable = {} /\ finished = {} /\ used = {} /\ excluded = {}
    /\ unscanned = {} /\ leftovers = {} /\ queue = [r \in Replicas |-> {}]
    /\ completed = FALSE /\ failed = {} /\ error = FALSE
    /\ failures = 0
    /\ pool     = [r \in Replicas |-> "new"]
    /\ tasks    = [r \in Replicas |-> IF mode = "Default" THEN {0} ELSE view[r]]
    /\ response = [r \in Replicas |-> {}]
    /\ buffer   = [r \in Replicas |-> Answered({})]
    /\ read     = [r \in Replicas |-> {}]

PoolStep(r) == receive(r) \/ getTask(r) \/ \E p \in tasks[r] : sendReadRequest(r, p)

Next ==
    \/ \E r \in Replicas : announce(r) \/ markReplicaAsUnavailable(r) \/ receiveThrows(r)
    \/ \E r \in Replicas : PoolStep(r)
    \/ cancelUnused

(* As long as a replica that announced itself has something to do, some    *)
(* replica goes on.  Whether and when another one announces itself is      *)
(* open.                                                                   *)
Fairness == WF_vars(\E r \in Replicas : PoolStep(r))

Spec == Init /\ [][Next]_vars
FairSpec == Spec /\ Fairness

(***************************************************************************)
(* Properties.                                                             *)
(***************************************************************************)
(* The snapshot: the marks of the parts that the source announced.         *)
Snapshot == UNION {Seen(r, Marks) : r \in source}

(* All that a replica was given: on its way, in its buffer, read.          *)
Given(r) == response[r] \union DOMAIN buffer[r] \union read[r]

TypeOK ==
    /\ mode \in Modes /\ view \in [Replicas -> SUBSET Parts]
    /\ owner \in [Segments -> Replicas] /\ stealer \in [Segments -> Replicas]
    /\ source \subseteq Replicas /\ announced \subseteq Replicas /\ unavailable \subseteq Replicas
    /\ finished \subseteq Replicas /\ used \subseteq Replicas /\ excluded \subseteq Replicas
    /\ unscanned \subseteq Marks /\ leftovers \subseteq Marks /\ queue \in [Replicas -> SUBSET Marks]
    /\ completed \in BOOLEAN /\ failed \subseteq Replicas /\ error \in BOOLEAN /\ failures \in 0..MaxFailures
    /\ pool \in [Replicas -> PoolStates] /\ tasks \in [Replicas -> SUBSET (Parts \union {0})]
    /\ response \in [Replicas -> SUBSET Marks] /\ read \in [Replicas -> SUBSET Marks]
    /\ DOMAIN buffer = Replicas
    /\ \A r \in Replicas : DOMAIN buffer[r] \subseteq Marks /\ \A m \in DOMAIN buffer[r] : buffer[r][m] \in Int

(* Every mark of the snapshot is in exactly one place: still unscanned, in *)
(* one queue, among the leftovers or given to one replica, where it is     *)
(* also in one place; and a replica is given marks of its own parts only.  *)
(* A range that is taken but not removed from its queue, or removed but    *)
(* not taken, gives rows twice or never.                                   *)
Places == {unscanned, leftovers} \union {queue[r] : r \in Replicas} \union {Given(r) : r \in Replicas}

ReadOnce ==
    /\ UNION Places = Snapshot
    /\ unscanned \intersect (leftovers \union Queued) = {} /\ leftovers \intersect Queued = {}
    /\ \A r \in Replicas :
         /\ Given(r) \subseteq Seen(r, Marks)
         /\ Given(r) \intersect (unscanned \union leftovers \union Queued) = {}
         /\ response[r] \intersect DOMAIN buffer[r] = {}
         /\ read[r] \intersect (response[r] \union DOMAIN buffer[r]) = {}
         /\ \A q \in Replicas \ {r} : Given(r) \intersect Given(q) = {} /\ queue[r] \intersect queue[q] = {}

(* No LOGICAL_ERROR is thrown: the last replica to finish leaves nothing   *)
(* unread (handleRequest), a finished replica does not ask again (the      *)
(* scenario of getTask's comment) and gets no part it does not have.       *)
NoLogicalError == ~error

(* In order, a replica reads the marks of a part from first to last (from  *)
(* last to first): what a task adds comes after what was read before.      *)
ReadInOrder ==
    [][\A r \in Replicas : \A m \in read[r], n \in read'[r] \ read[r] :
          Part(m) = Part(n) => /\ mode = "WithOrder" => Before(m, n)
                               /\ mode = "ReverseOrder" => Before(n, m)]_vars

(* The whole snapshot is read in the end, whoever stays silent, becomes    *)
(* unavailable before it announces itself or is cancelled, unless a        *)
(* connection in use fails: segments that only a silent replica was meant  *)
(* for are taken by the source.                                            *)
AllRead == source # {} ~> failed # {} \/ UNION {read[r] : r \in Replicas} = Snapshot

=============================================================================
