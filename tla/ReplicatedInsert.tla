-------------------------- MODULE ReplicatedInsert --------------------------
(***************************************************************************)
(* INSERT into a replicated table (ReplicatedMergeTreeSink), with the      *)
(* threads that repair what a lost connection leaves behind: the           *)
(* restarting thread and the part check thread.                            *)
(*                                                                         *)
(* A part becomes visible in two places that no transaction covers: the    *)
(* local set of parts and ZooKeeper.  The insert adds the part locally as  *)
(* PreActive, sends one multi request with the log entry, the block id and *)
(* the registration of the part, and makes the part Active when that       *)
(* succeeds.  If the connection is lost the request may have been applied, *)
(* may still be applied, or not; the insert asks in its next session and   *)
(* starts anew, with another block number, if the part is not there.       *)
(*                                                                         *)
(* One partition.  A part is its block number and the insert that wrote    *)
(* it.  What StorageReplicatedMergeTree does (sessions, fetches, updates   *)
(* of the quorum, the check of parts when a server starts) is modelled     *)
(* from how it is used here.                                               *)
(***************************************************************************)
EXTENDS Integers, FiniteSets

CONSTANTS Replicas, Inserts,
          Contents,     \* of the inserted blocks: the block id is a hash of it
          QuorumSize,   \* insert_quorum of the inserts that want one
          MaxBlock,     \* bound: block numbers
          MaxLosses     \* bound: lost connections and crashes of servers

ASSUME InsertAssumption ==
    MaxBlock \in Nat /\ MaxLosses \in Nat /\ QuorumSize \in Nat \ {0} /\ IsFiniteSet(Replicas)

VARIABLES
    next_number,
    held,         \* ephemeral block numbers: [number, replica, session]
    log,          \* parts with an entry in /log
    blocks,       \* block ids: content -> the part, a set of at most one
    zk_parts,     \* /replicas/<r>/parts
    quorum,       \* /quorum/status: at most one [part, replicas]
    failed,       \* /quorum/failed_parts
    is_active,    \* the session that holds /replicas/<r>/is_active, or 0
    host,         \* the version of /replicas/<r>/host
    requests,     \* multi requests that may still arrive
    session,      \* of each server; zkutil counts them in a znode of the server
    expired,      \* has the client given the session up?
    restarting,   \* of each replica: where its restarting thread is
    local,        \* of each replica: part -> state, in the working set
    to_check,     \* of each replica: the queue of the part check thread
    insert,       \* the inserts
    losses, with_quorum

keeper  == <<next_number, held, log, blocks, zk_parts, quorum, failed, is_active, host>>
server  == <<session, expired, restarting, local, to_check>>
vars    == <<keeper, requests, server, insert, losses, with_quorum>>

Parts == [number : 0..(MaxBlock - 1), insert : Inserts]

Content(p) == insert[p.insert].content

Of(r, states) == {p \in DOMAIN local[r] : local[r][p] \in states}

With(r, p, s)    == [local EXCEPT ![r] = [q \in DOMAIN @ \cup {p} |-> IF q = p THEN s ELSE @[q]]]
Without(r, ps)   == [local EXCEPT ![r] = [q \in DOMAIN @ \ ps |-> @[q]]]

InQuorum == {q.part : q \in quorum}

Connected(r) == ~expired[r]
Readonly(r)  == restarting[r] # "up"

(* The insert, its replica and its part.                                   *)
R(i)    == insert[i].replica
Part(i) == [number |-> insert[i].number, insert |-> i]

Go(i, stage)   == insert' = [insert EXCEPT ![i].stage = stage]
End(i, result) == insert' = [insert EXCEPT ![i].stage = "done", ![i].result = result]

(* After the part or a part with the same block is in ZooKeeper.           *)
Await(i, p, result) ==
    insert' = [insert EXCEPT ![i].result = result, ![i].await = p,
                             ![i].stage = IF with_quorum /\ p # {} THEN "quorum" ELSE "done"]

-----------------------------------------------------------------------------
(* The insert.                                                             *)

checkQuorumPrecondition(i) ==
    /\ insert[i].stage = "start"
    /\ Connected(R(i))
    /\ with_quorum =>
          /\ 1 + Cardinality({q \in Replicas \ {R(i)} : is_active[q] # 0}) >= QuorumSize
          /\ quorum = {}
          /\ is_active[R(i)] # 0
    /\ insert' = [insert EXCEPT ![i].stage = "lock", ![i].host = host[R(i)]]
    /\ UNCHANGED <<keeper, requests, server, losses, with_quorum>>

(* The block id is checked in the request that creates the number.         *)
allocateBlockNumber(i) ==
    /\ insert[i].stage = "lock"
    /\ Connected(R(i)) /\ ~Readonly(R(i))
    /\ \/ /\ blocks[insert[i].content] # {}
          /\ Go(i, "resolve")
          /\ UNCHANGED keeper
       \/ /\ blocks[insert[i].content] = {}
          /\ next_number < MaxBlock
          /\ next_number' = next_number + 1
          /\ held' = held \cup {[number |-> next_number, replica |-> R(i), session |-> session[R(i)]]}
          /\ insert' = [insert EXCEPT ![i].stage = "locked", ![i].number = next_number,
                                      ![i].session = session[R(i)], ![i].answer = "none"]
          /\ UNCHANGED <<log, blocks, zk_parts, quorum, failed, is_active, host>>
    /\ UNCHANGED <<requests, server, losses, with_quorum>>

(* renameTempPartAndAdd, renameParts, then the request.                    *)
sendCommit(i) ==
    /\ insert[i].stage = "locked"
    /\ local' = With(R(i), Part(i), "PreActive")
    /\ IF Connected(R(i)) /\ session[R(i)] = insert[i].session
       THEN Go(i, "sent") /\ requests' = requests \cup {[part |-> Part(i), session |-> insert[i].session]}
       ELSE Go(i, "verify") /\ UNCHANGED requests
    /\ UNCHANGED <<keeper, session, expired, restarting, to_check, losses, with_quorum>>

(* ZooKeeper executes the request.  The first operation that fails decides *)
(* the answer.                                                             *)
Lock(m) == {l \in held : l.number = m.part.number /\ l.session = m.session}

(* A faulty variant: the request is not bound to the current session.      *)
AnswerAnySession(m) ==
    LET i == m.part.insert
    IN IF Lock(m) = {} THEN "cancelled"
       ELSE IF with_quorum /\ quorum # {} THEN "quorum"
       ELSE IF with_quorum /\ (is_active[R(i)] = 0 \/ host[R(i)] # insert[i].host) THEN "inactive"
       ELSE IF blocks[insert[i].content] # {} THEN "duplicate"
       ELSE "ok"

(* A faulty variant: the block id is only checked with the block number.   *)
AnswerUnchecked(m) ==
    LET i == m.part.insert
    IN IF session[R(i)] # m.session THEN "session"
       ELSE IF Lock(m) = {} THEN "cancelled"
       ELSE IF with_quorum /\ quorum # {} THEN "quorum"
       ELSE "ok"

Answer(m) ==
    LET i == m.part.insert
    IN IF session[R(i)] # m.session THEN "session"
       ELSE IF Lock(m) = {} THEN "cancelled"
       ELSE IF with_quorum /\ quorum # {} THEN "quorum"
       ELSE IF with_quorum /\ (is_active[R(i)] = 0 \/ host[R(i)] # insert[i].host) THEN "inactive"
       ELSE IF blocks[insert[i].content] # {} THEN "duplicate"
       ELSE "ok"

commitOps(m) ==
    LET i == m.part.insert
    IN /\ m \in requests
       /\ requests' = requests \ {m}
       /\ IF Answer(m) = "ok"
          THEN /\ held' = held \ Lock(m)
               /\ log' = log \cup {m.part}
               /\ blocks' = [blocks EXCEPT ![insert[i].content] = {m.part}]
               /\ zk_parts' = [zk_parts EXCEPT ![R(i)] = @ \cup {m.part}]
               /\ quorum' = IF with_quorum THEN {[part |-> m.part, replicas |-> {R(i)}]} ELSE quorum
               /\ UNCHANGED <<next_number, failed, is_active, host>>
          ELSE UNCHANGED keeper
       /\ insert' = IF insert[i].stage = "sent" /\ Part(i) = m.part
                    THEN [insert EXCEPT ![i].answer = Answer(m)] ELSE insert
       /\ UNCHANGED <<server, losses, with_quorum>>

(* The answer arrived.  A conflict takes the part back to its temporary    *)
(* state, any other refusal removes it.                                    *)
receiveAnswer(i) ==
    /\ insert[i].stage = "sent"
    /\ insert[i].answer # "none"
    /\ IF insert[i].answer = "ok"
       THEN local' = With(R(i), Part(i), "Active") /\ Await(i, {Part(i)}, "ok")
       ELSE /\ local' = Without(R(i), {Part(i)})
            /\ IF insert[i].answer = "duplicate" THEN Go(i, "resolve") ELSE End(i, "error")
    /\ UNCHANGED <<keeper, requests, session, expired, restarting, to_check, losses, with_quorum>>

(* resolve_duplicate_stage: the block id may be gone by now.               *)
resolveDuplicate(i) ==
    /\ insert[i].stage = "resolve"
    /\ Connected(R(i))
    /\ Await(i, blocks[insert[i].content], "deduplicated")
    /\ UNCHANGED <<keeper, requests, server, losses, with_quorum>>

(* The connection was lost; in the next session the insert looks for its   *)
(* part, then for a failed quorum.                                         *)
lookForPart(i) ==
    /\ insert[i].stage = "verify"
    /\ Connected(R(i))
    /\ insert' = [insert EXCEPT ![i].stage = "recover",
                                ![i].answer = IF Part(i) \in zk_parts[R(i)] THEN "exists" ELSE "missing"]
    /\ UNCHANGED <<keeper, requests, server, losses, with_quorum>>

recover(i) ==
    /\ insert[i].stage = "recover"
    /\ Connected(R(i))
    /\ \/ /\ Part(i) \in failed            \* transaction.clear: the part stays PreActive
          /\ End(i, "error")
          /\ UNCHANGED local
       \/ /\ Part(i) \notin failed
          /\ insert[i].answer = "exists"
          /\ local' = With(R(i), Part(i), "Active")
          /\ Await(i, {Part(i)}, "ok")
       \/ /\ Part(i) \notin failed
          /\ insert[i].answer = "missing"
          /\ local' = Without(R(i), {Part(i)})
          /\ Go(i, "lock") \/ End(i, "error")
    /\ UNCHANGED <<keeper, requests, session, expired, restarting, to_check, losses, with_quorum>>

(* A faulty variant: nobody looks at the part later.                       *)
lastRetryUnchecked(i) ==
    /\ insert[i].stage \in {"verify", "recover"}
    /\ local' = With(R(i), Part(i), "Active")
    /\ End(i, "unknown")
    /\ UNCHANGED <<keeper, requests, session, expired, restarting, to_check, losses, with_quorum>>

(* actionAfterLastFailedRetry.                                             *)
lastRetry(i) ==
    /\ insert[i].stage \in {"verify", "recover"}
    /\ ~Connected(R(i))
    /\ local' = With(R(i), Part(i), "Active")
    /\ to_check' = [to_check EXCEPT ![R(i)] = @ \cup {Part(i)}]
    /\ End(i, "unknown")
    /\ UNCHANGED <<keeper, requests, session, expired, restarting, losses, with_quorum>>

(* No retries are left before anything was written.                        *)
giveUp(i) ==
    /\ insert[i].stage \in {"start", "lock", "resolve"}
    /\ End(i, "error")
    /\ UNCHANGED <<keeper, requests, server, losses, with_quorum>>

(* The status is gone, or is that of another part.                         *)
waitForQuorum(i) ==
    /\ insert[i].stage = "quorum"
    /\ Connected(R(i))
    /\ insert[i].await \cap InQuorum = {}
    /\ Go(i, "active")
    /\ UNCHANGED <<keeper, requests, server, losses, with_quorum>>

(* A faulty variant: only is_active is looked at.                          *)
stillActiveAnyHost(i) ==
    /\ insert[i].stage = "active"
    /\ Connected(R(i))
    /\ End(i, IF is_active[R(i)] # 0 THEN insert[i].result ELSE "unknown")
    /\ UNCHANGED <<keeper, requests, server, losses, with_quorum>>

(* A quorum may have failed while this replica was not active.             *)
stillActive(i) ==
    /\ insert[i].stage = "active"
    /\ Connected(R(i))
    /\ End(i, IF is_active[R(i)] # 0 /\ host[R(i)] = insert[i].host THEN insert[i].result ELSE "unknown")
    /\ UNCHANGED <<keeper, requests, server, losses, with_quorum>>

(* The connection was lost: the next attempt asks anew.  A timeout, or no  *)
(* attempt left.                                                           *)
retryQuorum(i) ==
    /\ insert[i].stage = "active" /\ ~Connected(R(i)) /\ Go(i, "quorum")
    /\ UNCHANGED <<keeper, requests, server, losses, with_quorum>>

giveUpQuorum(i) ==
    /\ insert[i].stage = "quorum" /\ End(i, "unknown")
    /\ UNCHANGED <<keeper, requests, server, losses, with_quorum>>

-----------------------------------------------------------------------------
(* Connections and sessions.                                               *)

(* The client gives the session up; requests may be under way.             *)
loseConnection(r) ==
    /\ losses < MaxLosses
    /\ Connected(r)
    /\ losses' = losses + 1
    /\ expired' = [expired EXCEPT ![r] = TRUE]
    /\ insert' = [i \in Inserts |-> IF R(i) = r /\ insert[i].stage = "sent"
                                    THEN [insert[i] EXCEPT !.stage = "verify", !.answer = "none"]
                                    ELSE insert[i]]
    /\ UNCHANGED <<keeper, requests, session, restarting, local, to_check, with_quorum>>

(* ZooKeeper notices as well: ephemeral nodes go, requests are refused.    *)
Dead(r, s) == s < session[r] \/ (s = session[r] /\ expired[r])

expireSession(r, s) ==
    /\ Dead(r, s)
    /\ held' = {l \in held : ~(l.replica = r /\ l.session = s)}
    /\ is_active' = [is_active EXCEPT ![r] = IF @ = s THEN 0 ELSE @]
    /\ requests' = {m \in requests : ~(R(m.part.insert) = r /\ m.session = s)}
    /\ UNCHANGED <<next_number, log, blocks, zk_parts, quorum, failed, host,
                   server, insert, losses, with_quorum>>

(* The server stops.  Parts that were PreActive are found under their      *)
(* final names when it starts.                                             *)
crash(r) ==
    /\ losses < MaxLosses
    /\ losses' = losses + 1
    /\ expired' = [expired EXCEPT ![r] = TRUE]
    /\ restarting' = [restarting EXCEPT ![r] = "stopped"]
    /\ local' = [local EXCEPT ![r] = [p \in DOMAIN @ |-> "Active"]]
    /\ to_check' = [to_check EXCEPT ![r] = {}]
    /\ insert' = [i \in Inserts |-> IF R(i) = r /\ insert[i].stage # "done"
                                    THEN [insert[i] EXCEPT !.stage = "done", !.result = "unknown"]
                                    ELSE insert[i]]
    /\ UNCHANGED <<keeper, requests, session, with_quorum>>

(* checkParts, in a new session: a part that is not in ZooKeeper is        *)
(* detached, one that is only there is removed from there and fetched.     *)
startServer(r) ==
    /\ restarting[r] = "stopped"
    /\ restarting' = [restarting EXCEPT ![r] = "connected"]
    /\ session' = [session EXCEPT ![r] = @ + 1]
    /\ expired' = [expired EXCEPT ![r] = FALSE]
    /\ local' = Without(r, DOMAIN local[r] \ zk_parts[r])
    /\ zk_parts' = [zk_parts EXCEPT ![r] = @ \cap DOMAIN local[r]]
    /\ UNCHANGED <<next_number, held, log, blocks, quorum, failed, is_active, host,
                   requests, to_check, insert, losses, with_quorum>>

-----------------------------------------------------------------------------
(* The restarting thread.                                                  *)

Restart(r, from, to) ==
    restarting[r] = from /\ restarting' = [restarting EXCEPT ![r] = to]

partialShutdown(r) ==
    /\ expired[r]
    /\ restarting[r] \notin {"readonly", "stopped"}
    /\ restarting' = [restarting EXCEPT ![r] = "readonly"]
    /\ UNCHANGED <<keeper, requests, session, expired, local, to_check, insert, losses, with_quorum>>

setZooKeeper(r) ==
    /\ expired[r]
    /\ Restart(r, "readonly", "connected")
    /\ session' = [session EXCEPT ![r] = @ + 1]
    /\ expired' = [expired EXCEPT ![r] = FALSE]
    /\ UNCHANGED <<keeper, requests, local, to_check, insert, losses, with_quorum>>

removeFailedQuorumParts(r) ==
    /\ Connected(r)
    /\ Restart(r, "connected", "cleaned")
    /\ zk_parts' = [zk_parts EXCEPT ![r] = @ \ failed]
    /\ local' = Without(r, failed)
    /\ UNCHANGED <<next_number, held, log, blocks, quorum, failed, is_active, host,
                   requests, session, expired, to_check, insert, losses, with_quorum>>

(* deleteEphemeralNodeIfContentMatches, then both nodes change at once.    *)
activateReplica(r) ==
    /\ Connected(r)
    /\ Restart(r, "cleaned", "active")
    /\ is_active' = [is_active EXCEPT ![r] = session[r]]
    /\ host' = [host EXCEPT ![r] = @ + 1]
    /\ UNCHANGED <<next_number, held, log, blocks, zk_parts, quorum, failed,
                   requests, session, expired, local, to_check, insert, losses, with_quorum>>

(* updateQuorum: the status goes when enough replicas are in it.           *)
Joined(r, q) == [q EXCEPT !.replicas = @ \cup {r}]

UpdateQuorum(r, p) ==
    quorum' = {q \in {IF q.part = p THEN Joined(r, q) ELSE q : q \in quorum} :
                   Cardinality(q.replicas) < QuorumSize}

updateQuorumIfWeHavePart(r) ==
    /\ Connected(r)
    /\ Restart(r, "active", "up")
    /\ \/ InQuorum \cap Of(r, {"Active"}) = {} /\ UNCHANGED quorum
       \/ \E p \in InQuorum \cap Of(r, {"Active"}) : UpdateQuorum(r, p)
    /\ UNCHANGED <<next_number, held, log, blocks, zk_parts, failed, is_active, host,
                   requests, session, expired, local, to_check, insert, losses, with_quorum>>

-----------------------------------------------------------------------------
(* The part check thread.  A part is enqueued with the delay after which   *)
(* it is old: no request of its session can arrive any more.               *)
checkPart(r, p) ==
    /\ p \in to_check[r]
    /\ Connected(r) /\ ~Readonly(r)
    /\ \A m \in requests : m.part # p
    /\ to_check' = [to_check EXCEPT ![r] = @ \ {p}]
    /\ IF p \in zk_parts[r] THEN UNCHANGED local ELSE local' = Without(r, {p})
    /\ UNCHANGED <<keeper, requests, session, expired, restarting, insert, losses, with_quorum>>

-----------------------------------------------------------------------------
(* The queues of the other replicas.                                       *)

Having(p) == {q \in Replicas : p \in zk_parts[q] /\ is_active[q] # 0}

Missing(r, p) ==
    /\ Connected(r) /\ ~Readonly(r)
    /\ p \in log \ (zk_parts[r] \cup failed)
    /\ p \notin DOMAIN local[r]

fetchPart(r, p) ==
    /\ Missing(r, p)
    /\ \E q \in Having(p) : p \in Of(q, {"Active"})
    /\ zk_parts' = [zk_parts EXCEPT ![r] = @ \cup {p}]
    /\ local' = With(r, p, "Active")
    /\ UNCHANGED <<next_number, held, log, blocks, quorum, failed, is_active, host,
                   requests, session, expired, restarting, to_check, insert, losses, with_quorum>>

updateQuorum(r, p) ==
    /\ Connected(r) /\ ~Readonly(r)
    /\ p \in InQuorum \cap Of(r, {"Active"})
    /\ \A q \in quorum : r \notin q.replicas
    /\ UpdateQuorum(r, p)
    /\ UNCHANGED <<next_number, held, log, blocks, zk_parts, failed, is_active, host,
                   requests, server, insert, losses, with_quorum>>

(* executeFetch: no active replica has the part, so its quorum has failed. *)
(* The versions of all host nodes are checked in the same request.         *)
failQuorum(r, p) ==
    /\ Missing(r, p)
    /\ p \in InQuorum
    /\ Having(p) = {}
    /\ quorum' = {}
    /\ failed' = failed \cup {p}
    /\ blocks' = [c \in Contents |-> blocks[c] \ {p}]
    /\ UNCHANGED <<next_number, held, log, zk_parts, is_active, host,
                   requests, server, insert, losses, with_quorum>>

-----------------------------------------------------------------------------
Fresh(r, c) == [stage |-> "start", replica |-> r, content |-> c, host |-> 0, session |-> 0,
                number |-> 0, answer |-> "none", await |-> {}, result |-> "none"]

Init ==
    /\ next_number = 0 /\ held = {} /\ log = {}
    /\ blocks = [c \in Contents |-> {}]
    /\ zk_parts = [r \in Replicas |-> {}]
    /\ quorum = {} /\ failed = {}
    /\ is_active = [r \in Replicas |-> 1]
    /\ host = [r \in Replicas |-> 1]
    /\ requests = {}
    /\ session = [r \in Replicas |-> 1]
    /\ expired = [r \in Replicas |-> FALSE]
    /\ restarting = [r \in Replicas |-> "up"]
    /\ local = [r \in Replicas |-> <<>>]
    /\ to_check = [r \in Replicas |-> {}]
    /\ losses = 0
    /\ with_quorum \in BOOLEAN
    /\ \E where \in [Inserts -> Replicas], what \in [Inserts -> Contents] :
          insert = [i \in Inserts |-> Fresh(where[i], what[i])]

InsertStep(i) ==
    \/ checkQuorumPrecondition(i) \/ allocateBlockNumber(i) \/ sendCommit(i) \/ receiveAnswer(i)
    \/ resolveDuplicate(i) \/ lookForPart(i) \/ recover(i) \/ lastRetry(i) \/ giveUp(i)
    \/ waitForQuorum(i) \/ stillActive(i) \/ retryQuorum(i) \/ giveUpQuorum(i)

ReplicaStep(r) ==
    \/ partialShutdown(r) \/ setZooKeeper(r) \/ removeFailedQuorumParts(r)
    \/ activateReplica(r) \/ updateQuorumIfWeHavePart(r)
    \/ \E p \in to_check[r] : checkPart(r, p)
    \/ \E p \in log : fetchPart(r, p) \/ updateQuorum(r, p) \/ failQuorum(r, p)

Fault(r) ==
    \/ loseConnection(r) \/ crash(r) \/ startServer(r)
    \/ \E s \in 1..session[r] : expireSession(r, s)

Next ==
    \/ \E i \in Inserts : InsertStep(i)
    \/ \E m \in requests : commitOps(m)
    \/ \E r \in Replicas : ReplicaStep(r) \/ Fault(r)

Spec == Init /\ [][Next]_vars

-----------------------------------------------------------------------------
(* Properties.                                                             *)

Up(r) == Connected(r) /\ ~Readonly(r)

(* An insert without a quorum that is acknowledged, as done or as a        *)
(* duplicate, has its rows in the table: a replica holds the part and      *)
(* ZooKeeper knows that it does.  A retry may have lost or left behind     *)
(* parts on the way.                                                       *)
AcknowledgedIsStored ==
    \A i \in Inserts :
        ~with_quorum /\ insert[i].stage = "done" /\ insert[i].result \in {"ok", "deduplicated"} =>
            \E r \in Replicas : \E p \in zk_parts[r] \cap DOMAIN local[r] : Content(p) = insert[i].content

(* Rows inserted again with the same block id, by the sink itself or by    *)
(* the client, are visible once.                                           *)
StoredOnce ==
    \A r \in Replicas : ~with_quorum /\ restarting[r] # "stopped" /\ to_check[r] = {} =>
        \A p, q \in Of(r, {"Active"}) : Content(p) = Content(q) => p = q

(* The two places agree: a part of a replica in ZooKeeper is there to be   *)
(* fetched, and an Active part that is not in ZooKeeper will be looked at. *)
LocalMatchesKeeper ==
    \A r \in Replicas : restarting[r] # "stopped" =>
        /\ \A p \in zk_parts[r] : p \in DOMAIN local[r]
        /\ \A p \in Of(r, {"Active"}) : p \in zk_parts[r] \cup to_check[r]

(* An insert with a quorum that is acknowledged is on that many replicas.  *)
QuorumReached ==
    \A i \in Inserts :
        with_quorum /\ insert[i].stage = "done" /\ insert[i].result = "ok" =>
            Cardinality({r \in Replicas : Part(i) \in zk_parts[r]}) >= QuorumSize

(* The same for an insert that is acknowledged as a duplicate; see the     *)
(* README.                                                                 *)
DuplicateQuorumReached ==
    \A i \in Inserts :
        with_quorum /\ insert[i].stage = "done" /\ insert[i].result = "deduplicated" =>
            \E p \in Parts : /\ Content(p) = insert[i].content
                             /\ Cardinality({r \in Replicas : p \in zk_parts[r]}) >= QuorumSize

(* A part whose quorum has failed is gone from a replica that works; see   *)
(* the README.                                                             *)
FailedPartsRemoved ==
    \A r \in Replicas : Up(r) => failed \cap Of(r, {"Active"}) = {}
=============================================================================
