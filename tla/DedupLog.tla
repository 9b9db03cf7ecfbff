------------------------------ MODULE DedupLog ------------------------------
(***************************************************************************)
(* The deduplication log of a plain MergeTree table                        *)
(* (MergeTreeDeduplicationLog) under the inserts that ask it, the drops    *)
(* that clear it, changes of its window and restarts.                      *)
(*                                                                         *)
(* The log remembers the ids of the last inserted blocks, with the part    *)
(* each went to, in a bounded map and in files of ADD and DROP records.    *)
(* A block whose id is in the map is taken for a repeated insert.          *)
(***************************************************************************)
EXTENDS PartInfo, Integers, SequencesExt

CONSTANTS BlockIds,     \* ids of inserted blocks
          Windows,      \* values the setting of the window may take
          MaxBatch,     \* bound: ids of one insert (more than one if asynchronous)
          MaxNumber,    \* bound: highest block number handed out
          MaxInserts,   \* bound: number of inserts
          MaxRestarts,  \* bound: number of restarts
          MaxFailures,  \* bound: number of inserts that fail after addPart
          MaxChanges,   \* bound: number of changes of the window
          Appends,      \* values disk_supports_writing_with_append may take
          TornWrites    \* may a crash leave half a record in a file?

ASSUME DedupAssumption ==
    /\ Windows \subseteq Nat
    /\ MaxBatch \in Nat /\ MaxNumber \in Nat /\ MaxInserts \in Nat
    /\ MaxRestarts \in Nat /\ MaxFailures \in Nat /\ MaxChanges \in Nat
    /\ Appends \subseteq BOOLEAN /\ TornWrites \in BOOLEAN

VARIABLES
    window,       \* deduplication_window
    map,          \* deduplication_map: the queue of its entries, oldest first
    logs,         \* existing_logs, oldest first: records, entries_count, and the number of
                  \* records before a torn one
    pending,      \* the insert between addPart and the commit of its part
    increment,    \* the last block number handed out
    rows,         \* entries whose rows are in the table
    interrupted,  \* entries whose insert failed after addPart
    append,       \* disk_supports_writing_with_append
    events,       \* history: what ever happened to the log
    up,           \* is the server running?
    inserts, restarts, failures, changes   \* spent of the bounds

budget == <<inserts, restarts, failures, changes>>
dedupVars == <<window, map, logs, pending, increment, rows, interrupted, append, events, up, budget>>

Entries  == [id : BlockIds, part : 1..MaxNumber]
Records  == [op : {"ADD", "DROP"}, id : BlockIds, part : 1..MaxNumber]
NotTorn  == -1
NewLog   == [records |-> <<>>, count |-> 0, torn |-> NotTorn]
NoInsert == {}

(* The zero-level part of one block.                                       *)
Info(n) == [min |-> n, max |-> n, level |-> 0, mutation |-> 0]

DedupTypeOK ==
    /\ window \in Windows
    /\ map \in Seq(Entries) /\ Len(map) <= window
    /\ \A i, j \in DOMAIN map : i = j \/ map[i].id # map[j].id
    /\ \A i \in DOMAIN logs : logs[i].records \in Seq(Records) /\ logs[i].count \in Nat
                           /\ logs[i].torn \in {NotTorn} \cup Nat
    /\ pending \subseteq Entries /\ rows \subseteq Entries /\ interrupted \subseteq Entries
    /\ increment \in 0..MaxNumber
    /\ append \in BOOLEAN /\ up \in BOOLEAN /\ events \subseteq {"dropped", "grown", "damaged"}
    /\ inserts \in 0..MaxInserts /\ restarts \in 0..MaxRestarts
    /\ failures \in 0..MaxFailures /\ changes \in 0..MaxChanges

(***************************************************************************)
(* LimitedOrderedHashMap                                                   *)
(***************************************************************************)
mapContains(m, id) == \E e \in ToSet(m) : e.id = id

setMaxSize(m, n) == IF Len(m) > n THEN SubSeq(m, Len(m) - n + 1, Len(m)) ELSE m

erase(m, id) ==
    IF mapContains(m, id) THEN RemoveAt(m, CHOOSE i \in DOMAIN m : m[i].id = id) ELSE m

(* A known key keeps its value and its place in the queue.                 *)
insertEntry(m, e, n) ==
    IF mapContains(m, e.id) THEN m
    ELSE Append(IF Len(m) = n THEN Tail(m) ELSE m, e)

(***************************************************************************)
(* The files                                                               *)
(***************************************************************************)
LogRecord(o, e) == [op |-> o, id |-> e.id, part |-> e.part]

writeRecord(L, r) ==
    [L EXCEPT ![Len(L)].records = Append(@, r), ![Len(L)].count = @ + 1]

rotate(L, n) == IF n = 0 THEN L ELSE Append(L, NewLog)

(* The records of the files after the i-th, summed up from the newest.     *)
NewerRecords(L, i) ==
    LET newest[k \in 0..Len(L)] ==
            IF k = 0 THEN 0 ELSE newest[k - 1] + L[Len(L) - k + 1].count
    IN  newest[Len(L) - i]

(* A faulty variant: the file that makes the sum exceed the window goes too. *)
dropOutdatedLogsInclusive(L, n) ==
    LET outdated == {i \in 1..Len(L) - 1 : NewerRecords(L, i - 1) > n}
    IN  SubSeq(L, Max(outdated \cup {0}) + 1, Len(L))

(* A file goes when the newer ones hold more than n records.               *)
dropOutdatedLogs(L, n) ==
    LET outdated == {i \in DOMAIN L : NewerRecords(L, i) > n}
    IN  SubSeq(L, Max(outdated \cup {0}) + 1, Len(L))

rotate_interval(n) == 2 * n

rotateAndDropIfNeeded(L, n) ==
    IF L = <<>> \/ Last(L).count >= rotate_interval(n) \/ ~append
    THEN dropOutdatedLogs(rotate(L, n), n)
    ELSE L

(* loadSingleLog throws at a torn record; what precedes it has been loaded. *)
Readable(f) == IF f.torn = NotTorn THEN f.records ELSE SubSeq(f.records, 1, f.torn)

(* A faulty variant: DROP records are read like ADD records.               *)
readRecordAdds(m, r, n) == insertEntry(m, [id |-> r.id, part |-> r.part], n)

readRecord(m, r, n) ==
    IF r.op = "DROP" THEN erase(m, r.id) ELSE insertEntry(m, [id |-> r.id, part |-> r.part], n)

loadSingleLog(m, f, n) ==
    LET records == Readable(f)
        loaded[i \in 0..Len(records)] ==
            IF i = 0 THEN m ELSE readRecord(loaded[i - 1], records[i], n)
    IN  loaded[Len(records)]

(* The map that a restart with the window n builds from the files.         *)
Replay(L, n) ==
    LET loaded[i \in 0..Len(L)] ==
            IF i = 0 THEN <<>> ELSE loadSingleLog(loaded[i - 1], L[i], n)
    IN  IF n = 0 THEN <<>> ELSE loaded[Len(L)]

(* Records that follow a torn one cannot be read.                          *)
Damage == IF Last(logs).torn # NotTorn THEN {"damaged"} ELSE {}

(* entries_count of a file that could not be read to its end stays 0.      *)
Counted(L, n) ==
    [i \in DOMAIN L |->
        [L[i] EXCEPT !.count = IF n = 0 \/ L[i].torn # NotTorn THEN 0 ELSE Len(L[i].records)]]

(***************************************************************************)
(* Inserts: MergeTreeSink::commitPart holds the lock of the parts from the *)
(* block number on; addPart writes to the log before the part is renamed   *)
(* and committed, and an exception or a crash may come in between.         *)
(***************************************************************************)
Batches == {s \in UNION {[1..n -> BlockIds] : n \in 1..MaxBatch} :
               \A i, j \in DOMAIN s : i = j \/ s[i] # s[j]}

EntriesOf(ids, n) == [i \in DOMAIN ids |-> [id |-> ids[i], part |-> n]]

(* The map and the files after one more entry.                             *)
AddEntry(s, e) ==
    [map |-> insertEntry(s.map, e, window), logs |-> writeRecord(s.logs, LogRecord("ADD", e))]

AddEntries(new) ==
    LET after[i \in 0..Len(new)] ==
            IF i = 0 THEN [map |-> map, logs |-> logs] ELSE AddEntry(after[i - 1], new[i])
    IN  after[Len(new)]

(* The common part: a block number is taken.                               *)
fillNewPartName ==
    /\ up /\ pending = NoInsert /\ increment < MaxNumber /\ inserts < MaxInserts
    /\ increment' = increment + 1
    /\ inserts' = inserts + 1

addPart(ids) ==
    /\ fillNewPartName
    /\ \A i \in DOMAIN ids : ~mapContains(map, ids[i])
    /\ LET new == EntriesOf(ids, increment + 1) IN
       /\ pending' = ToSet(new)
       /\ IF window = 0 THEN UNCHANGED <<map, logs, events>>
          ELSE /\ map' = AddEntries(new).map
               /\ logs' = rotateAndDropIfNeeded(AddEntries(new).logs, window)
               /\ events' = events \cup Damage
    /\ UNCHANGED <<window, rows, interrupted, append, up, restarts, failures, changes>>

(* Some id is known: the insert drops it and tries again with the others.  *)
addPartDuplicate(ids) ==
    /\ fillNewPartName
    /\ \E i \in DOMAIN ids : mapContains(map, ids[i])
    /\ UNCHANGED <<window, map, logs, pending, rows, interrupted, append, events, up, restarts,
                   failures, changes>>

commitPart ==
    /\ up /\ pending # NoInsert
    /\ rows' = rows \cup pending
    /\ pending' = NoInsert
    /\ UNCHANGED <<window, map, logs, increment, interrupted, append, events, up, budget>>

commitPartThrows ==
    /\ up /\ pending # NoInsert /\ failures < MaxFailures
    /\ interrupted' = interrupted \cup pending
    /\ pending' = NoInsert
    /\ failures' = failures + 1
    /\ UNCHANGED <<window, map, logs, increment, rows, append, events, up, inserts, restarts,
                   changes>>

(***************************************************************************)
(* A drop removes a part, which may be the result of merges, from the      *)
(* table and calls dropPart with it.  Of both, only dropPart is in this    *)
(* repository; they are one step here.                                     *)
(***************************************************************************)
Covered(info, e) == contains(info, Info(e.part))

(* A faulty variant: no DROP record is written.                            *)
DropEntryUnrecorded(s, e) == [map |-> erase(s.map, e.id), logs |-> s.logs]

(* One record per entry, with a rotation after each if it is due.          *)
DropEntry(s, e) ==
    [map  |-> erase(s.map, e.id),
     logs |-> rotateAndDropIfNeeded(writeRecord(s.logs, LogRecord("DROP", e)), window)]

DropEntries(info) ==
    LET after[i \in 0..Len(map)] ==
            IF i = 0 THEN [map |-> map, logs |-> logs]
            ELSE IF Covered(info, map[i]) THEN DropEntry(after[i - 1], map[i])
            ELSE after[i - 1]
    IN  after[Len(map)]

dropPart(lo, hi) ==
    LET info == [min |-> lo, max |-> hi, level |-> IF lo = hi THEN 0 ELSE 1, mutation |-> 0] IN
    /\ up /\ pending = NoInsert
    /\ lo <= hi /\ \E d, e \in rows : d.part = lo /\ e.part = hi
    /\ rows' = {e \in rows : ~Covered(info, e)}
    /\ IF window = 0 THEN UNCHANGED <<map, logs, events>>
       ELSE /\ map' = DropEntries(info).map
            /\ logs' = DropEntries(info).logs
            /\ events' = IF \E e \in ToSet(map) : Covered(info, e)
                         THEN events \cup {"dropped"} \cup Damage ELSE events
    /\ UNCHANGED <<window, pending, increment, interrupted, append, up, budget>>

(***************************************************************************)
(* ALTER MODIFY SETTING                                                    *)
(***************************************************************************)
setDeduplicationWindowSize(n) ==
    /\ up /\ n # window /\ changes < MaxChanges
    /\ window' = n
    /\ map' = setMaxSize(map, n)
    /\ logs' = rotateAndDropIfNeeded(logs, n)
    /\ events' = IF n > window THEN events \cup {"grown"} ELSE events
    /\ changes' = changes + 1
    /\ UNCHANGED <<pending, increment, rows, interrupted, append, up, inserts, restarts, failures>>

(***************************************************************************)
(* Restarts                                                                *)
(***************************************************************************)
shutdown ==
    /\ up /\ pending = NoInsert /\ restarts < MaxRestarts
    /\ up' = FALSE
    /\ UNCHANGED <<window, map, logs, pending, increment, rows, interrupted, append, events,
                   budget>>

(* A crash may cut the record that was being written to the last file.     *)
Crash ==
    /\ up /\ restarts < MaxRestarts
    /\ up' = FALSE
    /\ interrupted' = interrupted \cup pending
    /\ pending' = NoInsert
    /\ \/ UNCHANGED logs
       \/ /\ TornWrites /\ window # 0 /\ Last(logs).torn = NotTorn
          /\ logs' = [logs EXCEPT ![Len(logs)].torn = Len(logs[Len(logs)].records)]
    /\ UNCHANGED <<window, map, increment, rows, append, events, budget>>

(* load.  The block numbers start again from the parts that were loaded,   *)
(* which may include old ones that are still to be removed.                *)
load ==
    /\ ~up
    /\ map' = Replay(logs, window)
    /\ logs' = IF window = 0 THEN Counted(logs, 0)
               ELSE rotateAndDropIfNeeded(Counted(logs, window), window)
    /\ \E n \in 0..increment : increment' = n /\ \A e \in rows : e.part <= n
    /\ up' = TRUE
    /\ restarts' = restarts + 1
    /\ UNCHANGED <<window, pending, rows, interrupted, append, events, inserts, failures,
                   changes>>

DedupInit ==
    /\ window \in Windows /\ append \in Appends
    /\ map = <<>> /\ logs = rotateAndDropIfNeeded(<<>>, window)
    /\ pending = NoInsert /\ increment = 0 /\ rows = {} /\ interrupted = {}
    /\ events = {} /\ up = TRUE
    /\ inserts = 0 /\ restarts = 0 /\ failures = 0 /\ changes = 0

DedupNext ==
    \/ \E ids \in Batches : addPart(ids) \/ addPartDuplicate(ids)
    \/ commitPart \/ commitPartThrows
    \/ \E lo, hi \in 1..MaxNumber : dropPart(lo, hi)
    \/ \E n \in Windows : setDeduplicationWindowSize(n)
    \/ shutdown \/ Crash \/ load

DedupSpec == DedupInit /\ [][DedupNext]_dedupVars

(***************************************************************************)
(* Properties                                                              *)
(***************************************************************************)

(* The entries that make addPart refuse a block, now or after a restart.   *)
Refusing == ToSet(map) \cup ToSet(Replay(logs, window))

(* "Part is covered by dropped part, let's remove it from deduplication    *)
(* history": the log never refuses a block whose part was dropped.         *)
DroppedAreForgotten == up => Refusing \subseteq rows \cup pending \cup interrupted

(* Rotation, drops, a smaller window and restarts never make the log       *)
(* refuse a block whose rows are gone; its insert may only have been       *)
(* interrupted between addPart and commit.                                 *)
RefusedAreInTable == events \subseteq {"dropped"} => DroppedAreForgotten

(* "Block with ID {} already exists as part {}; ignoring it": a refused    *)
(* block is in the table.                                                  *)
RefusedExist == up => Refusing \subseteq rows \cup pending

(* A restart finds the newest entries of the map, in their order, even     *)
(* after a torn write: it never refuses a block that was accepted before.  *)
RestartRefusesNoMore == events \subseteq {"dropped"} => IsSuffix(Replay(logs, window), map)

(* As long as nothing was dropped, a restart forgets no entry of the map,  *)
(* whatever files dropOutdatedLogs removed.                                *)
RotationForgetsNothing == events = {} => Replay(logs, window) = map

(* "Remove all old logs with non-needed records for deduplication_window": *)
(* the files that remain hold every entry of the map.                      *)
NeededRecordsKept == Replay(logs, window) = map
=============================================================================
