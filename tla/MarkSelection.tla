----------------------------- MODULE MarkSelection -----------------------------
(***************************************************************************)
(* MergeTreeDataSelectExecutor.cpp: the index analysis of a SELECT for one *)
(* part. The part is left out by the bounds of its partition key, its      *)
(* primary index is searched for marks (MarkSearch), skip indexes then     *)
(* leave out some of them, and what they know of the arguments of OR is    *)
(* put together. What the indexes know is decided by KeyCondition.         *)
(***************************************************************************)
EXTENDS MarkSearch, KeyCondition

CONSTANT Tables
(* The tables and the queries on them, each a record of                    *)
(*   parts: the rows that a part may have, in the order of the sorting key *)
(*   filters: the filters that a query may have                            *)
(*   settings: a record that tells the rest, with fields                   *)
(*     index_granularity, final_mark: how the rows of a part are marked    *)
(*     nullable: which columns may hold Null                               *)
(*     key, reverse_flags: the sorting key, an expression for each column  *)
(*     loaded: how many columns of the primary index are in memory         *)
(*     partition_key: the expressions whose bounds the part keeps          *)
(*     skip_indexes: minmax indexes, each with a key and a granularity     *)
(*     find_exact, coarse_index_granularity, min_marks_for_seek            *)
(*     disjunctions: use_skip_indexes_for_disjunctions                     *)

VARIABLES
    query,          \* the settings, with the rows of the part and the filter
    stage,          \* what is done next
    index_no,       \* the skip index to apply next
    partial         \* partial_disjunction_result: marks with elements that are false

vars == <<searchVars, query, stage, index_no, partial>>

(***************************************************************************)
(* The part.                                                               *)
(***************************************************************************)
Granules(q) == (Len(q.rows) + q.index_granularity - 1) \div q.index_granularity
MarksCount(q) == Granules(q) + (IF q.final_mark THEN 1 ELSE 0)

RowsOf(q, mark) ==
    {i \in DOMAIN q.rows : (i - 1) \div q.index_granularity = mark}

\* The primary index has the key of the first row of a mark, the final mark that of the last row.
indexRow(q, mark) ==
    q.rows[IF mark < Granules(q) THEN mark * q.index_granularity + 1 ELSE Len(q.rows)]

\* The bounds of an expression over some rows.
Extremes(q, e, rows) ==
    LET values == {exprValue(e, q.rows[i]) : i \in rows}
    IN Between(CHOOSE v \in values : \A w \in values : v =< w, TRUE,
               CHOOSE v \in values : \A w \in values : v >= w, TRUE)

Hyperrectangle(q, key, rows) == [k \in DOMAIN key |-> Extremes(q, key[k], rows)]

(***************************************************************************)
(* check_in_range of the primary key.                                      *)
(***************************************************************************)
bound(q, k, mark) ==
    IF k > q.loaded THEN PositiveInfinity
    ELSE IF mark = MarksCount(q) THEN PositiveInfinity
    ELSE exprValue(q.key[k], indexRow(q, mark))

firstBound(q, k, mark) == IF k > q.loaded THEN NegativeInfinity ELSE bound(q, k, mark)

check_in_range(q, rpn, r) ==
    LET keys == DOMAIN q.key
        flip(k) == q.reverse_flags[k] /\ k =< q.loaded
        left == [k \in keys |-> IF flip(k) THEN bound(q, k, r.end) ELSE firstBound(q, k, r.begin)]
        right == [k \in keys |-> IF flip(k) THEN firstBound(q, k, r.begin) ELSE bound(q, k, r.end)]
    IN checkInRange(rpn, left, right, [k \in keys |-> q.nullable[q.key[k].col]])

MatchingRows(q) == {i \in DOMAIN q.rows : matches(q.filter, q.rows[i])}

SearchInput(q, rpn) ==
    LET marks == 0 .. Granules(q) - 1
    IN [ranges |-> <<[begin |-> 0, end |-> Granules(q)]>>,
        check |-> [r \in {s \in MarkRange : s.end =< Granules(q)} |-> check_in_range(q, rpn, r)],
        find_exact |-> q.find_exact /\ ~isRelaxed(rpn),
        continuous |-> matchesExactContinuousRange(rpn, Len(q.key)),
        coarse_index_granularity |-> q.coarse_index_granularity,
        min_marks_for_seek |-> q.min_marks_for_seek,
        matching |-> {m \in marks : RowsOf(q, m) \cap MatchingRows(q) # {}},
        full |-> {m \in marks : RowsOf(q, m) \subseteq MatchingRows(q)}]

NoInput == [ranges |-> <<>>, check |-> <<>>, find_exact |-> FALSE, continuous |-> FALSE,
            coarse_index_granularity |-> 2, min_marks_for_seek |-> 0,
            matching |-> {}, full |-> {}]

Init ==
    /\ \E t \in Tables : \E rows \in t.parts, filter \in t.filters :
          query = t.settings @@ [rows |-> rows, filter |-> filter]
    /\ stage = "parts"
    /\ index_no = 1
    /\ partial = {}
    /\ SearchInit(NoInput)

(***************************************************************************)
(* selectPartsToRead, then markRangesFromPKRange or nothing to search for. *)
(***************************************************************************)
partCanMatch ==
    checkInHyperrectangle(buildRPN(query.partition_key, query.filter),
        Hyperrectangle(query, query.partition_key, DOMAIN query.rows)).can_be_true

SkipPart ==
    /\ stage = "parts"
    /\ ~partCanMatch
    /\ stage' = "done"
    /\ UNCHANGED <<searchVars, query, index_no, partial>>

keyRPN == buildRPN(query.key, query.filter)

KeyNotUsed ==
    /\ stage = "parts"
    /\ partCanMatch
    /\ alwaysUnknownOrTrue(keyRPN)
    /\ stage' = "indexes"
    /\ input' = [SearchInput(query, keyRPN) EXCEPT !.find_exact = FALSE]
    /\ res' = input'.ranges
    /\ UNCHANGED <<phase, todo, ranges_stack, range, step, searched, exact_ranges,
                   query, index_no, partial>>

UseKey ==
    /\ stage = "parts"
    /\ partCanMatch
    /\ ~alwaysUnknownOrTrue(keyRPN)
    /\ stage' = "keys"
    /\ input' = SearchInput(query, keyRPN)
    /\ todo' = input'.ranges
    /\ UNCHANGED <<phase, ranges_stack, range, step, searched, res, exact_ranges,
                   query, index_no, partial>>

Search ==
    /\ stage = "keys"
    /\ SearchNext
    /\ UNCHANGED <<query, stage, index_no, partial>>

KeyUsed ==
    /\ stage = "keys"
    /\ phase = "found"
    /\ stage' = "indexes"
    /\ UNCHANGED <<searchVars, query, index_no, partial>>

(***************************************************************************)
(* filterMarksUsingIndex, for each skip index as long as marks are left.   *)
(***************************************************************************)
Min2(a, b) == IF a < b THEN a ELSE b
Max2(a, b) == IF a > b THEN a ELSE b

\* A range cut where the granules of an index begin.
Cut(r, granularity) ==
    LET first == r.begin \div granularity
        beyond == (r.end + granularity - 1) \div granularity
    IN [i \in 1 .. beyond - first |->
          [begin |-> Max2(r.begin, (first + i - 1) * granularity),
           end |-> Min2(r.end, (first + i) * granularity)]]

\* The bounds that an index keeps for the granule that a mark is in.
indexGranule(index, mark) ==
    LET marks == {m \in 0 .. Granules(query) - 1 : m \div index.granularity = mark \div index.granularity}
    IN Hyperrectangle(query, index.key, UNION {RowsOf(query, m) : m \in marks})

reports(index, mark) ==
    {[mark |-> mark, position |-> u.position, result |-> u.result] :
        u \in update_partial_disjunction_result(buildRPN(index.key, query.filter), indexGranule(index, mark))}

mayBeTrueOnGranule(index, mark) ==
    checkInHyperrectangle(buildRPN(index.key, query.filter), indexGranule(index, mark)).can_be_true

filterMarksUsingIndex ==
    /\ stage = "indexes"
    /\ index_no =< Len(query.skip_indexes)
    /\ res # <<>>
    /\ LET index == query.skip_indexes[index_no]
           pieces == FlattenSeq([i \in DOMAIN res |-> Cut(res[i], index.granularity)])
           kept == SelectSeq(pieces, LAMBDA r : mayBeTrueOnGranule(index, r.begin))
           news == IF query.disjunctions
                   THEN UNION {reports(index, pieces[i].begin) : i \in DOMAIN pieces} ELSE {}
       IN /\ res' = FoldLeft(push, <<>>, kept)
          /\ partial' = {p \in partial : ~\E u \in news : u.mark = p.mark /\ u.position = p.position}
                          \cup {[mark |-> u.mark, position |-> u.position] : u \in {v \in news : ~v.result}}
    /\ index_no' = index_no + 1
    /\ UNCHANGED <<input, phase, todo, ranges_stack, range, step, searched, exact_ranges, query, stage>>

IndexesUsed == index_no > Len(query.skip_indexes) \/ res = <<>>

mergePartialResultsForDisjunctions ==
    /\ stage = "indexes"
    /\ IndexesUsed
    /\ query.skip_indexes # <<>>
    /\ query.disjunctions
    /\ LET template == buildRPN(<<>>, query.filter)
           no(mark) == {p.position : p \in {u \in partial : u.mark = mark}}
           marks == FlattenSeq([i \in DOMAIN res |-> Cut(res[i], 1)])
           kept == SelectSeq(marks, LAMBDA r : mayBeTrue(template, no(r.begin)))
       IN res' = FoldLeft(push, <<>>, kept)
    /\ stage' = "done"
    /\ UNCHANGED <<input, phase, todo, ranges_stack, range, step, searched, exact_ranges,
                   query, index_no, partial>>

Selected ==
    /\ stage = "indexes"
    /\ IndexesUsed
    /\ ~(query.skip_indexes # <<>> /\ query.disjunctions)
    /\ stage' = "done"
    /\ UNCHANGED <<searchVars, query, index_no, partial>>

Next ==
    \/ SkipPart \/ KeyNotUsed \/ UseKey \/ Search \/ KeyUsed
    \/ filterMarksUsingIndex \/ mergePartialResultsForDisjunctions \/ Selected

Spec == Init /\ [][Next]_vars

(***************************************************************************)
(* Properties.                                                             *)
(***************************************************************************)

(* No row that matches is left out: its mark is among those to be read,    *)
(* whatever the filter, the functions of the key and the skip indexes.     *)
(* Outside are keys of mixed directions, descending ones of a part without *)
(* a final mark, and skip indexes whose positions do not agree: the code   *)
(* does skip rows for them.                                                *)
NothingSkipped ==
    stage = "done" =>
        \A i \in MatchingRows(query) : (i - 1) \div query.index_granularity \in MarksOf(res)

(* All rows of the exact ranges match: count() takes them for the answer   *)
(* without reading them.                                                   *)
ExactRangesMatch ==
    \A m \in MarksOf(exact_ranges) : RowsOf(query, m) \subseteq MatchingRows(query)

(* What checkInRange says of a range of marks is right. The search relies  *)
(* on it for every range it may look at.                                   *)
CheckIsSound == stage # "parts" => SoundCheck(input)

===============================================================================
