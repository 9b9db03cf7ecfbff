--------------------------- MODULE MCMarkSelection ---------------------------
EXTENDS MarkSelection

Plain(col) == Expr(col, <<>>)
Of(f, col) == Expr(col, <<f>>)
Row(x, y) == [a |-> x, b |-> y]

\* All parts with n rows, in the order of a key, whose columns may be reversed.
Before(key, reversed, s, t) ==
    LET v(k, row) == exprValue(key[k], row)
        differ == {k \in DOMAIN key : v(k, s) # v(k, t)}
    IN differ = {} \/ LET k == CHOOSE i \in differ : \A j \in differ : i =< j
                      IN IF reversed THEN v(k, s) > v(k, t) ELSE v(k, s) < v(k, t)

Parts(n, as, bs, key, reversed) ==
    {rows \in [1 .. n -> {Row(x, y) : x \in as, y \in bs}] :
        \A i \in 1 .. n - 1 : Before(key, reversed, rows[i], rows[i + 1])}

\* An atom on a, alone, negated, or together with an atom on b.
Filters(atoms) ==
    LET g == Atom("equals", Plain("b"), 1)
    IN atoms \cup {Neg(f) : f \in atoms}
       \cup UNION {{Conj(f, g), Disj(g, f), Neg(Conj(f, g)), Conj(f, Neg(g))} : f \in atoms}

Atoms(relations, functions, consts) ==
    {Atom(rel, Expr("a", fs), c) : rel \in relations, fs \in functions, c \in consts}

Relations == {"equals", "notEquals", "less", "greater", "lessOrEquals", "greaterOrEquals"}

Keyed(key, parts, filters) ==
    [parts |-> parts, filters |-> filters,
     settings |-> [index_granularity |-> 1, final_mark |-> TRUE,
                   nullable |-> [a |-> FALSE, b |-> FALSE],
                   key |-> key, reverse_flags |-> [k \in DOMAIN key |-> FALSE], loaded |-> Len(key),
                   partition_key |-> <<>>, skip_indexes |-> <<>>, find_exact |-> TRUE,
                   coarse_index_granularity |-> 2, min_marks_for_seek |-> 0, disjunctions |-> FALSE]]

AB == <<Plain("a"), Plain("b")>>

(* Functions in the filter and in the key.                                 *)
FunctionTables ==
    {Keyed(key, {s \in Parts(3, 0 .. 2, {0, 1}, key, FALSE) : s[1] # s[2] /\ s[2] # s[3]},
           Filters(Atoms(Relations, {<<>>, <<"div2">>, <<"mod2">>, <<"neg">>}, {1})
                     \cup Atoms({"match", "other"}, {<<>>}, {0, 1}))) :
        key \in {AB, <<Of("div2", "a"), Plain("b")>>, <<Of("hash", "a"), Of("neg", "b")>>}}

(* Null among the values of a.                                             *)
NullTables ==
    {[Keyed(key, Parts(3, {0, 1, Null}, {0, 1}, AB, FALSE),
            Filters(Atoms({"isNull", "isNotNull"}, {<<>>, <<"neg">>}, {0})
                      \cup Atoms({"equals", "notEquals", "greater"}, {<<>>}, {0, Null})))
        EXCEPT !.settings.nullable.a = TRUE, !.settings.find_exact = FALSE, !.settings.final_mark = FALSE] :
        key \in {<<Plain("a")>>, AB}}

(* The search: more marks, granules of two rows, columns that are reversed *)
(* or not loaded, with and without a final mark.                           *)
SearchTables ==
    LET filters == Filters(Atoms({"equals", "notEquals", "lessOrEquals", "greater"}, {<<>>}, {1}))
        up == Keyed(AB, Parts(4, 0 .. 2, {0, 1}, AB, FALSE), filters)
        down == Keyed(<<Plain("a")>>, Parts(4, 0 .. 2, {1}, <<Plain("a")>>, TRUE), filters)
    IN  {[up EXCEPT !.settings.final_mark = FALSE], [up EXCEPT !.settings.index_granularity = 2],
         [down EXCEPT !.settings.reverse_flags = <<TRUE>>, !.settings.coarse_index_granularity = 3]}
        \cup {[up EXCEPT !.settings.loaded = n, !.settings.find_exact = FALSE,
                         !.settings.min_marks_for_seek = 1] : n \in {0, 1}}

(* Skip indexes, and the bounds of the partition key.                      *)
Index(columns, n) == [key |-> columns, granularity |-> n]

SkipTables ==
    {[Keyed(<<Plain("b")>>, Parts(4, 0 .. 2, {0, 1}, <<Plain("b")>>, FALSE),
            Filters(Atoms({"equals", "greater", "match"}, IF d THEN {<<>>, <<"neg">>} ELSE {<<"mod2">>}, {1})))
        EXCEPT !.settings.skip_indexes = indexes, !.settings.partition_key = <<Plain("a")>>,
               !.settings.disjunctions = d, !.settings.find_exact = FALSE] :
        indexes \in {<<Index(<<Plain("a")>>, 1), Index(<<Plain("b")>>, 2)>>,
                     <<Index(<<Plain("a")>>, 2), Index(<<Plain("b")>>, 1)>>,
                     <<Index(<<Plain("b"), Plain("a")>>, 1)>>},
        d \in BOOLEAN}

MCTables == FunctionTables \cup NullTables \cup SearchTables \cup SkipTables

=============================================================================
