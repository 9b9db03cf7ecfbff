----------------------------- MODULE KeyCondition -----------------------------
(***************************************************************************)
(* KeyCondition.cpp and RPNBuilder.cpp: the filter of a query, as far as   *)
(* it can be decided from bounds of some key columns. Values are 0 to      *)
(* MaxValue and Null, which sorts last and is +inf as a bound. Of the      *)
(* atoms the comparisons, isNull, "match" (a function with a wider range   *)
(* and no inverse) and "other" (a function the index knows nothing of) are *)
(* kept; sets, space-filling curves, polygons, Bloom filters and NaN are   *)
(* left out.                                                               *)
(***************************************************************************)
EXTENDS Integers, Sequences, FiniteSets, SequencesExt, BoolMask

CONSTANT MaxValue

Null == MaxValue + 1
PositiveInfinity == Null
NegativeInfinity == -1
Values == 0 .. MaxValue

(***************************************************************************)
(* Functions of one column, and what they report of their monotonicity.    *)
(***************************************************************************)

applyFunction(f, v) ==
    IF v = Null THEN Null
    ELSE CASE f = "div2" -> v \div 2
           [] f = "mod2" -> v % 2
           [] f = "neg"  -> MaxValue - v
           [] f = "hash" -> IF v = 1 THEN 0 ELSE 1

applyFunctions(fs, v) == FoldLeft(LAMBDA x, f : applyFunction(f, x), v, fs)

hasInformationAboutMonotonicity(f) == f # "hash"

isBound(v) == v \in {NegativeInfinity, PositiveInfinity}

isMonotonic(f, left, right) ==
    \/ f \in {"div2", "neg"}
    \/ (f = "mod2" /\ ~isBound(left) /\ ~isBound(right) /\ left \div 2 = right \div 2)

isAlwaysMonotonic(f) == f = "div2"
isPositive(f) == f # "neg"
isInjective(f) == f = "neg"

(***************************************************************************)
(* Ranges of values (Core/Range.h, which is not part of these sources).    *)
(***************************************************************************)
Between(l, li, r, ri) == [left |-> l, left_included |-> li, right |-> r, right_included |-> ri]
Point(v) == Between(v, TRUE, v, TRUE)
WholeUniverse(nullable) == Between(NegativeInfinity, nullable, PositiveInfinity, nullable)
createLeftBounded(v, included, nullable) ==
    Between(v, included, PositiveInfinity, nullable \/ (included /\ v = PositiveInfinity))
createRightBounded(v, included, nullable) ==
    Between(NegativeInfinity, nullable \/ (included /\ v = NegativeInfinity), v, included)

intersectsRange(r, s) ==
    /\ s.right > r.left \/ (s.right = r.left /\ r.left_included /\ s.right_included)
    /\ r.right > s.left \/ (r.right = s.left /\ r.right_included /\ s.left_included)

containsRange(r, s) ==
    /\ s.left > r.left \/ (s.left = r.left /\ (r.left_included \/ ~s.left_included))
    /\ s.right < r.right \/ (s.right = r.right /\ (r.right_included \/ ~s.right_included))

invert(r) ==
    Between(IF r.right = PositiveInfinity THEN NegativeInfinity ELSE r.right, r.right_included,
          IF r.left = NegativeInfinity THEN PositiveInfinity ELSE r.left, r.left_included)

(***************************************************************************)
(* Filters, and the value of a filter on a row: TRUE, FALSE or Null.       *)
(***************************************************************************)
Expr(col, functions) == [col |-> col, functions |-> functions]
Atom(rel, expr, const) == [op |-> "atom", rel |-> rel, expr |-> expr, const |-> const]
Conj(f, g) == [op |-> "and", args |-> <<f, g>>]
Disj(f, g) == [op |-> "or", args |-> <<f, g>>]
Neg(f) == [op |-> "not", args |-> <<f>>]

exprValue(e, row) == applyFunctions(e.functions, row[e.col])

holds(rel, v, c) ==
    CASE rel = "equals" -> v = c
      [] rel = "notEquals" -> v # c
      [] rel = "less" -> v < c
      [] rel = "greater" -> v > c
      [] rel = "lessOrEquals" -> v =< c
      [] rel = "greaterOrEquals" -> v >= c
      [] rel = "match" -> v = c
      [] rel = "other" -> (v + c) % 2 = 0

Truth == {"true", "false", "null"}
TruthOf(b) == IF b THEN "true" ELSE "false"

RECURSIVE eval(_, _)
eval(f, row) ==
    CASE f.op = "atom" ->
           LET v == exprValue(f.expr, row) IN
           CASE f.rel = "isNull" -> TruthOf(v = Null)
             [] f.rel = "isNotNull" -> TruthOf(v # Null)
             [] OTHER -> IF Null \in {v, f.const} THEN "null"
                         ELSE TruthOf(holds(f.rel, v, f.const))
      [] f.op = "not" ->
           LET v == eval(f.args[1], row)
           IN IF v = "null" THEN "null" ELSE TruthOf(v = "false")
      [] f.op = "and" ->
           LET vs == {eval(f.args[1], row), eval(f.args[2], row)}
           IN IF "false" \in vs THEN "false" ELSE IF "null" \in vs THEN "null" ELSE "true"
      [] f.op = "or" ->
           LET vs == {eval(f.args[1], row), eval(f.args[2], row)}
           IN IF "true" \in vs THEN "true" ELSE IF "null" \in vs THEN "null" ELSE "false"

matches(f, row) == eval(f, row) = "true"

(***************************************************************************)
(* The filter with NOT pushed down to the atoms, and into those that have  *)
(* an inverse.                                                             *)
(***************************************************************************)
inverse_relations ==
    [equals |-> "notEquals", notEquals |-> "equals",
     less |-> "greaterOrEquals", greaterOrEquals |-> "less",
     greater |-> "lessOrEquals", lessOrEquals |-> "greater",
     isNull |-> "isNotNull", isNotNull |-> "isNull"]

RECURSIVE cloneDAGWithInversionPushDown(_, _)
cloneDAGWithInversionPushDown(f, need_inversion) ==
    CASE f.op = "not" -> cloneDAGWithInversionPushDown(f.args[1], ~need_inversion)
      [] f.op \in {"and", "or"} ->
           [op |-> IF need_inversion THEN (IF f.op = "and" THEN "or" ELSE "and") ELSE f.op,
            args |-> [i \in 1 .. 2 |-> cloneDAGWithInversionPushDown(f.args[i], need_inversion)]]
      [] OTHER ->
           IF ~need_inversion THEN f
           ELSE IF f.rel \in DOMAIN inverse_relations
                THEN [f EXCEPT !.rel = inverse_relations[f.rel]] ELSE Neg(f)

(***************************************************************************)
(* Atoms as elements of the RPN. A key is a sequence of expressions.       *)
(***************************************************************************)
Element(function, column, r, chain, relaxed) ==
    [function |-> function, key_column |-> column, range |-> r, chain |-> chain,
     relaxed |-> relaxed]
Operator(function) == Element(function, 0, WholeUniverse(TRUE), <<>>, FALSE)

\* atom_map
atomElement(rel, column, c, chain, relaxed) ==
    CASE rel = "notEquals" -> Element("NOT_IN_RANGE", column, Point(c), chain, relaxed)
      [] rel = "equals" -> Element("IN_RANGE", column, Point(c), chain, relaxed)
      [] rel = "less" -> Element("IN_RANGE", column, createRightBounded(c, FALSE, FALSE), chain, relaxed)
      [] rel = "greater" -> Element("IN_RANGE", column, createLeftBounded(c, FALSE, FALSE), chain, relaxed)
      [] rel = "lessOrEquals" -> Element("IN_RANGE", column, createRightBounded(c, TRUE, FALSE), chain, relaxed)
      [] rel = "greaterOrEquals" -> Element("IN_RANGE", column, createLeftBounded(c, TRUE, FALSE), chain, relaxed)
      [] rel = "match" -> Element("IN_RANGE", column, Between(c, TRUE, c + 2, FALSE), chain, TRUE)
      [] rel = "isNull" -> Element("IS_NULL", column, WholeUniverse(FALSE), chain, relaxed)
      [] rel = "isNotNull" -> Element("IS_NOT_NULL", column, WholeUniverse(FALSE), chain, relaxed)

no_relaxed_atom_functions == {"notEquals"}

\* The key columns that compute part of an expression, the most of it first.
Inside(key, e) == {k \in DOMAIN key : key[k].col = e.col /\ IsPrefix(key[k].functions, e.functions)}
KeyInside(key, e) ==
    CHOOSE k \in Inside(key, e) :
        \A j \in Inside(key, e) : Len(key[j].functions) =< Len(key[k].functions)
Outside(key, e) == {k \in DOMAIN key : key[k].col = e.col /\ IsPrefix(e.functions, key[k].functions)}
Rest(long, short) == SubSeq(long, Len(short) + 1, Len(long))

isKeyPossiblyWrappedByMonotonicFunctions(key, e) ==
    /\ Inside(key, e) # {}
    /\ \A f \in ToSet(Rest(e.functions, key[KeyInside(key, e)].functions)) :
          hasInformationAboutMonotonicity(f)

\* Key columns that are always monotonic functions of the expression.
Monotonic(key, e) ==
    {k \in Outside(key, e) :
        \A f \in ToSet(Rest(key[k].functions, e.functions)) : isAlwaysMonotonic(f)}
isConst(v) == v # Null

\* A faulty variant: the comparison stays strict.
AsItIs(rel) == rel

weaken(rel) ==
    CASE rel = "less" -> "lessOrEquals" [] rel = "greater" -> "greaterOrEquals" [] OTHER -> rel

extractAtomFromTree(key, f) ==
    LET e == f.expr
        wrapped == isKeyPossiblyWrappedByMonotonicFunctions(key, e)
        first == CHOOSE k \in Monotonic(key, e) : \A j \in Monotonic(key, e) : k =< j
        outer == CHOOSE k \in Outside(key, e) : \A j \in Outside(key, e) : k =< j
        ofKey(k, rel, relaxed) ==
            LET functions == Rest(key[k].functions, e.functions)
            IN atomElement(rel, k, applyFunctions(functions, f.const), <<>>, relaxed)
        column == KeyInside(key, e)
    IN  CASE f.rel = "other" -> Operator("UNKNOWN")
          [] f.rel \in {"isNull", "isNotNull"} /\ ~wrapped -> Operator("UNKNOWN")
          [] f.rel \notin {"isNull", "isNotNull"} /\ ~isConst(f.const) -> Operator("ALWAYS_FALSE")
          [] wrapped ->
               atomElement(f.rel, column, f.const, Rest(e.functions, key[column].functions), FALSE)
          [] ~wrapped /\ f.rel \notin no_relaxed_atom_functions /\ Monotonic(key, e) # {} ->
               ofKey(first, weaken(f.rel), TRUE)
          [] ~wrapped /\ (f.rel \in no_relaxed_atom_functions \/ Monotonic(key, e) = {}) ->
               IF f.rel \in {"equals", "notEquals"} /\ Outside(key, e) # {}
               THEN ofKey(outer, f.rel,
                          ~\A g \in ToSet(Rest(key[outer].functions, e.functions)) : isInjective(g))
               ELSE Operator("UNKNOWN")

RECURSIVE traverseTree(_, _)
traverseTree(key, f) ==
    CASE f.op = "atom" -> <<extractAtomFromTree(key, f)>>
      [] f.op = "not" -> Append(traverseTree(key, f.args[1]), Operator("NOT"))
      [] f.op = "and" -> traverseTree(key, f.args[1]) \o traverseTree(key, f.args[2])
                            \o <<Operator("AND")>>
      [] f.op = "or"  -> traverseTree(key, f.args[1]) \o traverseTree(key, f.args[2])
                            \o <<Operator("OR")>>

buildRPN(key, f) == traverseTree(key, cloneDAGWithInversionPushDown(f, FALSE))

isRelaxed(rpn) == \E i \in DOMAIN rpn : rpn[i].relaxed \/ rpn[i].function = "UNKNOWN"

(***************************************************************************)
(* What the condition says of a hyperrectangle: one range per key column.  *)
(***************************************************************************)
NotMonotonic == Between(0, FALSE, 0, FALSE)

\* A bound that is infinite stays so; the other bounds become included.
applyToRange(r, f) ==
    IF r = NotMonotonic \/ ~isMonotonic(f, r.left, r.right) THEN NotMonotonic
    ELSE LET image == Between(IF isBound(r.left) THEN r.left ELSE applyFunction(f, r.left),
                            r.left_included \/ ~isBound(r.left),
                            IF isBound(r.right) THEN r.right ELSE applyFunction(f, r.right),
                            r.right_included \/ ~isBound(r.right))
         IN  IF isPositive(f) THEN image ELSE invert(image)

applyMonotonicFunctionsChainToRange(r, chain) == FoldLeft(applyToRange, r, chain)

rangeMask(element, r) ==
    Mask(intersectsRange(element.range, r), ~containsRange(element.range, r) \/ element.relaxed)

\* The mask of one atom. The range of isNull is not sent through the chain.
atomMask(element, hyperrectangle) ==
    LET r == hyperrectangle[element.key_column]
        image == applyMonotonicFunctionsChainToRange(r, element.chain)
    IN  CASE element.function = "UNKNOWN" -> Mask(TRUE, TRUE)
          [] element.function = "ALWAYS_FALSE" -> Mask(FALSE, TRUE)
          [] element.function \in {"IN_RANGE", "NOT_IN_RANGE"} /\ image = NotMonotonic -> Mask(TRUE, TRUE)
          [] element.function = "IN_RANGE" /\ image # NotMonotonic -> rangeMask(element, image)
          [] element.function = "NOT_IN_RANGE" /\ image # NotMonotonic -> Not(rangeMask(element, image))
          [] element.function = "IS_NOT_NULL" -> rangeMask(element, r)
          [] element.function = "IS_NULL" -> Not(rangeMask(element, r))

Pop(stack, n) == SubSeq(stack, 1, Len(stack) - n)
Top(stack, n) == stack[Len(stack) - n]

evaluate(stack, element, hyperrectangle) ==
    CASE element.function = "NOT" -> Append(Pop(stack, 1), Not(Top(stack, 0)))
      [] element.function = "AND" -> Append(Pop(stack, 2), And(Top(stack, 0), Top(stack, 1)))
      [] element.function = "OR"  -> Append(Pop(stack, 2), Or(Top(stack, 0), Top(stack, 1)))
      [] OTHER -> Append(stack, atomMask(element, hyperrectangle))

checkInHyperrectangle(rpn, hyperrectangle) ==
    FoldLeft(LAMBDA stack, element : evaluate(stack, element, hyperrectangle), <<>>, rpn)[1]

(***************************************************************************)
(* What it says of the keys between two keys: these are cut into           *)
(* hyperrectangles. Leaving early and the mask to start with only save     *)
(* work: a complete mask does not change any more.                         *)
(***************************************************************************)
bounded(left_bounded, l, included, right_bounded, r, nullable) ==
    IF left_bounded /\ right_bounded THEN Between(l, included, r, included)
    ELSE IF left_bounded THEN createLeftBounded(l, included, nullable)
    ELSE createRightBounded(r, included, nullable)

RECURSIVE forAnyHyperrectangle(_, _, _, _, _, _, _, _)
forAnyHyperrectangle(rpn, left, right, left_bounded, right_bounded, hyperrectangle, nullable, prefix) ==
    LET size == Len(left)
        i == prefix + 1
        set(r) == [hyperrectangle EXCEPT ![i] = r]
        between(included) ==
            bounded(left_bounded, left[i], included, right_bounded, right[i], nullable[i])
        open == [j \in 1 .. size |-> IF j = i THEN between(FALSE)
                                     ELSE IF j > i THEN WholeUniverse(nullable[j])
                                     ELSE hyperrectangle[j]]
    IN  IF prefix = size THEN checkInHyperrectangle(rpn, hyperrectangle)
        ELSE IF left_bounded /\ right_bounded /\ left[i] = right[i]
        THEN forAnyHyperrectangle(rpn, left, right, TRUE, TRUE, set(Point(left[i])), nullable, i)
        ELSE IF i = size THEN checkInHyperrectangle(rpn, set(between(TRUE)))
        ELSE combine(checkInHyperrectangle(rpn, open),
             combine(IF left_bounded
                     THEN forAnyHyperrectangle(rpn, left, right, TRUE, FALSE,
                                               set(Point(left[i])), nullable, i)
                     ELSE Mask(FALSE, FALSE),
                     IF right_bounded
                     THEN forAnyHyperrectangle(rpn, left, right, FALSE, TRUE,
                                               set(Point(right[i])), nullable, i)
                     ELSE Mask(FALSE, FALSE)))

checkInRange(rpn, left, right, nullable) ==
    forAnyHyperrectangle(rpn, left, right, TRUE, TRUE,
                         [i \in DOMAIN left |-> WholeUniverse(nullable[i])], nullable, 0)

(***************************************************************************)
(* Whether the condition is one continuous range of the key: points for    *)
(* some first columns, then at most one range.                             *)
(***************************************************************************)
POINT == 0
RANGE == 1
UNKNOWN == 2

AlwaysMonotonic(chain) == \A f \in ToSet(chain) : isAlwaysMonotonic(f)

\* None of the functions here is known to be strict, so a chain makes a range.
constraint(rpn, column) ==
    LET of == {i \in DOMAIN rpn : rpn[i].function = "IN_RANGE" /\ rpn[i].key_column = column}
    IN  IF \E i \in of : rpn[i].range.left = rpn[i].range.right /\ rpn[i].chain = <<>> THEN POINT
        ELSE IF of # {} THEN RANGE ELSE UNKNOWN

matchesExactContinuousRange(rpn, num_key_columns) ==
    /\ \A i \in DOMAIN rpn :
          \/ rpn[i].function \in {"AND", "UNKNOWN"}
          \/ (rpn[i].function = "IN_RANGE" /\ AlwaysMonotonic(rpn[i].chain))
    /\ constraint(rpn, 1) # UNKNOWN
    /\ \A i \in 2 .. num_key_columns :
          /\ constraint(rpn, i) >= constraint(rpn, i - 1)
          /\ ~(constraint(rpn, i) = RANGE /\ constraint(rpn, i - 1) = RANGE)

(***************************************************************************)
(* The other readings of the RPN, with booleans on the stack: a value for  *)
(* each element that is not an operator, and what NOT makes of a value.    *)
(***************************************************************************)
fold(rpn, value(_), negated(_)) ==
    FoldLeft(LAMBDA stack, i :
        CASE rpn[i].function = "NOT" -> Append(Pop(stack, 1), negated(Top(stack, 0)))
          [] rpn[i].function = "AND" -> Append(Pop(stack, 2), Top(stack, 0) /\ Top(stack, 1))
          [] rpn[i].function = "OR"  -> Append(Pop(stack, 2), Top(stack, 0) \/ Top(stack, 1))
          [] OTHER -> Append(stack, value(i)),
        <<>>, [i \in DOMAIN rpn |-> i])[1]

alwaysUnknownOrTrue(rpn) ==
    LET unknown(i) == rpn[i].function = "UNKNOWN"
        kept(b) == b
    IN fold(rpn, unknown, kept)

(* A skip index reports what it knows of the elements: after each one      *)
(* whether the top of the stack can be true, unless the element is         *)
(* unknown. The place it is reported at only counts the elements before it *)
(* that were not left early, for want of a monotonic chain.                *)
leftEarly(element, hyperrectangle) ==
    /\ element.function \in {"IN_RANGE", "NOT_IN_RANGE"}
    /\ applyMonotonicFunctionsChainToRange(hyperrectangle[element.key_column], element.chain) = NotMonotonic

update_partial_disjunction_result(rpn, hyperrectangle) ==
    LET reported == {i \in DOMAIN rpn : ~leftEarly(rpn[i], hyperrectangle)}
        top(i) == Last(FoldLeft(LAMBDA stack, element : evaluate(stack, element, hyperrectangle),
                                <<>>, SubSeq(rpn, 1, i)))
    IN  {[position |-> Cardinality({j \in reported : j =< i}), result |-> top(i).can_be_true] :
            i \in {j \in reported : rpn[j].function # "UNKNOWN"}}

\* A faulty variant of mayBeTrue: NOT is evaluated.
NegatedIndeed(rpn, no) ==
    LET value(i) == IF rpn[i].function = "UNKNOWN" THEN i \notin no ELSE FALSE
        negated(b) == ~b
    IN fold(rpn, value, negated)

\* mergePartialResultsForDisjunctions: "no" holds the positions known to be false.
mayBeTrue(rpn, no) ==
    LET value(i) == IF rpn[i].function = "UNKNOWN" THEN i \notin no ELSE FALSE
        negated(b) == TRUE
    IN fold(rpn, value, negated)

===============================================================================
