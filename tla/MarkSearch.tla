------------------------------ MODULE MarkSearch ------------------------------
(***************************************************************************)
(* MergeTreeDataSelectExecutor::markRangesFromPKRange: which marks of a    *)
(* part may hold rows that a query needs. The function only sees the       *)
(* outcome of check_in_range on ranges of marks; here that is a function,  *)
(* given with the other inputs. It is searched by excluding ranges, or, if *)
(* the condition selects one continuous range of the key, by bisection.    *)
(* One step is one iteration of a loop.                                    *)
(***************************************************************************)
EXTENDS Integers, Sequences, BoolMask

CONSTANT MaxMarks       \* bound on the marks of a part
ASSUME MaxMarksAssumption == MaxMarks \in Nat

AllMarks == 0 .. MaxMarks - 1

\* A range holds the marks from begin up to, but without, end.
MarkRange == {r \in [begin : 0 .. MaxMarks, end : 0 .. MaxMarks] : r.begin < r.end}

MarksIn(r) == r.begin .. r.end - 1
MarksOf(s) == UNION {MarksIn(s[i]) : i \in DOMAIN s}

\* assertSortedAndNonIntersecting
Sorted(s) == \A i, j \in DOMAIN s : i < j => s[i].end =< s[j].begin

(* What the search is given: the ranges still of interest, the outcome of  *)
(* check_in_range, whether exact ranges are wanted, whether the condition  *)
(* matches one continuous range, and two settings. "matching" and "full"   *)
(* are only mentioned by properties: the marks with a row that matches,    *)
(* and those all of whose rows match.                                      *)
Inputs == [ranges : Seq(MarkRange), check : [MarkRange -> BoolMasks],
           find_exact : BOOLEAN, continuous : BOOLEAN,
           coarse_index_granularity : Nat \ {0, 1}, min_marks_for_seek : Nat,
           matching : SUBSET AllMarks, full : SUBSET AllMarks]

\* check_in_range misses no matching mark and, if it matters, no mark that is not full.
SoundCheck(in) ==
    \A r \in DOMAIN in.check :
        Sound(in.check[r], MarksIn(r), in.matching, IF in.find_exact THEN AllMarks \ in.full ELSE {})

Phases == {"search", "exclude", "split", "left", "right", "found"}
NoRange == [begin |-> 0, end |-> 0]

VARIABLES
    input,          \* the arguments of the call
    phase,
    todo,           \* the ranges of the part not begun yet
    ranges_stack,   \* suspicious ranges, the leftmost one at the end
    range,          \* the range at hand: being split, or being bisected
    step,           \* the size of the pieces it is split into
    searched,       \* searched_left and searched_right
    res,            \* the result
    exact_ranges

searchVars == <<input, phase, todo, ranges_stack, range, step, searched, res, exact_ranges>>

SearchInit(in) ==
    /\ input = in
    /\ phase = "search"
    /\ todo = in.ranges
    /\ ranges_stack = <<>>
    /\ range = NoRange
    /\ step = 1
    /\ searched = [left |-> 0, right |-> 0]
    /\ res = <<>>
    /\ exact_ranges = <<>>

(***************************************************************************)
(* Exclusion search.                                                       *)
(***************************************************************************)
last(s) == s[Len(s)]
pop(s) == SubSeq(s, 1, Len(s) - 1)

\* A faulty variant: every gap is bridged.
pushOverGap(s, r) ==
    IF s = <<>> THEN Append(s, r) ELSE [s EXCEPT ![Len(s)].end = r.end]

\* Adds a range to a result, bridging a gap that is not worth a seek.
push(s, r) ==
    IF s = <<>> \/ r.begin - last(s).end > input.min_marks_for_seek
    THEN Append(s, r)
    ELSE [s EXCEPT ![Len(s)].end = r.end]

TakeRange ==
    /\ phase = "search"
    /\ ~input.continuous
    /\ todo # <<>>
    /\ ranges_stack' = <<Head(todo)>>
    /\ todo' = Tail(todo)
    /\ phase' = "exclude"
    /\ UNCHANGED <<input, range, step, searched, res, exact_ranges>>

Discard ==
    /\ phase = "exclude"
    /\ ranges_stack # <<>>
    /\ ~input.check[last(ranges_stack)].can_be_true
    /\ ranges_stack' = pop(ranges_stack)
    /\ UNCHANGED <<input, phase, todo, range, step, searched, res, exact_ranges>>

AddMark ==
    /\ phase = "exclude"
    /\ ranges_stack # <<>>
    /\ LET r == last(ranges_stack) IN
        /\ input.check[r].can_be_true
        /\ r.end = r.begin + 1
        /\ res' = push(res, r)
        /\ exact_ranges' = IF input.find_exact /\ ~input.check[r].can_be_false
                           THEN push(exact_ranges, r) ELSE exact_ranges
    /\ ranges_stack' = pop(ranges_stack)
    /\ UNCHANGED <<input, phase, todo, range, step, searched>>

Split ==
    /\ phase = "exclude"
    /\ ranges_stack # <<>>
    /\ LET r == last(ranges_stack) IN
        /\ input.check[r].can_be_true
        /\ r.end # r.begin + 1
        /\ range' = r
        /\ step' = (r.end - r.begin - 1) \div input.coarse_index_granularity + 1
    /\ ranges_stack' = pop(ranges_stack)
    /\ phase' = "split"
    /\ UNCHANGED <<input, todo, searched, res, exact_ranges>>

\* A piece from the right end, and the rest when no more than one is left.
PushPiece ==
    /\ phase = "split"
    /\ range.end > range.begin + step
    /\ ranges_stack' = Append(ranges_stack, [begin |-> range.end - step, end |-> range.end])
    /\ range' = [range EXCEPT !.end = @ - step]
    /\ UNCHANGED <<input, phase, todo, step, searched, res, exact_ranges>>

PushRest ==
    /\ phase = "split"
    /\ range.end =< range.begin + step
    /\ ranges_stack' = Append(ranges_stack, range)
    /\ phase' = "exclude"
    /\ UNCHANGED <<input, todo, range, step, searched, res, exact_ranges>>

RangeDone ==
    /\ phase = "exclude"
    /\ ranges_stack = <<>>
    /\ phase' = "search"
    /\ UNCHANGED <<input, todo, ranges_stack, range, step, searched, res, exact_ranges>>

(***************************************************************************)
(* Binary search: the leftmost mark first, then the rightmost one.         *)
(***************************************************************************)
StartLeft ==
    /\ phase = "search"
    /\ input.continuous
    /\ todo # <<>>
    /\ range' = Head(todo)
    /\ todo' = Tail(todo)
    /\ searched' = [left |-> Head(todo).begin, right |-> Head(todo).end + 1]
    /\ phase' = "left"
    /\ UNCHANGED <<input, ranges_stack, step, res, exact_ranges>>

Middle == (searched.left + searched.right) \div 2

\* Every range from the start of the part is looked at, as in the code.
StepLeft ==
    /\ phase = "left"
    /\ searched.left + 1 < searched.right
    /\ searched' = IF input.check[[begin |-> 0, end |-> Middle]].can_be_true
                   THEN [searched EXCEPT !.right = Middle]
                   ELSE [searched EXCEPT !.left = Middle]
    /\ UNCHANGED <<input, phase, todo, ranges_stack, range, step, res, exact_ranges>>

\* range.begin becomes result_range.begin, range.end stays part_range.end.
StartRight ==
    /\ phase = "left"
    /\ searched.left + 1 >= searched.right
    /\ range' = [range EXCEPT !.begin = searched.left]
    /\ searched' = [searched EXCEPT !.right = range.end]
    /\ phase' = "right"
    /\ UNCHANGED <<input, todo, ranges_stack, step, res, exact_ranges>>

StepRight ==
    /\ phase = "right"
    /\ searched.left + 1 < searched.right
    /\ searched' = IF input.check[[begin |-> Middle, end |-> range.end]].can_be_true
                   THEN [searched EXCEPT !.left = Middle]
                   ELSE [searched EXCEPT !.right = Middle]
    /\ UNCHANGED <<input, phase, todo, ranges_stack, range, step, res, exact_ranges>>

canBeFalse(b, e) == b < e => input.check[[begin |-> b, end |-> e]].can_be_false

\* The result without a first and a last mark that are not known to match.
ExactBegin(r) ==
    IF canBeFalse(r.begin, r.begin + 1) THEN r.begin + 1 ELSE r.begin
ExactEnd(b, e) == IF b < e /\ canBeFalse(e - 1, e) THEN e - 1 ELSE e

AddRange ==
    /\ phase = "right"
    /\ searched.left + 1 >= searched.right
    /\ LET found == [begin |-> range.begin, end |-> searched.right]
           b == ExactBegin(found)
           e == ExactEnd(b, found.end)
       IN
        /\ res' = IF found.begin < found.end THEN Append(res, found) ELSE res
        /\ exact_ranges' =
             IF found.begin < found.end /\ input.find_exact /\ ~canBeFalse(b, e)
             THEN Append(exact_ranges, [begin |-> b, end |-> e]) ELSE exact_ranges
    /\ phase' = "search"
    /\ UNCHANGED <<input, todo, ranges_stack, range, step, searched>>

Found ==
    /\ phase = "search"
    /\ todo = <<>>
    /\ phase' = "found"
    /\ UNCHANGED <<input, todo, ranges_stack, range, step, searched, res, exact_ranges>>

SearchNext ==
    \/ TakeRange \/ Discard \/ AddMark \/ Split \/ PushPiece \/ PushRest \/ RangeDone
    \/ StartLeft \/ StepLeft \/ StartRight \/ StepRight \/ AddRange
    \/ Found

===============================================================================
