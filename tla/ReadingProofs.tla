--------------------------- MODULE ReadingProofs ---------------------------
EXTENDS MarkSearch, ParallelReading, SequenceTheorems, FiniteSetTheorems, TLAPS

(***************************************************************************)
(* The operators of BoolMask.h keep a mask sound: if the masks of the      *)
(* arguments miss nothing, neither does the mask of the result. Rows where *)
(* a condition is Null are neither in T nor in F.                          *)
(***************************************************************************)
(* operator& for AND: true where both arguments are, false where one is.   *)
THEOREM AndSound ==
    ASSUME NEW m \in BoolMasks, NEW n \in BoolMasks, NEW rows,
           NEW T1, NEW F1, NEW T2, NEW F2,
           Sound(m, rows, T1, F1), Sound(n, rows, T2, F2)
    PROVE  Sound(And(m, n), rows, T1 \cap T2, F1 \cup F2)
  BY DEF Sound, And, Mask, BoolMasks

(* operator| for OR: true where one argument is, false where both are.     *)
THEOREM OrSound ==
    ASSUME NEW m \in BoolMasks, NEW n \in BoolMasks, NEW rows,
           NEW T1, NEW F1, NEW T2, NEW F2,
           Sound(m, rows, T1, F1), Sound(n, rows, T2, F2)
    PROVE  Sound(Or(m, n), rows, T1 \cup T2, F1 \cap F2)
  BY DEF Sound, Or, Mask, BoolMasks

(* operator! for NOT. It needs both halves of the mask: with a mask that   *)
(* only tells what can be true, as that of a relaxed atom without its flag,*)
(* the result would miss rows.                                             *)
THEOREM NotSound ==
    ASSUME NEW m \in BoolMasks, NEW rows, NEW T, NEW F,
           Sound(m, rows, T, F)
    PROVE  Sound(Not(m), rows, F, T)
  BY DEF Sound, Not, Mask, BoolMasks

(* combine, with which forAnyHyperrectangle puts together what it knows of *)
(* the hyperrectangles that a range of keys is cut into.                   *)
THEOREM CombineSound ==
    ASSUME NEW m \in BoolMasks, NEW n \in BoolMasks, NEW rows1, NEW rows2,
           NEW T, NEW F,
           Sound(m, rows1, T, F), Sound(n, rows2, T, F)
    PROVE  Sound(combine(m, n), rows1 \cup rows2, T, F)
  BY DEF Sound, combine, Mask, BoolMasks

(* isComplete: a complete mask is sound for any rows and stays complete,   *)
(* so that forAnyHyperrectangle may stop at one.                           *)
THEOREM CompleteSound ==
    ASSUME NEW m \in BoolMasks, NEW n \in BoolMasks, isComplete(m)
    PROVE  /\ combine(m, n) = m
           /\ \A rows, T, F : Sound(m, rows, T, F)
  BY DEF Sound, combine, isComplete, Mask, BoolMasks

-----------------------------------------------------------------------------
(***************************************************************************)
(* The searches                                                            *)
(***************************************************************************)

USE MaxMarksAssumption

Bound == 0 .. MaxMarks
Spans == {r \in [begin : Bound, end : Bound] : r.begin <= r.end}

(***************************************************************************)
(* Lemmas on sequences of ranges                                           *)
(***************************************************************************)
LEMMA RangesAreSpans ==
    /\ MarkRange \subseteq Spans
    /\ \A r \in MarkRange : r.begin \in Nat /\ r.end \in Nat /\ r.begin < r.end /\ r.end <= MaxMarks
    /\ \A s \in Seq(MarkRange) : s \in Seq(Spans)
  <1>1. MarkRange \subseteq Spans
    BY DEF MarkRange, Spans, Bound
  <1>2. \A r \in MarkRange : r.begin \in Nat /\ r.end \in Nat /\ r.begin < r.end /\ r.end <= MaxMarks
    BY DEF MarkRange
  <1>3. \A s \in Seq(MarkRange) : s \in Seq(Spans)
    BY <1>1, SeqMonotonic
  <1> QED
    BY <1>1, <1>2, <1>3

(* A mark is in a sequence of ranges if it is in one of them.              *)
LEMMA InMarksOf ==
    ASSUME NEW s \in Seq(Spans), NEW m
    PROVE  /\ m \in MarksOf(s) <=> \E i \in 1 .. Len(s) : m \in MarksIn(s[i])
           /\ \A i \in 1 .. Len(s) : m \in MarksIn(s[i]) => m \in MarksOf(s)
  BY DEF MarksOf

LEMMA AppendMarks ==
    ASSUME NEW s \in Seq(Spans), NEW r \in Spans
    PROVE  /\ Append(s, r) \in Seq(Spans)
           /\ MarksOf(Append(s, r)) = MarksOf(s) \cup MarksIn(r)
  <1>1. /\ Append(s, r) \in Seq(Spans)
        /\ Len(Append(s, r)) = Len(s) + 1
        /\ \A i \in 1 .. Len(s) : Append(s, r)[i] = s[i]
        /\ Append(s, r)[Len(s) + 1] = r
        /\ Len(s) \in Nat
    BY AppendProperties, LenProperties
  <1>2. ASSUME NEW m
        PROVE  m \in MarksOf(Append(s, r)) <=> m \in MarksOf(s) \/ m \in MarksIn(r)
    <2>1. CASE m \in MarksOf(Append(s, r))
      <3>1. PICK i \in 1 .. Len(s) + 1 : m \in MarksIn(Append(s, r)[i])
        BY <1>1, <2>1, InMarksOf
      <3>2. i \in 1 .. Len(s) \/ i = Len(s) + 1
        BY <1>1
      <3> QED
        BY <1>1, <2>1, <3>1, <3>2, InMarksOf
    <2>2. CASE m \in MarksOf(s)
      <3>1. PICK i \in 1 .. Len(s) : m \in MarksIn(s[i])
        BY <2>2, InMarksOf
      <3>2. i \in 1 .. Len(Append(s, r)) /\ Append(s, r)[i] = s[i]
        BY <1>1
      <3> QED
        BY <1>1, <2>2, <3>1, <3>2, InMarksOf
    <2>3. CASE m \in MarksIn(r)
      <3>1. Len(s) + 1 \in 1 .. Len(Append(s, r))
        BY <1>1
      <3> QED
        BY <1>1, <2>3, <3>1, InMarksOf
    <2> QED
      BY <2>1, <2>2, <2>3
  <1> QED
    BY <1>1, <1>2

LEMMA PopMarks ==
    ASSUME NEW S, S \subseteq Spans, NEW s \in Seq(S), s # <<>>
    PROVE  /\ pop(s) \in Seq(S)
           /\ Len(s) \in Nat \ {0} /\ Len(pop(s)) = Len(s) - 1
           /\ \A i \in 1 .. Len(s) - 1 : pop(s)[i] = s[i]
           /\ last(s) \in S
           /\ MarksOf(s) = MarksOf(pop(s)) \cup MarksIn(last(s))
  <1>1. Len(s) \in Nat \ {0} /\ \A i \in 1 .. Len(s) : s[i] \in S
    BY EmptySeq, ElementOfSeq
  <1>2. /\ pop(s) \in Seq(S) /\ Len(pop(s)) = Len(s) - 1
        /\ \A i \in 1 .. Len(s) - 1 : pop(s)[i] = s[i]
    <2>1. 1 \in Int /\ Len(s) - 1 \in Int /\ \A i \in 1 .. Len(s) - 1 : s[i] \in S
      BY <1>1
    <2>2. /\ pop(s) \in Seq(S) /\ Len(pop(s)) = IF 1 <= Len(s) - 1 THEN Len(s) - 1 - 1 + 1 ELSE 0
          /\ \A i \in 1 .. Len(s) - 1 - 1 + 1 : pop(s)[i] = s[1 + i - 1]
      BY <2>1, SubSeqProperties DEF pop
    <2>3. Len(s) - 1 - 1 + 1 = Len(s) - 1 /\ \A i \in 1 .. Len(s) - 1 : 1 + i - 1 = i
      BY <1>1
    <2>4. Len(pop(s)) = Len(s) - 1
      <3> DEFINE n == Len(s)
      <3>1. Len(pop(s)) = (IF 1 <= n - 1 THEN n - 1 - 1 + 1 ELSE 0) /\ n \in Nat \ {0}
        BY <1>1, <2>2
      <3> HIDE DEF n
      <3>2. Len(pop(s)) = n - 1
        BY <3>1
      <3> QED
        BY <3>2 DEF n
    <2> QED
      BY <2>2, <2>3, <2>4
  <1>3. last(s) \in S
    BY <1>1 DEF last
  <1>4. s \in Seq(Spans) /\ pop(s) \in Seq(Spans)
    BY <1>2, SeqMonotonic
  <1>5. ASSUME NEW m
        PROVE  m \in MarksOf(s) <=> m \in MarksOf(pop(s)) \/ m \in MarksIn(last(s))
    BY <1>1, <1>2, <1>4, InMarksOf DEF last
  <1> QED
    BY <1>1, <1>2, <1>3, <1>5

LEMMA TailMarks ==
    ASSUME NEW s \in Seq(MarkRange), s # <<>>
    PROVE  /\ Head(s) \in MarkRange /\ Tail(s) \in Seq(MarkRange)
           /\ Head(s) = s[1] /\ Len(s) \in Nat \ {0}
           /\ Len(Tail(s)) = Len(s) - 1 /\ \A i \in 1 .. Len(s) - 1 : Tail(s)[i] = s[i + 1]
           /\ MarksOf(s) = MarksIn(Head(s)) \cup MarksOf(Tail(s))
  <1>1. /\ Head(s) \in MarkRange /\ Tail(s) \in Seq(MarkRange)
        /\ Head(s) = s[1] /\ Len(s) \in Nat \ {0}
        /\ Len(Tail(s)) = Len(s) - 1 /\ \A i \in 1 .. Len(s) - 1 : Tail(s)[i] = s[i + 1]
    BY EmptySeq, HeadTailProperties
  <1>2. s \in Seq(Spans) /\ Tail(s) \in Seq(Spans)
    BY <1>1, RangesAreSpans
  <1>3. ASSUME NEW m
        PROVE  m \in MarksOf(s) <=> m \in MarksIn(Head(s)) \/ m \in MarksOf(Tail(s))
    <2>1. ASSUME NEW i \in 1 .. Len(s)
          PROVE  i = 1 \/ (i - 1 \in 1 .. Len(s) - 1 /\ Tail(s)[i - 1] = s[i])
      BY <1>1
    <2>2. ASSUME NEW i \in 1 .. Len(s) - 1
          PROVE  i + 1 \in 1 .. Len(s) /\ Tail(s)[i] = s[i + 1]
      BY <1>1
    <2>3. CASE m \in MarksOf(s)
      <3>1. PICK i \in 1 .. Len(s) : m \in MarksIn(s[i])
        BY <1>2, <2>3, InMarksOf
      <3> QED
        BY <1>1, <1>2, <2>1, <2>3, <3>1, InMarksOf
    <2>4. CASE m \in MarksOf(Tail(s))
      <3>1. PICK i \in 1 .. Len(s) - 1 : m \in MarksIn(Tail(s)[i])
        BY <1>1, <1>2, <2>4, InMarksOf
      <3>2. m \in MarksOf(s)
        BY <1>2, <2>2, <3>1, InMarksOf
      <3> QED
        BY <2>4, <3>2
    <2>5. CASE m \in MarksIn(Head(s))
      <3>1. 1 \in 1 .. Len(s)
        BY <1>1
      <3> QED
        BY <1>1, <1>2, <2>5, <3>1, InMarksOf
    <2> QED
      BY <2>3, <2>4, <2>5
  <1> QED
    BY <1>1, <1>3

(* push keeps what was found and adds the range; without a setting that    *)
(* lets it bridge gaps it adds nothing else.                               *)
LEMMA PushMarks ==
    ASSUME NEW s \in Seq(Spans), NEW r \in MarkRange,
           input.min_marks_for_seek \in Nat,
           s # <<>> => last(s).end <= r.begin
    PROVE  /\ push(s, r) \in Seq(Spans) /\ push(s, r) # <<>>
           /\ last(push(s, r)).end = r.end
           /\ MarksOf(s) \cup MarksIn(r) \subseteq MarksOf(push(s, r))
           /\ input.min_marks_for_seek = 0 =>
                 MarksOf(push(s, r)) = MarksOf(s) \cup MarksIn(r)
  <1>1. r \in Spans /\ r.begin \in Nat /\ r.end \in Nat /\ r.begin < r.end
    BY RangesAreSpans
  <1>2. CASE s = <<>> \/ r.begin - last(s).end > input.min_marks_for_seek
    <2>1. push(s, r) = Append(s, r)
      BY <1>2 DEF push
    <2>2. Len(Append(s, r)) = Len(s) + 1 /\ Append(s, r)[Len(s) + 1] = r /\ Append(s, r) # <<>>
      BY <1>1, AppendProperties
    <2> QED
      BY <1>1, <2>1, <2>2, AppendMarks DEF last
  <1>3. CASE ~(s = <<>> \/ r.begin - last(s).end > input.min_marks_for_seek)
    <2> DEFINE n == Len(s)
               l == last(s)
               u == [l EXCEPT !.end = r.end]
               t == [s EXCEPT ![n] = u]
    <2>1. n \in Nat \ {0} /\ n \in 1 .. n /\ l \in Spans /\ l = s[n]
      BY <1>3, PopMarks DEF last
    <2>2. /\ l.begin \in Nat /\ l.end \in Nat /\ l.begin <= l.end /\ l.end <= r.begin
          /\ r.begin - l.end <= input.min_marks_for_seek
      BY <1>1, <1>3, <2>1 DEF Spans, Bound
    <2>3. u \in Spans /\ u.begin = l.begin /\ u.end = r.end
      BY <1>1, <2>1, <2>2 DEF Spans, Bound
    <2>4. push(s, r) = t
      BY <1>3, <2>1 DEF push, last
    <2>5. /\ t \in Seq(Spans) /\ Len(t) = n
          /\ \A i \in 1 .. n : t[i] = IF i = n THEN u ELSE s[i]
      BY <2>1, <2>3, ExceptSeq
    <2>6. last(t) = u /\ t # <<>>
      BY <2>1, <2>5, EmptySeq DEF last
    <2>7. MarksIn(l) \cup MarksIn(r) \subseteq MarksIn(u)
      BY <1>1, <2>2, <2>3 DEF MarksIn
    <2>8. input.min_marks_for_seek = 0 => MarksIn(u) = MarksIn(l) \cup MarksIn(r)
      BY <1>1, <2>2, <2>3 DEF MarksIn
    <2>9. ASSUME NEW m \in MarksOf(s) \cup MarksIn(r)
          PROVE  m \in MarksOf(t)
      <3>1. CASE m \in MarksOf(s)
        <4>1. PICK i \in 1 .. n : m \in MarksIn(s[i])
          BY <3>1, InMarksOf
        <4>2. m \in MarksIn(t[i])
          BY <2>1, <2>5, <2>7, <4>1
        <4> QED
          BY <2>5, <4>2, InMarksOf
      <3>2. CASE m \in MarksIn(r)
        BY <2>1, <2>5, <2>7, <3>2, InMarksOf
      <3> QED
        BY <3>1, <3>2
    <2>10. ASSUME input.min_marks_for_seek = 0, NEW m \in MarksOf(t)
           PROVE  m \in MarksOf(s) \cup MarksIn(r)
      <3>1. PICK i \in 1 .. n : m \in MarksIn(t[i])
        BY <2>5, InMarksOf
      <3>2. m \in MarksIn(s[i]) \/ m \in MarksIn(r)
        BY <2>1, <2>5, <2>8, <2>10, <3>1
      <3> QED
        BY <3>2, InMarksOf
    <2> QED
      BY <2>3, <2>4, <2>5, <2>6, <2>9, <2>10
  <1> QED
    BY <1>2, <1>3

(***************************************************************************)
(* The invariant                                                           *)
(***************************************************************************)

\* The marks of the range at hand that may still become part of the result.
Current ==
    IF phase = "split" THEN MarksIn(range)
    ELSE IF phase = "left" THEN searched.left .. range.end - 1
    ELSE IF phase = "right" THEN range.begin .. searched.right - 1
    ELSE {}

\* A result ends where what is still to be looked at begins, or before.
Behind(s) ==
    s # <<>> =>
        /\ \A k \in 1 .. Len(todo) : last(s).end <= todo[k].begin
        /\ \A i \in 1 .. Len(ranges_stack) : last(s).end <= ranges_stack[i].begin
        /\ phase = "split" => last(s).end <= range.begin

Types(in) ==
    /\ input = in
    /\ phase \in Phases
    /\ todo \in Seq(MarkRange)
    /\ ranges_stack \in Seq(MarkRange)
    /\ range \in Spans
    /\ step \in Nat \ {0}
    /\ searched \in [left : Nat, right : Nat]
    /\ res \in Seq(Spans)
    /\ exact_ranges \in Seq(Spans)

\* Where each search stands.
Shape(in) ==
    /\ phase \in {"exclude", "split"} => ~in.continuous
    /\ phase \in {"left", "right"} => in.continuous
    /\ phase = "found" => todo = <<>>
    /\ phase \notin {"exclude", "split"} => ranges_stack = <<>>
    /\ phase = "split" => range \in MarkRange
    /\ phase = "left" =>
          /\ range \in MarkRange
          /\ range.begin <= searched.left /\ searched.left < searched.right
          /\ searched.right <= range.end + 1
    /\ phase = "right" =>
          /\ range.begin <= searched.left /\ searched.left <= searched.right
          /\ searched.right <= range.end

\* "There will always be disjoint suspicious segments on the stack, the leftmost
\* one at the top": they and all else are in order.
Order(in) ==
    /\ Sorted(todo)
    /\ \A i, j \in 1 .. Len(ranges_stack) : i < j => ranges_stack[j].end <= ranges_stack[i].begin
    /\ \A i \in 1 .. Len(ranges_stack), k \in 1 .. Len(todo) :
          ranges_stack[i].end <= todo[k].begin
    /\ phase = "split" =>
          /\ \A i \in 1 .. Len(ranges_stack) : range.end <= ranges_stack[i].begin
          /\ \A k \in 1 .. Len(todo) : range.end <= todo[k].begin
    /\ ~in.continuous => Behind(res) /\ Behind(exact_ranges)

\* No matching mark gets lost on the way.
Covered(in) ==
    in.matching \cap MarksOf(in.ranges) \subseteq
        MarksOf(res) \cup MarksOf(todo) \cup MarksOf(ranges_stack) \cup Current

\* Exact ranges hold full marks, unless gaps may be bridged.
ExactFull(in) ==
    in.continuous \/ in.min_marks_for_seek = 0 => MarksOf(exact_ranges) \subseteq in.full

IInv(in) == Types(in) /\ Shape(in) /\ Order(in) /\ Covered(in) /\ ExactFull(in)

(***************************************************************************)
(* What a sound check_in_range tells                                       *)
(***************************************************************************)
LEMMA NothingThere ==
    ASSUME NEW in \in Inputs, SoundCheck(in), NEW r \in MarkRange, ~in.check[r].can_be_true
    PROVE  MarksIn(r) \cap in.matching = {}
  <1>1. DOMAIN in.check = MarkRange
    BY DEF Inputs
  <1> QED
    BY <1>1 DEF SoundCheck, Sound

LEMMA AllFull ==
    ASSUME NEW in \in Inputs, SoundCheck(in), NEW r \in MarkRange,
           in.find_exact, ~in.check[r].can_be_false
    PROVE  MarksIn(r) \subseteq in.full
  <1>1. DOMAIN in.check = MarkRange
    BY DEF Inputs
  <1>2. MarksIn(r) \cap (AllMarks \ in.full) = {}
    BY <1>1 DEF SoundCheck, Sound
  <1>3. MarksIn(r) \subseteq AllMarks
    BY RangesAreSpans DEF MarksIn, AllMarks
  <1> QED
    BY <1>2, <1>3

LEMMA EmptyMarks == MarksOf(<<>>) = {} /\ Sorted(<<>>)
  BY DEF MarksOf, Sorted

LEMMA SearchInitInv ==
    ASSUME NEW in \in Inputs, Sorted(in.ranges), SearchInit(in)
    PROVE  IInv(in)
  <1>1. NoRange \in Spans /\ <<>> \in Seq(Spans) /\ <<>> \in Seq(MarkRange) /\ Len(<<>>) = 0
    BY EmptySeq DEF NoRange, Spans, Bound
  <1>2. in.ranges \in Seq(MarkRange)
    BY DEF Inputs
  <1>3. Types(in)
    BY <1>1, <1>2 DEF Types, SearchInit, Phases
  <1>4. Shape(in)
    BY DEF Shape, SearchInit
  <1>5. Order(in)
    BY <1>1 DEF Order, Behind, SearchInit
  <1>6. Covered(in) /\ ExactFull(in)
    BY EmptyMarks DEF Covered, ExactFull, SearchInit
  <1> QED
    BY <1>3, <1>4, <1>5, <1>6 DEF IInv

(***************************************************************************)
(* The steps of the exclusion search                                       *)
(***************************************************************************)
LEMMA TakeRangeInv ==
    ASSUME NEW in \in Inputs, IInv(in), TakeRange
    PROVE  IInv(in)'
  <1>1. todo \in Seq(MarkRange) /\ todo # <<>>
    BY DEF IInv, Types, TakeRange
  <1>2. /\ Head(todo) \in MarkRange /\ Tail(todo) \in Seq(MarkRange)
        /\ Head(todo) = todo[1] /\ Len(todo) \in Nat \ {0}
        /\ Len(Tail(todo)) = Len(todo) - 1
        /\ \A i \in 1 .. Len(todo) - 1 : Tail(todo)[i] = todo[i + 1]
        /\ MarksOf(todo) = MarksIn(Head(todo)) \cup MarksOf(Tail(todo))
    BY <1>1, TailMarks
  <1>3. /\ <<Head(todo)>> \in Seq(MarkRange) /\ Len(<<Head(todo)>>) = 1
        /\ <<Head(todo)>>[1] = Head(todo)
    BY <1>2
  <1>4. MarksOf(<<Head(todo)>>) = MarksIn(Head(todo))
    BY <1>3 DEF MarksOf
  <1>5. Types(in)'
    BY <1>2, <1>3 DEF IInv, Types, TakeRange, Phases
  <1>6. Shape(in)'
    BY DEF IInv, Types, Shape, TakeRange
  <1>7. /\ Sorted(Tail(todo))
        /\ \A k \in 1 .. Len(Tail(todo)) : Head(todo).end <= Tail(todo)[k].begin
    <2>1. \A i, j \in 1 .. Len(todo) : i < j => todo[i].end <= todo[j].begin
      BY <1>1 DEF IInv, Order, Sorted
    <2>2. DOMAIN Tail(todo) = 1 .. Len(todo) - 1
      BY <1>2
    <2>3. \A k \in 1 .. Len(todo) - 1 : k + 1 \in 1 .. Len(todo) /\ 1 < k + 1 /\ 1 \in 1 .. Len(todo)
      BY <1>2
    <2>4. \A i, j \in 1 .. Len(todo) - 1 : i < j => i + 1 < j + 1
      OBVIOUS
    <2>5. ASSUME NEW i \in 1 .. Len(todo) - 1, NEW j \in 1 .. Len(todo) - 1, i < j
          PROVE  Tail(todo)[i].end <= Tail(todo)[j].begin
      BY <1>2, <2>1, <2>3, <2>4, <2>5
    <2>6. ASSUME NEW k \in 1 .. Len(todo) - 1
          PROVE  Head(todo).end <= Tail(todo)[k].begin
      BY <1>2, <2>1, <2>3
    <2> QED
      BY <1>2, <2>2, <2>5, <2>6 DEF Sorted
  <1>8. ASSUME NEW s, ~in.continuous, Behind(s) PROVE Behind(s)'
    <2>1. ASSUME s # <<>>
          PROVE  /\ \A k \in 1 .. Len(Tail(todo)) : last(s).end <= Tail(todo)[k].begin
                 /\ last(s).end <= Head(todo).begin
      <3>1. \A k \in 1 .. Len(todo) : last(s).end <= todo[k].begin
        BY <1>8, <2>1 DEF Behind
      <3>2. \A k \in 1 .. Len(todo) - 1 : k + 1 \in 1 .. Len(todo) /\ 1 \in 1 .. Len(todo)
        BY <1>2
      <3> QED
        BY <1>2, <3>1, <3>2
    <2> QED
      BY <1>3, <2>1 DEF Behind, TakeRange, last
  <1>9. Order(in)'
    <2>1. /\ todo' = Tail(todo) /\ ranges_stack' = <<Head(todo)>> /\ phase' = "exclude"
          /\ res' = res /\ exact_ranges' = exact_ranges
      BY DEF TakeRange
    <2>2. ~in.continuous => Behind(res)' /\ Behind(exact_ranges)'
      BY <1>8, <2>1 DEF IInv, Order, Behind
    <2> QED
      BY <1>3, <1>7, <2>1, <2>2 DEF Order
  <1>10. Covered(in)'
    <2>1. ranges_stack = <<>> /\ Current = {}
      BY DEF IInv, Shape, TakeRange, Current
    <2>2. in.matching \cap MarksOf(in.ranges) \subseteq
            MarksOf(res) \cup MarksOf(<<Head(todo)>>) \cup MarksOf(Tail(todo))
      BY <1>2, <1>4, <2>1, EmptyMarks DEF IInv, Covered
    <2> QED
      BY <2>2 DEF Covered, TakeRange
  <1>11. ExactFull(in)'
    BY DEF IInv, ExactFull, TakeRange
  <1> QED
    BY <1>5, <1>6, <1>9, <1>10, <1>11 DEF IInv

(* The range on top of the stack lies before the others and before what    *)
(* is not begun, and behind the results.                                   *)
LEMMA TopOfStack ==
    ASSUME NEW in \in Inputs, IInv(in), phase = "exclude", ranges_stack # <<>>
    PROVE  LET r == last(ranges_stack)
               q == pop(ranges_stack)
           IN /\ ~in.continuous
              /\ r \in MarkRange /\ q \in Seq(MarkRange)
              /\ MarksOf(ranges_stack) = MarksOf(q) \cup MarksIn(r)
              /\ \A i, j \in 1 .. Len(q) : i < j => q[j].end <= q[i].begin
              /\ \A i \in 1 .. Len(q) : r.end <= q[i].begin
              /\ \A i \in 1 .. Len(q), k \in 1 .. Len(todo) : q[i].end <= todo[k].begin
              /\ \A k \in 1 .. Len(todo) : r.end <= todo[k].begin
              /\ \A s \in {res, exact_ranges} : s # <<>> =>
                    /\ last(s).end <= r.begin
                    /\ \A i \in 1 .. Len(q) : last(s).end <= q[i].begin
                    /\ \A k \in 1 .. Len(todo) : last(s).end <= todo[k].begin
  <1> DEFINE r == last(ranges_stack)
             q == pop(ranges_stack)
             n == Len(ranges_stack)
  <1>1. ~in.continuous
    BY DEF IInv, Shape
  <1>2. /\ q \in Seq(MarkRange) /\ n \in Nat \ {0} /\ Len(q) = n - 1
        /\ \A i \in 1 .. n - 1 : q[i] = ranges_stack[i]
        /\ r \in MarkRange
        /\ MarksOf(ranges_stack) = MarksOf(q) \cup MarksIn(r)
    BY PopMarks, RangesAreSpans DEF IInv, Types
  <1>3. r = ranges_stack[n] /\ n \in 1 .. n
    BY <1>2 DEF last
  <1>4. /\ \A i, j \in 1 .. n : i < j => ranges_stack[j].end <= ranges_stack[i].begin
        /\ \A i \in 1 .. n, k \in 1 .. Len(todo) : ranges_stack[i].end <= todo[k].begin
    BY DEF IInv, Order
  <1>5. \A i \in 1 .. n - 1 : i \in 1 .. n /\ i < n
    BY <1>2
  <1>6. \A i, j \in 1 .. Len(q) : i < j => q[j].end <= q[i].begin
    BY <1>2, <1>4, <1>5
  <1>7. \A i \in 1 .. Len(q) : r.end <= q[i].begin
    BY <1>2, <1>3, <1>4, <1>5
  <1>8. \A i \in 1 .. Len(q), k \in 1 .. Len(todo) : q[i].end <= todo[k].begin
    BY <1>2, <1>4, <1>5
  <1>9. \A k \in 1 .. Len(todo) : r.end <= todo[k].begin
    BY <1>3, <1>4
  <1>10. ASSUME NEW s \in {res, exact_ranges}, s # <<>>
         PROVE  /\ last(s).end <= r.begin
                /\ \A i \in 1 .. Len(q) : last(s).end <= q[i].begin
                /\ \A k \in 1 .. Len(todo) : last(s).end <= todo[k].begin
    <2>1. /\ \A i \in 1 .. n : last(s).end <= ranges_stack[i].begin
          /\ \A k \in 1 .. Len(todo) : last(s).end <= todo[k].begin
      BY <1>1, <1>10 DEF IInv, Order, Behind
    <2> QED
      BY <1>2, <1>3, <1>5, <2>1
  <1> QED
    BY <1>1, <1>2, <1>6, <1>7, <1>8, <1>9, <1>10

LEMMA DiscardInv ==
    ASSUME NEW in \in Inputs, SoundCheck(in), IInv(in), Discard
    PROVE  IInv(in)'
  <1> DEFINE r == last(ranges_stack)
             q == pop(ranges_stack)
  <1>1. /\ phase = "exclude" /\ phase' = "exclude" /\ ranges_stack # <<>> /\ ranges_stack' = q
        /\ ~in.check[r].can_be_true
        /\ UNCHANGED <<input, todo, range, step, searched, res, exact_ranges>>
    BY DEF Discard, IInv, Types
  <1>2. /\ ~in.continuous
        /\ r \in MarkRange /\ q \in Seq(MarkRange)
        /\ MarksOf(ranges_stack) = MarksOf(q) \cup MarksIn(r)
        /\ \A i, j \in 1 .. Len(q) : i < j => q[j].end <= q[i].begin
        /\ \A i \in 1 .. Len(q), k \in 1 .. Len(todo) : q[i].end <= todo[k].begin
        /\ \A s \in {res, exact_ranges} : s # <<>> =>
              /\ \A i \in 1 .. Len(q) : last(s).end <= q[i].begin
              /\ \A k \in 1 .. Len(todo) : last(s).end <= todo[k].begin
    BY <1>1, TopOfStack
  <1>3. Types(in)'
    BY <1>1, <1>2 DEF IInv, Types, Phases
  <1>4. Shape(in)'
    BY <1>1, <1>2 DEF Shape
  <1>5. Order(in)'
    <2>1. Behind(res)' /\ Behind(exact_ranges)'
      BY <1>1, <1>2 DEF Behind, last
    <2> QED
      BY <1>1, <1>2, <2>1 DEF IInv, Order
  <1>6. Covered(in)'
    <2>1. MarksIn(r) \cap in.matching = {}
      BY <1>1, <1>2, NothingThere
    <2>2. Current = {} /\ Current' = {}
      BY <1>1 DEF Current
    <2> QED
      BY <1>1, <1>2, <2>1, <2>2 DEF IInv, Covered
  <1>7. ExactFull(in)'
    BY <1>1 DEF IInv, ExactFull
  <1> QED
    BY <1>3, <1>4, <1>5, <1>6, <1>7 DEF IInv

LEMMA AddMarkInv ==
    ASSUME NEW in \in Inputs, SoundCheck(in), IInv(in), AddMark
    PROVE  IInv(in)'
  <1> DEFINE r == last(ranges_stack)
             q == pop(ranges_stack)
             exact == in.find_exact /\ ~in.check[r].can_be_false
  <1>1. /\ phase = "exclude" /\ phase' = "exclude" /\ ranges_stack # <<>> /\ ranges_stack' = q
        /\ res' = push(res, r)
        /\ exact_ranges' = IF exact THEN push(exact_ranges, r) ELSE exact_ranges
        /\ input = in
        /\ UNCHANGED <<input, todo, range, step, searched>>
    BY DEF AddMark, IInv, Types
  <1>2. /\ ~in.continuous
        /\ r \in MarkRange /\ q \in Seq(MarkRange)
        /\ MarksOf(ranges_stack) = MarksOf(q) \cup MarksIn(r)
        /\ \A i, j \in 1 .. Len(q) : i < j => q[j].end <= q[i].begin
        /\ \A i \in 1 .. Len(q) : r.end <= q[i].begin
        /\ \A i \in 1 .. Len(q), k \in 1 .. Len(todo) : q[i].end <= todo[k].begin
        /\ \A k \in 1 .. Len(todo) : r.end <= todo[k].begin
        /\ \A s \in {res, exact_ranges} : s # <<>> =>
              /\ last(s).end <= r.begin
              /\ \A i \in 1 .. Len(q) : last(s).end <= q[i].begin
              /\ \A k \in 1 .. Len(todo) : last(s).end <= todo[k].begin
    BY <1>1, TopOfStack
  <1>3. input.min_marks_for_seek \in Nat
    BY <1>1 DEF Inputs
  <1>4. res \in Seq(Spans) /\ exact_ranges \in Seq(Spans)
    BY DEF IInv, Types
  <1>5. \A s \in {res, exact_ranges} :
           /\ push(s, r) \in Seq(Spans) /\ push(s, r) # <<>>
           /\ last(push(s, r)).end = r.end
           /\ MarksOf(s) \cup MarksIn(r) \subseteq MarksOf(push(s, r))
           /\ in.min_marks_for_seek = 0 => MarksOf(push(s, r)) = MarksOf(s) \cup MarksIn(r)
    BY <1>1, <1>2, <1>3, <1>4, PushMarks
  <1>6. Types(in)'
    BY <1>1, <1>2, <1>4, <1>5 DEF IInv, Types, Phases
  <1>7. Shape(in)'
    BY <1>1, <1>2 DEF Shape
  <1>8. Order(in)'
    <2>1. Behind(res)'
      BY <1>1, <1>2, <1>5 DEF Behind, last
    <2>2. Behind(exact_ranges)'
      BY <1>1, <1>2, <1>5 DEF Behind, last
    <2> QED
      BY <1>1, <1>2, <2>1, <2>2 DEF IInv, Order
  <1>9. Covered(in)'
    <2>1. Current = {} /\ Current' = {}
      BY <1>1 DEF Current
    <2> QED
      BY <1>1, <1>2, <1>5, <2>1 DEF IInv, Covered
  <1>10. ExactFull(in)'
    <2>1. exact => MarksIn(r) \subseteq in.full
      BY <1>2, AllFull
    <2> QED
      BY <1>1, <1>2, <1>5, <2>1 DEF IInv, ExactFull
  <1> QED
    BY <1>6, <1>7, <1>8, <1>9, <1>10 DEF IInv

LEMMA DivNat ==
    ASSUME NEW a \in Nat, NEW d \in Nat \ {0}
    PROVE  a \div d \in Nat
  OBVIOUS

LEMMA SplitInv ==
    ASSUME NEW in \in Inputs, IInv(in), Split
    PROVE  IInv(in)'
  <1> DEFINE r == last(ranges_stack)
             q == pop(ranges_stack)
  <1>1. /\ phase = "exclude" /\ phase' = "split" /\ ranges_stack # <<>> /\ ranges_stack' = q
        /\ range' = r
        /\ step' = (r.end - r.begin - 1) \div in.coarse_index_granularity + 1
        /\ UNCHANGED <<input, todo, searched, res, exact_ranges>>
    BY DEF Split, IInv, Types
  <1>2. /\ ~in.continuous
        /\ r \in MarkRange /\ q \in Seq(MarkRange)
        /\ MarksOf(ranges_stack) = MarksOf(q) \cup MarksIn(r)
        /\ \A i, j \in 1 .. Len(q) : i < j => q[j].end <= q[i].begin
        /\ \A i \in 1 .. Len(q) : r.end <= q[i].begin
        /\ \A i \in 1 .. Len(q), k \in 1 .. Len(todo) : q[i].end <= todo[k].begin
        /\ \A k \in 1 .. Len(todo) : r.end <= todo[k].begin
        /\ \A s \in {res, exact_ranges} : s # <<>> =>
              /\ last(s).end <= r.begin
              /\ \A i \in 1 .. Len(q) : last(s).end <= q[i].begin
              /\ \A k \in 1 .. Len(todo) : last(s).end <= todo[k].begin
    BY <1>1, TopOfStack
  <1>3. step' \in Nat \ {0} /\ r \in Spans
    <2>1. /\ r.end - r.begin - 1 \in Nat /\ r \in Spans
          /\ in.coarse_index_granularity \in Nat \ {0}
      BY <1>2, RangesAreSpans DEF Inputs
    <2>2. (r.end - r.begin - 1) \div in.coarse_index_granularity \in Nat
      BY <2>1, DivNat
    <2> QED
      BY <1>1, <2>1, <2>2
  <1>4. Types(in)'
    BY <1>1, <1>2, <1>3 DEF IInv, Types, Phases
  <1>5. Shape(in)'
    BY <1>1, <1>2 DEF Shape
  <1>6. Order(in)'
    <2>1. Behind(res)' /\ Behind(exact_ranges)'
      BY <1>1, <1>2 DEF Behind, last
    <2> QED
      BY <1>1, <1>2, <2>1 DEF IInv, Order
  <1>7. Covered(in)'
    <2>1. Current = {} /\ Current' = MarksIn(r)
      BY <1>1 DEF Current
    <2> QED
      BY <1>1, <1>2, <2>1 DEF IInv, Covered
  <1>8. ExactFull(in)'
    BY <1>1 DEF IInv, ExactFull
  <1> QED
    BY <1>4, <1>5, <1>6, <1>7, <1>8 DEF IInv

(* Pushing a range that lies before the others keeps the stack in order.   *)
LEMMA PushOnStack ==
    ASSUME NEW in, IInv(in), phase = "split", NEW r \in MarkRange, range.begin <= r.begin,
           r.end <= range.end, ranges_stack' = Append(ranges_stack, r), UNCHANGED <<todo, res, exact_ranges>>,
           phase' = "split" => range'.begin = range.begin
    PROVE  /\ ranges_stack' \in Seq(MarkRange)
           /\ MarksOf(ranges_stack') = MarksOf(ranges_stack) \cup MarksIn(r)
           /\ \A i, j \in 1 .. Len(ranges_stack') : i < j =>
                 ranges_stack'[j].end <= ranges_stack'[i].begin
           /\ \A i \in 1 .. Len(ranges_stack') : r.begin <= ranges_stack'[i].begin
           /\ \A i \in 1 .. Len(ranges_stack'), k \in 1 .. Len(todo) :
                 ranges_stack'[i].end <= todo[k].begin
           /\ Behind(res)' /\ Behind(exact_ranges)'
  <1> DEFINE n == Len(ranges_stack)
             t == Append(ranges_stack, r)
  <1>1. ranges_stack \in Seq(MarkRange) /\ ranges_stack \in Seq(Spans) /\ r \in Spans
    BY RangesAreSpans DEF IInv, Types
  <1>2. /\ t \in Seq(MarkRange) /\ Len(t) = n + 1 /\ n \in Nat
        /\ \A i \in 1 .. n : t[i] = ranges_stack[i]
        /\ t[n + 1] = r
    BY <1>1, AppendProperties, LenProperties
  <1>3. MarksOf(t) = MarksOf(ranges_stack) \cup MarksIn(r)
    BY <1>1, AppendMarks
  <1>4. range \in MarkRange /\ ~in.continuous
    BY DEF IInv, Shape
  <1>5. /\ r.begin \in Nat /\ r.end \in Nat /\ range.begin \in Nat /\ range.end \in Nat
        /\ r.begin < r.end /\ r.end <= range.end /\ range.begin <= r.begin
    BY <1>4, RangesAreSpans
  <1>6. \A i \in 1 .. n : /\ ranges_stack[i] \in MarkRange
                         /\ ranges_stack[i].begin \in Nat /\ ranges_stack[i].end \in Nat
    BY <1>1, <1>2, ElementOfSeq, RangesAreSpans
  <1>7. \A k \in 1 .. Len(todo) : todo[k].begin \in Nat
    BY ElementOfSeq, RangesAreSpans DEF IInv, Types
  <1>8. /\ \A i, j \in 1 .. n : i < j => ranges_stack[j].end <= ranges_stack[i].begin
        /\ \A i \in 1 .. n : range.end <= ranges_stack[i].begin
        /\ \A i \in 1 .. n, k \in 1 .. Len(todo) : ranges_stack[i].end <= todo[k].begin
        /\ \A k \in 1 .. Len(todo) : range.end <= todo[k].begin
    BY DEF IInv, Order
  <1>9. \A i \in 1 .. n + 1 : i \in 1 .. n \/ i = n + 1
    BY <1>2
  <1>10. \A i \in 1 .. n : r.end <= ranges_stack[i].begin /\ r.begin <= ranges_stack[i].begin
    BY <1>5, <1>6, <1>8
  <1>11. ASSUME NEW i \in 1 .. n + 1, NEW j \in 1 .. n + 1, i < j
         PROVE  t[j].end <= t[i].begin
    <2>1. i \in 1 .. n
      BY <1>2, <1>11
    <2>2. CASE j \in 1 .. n
      BY <1>2, <1>8, <1>11, <2>1, <2>2
    <2>3. CASE j = n + 1
      BY <1>2, <1>10, <2>1, <2>3
    <2> QED
      BY <1>9, <2>2, <2>3
  <1>12. \A i \in 1 .. n + 1 : r.begin <= t[i].begin
    BY <1>2, <1>5, <1>9, <1>10
  <1>13. \A i \in 1 .. n + 1, k \in 1 .. Len(todo) : t[i].end <= todo[k].begin
    <2>1. \A k \in 1 .. Len(todo) : r.end <= todo[k].begin
      BY <1>5, <1>7, <1>8
    <2> QED
      BY <1>2, <1>8, <1>9, <2>1
  <1>14. ASSUME NEW s \in {res, exact_ranges}, s # <<>>
         PROVE  /\ last(s).end <= range.begin
                /\ \A i \in 1 .. n + 1 : last(s).end <= t[i].begin
                /\ \A k \in 1 .. Len(todo) : last(s).end <= todo[k].begin
    <2>1. /\ \A i \in 1 .. n : last(s).end <= ranges_stack[i].begin
          /\ \A k \in 1 .. Len(todo) : last(s).end <= todo[k].begin
          /\ last(s).end <= range.begin
      BY <1>4, <1>14 DEF IInv, Order, Behind
    <2>2. last(s).end \in Nat
      <3>1. s \in Seq(Spans)
        BY DEF IInv, Types
      <3>2. last(s) \in Spans
        BY <1>14, <3>1, PopMarks
      <3> QED
        BY <3>2 DEF Spans, Bound
    <2>3. last(s).end <= r.begin
      BY <1>5, <2>1, <2>2
    <2> QED
      BY <1>2, <1>9, <2>1, <2>3
  <1>15. Behind(res)' /\ Behind(exact_ranges)'
    BY <1>2, <1>14 DEF Behind, last
  <1> QED
    BY <1>2, <1>3, <1>11, <1>12, <1>13, <1>15

LEMMA PushPieceInv ==
    ASSUME NEW in \in Inputs, IInv(in), PushPiece
    PROVE  IInv(in)'
  <1> DEFINE e == range.end - step
             r == [begin |-> e, end |-> range.end]
             rest == [begin |-> range.begin, end |-> e]
  <1>1. /\ phase = "split" /\ phase' = "split" /\ ranges_stack' = Append(ranges_stack, r)
        /\ range.end > range.begin + step
        /\ UNCHANGED <<input, todo, step, searched, res, exact_ranges>>
    BY DEF PushPiece, IInv, Types
  <1>2. /\ range \in MarkRange /\ range \in Spans /\ step \in Nat \ {0}
        /\ range.begin \in Nat /\ range.end \in Nat /\ range.end <= MaxMarks
    BY <1>1, RangesAreSpans DEF IInv, Types, Shape
  <1>3. range' = rest
    BY <1>2 DEF PushPiece, Spans
  <1>4. e \in Nat /\ range.begin < e /\ e < range.end
    BY <1>1, <1>2
  <1>5. r \in MarkRange /\ rest \in MarkRange /\ rest \in Spans
    BY <1>2, <1>4, RangesAreSpans DEF MarkRange
  <1>6. /\ ranges_stack' \in Seq(MarkRange)
        /\ MarksOf(ranges_stack') = MarksOf(ranges_stack) \cup MarksIn(r)
        /\ \A i, j \in 1 .. Len(ranges_stack') : i < j =>
              ranges_stack'[j].end <= ranges_stack'[i].begin
        /\ \A i \in 1 .. Len(ranges_stack') : r.begin <= ranges_stack'[i].begin
        /\ \A i \in 1 .. Len(ranges_stack'), k \in 1 .. Len(todo) :
              ranges_stack'[i].end <= todo[k].begin
        /\ Behind(res)' /\ Behind(exact_ranges)'
    <2>1. range.begin <= r.begin /\ r.end <= range.end /\ range'.begin = range.begin
      BY <1>2, <1>3, <1>4
    <2> HIDE DEF r
    <2> QED
      BY <1>1, <1>5, <2>1, PushOnStack
  <1>7. Types(in)'
    BY <1>1, <1>3, <1>5, <1>6 DEF IInv, Types
  <1>8. Shape(in)'
    BY <1>1, <1>3, <1>5 DEF IInv, Shape
  <1>9. Order(in)'
    <2>1. \A k \in 1 .. Len(todo) : rest.end <= todo[k].begin
      <3>1. \A k \in 1 .. Len(todo) : range.end <= todo[k].begin /\ todo[k].begin \in Nat
        BY <1>1, ElementOfSeq, RangesAreSpans DEF IInv, Types, Order
      <3> QED
        BY <1>2, <1>4, <3>1
    <2> QED
      BY <1>1, <1>3, <1>6, <2>1 DEF IInv, Order
  <1>10. Covered(in)'
    <2>1. Current = MarksIn(range) /\ Current' = MarksIn(rest)
      BY <1>1, <1>3 DEF Current
    <2>2. MarksIn(range) \subseteq MarksIn(rest) \cup MarksIn(r)
      BY <1>2, <1>4 DEF MarksIn
    <2> QED
      BY <1>1, <1>6, <2>1, <2>2 DEF IInv, Covered
  <1>11. ExactFull(in)'
    BY <1>1 DEF IInv, ExactFull
  <1> QED
    BY <1>7, <1>8, <1>9, <1>10, <1>11 DEF IInv

LEMMA PushRestInv ==
    ASSUME NEW in \in Inputs, IInv(in), PushRest
    PROVE  IInv(in)'
  <1>1. /\ phase = "split" /\ phase' = "exclude" /\ ranges_stack' = Append(ranges_stack, range)
        /\ UNCHANGED <<input, todo, range, step, searched, res, exact_ranges>>
    BY DEF PushRest, IInv, Types
  <1>2. range \in MarkRange /\ range.begin \in Nat /\ range.end \in Nat /\ ~in.continuous
    BY <1>1, RangesAreSpans DEF IInv, Shape
  <1>3. /\ ranges_stack' \in Seq(MarkRange)
        /\ MarksOf(ranges_stack') = MarksOf(ranges_stack) \cup MarksIn(range)
        /\ \A i, j \in 1 .. Len(ranges_stack') : i < j =>
              ranges_stack'[j].end <= ranges_stack'[i].begin
        /\ \A i \in 1 .. Len(ranges_stack'), k \in 1 .. Len(todo) :
              ranges_stack'[i].end <= todo[k].begin
        /\ Behind(res)' /\ Behind(exact_ranges)'
    BY <1>1, <1>2, PushOnStack
  <1>4. Types(in)'
    BY <1>1, <1>3 DEF IInv, Types, Phases
  <1>5. Shape(in)'
    BY <1>1, <1>2 DEF Shape
  <1>6. Order(in)'
    BY <1>1, <1>3 DEF IInv, Order
  <1>7. Covered(in)'
    <2>1. Current = MarksIn(range)
      BY <1>1 DEF Current
    <2> QED
      BY <1>1, <1>3, <2>1 DEF IInv, Covered
  <1>8. ExactFull(in)'
    BY <1>1 DEF IInv, ExactFull
  <1> QED
    BY <1>4, <1>5, <1>6, <1>7, <1>8 DEF IInv

LEMMA RangeDoneInv ==
    ASSUME NEW in \in Inputs, IInv(in), RangeDone
    PROVE  IInv(in)'
  <1>1. /\ phase = "exclude" /\ phase' = "search" /\ ranges_stack = <<>>
        /\ UNCHANGED <<input, todo, ranges_stack, range, step, searched, res, exact_ranges>>
    BY DEF RangeDone
  <1>2. Types(in)'
    BY <1>1 DEF IInv, Types, Phases
  <1>3. Shape(in)'
    BY <1>1 DEF Shape
  <1>4. Order(in)'
    <2>1. ~in.continuous => Behind(res)' /\ Behind(exact_ranges)'
      BY <1>1 DEF IInv, Order, Behind, last
    <2> QED
      BY <1>1, <2>1 DEF IInv, Order
  <1>5. Covered(in)' /\ ExactFull(in)'
    BY <1>1 DEF IInv, Covered, ExactFull, Current
  <1> QED
    BY <1>2, <1>3, <1>4, <1>5 DEF IInv

(***************************************************************************)
(* The steps of the binary search                                          *)
(***************************************************************************)
LEMMA StartLeftInv ==
    ASSUME NEW in \in Inputs, IInv(in), StartLeft
    PROVE  IInv(in)'
  <1> DEFINE r == Head(todo)
  <1>1. /\ phase = "search" /\ phase' = "left" /\ in.continuous
        /\ todo \in Seq(MarkRange) /\ todo # <<>> /\ todo' = Tail(todo)
        /\ range' = r /\ searched' = [left |-> r.begin, right |-> r.end + 1]
        /\ UNCHANGED <<input, ranges_stack, step, res, exact_ranges>>
    BY DEF StartLeft, IInv, Types
  <1>2. /\ r \in MarkRange /\ Tail(todo) \in Seq(MarkRange)
        /\ Len(todo) \in Nat \ {0} /\ Len(Tail(todo)) = Len(todo) - 1
        /\ \A i \in 1 .. Len(todo) - 1 : Tail(todo)[i] = todo[i + 1]
        /\ MarksOf(todo) = MarksIn(r) \cup MarksOf(Tail(todo))
    BY <1>1, TailMarks
  <1>3. r \in Spans /\ r.begin \in Nat /\ r.end \in Nat /\ r.begin < r.end
    BY <1>2, RangesAreSpans
  <1>4. ranges_stack = <<>>
    BY <1>1 DEF IInv, Shape
  <1>5. Types(in)'
    BY <1>1, <1>2, <1>3 DEF IInv, Types, Phases
  <1>6. Shape(in)'
    BY <1>1, <1>2, <1>3, <1>4 DEF Shape
  <1>7. Order(in)'
    <2>1. Sorted(Tail(todo))
      <3>1. \A i, j \in 1 .. Len(todo) : i < j => todo[i].end <= todo[j].begin
        BY <1>1 DEF IInv, Order, Sorted
      <3>2. DOMAIN Tail(todo) = 1 .. Len(todo) - 1
        BY <1>2
      <3>3. ASSUME NEW i \in 1 .. Len(todo) - 1, NEW j \in 1 .. Len(todo) - 1, i < j
            PROVE  Tail(todo)[i].end <= Tail(todo)[j].begin
        <4>1. i + 1 \in 1 .. Len(todo) /\ j + 1 \in 1 .. Len(todo) /\ i + 1 < j + 1
          BY <1>2, <3>3
        <4> QED
          BY <1>2, <3>1, <4>1
      <3> QED
        BY <3>2, <3>3 DEF Sorted
    <2>2. Len(ranges_stack') = 0
      BY <1>1, <1>4
    <2> QED
      BY <1>1, <2>1, <2>2 DEF Order
  <1>8. Covered(in)'
    <2>1. Current = {} /\ Current' = MarksIn(r)
      BY <1>1, <1>3 DEF Current, MarksIn
    <2> QED
      BY <1>1, <1>2, <2>1 DEF IInv, Covered
  <1>9. ExactFull(in)'
    BY <1>1 DEF IInv, ExactFull
  <1> QED
    BY <1>5, <1>6, <1>7, <1>8, <1>9 DEF IInv

(* A step that leaves the ranges and the results alone, outside of the     *)
(* exclusion search, keeps their order.                                    *)
LEMMA SortedStays ==
    ASSUME NEW in, IInv(in), in.continuous, phase \notin {"exclude", "split"}, phase' # "split",
           UNCHANGED <<todo, ranges_stack>>
    PROVE  Order(in)'
  BY DEF IInv, Order, Shape

LEMMA StepLeftInv ==
    ASSUME NEW in \in Inputs, SoundCheck(in), IInv(in), in.continuous, StepLeft
    PROVE  IInv(in)'
  <1> DEFINE m == Middle
             r == [begin |-> 0, end |-> m]
  <1>1. /\ phase = "left" /\ phase' = "left"
        /\ searched.left + 1 < searched.right
        /\ searched' = IF in.check[r].can_be_true
                       THEN [searched EXCEPT !.right = m] ELSE [searched EXCEPT !.left = m]
        /\ UNCHANGED <<input, todo, ranges_stack, range, step, res, exact_ranges>>
    BY DEF StepLeft, IInv, Types
  <1>2. /\ range \in MarkRange /\ range.begin \in Nat /\ range.end \in Nat /\ range.end <= MaxMarks
        /\ searched \in [left : Nat, right : Nat]
        /\ searched.left \in Nat /\ searched.right \in Nat
        /\ range.begin <= searched.left /\ searched.right <= range.end + 1
    BY <1>1, RangesAreSpans DEF IInv, Types, Shape
  <1>3. m \in Nat /\ searched.left < m /\ m < searched.right
    BY <1>1, <1>2 DEF Middle
  <1>4. r \in MarkRange
    BY <1>2, <1>3 DEF MarkRange
  <1>5. \/ searched' = [left |-> searched.left, right |-> m] /\ in.check[r].can_be_true
        \/ searched' = [left |-> m, right |-> searched.right] /\ ~in.check[r].can_be_true
    BY <1>1, <1>2
  <1>6. Types(in)'
    BY <1>1, <1>2, <1>3, <1>5 DEF IInv, Types
  <1>7. Shape(in)'
    BY <1>1, <1>2, <1>3, <1>5 DEF IInv, Shape
  <1>8. Order(in)'
    BY <1>1, SortedStays
  <1>9. Covered(in)'
    <2>1. Current = searched.left .. range.end - 1 /\ Current' = searched'.left .. range.end - 1
      BY <1>1 DEF Current
    <2>2. in.matching \cap Current \subseteq Current'
      <3>1. CASE searched'.left = searched.left
        BY <2>1, <3>1
      <3>2. CASE searched'.left = m /\ ~in.check[r].can_be_true
        <4>1. MarksIn(r) \cap in.matching = {}
          BY <1>4, <3>2, NothingThere
        <4>2. \A x \in Current : x \in MarksIn(r) \/ x \in Current'
          BY <1>2, <1>3, <2>1, <3>2 DEF MarksIn
        <4> QED
          BY <4>1, <4>2
      <3> QED
        BY <1>5, <3>1, <3>2
    <2> QED
      BY <1>1, <2>2 DEF IInv, Covered
  <1>10. ExactFull(in)'
    BY <1>1 DEF IInv, ExactFull
  <1> QED
    BY <1>6, <1>7, <1>8, <1>9, <1>10 DEF IInv

LEMMA StartRightInv ==
    ASSUME NEW in \in Inputs, IInv(in), in.continuous, StartRight
    PROVE  IInv(in)'
  <1>1. /\ phase = "left" /\ phase' = "right"
        /\ searched.left + 1 >= searched.right
        /\ UNCHANGED <<input, todo, ranges_stack, step, res, exact_ranges>>
    BY DEF StartRight
  <1>2. /\ range \in MarkRange /\ range.begin \in Nat /\ range.end \in Nat /\ range.end <= MaxMarks
        /\ searched \in [left : Nat, right : Nat]
        /\ searched.left \in Nat /\ searched.right \in Nat
        /\ range.begin <= searched.left /\ searched.left < searched.right
        /\ searched.right <= range.end + 1
    BY <1>1, RangesAreSpans DEF IInv, Types, Shape
  <1>3. /\ range' = [begin |-> searched.left, end |-> range.end]
        /\ searched' = [left |-> searched.left, right |-> range.end]
    BY <1>1, <1>2 DEF StartRight, MarkRange
  <1>4. range' \in Spans
    BY <1>2, <1>3 DEF Spans, Bound
  <1>5. Types(in)'
    BY <1>1, <1>2, <1>3, <1>4 DEF IInv, Types, Phases
  <1>6. Shape(in)'
    BY <1>1, <1>2, <1>3 DEF IInv, Shape
  <1>7. Order(in)'
    BY <1>1, SortedStays
  <1>8. Covered(in)'
    <2>1. Current' = Current
      BY <1>1, <1>3 DEF Current
    <2> QED
      BY <1>1, <2>1 DEF IInv, Covered
  <1>9. ExactFull(in)'
    BY <1>1 DEF IInv, ExactFull
  <1> QED
    BY <1>5, <1>6, <1>7, <1>8, <1>9 DEF IInv

LEMMA StepRightInv ==
    ASSUME NEW in \in Inputs, SoundCheck(in), IInv(in), in.continuous, StepRight
    PROVE  IInv(in)'
  <1> DEFINE m == Middle
             r == [begin |-> m, end |-> range.end]
  <1>1. /\ phase = "right" /\ phase' = "right"
        /\ searched.left + 1 < searched.right
        /\ searched' = IF in.check[r].can_be_true
                       THEN [searched EXCEPT !.left = m] ELSE [searched EXCEPT !.right = m]
        /\ UNCHANGED <<input, todo, ranges_stack, range, step, res, exact_ranges>>
    BY DEF StepRight, IInv, Types
  <1>2. /\ range.begin \in Nat /\ range.end \in Nat /\ range.end <= MaxMarks
        /\ searched \in [left : Nat, right : Nat]
        /\ searched.left \in Nat /\ searched.right \in Nat
        /\ range.begin <= searched.left /\ searched.right <= range.end
    BY <1>1 DEF IInv, Types, Shape, Spans, Bound
  <1>3. m \in Nat /\ searched.left < m /\ m < searched.right
    BY <1>1, <1>2 DEF Middle
  <1>4. r \in MarkRange
    BY <1>2, <1>3 DEF MarkRange
  <1>5. \/ searched' = [left |-> m, right |-> searched.right] /\ in.check[r].can_be_true
        \/ searched' = [left |-> searched.left, right |-> m] /\ ~in.check[r].can_be_true
    BY <1>1, <1>2
  <1>6. Types(in)'
    BY <1>1, <1>2, <1>3, <1>5 DEF IInv, Types
  <1>7. Shape(in)'
    BY <1>1, <1>2, <1>3, <1>5 DEF IInv, Shape
  <1>8. Order(in)'
    BY <1>1, SortedStays
  <1>9. Covered(in)'
    <2>1. Current = range.begin .. searched.right - 1 /\ Current' = range.begin .. searched'.right - 1
      BY <1>1 DEF Current
    <2>2. in.matching \cap Current \subseteq Current'
      <3>1. CASE searched'.right = searched.right
        BY <2>1, <3>1
      <3>2. CASE searched'.right = m /\ ~in.check[r].can_be_true
        <4>1. MarksIn(r) \cap in.matching = {}
          BY <1>4, <3>2, NothingThere
        <4>2. \A x \in Current : x \in MarksIn(r) \/ x \in Current'
          BY <1>2, <1>3, <2>1, <3>2 DEF MarksIn
        <4> QED
          BY <4>1, <4>2
      <3> QED
        BY <1>5, <3>1, <3>2
    <2> QED
      BY <1>1, <2>2 DEF IInv, Covered
  <1>10. ExactFull(in)'
    BY <1>1 DEF IInv, ExactFull
  <1> QED
    BY <1>6, <1>7, <1>8, <1>9, <1>10 DEF IInv

LEMMA AddRangeInv ==
    ASSUME NEW in \in Inputs, SoundCheck(in), IInv(in), in.continuous, AddRange
    PROVE  IInv(in)'
  <1> DEFINE f == [begin |-> range.begin, end |-> searched.right]
             b == ExactBegin(f)
             e == ExactEnd(b, searched.right)
             x == [begin |-> b, end |-> e]
             some == f.begin < f.end
             exact == some /\ in.find_exact /\ ~canBeFalse(b, e)
  <1>1. /\ phase = "right" /\ phase' = "search"
        /\ input = in
        /\ res' = IF some THEN Append(res, f) ELSE res
        /\ exact_ranges' = IF exact THEN Append(exact_ranges, x) ELSE exact_ranges
        /\ UNCHANGED <<input, todo, ranges_stack, range, step, searched>>
    BY DEF AddRange, IInv, Types
  <1>2. /\ range.begin \in Nat /\ range.end \in Nat /\ range.end <= MaxMarks
        /\ searched.right \in Nat /\ searched.right <= range.end
        /\ range.begin <= searched.right
        /\ res \in Seq(Spans) /\ exact_ranges \in Seq(Spans)
    BY <1>1 DEF IInv, Types, Shape, Spans, Bound
  <1>3. some => f \in Spans
    BY <1>2 DEF Spans, Bound
  <1>4. b \in {range.begin, range.begin + 1}
    BY DEF ExactBegin
  <1>5. e \in {searched.right, searched.right - 1}
    BY DEF ExactEnd
  <1>6. exact => x \in MarkRange /\ x \in Spans /\ MarksIn(x) \subseteq in.full
    <2>1. SUFFICES ASSUME exact
                   PROVE  x \in MarkRange /\ x \in Spans /\ MarksIn(x) \subseteq in.full
      OBVIOUS
    <2>2. b < e /\ ~in.check[x].can_be_false
      BY <1>1, <2>1 DEF canBeFalse
    <2>3. b \in Nat /\ e \in Nat /\ e <= MaxMarks
      BY <1>2, <1>4, <1>5, <2>2
    <2> HIDE DEF b, e
    <2>4. x \in MarkRange /\ x \in Spans
      BY <2>2, <2>3, RangesAreSpans DEF MarkRange
    <2> QED
      BY <2>1, <2>2, <2>4, AllFull
  <1> HIDE DEF f, x, exact
  <1>7. /\ res' \in Seq(Spans)
        /\ MarksOf(res) \subseteq MarksOf(res')
        /\ some => MarksIn(f) \subseteq MarksOf(res')
    BY <1>1, <1>2, <1>3, AppendMarks
  <1>8. /\ exact_ranges' \in Seq(Spans)
        /\ MarksOf(exact_ranges) \subseteq in.full => MarksOf(exact_ranges') \subseteq in.full
    BY <1>1, <1>2, <1>6, AppendMarks
  <1>9. Types(in)'
    BY <1>1, <1>7, <1>8 DEF IInv, Types, Phases
  <1>10. Shape(in)'
    BY <1>1 DEF IInv, Shape
  <1>11. Order(in)'
    BY <1>1, SortedStays
  <1>12. Covered(in)'
    <2>1. Current \subseteq MarksOf(res')
      <3>1. Current = MarksIn(f)
        BY <1>1 DEF Current, MarksIn, f
      <3>2. ~some => MarksIn(f) = {}
        BY <1>2 DEF MarksIn, f
      <3> QED
        BY <1>7, <3>1, <3>2
    <2> QED
      BY <1>1, <1>7, <2>1 DEF IInv, Covered
  <1>13. ExactFull(in)'
    BY <1>1, <1>8 DEF IInv, ExactFull
  <1> QED
    BY <1>9, <1>10, <1>11, <1>12, <1>13 DEF IInv

LEMMA FoundInv ==
    ASSUME NEW in \in Inputs, IInv(in), Found
    PROVE  IInv(in)'
  <1>1. /\ phase = "search" /\ phase' = "found" /\ todo = <<>>
        /\ UNCHANGED <<input, todo, ranges_stack, range, step, searched, res, exact_ranges>>
    BY DEF Found
  <1>2. Types(in)'
    BY <1>1 DEF IInv, Types, Phases
  <1>3. Shape(in)'
    BY <1>1 DEF IInv, Shape
  <1>4. Order(in)'
    <2>1. ~in.continuous => Behind(res)' /\ Behind(exact_ranges)'
      BY <1>1 DEF IInv, Order, Behind, last
    <2> QED
      BY <1>1, <2>1 DEF IInv, Order
  <1>5. Covered(in)' /\ ExactFull(in)'
    BY <1>1 DEF IInv, Covered, ExactFull, Current
  <1> QED
    BY <1>2, <1>3, <1>4, <1>5 DEF IInv

LEMMA SearchNextInv ==
    ASSUME NEW in \in Inputs, SoundCheck(in), IInv(in), [SearchNext]_searchVars
    PROVE  IInv(in)'
  <1>1. phase \in {"left", "right"} => in.continuous
    BY DEF IInv, Shape
  <1>2. CASE TakeRange
    BY <1>2, TakeRangeInv
  <1>3. CASE Discard
    BY <1>3, DiscardInv
  <1>4. CASE AddMark
    BY <1>4, AddMarkInv
  <1>5. CASE Split
    BY <1>5, SplitInv
  <1>6. CASE PushPiece
    BY <1>6, PushPieceInv
  <1>7. CASE PushRest
    BY <1>7, PushRestInv
  <1>8. CASE RangeDone
    BY <1>8, RangeDoneInv
  <1>9. CASE StartLeft
    BY <1>9, StartLeftInv
  <1>10. CASE StepLeft
    <2>1. phase = "left"
      BY <1>10 DEF StepLeft
    <2> QED
      BY <1>1, <1>10, <2>1, StepLeftInv
  <1>11. CASE StartRight
    <2>1. phase = "left"
      BY <1>11 DEF StartRight
    <2> QED
      BY <1>1, <1>11, <2>1, StartRightInv
  <1>12. CASE StepRight
    <2>1. phase = "right"
      BY <1>12 DEF StepRight
    <2> QED
      BY <1>1, <1>12, <2>1, StepRightInv
  <1>13. CASE AddRange
    <2>1. phase = "right"
      BY <1>13 DEF AddRange
    <2> QED
      BY <1>1, <1>13, <2>1, AddRangeInv
  <1>14. CASE Found
    BY <1>14, FoundInv
  <1>15. CASE UNCHANGED searchVars
    BY <1>15 DEF searchVars, IInv, Types, Shape, Order, Covered, ExactFull,
                 Behind, Current, last
  <1> QED
    BY <1>2, <1>3, <1>4, <1>5, <1>6, <1>7, <1>8, <1>9, <1>10, <1>11, <1>12, <1>13,
       <1>14, <1>15 DEF SearchNext

(***************************************************************************)
(* Theorems                                                                *)
(***************************************************************************)

\* What a call of markRangesFromPKRange promises of its two results.
AllMatchesFound(in) ==
    phase = "found" => in.matching \cap MarksOf(in.ranges) \subseteq MarksOf(res)
ExactIsFull(in) ==
    in.continuous \/ in.min_marks_for_seek = 0 => MarksOf(exact_ranges) \subseteq in.full

(* The ranges given and what the caller knows of check_in_range: it never  *)
(* says "no" of a range with a matching mark, nor "all" of one with a mark *)
(* that is not full. Then the invariant above holds in every step of both  *)
(* searches.                                                               *)
THEOREM SearchInvariant ==
    ASSUME NEW CONSTANT in \in Inputs, SoundCheck(in), Sorted(in.ranges)
    PROVE  SearchInit(in) /\ [][SearchNext]_searchVars => []IInv(in)
  <1>1. SearchInit(in) => IInv(in)
    BY SearchInitInv
  <1>2. IInv(in) /\ [SearchNext]_searchVars => IInv(in)'
    BY SearchNextInv
  <1> QED
    BY <1>1, <1>2, PTL

(* markRangesFromPKRange: when either search is over, its result holds all *)
(* the marks of the ranges searched that have a matching row, for a part   *)
(* of any size and any settings.                                           *)
THEOREM SearchSound ==
    ASSUME NEW CONSTANT in \in Inputs, SoundCheck(in), Sorted(in.ranges)
    PROVE  SearchInit(in) /\ [][SearchNext]_searchVars => []AllMatchesFound(in)
  <1>1. ASSUME IInv(in)
        PROVE  AllMatchesFound(in)
    <2>1. SUFFICES ASSUME phase = "found"
                   PROVE  in.matching \cap MarksOf(in.ranges) \subseteq MarksOf(res)
      BY DEF AllMatchesFound
    <2>2. MarksOf(todo) = {} /\ MarksOf(ranges_stack) = {} /\ Current = {}
      BY <1>1, <2>1, EmptyMarks DEF IInv, Shape, Current
    <2> QED
      BY <1>1, <2>2 DEF IInv, Covered
  <1> QED
    BY <1>1, SearchInvariant, PTL

(* markRangesFromPKRange: all the rows of the marks it calls exact match,  *)
(* whether it bisects or excludes, as long as the setting                  *)
(* merge_tree_min_rows_for_seek does not let the latter bridge gaps.       *)
THEOREM ExactSound ==
    ASSUME NEW CONSTANT in \in Inputs, SoundCheck(in), Sorted(in.ranges)
    PROVE  SearchInit(in) /\ [][SearchNext]_searchVars => []ExactIsFull(in)
  <1>1. IInv(in) => ExactIsFull(in)
    BY DEF IInv, ExactFull, ExactIsFull
  <1> QED
    BY <1>1, SearchInvariant, PTL



USE SizesAssumption, HashesAssumption

(***************************************************************************)
(* The first invariant: every mark of the snapshot is in one place.        *)
(***************************************************************************)
(* Mark m waits with the coordinator: unscanned (U), among the leftovers   *)
(* (L) or in a queue (Q).                                                  *)
Waits(U, L, Q, m) == m \in U \/ m \in L \/ \E q \in Replicas : m \in Q[q]

(* No mark waits twice.                                                    *)
Apart(U, L, Q) ==
    /\ \A m \in U : m \notin L /\ \A q \in Replicas : m \notin Q[q]
    /\ \A m \in L : \A q \in Replicas : m \notin Q[q]
    /\ \A q, p \in Replicas : q # p => \A m \in Q[q] : m \notin Q[p]

(* A replica has no mark twice.                                            *)
HasOnce(r) ==
    \A m \in Marks : /\ m \in response[r] => m \notin DOMAIN buffer[r]
                     /\ m \in read[r] => m \notin response[r] /\ m \notin DOMAIN buffer[r]

(* What a replica was given is of its parts, nobody else was given it and  *)
(* it does not wait.                                                       *)
GivenOnce ==
    \A r \in Replicas :
       /\ \A m \in Given(r) : /\ m \in Seen(r, Marks)
                              /\ ~Waits(unscanned, leftovers, queue, m)
       /\ \A q \in Replicas : q # r => \A m \in Given(r) : m \notin Given(q)

Accounted ==
    \A m : m \in Snapshot <=> \/ Waits(unscanned, leftovers, queue, m)
                              \/ \E q \in Replicas : m \in Given(q)

(* An answer is on its way only to a pool that waits for it, or that will  *)
(* not go on; in the mode Default it asked with an empty buffer.           *)
AnswerAwaited ==
    \A r \in Replicas : /\ pool[r] \in {"new", "idle", "done"} => response[r] = {}
                        /\ mode = "Default" /\ response[r] # {} => DOMAIN buffer[r] = {}

Once == /\ Apart(unscanned, leftovers, queue) /\ (\A r \in Replicas : HasOnce(r))
        /\ GivenOnce /\ Accounted /\ AnswerAwaited

(***************************************************************************)
(* The second invariant: what the coordinator knows of the replicas.       *)
(***************************************************************************)
(* A replica announces itself once, before it asks, and at the latest then *)
(* its availability is settled; the first one is the source.               *)
Announcements ==
    /\ \A r \in announced : pool[r] # "new"
    /\ ~completed => \A r \in Replicas \ announced : pool[r] = "new"
    /\ \A r \in unavailable : pool[r] \in {"new", "cancelled"} /\ r \notin announced
    /\ source \subseteq announced
    /\ source = {} => announced = {}
    /\ \A s, t \in source : s = t

(* A finished replica does not ask again.                                  *)
FinishedStays ==
    \A r \in finished : pool[r] \notin {"new", "idle"} /\ response[r] = {} /\ r \notin unavailable

(* What is queued for a replica is what it can read, and nothing is for    *)
(* one that will not come.                                                 *)
QueuesRead ==
    /\ \A r \in announced : \A m \in queue[r] : Part(m) \in view[r]
    /\ unavailable # Replicas => \A r \in unavailable : queue[r] = {}
    /\ mode = "Default" => \A r \in finished : queue[r] = {}

(* The source leaves nothing to others but what they can fetch themselves. *)
SourceFinishes ==
    mode = "Default" => \A s \in source \cap finished :
       /\ unscanned = {} /\ leftovers = {}
       /\ \A r \in Replicas \ announced : queue[r] = {}

Coordinated == Announcements /\ FinishedStays /\ QueuesRead /\ SourceFinishes

(***************************************************************************)
(* The third invariant: the order in which the marks of a part are given.  *)
(***************************************************************************)
(* Mark m of a part is read before n.                                      *)
Ahead(m, n) == IF mode = "WithOrder" THEN Before(m, n) ELSE Before(n, m)

(* All the marks of S come before all the marks of U that are of the same  *)
(* part.                                                                   *)
AllAhead(S, U) == \A m \in S, n \in U : Part(m) = Part(n) => Ahead(m, n)

(* The places in a buffer are the places of the marks.                     *)
Placed(b) ==
    /\ \A m, n \in DOMAIN b : Part(m) = Part(n) /\ b[m] < b[n] => Before(m, n)
    /\ \A m \in DOMAIN b : IF mode = "WithOrder" THEN b[m] <= 0 ELSE b[m] >= 0

Ordered ==
    mode # "Default" => \A r \in Replicas :
       /\ AllAhead(Given(r), unscanned)
       /\ AllAhead(DOMAIN buffer[r] \cup read[r], response[r])
       /\ AllAhead(read[r], DOMAIN buffer[r])
       /\ Placed(buffer[r])

Inv == TypeOK /\ Once /\ Coordinated /\ Ordered /\ NoLogicalError

(***************************************************************************)
(* Lemmas about the operators.                                             *)
(***************************************************************************)
(* Different marks of a part are in order.                                 *)
LEMMA BeforeTotal ==
    ASSUME NEW m \in Marks, NEW n \in Marks, Part(m) = Part(n)
    PROVE  m = n \/ Before(m, n) \/ Before(n, m)
  <1>1. m \in Nat \X Nat /\ n \in Nat \X Nat
    OBVIOUS
  <1>2. m = <<m[1], m[2]>> /\ n = <<n[1], n[2]>> /\ m[2] \in Nat /\ n[2] \in Nat
    BY <1>1
  <1> QED
    BY <1>2 DEF Before, Part, Number

LEMMA BeforeTransitive ==
    ASSUME NEW l \in Marks, NEW m \in Marks, NEW n \in Marks, Before(l, m), Before(m, n)
    PROVE  Before(l, n) /\ ~Before(n, l)
  <1>1. /\ l[1] \in Nat /\ m[1] \in Nat /\ n[1] \in Nat
        /\ l[2] \in Nat /\ m[2] \in Nat /\ n[2] \in Nat
    OBVIOUS
  <1> QED
    BY <1>1 DEF Before, Part, Number

LEMMA BeforeStrict ==
    ASSUME NEW m \in Marks
    PROVE  ~Before(m, m)
  <1>1. m[1] \in Nat /\ m[2] \in Nat
    OBVIOUS
  <1> QED
    BY <1>1 DEF Before, Part, Number

LEMMA MarksFinite ==
    ASSUME NEW S \in SUBSET Marks
    PROVE  IsFiniteSet(S) /\ Cardinality(S) \in Nat
  BY FS_Subset, FS_CardinalityType

LEMMA SegmentOfMark ==
    ASSUME NEW m \in Marks
    PROVE  Segment(m) \in Segments /\ Part(m) \in Parts
  BY DEF Segments, Parts

(* What is nothing although something was asked for was taken from         *)
(* nothing.                                                                *)
LEMMA NothingTaken ==
    ASSUME NEW S \in SUBSET Marks, NEW k \in Nat \ {0}, {} \in SomeOf(S, k)
    PROVE  S = {}
  <1>1. Cardinality({}) = Least(k, Cardinality(S))
    BY DEF SomeOf
  <1>2. Cardinality({}) = 0
    BY FS_EmptySet
  <1>3. Cardinality(S) = 0
    BY <1>1, <1>2, MarksFinite DEF Least
  <1> QED
    BY <1>3, MarksFinite, FS_EmptySet

LEMMA NothingFirst ==
    ASSUME NEW S \in SUBSET Marks, NEW k \in Nat \ {0}, {} \in FirstOf(S, k)
    PROVE  S = {}
  BY NothingTaken DEF FirstOf

LEMMA TakenFrom ==
    ASSUME NEW S, NEW k
    PROVE  /\ \A T \in SomeOf(S, k) : T \subseteq S
           /\ \A T \in FirstOf(S, k) : T \subseteq S
  BY DEF SomeOf, FirstOf

(* A set of marks that is not empty has a first one.                       *)
LEMMA FirstMark ==
    ASSUME NEW S \in SUBSET Marks, S # {}
    PROVE  \E m \in S : {n \in S : Before(n, m)} = {}
  <1> DEFINE F(x) == {n \in S : Before(n, x)}
             R    == StrictSubsetOrdering(Marks)
             W    == {F(x) : x \in S}
  <1>1. IsWellFoundedOn(R, FiniteSubsetsOf(Marks))
    BY FS_StrictSubsetOrderingWellFounded
  <1>2. W \subseteq FiniteSubsetsOf(Marks) /\ W # {}
    <2>1. \A x : F(x) \in SUBSET Marks
      OBVIOUS
    <2>2. \A x : F(x) \in FiniteSubsetsOf(Marks)
      <3> HIDE DEF F
      <3> QED
        BY <2>1, MarksFinite DEF FiniteSubsetsOf
    <2> HIDE DEF F
    <2> QED
      BY <2>2
  <1>3. PICK G \in W : \A H \in W : <<H, G>> \notin R
    <2> HIDE DEF R, W
    <2> QED
      BY <1>1, <1>2, WFMin
  <1>4. PICK m \in S : G = F(m)
    BY <1>3
  <1>5. ASSUME NEW n \in F(m)
        PROVE  FALSE
    <2>1. F(n) \subseteq F(m) /\ n \notin F(n)
      BY <1>5, BeforeTransitive, BeforeStrict
    <2>2. <<F(n), F(m)>> \in R
      BY <2>1, <1>5 DEF StrictSubsetOrdering
    <2> QED
      BY <2>2, <1>3, <1>4, <1>5
  <1> QED
    BY <1>5

(* A set with k of the marks of a part from one end is ahead of the rest.  *)
LEMMA FrontAhead ==
    ASSUME NEW S \in SUBSET Marks, NEW p, NEW k \in Nat,
           NEW m \in FromFront(OfPart(S, p), k), NEW n \in OfPart(S, p) \ FromFront(OfPart(S, p), k)
    PROVE  Before(m, n)
  <1> DEFINE F(x) == {l \in OfPart(S, p) : Before(l, x)}
  <1>1. m \in Marks /\ n \in Marks /\ Part(m) = Part(n) /\ m # n
    BY DEF FromFront, OfPart
  <1>2. Cardinality(F(m)) < k /\ ~(Cardinality(F(n)) < k)
    BY DEF FromFront
  <1>3. SUFFICES ASSUME Before(n, m)
                 PROVE  FALSE
    BY <1>1, BeforeTotal
  <1>4. F(n) \subseteq F(m)
    BY <1>1, <1>3, BeforeTransitive DEF OfPart
  <1>5. F(n) \in SUBSET Marks /\ F(m) \in SUBSET Marks
    BY DEF OfPart
  <1>6. Cardinality(F(n)) <= Cardinality(F(m)) /\ Cardinality(F(n)) \in Nat /\ Cardinality(F(m)) \in Nat
    BY <1>4, <1>5, FS_Subset, MarksFinite
  <1> QED
    BY <1>2, <1>6

LEMMA BackAhead ==
    ASSUME NEW S \in SUBSET Marks, NEW p, NEW k \in Nat,
           NEW m \in FromBack(OfPart(S, p), k), NEW n \in OfPart(S, p) \ FromBack(OfPart(S, p), k)
    PROVE  Before(n, m)
  <1> DEFINE F(x) == {l \in OfPart(S, p) : Before(x, l)}
  <1>1. m \in Marks /\ n \in Marks /\ Part(m) = Part(n) /\ m # n
    BY DEF FromBack, OfPart
  <1>2. Cardinality(F(m)) < k /\ ~(Cardinality(F(n)) < k)
    BY DEF FromBack
  <1>3. SUFFICES ASSUME Before(m, n)
                 PROVE  FALSE
    BY <1>1, BeforeTotal
  <1>4. F(n) \subseteq F(m)
    BY <1>1, <1>3, BeforeTransitive DEF OfPart
  <1>5. F(n) \in SUBSET Marks /\ F(m) \in SUBSET Marks
    BY DEF OfPart
  <1>6. Cardinality(F(n)) <= Cardinality(F(m)) /\ Cardinality(F(n)) \in Nat /\ Cardinality(F(m)) \in Nat
    BY <1>4, <1>5, FS_Subset, MarksFinite
  <1> QED
    BY <1>2, <1>6

(***************************************************************************)
(* Moving marks between the places where they wait.                        *)
(***************************************************************************)
(* The marks gone and moved are taken out of the queue of r and the ranges *)
(* of a scan out of U; those that are not taken go to other queues (H) or  *)
(* to the leftovers (R).  Nothing is lost, nothing waits twice.            *)
Redistributes(U, L, Q, UU, LL, QQ, r, gone, moved, scan, taken, H, R) ==
    /\ gone \subseteq Q[r] /\ moved \subseteq Q[r] /\ \A m \in gone : m \notin moved
    /\ scan \subseteq U /\ taken \subseteq scan
    /\ \A m : m \in moved \/ m \in scan \ taken <=> m \in R \/ \E q \in Replicas : m \in H[q]
    /\ \A q \in Replicas : \A m \in H[q] : m \notin R
    /\ \A q, p \in Replicas : q # p => \A m \in H[q] : m \notin H[p]
    /\ \A q \in Replicas : \A m :
          m \in QQ[q] <=> \/ m \in Q[q] /\ (q = r => m \notin gone /\ m \notin moved)
                          \/ m \in H[q]
    /\ \A m : m \in UU <=> m \in U /\ m \notin scan
    /\ \A m : m \in LL <=> m \in L \/ m \in R

LEMMA Redistributed ==
    ASSUME NEW U, NEW L, NEW Q, NEW UU, NEW LL, NEW QQ, NEW r \in Replicas,
           NEW gone, NEW moved, NEW scan, NEW taken, NEW H, NEW R, Apart(U, L, Q),
           Redistributes(U, L, Q, UU, LL, QQ, r, gone, moved, scan, taken, H, R)
    PROVE  /\ Apart(UU, LL, QQ)
           /\ \A m : Waits(U, L, Q, m) <=> \/ Waits(UU, LL, QQ, m)
                                           \/ m \in gone \/ m \in taken
           /\ \A m : m \in gone \/ m \in taken => ~Waits(UU, LL, QQ, m)
  <1> USE DEF Redistributes
  <1>1. \A m : m \in R => m \in moved \/ m \in scan
    OBVIOUS
  <1>2. \A q \in Replicas : \A m \in H[q] : m \in moved \/ m \in scan
    OBVIOUS
  <1>3. \A m : m \in moved \/ m \in gone => m \in Q[r]
    OBVIOUS
  <1>4. \A m : m \in R => m \notin gone /\ m \notin taken
    BY <1>3 DEF Apart
  <1>5. \A q \in Replicas : \A m \in H[q] : m \notin gone /\ m \notin taken
    BY <1>3 DEF Apart
  <1>6. Apart(UU, LL, QQ)
    <2>1. ASSUME NEW m \in UU
          PROVE  m \notin LL /\ \A q \in Replicas : m \notin QQ[q]
      BY <2>1, <1>1, <1>2, <1>3 DEF Apart
    <2>2. ASSUME NEW m \in LL, NEW q \in Replicas
          PROVE  m \notin QQ[q]
      <3>1. m \in L => m \notin Q[q] /\ m \notin H[q]
        BY <1>2, <1>3 DEF Apart
      <3>2. m \in R => m \notin H[q]
        OBVIOUS
      <3>3. m \in R /\ m \in Q[q] => q = r /\ m \in moved
        BY <1>1, <1>3 DEF Apart
      <3> QED
        BY <3>1, <3>2, <3>3
    <2>3. ASSUME NEW q \in Replicas, NEW p \in Replicas, q # p, NEW m \in QQ[q]
          PROVE  m \notin QQ[p]
      <3>1. m \in H[q] => m \notin H[p]
        BY <2>3
      <3>2. ASSUME NEW x \in Replicas, NEW y \in Replicas, x # y, m \in Q[x], m \in H[y],
                   x = r => m \notin moved
            PROVE  FALSE
        BY <3>2, <1>2, <1>3 DEF Apart
      <3>3. m \in Q[q] => m \notin Q[p]
        BY <2>3 DEF Apart
      <3> QED
        BY <2>3, <3>1, <3>2, <3>3
    <2> QED
      BY <2>1, <2>2, <2>3 DEF Apart
  <1>7. ASSUME NEW m
        PROVE  Waits(U, L, Q, m) <=> Waits(UU, LL, QQ, m) \/ m \in gone \/ m \in taken
    <2>1. ASSUME NEW q \in Replicas, m \in Q[q]
          PROVE  m \in QQ[q] \/ m \in gone \/ m \in moved
      BY <2>1
    <2>2. m \in moved => m \in R \/ \E q \in Replicas : m \in QQ[q]
      OBVIOUS
    <2>3. m \in scan => m \in taken \/ m \in R \/ \E q \in Replicas : m \in QQ[q]
      OBVIOUS
    <2>4. Waits(U, L, Q, m) => Waits(UU, LL, QQ, m) \/ m \in gone \/ m \in taken
      BY <2>1, <2>2, <2>3 DEF Waits
    <2>5. ASSUME NEW q \in Replicas, m \in QQ[q]
          PROVE  Waits(U, L, Q, m)
      BY <2>5, <1>2, <1>3 DEF Waits
    <2>6. m \in gone \/ m \in taken \/ m \in R => Waits(U, L, Q, m)
      BY <1>1, <1>3 DEF Waits
    <2> QED
      BY <2>4, <2>5, <2>6 DEF Waits
  <1>8. ASSUME NEW m, m \in gone \/ m \in taken
        PROVE  ~Waits(UU, LL, QQ, m)
    <2>1. m \in gone => m \notin U /\ m \notin L /\ \A q \in Replicas : m \in Q[q] => q = r
      BY <1>3 DEF Apart
    <2>2. m \in taken => m \in scan /\ m \notin L /\ \A q \in Replicas : m \notin Q[q]
      BY DEF Apart
    <2>3. m \notin R /\ \A q \in Replicas : m \notin H[q]
      BY <1>4, <1>5, <1>8
    <2>4. \A q \in Replicas : m \notin QQ[q]
      BY <1>8, <2>1, <2>2, <2>3
    <2> QED
      BY <1>8, <2>1, <2>2, <2>3, <2>4 DEF Waits
  <1> QED
    BY <1>6, <1>7, <1>8

(* Marks that are taken out of the queues and the leftovers.               *)
TakesOut(L, Q, LL, QQ, e, g) ==
    /\ e \subseteq L /\ \A m : m \in LL <=> m \in L /\ m \notin e
    /\ \A m \in g : \E q \in Replicas : m \in Q[q]
    /\ \A q \in Replicas : \A m : m \in QQ[q] <=> m \in Q[q] /\ m \notin g

LEMMA TakenOut ==
    ASSUME NEW U, NEW L, NEW Q, NEW LL, NEW QQ, NEW e, NEW g, Apart(U, L, Q), TakesOut(L, Q, LL, QQ, e, g)
    PROVE  /\ Apart(U, LL, QQ)
           /\ \A m : Waits(U, L, Q, m) <=> Waits(U, LL, QQ, m) \/ m \in e \/ m \in g
           /\ \A m : m \in e \/ m \in g => ~Waits(U, LL, QQ, m)
  <1> USE DEF TakesOut
  <1>1. Apart(U, LL, QQ)
    BY DEF Apart
  <1>2. \A m : Waits(U, L, Q, m) <=> Waits(U, LL, QQ, m) \/ m \in e \/ m \in g
    BY DEF Waits
  <1>3. \A m : m \in e \/ m \in g => ~Waits(U, LL, QQ, m)
    BY DEF Waits, Apart
  <1> QED
    BY <1>1, <1>2, <1>3

(***************************************************************************)
(* Queueing: a segment goes to its owner, from there to its stealer, and   *)
(* from there to the leftovers.                                            *)
(***************************************************************************)
LEMMA HashesKnown ==
    ASSUME TypeOK, NEW m \in Marks
    PROVE  owner[Segment(m)] \in Replicas /\ stealer[Segment(m)] \in Replicas
  BY SegmentOfMark DEF TypeOK

LEMMA PassedOn ==
    ASSUME TypeOK, NEW S \in SUBSET Marks
    PROVE  /\ \A m : m \in S <=> m \in Orphans(S) \/ \E q \in Replicas : m \in ToStealer(S, q)
           /\ \A q \in Replicas : \A m \in ToStealer(S, q) : m \notin Orphans(S)
           /\ \A q, p \in Replicas : q # p => \A m \in ToStealer(S, q) : m \notin ToStealer(S, p)
  BY HashesKnown DEF ToStealer, Orphans

(* Marks S of a scan that are queued and marks P that are passed on.       *)
Enqueues(S, P, on, H) ==
    /\ S \subseteq Marks /\ P \subseteq Marks /\ \A m \in S : m \notin P
    /\ \A m : m \in on <=> m \in P \/ m \in Ownerless(S)
    /\ \A q \in Replicas : \A m : m \in H[q] <=> m \in ToOwner(S, q) \/ m \in ToStealer(on, q)

LEMMA Enqueued ==
    ASSUME TypeOK, NEW S, NEW P, NEW on, NEW H, Enqueues(S, P, on, H)
    PROVE  /\ on \in SUBSET Marks
           /\ \A m : m \in P \/ m \in S <=> m \in Orphans(on) \/ \E q \in Replicas : m \in H[q]
           /\ \A q \in Replicas : \A m \in H[q] : m \notin Orphans(on)
           /\ \A q, p \in Replicas : q # p => \A m \in H[q] : m \notin H[p]
  <1> USE DEF Enqueues
  <1>1. on \in SUBSET Marks
    BY DEF Ownerless
  <1>2. \A q \in Replicas : \A m \in ToOwner(S, q) : m \in S /\ m \notin on
    BY DEF ToOwner, Ownerless
  <1>3. \A m \in S : m \in on \/ \E q \in Replicas : m \in ToOwner(S, q)
    BY HashesKnown DEF ToOwner, Ownerless
  <1>4. \A q, p \in Replicas : q # p => \A m \in ToOwner(S, q) : m \notin ToOwner(S, p)
    BY DEF ToOwner
  <1>5. /\ \A m : m \in on <=> m \in Orphans(on) \/ \E q \in Replicas : m \in ToStealer(on, q)
        /\ \A q \in Replicas : \A m \in ToStealer(on, q) : m \notin Orphans(on)
        /\ \A q, p \in Replicas : q # p => \A m \in ToStealer(on, q) : m \notin ToStealer(on, p)
    BY <1>1, PassedOn
  <1>6. \A q \in Replicas : \A m : m \in H[q] <=> m \in ToOwner(S, q) \/ m \in ToStealer(on, q)
    OBVIOUS
  <1>7. \A m : m \in on => m \in P \/ m \in S
    BY DEF Ownerless
  <1>8. \A m : m \in P => m \in on
    OBVIOUS
  <1>9. \A m : m \in P \/ m \in S <=> m \in Orphans(on) \/ \E q \in Replicas : m \in H[q]
    BY <1>2, <1>3, <1>5, <1>6, <1>7, <1>8
  <1>10. \A q \in Replicas : \A m \in H[q] : m \notin Orphans(on)
    BY <1>2, <1>5, <1>6
  <1>11. \A q, p \in Replicas : q # p => \A m \in H[q] : m \notin H[p]
    BY <1>2, <1>4, <1>5, <1>6
  <1> QED
    BY <1>1, <1>9, <1>10, <1>11

(***************************************************************************)
(* What the coordinator does when it gives the marks T to r, or nothing.   *)
(***************************************************************************)
(* The marks T no longer wait, and all others still do: queued for a       *)
(* replica that can read them, or among the leftovers.                     *)
Gives(r, T) ==
    /\ T \subseteq Seen(r, Marks)
    /\ unscanned' \subseteq unscanned /\ leftovers' \subseteq Marks
    /\ queue' \in [Replicas -> SUBSET Marks]
    /\ Apart(unscanned', leftovers', queue')
    /\ \A m : Waits(unscanned, leftovers, queue, m) <=>
                 Waits(unscanned', leftovers', queue', m) \/ m \in T
    /\ \A m \in T : ~Waits(unscanned', leftovers', queue', m)
    /\ \A q \in Replicas : \A m \in queue'[q] :
          \/ m \in queue[q]
          \/ m \in unscanned \cup (queue[r] \ Seen(r, queue[r])) /\ possiblyCanReadPart(q, m)
    /\ \A m \in leftovers' : m \in leftovers \cup unscanned \cup (queue[r] \ Seen(r, queue[r]))

(* A replica gets nothing only if nothing waits that it could be given.    *)
NothingFor(r) ==
    /\ unscanned' = {} /\ Seen(r, leftovers') = {} /\ Seen(r, queue'[r]) = {}
    /\ r \in source => \A q \in unavailable \cup (Replicas \ announced) : Seen(r, queue'[q]) = {}

LEMMA DefaultRequest ==
    ASSUME TypeOK, Apart(unscanned, leftovers, queue), NEW r \in Replicas, handleDefaultRequest(r)
    PROVE  \E T : Answer(r, T) /\ Gives(r, T) /\ (T = {} => NothingFor(r))
  <1> DEFINE k         == MinMarks[mode]
             passed(a) == Passed(r, queue[r], a, k)
             scan(a)   == Scanned(r, k - Cardinality(a))
             b(a)      == scan(a) \intersect Mine(r)
             others(a) == scan(a) \ b(a)
             on(a)     == passed(a) \union Ownerless(others(a))
             filled(a) == [q \in Replicas |->
                             (IF q = r THEN queue[q] \ (a \union passed(a)) ELSE queue[q])
                                \union ToOwner(others(a), q) \union ToStealer(on(a), q)]
             over(a)   == leftovers \union Orphans(on(a))
             rest(a, c) == [q \in Replicas |-> filled(a)[q] \ c]
  <1>1. PICK a \in FirstOf(Seen(r, queue[r]), k) :
          \E c \in FirstOf(Seen(r, filled(a)[r]), k - Cardinality(a \union b(a))) :
          \E d \in SomeOf(StolenByHash(r, rest(a, c)), k - Cardinality(a \union b(a) \union c)) :
          LET wanted == IF a \union b(a) \union c \union d = {} THEN k ELSE 0
          IN  \E e \in SomeOf(Seen(r, over(a)), wanted) :
              \E f \in SomeOf(Abandoned(r, rest(a, c)), wanted - Cardinality(e)) :
                /\ unscanned' = unscanned \ scan(a)
                /\ queue'     = [q \in Replicas |-> rest(a, c)[q] \ (d \union f)]
                /\ leftovers' = over(a) \ e
                /\ Answer(r, a \union b(a) \union c \union d \union e \union f)
    BY DEF handleDefaultRequest
  <1>2a. PICK c \in FirstOf(Seen(r, filled(a)[r]), k - Cardinality(a \union b(a))) :
          \E d \in SomeOf(StolenByHash(r, rest(a, c)), k - Cardinality(a \union b(a) \union c)) :
          LET wanted == IF a \union b(a) \union c \union d = {} THEN k ELSE 0
          IN  \E e \in SomeOf(Seen(r, over(a)), wanted) :
              \E f \in SomeOf(Abandoned(r, rest(a, c)), wanted - Cardinality(e)) :
                /\ unscanned' = unscanned \ scan(a)
                /\ queue'     = [q \in Replicas |-> rest(a, c)[q] \ (d \union f)]
                /\ leftovers' = over(a) \ e
                /\ Answer(r, a \union b(a) \union c \union d \union e \union f)
    BY <1>1
  <1>2b. PICK d \in SomeOf(StolenByHash(r, rest(a, c)), k - Cardinality(a \union b(a) \union c)) :
          LET wanted == IF a \union b(a) \union c \union d = {} THEN k ELSE 0
          IN  \E e \in SomeOf(Seen(r, over(a)), wanted) :
              \E f \in SomeOf(Abandoned(r, rest(a, c)), wanted - Cardinality(e)) :
                /\ unscanned' = unscanned \ scan(a)
                /\ queue'     = [q \in Replicas |-> rest(a, c)[q] \ (d \union f)]
                /\ leftovers' = over(a) \ e
                /\ Answer(r, a \union b(a) \union c \union d \union e \union f)
    BY <1>2a
  <1> DEFINE wanted == IF a \union b(a) \union c \union d = {} THEN k ELSE 0
  <1>2c. PICK e \in SomeOf(Seen(r, over(a)), wanted) :
              \E f \in SomeOf(Abandoned(r, rest(a, c)), wanted - Cardinality(e)) :
                /\ unscanned' = unscanned \ scan(a)
                /\ queue'     = [q \in Replicas |-> rest(a, c)[q] \ (d \union f)]
                /\ leftovers' = over(a) \ e
                /\ Answer(r, a \union b(a) \union c \union d \union e \union f)
    BY <1>2b
  <1>3. PICK f \in SomeOf(Abandoned(r, rest(a, c)), wanted - Cardinality(e)) :
                /\ unscanned' = unscanned \ scan(a)
                /\ queue'     = [q \in Replicas |-> rest(a, c)[q] \ (d \union f)]
                /\ leftovers' = over(a) \ e
                /\ Answer(r, a \union b(a) \union c \union d \union e \union f)
    BY <1>2c
  <1> DEFINE T == a \union b(a) \union c \union d \union e \union f
             P == passed(a)
             S == others(a)
             O == on(a)
             F == filled(a)
             V == over(a)
             H == [q \in Replicas |-> ToOwner(S, q) \cup ToStealer(O, q)]
             g == c \cup d \cup f
  <1>4. /\ a \subseteq Seen(r, queue[r]) /\ c \subseteq Seen(r, F[r])
        /\ d \subseteq StolenByHash(r, rest(a, c)) /\ e \subseteq Seen(r, V)
        /\ f \subseteq Abandoned(r, rest(a, c))
    <2> HIDE DEF filled, over, rest, k, wanted, b
    <2> QED
      BY TakenFrom
  <1>5. /\ unscanned \in SUBSET Marks /\ leftovers \in SUBSET Marks
        /\ queue \in [Replicas -> SUBSET Marks] /\ k \in Nat \ {0}
    BY DEF TypeOK
  <1>6. /\ scan(a) \subseteq unscanned /\ b(a) \subseteq scan(a) /\ b(a) \subseteq Seen(r, Marks)
        /\ P \subseteq queue[r] \ Seen(r, queue[r]) /\ S = scan(a) \ b(a)
    BY <1>5 DEF Scanned, Mine, Passed, Seen
  <1>7. /\ S \in SUBSET Marks /\ P \in SUBSET Marks
        /\ \A m \in S : m \notin P
    BY <1>5, <1>6 DEF Apart
  <1>8. /\ O \in SUBSET Marks
        /\ \A m : m \in P \/ m \in S <=> m \in Orphans(O) \/ \E q \in Replicas : m \in H[q]
        /\ \A q \in Replicas : \A m \in H[q] : m \notin Orphans(O)
        /\ \A q, p \in Replicas : q # p => \A m \in H[q] : m \notin H[p]
    <2>1. \A m : m \in O <=> m \in P \/ m \in Ownerless(S)
      OBVIOUS
    <2>2. \A q \in Replicas : \A m : m \in H[q] <=> m \in ToOwner(S, q) \/ m \in ToStealer(O, q)
      <3> HIDE DEF S, O
      <3> QED
        OBVIOUS
    <2> HIDE DEF P, S, O, H
    <2>3. Enqueues(S, P, O, H)
      BY <2>1, <2>2, <1>7 DEF Enqueues
    <2> QED
      BY <2>3, Enqueued
  <1>9. \A q \in Replicas : \A m :
              m \in F[q] <=> \/ m \in queue[q] /\ (q = r => m \notin a /\ m \notin P)
                             \/ m \in H[q]
    OBVIOUS
  <1>10. V = leftovers \cup Orphans(O)
    OBVIOUS
  <1>11. \A q \in Replicas : rest(a, c)[q] = F[q] \ c
    OBVIOUS
  <1>12. \A q \in Replicas : queue'[q] = F[q] \ g
    BY <1>3, <1>11
  <1>13. /\ T = a \cup b(a) \cup g \cup e /\ leftovers' = V \ e /\ unscanned' = unscanned \ scan(a)
         /\ Answer(r, T) /\ queue' = [q \in Replicas |-> F[q] \ g]
    BY <1>3
  <1>14. H \in [Replicas -> SUBSET Marks]
    <2> HIDE DEF S, O
    <2> QED
      BY <1>7, <1>8 DEF ToOwner, ToStealer
  <1>15. \A q \in Replicas : \A m \in H[q] : possiblyCanReadPart(q, m)
    <2> HIDE DEF S, O
    <2> QED
      BY DEF ToOwner, ToStealer
  <1> HIDE DEF T, P, S, O, F, V, H, g, passed, scan, others, on, filled, over, rest
  <1>16. /\ Apart(unscanned \ scan(a), leftovers \cup Orphans(O), F)
         /\ \A m : Waits(unscanned, leftovers, queue, m) <=>
                      \/ Waits(unscanned \ scan(a), leftovers \cup Orphans(O), F, m)
                      \/ m \in a \/ m \in b(a)
         /\ \A m : m \in a \/ m \in b(a) =>
                      ~Waits(unscanned \ scan(a), leftovers \cup Orphans(O), F, m)
    <2>1. a \subseteq queue[r] /\ P \subseteq queue[r] /\ \A m \in a : m \notin P
      BY <1>4, <1>6 DEF Seen
    <2>2. \A m : m \in P \/ m \in scan(a) \ b(a) <=> m \in Orphans(O) \/ \E q \in Replicas : m \in H[q]
      BY <1>6, <1>8
    <2> HIDE DEF b
    <2> DEFINE UU == unscanned \ scan(a)
               LL == leftovers \cup Orphans(O)
    <2>3. Redistributes(unscanned, leftovers, queue, UU, LL, F, r, a, P, scan(a), b(a), H, Orphans(O))
      BY <2>1, <2>2, <1>6, <1>8, <1>9 DEF Redistributes
    <2> HIDE DEF UU, LL
    <2>4. /\ Apart(UU, LL, F)
          /\ \A m : Waits(unscanned, leftovers, queue, m) <=>
                       Waits(UU, LL, F, m) \/ m \in a \/ m \in b(a)
          /\ \A m : m \in a \/ m \in b(a) => ~Waits(UU, LL, F, m)
      BY <2>3, Redistributed
    <2> QED
      BY <2>4 DEF UU, LL
  <1>17. \A m \in g : \E q \in Replicas : m \in F[q]
    <2>1. ASSUME NEW m \in c
          PROVE  m \in F[r]
      BY <1>4 DEF Seen
    <2>2. ASSUME NEW m \in d
          PROVE  \E q \in Replicas : m \in F[q]
      BY <1>4, <1>11 DEF Seen, StolenByHash
    <2>3. ASSUME NEW m \in f
          PROVE  \E q \in Replicas : m \in F[q]
      <3>1. PICK q \in unavailable \cup (Replicas \ announced) : m \in rest(a, c)[q]
        BY <1>4 DEF Seen, Abandoned
      <3> QED
        BY <3>1, <1>11 DEF TypeOK
    <2> QED
      BY <2>1, <2>2, <2>3 DEF g
  <1>18. /\ Apart(unscanned', leftovers', queue')
         /\ \A m : Waits(unscanned', V, F, m) <=>
                      Waits(unscanned', leftovers', queue', m) \/ m \in e \/ m \in g
         /\ \A m : m \in e \/ m \in g => ~Waits(unscanned', leftovers', queue', m)
    <2>1. e \subseteq V
      BY <1>4 DEF Seen
    <2>2. \A q \in Replicas : \A m : m \in queue'[q] <=> m \in F[q] /\ m \notin g
      BY <1>12
    <2>3. Apart(unscanned', V, F)
      BY <1>10, <1>13, <1>16
    <2>4. TakesOut(V, F, leftovers', queue', e, g)
      BY <2>1, <2>2, <1>13, <1>17 DEF TakesOut
    <2> QED
      BY <2>3, <2>4, TakenOut
  <1>19. /\ \A m : Waits(unscanned, leftovers, queue, m) <=>
                      Waits(unscanned', leftovers', queue', m) \/ m \in T
         /\ \A m \in T : ~Waits(unscanned', leftovers', queue', m)
    <2>1. \A m : Waits(unscanned, leftovers, queue, m) <=>
                      Waits(unscanned', V, F, m) \/ m \in a \/ m \in b(a)
      BY <1>10, <1>13, <1>16
    <2>2. \A m : m \in a \/ m \in b(a) => ~Waits(unscanned', V, F, m)
      BY <1>10, <1>13, <1>16
    <2>3. \A m : m \in T <=> m \in a \/ m \in b(a) \/ m \in g \/ m \in e
      BY <1>13
    <2> QED
      BY <2>1, <2>2, <2>3, <1>18
  <1>20. T \subseteq Seen(r, Marks)
    <2>1. F \in [Replicas -> SUBSET Marks] /\ V \subseteq Marks
      <3>1. \A q \in Replicas : F[q] \subseteq Marks
        BY <1>5, <1>9, <1>14
      <3>2. DOMAIN F = Replicas /\ F = [q \in DOMAIN F |-> F[q]]
        BY DEF F, filled
      <3> QED
        BY <3>1, <3>2, <1>5, <1>8, <1>10 DEF Orphans
    <2>2. \A q \in Replicas : rest(a, c)[q] \subseteq Marks
      BY <2>1, <1>11
    <2>3. c \subseteq Seen(r, Marks) /\ e \subseteq Seen(r, Marks) /\ a \subseteq Seen(r, Marks)
      BY <2>1, <1>4, <1>5 DEF Seen
    <2>4. d \subseteq Seen(r, Marks) /\ f \subseteq Seen(r, Marks)
      BY <2>2, <1>4, <1>5 DEF Seen, StolenByHash, Abandoned, TypeOK
    <2> QED
      BY <2>3, <2>4, <1>6, <1>13 DEF g
  <1>21. unscanned' \subseteq unscanned /\ leftovers' \subseteq Marks
    BY <1>5, <1>8, <1>10, <1>13 DEF Orphans
  <1>22. queue' \in [Replicas -> SUBSET Marks]
    BY <1>5, <1>9, <1>13, <1>14
  <1>23. \A q \in Replicas : \A m \in queue'[q] :
          \/ m \in queue[q]
          \/ m \in unscanned \cup (queue[r] \ Seen(r, queue[r])) /\ possiblyCanReadPart(q, m)
    <2>1. \A q \in Replicas : \A m \in H[q] : m \in P \/ m \in S
      BY <1>8
    <2>2. \A m : m \in P \/ m \in S => m \in unscanned \cup (queue[r] \ Seen(r, queue[r]))
      BY <1>6
    <2> QED
      BY <2>1, <2>2, <1>9, <1>12, <1>15
  <1>24. \A m \in leftovers' : m \in leftovers \cup unscanned \cup (queue[r] \ Seen(r, queue[r]))
    BY <1>6, <1>8, <1>10, <1>13
  <1>25. Gives(r, T)
    BY <1>18, <1>19, <1>20, <1>21, <1>22, <1>23, <1>24 DEF Gives
  <1>26. ASSUME T = {}
         PROVE  NothingFor(r)
    <2>1. a = {} /\ b(a) = {} /\ c = {} /\ d = {} /\ e = {} /\ f = {} /\ wanted = k
      BY <1>26 DEF T
    <2>2. Cardinality({}) = 0
      BY FS_EmptySet
    <2>3. Mine(r) = {}
      <3>1. Mine(r) \in SUBSET Marks
        BY <1>5 DEF Mine, Seen
      <3>2. SUFFICES ASSUME Mine(r) # {}
                     PROVE  FALSE
        OBVIOUS
      <3>3. PICK m \in Mine(r) : {n \in Mine(r) : Before(n, m)} = {}
        BY <3>1, <3>2, FirstMark
      <3>4. m \in unscanned
        BY <3>3 DEF Mine, Seen
      <3>5. m \in scan(a)
        BY <3>3, <3>4, <2>1, <2>2, <1>5 DEF scan, Scanned
      <3> QED
        BY <3>3, <3>5, <2>1 DEF b
    <2>4. scan(a) = unscanned
      <3>1. \A m : {n \in Mine(r) : Before(n, m)} = {}
        BY <2>3
      <3> QED
        <4>1. k - Cardinality(a) = k /\ 0 < k
          <5> HIDE DEF k
          <5> QED
            BY <2>1, <2>2, <1>5
        <4>2. \A m \in unscanned : Cardinality({n \in Mine(r) : Before(n, m)}) < k
          BY <3>1, <2>2, <4>1
        <4> HIDE DEF k
        <4> QED
          BY <4>1, <4>2 DEF scan, Scanned
    <2>5. unscanned' = {}
      BY <2>4, <1>13
    <2>6. g = {} /\ queue' = F /\ leftovers' = V
      BY <2>1, <1>12, <1>13, <1>22 DEF g, F, filled
    <2>7. F \in [Replicas -> SUBSET Marks] /\ V \in SUBSET Marks
      BY <2>6, <1>21, <1>22
    <2>8. \A q \in Replicas : rest(a, c)[q] = F[q]
      BY <2>1, <1>11
    <2>9. Seen(r, F[r]) = {}
      <3>1. {} \in FirstOf(Seen(r, F[r]), k)
        <4>1. k - Cardinality(a \union b(a)) = k
          <5>1. a \union b(a) = {}
            BY <2>1
          <5> HIDE DEF k, b
          <5> QED
            <6>1. Cardinality(a \union b(a)) = 0
              BY <5>1, <2>2, Zenon
            <6> QED
              BY <6>1, <1>5
        <4> QED
          BY <4>1, <2>1 DEF F
      <3>2. Seen(r, F[r]) \in SUBSET Marks
        BY <2>7 DEF Seen
      <3> QED
        BY <3>1, <3>2, <1>5, NothingFirst
    <2>10. Seen(r, V) = {}
      <3>1. {} \in SomeOf(Seen(r, V), k)
        BY <2>1 DEF V
      <3>2. Seen(r, V) \in SUBSET Marks
        BY <2>7 DEF Seen
      <3> QED
        BY <3>1, <3>2, <1>5, NothingTaken
    <2>11. ASSUME r \in source, NEW q \in unavailable \cup (Replicas \ announced)
           PROVE  Seen(r, F[q]) = {}
      <3>1. {} \in SomeOf(Abandoned(r, rest(a, c)), k)
        <4>1. wanted - Cardinality(e) = k
          BY <2>1, <2>2, <1>5
        <4> QED
          BY <4>1, <2>1
      <3>2. q \in Replicas /\ unavailable \subseteq Replicas
        BY DEF TypeOK
      <3>3. Abandoned(r, rest(a, c)) \in SUBSET Marks
        BY <2>7, <2>8, <3>2 DEF Abandoned, Seen
      <3>4. Abandoned(r, rest(a, c)) = {}
        BY <3>1, <3>3, <1>5, NothingTaken
      <3> QED
        BY <3>2, <3>4, <2>8, <2>11 DEF Abandoned, Seen
    <2> QED
      BY <2>5, <2>6, <2>9, <2>10, <2>11 DEF NothingFor
  <1> QED
    BY <1>13, <1>25, <1>26

LEMMA InOrderRequest ==
    ASSUME TypeOK, Apart(unscanned, leftovers, queue), mode # "Default",
           NEW r \in Replicas, handleInOrderRequest(r)
    PROVE  \E T : Answer(r, T) /\ Gives(r, T) /\ T \subseteq unscanned /\ AllAhead(T, unscanned')
  <1> DEFINE k       == MinMarks[mode]
             next(p) == IF mode = "WithOrder" THEN FromFront(OfPart(unscanned, p), k)
                                              ELSE FromBack(OfPart(unscanned, p), k)
             T       == UNION {next(p) : p \in view[r]}
  <1>1. /\ unscanned' = unscanned \ T /\ Answer(r, T)
        /\ queue' = queue /\ leftovers' = leftovers
    BY DEF handleInOrderRequest
  <1>2. unscanned \in SUBSET Marks /\ k \in Nat
    BY DEF TypeOK
  <1>3. \A p : next(p) \subseteq OfPart(unscanned, p)
    BY DEF FromFront, FromBack
  <1>4. \A m \in T : m \in unscanned /\ Part(m) \in view[r] /\ m \in next(Part(m))
    <2>1. ASSUME NEW m \in T
          PROVE  m \in unscanned /\ Part(m) \in view[r] /\ m \in next(Part(m))
      <3>1. PICK p \in view[r] : m \in next(p)
        OBVIOUS
      <3> HIDE DEF next, T
      <3>2. m \in unscanned /\ Part(m) = p
        BY <3>1, <1>3 DEF OfPart
      <3> QED
        BY <3>1, <3>2
    <2> HIDE DEF next, T
    <2> QED
      BY <2>1
  <1>5. ASSUME NEW m \in T, NEW n \in unscanned \ T, Part(m) = Part(n)
        PROVE  Ahead(m, n)
    <2> DEFINE p == Part(m)
    <2>1. m \in next(p) /\ n \in OfPart(unscanned, p) \ next(p)
      <3>1. m \in next(p) /\ p \in view[r]
        BY <1>4
      <3>2. n \notin next(p)
        BY <3>1, <1>5
      <3> HIDE DEF next, T
      <3> QED
        BY <3>1, <3>2, <1>5 DEF OfPart
    <2> HIDE DEF p, T
    <2>2. CASE mode = "WithOrder"
      BY <2>1, <2>2, <1>2, FrontAhead DEF Ahead
    <2>3. CASE mode # "WithOrder"
      BY <2>1, <2>3, <1>2, BackAhead DEF Ahead
    <2> QED
      BY <2>2, <2>3
  <1>6. AllAhead(T, unscanned')
    BY <1>1, <1>5 DEF AllAhead
  <1>7. Gives(r, T)
    <2>1. T \subseteq Seen(r, Marks) /\ T \subseteq unscanned
      BY <1>2, <1>4 DEF Seen
    <2> HIDE DEF T
    <2>2. Apart(unscanned', leftovers', queue')
      BY <1>1 DEF Apart
    <2>3. \A m : Waits(unscanned, leftovers, queue, m) <=>
                    Waits(unscanned', leftovers', queue', m) \/ m \in T
      BY <1>1, <2>1 DEF Waits
    <2>4. \A m \in T : ~Waits(unscanned', leftovers', queue', m)
      BY <1>1, <2>1 DEF Waits, Apart
    <2> QED
      BY <1>1, <2>1, <2>2, <2>3, <2>4 DEF Gives, TypeOK
  <1>8. T \subseteq unscanned
    BY <1>4
  <1> QED
    BY <1>1, <1>6, <1>7, <1>8

(* The segments that a queue gives up keep waiting.                        *)
Keeps(r, S) ==
    /\ leftovers' \subseteq Marks /\ queue' \in [Replicas -> SUBSET Marks]
    /\ Apart(unscanned, leftovers', queue')
    /\ \A m : Waits(unscanned, leftovers, queue, m) <=> Waits(unscanned, leftovers', queue', m)
    /\ \A q \in Replicas : \A m \in queue'[q] :
          \/ m \in queue[q] /\ (q = r => m \notin S)
          \/ m \in S /\ possiblyCanReadPart(q, m)
    /\ \A m \in leftovers' : m \in leftovers \/ m \in S

LEMMA MovedOn ==
    ASSUME TypeOK, Apart(unscanned, leftovers, queue),
           NEW r \in Replicas, NEW S \in SUBSET queue[r], MoveOn(r, S)
    PROVE  Keeps(r, S)
  <1> DEFINE none == {}
             H    == [q \in Replicas |-> ToStealer(S, q)]
             R    == Orphans(S)
  <1>1. S \in SUBSET Marks /\ queue[r] \subseteq Marks
    BY DEF TypeOK
  <1>2. /\ \A m : m \in S <=> m \in R \/ \E q \in Replicas : m \in H[q]
        /\ \A q \in Replicas : \A m \in H[q] : m \notin R
        /\ \A q, p \in Replicas : q # p => \A m \in H[q] : m \notin H[p]
    BY <1>1, PassedOn
  <1>3. \A q \in Replicas : \A m \in H[q] : m \in S /\ possiblyCanReadPart(q, m)
    BY DEF ToStealer
  <1>4. /\ queue' = [q \in Replicas |-> (IF q = r THEN queue[q] \ S ELSE queue[q]) \union H[q]]
        /\ leftovers' = leftovers \union R
    BY DEF MoveOn
  <1>5. R \subseteq S
    BY DEF Orphans
  <1>6. \A m : m \notin none
    OBVIOUS
  <1> HIDE DEF none, H, R
  <1>7. Redistributes(unscanned, leftovers, queue, unscanned, leftovers', queue', r, none, S, none, none, H, R)
    BY <1>2, <1>4, <1>6 DEF Redistributes
  <1>8. /\ Apart(unscanned, leftovers', queue')
        /\ \A m : Waits(unscanned, leftovers, queue, m) <=>
                    Waits(unscanned, leftovers', queue', m) \/ m \in none \/ m \in none
    BY <1>7, Redistributed
  <1>9. leftovers' \subseteq Marks /\ queue' \in [Replicas -> SUBSET Marks]
    BY <1>1, <1>3, <1>4, <1>5 DEF TypeOK
  <1>10. \A q \in Replicas : \A m \in queue'[q] :
            \/ m \in queue[q] /\ (q = r => m \notin S)
            \/ m \in S /\ possiblyCanReadPart(q, m)
    <2>1. ASSUME NEW q \in Replicas, NEW m \in queue'[q]
          PROVE  \/ m \in queue[q] /\ (q = r => m \notin S)
                 \/ m \in H[q]
      BY <2>1, <1>4
    <2> QED
      BY <2>1, <1>3
  <1> QED
    BY <1>4, <1>5, <1>6, <1>8, <1>9, <1>10 DEF Keeps

(***************************************************************************)
(* Tasks.                                                                  *)
(***************************************************************************)
(* The task is the first of the buffer b of r, or the last in reverse      *)
(* order, as far as marks of one part are concerned.                       *)
IsTask(r, b, task) ==
    /\ task \subseteq DOMAIN b
    /\ \A m \in task, n \in DOMAIN b \ task : Part(m) = Part(n) =>
          IF mode = "ReverseOrder" THEN InFront(b, n, m) ELSE InFront(b, m, n)
    /\ read'   = [read EXCEPT ![r] = @ \union task]
    /\ buffer' = [buffer EXCEPT ![r] = Without(b, task)]
    /\ error' = error

LEMMA TaskOfOwnPart ==
    ASSUME NEW r \in Replicas, NEW b, DOMAIN b \subseteq Seen(r, Marks), TakeTask(r, b)
    PROVE  \E task : IsTask(r, b, task)
  <1>1a. PICK p \in Parts : \E task \in (SUBSET OfPart(DOMAIN b, p)) \ {{}} :
        /\ \A m \in task, n \in OfPart(DOMAIN b, p) \ task :
              IF mode = "ReverseOrder" THEN InFront(b, n, m) ELSE InFront(b, m, n)
        /\ IF p \in view[r]
           THEN /\ read'   = [read EXCEPT ![r] = @ \union task]
                /\ buffer' = [buffer EXCEPT ![r] = Without(b, task)]
                /\ UNCHANGED error
           ELSE error' = TRUE /\ UNCHANGED <<read, buffer>>
    BY DEF TakeTask
  <1>1. PICK task \in (SUBSET OfPart(DOMAIN b, p)) \ {{}} :
        /\ \A m \in task, n \in OfPart(DOMAIN b, p) \ task :
              IF mode = "ReverseOrder" THEN InFront(b, n, m) ELSE InFront(b, m, n)
        /\ IF p \in view[r]
           THEN /\ read'   = [read EXCEPT ![r] = @ \union task]
                /\ buffer' = [buffer EXCEPT ![r] = Without(b, task)]
                /\ UNCHANGED error
           ELSE error' = TRUE /\ UNCHANGED <<read, buffer>>
    BY <1>1a
  <1>2. task \subseteq DOMAIN b /\ \A m \in task : Part(m) = p
    BY DEF OfPart
  <1>3. p \in view[r]
    <2>1. PICK m : m \in task
      BY <1>1
    <2> QED
      BY <2>1, <1>2 DEF Seen
  <1>4. \A m \in task, n \in DOMAIN b \ task : Part(m) = Part(n) =>
          IF mode = "ReverseOrder" THEN InFront(b, n, m) ELSE InFront(b, m, n)
    BY <1>1, <1>2 DEF OfPart
  <1> QED
    BY <1>1, <1>2, <1>3, <1>4 DEF IsTask

(***************************************************************************)
(* What an action of a pool means for the marks.                           *)
(***************************************************************************)
(* The pool r waits for the answer T.                                      *)
AnswerTypes(r, T) ==
    /\ response' = [response EXCEPT ![r] = T]
    /\ \E x \in {"waiting", "failed"} : pool' = [pool EXCEPT ![r] = x]
    /\ used' \subseteq Replicas /\ finished' \subseteq Replicas /\ excluded' \subseteq Replicas
    /\ completed' \in BOOLEAN /\ error' \in BOOLEAN

LEMMA AnswerTyped ==
    ASSUME TypeOK, NEW r \in Replicas, NEW T, Answer(r, T)
    PROVE  AnswerTypes(r, T)
  <1>1. CASE T # {}
    BY <1>1 DEF Answer, AnswerTypes, TypeOK
  <1>2. CASE /\ T = {} /\ mode = "Default"
             /\ Cardinality(finished) + 1 = Cardinality(Replicas) - Cardinality(unavailable)
             /\ Unread
    BY <1>2 DEF Answer, AnswerTypes, TypeOK
  <1>3. CASE /\ T = {}
             /\ ~(/\ mode = "Default"
                  /\ Cardinality(finished) + 1 = Cardinality(Replicas) - Cardinality(unavailable)
                  /\ Unread)
    BY <1>3 DEF Answer, AnswerTypes, TypeOK
  <1> QED
    BY <1>1, <1>2, <1>3

(* The answers of getTask without the coordinator's: the reading is        *)
(* completed, or r is finished.                                            *)
Refused(r) ==
    /\ \/ completed /\ error' = error
       \/ r \in finished /\ error' = TRUE
    /\ response' \in {response, [response EXCEPT ![r] = {}]}
    /\ \E x \in {"waiting", "failed"} : pool' = [pool EXCEPT ![r] = x]
    /\ UNCHANGED <<unscanned, queue, leftovers, finished, used, completed, excluded>>

(* The coordinator goes over its ranges and gives T to r.                  *)
Granted(r, T) ==
    /\ ~completed /\ r \notin finished
    /\ Gives(r, T) /\ Answer(r, T)
    /\ mode = "Default" /\ T = {} => NothingFor(r)
    /\ mode # "Default" => T \subseteq unscanned /\ AllAhead(T, unscanned')

(* What it leaves alone.                                                   *)
Frame(r) ==
    /\ pool[r] = "idle"
    /\ mode = "Default" => DOMAIN buffer[r] = {}
    /\ tasks' \in {tasks} \cup {[tasks EXCEPT ![r] = @ \ {p}] : p \in tasks[r]}
    /\ UNCHANGED <<source, announced, unavailable>>
    /\ UNCHANGED <<parameters, buffer, read, failures, failed>>

LEMMA Requested ==
    ASSUME TypeOK, Apart(unscanned, leftovers, queue), NEW r \in Replicas,
           NEW p \in tasks[r], sendReadRequest(r, p)
    PROVE  Frame(r) /\ (Refused(r) \/ \E T : Granted(r, T))
  <1>1. Frame(r)
    BY DEF sendReadRequest, Frame
  <1>2. CASE completed
    BY <1>1, <1>2 DEF sendReadRequest, Refused, TypeOK
  <1>3. CASE ~completed /\ r \in finished
    BY <1>1, <1>3 DEF sendReadRequest, Refused, TypeOK
  <1>4. CASE ~completed /\ r \notin finished
    <2>1. CASE mode = "Default"
      <3>1. handleDefaultRequest(r)
        BY <1>4, <2>1 DEF sendReadRequest
      <3>2. PICK T : Answer(r, T) /\ Gives(r, T) /\ (T = {} => NothingFor(r))
        BY <3>1, DefaultRequest
      <3> QED
        BY <3>2, <2>1, <1>1, <1>4 DEF Granted
    <2>2. CASE mode # "Default"
      <3>1. handleInOrderRequest(r)
        BY <1>4, <2>2 DEF sendReadRequest
      <3>2. PICK T : Answer(r, T) /\ Gives(r, T) /\ T \subseteq unscanned /\ AllAhead(T, unscanned')
        BY <3>1, <2>2, InOrderRequest
      <3> QED
        BY <3>2, <2>2, <1>1, <1>4 DEF Granted
    <2> QED
      BY <2>1, <2>2
  <1> QED
    BY <1>1, <1>2, <1>3, <1>4

(* What receive does to the marks of r: they stay its own.                 *)
Received(r) ==
    \/ response[r] = {} /\ UNCHANGED <<buffer, read, error>>
    \/ /\ response[r] # {} /\ mode = "Default"
       /\ \E task : IsTask(r, Answered(response[r]), task)
    \/ /\ response[r] # {} /\ mode # "Default"
       /\ buffer' = [buffer EXCEPT ![r] = FillBuffer(@, response[r])]
       /\ UNCHANGED <<read, error>>

LEMMA ReceivedOwn ==
    ASSUME GivenOnce, NEW r \in Replicas, receive(r)
    PROVE  Received(r)
  <1>1. DOMAIN Answered(response[r]) = response[r]
    BY DEF Answered
  <1>2. response[r] \subseteq Seen(r, Marks)
    BY DEF GivenOnce, Given
  <1>3. CASE response[r] # {} /\ mode = "Default"
    <2>1. TakeTask(r, Answered(response[r]))
      BY <1>3 DEF receive
    <2> QED
      BY <2>1, <1>1, <1>2, <1>3, TaskOfOwnPart DEF Received
  <1>4. CASE response[r] = {}
    BY <1>4 DEF receive, Received
  <1>5. CASE response[r] # {} /\ mode # "Default"
    BY <1>5 DEF receive, Received
  <1> QED
    BY <1>3, <1>4, <1>5

LEMMA TaskOwn ==
    ASSUME GivenOnce, NEW r \in Replicas, getTask(r)
    PROVE  \E task : IsTask(r, buffer[r], task)
  <1>1. DOMAIN buffer[r] \subseteq Seen(r, Marks)
    BY DEF GivenOnce, Given
  <1> QED
    BY <1>1, TaskOfOwnPart DEF getTask

(***************************************************************************)
(* Types.                                                                  *)
(***************************************************************************)
(* A buffer: marks with the places of their answers.                       *)
IsBuffer(b) == DOMAIN b \subseteq Marks /\ \A m \in DOMAIN b : b[m] \in Int

LEMMA Buffers ==
    ASSUME NEW b, IsBuffer(b), NEW S \in SUBSET Marks
    PROVE  IsBuffer(Without(b, S)) /\ IsBuffer(Answered(S)) /\ IsBuffer(FillBuffer(b, S))
  BY DEF IsBuffer, Without, Answered, FillBuffer, Place

LEMMA BufferSet ==
    ASSUME TypeOK, NEW r \in Replicas, NEW b, IsBuffer(b), buffer' = [buffer EXCEPT ![r] = b]
    PROVE  /\ DOMAIN buffer' = Replicas
           /\ \A q \in Replicas : IsBuffer(buffer'[q])
  BY DEF TypeOK, IsBuffer

LEMMA TaskTypes ==
    ASSUME TypeOK, NEW r \in Replicas, NEW b, IsBuffer(b), NEW task, IsTask(r, b, task)
    PROVE  /\ DOMAIN buffer' = Replicas
           /\ \A q \in Replicas : IsBuffer(buffer'[q])
           /\ read' \in [Replicas -> SUBSET Marks] /\ error' = error
  <1>1. task \in SUBSET Marks
    BY DEF IsTask, IsBuffer
  <1>2. IsBuffer(Without(b, task))
    BY <1>1, Buffers
  <1>3. buffer' = [buffer EXCEPT ![r] = Without(b, task)]
    BY DEF IsTask
  <1>4. read' \in [Replicas -> SUBSET Marks] /\ error' = error
    BY <1>1 DEF IsTask, TypeOK
  <1> QED
    BY <1>2, <1>3, <1>4, BufferSet

LEMMA TypeStep ==
    ASSUME TypeOK, Once, [Next]_vars
    PROVE  TypeOK'
  <1> USE DEF PoolStates
  <1>1. Apart(unscanned, leftovers, queue) /\ GivenOnce
    BY DEF Once
  <1>2. \A q \in Replicas : IsBuffer(buffer[q])
    BY DEF TypeOK, IsBuffer
  <1>3. ASSUME NEW r \in Replicas, announce(r)
        PROVE  TypeOK'
    <2>1. CASE completed
      BY <1>3, <2>1 DEF announce, TypeOK, parameters
    <2>2. CASE ~completed
      <3>1. MoveOn(r, queue[r] \ Seen(r, queue[r]))
        BY <1>3, <2>2 DEF announce
      <3> DEFINE S == queue[r] \ Seen(r, queue[r])
      <3>2. S \in SUBSET queue[r] /\ MoveOn(r, S)
        BY <3>1
      <3> HIDE DEF S
      <3>3. Keeps(r, S)
        BY <3>2, <1>1, MovedOn
      <3>4. leftovers' \subseteq Marks /\ queue' \in [Replicas -> SUBSET Marks]
        BY <3>3 DEF Keeps
      <3>5. unscanned' \subseteq Marks /\ source' \subseteq Replicas /\ announced' \subseteq Replicas
        BY <1>3, <2>2 DEF announce, TypeOK, Seen
      <3> QED
        BY <1>3, <3>4, <3>5 DEF announce, TypeOK, parameters
    <2> QED
      BY <2>1, <2>2
  <1>4. ASSUME NEW r \in Replicas, markReplicaAsUnavailable(r)
        PROVE  TypeOK'
    <2>1. leftovers' \subseteq Marks /\ queue' \in [Replicas -> SUBSET Marks]
      <3>1. CASE unavailable' = Replicas
        BY <1>4, <3>1 DEF markReplicaAsUnavailable, TypeOK
      <3>2. CASE unavailable' # Replicas
        <4> DEFINE S == queue[r]
        <4>1. S \in SUBSET queue[r] /\ MoveOn(r, S)
          BY <1>4, <3>2 DEF markReplicaAsUnavailable
        <4> HIDE DEF S
        <4>2. Keeps(r, S)
          BY <4>1, <1>1, MovedOn
        <4> QED
          BY <4>2 DEF Keeps
      <3> QED
        BY <3>1, <3>2
    <2>2. failures' \in 0..MaxFailures
      BY <1>4 DEF markReplicaAsUnavailable, TypeOK
    <2>3. unavailable' \subseteq Replicas /\ failed' \subseteq Replicas
      BY <1>4 DEF markReplicaAsUnavailable, TypeOK
    <2> QED
      BY <1>4, <2>1, <2>2, <2>3 DEF markReplicaAsUnavailable, TypeOK, parameters, pools
  <1>5. ASSUME NEW r \in Replicas, NEW p \in tasks[r], sendReadRequest(r, p)
        PROVE  TypeOK'
    <2>1. Frame(r)
      BY <1>1, <1>5, Requested
    <2>2. tasks' \in [Replicas -> SUBSET (Parts \union {0})]
      BY <2>1 DEF Frame, TypeOK
    <2>3. CASE Refused(r)
      <3>1. response' \in [Replicas -> SUBSET Marks] /\ pool' \in [Replicas -> PoolStates]
        BY <2>3 DEF Refused, TypeOK
      <3> QED
        BY <2>1, <2>2, <2>3, <3>1 DEF Refused, Frame, TypeOK, parameters
    <2>4. ASSUME NEW T, Granted(r, T)
          PROVE  TypeOK'
      <3>0. Gives(r, T) /\ AnswerTypes(r, T)
        BY <2>4, AnswerTyped DEF Granted
      <3>1. T \in SUBSET Marks
        BY <3>0 DEF Gives, Seen
      <3>2. response' \in [Replicas -> SUBSET Marks] /\ pool' \in [Replicas -> PoolStates]
        BY <3>0, <3>1 DEF AnswerTypes, TypeOK
      <3>3. unscanned' \subseteq Marks /\ leftovers' \subseteq Marks /\ queue' \in [Replicas -> SUBSET Marks]
        BY <3>0 DEF Gives, TypeOK
      <3> QED
        BY <2>1, <2>2, <3>0, <3>2, <3>3 DEF AnswerTypes, Frame, TypeOK, parameters
    <2> QED
      BY <1>1, <1>5, <2>3, <2>4, Requested
  <1>6. ASSUME NEW r \in Replicas, receive(r)
        PROVE  TypeOK'
    <2>1. response[r] \in SUBSET Marks
      BY DEF TypeOK
    <2>2. IsBuffer(Answered(response[r])) /\ IsBuffer(FillBuffer(buffer[r], response[r]))
      BY <1>2, <2>1, Buffers
    <2>3. /\ DOMAIN buffer' = Replicas
          /\ \A q \in Replicas : IsBuffer(buffer'[q])
          /\ read' \in [Replicas -> SUBSET Marks] /\ error' = error
      <3>1. CASE response[r] = {} /\ UNCHANGED <<buffer, read, error>>
        BY <3>1, <1>2 DEF TypeOK
      <3>2. ASSUME NEW task, IsTask(r, Answered(response[r]), task)
            PROVE  /\ DOMAIN buffer' = Replicas
                   /\ \A q \in Replicas : IsBuffer(buffer'[q])
                   /\ read' \in [Replicas -> SUBSET Marks] /\ error' = error
        BY <3>2, <2>2, TaskTypes
      <3>3. CASE buffer' = [buffer EXCEPT ![r] = FillBuffer(@, response[r])] /\ UNCHANGED <<read, error>>
        BY <3>3, <2>2, BufferSet DEF TypeOK
      <3> QED
        BY <1>1, <1>6, <3>1, <3>2, <3>3, ReceivedOwn DEF Received
    <2>4. pool' \in [Replicas -> PoolStates] /\ response' \in [Replicas -> SUBSET Marks]
      BY <1>6 DEF receive, TypeOK
    <2> QED
      BY <1>6, <2>3, <2>4 DEF receive, TypeOK, IsBuffer, parameters, coordinator
  <1>7. ASSUME NEW r \in Replicas, receiveThrows(r)
        PROVE  TypeOK'
    <2>1. pool' \in [Replicas -> PoolStates] /\ failures' \in 0..MaxFailures
      BY <1>7 DEF receiveThrows, TypeOK
    <2> QED
      BY <1>7, <2>1 DEF receiveThrows, TypeOK, parameters, coordinator
  <1>8. ASSUME NEW r \in Replicas, getTask(r)
        PROVE  TypeOK'
    <2>1. PICK task : IsTask(r, buffer[r], task)
      BY <1>1, <1>8, TaskOwn
    <2>2. /\ DOMAIN buffer' = Replicas
          /\ \A q \in Replicas : IsBuffer(buffer'[q])
          /\ read' \in [Replicas -> SUBSET Marks] /\ error' = error
      BY <1>2, <2>1, TaskTypes
    <2> QED
      BY <1>8, <2>2 DEF getTask, TypeOK, IsBuffer, parameters, coordinator
  <1>9. ASSUME cancelUnused
        PROVE  TypeOK'
    <2>1. pool' \in [Replicas -> PoolStates]
      BY <1>9 DEF cancelUnused, TypeOK
    <2> QED
      BY <1>9, <2>1 DEF cancelUnused, TypeOK, parameters, coordinator
  <1>10. ASSUME UNCHANGED vars
         PROVE  TypeOK'
    BY <1>10 DEF TypeOK, vars, parameters, coordinator, pools
  <1> QED
    BY <1>3, <1>4, <1>5, <1>6, <1>7, <1>8, <1>9, <1>10 DEF Next, PoolStep

(***************************************************************************)
(* Every mark is in one place.                                             *)
(***************************************************************************)
(* Steps in which nothing new is given.                                    *)
LEMMA GivenKept ==
    ASSUME Once, view' = view, source' = source, UNCHANGED unscanned,
           Apart(unscanned', leftovers', queue'),
           \A m : Waits(unscanned, leftovers, queue, m) <=> Waits(unscanned', leftovers', queue', m),
           \A q \in Replicas : \A m : m \in Given(q) <=> m \in Given(q)',
           \A q \in Replicas : HasOnce(q)', AnswerAwaited'
    PROVE  Once'
  <1>1. Snapshot' = Snapshot
    BY DEF Snapshot, Seen
  <1>2. GivenOnce'
    <2>1. \A r \in Replicas : \A m \in Given(r)' : m \in Seen(r, Marks)' /\ ~Waits(unscanned', leftovers', queue', m)
      BY DEF Once, GivenOnce, Seen
    <2>2. \A r \in Replicas : \A q \in Replicas : q # r => \A m \in Given(r)' : m \notin Given(q)'
      BY DEF Once, GivenOnce
    <2> QED
      BY <2>1, <2>2 DEF GivenOnce
  <1>3. Accounted'
    BY <1>1 DEF Once, Accounted
  <1> QED
    BY <1>2, <1>3 DEF Once

(* A step that changes nothing that Once speaks about but the pools.       *)
LEMMA OnceKept ==
    ASSUME Once, UNCHANGED <<mode, view, source, unscanned, leftovers, queue, response, buffer, read>>,
           \A r \in Replicas : pool'[r] \in {"new", "idle", "done"} => response[r] = {}
    PROVE  Once'
  <1>1. AnswerAwaited'
    BY DEF Once, AnswerAwaited
  <1>2. \A r \in Replicas : HasOnce(r)'
    BY DEF Once, HasOnce
  <1>3. \A r \in Replicas : Given(r)' = Given(r)
    BY DEF Given
  <1>4. Apart(unscanned', leftovers', queue')
    BY DEF Once
  <1> QED
    BY <1>1, <1>2, <1>3, <1>4, GivenKept

LEMMA OnceGives ==
    ASSUME TypeOK, Once, NEW r \in Replicas, NEW T, Gives(r, T), AnswerTypes(r, T), Frame(r)
    PROVE  Once'
  <1>1. response[r] = {}
    BY DEF Frame, Once, AnswerAwaited
  <1>2. \A q \in Replicas : \A m : m \in Given(q)' <=> m \in Given(q) \/ (q = r /\ m \in T)
    BY <1>1 DEF AnswerTypes, Frame, Given, TypeOK
  <1>3. Snapshot' = Snapshot
    BY DEF Snapshot, Seen, Frame, parameters
  <1>4. T \subseteq Seen(r, Marks) /\ \A m \in T : Waits(unscanned, leftovers, queue, m)
    BY DEF Gives
  <1>5. \A q \in Replicas : \A m \in Given(q) : m \notin T
    BY <1>4 DEF Once, GivenOnce
  <1>6. GivenOnce'
    <2>1. \A q \in Replicas : \A m \in Given(q)' : m \in Seen(q, Marks)'
      BY <1>2, <1>4 DEF Once, GivenOnce, Seen, Frame, parameters
    <2>2. \A q \in Replicas : \A m \in Given(q)' : ~Waits(unscanned', leftovers', queue', m)
      BY <1>2 DEF Once, GivenOnce, Gives
    <2>3. \A q, p \in Replicas : p # q => \A m \in Given(q)' : m \notin Given(p)'
      BY <1>2, <1>5 DEF Once, GivenOnce
    <2> QED
      BY <2>1, <2>2, <2>3 DEF GivenOnce
  <1>7. Accounted'
    <2>1. \A m : m \in Snapshot <=> \/ Waits(unscanned, leftovers, queue, m)
                                    \/ \E q \in Replicas : m \in Given(q)
      BY DEF Once, Accounted
    <2>2. \A m : Waits(unscanned, leftovers, queue, m) <=>
                    Waits(unscanned', leftovers', queue', m) \/ m \in T
      BY DEF Gives
    <2> QED
      BY <2>1, <2>2, <1>2, <1>3 DEF Accounted
  <1>8. \A q \in Replicas : HasOnce(q)'
    <2>1. \A q \in Replicas : q # r => response'[q] = response[q]
      BY DEF AnswerTypes, TypeOK
    <2>2. response'[r] = T
      BY DEF AnswerTypes, TypeOK
    <2>3. \A m \in T : m \notin DOMAIN buffer[r] /\ m \notin read[r]
      BY <1>5 DEF Given
    <2> QED
      BY <2>1, <2>2, <2>3 DEF Once, HasOnce, Frame
  <1>9. AnswerAwaited'
    <2>1. \A q \in Replicas : q # r => response'[q] = response[q] /\ pool'[q] = pool[q]
      BY DEF AnswerTypes, TypeOK
    <2>2. pool'[r] \notin {"new", "idle", "done"}
      BY DEF AnswerTypes, TypeOK
    <2>3. mode' = mode /\ buffer' = buffer /\ (mode = "Default" => DOMAIN buffer[r] = {})
      BY DEF Frame, parameters
    <2> QED
      BY <2>1, <2>2, <2>3 DEF Once, AnswerAwaited
  <1>10. Apart(unscanned', leftovers', queue')
    BY DEF Gives
  <1> QED
    BY <1>6, <1>7, <1>8, <1>9, <1>10 DEF Once

LEMMA OnceRefused ==
    ASSUME TypeOK, Once, NEW r \in Replicas, Refused(r), Frame(r)
    PROVE  Once'
  <1>1. response[r] = {}
    BY DEF Frame, Once, AnswerAwaited
  <1>2. response' = response
    <2>1. CASE response' = [response EXCEPT ![r] = {}]
      <3>1. \A q \in Replicas : response'[q] = response[q]
        BY <2>1, <1>1 DEF TypeOK
      <3>2. DOMAIN response' = Replicas /\ response' = [q \in Replicas |-> response'[q]]
        BY <2>1 DEF TypeOK
      <3>3. response = [q \in Replicas |-> response[q]]
        BY DEF TypeOK
      <3> QED
        BY <3>1, <3>2, <3>3
    <2> QED
      BY <2>1 DEF Refused
  <1>3. \A q \in Replicas : pool'[q] \in {"new", "idle", "done"} => response[q] = {}
    BY <1>1 DEF Refused, TypeOK, Once, AnswerAwaited
  <1> QED
    BY <1>2, <1>3, OnceKept DEF Refused, Frame, parameters

LEMMA OnceTask ==
    ASSUME TypeOK, Once, NEW r \in Replicas, NEW b, NEW task, IsTask(r, b, task),
           UNCHANGED <<mode, view, source, unscanned, leftovers, queue>>,
           response' \in [Replicas -> SUBSET Marks],
           \A q \in Replicas : q # r => response'[q] = response[q],
           \A m : m \in response'[r] \/ m \in DOMAIN b <=> m \in response[r] \/ m \in DOMAIN buffer[r],
           \A m \in DOMAIN b : m \notin response'[r] /\ m \notin read[r],
           \A m \in response'[r] : m \notin read[r],
           AnswerAwaited'
    PROVE  Once'
  <1>1. \A q \in Replicas : q # r => read'[q] = read[q] /\ buffer'[q] = buffer[q]
    BY DEF IsTask, TypeOK
  <1>2. read'[r] = read[r] \cup task /\ DOMAIN buffer'[r] = DOMAIN b \ task /\ task \subseteq DOMAIN b
    BY DEF IsTask, TypeOK, Without
  <1>3. \A q \in Replicas : \A m : m \in Given(q) <=> m \in Given(q)'
    <2>1. ASSUME NEW m
          PROVE  m \in Given(r) <=> m \in Given(r)'
      BY <1>2 DEF Given
    <2> QED
      BY <2>1, <1>1 DEF Given
  <1>4. \A q \in Replicas : HasOnce(q)'
    <2>1. HasOnce(r)'
      BY <1>2 DEF HasOnce
    <2> QED
      BY <2>1, <1>1 DEF Once, HasOnce
  <1>5. Apart(unscanned', leftovers', queue')
    BY DEF Once
  <1> QED
    BY <1>3, <1>4, <1>5, GivenKept

LEMMA OnceStep ==
    ASSUME TypeOK, Once, [Next]_vars
    PROVE  Once'
  <1>0. Apart(unscanned, leftovers, queue) /\ GivenOnce
    BY DEF Once
  <1>1. ASSUME NEW r \in Replicas, announce(r)
        PROVE  Once'
    <2>1. response[r] = {} /\ \A q \in Replicas : pool'[q] \in {"new", "idle", "done"} => response[q] = {}
      BY <1>1 DEF announce, Once, AnswerAwaited, TypeOK
    <2>2. CASE completed
      BY <1>1, <2>1, <2>2, OnceKept DEF announce, parameters
    <2>3. CASE ~completed
      <3> DEFINE S == queue[r] \ Seen(r, queue[r])
      <3>1. S \in SUBSET queue[r] /\ MoveOn(r, S)
        BY <1>1, <2>3 DEF announce
      <3>2. ~completed /\ UNCHANGED <<mode, view, response, buffer, read>>
        BY <1>1, <2>3 DEF announce, parameters
      <3> HIDE DEF S
      <3>3. Keeps(r, S)
        BY <3>1, <1>0, MovedOn
      <3>4. AnswerAwaited'
        BY <2>1, <3>2 DEF Once, AnswerAwaited
      <3>5. \A q \in Replicas : HasOnce(q)' /\ Given(q)' = Given(q)
        BY <3>2 DEF Once, HasOnce, Given
      <3>6. CASE source # {}
        <4>1. source' = source /\ unscanned' = unscanned
          BY <1>1, <3>2, <3>6 DEF announce
        <4> QED
          BY <3>2, <3>3, <3>4, <3>5, <4>1, GivenKept DEF Keeps
      <3>7. CASE source = {}
        <4>1. source' = {r} /\ unscanned' = Seen(r, Marks)
          BY <1>1, <3>2, <3>7 DEF announce
        <4>2. Snapshot = {}
          BY <3>7 DEF Snapshot
        <4>3. \A m : ~Waits(unscanned, leftovers, queue, m) /\ \A q \in Replicas : m \notin Given(q)
          BY <4>2 DEF Once, Accounted
        <4>4. \A m : m \notin leftovers' /\ \A q \in Replicas : m \notin queue'[q]
          BY <3>3, <4>3 DEF Keeps, Waits
        <4>5. Apart(unscanned', leftovers', queue')
          BY <4>4 DEF Apart
        <4>6. GivenOnce'
          BY <4>3, <3>5 DEF GivenOnce
        <4>7. \A m : m \in Snapshot' <=> m \in unscanned'
          BY <4>1, <3>2 DEF Snapshot, Seen
        <4>8. Accounted'
          BY <4>3, <4>4, <4>7, <3>5 DEF Accounted, Waits
        <4> QED
          BY <3>4, <3>5, <4>5, <4>6, <4>8 DEF Once
      <3> QED
        BY <3>6, <3>7
    <2> QED
      BY <2>2, <2>3
  <1>2. ASSUME NEW r \in Replicas, markReplicaAsUnavailable(r)
        PROVE  Once'
    <2>1. UNCHANGED <<mode, view, source, unscanned, pool, response, buffer, read>>
      BY <1>2 DEF markReplicaAsUnavailable, parameters, pools
    <2>2. \A q \in Replicas : pool'[q] \in {"new", "idle", "done"} => response[q] = {}
      BY <2>1 DEF Once, AnswerAwaited
    <2>3. CASE unavailable' = Replicas
      <3>1. UNCHANGED <<queue, leftovers>>
        BY <1>2, <2>3 DEF markReplicaAsUnavailable
      <3> QED
        BY <2>1, <2>2, <3>1, OnceKept
    <2>4. CASE unavailable' # Replicas
      <3> DEFINE S == queue[r]
      <3>1. S \in SUBSET queue[r] /\ MoveOn(r, S)
        BY <1>2, <2>4 DEF markReplicaAsUnavailable
      <3> HIDE DEF S
      <3>3. Keeps(r, S)
        BY <3>1, <1>0, MovedOn
      <3>4. AnswerAwaited'
        BY <2>1 DEF Once, AnswerAwaited
      <3>5. \A q \in Replicas : HasOnce(q)' /\ Given(q)' = Given(q)
        BY <2>1 DEF Once, HasOnce, Given
      <3> QED
        BY <2>1, <3>3, <3>4, <3>5, GivenKept DEF Keeps
    <2> QED
      BY <2>3, <2>4
  <1>3. ASSUME NEW r \in Replicas, NEW p \in tasks[r], sendReadRequest(r, p)
        PROVE  Once'
    <2>1. Frame(r) /\ (Refused(r) \/ \E T : Granted(r, T))
      BY <1>0, <1>3, Requested
    <2>2. ASSUME NEW T, Granted(r, T)
          PROVE  Once'
      <3>1. Gives(r, T) /\ AnswerTypes(r, T)
        BY <2>2, AnswerTyped DEF Granted
      <3> QED
        BY <2>1, <3>1, OnceGives
    <2> QED
      BY <2>1, <2>2, OnceRefused
  <1>4. ASSUME NEW r \in Replicas, receive(r)
        PROVE  Once'
    <2>1. /\ UNCHANGED <<mode, view, source, unscanned, leftovers, queue>>
          /\ response' = [response EXCEPT ![r] = {}]
          /\ pool' = [pool EXCEPT ![r] = IF response[r] = {} THEN "done" ELSE "idle"]
      BY <1>4 DEF receive, parameters, coordinator
    <2>2. /\ response'[r] = {} /\ pool'[r] \in {"done", "idle"}
          /\ \A q \in Replicas : q # r => response'[q] = response[q] /\ pool'[q] = pool[q]
          /\ response' \in [Replicas -> SUBSET Marks]
      BY <2>1 DEF TypeOK
    <2>3. Received(r)
      BY <1>0, <1>4, ReceivedOwn
    <2>4. \A q \in Replicas : q # r => buffer'[q] = buffer[q]
      BY <2>3 DEF Received, IsTask, TypeOK
    <2>5. AnswerAwaited'
      BY <2>1, <2>2, <2>4 DEF Once, AnswerAwaited
    <2>6. \A m \in response[r] : m \notin DOMAIN buffer[r] /\ m \notin read[r]
      BY DEF Once, HasOnce, TypeOK
    <2>7. \A m \in DOMAIN buffer[r] : m \notin read[r]
      BY DEF Once, HasOnce, TypeOK
    <2>8. CASE response[r] = {} /\ UNCHANGED <<buffer, read, error>>
      <3>1. response' = response
        BY <2>1, <2>8 DEF TypeOK
      <3>2. \A q \in Replicas : pool'[q] \in {"new", "idle", "done"} => response[q] = {}
        BY <2>2, <2>5, <3>1 DEF AnswerAwaited
      <3> QED
        BY <2>1, <2>8, <3>1, <3>2, OnceKept
    <2>9. ASSUME response[r] # {}, mode = "Default", NEW task, IsTask(r, Answered(response[r]), task)
          PROVE  Once'
      <3> DEFINE b == Answered(response[r])
      <3>1. DOMAIN b = response[r]
        BY DEF Answered
      <3>2. DOMAIN buffer[r] = {}
        BY <2>9 DEF Once, AnswerAwaited
      <3>3. IsTask(r, b, task)
        BY <2>9
      <3> HIDE DEF b
      <3> QED
        BY <2>1, <2>2, <2>5, <2>6, <3>1, <3>2, <3>3, OnceTask
    <2>10. CASE /\ response[r] # {} /\ mode # "Default"
                /\ buffer' = [buffer EXCEPT ![r] = FillBuffer(@, response[r])]
                /\ UNCHANGED <<read, error>>
      <3>1. DOMAIN buffer'[r] = DOMAIN buffer[r] \cup response[r]
        BY <2>10 DEF FillBuffer, Place, TypeOK
      <3>2. \A q \in Replicas : \A m : m \in Given(q) <=> m \in Given(q)'
        BY <2>2, <2>4, <2>10, <3>1 DEF Given
      <3>3. HasOnce(r)'
        BY <2>2, <2>6, <2>7, <2>10, <3>1 DEF HasOnce
      <3>4. \A q \in Replicas : HasOnce(q)'
        BY <2>2, <2>4, <2>10, <3>3 DEF HasOnce, Once
      <3>5. Apart(unscanned', leftovers', queue')
        BY <2>1 DEF Once
      <3> QED
        BY <2>1, <2>5, <3>2, <3>4, <3>5, GivenKept
    <2> QED
      BY <2>3, <2>8, <2>9, <2>10 DEF Received
  <1>5. ASSUME NEW r \in Replicas, receiveThrows(r)
        PROVE  Once'
    <2>1. UNCHANGED <<mode, view, source, unscanned, leftovers, queue, response, buffer, read>>
      BY <1>5 DEF receiveThrows, parameters, coordinator
    <2>2. \A q \in Replicas : pool'[q] \in {"new", "idle", "done"} => response[q] = {}
      BY <1>5 DEF receiveThrows, Once, AnswerAwaited, TypeOK
    <2> QED
      BY <2>1, <2>2, OnceKept
  <1>6. ASSUME NEW r \in Replicas, getTask(r)
        PROVE  Once'
    <2>1. /\ UNCHANGED <<mode, view, source, unscanned, leftovers, queue, response, pool>>
          /\ pool[r] \in {"idle", "done"}
      BY <1>6 DEF getTask, parameters, coordinator
    <2>2. response[r] = {}
      BY <2>1 DEF Once, AnswerAwaited
    <2>3. PICK task : IsTask(r, buffer[r], task)
      BY <1>0, <1>6, TaskOwn
    <2>4. \A m \in DOMAIN buffer[r] : m \notin read[r]
      BY DEF Once, HasOnce, TypeOK
    <2>5. /\ \A q \in Replicas : q # r => buffer'[q] = buffer[q]
          /\ DOMAIN buffer'[r] \subseteq DOMAIN buffer[r]
      BY <2>3 DEF IsTask, TypeOK, Without
    <2>6. AnswerAwaited'
      BY <2>1, <2>2, <2>5 DEF Once, AnswerAwaited
    <2>7. response' \in [Replicas -> SUBSET Marks]
      BY <2>1 DEF TypeOK
    <2> DEFINE b == buffer[r]
    <2>8. IsTask(r, b, task) /\ \A m \in DOMAIN b : m \notin response'[r] /\ m \notin read[r]
      BY <2>1, <2>2, <2>3, <2>4
    <2>9. \A m : m \in response'[r] \/ m \in DOMAIN b <=> m \in response[r] \/ m \in DOMAIN buffer[r]
      BY <2>1
    <2> HIDE DEF b
    <2> QED
      BY <2>1, <2>2, <2>6, <2>7, <2>8, <2>9, OnceTask
  <1>7. ASSUME cancelUnused
        PROVE  Once'
    <2>1. UNCHANGED <<mode, view, source, unscanned, leftovers, queue, response, buffer, read>>
      BY <1>7 DEF cancelUnused, parameters, coordinator
    <2>2. \A q \in Replicas : pool'[q] \in {"new", "idle", "done"} => response[q] = {}
      BY <1>7 DEF cancelUnused, Once, AnswerAwaited, TypeOK
    <2> QED
      BY <2>1, <2>2, OnceKept
  <1>8. ASSUME UNCHANGED vars
        PROVE  Once'
    <2>1. UNCHANGED <<mode, view, source, unscanned, leftovers, queue, response, buffer, read, pool>>
      BY <1>8 DEF vars, parameters, coordinator, pools
    <2>2. \A q \in Replicas : pool'[q] \in {"new", "idle", "done"} => response[q] = {}
      BY <2>1 DEF Once, AnswerAwaited
    <2> QED
      BY <2>1, <2>2, OnceKept
  <1> QED
    BY <1>1, <1>2, <1>3, <1>4, <1>5, <1>6, <1>7, <1>8 DEF Next, PoolStep

(***************************************************************************)
(* What the coordinator knows of the replicas.                             *)
(***************************************************************************)
(* When a replica is the last one, the others are finished or unavailable. *)
LEMMA LastOne ==
    ASSUME TypeOK, FinishedStays, NEW r \in Replicas, r \notin finished, r \notin unavailable,
           Cardinality(finished) + 1 = Cardinality(Replicas) - Cardinality(unavailable)
    PROVE  \A q \in Replicas : q = r \/ q \in finished \/ q \in unavailable
  <1> DEFINE A == finished \cup unavailable
             B == A \cup {r}
  <1>1. finished \in SUBSET Replicas /\ unavailable \in SUBSET Replicas /\ IsFiniteSet(Replicas)
    BY DEF TypeOK
  <1>2. IsFiniteSet(finished) /\ IsFiniteSet(unavailable)
    BY <1>1, FS_Subset
  <1>3. finished \cap unavailable = {}
    BY DEF FinishedStays
  <1>4. /\ Cardinality(finished) \in Nat /\ Cardinality(unavailable) \in Nat
        /\ Cardinality(Replicas) \in Nat
    BY <1>1, <1>2, FS_CardinalityType
  <1>5. IsFiniteSet(A) /\ Cardinality(A) = Cardinality(finished) + Cardinality(unavailable)
    <2>1. Cardinality(finished \cap unavailable) = 0
      BY <1>3, FS_EmptySet, Zenon
    <2>2. Cardinality(A) = Cardinality(finished) + Cardinality(unavailable) - 0
      BY <1>2, <2>1, FS_Union
    <2>3. IsFiniteSet(A)
      BY <1>2, FS_Union
    <2> HIDE DEF A
    <2> QED
      BY <1>4, <2>2, <2>3
  <1>6. r \notin A
    OBVIOUS
  <1>7. B \in SUBSET Replicas
    BY <1>1
  <1>8. Cardinality(B) = Cardinality(A) + 1
    <2> HIDE DEF A
    <2> QED
      BY <1>5, <1>6, FS_AddElement
  <1>9. Cardinality(Replicas) = Cardinality(B)
    <2> HIDE DEF A, B
    <2> QED
      BY <1>4, <1>5, <1>8
  <1>10. Replicas = B
    <2> HIDE DEF B
    <2> QED
      BY <1>1, <1>7, <1>9, FS_Subset
  <1> QED
    BY <1>10

(* A segment that is queued anew is one that its replica can read.         *)
LEMMA QueuesStayRead ==
    ASSUME QueuesRead, view' = view, announced' = announced, finished' = finished, mode' = mode,
           unavailable' = unavailable,
           \A q \in Replicas : \A m \in queue'[q] : m \in queue[q] \/ possiblyCanReadPart(q, m),
           TypeOK, queue' \in [Replicas -> SUBSET Marks]
    PROVE  QueuesRead'
  <1>1. \A r \in announced' : \A m \in queue'[r] : Part(m) \in view'[r]
    BY DEF QueuesRead, possiblyCanReadPart, TypeOK
  <1>2. unavailable' # Replicas => \A r \in unavailable' : queue'[r] = {}
    BY DEF QueuesRead, possiblyCanReadPart, TypeOK
  <1>3. mode' = "Default" => \A r \in finished' : queue'[r] = {}
    BY DEF QueuesRead, possiblyCanReadPart, TypeOK
  <1> QED
    BY <1>1, <1>2, <1>3 DEF QueuesRead

(* A step that only moves pools on.                                        *)
LEMMA CoordinatedKept ==
    ASSUME TypeOK, Coordinated, UNCHANGED <<mode, view, coordinator>>,
           NEW r \in Replicas, pool[r] \in {"idle", "waiting"}, pool'[r] # "new",
           r \in finished => pool'[r] # "idle",
           \A q \in Replicas : q # r => pool'[q] = pool[q],
           \A q \in Replicas : response[q] = {} => response'[q] = {}
    PROVE  Coordinated'
  <1>1. Announcements'
    BY DEF Coordinated, Announcements, coordinator, TypeOK
  <1>2. FinishedStays'
    BY DEF Coordinated, FinishedStays, coordinator, TypeOK
  <1>3. QueuesRead' /\ SourceFinishes'
    BY DEF Coordinated, QueuesRead, SourceFinishes, coordinator
  <1> QED
    BY <1>1, <1>2, <1>3 DEF Coordinated

LEMMA CoordinatedAnnounce ==
    ASSUME TypeOK, Once, Coordinated, NEW r \in Replicas, announce(r)
    PROVE  Coordinated'
  <1> USE DEF Coordinated
  <1>1. /\ pool[r] = "new" /\ r \notin unavailable /\ pool' = [pool EXCEPT ![r] = "idle"]
        /\ UNCHANGED <<mode, view, unavailable, finished, completed, response>>
    BY DEF announce, parameters
  <1>2. r \notin finished /\ r \notin announced
    BY <1>1 DEF FinishedStays, Announcements
  <1>3. /\ pool'[r] = "idle" /\ \A q \in Replicas : q # r => pool'[q] = pool[q]
        /\ pool' \in [Replicas -> PoolStates]
    BY <1>1 DEF TypeOK, PoolStates
  <1>4. FinishedStays'
    BY <1>1, <1>2, <1>3 DEF FinishedStays, TypeOK
  <1>5. CASE completed
    <2>1. UNCHANGED <<source, announced, unscanned, queue, leftovers>>
      BY <1>5 DEF announce
    <2>2. Announcements'
      BY <1>1, <1>3, <1>5, <2>1 DEF Announcements, TypeOK
    <2> QED
      BY <1>1, <1>4, <2>1, <2>2 DEF QueuesRead, SourceFinishes
  <1>6. CASE ~completed
    <2> DEFINE S == queue[r] \ Seen(r, queue[r])
    <2>1. S \in SUBSET queue[r] /\ MoveOn(r, S)
      BY <1>6 DEF announce
    <2>2. \A m : m \in S <=> m \in queue[r] /\ Part(m) \notin view[r]
      BY DEF Seen
    <2> HIDE DEF S
    <2>3. Keeps(r, S)
      BY <2>1, MovedOn DEF Once
    <2>4. /\ announced' = announced \union {r}
          /\ source' = IF source = {} THEN {r} ELSE source
          /\ unscanned' = IF source = {} THEN Seen(r, Marks) ELSE unscanned
      BY <1>6 DEF announce
    <2>5. Announcements'
      BY <1>1, <1>2, <1>3, <2>4 DEF Announcements, TypeOK
    <2>6. QueuesRead'
      <3>1. ASSUME NEW q \in announced', NEW m \in queue'[q]
            PROVE  Part(m) \in view'[q]
        <4>1. q \in Replicas
          BY <2>4 DEF TypeOK
        <4>2. CASE m \in queue[q] /\ (q = r => m \notin S)
          BY <4>1, <4>2, <1>1, <2>2, <2>4 DEF QueuesRead
        <4>3. CASE possiblyCanReadPart(q, m)
          BY <4>3, <1>1, <3>1 DEF possiblyCanReadPart
        <4> QED
          BY <4>1, <4>2, <4>3, <2>3, <3>1 DEF Keeps
      <3>2. unavailable' # Replicas => \A q \in unavailable' : queue'[q] = {}
        BY <1>1, <2>3 DEF QueuesRead, Keeps, possiblyCanReadPart, TypeOK
      <3>3. mode' = "Default" => \A q \in finished' : queue'[q] = {}
        BY <1>1, <2>3 DEF QueuesRead, Keeps, possiblyCanReadPart, TypeOK
      <3> QED
        BY <3>1, <3>2, <3>3 DEF QueuesRead
    <2>7. SourceFinishes'
      <3>1. SUFFICES ASSUME mode = "Default", NEW s \in source', s \in finished
                     PROVE  /\ unscanned' = {} /\ leftovers' = {}
                            /\ \A q \in Replicas \ announced' : queue'[q] = {}
        BY <1>1 DEF SourceFinishes
      <3>2. source # {} /\ s \in source
        BY <3>1, <1>2, <2>4
      <3>3. unscanned = {} /\ leftovers = {} /\ \A q \in Replicas \ announced : queue[q] = {}
        BY <3>1, <3>2 DEF SourceFinishes
      <3>4. \A m : m \notin S
        BY <3>3, <1>2, <2>2
      <3> QED
        BY <3>2, <3>3, <3>4, <2>3, <2>4 DEF Keeps
    <2> QED
      BY <1>4, <2>5, <2>6, <2>7
  <1> QED
    BY <1>5, <1>6

LEMMA CoordinatedUnavailable ==
    ASSUME TypeOK, Once, Coordinated, NEW r \in Replicas, markReplicaAsUnavailable(r)
    PROVE  Coordinated'
  <1> USE DEF Coordinated
  <1>1. /\ pool[r] = "new" /\ unavailable' = unavailable \union {r}
        /\ UNCHANGED <<mode, view, source, announced, unscanned, finished, completed, pool, response>>
    BY DEF markReplicaAsUnavailable, parameters, pools
  <1>2. r \notin finished /\ r \notin announced
    BY <1>1 DEF FinishedStays, Announcements
  <1>3. FinishedStays'
    BY <1>1, <1>2 DEF FinishedStays
  <1>4. Announcements'
    BY <1>1, <1>2 DEF Announcements, TypeOK
  <1>5. CASE unavailable' = Replicas
    BY <1>1, <1>3, <1>4, <1>5 DEF markReplicaAsUnavailable, QueuesRead, SourceFinishes
  <1>6. CASE unavailable' # Replicas
    <2> DEFINE S == queue[r]
    <2>1. S \in SUBSET queue[r] /\ MoveOn(r, S)
      BY <1>6 DEF markReplicaAsUnavailable
    <2>2. \A m : m \in S <=> m \in queue[r]
      OBVIOUS
    <2> HIDE DEF S
    <2>3. Keeps(r, S)
      BY <2>1, MovedOn DEF Once
    <2>4. unavailable # Replicas
      BY <1>1, <1>6
    <2>5. QueuesRead'
      <3>1. \A q \in announced' : \A m \in queue'[q] : Part(m) \in view'[q]
        BY <1>1, <2>3 DEF QueuesRead, Keeps, possiblyCanReadPart, TypeOK
      <3>2. ASSUME NEW q \in unavailable', NEW m \in queue'[q]
            PROVE  FALSE
        <4>1. q \in Replicas /\ ~possiblyCanReadPart(q, m)
          BY <1>1 DEF possiblyCanReadPart, TypeOK
        <4>2. m \in queue[q] /\ (q = r => m \notin S)
          BY <3>2, <4>1, <2>3 DEF Keeps
        <4> QED
          BY <4>2, <1>1, <2>2, <2>4 DEF QueuesRead
      <3>3. mode' = "Default" => \A q \in finished' : queue'[q] = {}
        BY <1>1, <2>3 DEF QueuesRead, Keeps, possiblyCanReadPart, TypeOK
      <3> QED
        BY <3>1, <3>2, <3>3 DEF QueuesRead
    <2>6. SourceFinishes'
      <3>1. SUFFICES ASSUME mode = "Default", NEW s \in source, s \in finished
                     PROVE  /\ unscanned' = {} /\ leftovers' = {}
                            /\ \A q \in Replicas \ announced : queue'[q] = {}
        BY <1>1 DEF SourceFinishes
      <3>2. unscanned = {} /\ leftovers = {} /\ \A q \in Replicas \ announced : queue[q] = {}
        BY <3>1 DEF SourceFinishes
      <3>3. \A m : m \notin S
        BY <3>2, <1>2, <2>2
      <3> QED
        BY <3>2, <3>3, <1>1, <2>3 DEF Keeps
    <2> QED
      BY <1>3, <1>4, <2>5, <2>6
  <1> QED
    BY <1>5, <1>6

(* The answer to a request: with it, the invariant stays, and nothing is   *)
(* left unread by the last replica.                                        *)
LEMMA CoordinatedRequest ==
    ASSUME TypeOK, Once, Coordinated, NEW r \in Replicas, NEW T, Granted(r, T), Frame(r)
    PROVE  Coordinated' /\ error' = error
  <1> USE DEF Coordinated
  <1>1. /\ UNCHANGED <<mode, view, source, announced, unavailable>>
        /\ ~completed /\ r \notin finished /\ pool[r] = "idle"
    BY DEF Frame, Granted, parameters
  <1>2. r \in announced /\ r \notin unavailable
    BY <1>1 DEF Announcements
  <1>3. Gives(r, T) /\ AnswerTypes(r, T)
    BY AnswerTyped DEF Granted
  <1>4. \A m \in queue[r] : m \in Seen(r, queue[r])
    BY <1>2 DEF QueuesRead, Seen
  <1>5. /\ \A q \in Replicas : \A m \in queue'[q] :
              m \in queue[q] \/ (m \in unscanned /\ possiblyCanReadPart(q, m))
        /\ \A m \in leftovers' : m \in leftovers \/ m \in unscanned
    BY <1>3, <1>4 DEF Gives
  <1>6. queue' \in [Replicas -> SUBSET Marks] /\ unscanned' \subseteq unscanned
    BY <1>3 DEF Gives
  <1>7. /\ response'[r] = T /\ \A q \in Replicas : q # r => response'[q] = response[q]
        /\ pool'[r] \in {"waiting", "failed"}
        /\ \A q \in Replicas : q # r => pool'[q] = pool[q]
    BY <1>3 DEF AnswerTypes, TypeOK
  <1>8. Announcements'
    BY <1>1, <1>2, <1>7 DEF Announcements, TypeOK
  <1>9. CASE T # {}
    <2>1. finished' = finished /\ error' = error
      BY <1>9 DEF Granted, Answer
    <2>2. FinishedStays'
      BY <1>1, <1>7, <2>1 DEF FinishedStays, TypeOK
    <2>3. QueuesRead'
      BY <1>1, <1>5, <1>6, <2>1, QueuesStayRead
    <2>4. SourceFinishes'
      BY <1>1, <1>5, <1>6, <2>1 DEF SourceFinishes
    <2> QED
      BY <1>8, <2>1, <2>2, <2>3, <2>4
  <1>10. CASE T = {} /\ mode # "Default"
    <2>1. finished' = finished \cup {r} /\ error' = error
      BY <1>10 DEF Granted, Answer
    <2>2. FinishedStays'
      BY <1>1, <1>2, <1>7, <1>10, <2>1 DEF FinishedStays, TypeOK
    <2>3. QueuesRead'
      <3>1. \A q \in announced' : \A m \in queue'[q] : Part(m) \in view'[q]
        BY <1>1, <1>5 DEF QueuesRead, possiblyCanReadPart, TypeOK
      <3>2. unavailable' # Replicas => \A q \in unavailable' : queue'[q] = {}
        BY <1>1, <1>5, <1>6 DEF QueuesRead, possiblyCanReadPart, TypeOK
      <3> QED
        BY <1>1, <1>10, <3>1, <3>2 DEF QueuesRead
    <2>4. SourceFinishes'
      BY <1>1, <1>10 DEF SourceFinishes
    <2> QED
      BY <1>8, <2>1, <2>2, <2>3, <2>4
  <1>11. CASE T = {} /\ mode = "Default"
    <2>1. NothingFor(r)
      BY <1>11 DEF Granted
    <2>2. unscanned' = {} /\ queue'[r] = {}
      <3>1. \A m \in queue'[r] : Part(m) \in view[r]
        BY <1>1, <1>2, <1>5 DEF QueuesRead, possiblyCanReadPart
      <3> QED
        BY <2>1, <3>1 DEF NothingFor, Seen
    <2>3. ASSUME NEW q \in Replicas, q \in finished \/ q \in unavailable
          PROVE  queue'[q] = {}
      <3>1. \A m : ~possiblyCanReadPart(q, m)
        BY <1>1, <2>3 DEF possiblyCanReadPart
      <3>2. unavailable # Replicas
        BY <1>2
      <3>3. queue[q] = {}
        BY <2>3, <3>2, <1>11 DEF QueuesRead
      <3> QED
        BY <3>1, <3>3, <1>5
    <2>4. ASSUME NEW s \in source, s \in finished
          PROVE  leftovers' = {} /\ \A q \in Replicas \ announced : queue'[q] = {}
      <3>1. unscanned = {} /\ leftovers = {} /\ \A q \in Replicas \ announced : queue[q] = {}
        BY <2>4, <1>11 DEF SourceFinishes
      <3> QED
        BY <3>1, <1>5
    <2>5. ASSUME r \in source
          PROVE  leftovers' = {} /\ \A q \in Replicas \ announced : queue'[q] = {}
      <3>1. \A m : m \in Snapshot => m \in Seen(r, Marks)
        BY <2>5 DEF Announcements, Snapshot
      <3>2. \A m : Waits(unscanned', leftovers', queue', m) => m \in Snapshot
        BY <1>3 DEF Gives, Once, Accounted
      <3>3. \A m \in leftovers' : m \in Seen(r, leftovers')
        BY <3>1, <3>2 DEF Waits, Seen
      <3>4. \A q \in Replicas : \A m \in queue'[q] : m \in Seen(r, queue'[q])
        BY <3>1, <3>2 DEF Waits, Seen
      <3> QED
        BY <2>1, <2>5, <3>3, <3>4 DEF NothingFor
    <2>6. CASE /\ Cardinality(finished) + 1 = Cardinality(Replicas) - Cardinality(unavailable)
               /\ Unread
      <3>1. \A q \in Replicas : q = r \/ q \in finished \/ q \in unavailable
        BY <2>6, <1>1, <1>2, LastOne
      <3>2. \A q \in Replicas : queue'[q] = {}
        BY <2>2, <2>3, <3>1
      <3>3. PICK s : s \in source
        BY <1>2 DEF Announcements
      <3>4. s \in Replicas /\ s \notin unavailable
        BY <3>3 DEF Announcements, TypeOK
      <3>5. leftovers' = {}
        BY <2>4, <2>5, <3>1, <3>3, <3>4
      <3> QED
        BY <2>2, <2>6, <3>2, <3>5 DEF Unread
    <2>7. CASE ~(/\ Cardinality(finished) + 1 = Cardinality(Replicas) - Cardinality(unavailable)
                 /\ Unread)
      <3>1. finished' = finished \cup {r} /\ error' = error
        BY <1>11, <2>7 DEF Granted, Answer
      <3>2. FinishedStays'
        BY <1>1, <1>2, <1>7, <1>11, <3>1 DEF FinishedStays, TypeOK
      <3>3. QueuesRead'
        <4>1. \A q \in announced' : \A m \in queue'[q] : Part(m) \in view'[q]
          BY <1>1, <1>5 DEF QueuesRead, possiblyCanReadPart, TypeOK
        <4>2. unavailable' # Replicas => \A q \in unavailable' : queue'[q] = {}
          BY <1>1, <2>3 DEF TypeOK
        <4>3. \A q \in finished' : queue'[q] = {}
          BY <2>2, <2>3, <3>1 DEF TypeOK
        <4> QED
          BY <4>1, <4>2, <4>3 DEF QueuesRead
      <3>4. SourceFinishes'
        BY <1>1, <2>2, <2>4, <2>5, <3>1 DEF SourceFinishes
      <3> QED
        BY <1>8, <3>1, <3>2, <3>3, <3>4
    <2> QED
      BY <2>6, <2>7
  <1> QED
    BY <1>9, <1>10, <1>11

LEMMA CoordinatedRefused ==
    ASSUME TypeOK, Coordinated, NEW r \in Replicas, Refused(r), Frame(r)
    PROVE  Coordinated' /\ error' = error
  <1>1. /\ UNCHANGED <<mode, view, source, announced, unavailable>>
        /\ UNCHANGED <<unscanned, queue, leftovers, finished, used, completed, excluded>>
        /\ pool[r] = "idle"
    BY DEF Refused, Frame, parameters
  <1>2. UNCHANGED <<mode, view, coordinator>>
    BY <1>1 DEF coordinator
  <1>3. r \notin finished
    BY <1>1 DEF Coordinated, FinishedStays
  <1>4. error' = error
    BY <1>3 DEF Refused
  <1>5. /\ pool'[r] \in {"waiting", "failed"} /\ \A q \in Replicas : q # r => pool'[q] = pool[q]
        /\ \A q \in Replicas : response[q] = {} => response'[q] = {}
    BY DEF Refused, TypeOK
  <1> QED
    BY <1>1, <1>2, <1>3, <1>4, <1>5, CoordinatedKept

LEMMA CoordinatedStep ==
    ASSUME TypeOK, Once, Coordinated, [Next]_vars
    PROVE  Coordinated' /\ error' = error
  <1>0. Apart(unscanned, leftovers, queue) /\ GivenOnce
    BY DEF Once
  <1>1. ASSUME NEW r \in Replicas, announce(r)
        PROVE  Coordinated' /\ error' = error
    BY <1>1, CoordinatedAnnounce DEF announce
  <1>2. ASSUME NEW r \in Replicas, markReplicaAsUnavailable(r)
        PROVE  Coordinated' /\ error' = error
    BY <1>2, CoordinatedUnavailable DEF markReplicaAsUnavailable
  <1>3. ASSUME NEW r \in Replicas, NEW p \in tasks[r], sendReadRequest(r, p)
        PROVE  Coordinated' /\ error' = error
    BY <1>0, <1>3, Requested, CoordinatedRequest, CoordinatedRefused
  <1>4. ASSUME NEW r \in Replicas, receive(r)
        PROVE  Coordinated' /\ error' = error
    <2>1. /\ UNCHANGED <<mode, view, coordinator>> /\ pool[r] = "waiting"
          /\ response' = [response EXCEPT ![r] = {}]
          /\ pool' = [pool EXCEPT ![r] = IF response[r] = {} THEN "done" ELSE "idle"]
      BY <1>4 DEF receive, parameters
    <2>2. r \in finished => response[r] = {}
      BY DEF Coordinated, FinishedStays
    <2>3. /\ pool'[r] # "new" /\ (r \in finished => pool'[r] # "idle")
          /\ \A q \in Replicas : q # r => pool'[q] = pool[q]
          /\ \A q \in Replicas : response[q] = {} => response'[q] = {}
      BY <2>1, <2>2 DEF TypeOK
    <2>4. error' = error
      BY <1>0, <1>4, ReceivedOwn DEF Received, IsTask
    <2> QED
      BY <2>1, <2>3, <2>4, CoordinatedKept
  <1>5. ASSUME NEW r \in Replicas, receiveThrows(r)
        PROVE  Coordinated' /\ error' = error
    <2>1. /\ UNCHANGED <<mode, view, coordinator>> /\ pool[r] = "waiting"
          /\ response' = response /\ error' = error
          /\ pool' = [pool EXCEPT ![r] = "failed"]
      BY <1>5 DEF receiveThrows, parameters
    <2>2. pool'[r] = "failed" /\ \A q \in Replicas : q # r => pool'[q] = pool[q]
      BY <2>1 DEF TypeOK
    <2> QED
      BY <2>1, <2>2, CoordinatedKept
  <1>6. ASSUME NEW r \in Replicas, getTask(r)
        PROVE  Coordinated' /\ error' = error
    <2>1. UNCHANGED <<mode, view, coordinator, pool, response>>
      BY <1>6 DEF getTask, parameters
    <2>2. error' = error
      BY <1>0, <1>6, TaskOwn DEF IsTask
    <2> QED
      BY <2>1, <2>2 DEF Coordinated, Announcements, FinishedStays, QueuesRead, SourceFinishes, coordinator
  <1>7. ASSUME cancelUnused
        PROVE  Coordinated' /\ error' = error
    <2>1. UNCHANGED <<mode, view, coordinator, response, error>> /\ completed
      BY <1>7 DEF cancelUnused, parameters
    <2>2. \A q \in Replicas : pool'[q] \in {pool[q], "cancelled"}
      BY <1>7 DEF cancelUnused
    <2>3. Announcements'
      BY <2>1, <2>2 DEF Coordinated, Announcements, coordinator, TypeOK
    <2>4. FinishedStays'
      BY <2>1, <2>2 DEF Coordinated, FinishedStays, coordinator, TypeOK
    <2> QED
      BY <2>1, <2>3, <2>4 DEF Coordinated, QueuesRead, SourceFinishes, coordinator
  <1>8. ASSUME UNCHANGED vars
        PROVE  Coordinated' /\ error' = error
    BY <1>8 DEF vars, parameters, coordinator, pools,
                Coordinated, Announcements, FinishedStays, QueuesRead, SourceFinishes
  <1> QED
    BY <1>1, <1>2, <1>3, <1>4, <1>5, <1>6, <1>7, <1>8 DEF Next, PoolStep

(***************************************************************************)
(* The order in which the marks of a part are given and read.              *)
(***************************************************************************)
(* A step that gives nothing and moves no marks of a replica.              *)
LEMMA OrderKept ==
    ASSUME Ordered, UNCHANGED <<mode, unscanned, response, buffer, read>>
    PROVE  Ordered'
  BY DEF Ordered, AllAhead, Ahead, Given, Placed

LEMMA OrderGiven ==
    ASSUME TypeOK, Once, Ordered, NEW r \in Replicas, NEW T, Granted(r, T), Frame(r)
    PROVE  Ordered'
  <1>1. SUFFICES ASSUME mode # "Default"
                 PROVE  Ordered'
    BY DEF Ordered, Frame, parameters
  <1>2. /\ UNCHANGED <<mode, buffer, read>> /\ T \subseteq unscanned /\ unscanned' \subseteq unscanned
        /\ AllAhead(T, unscanned') /\ response[r] = {}
    BY <1>1 DEF Granted, Gives, Frame, parameters, Once, AnswerAwaited
  <1>3. response'[r] = T /\ \A q \in Replicas : q # r => response'[q] = response[q]
    BY AnswerTyped DEF Granted, AnswerTypes, TypeOK
  <1>4. ASSUME NEW q \in Replicas
        PROVE  AllAhead(Given(q), unscanned)' /\ AllAhead(DOMAIN buffer[q] \cup read[q], response[q])'
    <2>1. AllAhead(Given(q), unscanned) /\ AllAhead(DOMAIN buffer[q] \cup read[q], response[q])
      BY <1>1 DEF Ordered
    <2>2. CASE q # r
      BY <1>2, <1>3, <2>1, <2>2 DEF AllAhead, Ahead, Given
    <2>3. CASE q = r
      <3>1. AllAhead(Given(r), unscanned)'
        BY <1>2, <1>3, <2>1, <2>3 DEF AllAhead, Ahead, Given
      <3>2. AllAhead(DOMAIN buffer[r] \cup read[r], response[r])'
        BY <1>2, <1>3, <2>1, <2>3 DEF AllAhead, Ahead, Given
      <3> QED
        BY <2>3, <3>1, <3>2
    <2> QED
      BY <2>2, <2>3
  <1>5. \A q \in Replicas : AllAhead(read[q], DOMAIN buffer[q])' /\ Placed(buffer[q])'
    BY <1>1, <1>2 DEF Ordered, AllAhead, Ahead, Placed
  <1> QED
    BY <1>4, <1>5 DEF Ordered

(* A task is what is to be read first in its buffer.                       *)
LEMMA TaskFirst ==
    ASSUME NEW r \in Replicas, NEW b, NEW task, IsTask(r, b, task), mode # "Default", mode \in Modes,
           Placed(b), IsBuffer(b)
    PROVE  AllAhead(task, DOMAIN b \ task)
  <1>1. SUFFICES ASSUME NEW m \in task, NEW n \in DOMAIN b \ task, Part(m) = Part(n)
                 PROVE  Ahead(m, n)
    BY DEF AllAhead
  <1>2. m \in DOMAIN b /\ n \in DOMAIN b
    BY DEF IsTask
  <1>3. IF mode = "ReverseOrder" THEN InFront(b, n, m) ELSE InFront(b, m, n)
    BY <1>1 DEF IsTask
  <1>4. InFront(b, n, m) => Before(n, m)
    BY <1>1, <1>2 DEF InFront, Placed
  <1>5. InFront(b, m, n) => Before(m, n)
    BY <1>1, <1>2 DEF InFront, Placed
  <1> QED
    BY <1>3, <1>4, <1>5 DEF Ahead, Modes

LEMMA OrderTask ==
    ASSUME TypeOK, Ordered, NEW r \in Replicas, mode # "Default", NEW task,
           IsTask(r, buffer[r], task), UNCHANGED <<mode, unscanned, response>>
    PROVE  Ordered'
  <1>1. /\ \A q \in Replicas : q # r => read'[q] = read[q] /\ buffer'[q] = buffer[q]
        /\ read'[r] = read[r] \cup task /\ buffer'[r] = Without(buffer[r], task)
        /\ task \subseteq DOMAIN buffer[r]
    BY DEF IsTask, TypeOK
  <1>2. DOMAIN buffer'[r] = DOMAIN buffer[r] \ task /\ \A m \in DOMAIN buffer'[r] : buffer'[r][m] = buffer[r][m]
    BY <1>1 DEF Without
  <1>3. /\ AllAhead(Given(r), unscanned) /\ AllAhead(DOMAIN buffer[r] \cup read[r], response[r])
        /\ AllAhead(read[r], DOMAIN buffer[r]) /\ Placed(buffer[r])
    BY DEF Ordered
  <1>4. AllAhead(task, DOMAIN buffer[r] \ task)
    BY <1>3, TaskFirst DEF TypeOK, IsBuffer
  <1>5. AllAhead(read[r], DOMAIN buffer[r])'
    BY <1>1, <1>2, <1>3, <1>4 DEF AllAhead, Ahead
  <1>6. AllAhead(Given(r), unscanned)'
    BY <1>1, <1>2, <1>3 DEF AllAhead, Ahead, Given
  <1>7. AllAhead(DOMAIN buffer[r] \cup read[r], response[r])'
    BY <1>1, <1>2, <1>3 DEF AllAhead, Ahead
  <1>8. Placed(buffer[r])'
    BY <1>2, <1>3 DEF Placed
  <1>9. ASSUME NEW q \in Replicas, q # r
        PROVE  /\ AllAhead(Given(q), unscanned)' /\ AllAhead(DOMAIN buffer[q] \cup read[q], response[q])'
               /\ AllAhead(read[q], DOMAIN buffer[q])' /\ Placed(buffer[q])'
    BY <1>1, <1>9 DEF Ordered, AllAhead, Ahead, Given, Placed
  <1> QED
    BY <1>5, <1>6, <1>7, <1>8, <1>9 DEF Ordered

LEMMA OrderFilled ==
    ASSUME TypeOK, Ordered, NEW r \in Replicas, mode # "Default",
           buffer' = [buffer EXCEPT ![r] = FillBuffer(@, response[r])],
           response' = [response EXCEPT ![r] = {}], UNCHANGED <<mode, unscanned, read>>
    PROVE  Ordered'
  <1> DEFINE b == buffer[r]
             c == FillBuffer(b, response[r])
             S == response[r]
  <1>1. /\ \A q \in Replicas : q # r => response'[q] = response[q] /\ buffer'[q] = buffer[q]
        /\ response'[r] = {} /\ buffer'[r] = c
    BY DEF TypeOK
  <1>2. DOMAIN c = DOMAIN b \cup S
    BY DEF FillBuffer, Place
  <1>3. /\ AllAhead(Given(r), unscanned) /\ AllAhead(DOMAIN b \cup read[r], S)
        /\ AllAhead(read[r], DOMAIN b) /\ Placed(b)
    BY DEF Ordered
  <1>4. \A m \in DOMAIN b : b[m] \in Int
    BY DEF TypeOK
  <1>5. Placed(c)
    <2>1. CASE mode = "WithOrder"
      <3>1. \A m \in DOMAIN c : c[m] = IF m \in S THEN 0 ELSE b[m] + (-1)
        BY <2>1 DEF FillBuffer, Place
      <3> HIDE DEF c, b, S
      <3>2. \A m \in DOMAIN c : c[m] <= 0
        BY <2>1, <3>1, <1>2, <1>3, <1>4 DEF Placed
      <3>3. ASSUME NEW m \in DOMAIN c, NEW n \in DOMAIN c, Part(m) = Part(n), c[m] < c[n]
            PROVE  Before(m, n)
        <4>1. m \notin S
          <5>1. m \in S => c[m] = 0
            BY <3>1
          <5>2. c[n] <= 0 /\ c[n] \in Int
            BY <3>1, <3>2, <1>2, <1>4
          <5> QED
            BY <5>1, <5>2, <3>3
        <4>2. m \in DOMAIN b /\ c[m] = b[m] + (-1) /\ b[m] \in Int
          BY <4>1, <3>1, <1>2, <1>4
        <4>3. CASE n \in S
          BY <4>2, <4>3, <3>3, <2>1, <1>3 DEF AllAhead, Ahead
        <4>4. CASE n \notin S
          <5>1. n \in DOMAIN b /\ c[n] = b[n] + (-1) /\ b[n] \in Int
            BY <4>4, <3>1, <1>2, <1>4
          <5>2. b[m] < b[n]
            BY <4>2, <5>1, <3>3
          <5> QED
            BY <4>2, <5>1, <5>2, <3>3, <1>3 DEF Placed
        <4> QED
          BY <4>3, <4>4
      <3> QED
        BY <2>1, <3>2, <3>3 DEF Placed
    <2>2. CASE mode # "WithOrder"
      <3>1. \A m \in DOMAIN c : c[m] = IF m \in S THEN 0 ELSE b[m] + 1
        BY <2>2 DEF FillBuffer, Place
      <3> HIDE DEF c, b, S
      <3>2. \A m \in DOMAIN c : c[m] >= 0
        BY <2>2, <3>1, <1>2, <1>3, <1>4 DEF Placed
      <3>3. ASSUME NEW m \in DOMAIN c, NEW n \in DOMAIN c, Part(m) = Part(n), c[m] < c[n]
            PROVE  Before(m, n)
        <4>1. n \notin S
          <5>1. n \in S => c[n] = 0
            BY <3>1
          <5>2. c[m] >= 0 /\ c[m] \in Int
            BY <3>1, <3>2, <1>2, <1>4
          <5> QED
            BY <5>1, <5>2, <3>3
        <4>2. n \in DOMAIN b /\ c[n] = b[n] + 1 /\ b[n] \in Int
          BY <4>1, <3>1, <1>2, <1>4
        <4>3. CASE m \in S
          BY <4>2, <4>3, <3>3, <2>2, <1>3 DEF AllAhead, Ahead
        <4>4. CASE m \notin S
          <5>1. m \in DOMAIN b /\ c[m] = b[m] + 1 /\ b[m] \in Int
            BY <4>4, <3>1, <1>2, <1>4
          <5>2. b[m] < b[n]
            BY <4>2, <5>1, <3>3
          <5> QED
            BY <4>2, <5>1, <5>2, <3>3, <1>3 DEF Placed
        <4> QED
          BY <4>3, <4>4
      <3> QED
        BY <2>2, <3>2, <3>3 DEF Placed
    <2> QED
      BY <2>1, <2>2
  <1> HIDE DEF c
  <1>6. Placed(buffer[r])'
    BY <1>1, <1>5 DEF Placed
  <1>7. AllAhead(read[r], DOMAIN buffer[r])'
    BY <1>1, <1>2, <1>3 DEF AllAhead, Ahead
  <1>8. AllAhead(Given(r), unscanned)'
    BY <1>1, <1>2, <1>3 DEF AllAhead, Ahead, Given
  <1>9. AllAhead(DOMAIN buffer[r] \cup read[r], response[r])'
    BY <1>1 DEF AllAhead
  <1>10. ASSUME NEW q \in Replicas, q # r
         PROVE  /\ AllAhead(Given(q), unscanned)' /\ AllAhead(DOMAIN buffer[q] \cup read[q], response[q])'
                /\ AllAhead(read[q], DOMAIN buffer[q])' /\ Placed(buffer[q])'
    BY <1>1, <1>10 DEF Ordered, AllAhead, Ahead, Given, Placed
  <1> QED
    BY <1>6, <1>7, <1>8, <1>9, <1>10 DEF Ordered

(* What a task adds to the marks that are read comes after them.           *)
ReadsOn ==
    \A r \in Replicas : \A m \in read[r], n \in read'[r] \ read[r] :
       Part(m) = Part(n) => /\ mode = "WithOrder" => Before(m, n)
                            /\ mode = "ReverseOrder" => Before(n, m)

LEMMA OrderStep ==
    ASSUME TypeOK, Once, Ordered, [Next]_vars
    PROVE  Ordered' /\ ReadsOn
  <1>0. Apart(unscanned, leftovers, queue) /\ GivenOnce
    BY DEF Once
  <1>1. mode' = mode
    BY DEF Next, PoolStep, announce, markReplicaAsUnavailable, sendReadRequest, receive, receiveThrows,
           getTask, cancelUnused, vars, parameters
  <1>2. CASE mode = "Default"
    BY <1>1, <1>2 DEF Ordered, ReadsOn
  <1>3. CASE mode # "Default"
    <2>1. ASSUME NEW r \in Replicas, announce(r)
          PROVE  Ordered' /\ ReadsOn
      <3>1. UNCHANGED <<mode, response, buffer, read>>
        BY <2>1 DEF announce, parameters
      <3>2. CASE unscanned' = unscanned
        BY <3>1, <3>2, OrderKept DEF ReadsOn
      <3>3. CASE source = {}
        <4>1. Snapshot = {}
          BY <3>3 DEF Snapshot
        <4>2. \A q \in Replicas : Given(q) = {}
          BY <4>1 DEF Once, Accounted
        <4>3. \A q \in Replicas : Given(q)' = {}
          BY <4>2, <3>1 DEF Given
        <4>4. \A q \in Replicas : AllAhead(Given(q), unscanned)'
          BY <4>3 DEF AllAhead
        <4> QED
          BY <3>1, <4>4 DEF Ordered, ReadsOn, AllAhead, Ahead, Placed
      <3> QED
        BY <2>1, <3>2, <3>3 DEF announce
    <2>2. ASSUME NEW r \in Replicas, markReplicaAsUnavailable(r)
          PROVE  Ordered' /\ ReadsOn
      BY <2>2, OrderKept DEF markReplicaAsUnavailable, parameters, pools, ReadsOn
    <2>3. ASSUME NEW r \in Replicas, NEW p \in tasks[r], sendReadRequest(r, p)
          PROVE  Ordered' /\ ReadsOn
      <3>1. Frame(r) /\ (Refused(r) \/ \E T : Granted(r, T))
        BY <1>0, <2>3, Requested
      <3>2. ReadsOn
        BY <3>1 DEF Frame, ReadsOn
      <3>3. CASE Refused(r)
        <4>1. response[r] = {}
          BY <3>1 DEF Frame, Once, AnswerAwaited
        <4>2. \A q \in Replicas : response'[q] = response[q]
          BY <3>3, <4>1 DEF Refused, TypeOK
        <4>3. UNCHANGED <<mode, unscanned, buffer, read>>
          BY <3>1, <3>3 DEF Refused, Frame, parameters
        <4> QED
          BY <3>2, <4>2, <4>3 DEF Ordered, AllAhead, Ahead, Given, Placed
      <3> QED
        BY <3>1, <3>2, <3>3, OrderGiven
    <2>4. ASSUME NEW r \in Replicas, receive(r)
          PROVE  Ordered' /\ ReadsOn
      <3>1. /\ UNCHANGED <<mode, unscanned>> /\ response' = [response EXCEPT ![r] = {}]
        BY <2>4 DEF receive, parameters, coordinator
      <3>2. CASE response[r] = {} /\ UNCHANGED <<buffer, read, error>>
        <4>1. \A q \in Replicas : response'[q] = response[q]
          BY <3>1, <3>2 DEF TypeOK
        <4> QED
          BY <3>1, <3>2, <4>1 DEF Ordered, AllAhead, Ahead, Given, Placed, ReadsOn
      <3>3. CASE buffer' = [buffer EXCEPT ![r] = FillBuffer(@, response[r])] /\ UNCHANGED <<read, error>>
        BY <1>3, <3>1, <3>3, OrderFilled DEF ReadsOn
      <3> QED
        BY <1>0, <1>3, <2>4, <3>2, <3>3, ReceivedOwn DEF Received
    <2>5. ASSUME NEW r \in Replicas, receiveThrows(r)
          PROVE  Ordered' /\ ReadsOn
      BY <2>5, OrderKept DEF receiveThrows, parameters, coordinator, ReadsOn
    <2>6. ASSUME NEW r \in Replicas, getTask(r)
          PROVE  Ordered' /\ ReadsOn
      <3>1. UNCHANGED <<mode, unscanned, response>>
        BY <2>6 DEF getTask, parameters, coordinator
      <3>2. PICK task : IsTask(r, buffer[r], task)
        BY <1>0, <2>6, TaskOwn
      <3>3. Ordered'
        BY <1>3, <3>1, <3>2, OrderTask
      <3>4. /\ read'[r] = read[r] \cup task /\ task \subseteq DOMAIN buffer[r]
            /\ \A q \in Replicas : q # r => read'[q] = read[q]
        BY <3>2 DEF IsTask, TypeOK
      <3>5. AllAhead(read[r], DOMAIN buffer[r])
        BY <1>3 DEF Ordered
      <3>6. ReadsOn
        BY <3>4, <3>5 DEF ReadsOn, AllAhead, Ahead
      <3> QED
        BY <3>3, <3>6
    <2>7. ASSUME cancelUnused
          PROVE  Ordered' /\ ReadsOn
      BY <2>7, OrderKept DEF cancelUnused, parameters, coordinator, ReadsOn
    <2>8. ASSUME UNCHANGED vars
          PROVE  Ordered' /\ ReadsOn
      BY <2>8, OrderKept DEF vars, parameters, coordinator, pools, ReadsOn
    <2> QED
      BY <2>1, <2>2, <2>3, <2>4, <2>5, <2>6, <2>7, <2>8 DEF Next, PoolStep
  <1> QED
    BY <1>2, <1>3

(***************************************************************************)
(* The theorems.                                                           *)
(***************************************************************************)
LEMMA InitInv == Init => Inv
  <1> SUFFICES ASSUME Init
               PROVE  Inv
    OBVIOUS
  <1>1. owner \in [Segments -> Replicas] /\ stealer \in [Segments -> Replicas]
    <2>1. \E h \in Hashes : owner = h[1] /\ stealer = h[2]
      BY DEF Init
    <2> QED
      BY <2>1
  <1>2. /\ source = {} /\ announced = {} /\ unavailable = {} /\ finished = {} /\ used = {} /\ excluded = {}
        /\ unscanned = {} /\ leftovers = {} /\ queue = [r \in Replicas |-> {}]
        /\ completed = FALSE /\ failed = {} /\ error = FALSE /\ failures = 0
        /\ pool = [r \in Replicas |-> "new"]
        /\ tasks = [r \in Replicas |-> IF mode = "Default" THEN {0} ELSE view[r]]
        /\ response = [r \in Replicas |-> {}] /\ buffer = [r \in Replicas |-> Answered({})]
        /\ read = [r \in Replicas |-> {}] /\ mode \in Modes /\ view \in [Replicas -> SUBSET Parts]
    BY DEF Init
  <1>3. DOMAIN Answered({}) = {}
    BY DEF Answered
  <1>4. DOMAIN buffer = Replicas /\ \A r \in Replicas : DOMAIN buffer[r] = {}
    BY <1>2, <1>3
  <1>5. tasks \in [Replicas -> SUBSET (Parts \union {0})]
    <2>1. CASE mode = "Default"
      BY <1>2, <2>1
    <2>2. CASE mode # "Default"
      <3>1. tasks = [r \in Replicas |-> view[r]]
        BY <1>2, <2>2
      <3>2. \A r \in Replicas : view[r] \subseteq Parts
        BY <1>2
      <3>3. \A r \in Replicas : view[r] \in SUBSET (Parts \union {0})
        BY <3>2
      <3> QED
        BY <3>1, <3>3
    <2> QED
      BY <2>1, <2>2
  <1>6. TypeOK
    <2>1. /\ queue \in [Replicas -> SUBSET Marks] /\ pool \in [Replicas -> PoolStates]
          /\ response \in [Replicas -> SUBSET Marks] /\ read \in [Replicas -> SUBSET Marks]
      BY <1>2 DEF PoolStates
    <2>2. failures \in 0..MaxFailures
      BY <1>2
    <2>3. \A r \in Replicas : DOMAIN buffer[r] \subseteq Marks /\ \A m \in DOMAIN buffer[r] : buffer[r][m] \in Int
      BY <1>4
    <2> QED
      BY <1>1, <1>2, <1>4, <1>5, <2>1, <2>2, <2>3 DEF TypeOK
  <1>7. \A r \in Replicas : Given(r) = {}
    BY <1>2, <1>4 DEF Given
  <1>8. Once
    <2>1. Apart(unscanned, leftovers, queue) /\ \A m : ~Waits(unscanned, leftovers, queue, m)
      BY <1>2 DEF Apart, Waits
    <2>2. Snapshot = {}
      BY <1>2 DEF Snapshot
    <2>3. \A r \in Replicas : HasOnce(r)
      BY <1>2, <1>4 DEF HasOnce
    <2>4. GivenOnce /\ Accounted /\ AnswerAwaited
      BY <1>2, <1>7, <2>1, <2>2 DEF GivenOnce, Accounted, AnswerAwaited
    <2> QED
      BY <2>1, <2>3, <2>4 DEF Once
  <1>9. Coordinated
    BY <1>2 DEF Coordinated, Announcements, FinishedStays, QueuesRead, SourceFinishes
  <1>10. Ordered
    <2>1. \A r \in Replicas : Placed(buffer[r])
      BY <1>4 DEF Placed
    <2> QED
      BY <1>2, <1>4, <1>7, <2>1 DEF Ordered, AllAhead
  <1>11. NoLogicalError
    BY <1>2 DEF NoLogicalError
  <1> QED
    BY <1>6, <1>8, <1>9, <1>10, <1>11 DEF Inv

LEMMA NextInv == Inv /\ [Next]_vars => Inv'
  BY TypeStep, OnceStep, CoordinatedStep, OrderStep DEF Inv, NoLogicalError

(* Every mark is in one place, the coordinator knows who will not come,    *)
(* and marks are given in order: the three invariants hold.                *)
THEOREM ReadingHolds == Spec => []Inv
  BY InitInv, NextInv, PTL DEF Spec

LEMMA OnceMeansReadOnce == Once => ReadOnce
  <1> SUFFICES ASSUME Once
               PROVE  ReadOnce
    OBVIOUS
  <1>1. UNION Places = Snapshot
    <2>1. \A m : m \in UNION Places <=> \/ Waits(unscanned, leftovers, queue, m)
                                        \/ \E q \in Replicas : m \in Given(q)
      BY DEF Places, Waits
    <2> QED
      BY <2>1 DEF Once, Accounted
  <1>2. \A m : m \in Queued <=> \E q \in Replicas : m \in queue[q]
    BY DEF Queued
  <1>3. unscanned \intersect (leftovers \union Queued) = {} /\ leftovers \intersect Queued = {}
    BY <1>2 DEF Once, Apart
  <1>4. ASSUME NEW r \in Replicas
        PROVE  /\ Given(r) \subseteq Seen(r, Marks)
               /\ Given(r) \intersect (unscanned \union leftovers \union Queued) = {}
    BY <1>2 DEF Once, GivenOnce, Waits
  <1>5. ASSUME NEW r \in Replicas
        PROVE  /\ response[r] \intersect DOMAIN buffer[r] = {}
               /\ read[r] \intersect (response[r] \union DOMAIN buffer[r]) = {}
    <2>1. \A m : m \in response[r] \/ m \in read[r] => m \in Marks
      BY <1>4 DEF Given, Seen
    <2> QED
      BY <2>1 DEF Once, HasOnce
  <1>6. ASSUME NEW r \in Replicas, NEW q \in Replicas \ {r}
        PROVE  Given(r) \intersect Given(q) = {} /\ queue[r] \intersect queue[q] = {}
    BY DEF Once, GivenOnce, Apart
  <1> QED
    BY <1>1, <1>3, <1>4, <1>5, <1>6 DEF ReadOnce

(* No mark of the snapshot is lost or given twice, whatever is stolen,     *)
(* moved on or left over, in any order of requests and announcements.      *)
THEOREM MarksReadOnce == Spec => []ReadOnce
  BY ReadingHolds, OnceMeansReadOnce, PTL DEF Inv

(* The coordinator and the pools never run into the LOGICAL_ERROR          *)
(* exceptions: not the one for ranges that are left when the last replica  *)
(* has finished, nor the one for a finished replica that asks again.       *)
THEOREM NoErrorThrown == Spec => []NoLogicalError
  BY ReadingHolds, PTL DEF Inv

(* With order, a replica reads the marks of a part from first to last, or  *)
(* in reverse order from last to first.                                    *)
THEOREM PartsReadInOrder == Spec => ReadInOrder
  <1>1. Inv /\ [Next]_vars => [ReadsOn]_vars
    BY OrderStep DEF Inv
  <1> QED
    BY <1>1, ReadingHolds, PTL DEF Spec, ReadInOrder, ReadsOn
=============================================================================
