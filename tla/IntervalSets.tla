---------------------------- MODULE IntervalSets ----------------------------
(***************************************************************************)
(* The sets of closed intervals that IntervalAnalysis computes with, and a *)
(* walk through them: along one path of a program, `bounds` is what the    *)
(* analysis says of a variable and `values` what the variable can be.      *)
(*                                                                         *)
(* For integers, infinity is the largest word and minus infinity the least *)
(* one.  The adjacency test adds 1 to an upper bound that may be the       *)
(* largest word; the sum wraps or not, as the build has it.                *)
(***************************************************************************)
EXTENDS Words, Sequences, FiniteSets, SequencesExt

CONSTANTS
  Steps,   \* bound on the length of the walk
  Numbers, \* the constants of the program
  Others   \* what the analysis says of other variables, or left on other paths

VARIABLES
  bounds,   \* the analysis' set of intervals
  values,   \* the values of the variable
  guessed,  \* whether a remainder of a dividend or divisor below 0 was taken
  widenings,\* widenings in a row that changed bounds already there
  walked,   \* steps made
  wraps     \* whether the largest word + 1 wraps in intersects_or_adjacent

ivars == <<bounds, values, guessed, widenings, walked, wraps>>

-----------------------------------------------------------------------------
(* Sets of intervals.  "undefined" (X_N) is what no path has reached.      *)

IntervalSet(intervals) == [undefined |-> FALSE, intervals |-> intervals]
Undefined == [undefined |-> TRUE, intervals |-> <<>>]
EmptySet  == IntervalSet(<<>>)
Interval(lower, upper) == IF lower <= upper THEN IntervalSet(<< <<lower, upper>> >>) ELSE EmptySet
Whole == <<MinWord, MaxWord>>
AnyWord   == IntervalSet(<<Whole>>)

Members(s) == {v \in Words : \E i \in DOMAIN s.intervals : s.intervals[i][1] <= v /\ v <= s.intervals[i][2]}

Least(S)    == CHOOSE n \in S : \A k \in S : n <= k
Greatest(S) == CHOOSE n \in S : \A k \in S : k <= n

\* mutant: the test of the floating-point intervals is used for integers, too.
Intersects(i, j) == Greatest({i[1], j[1]}) <= Least({i[2], j[2]})

IntersectsOrAdjacent(i, j) ==
  LET upper == Least({i[2], j[2]})
  IN  Greatest({i[1], j[1]}) <= (IF wraps THEN Wrapped(upper + 1) ELSE upper + 1)

Hull(i, j) == <<Least({i[1], j[1]}), Greatest({i[2], j[2]})>>

\* The first of a set of intervals, as normalize sorts them (repeated ones are dropped).
\* The code sorts by lower bound only: intervals that start together are merged into the
\* same one in either order.
Before(i, j) == i[1] < j[1] \/ (i[1] = j[1] /\ i[2] <= j[2])
First(intervals) == CHOOSE i \in intervals : \A j \in intervals : Before(i, j)

\* The loop of normalize: every interval is merged into the last one done or comes after
\* it.  One pass is enough: the second finds no neighbours to merge.
MergedInto(done, i) ==
  IF done # <<>> /\ IntersectsOrAdjacent(Last(done), i)
  THEN Append(Front(done), Hull(Last(done), i))
  ELSE Append(done, i)

Merged(intervals) ==
  LET pass[k \in 0..Cardinality(intervals)] ==
        IF k = 0 THEN [done |-> <<>>, rest |-> intervals]
        ELSE LET i == First(pass[k - 1].rest)
             IN  [done |-> MergedInto(pass[k - 1].done, i), rest |-> pass[k - 1].rest \ {i}]
  IN  pass[Cardinality(intervals)].done

Normalize(intervals) == IF Whole \in intervals THEN AnyWord ELSE IntervalSet(Merged(intervals))

IsWhole(s) == \E i \in DOMAIN s.intervals : s.intervals[i] = Whole

UnionWith(s, t) ==
  IF t.undefined THEN s
  ELSE IF s.undefined THEN t
  ELSE IF IsWhole(s) THEN s
  ELSE IF IsWhole(t) THEN t
  ELSE Normalize(ToSet(s.intervals) \cup ToSet(t.intervals))

\* What Op makes of every interval of s with every interval of t.
Pairwise(Op(_, _), s, t) ==
  IF s.undefined \/ t.undefined THEN Undefined
  ELSE Normalize({Op(i, j) : i \in ToSet(s.intervals), j \in ToSet(t.intervals)})

Common(i, j) == <<Greatest({i[1], j[1]}), Least({i[2], j[2]})>>

IntersectWith(s, t) ==
  IF t.undefined THEN s
  ELSE IF s.undefined THEN t
  ELSE Normalize({k \in {Common(i, j) : i \in ToSet(s.intervals), j \in ToSet(t.intervals)} : k[1] <= k[2]})

\* mutant: the other set's bounds are taken as they are.
WidenToHull(s, t) ==
  IF t.intervals = <<>> THEN s
  ELSE IF s.intervals = <<>> THEN t
  ELSE LET h == Hull(<<Head(s.intervals)[1], Last(s.intervals)[2]>>,
                     <<Head(t.intervals)[1], Last(t.intervals)[2]>>)
       IN  Interval(h[1], h[2])

\* The bounds of t beyond those of s go to infinity.
Widen(s, t) ==
  LET lower == Head(s.intervals)[1]
      upper == Last(s.intervals)[2]
  IN  IF t.intervals = <<>> THEN s
      ELSE IF s.intervals = <<>> THEN t
      ELSE Interval(IF Head(t.intervals)[1] < lower THEN MinWord ELSE lower,
                    IF Last(t.intervals)[2] > upper THEN MaxWord ELSE upper)

-----------------------------------------------------------------------------
(* Arithmetic (safe_calculate_int: a bound that overflows makes the result *)
(* anything).                                                              *)

Bounded(results) == IF results \subseteq Words THEN <<Least(results), Greatest(results)>> ELSE Whole

Sums(i, j)        == Bounded({i[1] + j[1], i[2] + j[2]})

\* mutant: the end points are paired as in a sum.
DifferencesAsSums(i, j) == Bounded({i[1] - j[1], i[2] - j[2]})

Differences(i, j) == Bounded({i[1] - j[2], i[2] - j[1]})
Products(i, j)    == Bounded({a * b : a \in {i[1], i[2]}, b \in {j[1], j[2]}})
HasZero(j)        == j[1] <= 0 /\ j[2] >= 0
Quotients(i, j)   ==
  IF HasZero(j) THEN Whole ELSE Bounded({Div(a, b) : a \in {i[1], i[2]}, b \in {j[1], j[2]}})
Remainders(i, j)  ==
  CASE HasZero(j) -> Whole
    [] j[1] > 0   -> <<0, j[2] - 1>>
    [] j[2] < 0   -> <<j[2] + 1, 0>>
Larger(i, j)  == <<Greatest({i[1], j[1]}), Greatest({i[2], j[2]})>>
Smaller(i, j) == <<Least({i[1], j[1]}), Least({i[2], j[2]})>>

Evaluated(op, s, t) ==
  CASE op = "add" -> Pairwise(Sums, s, t)
    [] op = "sub" -> Pairwise(Differences, s, t)
    [] op = "mul" -> Pairwise(Products, s, t)
    [] op = "div" -> Pairwise(Quotients, s, t)
    [] op = "mod" -> Pairwise(Remainders, s, t)
    [] op = "max" -> Pairwise(Larger, s, t)
    [] op = "min" -> Pairwise(Smaller, s, t)

\* The words an operation may give, where the language defines its result.
ResultsOf(op, A, B) ==
  LET defined == {e \in A \X B : op \in {"div", "mod"} => e[2] # 0}
  IN  {CASE op = "add" -> e[1] + e[2]
         [] op = "sub" -> e[1] - e[2]
         [] op = "mul" -> e[1] * e[2]
         [] op = "div" -> Div(e[1], e[2])
         [] op = "mod" -> Mod(e[1], e[2])
         [] op = "max" -> Greatest({e[1], e[2]})
         [] op = "min" -> Least({e[1], e[2]}) : e \in defined} \cap Words

Condition(rel, n) ==
  CASE rel = "eq" -> Interval(n, n)
    [] rel = "ne" -> UnionWith(Interval(MinWord, Wrapped(n - 1)), Interval(Wrapped(n + 1), MaxWord))
    [] rel = "lt" -> Interval(MinWord, Wrapped(n - 1))
    [] rel = "le" -> Interval(MinWord, n)
    [] rel = "gt" -> Interval(Wrapped(n + 1), MaxWord)
    [] rel = "ge" -> Interval(n, MaxWord)

Meeting(rel, n, V) ==
  {v \in V : CASE rel = "eq" -> v = n [] rel = "ne" -> v # n [] rel = "lt" -> v < n
               [] rel = "le" -> v <= n [] rel = "gt" -> v > n [] rel = "ge" -> v >= n}

-----------------------------------------------------------------------------
(* The walk.  Another operand, or what an earlier path left in a block, is *)
(* one of the sets of Others that the analysis can have computed; a        *)
(* variable it describes may have any of its values.                       *)

\* What normalize makes of a set of intervals: in order and apart; only at the largest word
\* may two overlap, where the adjacency test wraps.
InOrder(intervals) ==
  \A i, j \in DOMAIN intervals :
    i < j => /\ intervals[i][1] <= intervals[j][1]
             /\ \/ intervals[i][2] + 1 < intervals[j][1]
                \/ wraps /\ intervals[i][2] = MaxWord /\ intervals[j][2] = MaxWord

ASSUME NumbersAssumption == Numbers \subseteq Words
ASSUME OthersAssumption ==
  \A s \in Others :
    \/ s = Undefined
    \/ /\ s = IntervalSet(s.intervals)
       /\ s.intervals \in Seq(Words \X Words)
       /\ \A i \in DOMAIN s.intervals : s.intervals[i][1] <= s.intervals[i][2]

IntervalInit ==
  /\ wraps \in BOOLEAN
  /\ bounds \in Others \cup {Interval(n, n) : n \in Numbers}
  /\ InOrder(bounds.intervals)
  /\ values = Members(bounds)
  /\ guessed = FALSE
  /\ widenings = 0
  /\ walked = 0

\* evaluate: the result of an instruction on the variable and another operand.
Evaluate(op, other, swapped) ==
  LET s == IF swapped THEN other ELSE bounds
      t == IF swapped THEN bounds ELSE other
      A == IF swapped THEN Members(other) ELSE values
      B == IF swapped THEN values ELSE Members(other)
  IN  /\ bounds' = Evaluated(op, s, t)
      /\ values' = ResultsOf(op, A, B)
      /\ guessed' = (guessed \/ (op = "mod" /\ \E v \in A \cup B : v < 0))
      /\ widenings' = 0

\* The JUMP of rabai_function: the block has what `before` says of earlier paths.
Jump(before) ==
  /\ bounds' = UnionWith(before, bounds)
  /\ values' = values \cup Members(before)
  /\ widenings' = 0
  /\ UNCHANGED guessed

\* The BRANCH: the condition of the edge is laid over the union, which also cuts what
\* came along other edges.
Branch(before, rel, n) ==
  /\ bounds' = IntersectWith(UnionWith(before, bounds), Condition(rel, n))
  /\ values' = Meeting(rel, n, values) \cup Members(before)
  /\ guessed' = (guessed \/ Meeting(rel, n, Members(before)) # Members(before))
  /\ widenings' = 0

\* A phi, along a back edge.
PhiOfLoop(incoming) ==
  /\ bounds' = Widen(bounds, incoming)
  /\ values' = values \cup Members(incoming)
  /\ widenings' = widenings + (IF bounds.intervals = <<>> \/ bounds' = bounds THEN 0 ELSE 1)
  /\ UNCHANGED guessed

Walk ==
  /\ walked < Steps
  /\ walked' = walked + 1
  /\ UNCHANGED wraps
  /\ \E other \in Others :
     /\ InOrder(other.intervals)
     /\ \/ \E op \in {"add", "sub", "mul", "div", "mod", "max", "min"}, swapped \in BOOLEAN :
            Evaluate(op, other, swapped)
       \/ Jump(other)
       \/ \E rel \in {"eq", "ne", "lt", "le", "gt", "ge"}, n \in Numbers : Branch(other, rel, n)
       \/ PhiOfLoop(other)

IntervalSpec == IntervalInit /\ [][Walk]_ivars

-----------------------------------------------------------------------------
(* Properties. *)

\* The variable stays within what the analysis says of it, through the overflows of the
\* bounds and whatever the build makes of the largest word + 1, except after the two
\* places where the analysis guesses: remainders of numbers below 0, and conditions
\* laid over what other edges brought.
WithinBounds == ~guessed => values \subseteq Members(bounds)

\* The intervals are in order and apart, as widen and the comparison of two sets take
\* them to be, whatever the operations do to them; only at the largest word may two
\* overlap, where the adjacency test wraps.
Orderly == InOrder(bounds.intervals)

\* When nothing but widening happens to the intervals of a phi, its first widening may only
\* fill the gaps between them and every other one moves an end to infinity.
Ends == IF bounds.intervals = <<>> THEN {}
        ELSE {Head(bounds.intervals)[1], Last(bounds.intervals)[2]}
WideningStops == widenings > 0 => widenings <= 1 + Cardinality(Ends \cap {MinWord, MaxWord})
=============================================================================
