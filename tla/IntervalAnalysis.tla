-------------------------- MODULE IntervalAnalysis --------------------------
(***************************************************************************)
(* rabai_function: the interval analysis of one function.  A worklist of   *)
(* blocks carries what is known of the variables from block to block until *)
(* nothing changes: phis are widened along back edges, and the condition   *)
(* of a branch is laid over what its targets have.                         *)
(*                                                                         *)
(* When the worklist is empty the function runs, on any input, and the     *)
(* values of its variables are compared with what the analysis says.  An   *)
(* addition that overflows ends a run: the language gives it no meaning.    *)
(***************************************************************************)
EXTENDS IntervalSets, TLC

CONSTANT Analysed  \* the functions that are analysed

VARIABLES
  func,      \* the function: parameters, constants, and of every block, the first one
             \* the entry, its phis, code and end
  in_ctxs,   \* of every block, a set of intervals for some of the variables
  worklist,  \* blocks; one may be there twice: worklist_set is kept but never asked
  analyses,  \* how often each block was taken from the worklist
  at, env    \* the run: the block it is in and the values of the variables; 0 before it

avars == <<func, in_ctxs, worklist, analyses, at, env>>

Entry == 1
FuncBlocks(f) == DOMAIN f.code
EndOf(f, b)   == f.ends[b].to

-----------------------------------------------------------------------------
(* Contexts *)

ContextGet(ctx, v) ==
  CASE v \in DOMAIN ctx -> ctx[v]
    [] v \in DOMAIN func.constants -> Interval(func.constants[v], func.constants[v])
    [] OTHER -> Undefined

ContextUnion(ctx, other) ==
  [v \in DOMAIN ctx \cup DOMAIN other |->
     CASE v \notin DOMAIN ctx -> other[v]
       [] v \notin DOMAIN other -> ctx[v]
       [] OTHER -> UnionWith(ctx[v], other[v])]

\* evaluate
ResultInterval(ctx, ins) ==
  CASE ins.op = "getint" -> AnyWord
    [] ins.op = "icmp" -> Interval(0, 1)
    [] OTHER -> Evaluated(ins.op, ContextGet(ctx, ins.lhs), ContextGet(ctx, ins.rhs))

ContextAfter(b) == FoldLeft(LAMBDA ctx, ins : (ins.def :> ResultInterval(ctx, ins)) @@ ctx, in_ctxs[b], func.code[b])

-----------------------------------------------------------------------------
(* Edges *)

\* The blocks on a path from the entry that does not go through b.
RECURSIVE ReachedWithout(_, _, _)
ReachedWithout(f, b, reached) ==
  LET more == (reached \cup UNION {ToSet(EndOf(f, c)) : c \in reached}) \ {b}
  IN  IF more = reached THEN reached ELSE ReachedWithout(f, b, more)

\* pred is a latch of the loop with header b: b dominates it.
is_back_edge(b, pred) == pred = b \/ pred \notin ReachedWithout(func, b, {Entry} \ {b})

\* mutant: along a back edge the phi has what came along it last.
LastIncoming(old, incoming, back) == IF back THEN incoming ELSE UnionWith(old, incoming)

PhiInterval(old, incoming, back) == IF back THEN Widen(old, incoming) ELSE UnionWith(old, incoming)

PhisOf(b, pred) == {phi \in ToSet(func.phis[b]) : pred \in DOMAIN phi.opts}

PhiIntervals(old, out, b, pred) ==
  LET Of(v) == CHOOSE phi \in PhisOf(b, pred) : phi.def = v
  IN  [v \in {phi.def : phi \in PhisOf(b, pred)} |->
         PhiInterval(ContextGet(old, v), ContextGet(out, Of(v).opts[pred]), is_back_edge(b, pred))]

\* The comparison that decides the end of block b, where it is one of a variable with a
\* constant; a set of one or none.
Comparisons_(b) ==
  LET all == UNION {ToSet(func.code[c]) : c \in FuncBlocks(func)}
  IN  {ins \in all : /\ ins.op = "icmp" /\ Len(EndOf(func, b)) = 2 /\ ins.def = func.ends[b].cond
                     /\ ins.lhs \notin DOMAIN func.constants /\ ins.rhs \in DOMAIN func.constants}

Inverse_(rel) ==
  CASE rel = "lt" -> "ge" [] rel = "ge" -> "lt" [] rel = "gt" -> "le" [] rel = "le" -> "gt"
    [] rel = "eq" -> "ne" [] rel = "ne" -> "eq"

\* What the i-th edge out of b says of the variable compared.
EdgeCondition(icmp, i) == Condition(IF i = 1 THEN icmp.rel ELSE Inverse_(icmp.rel), func.constants[icmp.rhs])

\* refine_context
Refined(ctx, b, i) ==
  [v \in DOMAIN ctx \cup {icmp.lhs : icmp \in Comparisons_(b)} |->
     IF \E icmp \in Comparisons_(b) : icmp.lhs = v
     THEN LET icmp == CHOOSE c \in Comparisons_(b) : TRUE
          IN  IntersectWith(ContextGet(ctx, v), EdgeCondition(icmp, i))
     ELSE ctx[v]]

\* The context of the i-th target of b.
ContextOf(b, i, out) ==
  LET succ == EndOf(func, b)[i]
      old  == in_ctxs[succ]
  IN  Refined(PhiIntervals(old, out, succ, b) @@ ContextUnion(old, out), b, i)

\* The condition takes values away that came along other edges, or speaks of a phi of the
\* target: of its value before the edge, and it is laid over the one after.
Guesses(b, i, new) ==
  LET succ == EndOf(func, b)[i]
  IN  \E icmp \in Comparisons_(b) :
        \/ ~(Members(ContextGet(in_ctxs[succ], icmp.lhs)) \subseteq Members(new[icmp.lhs]))
        \/ \E phi \in PhisOf(succ, b) : phi.def = icmp.lhs

-----------------------------------------------------------------------------
(* The analysis, one block at a time, and then a run. *)

AnalysisInit ==
  /\ func \in Analysed
  /\ in_ctxs = [b \in FuncBlocks(func) |-> IF b = Entry THEN [v \in func.params |-> AnyWord] ELSE <<>>]
  /\ worklist = <<Entry>>
  /\ analyses = [b \in FuncBlocks(func) |-> 0]
  /\ at = 0 /\ env = <<>>
  /\ wraps \in BOOLEAN
  /\ guessed = FALSE

AnalyseBlock ==
  /\ worklist # <<>>
  /\ LET b   == Head(worklist)
         to  == EndOf(func, b)
         new == [i \in DOMAIN to |-> ContextOf(b, i, ContextAfter(b))]
         changed == SelectSeq([i \in DOMAIN to |-> i], LAMBDA i : new[i] # in_ctxs[to[i]])
     IN  /\ in_ctxs' = [c \in FuncBlocks(func) |-> IF \E i \in DOMAIN to : to[i] = c
                                                   THEN new[CHOOSE i \in DOMAIN to : to[i] = c]
                                                   ELSE in_ctxs[c]]
         /\ worklist' = Tail(worklist) \o [i \in DOMAIN changed |-> to[changed[i]]]
         /\ analyses' = [analyses EXCEPT ![b] = @ + 1]
         /\ guessed' = (guessed \/ \E i \in DOMAIN to : Guesses(b, i, new[i]))
  /\ UNCHANGED <<func, at, env>>

ValueIn(e, v) == IF v \in DOMAIN e THEN e[v] ELSE func.constants[v]

\* The values an instruction may define.
Defined(e, ins) ==
  LET A == {ValueIn(e, ins.lhs)}
      B == {ValueIn(e, ins.rhs)}
  IN  CASE ins.op = "getint" -> Words
        [] ins.op = "icmp" -> {IF Meeting(ins.rel, ValueIn(e, ins.rhs), A) # {} THEN 1 ELSE 0}
        [] OTHER -> ResultsOf(ins.op, A, B)

EnvsAfter(b) ==
  FoldLeft(LAMBDA envs, ins : UNION {{(ins.def :> n) @@ e : n \in Defined(e, ins)} : e \in envs}, {env}, func.code[b])

PhiValues(e, b, pred) ==
  LET Of(v) == CHOOSE phi \in PhisOf(b, pred) : phi.def = v
  IN  [v \in {phi.def : phi \in PhisOf(b, pred)} |-> ValueIn(e, Of(v).opts[pred])]

StartRun ==
  /\ worklist = <<>> /\ at = 0
  /\ at' = Entry
  /\ env' \in [func.params -> Words]
  /\ UNCHANGED <<func, in_ctxs, worklist, analyses, guessed>>

RunBlock ==
  /\ at # 0 /\ EndOf(func, at) # <<>>
  /\ \E e \in EnvsAfter(at) :
       LET to == EndOf(func, at)
       IN  /\ at' = to[IF Len(to) = 2 /\ ValueIn(e, func.ends[at].cond) = 0 THEN 2 ELSE 1]
           /\ env' = PhiValues(e, at', at) @@ e
  /\ UNCHANGED <<func, in_ctxs, worklist, analyses, guessed>>

Analysis ==
  /\ AnalyseBlock \/ StartRun \/ RunBlock
  /\ UNCHANGED <<bounds, values, widenings, walked, wraps>>

-----------------------------------------------------------------------------
(* Properties *)

Latches(b) == {pred \in FuncBlocks(func) : b \in ToSet(EndOf(func, pred)) /\ is_back_edge(b, pred)}

\* Two ways back into a loop, one of them under a condition: what widening gave the phi
\* along one, the condition takes away along the other, and the bounds creep from word
\* to word.
CutsBack == \E b \in FuncBlocks(func) :
              Cardinality(Latches(b)) > 1 /\ \E pred \in Latches(b) : Len(EndOf(func, pred)) = 2

\* The worklist of rabai_function runs empty: no block is taken from it more often than
\* MaxAnalyses times, which does not depend on how many words there are, although the
\* conditions of branches may make a context smaller again (line 250) and a block may be
\* in the worklist twice.  Where a loop cuts back this is false.
MaxAnalyses == 8
FewAnalyses == (\A b \in FuncBlocks(func) : analyses[b] <= MaxAnalyses) \/ CutsBack

\* What the analysis ends with holds: in every run of the function, whenever a block is
\* entered, every variable that has a value is known there and its value is in the
\* intervals computed for the block; except after the analysis guessed, which
\* refine_context does where it lays a condition over values of other edges or of a phi.
CoversRuns ==
  at # 0 /\ ~guessed =>
    \A v \in DOMAIN env : v \in DOMAIN in_ctxs[at] /\ env[v] \in Members(in_ctxs[at][v])
=============================================================================
