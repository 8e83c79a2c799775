---------------------------- MODULE MCArithmetic ----------------------------
(***************************************************************************)
(* The arithmetic of the compiler, one machine at a time: the rewriting of *)
(* expressions, the intervals of the interval analysis, the analysis of a  *)
(* function and the code for arithmetic with a constant.                   *)
(***************************************************************************)
EXTENDS AlgebraicSimplify, IntervalAnalysis, DivConst

Leaves == {Var("x"), Var("y")} \cup {Con(n) : n \in {MinWord, -1, 0, 1, 2}}
InnerLeaves == {Var("x"), Var("y"), Con(0), Con(2)}
Inner == {Bin(op, l, r) : op \in ArithmeticOps, l \in InnerLeaves, r \in InnerLeaves}
InnerProducts == {t \in Inner : t.op = "mul"}
\* Quotients and remainders of what two operations that may wrap are made into.
Dividends == {Bin(op, Bin(inner, l, r), c) : op \in {"add", "sub", "mul"}, inner \in {"add", "sub", "mul"},
                l \in {Var("x"), Con(MinWord)}, r \in {Var("x"), Con(2)}, c \in {Con(2), Con(MinWord)}}
MCTerms ==
  {Bin(op, l, r) : op \in ArithmeticOps, l \in Inner, r \in Leaves}
  \cup {Bin(op, l, r) : op \in ArithmeticOps, l \in Leaves, r \in Inner}
  \cup {Bin(op, l, r) : op \in {"add", "sub"}, l \in InnerProducts, r \in InnerProducts}
  \cup {Bin(op, l, r) : op \in ArithmeticOps \cup Comparisons, l \in Leaves, r \in Leaves}
  \cup {Bin(c, l, r) : c \in Comparisons, l \in {t \in Inner : t.op = "sub"}, r \in Leaves}
  \cup {Bin(c, Zext(Bin(d, Var("x"), r)), Con(n)) : c \in Comparisons, d \in Comparisons, r \in Leaves, n \in {0, 1}}
  \cup {Bin(op, t, c) : op \in {"div", "mod"}, t \in Dividends, c \in {Con(-2), Con(-1), Con(2)}}
  \cup {Bin("div", l, t) : l \in {Var("x"), Con(MinWord)}, t \in Dividends}

MCNumbers == {MinWord, 0, MaxWord}
MCOthers == {Undefined, AnyWord, Interval(-1, 0), IntervalSet(<< <<0, 0>>, <<2, 2>> >>),
             IntervalSet(<< <<MinWord, -2>>, <<1, MaxWord>> >>),
             IntervalSet(<< <<0, MaxWord>>, <<1, MaxWord>> >>)}

\* Functions for the interval analysis: one of each shape, for many comparisons r, s with
\* a constant n, from a constant a.  "x" is a parameter where it is named.
Getint(v)        == [def |-> v, op |-> "getint", rel |-> "", lhs |-> "", rhs |-> ""]
Ins(v, op, l, r) == [def |-> v, op |-> op, rel |-> "", lhs |-> l, rhs |-> r]
Icmp(v, rel, l, r) == [def |-> v, op |-> "icmp", rel |-> rel, lhs |-> l, rhs |-> r]
PhiOf(v, opts)   == <<[def |-> v, opts |-> opts]>>
Jmp(b)           == [to |-> <<b>>, cond |-> ""]
If(c, b, d)      == [to |-> <<b, d>>, cond |-> c]
Ret              == [to |-> <<>>, cond |-> ""]
Fn(params, a, n, phis, codes, ends) ==
  [params |-> params, constants |-> ("a" :> a) @@ ("n" :> n) @@ ("one" :> 1),
   phis |-> [b \in DOMAIN codes |-> IF b \in DOMAIN phis THEN phis[b] ELSE <<>>], code |-> codes, ends |-> ends]

While(a, n, r, op, from) ==
  Fn({from} \cap {"x"}, a, n, 2 :> PhiOf("i", (1 :> from) @@ (3 :> "j")),
     << <<>>, <<Icmp("c", r, "i", "n")>>, <<Ins("j", op, "i", "one")>>, <<>> >>,
     <<Jmp(2), If("c", 3, 4), Jmp(2), Ret>>)
DoWhile(a, n, r, tested) ==
  Fn({}, a, n, 2 :> PhiOf("i", (1 :> "a") @@ (2 :> "j")),
     << <<>>, <<Ins("j", "add", "i", "one"), Icmp("c", r, tested, "n")>>, <<>> >>,
     <<Jmp(2), If("c", 2, 3), Ret>>)
Diamond(a, n, r, s) ==
  Fn({"x"}, a, n, 4 :> PhiOf("k", (2 :> "j") @@ (3 :> "l")),
     << <<Icmp("c", r, "x", "n")>>, <<Ins("j", "add", "x", "one")>>, <<Ins("l", "sub", "x", "a")>>,
        <<Icmp("d", s, "k", "a")>>, <<>>, <<>> >>,
     <<If("c", 2, 3), Jmp(4), Jmp(4), If("d", 5, 6), Ret, Ret>>)
LoopWithDiamond(a, n, r, s) ==
  Fn({}, a, n, (2 :> PhiOf("i", (1 :> "a") @@ (6 :> "k"))) @@ (6 :> PhiOf("k", (4 :> "j") @@ (5 :> "l"))),
     << <<>>, <<Icmp("c", r, "i", "n")>>, <<Getint("y"), Icmp("d", s, "y", "a")>>,
        <<Ins("j", "add", "i", "one")>>, <<Ins("l", "sub", "i", "one")>>, <<>>, <<>> >>,
     <<Jmp(2), If("c", 3, 7), If("d", 4, 5), Jmp(6), Jmp(6), Jmp(2), Ret>>)
LoopWithIf(a, n, r, s) ==
  Fn({}, a, n, (2 :> PhiOf("i", (1 :> "a") @@ (5 :> "k"))) @@ (5 :> PhiOf("k", (3 :> "i") @@ (4 :> "j"))),
     << <<>>, <<Icmp("c", r, "i", "n")>>, <<Icmp("d", s, "i", "one")>>, <<Ins("j", "add", "i", "one")>>, <<>>, <<>> >>,
     <<Jmp(2), If("c", 3, 6), If("d", 4, 5), Jmp(5), Jmp(2), Ret>>)
Nested(a, n, r, s, from) ==
  Fn({}, a, n, (2 :> PhiOf("i", (1 :> "a") @@ (5 :> "k"))) @@ (3 :> PhiOf("j", (2 :> from) @@ (4 :> "l"))),
     << <<>>, <<Icmp("c", r, "i", "n")>>, <<Icmp("d", s, "j", "one")>>, <<Ins("l", "add", "j", "one")>>,
        <<Ins("k", "add", "i", "one")>>, <<>> >>,
     <<Jmp(2), If("c", 3, 6), If("d", 4, 5), Jmp(3), Jmp(2), Ret>>)
Break(a, n, r, s) ==
  Fn({}, a, n, 2 :> PhiOf("i", (1 :> "a") @@ (4 :> "j")),
     << <<>>, <<Icmp("c", r, "i", "n")>>, <<Icmp("d", s, "i", "one")>>, <<Ins("j", "add", "i", "one")>>, <<>> >>,
     <<Jmp(2), If("c", 3, 5), If("d", 5, 4), Jmp(2), Ret>>)
\* A continue whose block ends in a jump, and one that is the target of the branch itself.
Continue(a, n, r, s) ==
  Fn({}, a, n, 2 :> PhiOf("i", (1 :> "a") @@ (4 :> "j") @@ (5 :> "l")),
     << <<>>, <<Icmp("c", r, "i", "n")>>, <<Icmp("d", s, "i", "one")>>, <<Ins("j", "add", "i", "one")>>,
        <<Ins("l", "sub", "i", "one")>>, <<>> >>,
     <<Jmp(2), If("c", 3, 6), If("d", 4, 5), Jmp(2), Jmp(2), Ret>>)
BranchBack(a, n, r, s) ==
  Fn({"x"}, a, n, 2 :> PhiOf("i", (1 :> "a") @@ (3 :> "j") @@ (4 :> "l")),
     << <<>>, <<Icmp("c", r, "i", "n")>>, <<Ins("j", "add", "i", "one"), Icmp("d", s, "x", "one")>>,
        <<Ins("l", "add", "j", "one")>>, <<>> >>,
     <<Jmp(2), If("c", 3, 5), If("d", 2, 4), Jmp(2), Ret>>)

MCAnalysed ==
  LET As == {MinWord, -1, 0}
      Ns == {1, MaxWord}
  IN  {While(a, n, r, op, from) : a \in As, n \in Ns, r \in Comparisons, op \in {"add", "sub"}, from \in {"a", "x"}}
      \cup {DoWhile(a, n, r, tested) : a \in As, n \in Ns, r \in Comparisons, tested \in {"i", "j"}}
      \cup UNION {{Diamond(a, n, r, s), LoopWithDiamond(a, n, r, s), LoopWithIf(a, n, r, s), Nested(a, n, r, s, "i"),
                   Nested(a, n, r, s, "a"), Break(a, n, r, s), Continue(a, n, r, s), BranchBack(a, n, r, s)} :
                     a \in As, n \in Ns, r \in {"lt", "ge", "ne"}, s \in {"lt", "eq"}}

SimplifyIdle == given = Con(0) /\ term = Con(0) /\ falseIdentity = FALSE /\ overflowing = {} /\ rounds = 0 /\ rewriting = "done"
WalkIdle     == bounds = Undefined /\ values = {} /\ widenings = 0 /\ walked = Steps
IntervalIdle == WalkIdle /\ guessed = FALSE /\ wraps = FALSE
AnalysisIdle ==
  /\ func = DoWhile(0, 0, "eq", "i") /\ in_ctxs = <<>> /\ worklist = <<>> /\ analyses = <<0, 0, 0>>
  /\ at = 3 /\ env = <<>>
ConstIdle == work = "div" /\ C = 1 /\ src = 0 /\ regs = [r \in {"ans"} |-> 0] /\ code = <<>>

MCInit ==
  \/ SimplifyInit /\ IntervalIdle /\ AnalysisIdle /\ ConstIdle
  \/ IntervalInit /\ SimplifyIdle /\ AnalysisIdle /\ ConstIdle
  \/ AnalysisInit /\ SimplifyIdle /\ WalkIdle /\ ConstIdle
  \/ Init /\ SimplifyIdle /\ IntervalIdle /\ AnalysisIdle

MCNext ==
  \/ Round /\ UNCHANGED <<ivars, avars, vars>>
  \/ Walk /\ UNCHANGED <<svars, avars, vars>>
  \/ Analysis /\ UNCHANGED <<svars, vars>>
  \/ Step /\ UNCHANGED <<svars, ivars, avars>>

MCSpec == MCInit /\ [][MCNext]_<<svars, ivars, avars, vars>>
=============================================================================
