------------------------- MODULE AlgebraicSimplify -------------------------
(***************************************************************************)
(* AlgebraicSimplify: integer instructions and comparisons of one block    *)
(* are put in a standard form (StandardizeBinary), folded when their       *)
(* operands are constants (GlobalValueNumbering::fold_instruction) and     *)
(* rewritten by algebraic identities, round after round, while a round     *)
(* changes something.                                                      *)
(*                                                                         *)
(* The instructions a value depends on are a term: a constant, a variable  *)
(* (what the block does not compute) or an operation on two terms.  Equal   *)
(* terms are one instruction, as the value numbering that runs before      *)
(* leaves them.  Instructions nothing uses, which DeadInstEliminate takes   *)
(* out at the end of a round, are not part of a term.                      *)
(***************************************************************************)
EXTENDS Words, Sequences

CONSTANTS
  Vars,   \* variables
  Terms   \* the terms given

VARIABLES
  given,      \* the term before the pass
  term,       \* the term now
  falseIdentity, \* whether the pass met x % x or (-x) / x, which it takes for 1
  overflowing,\* the values of the variables for which it rewrote a division that overflows
  rounds,     \* rounds made
  rewriting   \* "on", "done", or "aborted": the pass divided by zero or called log_fatal

svars == <<given, term, falseIdentity, overflowing, rounds, rewriting>>

-----------------------------------------------------------------------------
(* Terms.  Every node has the same fields. *)

ArithmeticOps == {"add", "sub", "mul", "div", "mod", "max", "min"}
Comparisons   == {"eq", "ne", "lt", "le", "gt", "ge"}
Commutative   == {"add", "mul", "max", "min"}

Con(n)        == [op |-> "const", n |-> Wrapped(n), l |-> <<>>, r |-> <<>>]
Var(x)        == [op |-> x, n |-> 0, l |-> <<>>, r |-> <<>>]
Bin(op, l, r) == [op |-> op, n |-> 0, l |-> l, r |-> r]
Zext(c)       == [op |-> "zext", n |-> 0, l |-> c, r |-> <<>>]

IsConst(t)  == t.op = "const"
IsLeaf(t)   == t.l = <<>>
IsZero(t)   == IsConst(t) /\ t.n = 0
IsNeg(t)    == t.op = "sub" /\ IsZero(t.l)
IsBinary(t) == t.op \in ArithmeticOps \cup Comparisons

SwapOp(op) ==
  CASE op = "lt" -> "gt" [] op = "gt" -> "lt" [] op = "le" -> "ge" [] op = "ge" -> "le"
    [] OTHER -> op

Holds(op, a, b) ==
  CASE op = "eq" -> a = b [] op = "ne" -> a # b [] op = "lt" -> a < b
    [] op = "le" -> a <= b [] op = "gt" -> a > b [] op = "ge" -> a >= b

\* The number an operation stands for, before it is wrapped to a word.
Applied(op, a, b) ==
  CASE op = "add" -> a + b
    [] op = "sub" -> a - b
    [] op = "mul" -> a * b
    [] op = "div" -> Div(a, b)
    [] op = "mod" -> Mod(a, b)
    [] op = "max" -> IF a < b THEN b ELSE a
    [] op = "min" -> IF a < b THEN a ELSE b
    [] OTHER -> IF Holds(op, a, b) THEN 1 ELSE 0

-----------------------------------------------------------------------------
(* StandardizeBinary: constants on the right, no negative ones to add or   *)
(* subtract.                                                               *)

\* mutant: the relation is kept when the operands change sides.
ExchangeOnly(t) ==
  IF t.op \in Commutative \cup Comparisons /\ IsConst(t.l) /\ ~IsConst(t.r)
  THEN Bin(t.op, t.r, t.l)
  ELSE t

ExchangeOperands(t) ==
  IF t.op \in Commutative \cup Comparisons /\ IsConst(t.l) /\ ~IsConst(t.r)
  THEN Bin(SwapOp(t.op), t.r, t.l)
  ELSE t

ReverseSign(t) ==
  IF t.op \in {"add", "sub"} /\ IsConst(t.r) /\ t.r.n < 0
  THEN Bin(IF t.op = "add" THEN "sub" ELSE "add", t.l, Con(-t.r.n))
  ELSE t

-----------------------------------------------------------------------------
(* Folding.  Abort stands for a division by zero (log_error in the folding, *)
(* SIGFPE in an identity), Fatal for the log_fatal of reduce_cmp.           *)

Abort == Bin("abort", <<>>, <<>>)
Fatal == Bin("fatal", <<>>, <<>>)

FoldInstruction(t) ==
  CASE t.op = "zext" /\ IsConst(t.l) -> t.l
    [] IsBinary(t) /\ IsConst(t.l) /\ IsConst(t.r) ->
         IF t.op \in {"div", "mod"} /\ IsZero(t.r) THEN Abort
         ELSE Con(Applied(t.op, t.l.n, t.r.n))
    [] OTHER -> t

-----------------------------------------------------------------------------
(* The identities.  Each of the reduce functions takes the first that fits. *)

HaveCommonFactor(l, r) == l.op = "mul" /\ r.op = "mul" /\ {l.l, l.r} \cap {r.l, r.r} # {}

\* l and r as <<p, q, factor>>: l = p * factor and r = q * factor.
Factored(l, r) ==
  IF l.r = r.r THEN <<l.l, r.l, l.r>>
  ELSE IF l.l = r.r THEN <<l.r, r.l, l.l>>
  ELSE IF l.l = r.l THEN <<l.r, r.r, l.l>>
  ELSE <<l.l, r.r, l.r>>

ByFactor(op, l, r) == LET f == Factored(l, r) IN Bin("mul", Bin(op, f[1], f[2]), f[3])

HasFactor(m, t) == m.op = "mul" /\ t \in {m.l, m.r}
CoFactor(m, t)  == IF m.l = t THEN m.r ELSE m.l

\* m op t, where t is a factor of m.
OneMore(op, m, t) == Bin("mul", Bin(op, CoFactor(m, t), Con(1)), t)

\* l + r with a constant r.
AddConstant(l, r) ==
  IF IsZero(r) THEN l
  ELSE IF l.op = "add" /\ IsConst(l.r) THEN Bin("add", l.l, Con(l.r.n + r.n))
  ELSE IF l.op = "sub" /\ ~IsConst(l.l) /\ IsConst(l.r) THEN Bin("add", l.l, Con(r.n - l.r.n))
  ELSE IF l.op = "sub" /\ IsConst(l.l) /\ ~IsConst(l.r) THEN Bin("sub", Con(l.l.n + r.n), l.r)
  ELSE Bin("add", l, r)

\* mutant: l + (-r) is left to the identities of -: l - (-r) is l + r again.
ReduceAddLoop(l, r) ==
  IF IsConst(r) /\ ~IsZero(r) THEN Bin("sub", l, Con(-r.n)) ELSE Bin("add", l, r)

ReduceAdd(l, r) ==
  IF l = r THEN Bin("mul", l, Con(2))
  ELSE IF IsConst(r) /\ AddConstant(l, r) # Bin("add", l, r) THEN AddConstant(l, r)
  ELSE IF IsNeg(r) THEN Bin("sub", l, r.r)
  ELSE IF IsNeg(l) THEN Bin("sub", r, l.r)
  ELSE IF HaveCommonFactor(l, r) THEN ByFactor("add", l, r)
  ELSE IF HasFactor(l, r) THEN OneMore("add", l, r)
  ELSE IF HasFactor(r, l) THEN OneMore("add", r, l)
  ELSE Bin("add", l, r)

\* l - r with a constant l.
SubFromConstant(l, r) ==
  IF IsZero(l) /\ r.op = "sub" THEN (IF IsZero(r.l) THEN r.r ELSE Bin("sub", r.r, r.l))
  ELSE IF r.op = "add" /\ IsConst(r.r) THEN Bin("sub", Con(l.n - r.r.n), r.l)
  ELSE IF r.op = "sub" /\ IsConst(r.r) THEN Bin("sub", Con(l.n + r.r.n), r.l)
  ELSE Bin("sub", l, r)

\* mutant: (a - c1) - c2 taken for a - (c1 - c2).
SubConstantWrongly(l, r) ==
  IF l.op = "sub" /\ IsConst(l.r) THEN Bin("sub", l.l, Con(l.r.n - r.n)) ELSE Bin("sub", l, r)

\* l - r with a constant r.
SubConstant(l, r) ==
  IF IsZero(r) THEN l
  ELSE IF l.op = "add" /\ IsConst(l.r) THEN Bin("add", l.l, Con(l.r.n - r.n))
  ELSE IF l.op = "sub" /\ IsConst(l.r) THEN Bin("sub", l.l, Con(l.r.n + r.n))
  ELSE IF l.op = "sub" /\ IsConst(l.l) THEN Bin("sub", Con(l.l.n - r.n), l.r)
  ELSE Bin("sub", l, r)

ReduceSub(l, r) ==
  IF l = r THEN Con(0)
  ELSE IF IsNeg(r) THEN Bin("add", l, r.r)
  ELSE IF l.op = "add" /\ l.l = r THEN l.r
  ELSE IF l.op = "add" /\ l.r = r THEN l.l
  ELSE IF r.op = "add" /\ r.l = l THEN Bin("sub", Con(0), r.r)
  ELSE IF r.op = "add" /\ r.r = l THEN Bin("sub", Con(0), r.l)
  ELSE IF IsConst(l) /\ SubFromConstant(l, r) # Bin("sub", l, r) THEN SubFromConstant(l, r)
  ELSE IF IsConst(r) /\ SubConstant(l, r) # Bin("sub", l, r) THEN SubConstant(l, r)
  ELSE IF HasFactor(l, r) THEN OneMore("sub", l, r)
  ELSE IF HaveCommonFactor(l, r) THEN ByFactor("sub", l, r)
  ELSE Bin("sub", l, r)

ReduceMul(l, r) ==
  IF ~IsConst(r) THEN Bin("mul", l, r)
  ELSE IF r.n = 0 THEN Con(0)
  ELSE IF r.n = 1 THEN l
  ELSE IF r.n = -1 THEN Bin("sub", Con(0), l)
  ELSE IF IsNeg(l) THEN Bin("mul", l.r, Con(-r.n))
  ELSE IF l.op = "mul" /\ IsConst(l.r) THEN Bin("mul", l.l, Con(l.r.n * r.n))
  ELSE Bin("mul", l, r)

\* A product with a constant, divided by a constant: the pass computes c2 % c1.
ConstantProduct(l, r) == IsConst(r) /\ l.op = "mul" /\ IsConst(l.r)
Divides(r, l) == ~IsZero(r) /\ Mod(l.r.n, r.n) = 0

ReduceDiv(l, r) ==
  IF l = r THEN Con(1)
  ELSE IF IsNeg(r) /\ r.r = l THEN Con(-1)
  ELSE IF IsZero(l) THEN Con(0)
  ELSE IF IsConst(r) /\ r.n = 1 THEN l
  ELSE IF IsConst(r) /\ r.n = -1 THEN Bin("sub", Con(0), l)
  ELSE IF ConstantProduct(l, r) /\ IsZero(r) THEN Abort
  ELSE IF ConstantProduct(l, r) /\ Divides(r, l) THEN Bin("mul", l.l, Con(Div(l.r.n, r.n)))
  ELSE IF IsConst(r) /\ IsNeg(l) THEN Bin("div", l.r, Con(-r.n))
  ELSE IF IsNeg(l) /\ l.r = r THEN Con(1)
  ELSE IF HasFactor(r, l) THEN Bin("div", Con(1), CoFactor(r, l))
  ELSE Bin("div", l, r)

ReduceMod(l, r) ==
  IF l = r THEN Con(1)
  ELSE IF IsZero(l) \/ (IsConst(r) /\ r.n \in {1, -1}) THEN Con(0)
  ELSE IF ConstantProduct(l, r) /\ IsZero(r) THEN Abort
  ELSE IF ConstantProduct(l, r) /\ Divides(r, l) THEN Bin("mul", l.l, Con(Mod(l.r.n, r.n)))
  ELSE Bin("mod", l, r)

\* max(max(a, b), a) and max(min(a, b), a), and so on.
ReduceExtremum(op, l, r) ==
  LET Over(u, v) == u.op \in {"max", "min"} /\ v \in {u.l, u.r}
      Absorbed(u, v) == IF u.op = op THEN u ELSE v
  IN  IF l = r THEN l
      ELSE IF Over(l, r) THEN Absorbed(l, r)
      ELSE IF Over(r, l) THEN Absorbed(r, l)
      ELSE Bin(op, l, r)

\* (zext of a comparison of a value with 0) != 0.
ReduceIcmpWithZext(op, l, r) ==
  IF op = "ne" /\ IsZero(r) /\ l.l.op \in Comparisons /\ ~IsConst(l.l.l) /\ IsZero(l.l.r)
  THEN l.l ELSE Bin(op, l, r)

\* A constant on the left is log_fatal("Should handle before").
ReduceCmp(op, l, r) ==
  IF IsConst(l) /\ IsConst(r) THEN Bin(op, l, r)
  ELSE IF IsConst(l) THEN Fatal
  ELSE IF IsConst(r) THEN (IF l.op = "zext" THEN ReduceIcmpWithZext(op, l, r) ELSE Bin(op, l, r))
  ELSE IF l = r THEN Con(IF op \in {"eq", "le", "ge"} THEN 1 ELSE 0)
  ELSE Bin(op, l, r)

Reduce(t) ==
  CASE t.op = "add" -> ReduceAdd(t.l, t.r)
    [] t.op = "sub" -> ReduceSub(t.l, t.r)
    [] t.op = "mul" -> ReduceMul(t.l, t.r)
    [] t.op = "div" -> ReduceDiv(t.l, t.r)
    [] t.op = "mod" -> ReduceMod(t.l, t.r)
    [] t.op \in {"max", "min"} -> ReduceExtremum(t.op, t.l, t.r)
    [] t.op \in Comparisons -> ReduceCmp(t.op, t.l, t.r)
    [] OTHER -> t

-----------------------------------------------------------------------------
(* What a term is worth: the program runs with wrapping arithmetic, and    *)
(* the language gives no meaning to an overflow or a division by zero.     *)

RECURSIVE Value(_, _)
Value(t, env) ==
  CASE t.op = "const" -> t.n
    [] t.op \in Vars -> env[t.op]
    [] t.op = "zext" -> Value(t.l, env)
    [] OTHER -> LET b == Value(t.r, env)
                IN  IF t.op \in {"div", "mod"} /\ b = 0 THEN 0
                    ELSE Wrapped(Applied(t.op, Value(t.l, env), b))

RECURSIVE HasMeaning(_, _)
HasMeaning(t, env) ==
  \/ IsLeaf(t)
  \/ t.op = "zext" /\ HasMeaning(t.l, env)
  \/ /\ t.op # "zext" /\ HasMeaning(t.l, env) /\ HasMeaning(t.r, env)
     /\ LET a == Value(t.l, env)
            b == Value(t.r, env)
        IN  IF t.op \in {"div", "mod"} THEN b # 0 /\ ~(a = MinWord /\ b = -1)
            ELSE Applied(t.op, a, b) \in Words

Environments == [Vars -> Words]

-----------------------------------------------------------------------------
(* One round: each sweep visits the instructions in their order, operands  *)
(* before what uses them.                                                  *)

RECURSIVE Sweep(_, _)
Sweep(Rewrite(_), t) ==
  IF IsLeaf(t) THEN t
  ELSE LET l == Sweep(Rewrite, t.l)
           r == IF t.op = "zext" THEN <<>> ELSE Sweep(Rewrite, t.r)
           ended == {l, r} \cap {Abort, Fatal}
       IN  IF ended # {} THEN CHOOSE e \in ended : TRUE ELSE Rewrite([t EXCEPT !.l = l, !.r = r])

\* The divisions and remainders, with their operands, that Reduce makes something else of.
RECURSIVE DivisionsRewritten(_)
DivisionsRewritten(t) ==
  IF IsLeaf(t) THEN {}
  ELSE LET l == Sweep(Reduce, t.l)
           r == IF t.op = "zext" THEN <<>> ELSE Sweep(Reduce, t.r)
           here == [t EXCEPT !.l = l, !.r = r]
       IN  DivisionsRewritten(t.l)
           \cup (IF t.op = "zext" THEN {} ELSE DivisionsRewritten(t.r))
           \cup (IF t.op \in {"div", "mod"} /\ {l, r} \cap {Abort, Fatal} = {} /\ Reduce(here) # here
                 THEN {here} ELSE {})

\* x % x and (-x) / x, which are taken for 1.
TakenForOne(d) == (d.op = "mod" /\ d.l = d.r) \/ (d.op = "div" /\ IsNeg(d.l) /\ d.l.r = d.r)

Standardized(t) == Sweep(ReverseSign, Sweep(ExchangeOperands, t))
Folded(t)       == Sweep(FoldInstruction, t)

\* handle_intbinary_icmp reports a change exactly when the term is another one.
Round ==
  /\ rewriting = "on"
  /\ LET folded == Folded(Standardized(term))
         reduced == Sweep(Reduce, folded)
     IN  /\ term' = reduced
         /\ falseIdentity' = (falseIdentity \/ \E d \in DivisionsRewritten(folded) : TakenForOne(d))
         /\ overflowing' = overflowing \cup
              {env \in Environments : \E d \in DivisionsRewritten(folded) : ~HasMeaning(d, env)}
         /\ rewriting' = CASE reduced \in {Abort, Fatal} -> "aborted"
                           [] reduced = Standardized(term) -> "done"
                           [] OTHER -> "on"
  /\ rounds' = rounds + 1
  /\ UNCHANGED given

SimplifyInit ==
  /\ given \in Terms
  /\ term = given
  /\ falseIdentity = FALSE /\ overflowing = {}
  /\ rounds = 0
  /\ rewriting = "on"

-----------------------------------------------------------------------------
(* Properties *)

RECURSIVE IsRing(_)
IsRing(t) ==
  \/ IsLeaf(t)
  \/ t.op \in {"add", "sub", "mul"} /\ IsRing(t.l) /\ IsRing(t.r)

\* An expression whose value the language defines keeps it through every rewriting, and
\* the pass does not divide by zero over it.  Sums and products keep theirs although the
\* constants the pass computes wrap; a division does where its operands, as the pass has
\* made them, do not overflow (reduce_div takes that for granted and turns x * 2 * 2^30 / 2
\* into x * -2^30).  Nothing is said where x % x or (-x) / x was met, which become 1, and
\* where reduce_cmp calls log_fatal.
SimplifyKeepsValue ==
  falseIdentity \/ term \in {Fatal, given} \/
    \A env \in Environments \ overflowing :
      HasMeaning(given, env) => term # Abort /\ Value(term, env) = Value(given, env)

\* Expressions of +, - and * keep their wrapped value even where they overflow: the
\* constants the pass computes may overflow too.
RingKeepsValue ==
  IsRing(given) /\ term # given =>
    term \notin {Abort, Fatal} /\ \A env \in Environments : Value(term, env) = Value(given, env)

\* The rounds come to an end, and soon: no two identities undo one another, and none
\* undoes StandardizeBinary.  The last round finds nothing to do.
FewRounds == rounds <= 4
=============================================================================
