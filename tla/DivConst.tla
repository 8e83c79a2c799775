------------------------------ MODULE DivConst ------------------------------
(***************************************************************************)
(* Arithmetic with a constant (ConstOpt): applyDivConst replaces `ans =    *)
(* src / C` by shifts, additions and a multiplication, and applyMulConst   *)
(* replaces `ans = src * C` by at most three shifts and additions when the *)
(* table of plans has C; the code is then run on a machine with the        *)
(* registers of the target.  A word of the source language has W bits (32  *)
(* in the code) and sits sign-extended in a register of 2W bits (64 in the *)
(* code), where the target's 32-bit instructions leave it and its          *)
(* comparisons expect it.                                                  *)
(*                                                                         *)
(* LIR generation (convert_instruction) loads a constant operand that is   *)
(* not positive into a variable, so only positive ones get here.           *)
(***************************************************************************)
EXTENDS Powers, Sequences, TLC

CONSTANT W  \* bits in a word
ASSUME WordAssumption == W \in Nat \ {0, 1}

VARIABLES
  work,  \* "div", "mul" or "rem"
  C,     \* the constant: divisor or factor
  src,   \* the dividend, as the program has it
  regs,  \* value of each register: src, ans and the divAssist temporaries
  code   \* the instructions emitted and not yet run

vars == <<work, C, src, regs, code>>

\* x as a signed number of n bits.
Wrap(x, n) == ((x + Pow2[n - 1]) % Pow2[n]) - Pow2[n - 1]
Word     == -(Pow2[W - 1]) .. (Pow2[W - 1] - 1)
Divisors == 1 .. (Pow2[W - 1] - 1)

-----------------------------------------------------------------------------
(* Instructions: the ones ConstOpt creates, with what the assembler text   *)
(* that Function::translate_instruction makes of them does.           *)

Instr(op, a, b, to) == [op |-> op, a |-> a, b |-> b, to |-> to]

\* SHIFT_RIGHT is srli, a logical shift of the whole register.
ShiftRight(x, k) == Wrap((x % Pow2[2 * W]) \div Pow2[k], 2 * W)

\* Division of the source language rounds toward zero; remw leaves the rest.
Quotient(n, d) == IF n < 0 THEN -((-n) \div d) ELSE n \div d
Remainder(n, d) == n - d * Quotient(n, d)

\* ADD, SUB, MUL and MOD of 32-bit variables are addw, subw, mulw
\* and remw, SHIFT_LEFT is slli, which leaves the word unextended, and MULH_SUP is a 64-bit mul.
Result(in) ==
  CASE in.op = "move"        -> regs[in.a]
    [] in.op = "load_imm"    -> Wrap(in.a, W)
    [] in.op = "shift_right" -> ShiftRight(regs[in.a], in.b)
    [] in.op = "shift_left"  -> Wrap(regs[in.a] * Pow2[in.b], 2 * W)
    [] in.op = "add_imm"     -> Wrap(regs[in.a] + in.b, W)
    [] in.op = "mul"         -> Wrap(regs[in.a] * regs[in.b], W)
    [] in.op = "mod"         -> Remainder(Wrap(regs[in.a], W), Wrap(regs[in.b], W))
    [] in.op = "add"         -> Wrap(regs[in.a] + regs[in.b], W)
    [] in.op = "sub"         -> Wrap(regs[in.a] - regs[in.b], W)
    [] in.op = "mulh_sup"    -> Wrap(regs[in.a] * regs[in.b], 2 * W)

-----------------------------------------------------------------------------
(* applyDivConst. *)

Log2Floor(x) == CHOOSE k \in 0..W : Pow2[k] <= x /\ x < Pow2[k + 1]
IsPowerOf2(x) == x = Pow2[Log2Floor(x)]

\* The candidates low and high for the multiplier, after k halvings.
Low(d, k)  == (Pow2[W + Log2Floor(d)] \div d) \div Pow2[k]
\* Mutant: no slack above the exact multiplier.
HighTruncated(d, k) == (Pow2[W + Log2Floor(d)] \div d) \div Pow2[k]
High(d, k) == ((Pow2[W + Log2Floor(d)] + Pow2[Log2Floor(d) + 1]) \div d) \div Pow2[k]

\* They are halved as long as they stay apart and the shift is positive.
CanHalve(d, k) == Low(d, k + 1) < High(d, k + 1) /\ k < Log2Floor(d)

Multiplier(d) ==
  LET k == CHOOSE k \in 0..Log2Floor(d) :
             ~CanHalve(d, k) /\ \A j \in 0..(k - 1) : CanHalve(d, j)
  IN  [high |-> High(d, k), sh |-> Log2Floor(d) - k]

\* Mutant: no bias before the shift.
PowerOf2Shift(x) ==
  IF x = 0 THEN <<Instr("move", "src", "", "ans")>>
  ELSE << Instr("shift_right", "src", x, "ans") >>

PowerOf2Code(x) ==
  IF x = 0 THEN <<Instr("move", "src", "", "ans")>>
  ELSE << Instr("shift_right", "src", 2 * W - x, "op1"),
          Instr("add", "src", "op1", "op2"),
          Instr("shift_right", "op2", x, "ans") >>

SmallMultiplierCode(m) ==
  << Instr("load_imm", m.high, 0, "tmp"),
     Instr("mulh_sup", "src", "tmp", "op1"),
     Instr("shift_right", "op1", W + m.sh, "op2"),
     Instr("shift_right", "src", W - 1, "op3"),
     Instr("sub", "op2", "op3", "ans") >>

\* Mutant: the sign of the dividend is not added back.
LargeMultiplierFloor(m) ==
  << Instr("load_imm", m.high - Pow2[W], 0, "tmp"),
     Instr("mulh_sup", "src", "tmp", "op1"),
     Instr("shift_right", "op1", W, "op2"),
     Instr("add", "op2", "src", "op3"),
     Instr("shift_right", "op3", m.sh, "ans") >>

LargeMultiplierCode(m) ==
  << Instr("load_imm", m.high - Pow2[W], 0, "tmp"),
     Instr("mulh_sup", "src", "tmp", "op1"),
     Instr("shift_right", "op1", W, "op2"),
     Instr("add", "op2", "src", "op3"),
     Instr("shift_right", "op3", m.sh, "op4"),
     Instr("shift_right", "src", W - 1, "op5"),
     Instr("sub", "op4", "op5", "ans") >>

IsSmall(m) == m.high < Pow2[W - 1]

DivConstCode(d) ==
  LET m == Multiplier(d)
  IN  IF IsPowerOf2(d) THEN PowerOf2Code(Log2Floor(d))
      ELSE IF IsSmall(m) THEN SmallMultiplierCode(m)
      ELSE LargeMultiplierCode(m)

-----------------------------------------------------------------------------
(* applyMulConst.  The table of plans (ArithmeticOpt::initialize): 0 and x *)
(* cost nothing; a plan of the next cost shifts the product of a cheaper   *)
(* one or adds or subtracts two, and is kept when its factor is new.  The  *)
(* order of the loops picks one of the plans of a factor, any will do.     *)

MulCost == 3  \* MUL_COST

Plan(op, l, r) == [op |-> op, l |-> l, r |-> r]

\* Mutant: the operands of a subtraction are swapped.
FactorSwapped(p) ==
  CASE p.op = "shl" -> Wrap(p.l * Pow2[p.r], W)
    [] p.op = "add" -> Wrap(p.l + p.r, W)
    [] p.op = "sub" -> Wrap(p.r - p.l, W)

Factor(p) ==
  CASE p.op = "shl" -> Wrap(p.l * Pow2[p.r], W)
    [] p.op = "add" -> Wrap(p.l + p.r, W)
    [] p.op = "sub" -> Wrap(p.l - p.r, W)

\* A shift goes on until the sign bit is set, which it already is in a negative one.
Shifts(v) == IF v <= 0 THEN {} ELSE 1..(W - 1 - Log2Floor(v))

Pairs(levels, d) ==
  UNION {(DOMAIN levels[e[1]]) \X (DOMAIN levels[e[2]]) :
           e \in {g \in (0..(d - 1)) \X (0..(d - 1)) : g[1] + g[2] < d}}
Shifted(levels, d) ==
  UNION {{Plan("shl", v, k) : k \in Shifts(v)} : v \in UNION {DOMAIN levels[i] : i \in 0..(d - 1)}}
Candidates(levels, d) ==
  Shifted(levels, d) \cup {Plan("add", e[1], e[2]) : e \in Pairs(levels, d)}
                     \cup {Plan("sub", e[1], e[2]) : e \in Pairs(levels, d)}

\* The tables up to cost d from those below.
Extended(levels, d) ==
  LET known == UNION {DOMAIN levels[i] : i \in 0..(d - 1)}
      plans == Candidates(levels, d)
      fresh == [v \in {Factor(p) : p \in plans} \ known |-> CHOOSE p \in plans : Factor(p) = v]
  IN  [i \in 0..d |-> IF i < d THEN levels[i] ELSE fresh]

\* Each table goes from factors to plans.
Levels[d \in 0..MulCost] ==
  IF d = 0 THEN [i \in {0} |-> [v \in {0, 1} |-> Plan("given", v, v)]] ELSE Extended(Levels[d - 1], d)

Cost(v) == CHOOSE d \in 0..MulCost : v \in DOMAIN Levels[MulCost][d]

OperandMap == [v \in UNION {DOMAIN Levels[MulCost][d] : d \in 0..MulCost} |-> Levels[MulCost][Cost(v)][v]]

Assist == <<"op1", "op2", "op3", "op4", "op5">>

\* Where code leaves its result.
ResultOf(steps) == IF steps = <<>> THEN "src" ELSE steps[Len(steps)].to

\* The instructions of one action of a plan, from the results l and r of its parts.
ActionCode(p, l, r, to) ==
  CASE p.op = "shl" -> <<Instr("shift_left", l, p.r, to)>>
    [] p.op # "shl" /\ p.l # 0 /\ p.r # 0 -> <<Instr(p.op, l, r, to)>>
    [] p.op # "shl" /\ p.l = 0 /\ p.r = 0 -> <<Instr("load_imm", 0, 0, to)>>
    [] p.op = "sub" /\ p.l = 0 /\ p.r # 0 -> <<Instr("load_imm", 0, 0, "tmp"), Instr("sub", "tmp", r, to)>>
    [] OTHER -> <<Instr("add_imm", IF p.l = 0 THEN r ELSE l, 0, to)>>

PlanCode(p, left, right, n) ==
  left \o right \o ActionCode(p, ResultOf(left), ResultOf(right), Assist[n + Len(left) + Len(right)])

\* readPlanRec: the code of the product of src by v, its actions from the n-th mulAssist
\* on; the last instruction holds the product.
ReadPlan[v \in DOMAIN OperandMap] ==
  [n \in Nat |->
    LET p == OperandMap[v]
        left == IF p.l \in {0, 1} THEN <<>> ELSE ReadPlan[p.l][n]
        right == IF p.op = "shl" \/ p.r \in {0, 1} THEN <<>> ELSE ReadPlan[p.r][n + Len(left)]
    IN  PlanCode(p, left, right, n)]

MulConstCode(c) ==
  IF c \notin DOMAIN OperandMap THEN <<Instr("load_imm", c, 0, "tmp"), Instr("mul", "src", "tmp", "ans")>>
  ELSE IF c = 1 THEN <<Instr("move", "src", "", "ans")>>
  ELSE LET steps == ReadPlan[c][1] IN Append(steps, Instr("move", steps[Len(steps)].to, "", "ans"))

RemConstCode(c) == <<Instr("load_imm", c, 0, "tmp"), Instr("mod", "src", "tmp", "ans")>>

-----------------------------------------------------------------------------
Init ==
  /\ work \in {"div", "mul", "rem"}
  /\ C \in Divisors
  /\ src \in Word
  /\ regs = [r \in {"src", "ans", "tmp", "op1", "op2", "op3", "op4", "op5"} |->
               IF r = "src" THEN src ELSE 0]
  /\ code = CASE work = "div" -> DivConstCode(C)
             [] work = "mul" -> MulConstCode(C)
             [] work = "rem" -> RemConstCode(C)

\* Run the next instruction.
Step ==
  /\ code # <<>>
  /\ regs' = [regs EXCEPT ![Head(code).to] = Result(Head(code))]
  /\ code' = Tail(code)
  /\ UNCHANGED <<work, C, src>>

Next == Step
Spec == Init /\ [][Next]_vars

-----------------------------------------------------------------------------
(* Properties. *)

Finished == code = <<>>
Divided  == Finished /\ work = "div"

\* A dividend that is not negative is divided exactly, whatever the divisor: the
\* multiplier and the shift that applyDivConst picks are precise enough.
ExactWhenNotNegative ==
  Divided /\ src >= 0 => regs["ans"] = Quotient(src, C)

\* A divisor whose multiplier does not fit a positive word divides negative
\* dividends exactly too.
ExactWithLargeMultiplier ==
  Divided /\ ~IsPowerOf2(C) /\ ~IsSmall(Multiplier(C)) =>
    regs["ans"] = Quotient(src, C)

\* The low word of the answer is the quotient of a negative dividend by a power
\* of two, though the register may not hold it sign-extended.
LowWordWithPowerOf2 ==
  Divided /\ IsPowerOf2(C) => Wrap(regs["ans"], W) = Quotient(src, C)

\* The comment on the small multiplier says `srai %1, #(32+sh)`: the high half of
\* the product is then the quotient less one for a negative dividend.
ExactWithSmallMultiplier ==
  Divided /\ ~IsPowerOf2(C) /\ IsSmall(Multiplier(C)) =>
    Wrap(regs["ans"], W) = Quotient(src, C)

\* A product that fits a word is in its register as the comparisons of the target expect
\* it, and one that does not has the right low word: each plan of the table computes the
\* factor it is filed under, through overflows of its parts.
ProductsRight ==
  Finished /\ work = "mul" =>
    /\ Wrap(regs["ans"], W) = Wrap(src * C, W)
    /\ src * C \in Word => regs["ans"] = src * C
=============================================================================
