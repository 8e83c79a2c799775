------------------------------ MODULE MirCode ------------------------------
(***************************************************************************)
(* Functions of the intermediate representation as the control-flow passes *)
(* see them, and what running one does.                                    *)
(*                                                                         *)
(* A function has its blocks in a list, the first one being the entry, and *)
(* the code of each block: phis first, a terminator last.  An instruction  *)
(* keeps its operation, the name it defines, its arguments, the blocks it  *)
(* may go to, and the options of a phi.  Four operations stand for all     *)
(* others: "read" takes a bit from the input, "put" shows its argument, and *)
(* "not" negates its argument and is folded when that is a constant.       *)
(***************************************************************************)
EXTENDS Integers, SequencesExt

None == "none"

Constants == {"0", "1"}

Negated == [c \in Constants |-> IF c = "0" THEN "1" ELSE "0"]

Instruction(op, def, args) == [op |-> op, def |-> def, args |-> args, to |-> <<>>, opts |-> <<>>]
Read(def)          == Instruction("read", def, <<>>)
Not(def, arg)      == Instruction("not", def, <<arg>>)
Put(arg)           == Instruction("put", None, <<arg>>)
Ret(arg)           == Instruction("ret", None, <<arg>>)
Jump(b)            == [Instruction("jump", None, <<>>) EXCEPT !.to = <<b>>]
Branch(cond, t, f) == [Instruction("branch", None, <<cond>>) EXCEPT !.to = <<t, f>>]
Phi(def, opts)     == [Instruction("phi", def, <<>>) EXCEPT !.opts = opts]

IsPhi(ins) == ins.op = "phi"

IsTerminator(ins) == ins.op \in {"jump", "branch", "ret"}

\* The elements of a sequence that are in a set, in their order: SelectSeq as a
\* recursive function, which can be reasoned about.
Those(s, set) ==
  LET Kept[i \in 0..Len(s)] ==
        IF i = 0 THEN <<>>
        ELSE IF s[i] \in set THEN Append(Kept[i - 1], s[i]) ELSE Kept[i - 1]
  IN  Kept[Len(s)]

PhisOf(instructions) == {ins \in ToSet(instructions) : IsPhi(ins)}
BodyOf(instructions) == Those(instructions, ToSet(instructions) \ PhisOf(instructions))

Keys(phi) == DOMAIN phi.opts

\* The values an instruction reads.
ValuesRead(ins) == ToSet(ins.args) \cup {ins.opts[b] : b \in Keys(ins)}

Targets(instructions) == IF instructions = <<>> THEN {} ELSE ToSet(Last(instructions).to)

-----------------------------------------------------------------------------
(* The graph and the blocks it reaches. *)

\* mutant: one step only.
ReachedDirectly(order, code) == {Head(order)} \cup Targets(code[Head(order)])

\* What the search visits: the blocks that are in every set with the first block and,
\* with a block, the ones it goes to.
Reached(order, code) ==
  LET closed == {set \in SUBSET ToSet(order) :
                   Head(order) \in set /\ \A b \in set : Targets(code[b]) \subseteq set}
  IN  {b \in ToSet(order) : \A set \in closed : b \in set}

\* From every block there is a way to a return, also when constant branches only go
\* one way: no loop is without an exit.
EveryBlockReturns(f) ==
  LET Followed(t) ==
        CASE t.op = "branch" /\ t.args[1] = "1" -> {t.to[1]}
          [] t.op = "branch" /\ t.args[1] = "0" -> {t.to[2]}
          [] OTHER -> ToSet(t.to)
      Back(found, i) ==
        found \cup {b \in DOMAIN f.code : \/ Last(f.code[b]).op = "ret"
                                        \/ Followed(Last(f.code[b])) \cap found # {}}
  IN  FoldLeft(Back, {}, f.blocks) = DOMAIN f.code

\* An instruction of a function with these blocks.
InstructionOver(ins, blocks) ==
  /\ ins = [op |-> ins.op, def |-> ins.def, args |-> ins.args, to |-> ins.to, opts |-> ins.opts]
  /\ ins.args \in Seq(ValuesRead(ins)) /\ ins.opts \in [Keys(ins) -> ValuesRead(ins)]
  /\ ins.to \in Seq(blocks) /\ Keys(ins) \subseteq blocks
  /\ ins.op = "jump" => Len(ins.to) = 1
  /\ ins.op = "branch" => Len(ins.to) = 2 /\ Len(ins.args) = 1

\* What the branch at the end of a block tests, and the names its phis define.
Tests(instructions) ==
  IF instructions = <<>> \/ Last(instructions).op # "branch" THEN {}
  ELSE {Last(instructions).args[1]}

PhiNames(instructions) == {ins.def : ins \in PhisOf(instructions)}

\* A function: its blocks in order, each with its code; a terminator ends a block and
\* goes to blocks of the function, and a phi has an option for every predecessor.  No
\* branch tests a phi: phis are int or float variables, conditions are of type i1.  A
\* branch on a constant has two targets.
WellFormed(f) ==
  /\ f.blocks \in Seq(DOMAIN f.code) /\ ToSet(f.blocks) = DOMAIN f.code
  /\ f.code \in [DOMAIN f.code -> Seq(UNION {ToSet(f.code[b]) : b \in DOMAIN f.code})]
  /\ \A b \in DOMAIN f.code :
       /\ \A ins \in ToSet(f.code[b]) : InstructionOver(ins, DOMAIN f.code)
       /\ f.code[b] # <<>> /\ IsTerminator(Last(f.code[b]))
       /\ \A ins \in PhisOf(f.code[b]) :
            {a \in DOMAIN f.code : b \in Targets(f.code[a])} \subseteq Keys(ins)
       /\ \A a \in DOMAIN f.code : PhiNames(f.code[a]) \cap (Tests(f.code[b]) \cup Constants) = {}
       /\ Tests(f.code[b]) \cap Constants # {} => Last(f.code[b]).to[1] # Last(f.code[b]).to[2]

PredecessorsOf(order, code) ==
  [b \in ToSet(order) |-> {a \in ToSet(order) : b \in Targets(code[a])}]

SuccessorsOf(order, code) ==
  [b \in ToSet(order) |-> Targets(code[b])]

-----------------------------------------------------------------------------
(* Running a function: a state is where it is, where it came from, what the *)
(* names hold, the input left and what was shown so far.                   *)

NamesIn(code) ==
  UNION {{code[b][i].def : i \in DOMAIN code[b]} : b \in DOMAIN code}

ValueOf(env, v) == IF v \in Constants THEN v ELSE env[v]

Started(order, code, input) ==
  [at |-> Head(order), from |-> None, env |-> [x \in NamesIn(code) |-> "undef"],
   input |-> input, shown |-> <<>>, done |-> FALSE]

\* A phi without an option for the block it was reached from has no value.
PhisTaken(s, phis) ==
  LET Taken(env, phi) ==
        [env EXCEPT ![phi.def] = IF s.from \in Keys(phi) THEN ValueOf(s.env, phi.opts[s.from])
                                 ELSE "undef"]
  IN  FoldLeft(Taken, s.env, phis)

\* An instruction that is no terminator; reading past the input ends the run.
Executed(s, ins) ==
  CASE s.done -> s
    [] ins.op = "read" ->
         IF s.input = <<>> THEN [s EXCEPT !.done = TRUE]
         ELSE [s EXCEPT !.env[ins.def] = Head(s.input), !.input = Tail(@)]
    [] ins.op = "put" -> [s EXCEPT !.shown = Append(@, ValueOf(s.env, ins.args[1]))]
    [] ins.op = "not" ->
         LET v == ValueOf(s.env, ins.args[1])
         IN  [s EXCEPT !.env[ins.def] = IF v \in Constants THEN Negated[v] ELSE "undef"]

Stopped(s, shown) == [s EXCEPT !.done = TRUE, !.shown = @ \o shown]

GoneTo(s, b) == [s EXCEPT !.from = s.at, !.at = b]

\* The terminator; a branch on no value is not defined.
Left(s, ins) ==
  CASE s.done -> s
    [] ins.op = "jump" -> GoneTo(s, ins.to[1])
    [] ins.op = "branch" ->
         LET c == ValueOf(s.env, ins.args[1])
         IN  CASE c = "1" -> GoneTo(s, ins.to[1])
               [] c = "0" -> GoneTo(s, ins.to[2])
               [] OTHER   -> Stopped(s, <<"undef">>)
    [] ins.op = "ret" -> Stopped(s, <<"ret", ValueOf(s.env, ins.args[1])>>)

BlockRun(s, instructions) ==
  IF instructions = <<>> THEN Stopped(s, <<"lost">>)
  ELSE LET entered == [s EXCEPT !.env = PhisTaken(s, SelectSeq(instructions, IsPhi))]
           body == SelectSeq(Front(instructions), LAMBDA ins : ~IsPhi(ins))
       IN  Left(FoldLeft(Executed, entered, body), Last(instructions))

\* What at most fuel blocks do.
RunOf(order, code, input, fuel) ==
  LET Step(s, i) == IF s.done THEN s ELSE BlockRun(s, code[s.at])
      end == FoldLeft(Step, Started(order, code, input), [i \in 1..fuel |-> i])
  IN  [done |-> end.done, shown |-> end.shown]

\* Two runs do the same: both end, or both are still showing the same.
SameRun(r, q) ==
  /\ r.done = q.done
  /\ r.done => r.shown = q.shown
  /\ IsPrefix(r.shown, q.shown) \/ IsPrefix(q.shown, r.shown)
=============================================================================
