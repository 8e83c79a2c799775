------------------------ MODULE LocalValueNumbering ------------------------
(***************************************************************************)
(* Value numbering: instructions whose operands are constants become       *)
(* constants, and an instruction is replaced by one that computes the same *)
(* and dominates it.  Instructions nothing uses are taken out.             *)
(***************************************************************************)
EXTENDS DominanceGraph, FunctionAnalysis

-----------------------------------------------------------------------------
(* Constants *)

ConstantOrNone(v) == IF IsConstant(v) THEN v ELSE None

\* What fold_instruction finds, or None.
FoldedValue(ins) ==
  IF ins.args = <<>> \/ \E i \in DOMAIN ins.args : ~IsConstant(ins.args[i]) THEN None
  ELSE ConstantOrNone(
         CASE ins.op \in {"intbinary", "floatbinary", "icmp", "fcmp"} -> Result(ins.sub, ins.args[1], ins.args[2])
           [] ins.op \in {"zext", "sitofp", "fptosi"} -> CastConstant(ins.args[1], TypeOf(ins.def))
           [] OTHER -> None)

-----------------------------------------------------------------------------
(* Instructions that compute the same *)

PureOps == {"gep", "fcmp", "icmp", "intbinary", "floatbinary", "zext", "sitofp", "fptosi"}

\* Whether the call's result depends on its arguments only.
PureCall(infos, ins) ==
  /\ ins.op = "call"
  /\ ins.sub \in DOMAIN infos
  /\ LET info == infos[ins.sub]
     IN  info.has_return /\ info.no_state /\ ~info.io_read /\ ~info.io_write

\* get_instruction_hash is not empty.
Numbered(infos, ins) == ins.op \in PureOps \/ PureCall(infos, ins)

\* mutant: the operands of every binary operation may change places.
SameUpToOrder(c, ins) ==
  /\ c.op = ins.op /\ c.sub = ins.sub
  /\ c.args = ins.args \/ (ins.op \in {"intbinary", "floatbinary"} /\ c.args = Reverse(ins.args))

\* The hashes are the same.
SameValue(c, ins) ==
  /\ c.op = ins.op /\ c.sub = ins.sub
  /\ \/ c.args = ins.args
     \/ ins.op \in {"intbinary", "floatbinary"} /\ ins.sub \in {"add", "mul"} /\ c.args = Reverse(ins.args)

\* An instruction with its operands replaced, and the constant it comes to or None.
Visited(a, infos, ins, folded) ==
  LET same == {c \in ToSet(a.table) : SameValue(c, ins)}
  IN  CASE folded # None -> [a EXCEPT !.subst = (ins.def :> folded) @@ @]
        [] ~Numbered(infos, ins) -> [a EXCEPT !.kept = Append(@, ins)]
        [] same # {} -> [a EXCEPT !.subst = (ins.def :> (CHOOSE c \in same : TRUE).def) @@ @]
        [] OTHER -> [a EXCEPT !.kept = Append(@, ins), !.table = Append(@, ins)]

VisitedIn(a, infos, ins) == Visited(a, infos, ins, FoldedValue(ins))

KeepsItsOwn(before, after) == after   \* mutant: what a block found stays for its siblings

BackFrom(before, after) == [after EXCEPT !.table = before.table]

RECURSIVE NumberBlock(_, _, _, _)
\* run_on_block: the state is the function and what the values replaced so far became;
\* the table of instructions goes down the tree of dominators and is not passed back.
NumberBlock(s, b, infos, children) ==
  LET Done(in) == [f |-> [s.f EXCEPT !.code[b] = in.kept], subst |-> in.subst, table |-> in.table]
  IN  Through(LAMBDA a, c : BackFrom(a, NumberBlock(a, c, infos, children)),
              Done(Through(LAMBDA a, ins : VisitedIn(a, infos, InArgs(ins, a.subst)),
                           [subst |-> s.subst, table |-> s.table, kept |-> <<>>], s.f.code[b])),
              InOrder(children[b]))

AllSubstituted(s) == Substituted(s.f, s.subst)

NumberedFunction(f, infos) ==
  AllSubstituted(NumberBlock([f |-> f, subst |-> <<>>, table |-> <<>>], Entry(f), infos, Dominance(f).children))

RECURSIVE NumberedFully(_, _), NumberedUntil(_, _, _)
\* The two loops of transform: another round while a round changes something.
NumberedUntil(m, infos, next) == IF next = m THEN m ELSE NumberedFully(next, infos)
NumberedFully(m, infos) ==
  NumberedUntil(m, infos, Computed(InFunctions(m, LAMBDA f : NumberedFunction(f, infos))))

-----------------------------------------------------------------------------
(* DeadInstEliminate *)

\* Calls that may be taken out when nobody wants their value.
IdleCall(infos, ins) ==
  /\ ins.sub \in DOMAIN infos
  /\ LET info == infos[ins.sub]
     IN  ~info.io_read /\ ~info.io_write /\ ~info.memory_read /\ ~info.has_side_effect /\ info.no_state

is_dead_instruction(used, infos, ins) ==
  /\ Defines(ins)
  /\ ins.def \notin used
  /\ ins.op = "call" => IdleCall(infos, ins)

LiveFunction(f, infos, used) ==
  [f EXCEPT !.code = [b \in DOMAIN @ |-> SelectSeq(@[b], LAMBDA ins : ~is_dead_instruction(used, infos, ins))]]
LiveModule(m, infos) == InFunctions(m, LAMBDA f : LiveFunction(f, infos, UsedValues(f)))

RECURSIVE DeadInstEliminate(_), EliminatedUntil(_, _)
EliminatedUntil(m, next) == IF next = m THEN m ELSE DeadInstEliminate(next)
DeadInstEliminate(m) == EliminatedUntil(m, Computed(LiveModule(m, FunctionInfos(m))))
=============================================================================
