------------------------ MODULE SimplifyInstructions ------------------------
(***************************************************************************)
(* AlgebraicSimplify on the instructions of a module.  The identities are  *)
(* those of the module AlgebraicSimplify: an instruction and those it       *)
(* depends on are read as a term, in which a node that is an instruction   *)
(* carries its name, and what the identities make of the term is written   *)
(* back as instructions.                                                   *)
(***************************************************************************)
EXTENDS LocalValueNumbering

\* The constants of the programs are small: no word of this size overflows.
Identities == INSTANCE AlgebraicSimplify
  WITH Bits <- 30, Vars <- {}, Terms <- {},
       given <- <<>>, term <- <<>>, falseIdentity <- FALSE, overflowing <- {}, rounds <- 0, rewriting <- "on"

-----------------------------------------------------------------------------
(* Terms from instructions and back *)

NameOf(v) == CASE v[1] = "var" -> v[2] + 1 [] OTHER -> -v[2]

RECURSIVE TermOf(_, _)
TermOf(defs, v) ==
  LET ins == defs[v]
      Node(op, r) == [op |-> op, n |-> NameOf(v), l |-> TermOf(defs, ins.args[1]), r |-> r]
      leaf == [op |-> "leaf", n |-> NameOf(v), l |-> <<>>, r |-> <<>>]
  IN  CASE IsConstant(v) -> Identities!Con(NumberOf(v))
        [] v \notin DOMAIN defs -> leaf
        [] ins.op \in {"intbinary", "icmp"} -> Node(ins.sub, TermOf(defs, ins.args[2]))
        [] ins.op = "zext" -> Node("zext", <<>>)
        [] OTHER -> leaf

RECURSIVE Inserted(_, _, _)
\* The instructions for a term, and the value it has: [code, value, vars].
Inserted(f, t, made) ==
  LET l == Inserted(f, t.l, made)
      r == Inserted(f, t.r, l)
      new == Binary(r.vars, t.op, l.value, r.value)
  IN  CASE t.op = "const" -> [made EXCEPT !.value = ConstInt(t.n)]
        [] t.n # 0 -> [made EXCEPT !.value = CHOOSE v \in DefinedValues(f) \cup Arguments(f) : NameOf(v) = t.n]
        [] OTHER -> [code |-> Append(r.code, new), value |-> new.def, vars |-> r.vars + 1]

-----------------------------------------------------------------------------
(* One block *)

\* StandardizeBinary: a constant goes to the right, and is not negative there when added
\* or subtracted.
try_exchange_operands(ins) ==
  IF /\ ins.op \in {"intbinary", "floatbinary", "icmp", "fcmp"}
     /\ ins.sub \in {"add", "mul"} \cup Relations
     /\ IsConstant(ins.args[1]) /\ ~IsConstant(ins.args[2])
  THEN [ins EXCEPT !.sub = SwapOp(@), !.args = Reverse(@)]
  ELSE ins

reverse_sign(ins) ==
  IF ins.op = "intbinary" /\ ins.sub \in {"add", "sub"} /\ IsConstant(ins.args[2]) /\ NumberOf(ins.args[2]) < 0
  THEN [ins EXCEPT !.sub = IF @ = "add" THEN "sub" ELSE "add", !.args[2] = ConstInt(-NumberOf(@))]
  ELSE ins

StandardizeBinary(f) ==
  [f EXCEPT !.code = [b \in DOMAIN @ |-> [i \in DOMAIN @[b] |-> reverse_sign(try_exchange_operands(@[b][i]))]]]

IndexOfDef(code, d) == CHOOSE i \in DOMAIN code : code[i].def = d

Without(f, b, d) == [f EXCEPT !.code[b] = SelectSeq(@, LAMBDA ins : ins.def # d)]

\* fold_instruction for the instruction that defines d.
FoldedAs(f, b, d, r) == IF r = None THEN f ELSE Replaced(Without(f, b, d), d, r)
FoldAt(f, b, d) == FoldedAs(f, b, d, FoldedValue(f.code[b][IndexOfDef(f.code[b], d)]))

\* The instruction that defines d gives way to the instructions made for its term.
Rewritten(f, b, d, made) ==
  LET code == f.code[b]
      i == IndexOfDef(code, d)
      value == IF IsConstant(made.value) /\ code[i].op = "icmp" THEN ConstBool(~IsZero(made.value)) ELSE made.value
      top == [IF code[i].op = "icmp" THEN code[i] ELSE Last(made.code) EXCEPT !.def = d]
  IN  IF made.code = <<>> THEN Replaced(Without(f, b, d), d, value)
      ELSE [f EXCEPT !.code[b] = SubSeq(code, 1, i - 1) \o Front(made.code) \o <<top>> \o SubSeq(code, i + 1, Len(code)),
                     !.vars = made.vars]

ReducedTo(f, b, d, given, t) ==
  IF t = given THEN f
  ELSE Rewritten(f, b, d, Inserted(f, t, [code |-> <<>>, value |-> None, vars |-> f.vars]))
ReducedTerm(f, b, d, given) == ReducedTo(f, b, d, given, Identities!Reduce(given))

\* One of the reduce functions, for the instruction that defines d.
ReduceAt(f, b, d) ==
  IF f.code[b][IndexOfDef(f.code[b], d)].op \notin {"intbinary", "icmp"} THEN f
  ELSE ReducedTerm(f, b, d, [TermOf(DefinitionOf(f), d) EXCEPT !.n = 0])

DefsOf(f, b) == SelectSeq([i \in DOMAIN f.code[b] |-> f.code[b][i].def], LAMBDA d : d # None)

ReducedBlock(f, b) == Through(LAMBDA g, d : ReduceAt(g, b, d), f, DefsOf(f, b))
handle_intbinary_icmp(f, b) == ReducedBlock(Through(LAMBDA g, d : FoldAt(g, b, d), f, DefsOf(f, b)), b)

-----------------------------------------------------------------------------
(* The pass: rounds while a round changes something. *)

RECURSIVE SimplifyModule(_), SimplifiedUntil(_, _)
SimplifiedUntil(m, next) ==
  IF next = m THEN DeadInstEliminate(next) ELSE SimplifyModule(DeadInstEliminate(next))
RoundOf(m) == SimplifiedUntil(m, Computed(InFunctions(m, LAMBDA f : Through(handle_intbinary_icmp, f, f.blocks))))
SimplifyModule(m) == RoundOf(Computed(InFunctions(m, StandardizeBinary)))

\* LocalValueNumbering::transform.
LocalValueNumbering(m) == DeadInstEliminate(SimplifyModule(NumberedFully(SimplifyModule(m), FunctionInfos(m))))
=============================================================================
