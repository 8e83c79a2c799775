------------------------------ MODULE Mem2Reg ------------------------------
(***************************************************************************)
(* Mem2Reg: stack slots become names.  One slot after the other: phis are   *)
(* put where definitions meet, then a walk over the tree of dominators     *)
(* replaces loads by the value stored last.                                *)
(***************************************************************************)
EXTENDS DominanceGraph

ValidAllocs(f) ==
  LET Of(ins) == ins.op = "alloc" /\ ~IsArray(ContainType(TypeOf(ins.def)))
  IN  FlattenSeq([i \in DOMAIN f.blocks |-> SelectSeq(f.code[f.blocks[i]], Of)])

Stores(ins, slot) == ins.op = "store" /\ Addr(ins) = slot
Loads(ins, slot)  == ins.op = "load" /\ Addr(ins) = slot

DefBlocks(f, slot) == SelectSeq(f.blocks, LAMBDA b : \E i \in DOMAIN f.code[b] : Stores(f.code[b][i], slot))

\* Blocks that get a phi are definitions in their turn.
JoinsToo(work, joins) == work \o joins

RECURSIVE PhiBlocks(_, _, _)
\* The blocks insert_phi finds, in the order it finds them.
PhiBlocks(frontier, worklist, found) ==
  IF worklist = <<>> THEN found
  ELSE LET new == SelectSeq(InOrder(frontier[Head(worklist)]), LAMBDA y : y \notin ToSet(found))
       IN  PhiBlocks(frontier, JoinsToo(Tail(worklist), new), found \o new)

InsertPhis(f, slot, graph) ==
  LET pred == Predecessors(f)
      t == ContainType(TypeOf(slot))
      Insert(g, y) == [g EXCEPT !.code[y] = <<Phi(g.vars, t, [p \in pred[y] |-> None])>> \o @, !.vars = @ + 1]
  IN  Through(Insert, f, PhiBlocks(graph.frontier, DefBlocks(f, slot), <<>>))

\* The state of the walk: the function, the value stored last, the phis of the slot.
RECURSIVE RenameVariables(_, _, _, _)
RenameVariables(s, b, slot, graph) ==
  LET Visit(a, ins) ==
        CASE ins.def = slot -> a
          [] Stores(ins, slot) -> [a EXCEPT !.value = ins.args[2]]
          [] Loads(ins, slot) -> [a EXCEPT !.subst = (ins.def :> a.value) @@ @]
          [] ins.def \in s.phis -> [a EXCEPT !.value = ins.def, !.kept = Append(@, ins)]
          [] OTHER -> [a EXCEPT !.kept = Append(@, ins)]
      Current(a, ins) == Visit(a, InArgs(ins, a.subst))
      in == Through(Current, [value |-> s.value, subst |-> <<>>, kept |-> <<>>], s.f.code[b])
      renamed == Substituted([s.f EXCEPT !.code[b] = in.kept], in.subst)
      ToPhi(g, c) == IF Head(g.code[c]).def \in s.phis THEN [g EXCEPT !.code[c][1].opts[b] = in.value] ELSE g
      optioned == Through(ToPhi, renamed, InOrder(Targets(renamed.code[b])))
      Child(g, c) == RenameVariables([s EXCEPT !.f = g, !.value = in.value], c, slot, graph).f
  IN  [s EXCEPT !.f = Through(Child, optioned, InOrder(graph.children[b]))]

Promoted(f, slot, graph) ==
  LET phis == InsertPhis(f, slot, graph)
      new == DefinedValues(phis) \ DefinedValues(f)
      start == [f |-> phis, value |-> Zero(ContainType(TypeOf(slot))), phis |-> new]
  IN  RenameVariables(start, Entry(f), slot, graph).f

PromotedFunction(f) ==
  LET graph == Dominance(f)
  IN  Through(LAMBDA g, alloc : Promoted(g, alloc.def, graph), f, ValidAllocs(f))

PromoteMemory(m) == InFunctions(m, PromotedFunction)
=============================================================================
