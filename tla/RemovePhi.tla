----------------------------- MODULE RemovePhi -----------------------------
(***************************************************************************)
(* RemovePhi on whole functions: phis become copies at the ends of the      *)
(* blocks before, in blocks of their own on critical edges.  The order of   *)
(* the copies of one edge, against what a phi means, is the subject of the  *)
(* module ParallelCopy.                                                     *)
(***************************************************************************)
EXTENDS DominanceGraph

Move(to, from) == Instruction("move", "", None, <<to, from>>)
PhisOf(f, b)   == SelectSeq(f.code[b], IsPhi)

\* The graph is the one of before the pass, whatever has been split since.
is_critical_edge(graph, prev, succ) ==
  Cardinality(Predecessors(graph)[succ]) > 1 /\ Cardinality(Targets(graph.code[prev])) > 1

\* split_critical_edge: only the phis of the successor are told.
SplitEdge(f, prev, succ) ==
  LET new == Max(Blocks(f)) + 1
      Renamed(ins) == IF ~IsPhi(ins) \/ prev \notin DOMAIN ins.opts THEN ins
                      ELSE [ins EXCEPT !.opts = [b \in (DOMAIN @ \ {prev}) \cup {new} |-> @[IF b = new THEN prev ELSE b]]]
  IN  [f EXCEPT !.blocks = Append(@, new),
                !.code = (new :> <<Jump(succ)>>)
                         @@ [@ EXCEPT ![prev][Len(@[prev])].to = [i \in DOMAIN @ |-> IF @[i] = succ THEN new ELSE @[i]],
                                      ![succ] = [i \in DOMAIN @ |-> Renamed(@[i])]]]

\* Sources that another copy overwrites are saved first.
Sequenced(moves, vars) ==
  LET to == {move.args[1] : move \in ToSet(moves)}
      Save(a, move) ==
        LET from == move.args[2]
            temp == Var(a.vars, TypeOf(from))
        IN  IF from \notin to \/ from \in DOMAIN a.saved THEN a
            ELSE [code |-> Append(a.code, Move(temp, from)), saved |-> (from :> temp) @@ a.saved, vars |-> a.vars + 1]
      saves == Through(Save, [code |-> <<>>, saved |-> <<>>, vars |-> vars], moves)
  IN  [code |-> saves.code \o [i \in DOMAIN moves |-> Move(moves[i].args[1], Now(saves.saved, moves[i].args[2]))],
       vars |-> saves.vars]

\* insert_moves
insert_moves(f, graph, prev, block, moves) ==
  LET critical == is_critical_edge(graph, prev, block)
      g == IF critical THEN SplitEdge(f, prev, block) ELSE f
      at == IF critical THEN Last(g.blocks) ELSE prev
      final == Sequenced(moves, g.vars)
  IN  [g EXCEPT !.code[at] = Front(@) \o final.code \o <<Last(@)>>, !.vars = final.vars]

\* build: an option that is the phi itself needs no copy.  Copies for a block that has been
\* deleted go where nothing runs.
build(f, graph, block) ==
  LET phis == PhisOf(f, block)
      phi_map == [d \in {phi.def : phi \in ToSet(phis)} |->
                    Var(f.vars + (CHOOSE i \in DOMAIN phis : phis[i].def = d) - 1, TypeOf(d))]
      MovesFrom(pre) ==
        [i \in DOMAIN SelectSeq(phis, LAMBDA phi : pre \in DOMAIN phi.opts /\ phi.opts[pre] # phi.def) |->
           LET phi == SelectSeq(phis, LAMBDA x : pre \in DOMAIN x.opts /\ x.opts[pre] # x.def)[i]
           IN  Move(phi_map[phi.def], Now(phi_map, phi.opts[pre]))]
      renamed == [Substituted(f, phi_map) EXCEPT !.vars = @ + Len(phis)]
      Insert(g, pre) == IF MovesFrom(pre) = <<>> THEN g ELSE insert_moves(g, graph, pre, block, MovesFrom(pre))
  IN  Through(Insert, renamed, InOrder(Blocks(f) \cap UNION {DOMAIN phi.opts : phi \in ToSet(phis)}))

\* run_on_func; the phis go at the end.
PhisRemoved(f) ==
  LET built == Through(LAMBDA g, b : IF PhisOf(g, b) = <<>> THEN g ELSE build(g, f, b), f, f.blocks)
  IN  [built EXCEPT !.code = [b \in DOMAIN @ |-> SelectSeq(@[b], LAMBDA ins : ~IsPhi(ins))]]

\* The successors of such a block are looked up all the same, unless there is one block
\* before the phi: the lookup throws.
LookupThrows(f) ==
  \E b \in Blocks(f) : \E phi \in ToSet(PhisOf(f, b)) :
    /\ Cardinality(Predecessors(f)[b]) > 1
    /\ \E pre \in DOMAIN phi.opts \ Blocks(f) : phi.opts[pre] # phi.def

RemovePhis(m) == InFunctions(m, PhisRemoved)
=============================================================================
