---------------------------- MODULE ControlFlow ----------------------------
(***************************************************************************)
(* SimplifyControlFlow as one step, for the passes that call it and those   *)
(* that come after: what it makes of a function where its copies of the    *)
(* graph and its use lists are exact.  How the pass keeps them, and what    *)
(* becomes of it where they are not, is in the module SimplifyControlFlow. *)
(***************************************************************************)
EXTENDS LocalValueNumbering

FoldedBranch(code) ==
  LET t == Last(code)
  IN  CASE t.op # "branch" -> code
        [] IsConstant(t.args[1]) -> Append(Front(code), Jump(t.to[IF IsZero(t.args[1]) THEN 2 ELSE 1]))
        [] t.to[1] = t.to[2] -> Append(Front(code), Jump(t.to[1]))
        [] OTHER -> code

fold_redundant_branch(f) == [f EXCEPT !.code = [b \in DOMAIN @ |-> FoldedBranch(@[b])]]

OnlyBlocks(f, kept) == [f EXCEPT !.blocks = SelectSeq(@, LAMBDA b : b \in kept), !.code = Restrict(@, kept)]
DroppedBlock(f, b)  == OnlyBlocks(f, Blocks(f) \ {b})

remove_unreachable_blocks(f) ==
  OnlyBlocks(f, Through(LAMBDA reached, i : reached \cup UNION {Targets(f.code[b]) : b \in reached},
                        {Entry(f)}, f.blocks))

\* Jumps to b go to `target', and options of b become options of the blocks `keys'.
BlockReplaced(f, b, target, keys) ==
  LET To(to) == [i \in DOMAIN to |-> IF to[i] = b THEN target ELSE to[i]]
      Opts(opts) == IF b \notin DOMAIN opts THEN opts
                    ELSE [x \in (DOMAIN opts \ {b}) \cup keys |-> IF x \in keys THEN opts[b] ELSE opts[x]]
  IN  [f EXCEPT !.code = [x \in DOMAIN @ |-> [i \in DOMAIN @[x] |->
                            [@[x][i] EXCEPT !.to = To(@), !.opts = Opts(@)]]]]

\* perform_merge
CombineAt(f, b) ==
  LET t == Last(f.code[b])
      child == t.to[1]
      phis == {ins \in ToSet(f.code[child]) : IsPhi(ins)}
      merged == [f EXCEPT !.code[b] = Front(@) \o SelectSeq(f.code[child], LAMBDA ins : ~IsPhi(ins))]
      subst == [v \in {ins.def : ins \in phis} |-> (CHOOSE ins \in phis : ins.def = v).opts[b]]
  IN  IF b \notin Blocks(f) \/ t.op # "jump" THEN f
      ELSE IF child = b \/ Predecessors(f)[child] # {b} THEN f
      ELSE BlockReplaced(Substituted(DroppedBlock(merged, child), subst), child, b, {b})

\* Some phi has an option for the block and one for a block before it.
PhiInTheWay(f, b) ==
  \E ins \in Instructions(f) : b \in DOMAIN ins.opts /\ DOMAIN ins.opts \cap Predecessors(f)[b] # {}

Bypassable(f, b, op) ==
  /\ b \in Blocks(f)
  /\ Len(f.code[b]) = 1 /\ Last(f.code[b]).op = op
  /\ Predecessors(f)[b] # {} /\ ~PhiInTheWay(f, b)

RemoveEmptyAt(f, b) ==
  IF ~Bypassable(f, b, "jump") \/ b \in Targets(f.code[b]) THEN f
  ELSE BlockReplaced(DroppedBlock(f, b), b, Last(f.code[b]).to[1], Predecessors(f)[b])

HoistAt(f, b) ==
  LET p == CHOOSE p \in Predecessors(f)[b] : TRUE
  IN  IF ~Bypassable(f, b, "branch") THEN f
      ELSE IF Cardinality(Predecessors(f)[b]) # 1 \/ Last(f.code[p]).op # "jump" THEN f
      ELSE BlockReplaced(DroppedBlock([f EXCEPT !.code[p] = Append(Front(@), Last(f.code[b]))], b), b, p, {p})

FoldedTo(f, d, folded) == IF d = None \/ folded = None THEN f ELSE Replaced(f, d, folded)

FoldedIn(f, d) == FoldedTo(f, d, FoldedValue(CHOOSE ins \in Instructions(f) : ins.def = d))

\* try_constant_fold
ConstantsFolded(f) ==
  LET Unfolded_(g) == [g EXCEPT !.code = [b \in DOMAIN @ |-> SelectSeq(@[b], LAMBDA ins : FoldedValue(ins) = None)]]
  IN  Unfolded_(Through(LAMBDA g, ins : FoldedIn(g, ins.def), f,
                        FlattenSeq([i \in DOMAIN f.blocks |-> f.code[f.blocks[i]]])))

Reshaped(f) ==
  Through(HoistAt, Through(RemoveEmptyAt, Through(CombineAt, f, f.blocks), f.blocks), f.blocks)

RECURSIVE RunOnFunc(_), ReshapedFrom(_, _), SimplifiedFlow(_, _)
\* run_on_func: `folded' without redundant branches, then reshaped.
ReshapedFrom(folded, shaped) ==
  IF shaped = folded THEN ConstantsFolded(fold_redundant_branch(shaped))
  ELSE RunOnFunc(ConstantsFolded(remove_unreachable_blocks(fold_redundant_branch(shaped))))
FoldedThenReshaped(folded) == ReshapedFrom(folded, Computed(Reshaped(folded)))
RunOnFunc(f) == FoldedThenReshaped(Computed(fold_redundant_branch(f)))

\* The options of the blocks that lead to b.
OptionsOfPredecessors(predecessors, b, ins) ==
  [ins EXCEPT !.opts = Restrict(@, DOMAIN @ \cap predecessors[b])]

\* cleanup_phi: a phi of one value, or one nobody uses, is that value.
CleanPhis(f, predecessors) ==
  LET kept == [f EXCEPT !.code = [b \in DOMAIN @ |-> [i \in DOMAIN @[b] |->
                IF IsPhi(@[b][i]) THEN OptionsOfPredecessors(predecessors, b, @[b][i]) ELSE @[b][i]]]]
      Clean(g, d) ==
        LET phi == CHOOSE ins \in Instructions(g) : ins.def = d
            value == CHOOSE v \in ValuesRead(phi) : TRUE
            b == CHOOSE c \in Blocks(g) : phi \in ToSet(g.code[c])
        IN  IF Cardinality(ValuesRead(phi)) > 1 /\ d \in UsedValues(g) THEN g
            ELSE Replaced([g EXCEPT !.code[b] = SelectSeq(@, LAMBDA ins : ins.def # d)], d, value)
      defs == FlattenSeq([i \in DOMAIN f.blocks |->
                [j \in DOMAIN SelectSeq(f.code[f.blocks[i]], IsPhi) |-> f.code[f.blocks[i]][j].def]])
  IN  Through(Clean, kept, defs)

\* Only a run that took blocks away (graph_modified) has the graph computed again before
\* the phis are cleaned; one that only folded branches cleans them with the one before.
GraphModified(start, run) == run.blocks # start.blocks

Cleaned(start, run) ==
  remove_unreachable_blocks(CleanPhis(run, Predecessors(IF GraphModified(start, run) THEN run ELSE start)))

\* SimplifyControlFlow::transform: every function again while blocks of one of them go.
SimplifiedFlow(starts, runs) ==
  LET cleaned == [i \in DOMAIN runs |-> Cleaned(starts[i], runs[i])]
  IN  IF \A i \in DOMAIN runs : ~GraphModified(starts[i], runs[i]) THEN cleaned
      ELSE SimplifiedFlow(cleaned, Computed([i \in DOMAIN cleaned |-> RunOnFunc(cleaned[i])]))

SimplifiedFunctions(starts) == SimplifiedFlow(starts, Computed([i \in DOMAIN starts |-> RunOnFunc(starts[i])]))

SimplifyFlow(m) ==
  [m EXCEPT !.functions = SimplifiedFunctions(Computed([i \in DOMAIN @ |-> remove_unreachable_blocks(@[i])]))]
=============================================================================
