------------------------- MODULE SimplifyControlFlow -------------------------
(***************************************************************************)
(* SimplifyControlFlow::transform on one function, block by block.         *)
(*                                                                         *)
(* The pass keeps copies of the predecessors and the successors, which it   *)
(* updates by hand, while blocks it deletes are only marked until the end  *)
(* of a loop.  Values and blocks are replaced through their users.         *)
(***************************************************************************)
EXTENDS MirCode

CONSTANTS
  Sources,    \* the functions: [blocks: sequence of blocks, code: of each block]
  Inputs,     \* the inputs they are run on
  Fuel        \* bound: how many blocks a run visits

\* What the builder and the passes before make are well-formed functions.
ASSUME SourcesAssumption == \A f \in Sources : WellFormed(f)

VARIABLES
  expected,        \* what the function as given does on each input
  func,            \* the function: its blocks, their code, the blocks that are
                   \* deleted, and <<phi, value>> where the value does not know
                   \* the phi any more (see UseDef)
  cfg_info,        \* the analysis: predecessors, successors and a dirty flag
  predecessors,    \* the copies of run_on_func
  successors,
  graph_modified, changed, modified,
  again,           \* `changed' of transform
  pc,              \* the loop
  at, phi          \* the block it comes to next, and the phi

copies == <<predecessors, successors>>
flags  == <<graph_modified, changed, modified, again>>
vars   == <<expected, func, cfg_info, copies, flags, pc, at, phi>>

-----------------------------------------------------------------------------
(* Changing the code through the users. *)

Knows(f, v, ins) == <<ins.def, v>> \notin f.forgotten

InstructionsOf(f) == UNION {ToSet(f.code[b]) : b \in DOMAIN f.code}

Users(f, v) == {ins \in InstructionsOf(f) : v \in ValuesRead(ins) /\ Knows(f, v, ins)}

Mapped(code, Op(_)) == [b \in DOMAIN code |-> [i \in DOMAIN code[b] |-> Op(code[b][i])]]

Renamed(g, v, w) == [x \in DOMAIN g |-> IF g[x] = v THEN w ELSE g[x]]

\* replace_by_new_value of a value: the users it knows read w, and w knows them;
\* then v forgets them, also where w is v.
ValueReplaced(f, v, w) ==
  LET Now(ins) == IF Knows(f, v, ins)
                  THEN [ins EXCEPT !.args = Renamed(@, v, w), !.opts = Renamed(@, v, w)]
                  ELSE ins
      told == {<<ins.def, w>> : ins \in Users(f, v)}
  IN  [f EXCEPT !.code = Mapped(@, Now),
                !.forgotten = IF v = w THEN @ \cup told ELSE @ \ told]

KeyKept(opts, b, c) == opts   \* mutant

\* The options of a phi when block b becomes c; an option of c is overwritten.
KeyRenamed(opts, b, c) ==
  IF b \notin DOMAIN opts THEN opts
  ELSE [x \in (DOMAIN opts \ {b}) \cup {c} |-> IF x = c THEN opts[b] ELSE opts[x]]

\* replace_by_new_value of a block.
BlockReplaced(f, b, c) ==
  LET Now(ins) == [ins EXCEPT !.to = Renamed(@, b, c), !.opts = KeyRenamed(@, b, c)]
  IN  [f EXCEPT !.code = Mapped(@, Now)]

Deleted(f, b) == [f EXCEPT !.deleted = @ \cup {b}, !.code[b] = <<>>]

\* Erasing a key of a map.
Erased(g, b) == Restrict(g, DOMAIN g \ {b})

\* remove_deleted_blocks.
DeletedRemoved(f) ==
  [f EXCEPT !.blocks = Those(@, ToSet(@) \ f.deleted)]

\* remove_unreachable_blocks.
UnreachableRemoved(f) ==
  LET gone == ToSet(f.blocks) \ Reached(f.blocks, f.code)
  IN  [f EXCEPT !.blocks = Those(@, ToSet(@) \ gone),
                !.deleted = @ \cup gone,
                !.code = [b \in DOMAIN @ |-> IF b \in gone THEN <<>> ELSE @[b]]]

\* get_analysis_result: computed again only when it is dirty.
AnalysisResult(info, f) ==
  IF info.dirty
  THEN [predecessors |-> PredecessorsOf(f.blocks, f.code),
        successors |-> SuccessorsOf(f.blocks, f.code), dirty |-> FALSE]
  ELSE info

Dirty(info) == [info EXCEPT !.dirty = TRUE]

-----------------------------------------------------------------------------
(* The loops over func->get_blocks(): what they do with a block, and the    *)
(* next block they do it with.                                             *)

Live(b) == b \notin func.deleted

Visits(i, Wanted(_)) ==
  /\ i \in at..Len(func.blocks)
  /\ Live(func.blocks[i]) /\ Wanted(func.blocks[i])
  /\ \A j \in at..(i - 1) : ~(Live(func.blocks[j]) /\ Wanted(func.blocks[j]))

Exhausted(Wanted(_)) ==
  \A j \in at..Len(func.blocks) : ~(Live(func.blocks[j]) /\ Wanted(func.blocks[j]))

Terminator(b) == Last(func.code[b])

\* The pass ends with an exception or with log_error, or never.
Stops(how) ==
  /\ pc' = how
  /\ UNCHANGED <<expected, func, cfg_info, copies, flags, at, phi>>

GoesOn(i) ==
  /\ at' = i + 1
  /\ UNCHANGED <<expected, cfg_info, again, pc, phi>>

(* fold_redundant_branch *)

RedundantIfConstant(b) ==   \* mutant: equal targets are left as they are
  LET t == Terminator(b)
  IN  t.op = "branch" /\ t.args[1] \in Constants

Redundant(b) ==
  LET t == Terminator(b)
  IN  t.op = "branch" /\ (t.args[1] \in Constants \/ t.to[1] = t.to[2])

TargetTaken(t) == IF t.args[1] = "0" THEN t.to[2] ELSE t.to[1]

FoldBranch(i) ==
  LET b == func.blocks[i]
      t == Terminator(b)
      constant == t.args[1] \in Constants
      taken == TargetTaken(t)
      other == IF taken = t.to[1] THEN t.to[2] ELSE t.to[1]
  IN  /\ pc \in {"fold", "refold"} /\ Visits(i, Redundant)
      /\ func' = [func EXCEPT !.code[b] = Append(Front(@), Jump(taken))]
      /\ successors' = IF constant THEN [successors EXCEPT ![b] = @ \ {other}] ELSE successors
      /\ predecessors' = IF constant THEN [predecessors EXCEPT ![other] = @ \ {b}]
                         ELSE predecessors
      /\ UNCHANGED <<graph_modified, changed, modified>>
      /\ GoesOn(i)

(* combine_blocks *)

Combinable(b) ==
  /\ Cardinality(successors[b]) = 1
  /\ \A child \in successors[b] :
       Live(child) /\ predecessors[child] = {b} /\ Terminator(b) = Jump(child)

\* Instruction k of child, if it is a phi, by its option for b.
PhiReplaced(f, b, child, k) ==
  LET ins == f.code[child][k]
  IN  IF IsPhi(ins) /\ b \in Keys(ins) THEN ValueReplaced(f, ins.def, ins.opts[b]) ELSE f

\* The phis of child, one after the other.
PhisReplaced(f, b, child) ==
  LET Upto[k \in 0..Len(f.code[child])] ==
        IF k = 0 THEN f ELSE PhiReplaced(Upto[k - 1], b, child, k)
  IN  Upto[Len(f.code[child])]

\* perform_merge.
Merged(f, b, child) ==
  LET popped == [f EXCEPT !.code[b] = Front(@)]
      replaced == PhisReplaced(popped, b, child)
      moved == [replaced EXCEPT !.code[b] = @ \o BodyOf(replaced.code[child])]
  IN  BlockReplaced(Deleted(moved, child), child, b)

PredecessorsLost(b, child) ==   \* mutant: b is not inserted
  Erased([x \in DOMAIN predecessors |-> predecessors[x] \ {child}], child)

\* The copy of the predecessors when child has been merged into b.
PredecessorsMoved(b, child) ==
  Erased([x \in DOMAIN predecessors |->
            IF x \in successors[child] THEN (predecessors[x] \ {child}) \cup {b}
            ELSE predecessors[x]], child)

CombineBlocks(i) ==
  LET b == func.blocks[i]
      child == CHOOSE c \in successors[b] : TRUE
  IN  /\ pc = "combine" /\ Visits(i, Combinable)
      /\ child # b /\ successors[child] \subseteq DOMAIN predecessors
      /\ func' = Merged(func, b, child)
      /\ modified' = TRUE /\ graph_modified' = TRUE
      /\ successors' = Erased([successors EXCEPT ![b] = (@ \ {child}) \cup successors[child]],
                              child)
      /\ predecessors' = PredecessorsMoved(b, child)
      /\ UNCHANGED changed
      /\ GoesOn(i)

\* The instructions of a block merged with itself move to its end one after the
\* other, for ever.
CombineWithItself(i) ==
  /\ pc = "combine" /\ Visits(i, Combinable)
  /\ successors[func.blocks[i]] = {func.blocks[i]}
  /\ Stops("hung")

(* remove_empty_blocks *)

OnlyA(op, b) == Len(func.code[b]) = 1 /\ Terminator(b).op = op /\ predecessors[b] # {}

PhisNeverInTheWay(b) == TRUE   \* mutant

\* No phi has both the block and one of its predecessors.
NoPhiInTheWay(b) ==
  \A ins \in InstructionsOf(func) : b \in Keys(ins) => Keys(ins) \cap predecessors[b] = {}

Empty(b) == OnlyA("jump", b) /\ Live(Terminator(b).to[1]) /\ NoPhiInTheWay(b)

\* Every predecessor takes the place of b in the phis, target elsewhere.
Bypassed(f, b, target, pres) ==
  LET Opts(opts) == [x \in (DOMAIN opts \ {b}) \cup pres |-> IF x \in pres THEN opts[b] ELSE opts[x]]
      Now(ins) == [ins EXCEPT !.to = Renamed(@, b, target),
                              !.opts = IF b \in DOMAIN @ THEN Opts(@) ELSE @]
      told == {<<ins.def, ins.opts[b]>> : ins \in {x \in InstructionsOf(f) : b \in Keys(x)}}
  IN  [f EXCEPT !.code = Mapped(@, Now), !.forgotten = @ \ told]

RemoveEmptyBlock(i) ==
  LET b == func.blocks[i]
      target == Terminator(b).to[1]
      pres == predecessors[b]
  IN  /\ pc = "empty" /\ Visits(i, Empty)
      /\ pres \subseteq DOMAIN successors /\ target # b
      /\ func' = Deleted(Bypassed(func, b, target, pres), b)
      /\ successors' = Erased([x \in DOMAIN successors |->
                                 IF x \in pres THEN (successors[x] \ {b}) \cup {target}
                                 ELSE successors[x]], b)
      /\ predecessors' = Erased([predecessors EXCEPT ![target] = (@ \cup pres) \ {b}], b)
      /\ modified' = TRUE /\ graph_modified' = TRUE
      /\ UNCHANGED changed
      /\ GoesOn(i)

\* A block that jumps to itself is erased from the copies and then looked up.
RemoveEmptyBlockFails(i) ==
  LET b == func.blocks[i]
  IN  /\ pc = "empty" /\ Visits(i, Empty)
      /\ Terminator(b).to[1] = b \/ ~(predecessors[b] \subseteq DOMAIN successors)
      /\ Stops("crashed")

(* hoist_branch *)

\* The conditions up to the first lookup that throws, or all of them.
Hoistable(b) ==
  /\ OnlyA("branch", b)
  /\ \A x \in Targets(func.code[b]) : Live(x)
  /\ \E p \in predecessors[b] :
       /\ predecessors[b] = {p}
       /\ p \in DOMAIN successors =>
            /\ Cardinality(successors[p]) = 1
            /\ Live(p) => Terminator(p).op = "jump"
            /\ NoPhiInTheWay(b)

\* The jump of a candidate that was removed lost its operands, and what it goes to is
\* read behind their end: the pass takes it to be b, or fails.
HoistBranch(i) ==
  LET b == func.blocks[i]
      candidate == CHOOSE p \in predecessors[b] : TRUE
      targets == Targets(func.code[b])
      hoisted == [func EXCEPT !.code[candidate] = Append(Front(@), Terminator(b))]
  IN  /\ pc = "hoist" /\ Visits(i, Hoistable)
      /\ candidate \in DOMAIN successors
      /\ Live(candidate) => Terminator(candidate) = Jump(b)
      /\ func' = BlockReplaced(Deleted(hoisted, b), b, candidate)
      /\ successors' = Erased([successors EXCEPT ![candidate] = (@ \ {b}) \cup targets], b)
      /\ predecessors' = Erased([x \in DOMAIN predecessors |->
                                   IF x \in targets THEN predecessors[x] \cup {candidate}
                                   ELSE predecessors[x]], b)
      /\ modified' = TRUE /\ graph_modified' = TRUE
      /\ UNCHANGED changed
      /\ GoesOn(i)

\* The only predecessor was erased from the copies, or does not jump to the block.
HoistBranchFails(i) ==
  LET b == func.blocks[i]
      candidate == CHOOSE p \in predecessors[b] : TRUE
  IN  /\ pc = "hoist" /\ Visits(i, Hoistable)
      /\ Live(candidate) => Terminator(candidate) # Jump(b)
      /\ Stops("crashed")

(* try_constant_fold *)

FoldableAt(b) ==
  {k \in DOMAIN func.code[b] :
     func.code[b][k].op = "not" /\ func.code[b][k].args[1] \in Constants}

Foldable(b) == FoldableAt(b) # {}

FoldInstruction(i) ==
  LET b == func.blocks[i]
      k == Min(FoldableAt(b))
      ins == func.code[b][k]
      replaced == ValueReplaced(func, ins.def, Negated[ins.args[1]])
  IN  /\ pc = "constants" /\ Visits(i, Foldable)
      /\ func' = [replaced EXCEPT !.code[b] = RemoveAt(@, k)]
      /\ at' = i
      /\ UNCHANGED <<expected, cfg_info, copies, flags, pc, phi>>

-----------------------------------------------------------------------------
(* From loop to loop. *)

StartsLoop(loop) == pc' = loop /\ at' = 1

\* run_on_func copies the graph and starts its first round.
StartsRun(f) ==
  /\ cfg_info' = AnalysisResult(Dirty(cfg_info), f)
  /\ predecessors' = cfg_info'.predecessors /\ successors' = cfg_info'.successors
  /\ graph_modified' = FALSE /\ changed' = FALSE /\ modified' = FALSE /\ again' = FALSE
  /\ StartsLoop("fold")

Preprocess ==
  /\ pc = "start"
  /\ func' = UnreachableRemoved(func)
  /\ StartsRun(func')
  /\ UNCHANGED <<expected, phi>>

EndFold ==
  /\ pc = "fold" /\ Exhausted(Redundant)
  /\ StartsLoop("combine")
  /\ modified' = FALSE
  /\ UNCHANGED <<expected, func, cfg_info, copies, graph_modified, changed, again, phi>>

After == [combine |-> "empty", empty |-> "hoist", hoist |-> "refold"]

EndRemovingLoop ==
  /\ \/ pc = "combine" /\ Exhausted(Combinable)
     \/ pc = "empty" /\ Exhausted(Empty)
     \/ pc = "hoist" /\ Exhausted(Hoistable)
  /\ func' = IF modified THEN DeletedRemoved(func) ELSE func
  /\ cfg_info' = IF modified THEN Dirty(cfg_info) ELSE cfg_info
  /\ changed' = (changed \/ modified)
  /\ modified' = FALSE
  /\ StartsLoop(After[pc])
  /\ UNCHANGED <<expected, copies, graph_modified, again, phi>>

EndRefold ==
  /\ pc = "refold" /\ Exhausted(Redundant)
  /\ func' = IF changed THEN UnreachableRemoved(DeletedRemoved(func)) ELSE func
  /\ cfg_info' = IF changed THEN Dirty(cfg_info) ELSE cfg_info
  /\ StartsLoop("constants")
  /\ UNCHANGED <<expected, copies, flags, phi>>

NextRoundKeepingChanged ==   \* mutant: changed is not reset
  /\ pc = "constants" /\ Exhausted(Foldable) /\ changed
  /\ StartsLoop("fold")
  /\ UNCHANGED <<expected, func, cfg_info, copies, flags, phi>>

NextRound ==
  /\ pc = "constants" /\ Exhausted(Foldable) /\ changed
  /\ changed' = FALSE
  /\ StartsLoop("fold")
  /\ UNCHANGED <<expected, func, cfg_info, copies, graph_modified, modified, again, phi>>

EndRun ==
  /\ pc = "constants" /\ Exhausted(Foldable) /\ ~changed
  /\ again' = graph_modified
  /\ cfg_info' = AnalysisResult(IF graph_modified THEN Dirty(cfg_info) ELSE cfg_info, func)
  /\ StartsLoop("cleanup")
  /\ phi' = 1
  /\ UNCHANGED <<expected, func, copies, graph_modified, changed, modified>>

(* cleanup_phi *)

InCleanup == pc = "cleanup" /\ at <= Len(func.blocks)

PhiLeft == phi <= Len(func.code[func.blocks[at]]) /\ IsPhi(func.code[func.blocks[at]][phi])

\* Options of blocks that are deleted or, to the analysis, no predecessors go.
OptionsGone(b, ins) ==
  {x \in Keys(ins) : x \in func.deleted \/ x \notin cfg_info.predecessors[b]}

CleanPhi ==
  LET b == func.blocks[at]
      old == func.code[b][phi]
      gone == OptionsGone(b, old)
      ins == [old EXCEPT !.opts = Restrict(@, DOMAIN @ \ gone)]
      f == [func EXCEPT !.code[b][phi] = ins,
                        !.forgotten = @ \cup {<<ins.def, old.opts[x]>> : x \in gone}]
      useless == Cardinality(ValuesRead(ins)) = 1 \/ Users(f, ins.def) = {}
  IN  /\ InCleanup /\ PhiLeft
      /\ IF Keys(ins) = {} THEN Stops("crashed")
         ELSE /\ \/ /\ ~useless
                    /\ func' = f /\ phi' = phi + 1
                 \/ /\ useless
                    /\ \E v \in ValuesRead(ins) :
                         func' = [ValueReplaced(f, ins.def, v) EXCEPT !.code[b] = RemoveAt(@, phi)]
                    /\ phi' = phi
              /\ UNCHANGED <<expected, cfg_info, copies, flags, pc, at>>

CleanNextBlock ==
  /\ InCleanup /\ ~PhiLeft
  /\ at' = at + 1 /\ phi' = 1
  /\ UNCHANGED <<expected, func, cfg_info, copies, flags, pc>>

TransformAgain ==
  /\ pc = "cleanup" /\ at > Len(func.blocks) /\ again
  /\ func' = UnreachableRemoved(func)
  /\ StartsRun(func')
  /\ UNCHANGED <<expected, phi>>

Finish ==
  /\ pc = "cleanup" /\ at > Len(func.blocks) /\ ~again
  /\ func' = UnreachableRemoved(func)
  /\ cfg_info' = Dirty(cfg_info)
  /\ pc' = "done"
  /\ UNCHANGED <<expected, copies, flags, at, phi>>

-----------------------------------------------------------------------------
Init ==
  /\ \E f \in Sources :
       /\ func = [blocks |-> f.blocks, code |-> f.code, deleted |-> {}, forgotten |-> {}]
       /\ expected = [input \in Inputs |-> RunOf(f.blocks, f.code, input, Fuel)]
  /\ cfg_info = [predecessors |-> <<>>, successors |-> <<>>, dirty |-> TRUE]
  /\ predecessors = <<>> /\ successors = <<>>
  /\ graph_modified = FALSE /\ changed = FALSE /\ modified = FALSE /\ again = FALSE
  /\ pc = "start" /\ at = 1 /\ phi = 1

OnBlock(i) ==
  \/ FoldBranch(i) \/ CombineBlocks(i) \/ CombineWithItself(i) \/ RemoveEmptyBlock(i)
  \/ RemoveEmptyBlockFails(i) \/ HoistBranch(i) \/ HoistBranchFails(i) \/ FoldInstruction(i)

Next ==
  \/ Preprocess
  \/ \E i \in DOMAIN func.blocks : OnBlock(i)
  \/ EndFold \/ EndRemovingLoop \/ EndRefold \/ NextRound \/ EndRun
  \/ CleanPhi \/ CleanNextBlock \/ TransformAgain \/ Finish

Spec == Init /\ [][Next]_vars

\* The pass is one loop that nothing interrupts.
FairSpec == Spec /\ WF_vars(Next)

-----------------------------------------------------------------------------
InRun == pc \in {"fold", "combine", "empty", "hoist", "refold", "constants"}

\* Blocks and what refers to them stay well formed: the terminators of live blocks
\* go to live blocks of the function, and the maps know every live block.
TypeOK ==
  /\ \A b \in ToSet(func.blocks) \ func.deleted :
       /\ func.code[b] # <<>>
       /\ Targets(func.code[b]) \subseteq ToSet(func.blocks) \ func.deleted
  /\ InRun => ToSet(func.blocks) \ func.deleted \subseteq DOMAIN predecessors \cap DOMAIN successors

\* After every step of the pass the function still does what it was given to do.
SameRuns ==
  \A input \in Inputs :
    SameRun(expected[input], RunOf(func.blocks, func.code, input, Fuel))

\* The copies, updated by hand, follow the real graph: the successors of a live
\* block are those of its terminator, and of the live blocks exactly the ones
\* that go to a block are its predecessors.
CopiesFollowGraph ==
  InRun =>
    LET live == ToSet(func.blocks) \ func.deleted
    IN  \A b \in live :
          /\ successors[b] = Targets(func.code[b])
          /\ predecessors[b] \cap live = {a \in live : b \in Targets(func.code[a])}

\* A branch on a constant whose two targets are one block: folding it erases the edge
\* that is taken from the copies.
ErasesTakenEdge(i) ==
  LET t == Terminator(func.blocks[i])
  IN  FoldBranch(i) /\ t.args[1] \in Constants /\ t.to[1] = t.to[2]

\* No branch is folded that way: equal targets are found before a condition gets
\* constant.
TakenEdgesKept == [][\A i \in DOMAIN func.blocks : ~ErasesTakenEdge(i)]_vars

\* The pass neither stops with an error nor stays in one merge for ever: no block is
\* merged with itself, and no block is looked up in a map it was erased from.
NeverFails == pc \notin {"crashed", "hung"}

\* A function whose loops have exits gets done: the rounds of run_on_func and of
\* transform come to an end, and none of them fails.
Terminates == (pc = "start" /\ EveryBlockReturns(func)) ~> (pc = "done")

\* A phi has an option for every block its block can be reached from: a block
\* merged, bypassed or hoisted away is replaced in every phi that named it.
PhisCoverPredecessors ==
  LET live == ToSet(func.blocks) \ func.deleted
  IN  \A b \in live :
        \A ins \in PhisOf(func.code[b]) :
          {a \in live : b \in Targets(func.code[a])} \subseteq Keys(ins)
=============================================================================
