------------------------------ MODULE Pipeline ------------------------------
(***************************************************************************)
(* A compilation: the builder makes a module of a program and the passes of *)
(* the level are applied to it, one after the other.  When Mem2Reg gives up *)
(* what it has done so far stays and two passes follow it.                  *)
(*                                                                         *)
(* The level "O1" is the one of the code without ConstrainReduce and        *)
(* BlockPositioning.                                                       *)
(***************************************************************************)
EXTENDS Sysy, SimplifyInstructions, Localize, LoadStoreElimination, Inlining, ConstexprEval, RemovePhi

CONSTANTS
  Programs,      \* the syntax trees that are compiled
  Inputs,        \* what they are run on
  MaxAllocs,     \* scalars of one function Mem2Reg accepts: 1000 in the code
  SourceFuel,    \* bound: iterations and calls of a run of a program
  ModuleFuel     \* bound: blocks of a run of a module

VARIABLES
  source,    \* the program
  meaning,   \* what it shows on each input
  level,     \* "O0" or "O1"
  module,    \* the intermediate representation; NoModule before there is one
  passes     \* passes that follow

vars == <<source, meaning, level, module, passes>>

NoModule == <<>>

O0Passes ==
  <<"Mem2Reg", "LocalValueNumbering", "GepFolding", "LocalValueNumbering", "SimplifyControlFlow",
    "GlobalVariableLocalize", "GlobalArrayLocalize", "LoadEliminate", "StoreEliminate",
    "AlgebraicSimplify", "LocalValueNumbering", "SimplifyControlFlow", "DeadCodeEliminate",
    "ConstexprFuncEval", "DeadFuncEliminate", "RemovePhi">>

O1Passes ==
  <<"Mem2Reg", "LocalValueNumbering", "GepFolding", "DeadCodeEliminate", "LocalValueNumbering",
    "SimplifyControlFlow", "Inlining", "DeadFuncEliminate",
    "GlobalVariableLocalize", "GlobalArrayLocalize", "LoadEliminate", "StoreEliminate",
    "AlgebraicSimplify", "LocalValueNumbering", "SimplifyControlFlow", "DeadCodeEliminate",
    "ConstexprFuncEval", "DeadFuncEliminate", "RemovePhi">>

RescuePasses == <<"AlgebraicSimplify", "SimplifyControlFlow">>

Init ==
  /\ source \in Programs
  /\ meaning = [input \in Inputs |-> Meaning(source, input, SourceFuel)]
  /\ level \in {"O0", "O1"}
  /\ module = NoModule
  /\ passes = <<>>

\* Builder::visit
Build ==
  /\ module = NoModule
  /\ module' = visit(source).m
  /\ passes' = IF level = "O0" THEN O0Passes ELSE O1Passes
  /\ UNCHANGED <<source, meaning, level>>

Apply(pass, m) ==
  /\ passes # <<>> /\ Head(passes) = pass
  /\ module' = m
  /\ passes' = Tail(passes)
  /\ UNCHANGED <<source, meaning, level>>

TooMany(f) == Len(ValidAllocs(f)) > MaxAllocs

Promote ==
  /\ Apply("Mem2Reg", PromoteMemory(module))
  /\ \A f \in ToSet(module.functions) : ~TooMany(f)

\* The functions before the one with too many scalars have been promoted.
Rescue ==
  LET first == Min({i \in DOMAIN module.functions : TooMany(module.functions[i])})
  IN  /\ passes # <<>> /\ Head(passes) = "Mem2Reg"
      /\ \E f \in ToSet(module.functions) : TooMany(f)
      /\ module' = [module EXCEPT !.functions =
                      [i \in DOMAIN @ |-> IF i < first THEN PromotedFunction(@[i]) ELSE @[i]]]
      /\ passes' = RescuePasses
      /\ UNCHANGED <<source, meaning, level>>

\* The passes that can end the compiler: nobody catches what RemovePhi throws, and the
\* interpreter may be killed.
Fatal(pass, m) ==
  CASE pass = "RemovePhi" -> \E f \in ToSet(m.functions) : LookupThrows(f)
    [] pass = "ConstexprFuncEval" -> ConstexprFuncEval(m).killed
    [] OTHER -> FALSE

FreeOfPhis ==
  /\ Apply("RemovePhi", RemovePhis(module))
  /\ ~Fatal("RemovePhi", module)

CallsEvaluated ==
  /\ Apply("ConstexprFuncEval", ConstexprFuncEval(module).m)
  /\ ~Fatal("ConstexprFuncEval", module)

Abort ==
  /\ passes # <<>> /\ Fatal(Head(passes), module)
  /\ passes' = <<"aborted">>
  /\ UNCHANGED <<source, meaning, level, module>>

Next ==
  \/ Build
  \/ Promote
  \/ Rescue
  \/ Apply("LocalValueNumbering", LocalValueNumbering(module))
  \/ Apply("GepFolding", FoldGeps(module))
  \/ Apply("SimplifyControlFlow", SimplifyFlow(module))
  \/ Apply("Inlining", InlineCalls(module))
  \/ Apply("GlobalVariableLocalize", GlobalVariableLocalize(module))
  \/ Apply("GlobalArrayLocalize", GlobalArrayLocalize(module))
  \/ Apply("LoadEliminate", LoadEliminate(module))
  \/ Apply("StoreEliminate", StoreEliminate(module))
  \/ Apply("AlgebraicSimplify", SimplifyModule(module))
  \/ Apply("DeadCodeEliminate", DeadCodeEliminate(module))
  \/ CallsEvaluated
  \/ Apply("DeadFuncEliminate", DeadFuncEliminate(module))
  \/ FreeOfPhis
  \/ Abort

Spec == Init /\ [][Next]_vars

-----------------------------------------------------------------------------
(* Properties *)

\* After every pass that ends, the module shows what the program shows, on every input on
\* which the program has a meaning.  Nothing is said where a pass ends the compiler.
SameBehaviour ==
  module # NoModule =>
    \A input \in Inputs :
      meaning[input].status = "run" => RunModule(module, input, ModuleFuel) = meaning[input]

Positions(f) == {p \in Blocks(f) \X (1..Max({Len(f.code[b]) : b \in Blocks(f)})) : p[2] \in DOMAIN f.code[p[1]]}

\* The place p comes before the place q on every path.
Before(dominators, p, q) ==
  IF p[1] = q[1] THEN p[2] < q[2] ELSE p[1] \in dominators[q[1]]

WellFormedFunction(m, f) ==
  LET dominators == Computed(Dominators(f))
      Ins(p) == f.code[p[1]][p[2]]
      places == Positions(f)
      DefinedBefore(v, p) == \E d \in places : Ins(d).def = v /\ Before(dominators, d, p)
      free == Destinations(f)
  IN  /\ \A p \in places :
           /\ IsTerminator(Ins(p)) <=> p[2] = Len(f.code[p[1]])
           /\ IsPhi(Ins(p)) => \A j \in 1..p[2] : IsPhi(f.code[p[1]][j])
           /\ ToSet(Ins(p).to) \subseteq Blocks(f)
           /\ Ins(p).op = "move" \/ WellTyped(m, f, Ins(p))
           /\ \A i \in DOMAIN Ins(p).args : IsVar(Ins(p).args[i]) =>
                Ins(p).args[i] \in free \/ DefinedBefore(Ins(p).args[i], p)
           /\ IsPhi(Ins(p)) =>
                /\ Predecessors(f)[p[1]] \subseteq DOMAIN Ins(p).opts
                /\ \A b \in Predecessors(f)[p[1]] :
                     IsVar(Ins(p).opts[b]) => DefinedBefore(Ins(p).opts[b], <<b, Len(f.code[b])>>)
      /\ \A p, q \in places : Defines(Ins(p)) /\ Ins(p).def = Ins(q).def => p = q

\* What the builder and every pass make is a program in static single assignment form:
\* blocks end where they should, types fit, a name has one definition, which comes before
\* its uses on every path, and a phi has an option for each block that leads to it.
WellFormed == module # NoModule => \A f \in ToSet(module.functions) : WellFormedFunction(module, f)

\* The blocks a path from the entry gets to without block a.
Avoiding(f, a) ==
  Through(LAMBDA reached, i : reached \cup (UNION {Targets(f.code[b]) : b \in reached} \ {a}),
          {Entry(f)} \ {a}, f.blocks)

\* The blocks that are on every path to a block.
OnEveryPath(f) ==
  LET without == [a \in Blocks(f) |-> Avoiding(f, a)]
  IN  [b \in Blocks(f) |-> {a \in Blocks(f) : b \notin without[a]}]

\* The sets of dominators are the blocks on every path, and the tree has for a block the
\* nearest of them.
TreeOfDominators ==
  module # NoModule =>
    \A f \in ToSet(module.functions) :
      LET idom == Computed(ImmediateDominators(f))
          above == Computed(OnEveryPath(f))
      IN  /\ Dominators(f) = above
          /\ \A b \in Blocks(f) \ {Entry(f)} :
               idom[b] \in above[b] \ {b} /\ above[b] \ {b} \subseteq above[idom[b]]

\* The frontier of a block is where paths that go through it meet others.
FrontierEndsDominance ==
  module # NoModule =>
    \A f \in ToSet(module.functions) :
      LET frontier == Computed(Dominance(f).frontier)
          above == Computed(OnEveryPath(f))
          pred == Predecessors(f)
      IN  \A b \in Blocks(f) :
            frontier[b] = {x \in Blocks(f) : (\E p \in pred[x] : b \in above[p]) /\ (b \in above[x] => b = x)}

\* The functions that a call of a function may get to.
RECURSIVE Reaching(_, _)
Reaching(m, S) ==
  LET more == S \cup UNION {Callees(FunctionNamed(m, g)) : g \in S}
  IN  IF more = S THEN S ELSE Reaching(m, more)

\* A function has the effects of every function it may get to.
EffectsReachCallers ==
  module # NoModule =>
    LET infos == FunctionInfos(module)
        own == [g \in FunctionNames(module) |-> OwnAttributes(FunctionNamed(module, g))]
    IN  \A g \in Reaching(module, {"main"}) : \A h \in Reaching(module, {g}) :
          /\ own[h].memory_read => infos[g].memory_read
          /\ own[h].memory_write => infos[g].memory_write
          /\ own[h].memory_alloc => infos[g].memory_alloc
          /\ own[h].io_read => infos[g].io_read
          /\ own[h].io_write => infos[g].io_write
          /\ own[h].used \subseteq infos[g].used

\* What a function without state gives does not depend on memory: neither it nor a function
\* it may get to names a global variable.
StatelessUseNoGlobals ==
  module # NoModule =>
    \A g \in Reaching(module, {"main"}) : FunctionInfos(module)[g].no_state =>
      \A h \in Reaching(module, {g}) : \A ins \in Instructions(FunctionNamed(module, h)) :
        \A i \in DOMAIN ins.args : ins.args[i][1] # "global"

\* No phi is left for the code generator when RemovePhi is done, and RemovePhi gets done.
NoPhiReachesBackEnd ==
  module # NoModule /\ passes \in {<<>>, <<"aborted">>} =>
    \A f \in ToSet(module.functions) : \A ins \in Instructions(f) : ~IsPhi(ins)
=============================================================================
