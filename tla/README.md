# Formal verification of the SHIT compiler

This directory holds TLA+ models of the SysY compiler in `src/`: a C++ program
that parses SysY, builds an SSA intermediate representation (MIR), runs a
pipeline of passes over it, lowers it to a low-level representation (LIR) and
emits RISC-V assembly. TLC checks the models on small instances; TLAPS proves
the main results for every value of the constants. File and line references are
to `src/`.

## 1. The system

The compiler is one sequential program (`Compiler.cpp`). Nothing runs
concurrently and nothing is persisted, so its hard behaviours are of three other
kinds:

* **order nobody chose**: graphs are kept in `unordered_map`s and in sets of
  `shared_ptr` ordered by address, so the order in which nodes are visited
  changes with the allocator and the standard library, and with it the result;
* **data changed while another copy of it is in use**: neighbour sets renamed
  while a stack refers to them, analyses cached across transformations, operand
  and user lists kept as two copies of one relation, frame offsets computed
  before the frame stops growing;
* **machine arithmetic**: 32-bit values in 64-bit registers, magic-number
  division, strength reduction, immediates of 12 bits.

### Components

| component | state it keeps | operations | hard part | correct when |
|---|---|---|---|---|
| lexer, parser (`Frontend/`) | token list, position | one function per rule of the grammar | lookahead between assignment and expression | every program of the grammar has one tree |
| builder, symbol table, initializers (`Mir/Builder`, `Symbol`, `Init`, `Eval`) | scopes, current block | visit each AST node | short-circuit conditions, nested initializers, constants | the IR computes what the program says |
| MIR values (`Mir/Value`, `Instruction`, `Structure`) | `users_`, `operands_`, blocks | replace, add, remove, clear | two copies of one relation | operands and users agree; no dead user |
| pass pipelines (`Pass/Manager.cpp`) | the module | O0: Mem2Reg, LVN, GepFolding, SimplifyControlFlow, GlobalVariableLocalize, GlobalArrayLocalize, LoadEliminate, StoreEliminate, AlgebraicSimplify, DCE, ConstexprFuncEval, DeadFuncEliminate, RemovePhi; O1 adds Inlining, ConstrainReduce, BlockPositioning | when Mem2Reg throws, two passes run and phi elimination is skipped | each pass finds the IR in the shape it needs |
| analysis cache (`Pass/Analysis.h`) | one analysis per type, dirty flags per function | get, mark dirty | a pass that forgets to mark | a result handed out describes the current IR |
| control flow and dominance | predecessors, successors, dominators, frontiers | compute per function | fixpoints, unreachable blocks | equal to their definitions |
| Mem2Reg, LVN, SimplifyControlFlow, load/store elimination, DCE, inlining, ConstrainReduce | the module | one `transform` each | aliasing, phis of deleted edges, order of visits | the program's meaning is kept |
| phi elimination (`RemovePhi`) | a map from predecessors to moves | group, sequence, split critical edges | parallel copies; a control-flow graph that grows stale | the moves have the effect of the phis |
| LIR (`Backend/LIR`) | functions, blocks, variables, liveness sets | lower an instruction, compute liveness, spill | liveness through loops, rewriting of uses and definitions | liveness is the least solution; a spilled variable is gone |
| register allocators (`GraphColoring`, `FGraphColoring`) | interference graph, stack, colours, the function being rewritten | build, simplify, coalesce, freeze, spill, assign | arbitrary visiting order, merged nodes, restart after a spill | variables that are live together never share a register |
| `ReWrite` | the function | entry block, parameters, calls, far slots | moves that overwrite one another; slots that move away as the frame grows | every instruction reads what it read before |
| RISC-V functions, stack frame, prologue | instruction list, frame offsets | translate, prologue, epilogue | return address in a large frame | the caller finds its registers as it left them |
| `ConstOpt` (`Opt/Arithmetic.cpp`) | none | multiplication and division by constants | precision of multipliers, kind of shifts | the quotient is exact |
| peephole optimizer | instruction list | local rewritings | liveness of what is removed | same effect |
| driver, logging, printing, data section | none | input and output | - | - |

The loop passes, GVN, GCM, tail-call elimination and the alias analysis are in
the repository but no pipeline of `Manager.cpp` runs them.

### How they interact

`Compiler.cpp` runs parser, builder, one pipeline, and the back end in sequence
on one module. Passes talk to one another only through the module and the
analysis cache. In the back end `LIR::Module` is built from the MIR; for each
function the allocators share the `LIR::Function` with `ReWrite` and with the
liveness analysis it carries (`allocate()` calls `rewrite_large_offset`, which
may add instructions and variables; a spill changes the frame, which changes
what the next `rewrite_large_offset` does); `RISCV::Function` then reads the
blocks, the `var_to_reg` map and the stack.

`PROJECT.json` lists every component with its files and status, and under
`hazards` what a test would hardly reach, each at its line.

## 2. Plan

Modules in the order they are written; the ones marked with a tick are done.

| | module | subject | abstract specification or reference | proof |
|---|---|---|---|---|
| ✓ | LirCode, GraphColoring, RegisterAllocation | graph-colouring allocation | RegisterAllocation | GraphColoring_proofs |
| ✓ | AllocatedCode | the allocated code against its source | the source function | AllocatedCode_proofs |
| ✓ | ParallelCopy | sequencing of phi copies | simultaneous assignment | ParallelCopy_proofs |
| ✓ | Powers, Words, DivConst | multiplication, division and remainder by constants | arithmetic of C | NumberLemmas, DivConst_proofs |
| ✓ | UseDef | operands, users, phi options (`Mir/Value.cpp`) | one relation | UseDef_proofs |
| ✓ | MirCode, SimplifyControlFlow | the pass, loop by loop, on small functions | the same observable run; the graph of the code | SimplifyControlFlow_proofs |
| ✓ | AlgebraicSimplify | identities on terms | arithmetic at a small width | - |
| ✓ | IntervalSets, IntervalAnalysis | sets of intervals and their operators; the worklist of a function | the values of the variables | IntervalSets_proofs |
| ✓ | MirValues, Ast, Sysy, Mir, Builder | the language, the intermediate representation and the translation between them | Sysy: what a program means | - |
| ✓ | DominanceGraph, FunctionAnalysis | dominators, frontiers, effects of functions | definitions by paths and by calls | - |
| ✓ | Mem2Reg, LocalValueNumbering, SimplifyInstructions, ControlFlow, Inlining, Localize, LoadStoreElimination, DeadCode, ConstexprEval, RemovePhi | the passes of the pipelines | Sysy | - |
| ✓ | Pipeline | the builder and the passes in the order of `Manager.cpp` | Sysy | - |
|   | StackFrame | where caller and callee find stack arguments; frame layout in bytes | disjoint slots, equal addresses | - |
|   | ConstrainReduce, BlockPositioning | the rest of the O1 pipeline | Sysy | - |
|   | Peephole, Lexer, Parser | local rewritings, text | same effect | - |

## 3. The register allocator

### LirCode, and how it corresponds to the code

A function is a record: `code`, a sequence of blocks of instructions; `succ`,
the successors of each block; `params`; `locals`, the variables kept in
registers (physical registers included, as in `lir_function->variables`);
`frame`, the stack objects in the order `Stack::add_variable` adds them; `uid`, the
counter behind the names the allocator invents. An instruction keeps its
definition, its uses in order, and the stack object it addresses; its opcode is
kept as far as the allocator looks at it.

`LiveIn`, `LiveOut` are `analyze_live_variables`; `Interference`, `MoveRelated` and
`MissingNode` are `create_interference_nodes` and `build_interference_graph`;
`SpillCosts` and `Cheaper` are the cost function (quotients are compared by
cross-multiplication instead of in floating point; `loop_depth` is the constant 1 of
the code, whatever `readme.md:189` says of loops); `SpillCode` is
`Function::spill`, `RewriteLargeOffset` is
`rewrite_large_offset`, and `CreateRegisters` is what happens to a function
before the first round: entry block, parameter moves, argument and result moves
of calls, callee-saved copies before each return.

Offsets are abstracted to near and far: a stack object is far when at least
`NearSlots` objects were added to the frame after it. This is the direction of the
code: the frame is addressed from `sp`, which moves down with every new object.

### GraphColoring

| code | model |
|---|---|
| `interference_graph` (keys) | `keys` |
| `non_move_related_neighbors`, `move_related_neighbors`, `coalesced` | `adj`, `mov`, `coal` |
| `is_spilled`, `color`/`is_colored` | `stacked`, `color` |
| `simplify_stack`, `var_to_reg` | `stack`, `varToReg` |
| `build_interference_graph` | `BuildGraph` |
| one iteration of `simplify_phase`, `coalesce_phase`, `freeze_phase`, `spill_phase` | `Simplify`, `Coalesce`, `Freeze`, `SelectSpill` |
| the colouring loop of `assign_colors` | `StartAssign`, `AssignColor`, `ActualSpill` |
| `__allocate__` | `Allocate` |

The code runs a phase until it finds nothing to do and then starts again from
the first; the guards of the model say that an earlier phase has nothing to do.
Where the code takes the first node it meets in a hash map or in a set ordered
by address, the model takes any node that qualifies: the results hold for every
hash function and every layout of the heap. `pc = "crashed"` stands for the null node that
`build_interference_graph` would dereference.

The floating-point allocator `FGraphColoring` is the same class run on the
floating-point variables; it differs in the register list and in that far slots
of `FLOAD` and `FSTORE` are never rewritten (see the hazards).

`RegisterAllocation` is the abstract specification: an allocator may rewrite far
slots, may move a variable (never a register) to the frame, and ends by giving
every variable that is left a register such that interfering variables differ.
`KeepsPromise` is the refinement, with `alloc <- varToReg`.

### AllocatedCode

Runs the allocated function beside the given one. Values are tokens that name
the execution that produced them, so any value in the wrong place is noticed. A
call destroys every caller-saved register. `SameOperands` is the semantic
correctness of everything between the lowering and the emission: it fails if
liveness, interference, colouring, spill code, far-slot rewriting or the
parameter and call moves are wrong. The prologue is `LeaveEntry`: `StoreRA` is
placed at the end of the entry block, the only one without a jump, by
`generate_prologue`.

`CalleeSavedKept` asks for the callee-saved registers at every return, whichever of their
copies were spilled. A spilled copy is fetched through a temporary when its register is put
back. A register that was already put back is used by nothing that follows, so it has no edge
to that temporary, which may be coloured with it (`FetchedOver`): the one way in which a
callee-saved register is lost. No function of the run gets there with the two callee-saved
registers it has. With three (registers `a0`, `s0`, `s1`, `s2`, `t0`) TLC finds `CalleeSavedKept`
violated by the function `across`: the copies of `s1` and `s2` are spilled, the slot of the first is
far, and its address is computed in `s0`, which is already back. With the register list of
the code (`Registers.h`) the temporary gets `a1` ... `a7` first, so seven of these have to be
taken by copies that are fetched later in the same return; we did not get the compiler to that, and
there is no finding. See the hazard at `GraphColoring.cpp:52`.

### Runs

| run | instance | shows |
|---|---|---|
| `coloring` | three registers (one argument, one callee-saved, one temporary), one near slot, six functions | `TypeOK`, `ProperColoring`, `EveryVariablePlaced`, `NoNullNode`, `SlotsInReach`, `Terminates`, `KeepsPromise`, and `IInv`, the invariant of the proofs |
| `allocated_code` | those functions but `early`, and `across`, which keeps two values over a call so that the copies of both callee-saved registers are spilled; four registers, two of them callee-saved; at most nine values per run | `SameOperands`, `CalleeSavedKept` |
| `large_frame` | `early`: two parameters, one on the stack, used before a call | finding: `ParametersArrive` fails |

Bounds. The three registers of `coloring` and `large_frame` are one of each kind and fewer
than the values alive at once in every function, so every phase, two spills in a row, and
spills of callee-saved copies, parameters and results all happen (TLC's coverage
shows every action taken). One near slot makes the second stack object far, so
`rewrite_large_offset` is exercised in every function that spills twice. `MaxValues`
= 9 lets the loop go round at least once after the first iteration.

Fairness. `allocate()` is one loop that nothing interrupts: `WF_vars(Next)`.
`Terminates` needs no more: what could go wrong is a cycle of spills.

Deadlock is not checked where the program ends.

### Proofs (`GraphColoring_proofs`, `AllocatedCode_proofs`)

For every set of functions, every list of distinct registers, every number of near
slots and every order of visits:

* `TypeCorrect`, `ColoringIsProper`, `EveryVariableIsPlaced`: `Spec => []TypeOK`,
  `[]ProperColoring`, `[]EveryVariablePlaced`;
* `Inductive`: `Spec => []IInv`;
* `Refinement`: `Spec => KeepsPromise`;
* `Reaches`: `Spec => []SlotsInReach`;
* `NoMissingNode`: `Spec => []NoNullNode`, if `FreshNames`;
* `SourceValuesReach`: `ExecSpec => [](~Overwrites => SameOperands)`, and
* `CalleeSavedRestored`: `ExecSpec => [](~Overwrites /\ ~FetchedOver => CalleeSavedKept)`, if
  `FreshNames` and `StackNames`; for any number of callee-saved registers and whatever is
  spilled.

Why the invariants are not inductive by themselves. The stack holds names, and
when a name is popped the colour must avoid the neighbours the *function* gives
its members, while the code only looks at the node's own neighbour set, fixed
when it was pushed and renamed by merges since. `IInv` therefore says, besides
types: every node and member has one owner; every
interference of the function is still represented between the owners of its
two ends, by an edge of at least the end that is coloured later; edges between
active nodes go both ways; only registers and nodes popped have colours; and
the stack holds each pushed node once. From it, the popped node sees the colour
of every conflicting variable coloured before it.

`Reaches` and `NoMissingNode` are about the code and not the graph. A step leaves the code
alone, builds, or spills (`CodeSteps`), so the invariants are about what the
rewritings make of it. `CodeInv`: once the far slots were looked at, every load and
store is within reach, because the rewriting replaces the address of every far one
and a spill, which pushes slots away, starts the allocation again before the code
is used. `ClosedInv`: the code names only variables of the function
(`Closed`), and the names the allocator will still invent are not among them
(`NamesLeft`). The first half of `GraphColoring_proofs` has what this rests on, for every function:
liveness only finds variables the instructions name (`LiveWithinOver`, `LiveInOver`:
an induction over the instructions of a block, and one over the rounds of the
fixpoint), so a closed function has no conflict without a node
(`ClosedConflicts`), and parameter, call and return moves
(`CreateRegistersClosed`), far addresses (`RewriteLargeOffsetClosed`) and spills
(`SpillClosed`) keep it closed. The last needs that no instruction both defines
and uses a variable: `Function::spill` rewrites only the definition of such a one, and
the use that stays is the null node.

The theorems of `AllocatedCode_proofs` are the correctness of the whole allocator: the code it
hands out computes what the source computes, on every path of any length, for any
colouring it may choose. `RunInv`, the inductive invariant of the run, rests on a
*certificate* (`Certificate`): a table that says for each place between two instructions which facts
hold there. A fact gives a variable of the rewritten code, a stack object or a register that was put back
its content: what a variable of the source holds now, what the caller left in a register, or
an address. Each instruction takes the facts before it to the facts after it (`Step`), and they
suffice for what it needs (`Enough`): the operands of the source instruction are where the
rewritten one reads them, a store knows its stack object, and before a return every callee-saved register
was put back. The argument has three parts.

1. *The code has a certificate, whatever the allocator does to it.* The one of
   `create_registers` (`CreatedCertified`) is written down piece by piece: entry moves, argument moves, result
   moves, moves before a return. Spilling keeps one (`SpillCertified`): the content of the spilled variable is
   that of its stack object, or of the temporary between the load and the
   instruction that uses it. So does the rewriting of far slots (`AddressedCertified`): the new variable
   holds an address from its `lea` to the access.
2. *The colouring lets registers hold the facts.* An instruction that defines `d` changes one
   register; a variable live after it either interferes with `d`, and has another
   register by `ColoringIsProper`, or is the source of the move, and has the same value.
   A call changes the caller-saved registers, which no variable live across it has. So
   the facts about *live* variables (`Holds`) go from one place to the next
   (`InsertedHolds`, `SourceHolds`, `BranchHolds`).
3. *The run follows the table* (`RunInv`, `Runs`): `StartRun` establishes the facts of the entry
   (`StartArrives`), each action moves on by one, and a jump arrives at the table of the
   next block, which asks for no more than every block before it leaves. Beside the facts,
   `Runs` has `Restored`: unless a fetch has written over it, a register that was put back holds
   what the caller left there. Only an instruction that puts a register back, a load and an
   address come between that and the return (`Brings`, `InsertedKeeps`).

`Overwrites` is the case of finding 1: a function that calls and has a far return address has, at the end of its
entry block, a live variable in `t0`. `FetchedOver` is described above. The theorems say that nothing else goes wrong.

Assumptions. `RegisterAssumption`: distinct registers, argument and callee-saved
registers among them, `None` is not one. `FunctionAssumption`: the functions are as the
lowering makes them: instructions over the function's variables, no
instruction that defines what it uses (values have one definition, and of a move that
`RemovePhi` makes the sides differ). `CallingConvention`: argument and callee-saved
registers are distinct lists without a common register, and `t0` is not callee-saved.
`RunAssumption`: blocks end in their only jump or return, instructions have ids of their own, nothing is read before
it is written. TLC evaluates all four. `FreshNames`, for
the last three theorems: a name `Utils::unique_name` makes with a number of its
counter is not a variable yet, and different numbers make different names. It is a hypothesis
of the theorem and no assumption of the module because names are strings with numbers
in them, of which the provers know nothing. `StackNames` says the same of stack objects: the
objects of parameters (`p_mem`) and of stack arguments (`param12_9`) have names that
differ from one another, from variables and from the names to come.

Only model-checked: `Terminates`, which is liveness. `ParametersArrive` is what a
run refutes.

## 4. Phi elimination: ParallelCopy

`Helper::insert_moves` turns the copies of one predecessor, meant to happen
together, into a sequence. `SaveSource`/`SkipSource` are the second loop of the
function, `AssignDestination` the third, `RunMove` executes what the fourth
emits. `DoneTogether`: every destination ends up with the value its source had at
the start and nothing else changes. The run `parallel_copy` takes every list of
up to three copies over three phis and one outside value, which contains the
swaps, the rotations and the chains.

`ParallelCopy_proofs` proves `IInv` and `DoneTogether` for any list of copies with
distinct destinations (`MoveListAssumption`: `Helper::build` makes one copy per
phi), given that invented names are new (`TempAssumption`). The invariant relates each
emitted move to its role: the first `saves` moves save sources, and the rest follow
the given list; without it `DoneTogether` says nothing until the end.

## 5. Arithmetic: Powers, Words, DivConst, AlgebraicSimplify, IntervalSets, IntervalAnalysis

Four machines compute with numbers of a fixed width. `IntervalAnalysis` uses the operators of
`IntervalSets`; beyond that they share nothing. `MCArithmetic` composes them into one
specification in which one of them works and the others are idle, and the run `arithmetic`
checks all four.

**DivConst** builds the instructions that `applyMulConst`, `applyDivConst` and
`applyRemConst` emit for a positive constant and runs them on registers twice as wide
as a word, with the arithmetic the translation gives each LIR instruction. The table
of multiplication plans is built as `initialize` builds it, level by level, and
`ReadPlan` walks it. A state is the kind of work, a constant and an operand; TLC tries
all. A word has `W` = 7 bits: as in the code the multiplier is computed in double width
and reduced while low and high bounds allow, and the shapes the code distinguishes
(power of two, multiplier below and above half a word, plans of one, two and three
operations) all occur. `ExactWhenNotNegative` and `ExactWithLargeMultiplier` say where the
quotient is exact, `LowWordWithPowerOf2` what is right about a power of two, and
`ProductsRight` that a product is. The case that is wrong is the run
`div_const_small_multiplier`.

**AlgebraicSimplify** has the instructions of a block as a term, and one action
`Round`: the exchange of operands and the reversal of signs of `StandardizeBinary`,
constant folding, and the identities of `reduce_add` ... `reduce_icmp` in the order in
which the code tries them. The terms given are those of two operations over two variables and
five constants, sums of two products, comparisons of differences, and quotients and
remainders of what two operations make that may wrap before the division; in words of 3 bits,
and with every value of the variables. With 3 bits sums and products wrap.
`SimplifyKeepsValue`: a term whose value C defines keeps it, and the pass does not divide by
zero over it. `RingKeepsValue`: terms of
`+ - *` keep their wrapped value also where they overflow, because the pass computes
with its own constants. `FewRounds`: the rounds end (no identity undoes another).

Not as they should be, and exceptions of `SimplifyKeepsValue` by name:

* `falseIdentity`: `x % x` becomes 1 (`AlgebraicSimplify.cpp:886`, under the comment
  `a % a = 0`) and `(-x) / x` becomes 1;
* `overflowing`, the values of the variables for which a division is rewritten although its
  operands overflow. `(a * c1) * c2 -> a * (c1 * c2)` is right modulo the word, `(a * c2) / c1 -> a * (c2 / c1)`
  only while the product is exact; one after the other they turn `a * 2 * 1073741824 / 2` into
  `a * -1073741824`. The same holds of `(-a) / c`, `a / (-a)` and `a / (a * b)` over operands that
  wrapped;
* `Fatal`: `x - x < y` ends in the `log_fatal` of `reduce_cmp`.

`Abort` is a division by the constant 0 that an identity brings up, which ends the compiler with SIGFPE; the
property says that this happens to no term that has a meaning. Random terms of two to seven operations, checked
beside the run, gave no other exception.

**IntervalSets** has the sets of closed intervals of `IntervalAnalysis.h` with
`normalize`, union, intersection, the arithmetic operators, the conditions of
branches and widening, and walks of `Steps` = 3 of them from sets of boundary values,
beside the values the variable can have. `WithinBounds`: they are in the set.
`Orderly`: intervals are sorted and apart. `wraps`
covers both meanings of `max + 1` in `intersects_or_adjacent`, which is undefined.
`operator%` gives wrong bounds for negative dividends; after such a step
(`guessed`) `WithinBounds` claims nothing.

**IntervalAnalysis** is `rabai_function` over these sets: the worklist of one function, the
contexts of its blocks, widening of phis along back edges (a predecessor the block
dominates), and `refine_context`, which lays the condition of a branch over what the target has. When the worklist
is empty the function runs, on any input. Its functions are nine shapes (`While`, `DoWhile`, `Diamond`,
`LoopWithDiamond`, `LoopWithIf`, `Nested`, `Break`, `Continue`, `BranchBack`) with many comparisons
and constants.

`FewAnalyses`: the worklist runs empty, because no block is taken from it more than `MaxAnalyses` = 8 times. Widening
does not give this by itself: `refine_context` makes a context smaller again, so contexts do not grow from
step to step, and bounds may creep. The number 8 is the same for words of 3, 4 and 5 bits, which is what
makes it say something about 32. It fails where `CutsBack` holds, the premise: a loop with two ways
back, one of them a branch (a `continue` under a condition). What widening gave the phi along one
is cut by the condition along the other, and the number of analyses grows with the number
of words: over 14 for 3 bits, 20 for 4, 40 for 5. It ended in all of these, but a function with
32-bit words would not be analysed in any practical time. `CoversRuns`: whatever a run finds in a variable when it
enters a block is in the intervals computed for it. It is not claimed after the analysis `guessed`: `refine_context`
intersects with values that came along other edges, and with those of a phi whose next value is tested
(`IntervalAnalysis.cpp:250`, `:371`); a loop whose condition stands at its end is analysed wrongly for that reason. About
1800 of the 2304 functions we tried end without a guess. Neither failure reaches a program: `ConstrainReduce.cpp:357` gives its
worker no analysis, and the branch probabilities use none either. The summaries of called
functions, floats, `switch` and the cache `ctx_after` are not modelled.

Bounds: words of 3 bits for terms and intervals, so that every operator overflows from
the boundary values `MCNumbers` in a step or two and the sets of `MCOthers` have gaps of one,
overlap at the largest word, or are everything; three steps are a computation, a join and a
widening. The walks are short because the proofs below are for walks of any length. The constants
of the functions are at both ends of the words and in the middle, so loops count towards an end,
away from it and past it.

### Proofs (`NumberLemmas`, `DivConst_proofs`, `IntervalSets_proofs`)

The powers of two are a recursive function (`Powers`), because the provers know no law
of `^`. `NumberLemmas` has what both components need: that the function satisfies its
equations, that powers add, quotients and remainders by two inequalities, products
along inequalities. Facts about every number or about every prefix of a pass are proved by
taking the least counterexample of a set (well-foundedness of the naturals): the
induction theorems of the library cannot be instantiated, sets can.

`DivConst_proofs`, for every word width `W` of at least 2 (32 among them), divisor and dividend:
`DividesNotNegative`, `DividesWithLargeMultiplier`, `DividesByPowerOf2` state the three
properties of the run. `DivInv` says of every moment of the run: the code left is an
end of what `applyDivConst` emitted, and each temporary whose instruction is behind
holds its value: the product, its high half, the biased dividend, the shifted sum. That the
values fit their registers, and that the answer is the quotient, is the theory of the
multiplier: it was halved as long as the candidates differ, so with `h` the multiplier, `d` the
divisor and `s` = `W + sh` the shift, `2^s < h * d <= 2^s + 2^(sh + 1)`, and the excess, multiplied
by a dividend below `2^(W-1)`, never reaches the next quotient; a negative dividend
gets its quotient less one, which the sign added at the end corrects. Where the code
shifts `srli` instead of `srai` the argument fails for negative dividends and a small
multiplier with a shift, which is finding 2.

Its second half, for every word width, factor and other operand: `MultipliesRight` states
`ProductsRight`. No instruction of a plan looks at the operand, so the factors of
the registers can be followed without it (`Computes`), and `MulInv` says: the registers hold the
products of `src` by factors (`Right`) which the code left turns into `C`. `Right` is the low word, and
the whole register only if the factor is not negative and the product is a word: a shift
whose factor reaches the sign bit leaves a register that is not sign-extended, and the sums after it
repair that (`RightShift`, `RightSum`). That the code has this effect is in two
parts. `LevelsAreTables`: a plan filed under `v` has the factor `v` and parts that cost
less, by the loop of `initialize` over the costs. `PartOfFactor`: the code of a part leaves its
product in a mulAssist that no later part writes, by induction on the cost; the plans are
at most `MUL_COST` deep, so the recursive definitions can be unrolled and shown to have
values (`LevelsAre`, `ReadPlanIs`).

`IntervalSets_proofs`, for every word width, every set of program constants
(`NumbersAssumption`: they are words), every set of intervals brought from elsewhere
(`OthersAssumption`: intervals of words, ends in order) and walks of any length:
`AnalysisSound` and `AlwaysOrderly` state `WithinBounds` and `Orderly`. `FewWidenings` is what `FewAnalyses`
rests on: of a chain of widenings at most three change something: the first may only close the gaps
between intervals, each other one moves an end to infinity (`WideningStops`). `IntervalInv` adds to them that the set is one of the analysis
(`GoodSet`) and `WideningShape`: after a widening that changed something the set is one
interval, and every further one has one more end at infinity. `MergedIntervals` is the
heart of soundness: by induction on the pass of `normalize`, what is done stays sorted and
apart, covers all intervals taken and ends where the next may begin, also
where the adjacency test wraps at the largest word. Each operator is then shown to hold the results of its operands,
for two intervals by the signs of their ends (`ProductsHold`, `QuotientsHold`, ...), and for
two sets by `PairsHold`.

Only model-checked: `SimplifyKeepsValue`, `RingKeepsValue` and `FewRounds`, which
are about terms of any depth and operators that are `RECURSIVE`; `FewAnalyses` and `CoversRuns`, whose
back edges are found by a `RECURSIVE` search.

## 6. Values and users: UseDef

The IR keeps one relation three times: a user's `operands_`, a value's `users_`,
and, for a phi, `optional_values`. `UseDef` has the three as variables (operands as
a bag: an operand may occur several times and the order plays no part) and one
action per operation of `Value.cpp`, `Value.h` and of the phi in `Instruction.cpp`:
`GiveOperand` (what a `create` does), `ModifyOperand`, `ReplaceByNewValue`,
`ClearOperands`, `CreatePhi`, `SetOptionalValue`, `RemoveOptionalValue`. Passes
may call them in any order, so `Next` is any of them on any arguments the code
accepts. A phi may be an operand of a phi; a block may be renamed to one that is
already a key, which overwrites that option as `Phi::modify_operand` does.

Run `use_def`: two blocks, an instruction and a phi, either of which may read both;
the blocks are symmetric; each value at most `MaxUses` = 2 times among the operands of a
user, the least with which one occurrence can go while another stays.
`UsersSound`: a user a value knows reads it. `OptionsAreOperands`: the options of
a phi are among its operands, as often. `KnownBlocksAreKeys`: `log_error("Phi
operand not found")` is never reached. `UsersLostTwoWays` and
`ReplacedEverywhere` are about steps: only two operations make a value forget a user that
still reads it, and the replacement of a value by another one leaves nothing behind in
the users it knows. The two operations are these. `replace_by_new_value` of a value by
itself gives every operand back and then clears `users_` (`Value.cpp:37-53`); nothing in the
code stops a caller from it. And
`User::remove_operand` takes one occurrence of a value out of `operands_` and then the
user from the value altogether (`Value.cpp:93`), so a phi that takes a value from two
predecessors and loses one is no longer its user, and a later replacement passes it by.

`UseDef_proofs` proves all six for any sets of values, users, phis and blocks
(`ValueAssumption`). The invariant is the conjunction of the four state
properties: a replacement keeps the options in step only because the
users are sound and the blocks known to a value are keys of the phi.

## 7. Control-flow simplification: MirCode, SimplifyControlFlow

`MirCode` has functions as the pass sees them (an ordered list of blocks, each with
its phis, instructions and terminator) and runs them: `RunOf` is what a function
shows and returns on an input, visiting at most `Fuel` blocks. Four operations
stand for all others; "not" is the one that folds when its argument is a constant.

| code | model |
|---|---|
| `func->get_blocks()`, instructions, `is_deleted` | `func.blocks`, `func.code`, `func.deleted` |
| users a phi's value has forgotten (section 6) | `func.forgotten` |
| `cfg_info` and its dirty flag | `cfg_info` |
| the copies of `run_on_func` | `predecessors`, `successors` |
| `graph_modified`, `changed`, `modified`, `changed` of `transform` | `graph_modified`, `changed`, `modified`, `again` |
| one block in `fold_redundant_branch`, `combine_blocks`, `remove_empty_blocks`, `hoist_branch` | `FoldBranch`, `CombineBlocks`, `RemoveEmptyBlock`, `HoistBranch` |
| one instruction in `try_constant_fold`, one phi in `cleanup_phi` | `FoldInstruction`, `CleanPhi` |
| the ends of the loops, `remove_deleted_blocks`, `remove_unreachable_blocks` | `EndFold`, `EndRemovingLoop`, `EndRefold`, `NextRound`, `EndRun`, `TransformAgain`, `Finish` |

A loop comes to the next block that satisfies its conditions, in the order of the
list; the ones it passes over are left as they are. `pc = "crashed"` is an
exception or `log_error`, `"hung"` a merge that never ends.

| run | functions | shows |
|---|---|---|
| `simplify_control_flow` | `ManyFunctions`: all 3601 of an entry and two blocks, with every pair of ends (return, jump, branch on 1, on an input, on a computed value) and every choice of setting, showing or ignoring a variable; those of an entry and three blocks, branches on 1 or on an input, whose blocks all reach a return; a chain whose branch is hoisted; the same chain with a hoisted branch whose condition then gets constant (`HoistedBefore`); and a branch whose targets become equal and whose condition becomes constant in one round (`Rejoined`) | `TypeOK`, `SameRuns`, `CopiesFollowGraph`, `PhisCoverPredecessors`, `Terminates`, `TakenEdgesKept` |
| `simplify_failures` | the first family, and the chain whose target becomes empty | finding: `NeverFails` |

Bounds. The functions have the variable in SSA form, so every join has a phi. Two
blocks give every shape of loop and of branch, three give empty blocks with several
predecessors and the phis that stand in the way. `Fuel` = 12 goes round every loop
three times; two runs that are both cut short must have shown the same so far.
Branches on a constant have two different targets in the given functions: the
first thing the pass does is to fold them.

Fairness: `WF_vars(Next)`; the pass is one loop that nothing interrupts.
`Terminates` asks for loops with exits because of finding 3, and deadlock is not
checked: the pass ends.

### Proofs (`SimplifyControlFlow_proofs`)

For every set of well-formed functions of any size, any inputs and any fuel, and the four
loops repeated any number of times:

* `CopiesAreMaintained`: `Spec => []CopiesFollowGraph`;
* `PhisKeepTheirPredecessors`: `Spec => []PhisCoverPredecessors`;
* `SimplifiedStaysWellFormed`: `Spec => []TypeOK`;
* `NoTakenEdgeIsErased`: `Spec => TakenEdgesKept`.

The proof keeps two levels apart. An operation on the code says of a block where it goes and
for which blocks its phis have options (`Follows`, `EndsLike`): users that were forgotten,
values and opcodes are gone from there on. What is left of a function is a graph: live blocks,
the targets of each, the key sets of its phis (`Sound`). A merge, a bypass and a hoist are
steps of that graph (`GraphMerged`, `GraphBypassed`, `GraphHoisted`), and the same steps are
taken by the maps (`CopiesMerged`, `CopiesBypassed`, `CopiesHoisted`).

`CopiesFollowGraph` is not inductive. `IInv` adds:

* `FunctionSound`: instructions over the blocks of the function; every live block has an end and
  goes to live blocks, and its phis cover its predecessors;
* `MarkedOnly`: blocks marked as deleted are in the list only until the end of the loop that
  marked them, so `remove_unreachable_blocks`, which does not ask for the mark, meets none;
* `CopiesMirror`: the copies know every live block and, of the live ones, name exactly its
  neighbours. The predecessors may have more blocks in them: `hoist_branch` leaves the hoisted one
  (finding 3). What a merge or a bypass does must be right with such a block in the set;
* `AnalysisCovers`: `cfg_info` may be from before the pass, because folding a branch does not
  set `graph_modified`; it then has every predecessor there is, and perhaps more, so `cleanup_phi` removes no
  option that is needed. (That it leaves some that are not is finding 4.)

One step needs more than the graph. When `fold_redundant_branch` folds a branch on a
constant it erases the target that was not chosen from the copies without asking whether it is the
block that was chosen ("手动更新", line 212); a branch on a constant with two equal targets
would lose the edge it keeps, and a later `combine_blocks` could merge a block that has another
predecessor. `BranchesApart` is why this does not happen: before the first loop no branch on a constant has
two equal targets; the loop folds every constant and every pair; merging, bypassing and
hoisting make targets equal, but no condition constant, because they only replace phis by
their options; the second fold removes the equal targets before `try_constant_fold` makes
conditions constant. `TakenEdgesKept` is that as a property of steps, and its mutant drops the
case of equal targets from `Redundant`; the function `Rejoined` shows it.

Assumptions. `SourcesAssumption` (`WellFormed`), which TLC evaluates: a function is as the builder and
the passes before make it. Two conjuncts carry `BranchesApart` and are facts of the
code. No branch tests a phi: `Branch::create` wants a condition of type `i1`
(`Instruction.cpp:197`), and phis have the type of a variable, `int` or `float`
(`Mem2Reg.cpp:47`), or of a function's result. And a branch on a constant has two
different targets: `Builder.cpp:658` and `:662` branch to two different blocks, and the pass
itself leaves no branch with equal ones behind.
Without the first the invariant fails: given a function in which a merge turns a
tested phi into a constant, TLC finds `SameRuns` violated; it is not a function the compiler can make.

Only model-checked: `SameRuns`, which compares runs computed by folds over the code, and
`Terminates`, which is liveness.

## 8. From the program to the back end: Pipeline

`Pipeline` compiles: its state is a program (`source`), what the program means
(`meaning`), the level, the module of the intermediate representation and the passes that
follow. `Build` is `Builder::visit`, and then there is one action per pass of
`execute_O0_passes` and `execute_O1_passes`, each a translation of the pass's `transform`:

| module | code |
|---|---|
| `MirValues`, `Mir` | types, constants, casts, instructions, modules; `RunModule` gives them a meaning |
| `Ast` | the classes of `AST.h`; the four chains of binary expressions are one |
| `Builder` | `Builder.cpp`, `Symbol.cpp`, `Init.cpp`, `Eval.cpp`, `Cast.cpp`: scopes, conversions, constant evaluation, conditions, loops, array initializers |
| `DominanceGraph` | `ControlFlowGraph.cpp`, `DominanceGraph.cpp`: dominators by iteration, Lengauer and Tarjan's tree with path compression, frontiers |
| `FunctionAnalysis` | call graph, attributes, their way to the callers |
| `Mem2Reg` | phi placement and renaming, one slot after the other |
| `LocalValueNumbering`, `SimplifyInstructions` | folding, numbering, `DeadInstEliminate`; `AlgebraicSimplify` on instructions, with the identities of section 5 |
| `DeadCode`, `LoadStoreElimination`, `Localize`, `Inlining`, `ConstexprEval` | the passes of these names; `DeadCode` is `DeadCodeEliminate` and `DeadFuncEliminate`, `Localize` `GepFolding` and both localizations |
| `ControlFlow` | `SimplifyControlFlow` as one step |
| `RemovePhi` | grouping of the copies, critical edges, the order of the moves, the lookup that throws |

The builder's and the passes' objects become records: the builder's state is passed
from visit to visit; a function has its blocks in order and the instructions of each; use
lists are read off the code, where they are exact (section 6 is about where they are
not). Unordered containers of blocks are visited by number: the orders that matter are
the subject of sections 3, 4 and 6. `Rescue` is the `catch` of `Manager.cpp:13`: the functions before
the one with too many scalars are promoted, two passes follow, and phis are not removed.
`Abort` is the exception nobody catches in `RemovePhi`, and the end of the compiler inside the
interpreter: the `abort()` in `Load::do_interpret` and the others that need memory
(`Interpreter.cpp:83-125`) is the C library's, since `Interpreter::abort`, which throws, is not in scope
there. The program `HandsOver` gets there at O0. `ControlFlow` and
`SimplifyControlFlow` are two models of one pass: the second has every loop and hand-kept
copy as state; the first is what it makes of a function, small enough to be one step of a
pipeline, and cleans phis with the graph from before exactly when the code does.

`Sysy` is the reference: what a program of the language shows and returns, written from
the language's rules and not from the compiler. It is the only part of the project that
does not translate code, so a mistake of the builder and the same mistake in the model
of it do not hide one another.

Properties of the run `pipeline`, after every pass:

* `SameBehaviour`: the module reads, shows and returns what the program does, after every pass
  that ends (a pass that ends the compiler, `Abort`, hands nothing on). This one
  property says of every pass, in every place of both pipelines, that it is correct on
  what the passes before it leave.
* `WellFormed`: static single assignment form: terminators end blocks, types fit, a name
  has one definition, on every path before its uses, and a phi an option for each
  predecessor.
* `TreeOfDominators`, `FrontierEndsDominance`: what the graph algorithms compute for the
  functions that occur is what the paths of the functions say.
* `EffectsReachCallers`: a function has the attributes of all it may get to.

Bounds. `MCPrograms` has families of programs, about three hundred in all: two control
statements after one another with breaks, continues and early returns; every two of
eleven statements on arrays, globals and functions that take arrays, with constant
and variable indices; every two of nine statements with recursion, loops and inlined
functions; and programs for floats, whole arrays, short circuits, scopes and too many
scalars. Two statements in a row are what the passes that remember something (value
numbering, load and store elimination) need, and the statement inside a condition is
what they must forget. `MCInputs`: inputs that take each branch. `SourceFuel` = 12
iterations and calls of the program, `ModuleFuel` = 100 blocks; programs that need more
have no `meaning` to compare with. `MaxAllocs` = 4 stands for 1000 and `counter_limit` = 40 for 20000, so
that both limits are met. Numbers stay small and floats are numbers of halves:
wrapping and rounding are not looked at here (section 5 looks at wrapping). Deadlock is not
checked: a compilation ends. There is no liveness property: one state has one successor
and the list of passes gets shorter.

### Programs the compiler gets wrong

`SameBehaviour` holds of the programs of the run. The model, being the code's, does not
keep the behaviour of some others, and these shapes are kept out of `MCPrograms`. Except
where noted, each was confirmed with the compiler built from `src/`:

* `x % x`, `(-x) / x`, `x - x < y`, `(x * 3) / 0` (section 5);
* a store through an array parameter in a callee is recorded for the address computed
  for the call and not for the array (`FunctionAnalysis.cpp:22`), so `LoadEliminate` keeps
  what it knew of the array across some calls;
* a store at a constant index keeps what is known at variable indices
  (`LoadEliminate.cpp:61`), and a load at a constant index keeps the stores at variable
  ones removable (`StoreEliminate.cpp:21`);
* one array passed for two parameters;
* `StoreEliminate::handle_call` ignores callees that only read, and `putarray`;
* functions without state of their own that hand on a global array (run `stateless`);
* arrays of three dimensions: `GepFolding` folds what it has folded;
* `ConstexprFuncEval` divides by a constant 0 of a called function (a signal ends the compiler);
* the branch folded late that leaves a phi option (run `phi_removal`), and phis left by
  the rescue path when there are some in a promoted function: the LIR has no case for them (`LIR.h:454`);
* initializers of local arrays that read input are visited twice, and the input is read
  twice; `+f` truncates a float; a local `float` array initialized with integer
  quotients divides integers; `if (f)` with a float ends in `log_error`; the literal 2147483648 throws.

### Proofs

Nothing is proved of section 8. What the passes compute is defined by `RECURSIVE`
operators over trees, code and graphs, which the provers do not take, and the properties
rest on runs of any length. Sections 3 to 6 are the ones with proofs. Of all
components liveness under fairness (`Terminates`) and `ENABLED` stay with TLC.

## Findings

1. `large_frame`: with a frame beyond 12 bits, `StoreRA` builds the address of
   the return address in `t0` at the end of the entry block, after the parameter
   moves, although `t0` is allocatable; a parameter coloured `t0` and not live
   across a call is lost.
2. `div_const_small_multiplier`: the comments of `Arithmetic.cpp` ask for arithmetic
   shifts; `SHIFT_RIGHT` is translated to `srli`, and the quotient of a negative
   dividend is wrong as soon as the small multiplier needs a shift. Powers of two
   leave the right low word (`LowWordWithPowerOf2`) in a register that is not
   sign-extended, though the comment of line 271 ends in `sraiw`.
3. `simplify_failures`: a block that jumps to itself and has no other predecessor is
   merged with itself for ever; one that is empty and reachable
   (`int main() { while (1) {} }`) ends the compiler with `std::out_of_range`. Both
   were seen with the compiler built from `src/`. A third way to fail is in the
   functions of the run: `hoist_branch` leaves the hoisted block among the
   predecessors of its targets; when such a target is removed in a later round,
   `successors.at` throws (`Chain(<<>>)`).
4. `phi_removal`: folding a branch does not set `graph_modified`, so phis are cleaned
   with the graph from before and keep options of blocks that are then deleted; `RemovePhi`
   looks such a block up with `at()`. The compiler built from `src/` aborts on the
   program of the run, `if (x && a[0]) y = 2;` where `a[0]` was just set to 0, at O0 and O1.
5. `stateless`: `no_state` does not follow calls, so a function that hands a global
   array to one that reads it is taken to be independent of memory, and two calls of it
   become one although the array changed in between. At O0 one call is enough: the interpreter is asked
   what it returns and ends the compiler (SIGABRT). Both were seen with the compiler.

## Not modelled

* Text in and out: lexer, parser, assembly printing, data section, logging, driver. The
  parser is sequential and keeps one position; `Ast` has the classes of its trees.
* `ConstrainReduce` and `BlockPositioning` of the O1 pipeline, with the branch
  probabilities. The interval analysis it was written for is in section 5, but the pass does not get it.
  (`ConstrainReduce` drops the edge of a branch it decides and leaves the option of the
  phis behind: seen with the compiler.)
* The lowering from MIR to LIR, the frame in bytes, the peephole optimizer and the
  printing of instructions: each depends on the exact instruction sequences the
  models of the back end abstract from.
* The passes no pipeline runs, among them all loop passes, `TailCallOptimize` and `SROA`.
* The components marked `partly` say in `PROJECT.json` what is missing.
