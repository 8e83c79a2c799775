--------------------------- MODULE GraphColoring ---------------------------
(***************************************************************************)
(* The graph-colouring register allocator (GraphColoring::allocate): build *)
(* the interference graph, then simplify, coalesce, freeze and pick spill  *)
(* candidates, each phase only when the ones before it have nothing to do; *)
(* then pop the stack and colour.  A node that finds no colour is spilled  *)
(* to the frame and everything starts again on the rewritten function.     *)
(*                                                                         *)
(* The graph lives in hash maps and sets ordered by address: where the     *)
(* code takes the first node that qualifies, the model takes any.          *)
(***************************************************************************)
EXTENDS LirCode

CONSTANT
  Functions,  \* the functions the allocator is run on, before any rewriting
  Programs    \* names of those functions: DOMAIN Functions

ASSUME FunctionAssumption == \A p \in Programs : WellFormed(Functions[p])

VARIABLES
  fn,       \* lir_function
  keys,     \* names in interference_graph; a coalesced node loses its entry
  adj,      \* non_move_related_neighbors
  mov,      \* move_related_neighbors
  coal,     \* coalesced: the nodes a node stands for, besides itself
  stacked,  \* nodes pushed on the stack (is_spilled)
  color,    \* color, None while is_colored is false
  stack,    \* simplify_stack; the top is the last element
  pc,       \* where allocate() is
  varToReg  \* var_to_reg

graph == <<keys, adj, mov, coal>>
vars  == <<fn, keys, adj, mov, coal, stacked, color, stack, pc, varToReg>>

K == Len(Registers)

Active == keys \ stacked
Degree(n) == Cardinality(adj[n])
Uncolored(n) == color[n] = None

Members(n) == {n} \cup coal[n]

-----------------------------------------------------------------------------
Init ==
  /\ \E p \in Programs : fn = CreateRegisters(Functions[p])
  /\ keys = {} /\ adj = <<>> /\ mov = <<>> /\ coal = <<>> /\ stacked = {}
  /\ color = <<>> /\ stack = <<>> /\ varToReg = <<>>
  /\ pc = "build"

\* build_interference_graph: the far slots are rewritten first, then one node is
\* made for every variable kept in a register.  A variable that is live without
\* being one has no node, and the code dereferences null.
BuildGraph ==
  /\ pc = "build"
  /\ fn' = RewriteLargeOffset(fn)
  /\ keys' = fn'.locals
  /\ adj' = Interference(fn')
  /\ mov' = MoveRelated(fn', adj')
  /\ coal' = [n \in fn'.locals |-> {}]
  /\ color' = [n \in fn'.locals |-> IF n \in Reg THEN n ELSE None]
  /\ stacked' = {}
  /\ pc' = IF MissingNode(fn') THEN "crashed" ELSE "select"
  /\ UNCHANGED <<stack, varToReg>>

-----------------------------------------------------------------------------
(* The four phases of one round of the selection loop. *)

\* Push n: its neighbours forget it, it remembers them.
Push(n) ==
  /\ stack' = Append(stack, n)
  /\ stacked' = stacked \cup {n}

\* Mutant: the neighbours of a pushed node keep it.
ForgottenByNone(n, who, edges) == edges

ForgottenBy(n, who, edges) ==
  [x \in DOMAIN edges |-> IF x \in who THEN edges[x] \ {n} ELSE edges[x]]

\* Mutant: a register may be simplified like any node.
CanSimplifyRegister(n) == n \in Active /\ Degree(n) < K /\ mov[n] = {}

CanSimplify(n) ==
  n \in Active /\ Uncolored(n) /\ Degree(n) < K /\ mov[n] = {}

\* simplify_phase, one iteration.
Simplify(n) ==
  /\ pc = "select"
  /\ CanSimplify(n)
  /\ Push(n)
  /\ adj' = ForgottenBy(n, adj[n], adj)
  /\ UNCHANGED <<fn, keys, mov, coal, color, pc, varToReg>>

\* can_coalesce_briggs: fewer than K neighbours of the merged node would keep a
\* degree of K or more; a neighbour of both counts one edge less.
CanCoalesce(n1, n2) ==
  LET High(m) == IF {n1, n2} \subseteq adj[m] THEN Degree(m) >= K + 1
                                              ELSE Degree(m) >= K
  IN  Cardinality({m \in adj[n1] \cup adj[n2] : High(m)}) < K

\* Mutant: the neighbours of n2 are not told of n1.
MergeOneWay(n1, n2) ==
  /\ keys' = keys \ {n2}
  /\ coal' = [coal EXCEPT ![n1] = @ \cup Members(n2)]
  /\ adj' = [adj EXCEPT ![n1] = @ \cup adj[n2]]
  /\ mov' = [x \in DOMAIN mov |-> mov[x] \ {n2}]

\* operator+=: n1 takes over the edges and the members of n2, which leaves the
\* map.  A move to a neighbour of n1 is dropped, a neighbour of n2 stops being
\* move-related to n1.
MergeInto(n1, n2) ==
  LET moved == {m \in mov[n2] \ {n1} : m \notin adj[n1]}
  IN  /\ keys' = keys \ {n2}
      /\ coal' = [coal EXCEPT ![n1] = @ \cup Members(n2)]
      /\ adj' = [x \in DOMAIN adj |->
                   IF x = n1 THEN adj[n1] \cup adj[n2]
                   ELSE IF x \in adj[n2] THEN (adj[x] \ {n2}) \cup {n1}
                   ELSE adj[x]]
      /\ mov' = [x \in DOMAIN mov |->
                   IF x = n1 THEN ((mov[n1] \ {n2}) \cup moved) \ adj[n2]
                   ELSE ((IF x \in mov[n2] THEN mov[x] \ {n2} ELSE mov[x])
                          \cup {n1 : y \in moved \cap {x}})
                        \ {n1 : y \in adj[n2] \cap {x}}]

\* coalesce_phase: the coloured node of the two survives.
Coalesce(n, m) ==
  /\ pc = "select"
  /\ \A x \in Active : ~CanSimplify(x)
  /\ n \in Active
  /\ m \in mov[n]
  /\ CanCoalesce(n, m)
  /\ IF Uncolored(m) THEN MergeInto(n, m) ELSE MergeInto(m, n)
  /\ UNCHANGED <<fn, stacked, color, stack, pc, varToReg>>

NothingToCoalesce ==
  \A x \in Active : ~CanSimplify(x) /\ \A y \in mov[x] : ~CanCoalesce(x, y)

CanFreeze(n) == n \in Active /\ Uncolored(n) /\ Degree(n) < K /\ mov[n] # {}

\* Mutant: the frozen node keeps its own list of moves.
FreezeOneSide(n) ==
  /\ pc = "select"
  /\ NothingToCoalesce
  /\ CanFreeze(n)
  /\ mov' = ForgottenBy(n, mov[n], mov)
  /\ UNCHANGED <<fn, keys, adj, coal, stacked, color, stack, pc, varToReg>>

\* freeze_phase: give up the moves of one node of low degree.
Freeze(n) ==
  /\ pc = "select"
  /\ NothingToCoalesce
  /\ CanFreeze(n)
  /\ mov' = [ForgottenBy(n, mov[n], mov) EXCEPT ![n] = {}]
  /\ UNCHANGED <<fn, keys, adj, coal, stacked, color, stack, pc, varToReg>>

SpillCandidates == {n \in Active : Uncolored(n)}

\* spill_phase: push the cheapest node, in the hope that a colour is left for it.
SelectSpill(n) ==
  /\ pc = "select"
  /\ NothingToCoalesce
  /\ \A x \in Active : ~CanFreeze(x)
  /\ n \in SpillCandidates
  /\ LET costs == SpillCosts(fn)
     IN  \A x \in SpillCandidates : ~Cheaper(costs[x], costs[n])
  /\ Push(n)
  /\ mov' = ForgottenBy(n, mov[n], mov)
  /\ adj' = ForgottenBy(n, adj[n], adj)
  /\ UNCHANGED <<fn, keys, coal, color, pc, varToReg>>

-----------------------------------------------------------------------------
(* assign_colors. *)

\* With every node pushed, the nodes coalesced with a register take its colour.
StartAssign ==
  /\ pc = "select"
  /\ NothingToCoalesce
  /\ SpillCandidates = {}
  /\ color' = [x \in DOMAIN color |->
                 IF \E r \in Reg : x \in coal[r]
                 THEN CHOOSE r \in Reg : x \in coal[r]
                 ELSE color[x]]
  /\ pc' = "assign"
  /\ UNCHANGED <<fn, graph, stacked, stack, varToReg>>

\* Mutant: only the registers among the neighbours count.
UsedRegisters(n) == adj[n] \cap Reg

\* used_colors of the popped node.
UsedColors(n) == {color[x] : x \in adj[n]} \ {None}

Top == Last(stack)

\* The first register of available_colors none of the neighbours has.
AssignColor(i) ==
  /\ pc = "assign" /\ stack # <<>>
  /\ i \in 1..K
  /\ Registers[i] \notin UsedColors(Top)
  /\ \A j \in 1..(i - 1) : Registers[j] \in UsedColors(Top)
  /\ color' = [x \in DOMAIN color |->
                 IF x \in Members(Top) THEN Registers[i] ELSE color[x]]
  /\ stack' = Front(stack)
  /\ UNCHANGED <<fn, graph, stacked, pc, varToReg>>

\* None is left: spill the popped variable, forget the stack and start again.
ActualSpill ==
  /\ pc = "assign" /\ stack # <<>>
  /\ Reg \subseteq UsedColors(Top)
  /\ fn' = SpillCode(fn, Top)
  /\ stack' = <<>>
  /\ pc' = "build"
  /\ UNCHANGED <<graph, stacked, color, varToReg>>

\* Mutant: the members of a node get no register.
AllocateNodesOnly ==
  /\ pc = "assign" /\ stack = <<>>
  /\ varToReg' = [x \in {k \in keys : ~Uncolored(k)} |-> color[x]]
  /\ pc' = "done"
  /\ UNCHANGED <<fn, graph, stacked, color, stack>>

\* __allocate__: publish the colour of every node and of its members.
Allocate ==
  /\ pc = "assign" /\ stack = <<>>
  /\ LET Owner(x) == CHOOSE n \in keys : x \in Members(n)
         Colored == UNION {Members(n) : n \in {k \in keys : ~Uncolored(k)}}
     IN  varToReg' = [x \in Colored |-> color[Owner(x)]]
  /\ pc' = "done"
  /\ UNCHANGED <<fn, graph, stacked, color, stack>>

-----------------------------------------------------------------------------
Next ==
  \/ BuildGraph
  \/ \E n \in keys : Simplify(n) \/ Freeze(n) \/ SelectSpill(n)
  \/ \E n \in keys : \E m \in mov[n] : Coalesce(n, m)
  \/ StartAssign
  \/ \E i \in 1..K : AssignColor(i)
  \/ ActualSpill
  \/ Allocate

Spec == Init /\ [][Next]_vars
\* allocate() is one sequential loop: it takes a step whenever it can.
FairSpec == Spec /\ WF_vars(Next)

-----------------------------------------------------------------------------
(* Properties. *)

\* The shape of the allocator's state: a node for every register, none for a
\* variable the function lost, registers never pushed, every edge and move between
\* variables of the function.
TypeOK ==
  /\ Reg \subseteq fn.locals
  /\ pc \in {"build", "select", "assign", "done", "crashed"}
  /\ pc # "build" =>
       /\ Reg \subseteq keys /\ keys \subseteq fn.locals
       /\ adj  \in [fn.locals -> SUBSET fn.locals]
       /\ mov  \in [fn.locals -> SUBSET fn.locals]
       /\ coal \in [fn.locals -> SUBSET fn.locals]
       /\ stacked \subseteq keys \ Reg
       /\ color \in [fn.locals -> Reg \cup {None}]
       /\ stack \in Seq(stacked)

\* The allocation never leaves two variables that interfere in one register:
\* whenever both have a colour, the colours differ.
ProperColoring ==
  pc \in {"assign", "done"} =>
    LET conflicts == Interference(fn)
    IN  \A u \in fn.locals : \A v \in conflicts[u] \ {u} :
          ~Uncolored(u) /\ ~Uncolored(v) => color[u] # color[v]

\* Every variable kept in a register has one when the allocator returns.
EveryVariablePlaced ==
  pc = "done" => DOMAIN varToReg = fn.locals /\ None \notin {varToReg[v] : v \in fn.locals}

\* Whatever was spilled before, build_interference_graph finds a node for every
\* variable it meets.
NoNullNode == pc # "crashed"

\* The frame grows with every spill and moves the older stack objects away from
\* sp: at the end each load and store still reaches the object it names.
SlotsInReach ==
  pc = "done" =>
    \A p \in Points(fn) :
      LET in == fn.code[p[1]][p[2]]
      IN  in.op \in {"load", "store"} /\ in.mem # None => ~Far(fn, in.mem)

\* allocate() implements RegisterAllocation: the whole graph machinery only ever
\* rewrites far slots, moves a variable to the frame, or ends with an allocation
\* that is sound for the function as it then is.
Promise == INSTANCE RegisterAllocation WITH
  alloc <- varToReg,
  Start <- {CreateRegisters(Functions[p]) : p \in Programs},
  Addressed <- RewriteLargeOffset,
  Spilled <- SpillCode,
  Neighbours <- Interference
KeepsPromise == Promise!Spec

\* The loop of allocate() ends: it does not keep spilling what it has spilled.
Terminates == <>(pc = "done")
=============================================================================
