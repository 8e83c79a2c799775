------------------------------ MODULE LirCode ------------------------------
(***************************************************************************)
(* LIR functions of the RISC-V backend, as the register allocator sees     *)
(* them: blocks of instructions that define at most one variable and use   *)
(* some, the backward liveness equations, the interference relation read   *)
(* off them, and the rewritings the allocator makes (parameter and call    *)
(* moves, callee-saved copies, spill code, far-slot addresses).            *)
(*                                                                         *)
(* One register class is modelled: the integer allocator (GraphColoring)   *)
(* and the floating-point one (FGraphColoring) run this same code on       *)
(* disjoint variables.  An instruction keeps its def, its uses in order    *)
(* and the stack object it addresses; opcodes, immediates and types are    *)
(* abstracted to the distinction the allocator makes.                      *)
(***************************************************************************)
EXTENDS Integers, Sequences, FiniteSets, SequencesExt, TLC

CONSTANTS
  Registers,    \* available_colors: the allocatable registers, in order of preference
  CallerSaved,  \* registers a call may overwrite
  CalleeSaved,  \* sequence of the registers a function must hand back unchanged
  ArgRegs,      \* a0.. : registers of the first arguments; the first is the result
  NearSlots,    \* number of stack objects within a 12-bit offset of sp
  None          \* "no variable", "no register"

Reg == ToSet(Registers)

ASSUME RegisterAssumption ==
  /\ IsInjective(Registers) /\ Registers \in Seq(Reg)
  /\ ArgRegs \in Seq(Reg) /\ ArgRegs # <<>>
  /\ CalleeSaved \in Seq(Reg)
  /\ CallerSaved \subseteq Reg
  /\ None \notin Reg

(***************************************************************************)
(* Instructions.  `id` names the instruction of the source function the    *)
(* instruction comes from, 0 for the ones the allocator inserts.           *)
(***************************************************************************)
Instr(id, op, def, uses, mem) ==
  [id |-> id, op |-> op, def |-> def, uses |-> uses, mem |-> mem]

Move(to, from)   == Instr(0, "move", to, <<from>>, None)
Load(to, slot)   == Instr(0, "load", to, <<>>, slot)
Store(slot, val) == Instr(0, "store", None, <<val>>, slot)
LoadAddress(to, slot) == Instr(0, "lea", to, <<>>, slot)

\* The second variable of a parameter or a callee-saved register.
MemOf(v) == v \o "_mem"

Points(fn) == UNION {{b} \X DOMAIN fn.code[b] : b \in DOMAIN fn.code}

\* The instruction at a point.
At(fn, p) == fn.code[p[1]][p[2]]

Instructions(fn) == {At(fn, p) : p \in Points(fn)}

(***************************************************************************)
(* The functions the allocator is given: blocks of instructions over the   *)
(* variables and parameters of the function, none of which both defines    *)
(* and uses a variable: a value has one definition, except for the         *)
(* variables of phis, which only the moves of RemovePhi define.            *)
(***************************************************************************)
WellFormed(fn) ==
  LET variables == fn.locals \cup ToSet(fn.params)
  IN  /\ fn.code \in Seq(Seq(Instructions(fn))) /\ fn.code # <<>>
      /\ fn.succ \in [DOMAIN fn.code -> SUBSET DOMAIN fn.code]
      /\ fn.params \in Seq(ToSet(fn.params))
      /\ \A in \in Instructions(fn) :
           /\ in = Instr(in.id, in.op, in.def, in.uses, in.mem)
           /\ in.def \in variables \cup {None}
           /\ in.uses \in Seq(variables)
           /\ in.def \notin ToSet(in.uses)
      /\ None \notin variables \cup {MemOf(r) : r \in ToSet(CalleeSaved)}

-----------------------------------------------------------------------------
(* Liveness: Function::analyze_live_variables. *)

LiveBefore(in, live) == (live \ {in.def}) \cup ToSet(in.uses)

\* What is live after each of the instructions `is`, when `out` is live at the
\* end; entry 0 is what is live before the first one.
LiveWithin(is, out) ==
  LET f[i \in 0..Len(is)] ==
        IF i = Len(is) THEN out ELSE LiveBefore(is[i + 1], f[i + 1])
  IN  f

\* The least solution of the liveness equations: information travels along
\* acyclic paths, so as many rounds as there are blocks reach it.
LiveIn(fn) ==
  LET in[k \in 0..Len(fn.code)] ==
        IF k = 0 THEN [b \in DOMAIN fn.code |-> {}]
        ELSE LET before == in[k - 1]
             IN  [b \in DOMAIN fn.code |->
                    LiveWithin(fn.code[b], UNION {before[s] : s \in fn.succ[b]})[0]]
  IN  in[Len(fn.code)]

LiveOut(fn) ==
  LET in == LiveIn(fn)
  IN  [b \in DOMAIN fn.code |-> UNION {in[s] : s \in fn.succ[b]}]

LiveAfter(fn) ==
  LET out == LiveOut(fn)
  IN  [b \in DOMAIN fn.code |-> LiveWithin(fn.code[b], out[b])]

-----------------------------------------------------------------------------
(* The interference graph: build_interference_graph. *)

\* Mutant: a call destroys nothing.
ClobbersDefOnly(in, live, u, v) == u = in.def /\ u # None /\ v \in live \ {u}

\* Instruction `in` makes u conflict with v: it defines u while v stays live, or
\* it is a call across which v is live and u is a register the call may change.
Clobbers(in, live, u, v) ==
  \/ u = in.def /\ u # None /\ v \in live \ {u}
  \/ in.op = "call" /\ u \in CallerSaved /\ v \in live \ {in.def}

\* All the conflicts of fn, over every variable its instructions name.
Conflicts(fn) ==
  LET after == LiveAfter(fn)
      Named == Reg \cup fn.locals \cup
               UNION {after[p[1]][p[2]] : p \in Points(fn)}
  IN  {c \in Named \X Named :
         \E p \in Points(fn) :
            Clobbers(fn.code[p[1]][p[2]], after[p[1]][p[2]], c[1], c[2])}

\* non_move_related_neighbors right after the graph is built.
Interference(fn) ==
  LET conflicts == Conflicts(fn)
  IN  [u \in fn.locals |->
         {v \in fn.locals : \/ <<u, v>> \in conflicts
                            \/ <<v, u>> \in conflicts
                            \/ {u, v} \subseteq Reg /\ u # v}]

\* move_related_neighbors right after the graph is built: the two sides of a
\* move, unless they interfere.  No move has the same variable on both sides:
\* RemovePhi skips a phi that feeds itself, and the allocator's own moves join a
\* register and another variable.
MoveRelated(fn, adj) ==
  [u \in fn.locals |->
     {v \in fn.locals \ (adj[u] \cup {u}) :
        \E p \in Points(fn) :
           LET in == fn.code[p[1]][p[2]]
           IN  /\ in.op = "move"
               /\ \/ u = in.def /\ v \in ToSet(in.uses)
                  \/ v = in.def /\ u \in ToSet(in.uses)}]

\* Building looks up a node for every variable it meets; a variable that is
\* live but no longer kept in a register has none (a null node in the code).
MissingNode(fn) == \E c \in Conflicts(fn) : ~(ToSet(c) \subseteq fn.locals)

-----------------------------------------------------------------------------
(* Spill costs: calculate_spill_costs.  cost = 10 * access / range; two    *)
(* costs are compared by cross-multiplication.                             *)

Occurrences(s, v) == Cardinality({k \in DOMAIN s : s[k] = v})

SpillCosts(fn) ==
  LET flat == FlattenSeq(fn.code)
      Sites(v) == {i \in DOMAIN flat : flat[i].def = v \/ v \in ToSet(flat[i].uses)}
      Access(v) == FoldLeft(LAMBDA n, in : n + Occurrences(in.uses, v)
                                             + (IF in.def = v THEN 2 ELSE 0), 0, flat)
      Span(at) == IF at = {} THEN 1 ELSE Max(at) - Min(at) + 1
  IN  [v \in fn.locals |-> [access |-> Access(v), range |-> Span(Sites(v))]]

Cheaper(c, d) == c.access * d.range < d.access * c.range

-----------------------------------------------------------------------------
(* Rewritings.  fn.uid numbers the names the allocator invents.            *)

Fresh(prefix, n) == prefix \o ToString(n)

\* The next number when the code is rewritten in order and has come to p, if each of
\* `sites` takes one.
Number(fn, sites, p) ==
  fn.uid + Cardinality({q \in sites : q[1] < p[1] \/ (q[1] = p[1] /\ q[2] < p[2])})

\* fn with the instruction at every point replaced by a piece of code; each of `sites`
\* invents a variable.
Replaced(fn, prefix, sites, piece) ==
  [code |-> [b \in DOMAIN fn.code |->
               FlattenSeq([i \in DOMAIN fn.code[b] |-> piece[<<b, i>>]])],
   uid |-> fn.uid + Cardinality(sites),
   new |-> {Fresh(prefix, Number(fn, sites, p)) : p \in sites}]

Function(code, succ, params, locals, frame, uid) ==
  [code |-> code, succ |-> succ, params |-> params,
   locals |-> locals, frame |-> frame, uid |-> uid]

SpillSites(fn, v) ==
  {p \in Points(fn) : At(fn, p).def = v \/ v \in ToSet(At(fn, p).uses)}

\* Mutant: the uses of a spilled variable are left alone.
SpillDefsOnly(fn, v, p) ==
  LET in == At(fn, p)
      t  == Fresh("spill_", Number(fn, SpillSites(fn, v), p))
  IN  IF in.def = v THEN <<[in EXCEPT !.def = t], Store(v, t)>> ELSE <<in>>

\* Function::spill: a definition of v is followed by a store, a use preceded by
\* a load, each through a new short-lived variable.  An instruction that both
\* defines and uses v is taken by the first case only.
SpillPiece(fn, v, p) ==
  LET in == At(fn, p)
      t  == Fresh("spill_", Number(fn, SpillSites(fn, v), p))
  IN  CASE in.def = v -> <<[in EXCEPT !.def = t], Store(v, t)>>
        [] in.def # v /\ v \in ToSet(in.uses) ->
             <<Load(t, v), [in EXCEPT !.uses = ReplaceAll(@, v, t)]>>
        [] OTHER -> <<in>>

SpillStores(fn, v) ==
  Replaced(fn, "spill_", SpillSites(fn, v), [p \in Points(fn) |-> SpillPiece(fn, v, p)])

\* v then lives in the frame, no longer in a register.
SpillCode(fn, v) ==
  LET to == SpillStores(fn, v)
  IN  Function(to.code, fn.succ, fn.params,
               (fn.locals \cup to.new) \ {v}, Append(fn.frame, v), to.uid)

\* rewrite_large_offset: a load or store of a stack object too far from sp goes
\* through an address computed in a register of its own.  The last object added
\* to the frame is the nearest one.
Far(fn, slot) ==
  \E i \in DOMAIN fn.frame : fn.frame[i] = slot /\ Len(fn.frame) - i >= NearSlots

FarSites(fn) ==
  {p \in Points(fn) : At(fn, p).op \in {"load", "store"} /\ Far(fn, At(fn, p).mem)}

AddressPiece(fn, p) ==
  LET in   == At(fn, p)
      addr == Fresh("addr", Number(fn, FarSites(fn), p))
  IN  IF p \in FarSites(fn)
      THEN <<LoadAddress(addr, in.mem), Instr(in.id, in.op, in.def, <<addr>> \o in.uses, None)>>
      ELSE <<in>>

Addressed(fn) ==
  Replaced(fn, "addr", FarSites(fn), [p \in Points(fn) |-> AddressPiece(fn, p)])

\* Mutant: the frame is not looked at again once it holds a spilled variable.
RewriteBeforeSpills(fn) ==
  LET to == Addressed(fn)
  IN  IF Len(fn.frame) > Len(fn.params) THEN fn
      ELSE Function(to.code, fn.succ, fn.params, fn.locals \cup to.new, fn.frame, to.uid)

RewriteLargeOffset(fn) ==
  LET to == Addressed(fn)
  IN  Function(to.code, fn.succ, fn.params, fn.locals \cup to.new, fn.frame, to.uid)

-----------------------------------------------------------------------------
(* Entry block, parameters, calls and returns: create_entry_block,         *)
(* rewrite_parameters_i and create_registers.                              *)

\* The j-th parameter arrives in its register or in the caller's stack.
ParameterMove(fn, j) ==
  IF j <= Len(ArgRegs) THEN Move(fn.params[j], ArgRegs[j])
                       ELSE Load(fn.params[j], MemOf(fn.params[j]))

\* A call takes its arguments from the argument registers, the rest from stack
\* objects of its own, and leaves its result in the first one.
RewriteCall(in) ==
  LET Pass(j) == IF j <= Len(ArgRegs)
                 THEN Move(ArgRegs[j], in.uses[j])
                 ELSE Store(Fresh(Fresh("param", in.id) \o "_", j), in.uses[j])
      inRegs == IF Len(in.uses) < Len(ArgRegs) THEN Len(in.uses) ELSE Len(ArgRegs)
      call == Instr(in.id, in.op, IF in.def = None THEN None ELSE ArgRegs[1],
                    SubSeq(ArgRegs, 1, inRegs), in.mem)
  IN  [j \in DOMAIN in.uses |-> Pass(j)] \o <<call>> \o
      (IF in.def = None THEN <<>> ELSE <<Move(in.def, ArgRegs[1])>>)

\* Mutant: the callee-saved registers are not copied back.
ReturnValueOnly(in) ==
  (IF in.uses = <<>> THEN <<>> ELSE <<Move(ArgRegs[1], in.uses[1])>>) \o
  <<[in EXCEPT !.uses = IF @ = <<>> THEN <<>> ELSE <<ArgRegs[1]>>]>>

\* A return moves its value to the result register, then every callee-saved
\* register is copied back.
RewriteReturn(in) ==
  (IF in.uses = <<>> THEN <<>> ELSE <<Move(ArgRegs[1], in.uses[1])>>) \o
  [k \in DOMAIN CalleeSaved |-> Move(CalleeSaved[k], MemOf(CalleeSaved[k]))] \o
  <<[in EXCEPT !.uses = IF @ = <<>> THEN <<>> ELSE <<ArgRegs[1]>>]>>

RewriteInstruction(in) ==
  CASE in.op = "call" -> RewriteCall(in)
    [] in.op = "ret"  -> RewriteReturn(in)
    [] in.op \notin {"call", "ret"} -> <<in>>

\* The block in front of the function: the callee-saved copies, in reverse, then
\* the parameters.
EntryBlock(fn) ==
  [k \in DOMAIN CalleeSaved |->
     LET r == CalleeSaved[Len(CalleeSaved) + 1 - k] IN Move(MemOf(r), r)]
  \o [j \in DOMAIN fn.params |-> ParameterMove(fn, j)]

CreateRegisters(fn) ==
  LET body == [b \in DOMAIN fn.code |->
                 FlattenSeq([i \in DOMAIN fn.code[b] |-> RewriteInstruction(fn.code[b][i])])]
  IN  Function(<<EntryBlock(fn)>> \o body,
               <<{2}>> \o [b \in DOMAIN fn.succ |-> {s + 1 : s \in fn.succ[b]}],
               fn.params,
               fn.locals \cup ToSet(fn.params) \cup Reg
                         \cup {MemOf(r) : r \in ToSet(CalleeSaved)},
               [j \in DOMAIN fn.params |-> MemOf(fn.params[j])],
               0)
=============================================================================
