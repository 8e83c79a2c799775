--------------------------- MODULE AllocatedCode ---------------------------
(***************************************************************************)
(* The allocator followed by a run of the code it produces: the function   *)
(* as it was given, over variables, and as it was rewritten, over the      *)
(* physical registers and the stack frame, are executed side by side.  It  *)
(* checks the allocator as a whole: liveness, interference, colouring,     *)
(* spill code, far slots, parameter and call moves, callee-saved copies.   *)
(*                                                                         *)
(* A value is a token that says where it was made; an instruction that is  *)
(* no move makes a new one, so two values agree only if the same execution *)
(* of the same instruction made them.  The rewritten code keeps the        *)
(* instructions of the source, recognised by their id; the ones with id 0  *)
(* are the allocator's.                                                    *)
(***************************************************************************)
EXTENDS GraphColoring

CONSTANTS
  MaxValues,  \* bound on the values made in one run, for loops
  Scratch     \* t0, which the prologue uses when the frame is large

VARIABLES
  prog,   \* the function that was given
  at,     \* <<block, index>> of the next instruction of the rewritten code
  env,    \* value of each variable of the source
  regs,   \* value of each physical register
  mem,    \* value of each stack object
  made    \* number of values made so far

exec == <<prog, at, env, regs, mem, made>>

\* The variables that keep the caller's values of the callee-saved registers.
Copies == {MemOf(r) : r \in ToSet(CalleeSaved)}

ASSUME CallingConvention ==
  /\ IsInjective(ArgRegs) /\ IsInjective(CalleeSaved)
  /\ ToSet(ArgRegs) \cap ToSet(CalleeSaved) = {}
  /\ \A r, s \in ToSet(CalleeSaved) : MemOf(r) = MemOf(s) => r = s
  /\ Scratch \in Reg \ ToSet(CalleeSaved)

\* What the code generator sees to: instructions are told apart, a block jumps or
\* returns at its end and only there, nothing is read before it is written, and no
\* variable has the name of a register or of its copy.
Runnable(f) ==
  LET variables == f.locals \cup ToSet(f.params)
  IN  /\ \A p, q \in Points(f) : At(f, p).id = At(f, q).id => p = q
      /\ \A p \in Points(f) :
           LET in == At(f, p)
           IN  /\ in.id # 0
               /\ in.op \in {"op", "move", "call", "branch", "ret"}
               /\ in.op \in {"branch", "ret"} <=> p[2] = Len(f.code[p[1]])
               /\ in.op \in {"branch", "ret"} => in.def = None
               /\ in.op = "ret" => Len(in.uses) <= 1
               /\ in.op = "move" => in.def # None /\ Len(in.uses) = 1
      /\ LiveIn(f)[1] \subseteq ToSet(f.params)
      /\ IsInjective(f.params)
      /\ variables \cap (Reg \cup Copies) = {} /\ Copies \cap Reg = {}

ASSUME RunAssumption == \A p \in Programs : Runnable(Functions[p])

Value(kind, what) == <<kind, what>>
Junk == Value("junk", "")

Given == Functions[prog]
SourceOf(id) ==
  LET p == CHOOSE p \in Points(Given) : Given.code[p[1]][p[2]].id = id
  IN  Given.code[p[1]][p[2]]

SourceVariables == Given.locals \cup ToSet(Given.params)
IsInsert(in) == in.id = 0
Here == fn.code[at[1]][at[2]]
Running == pc = "run" /\ at[2] <= Len(fn.code[at[1]])

R(v) == varToReg[v]
ReadMem(slot) == IF slot \in DOMAIN mem THEN mem[slot] ELSE Junk

Written(slot, value) ==
  [s \in DOMAIN mem \cup {slot} |-> IF s = slot THEN value ELSE mem[s]]

\* The stack object an instruction addresses: its own, or the one whose address
\* its first operand holds.
SlotOf(in) ==
  IF in.mem # None THEN in.mem
  ELSE LET a == regs[R(in.uses[1])] IN IF a[1] = "address" THEN a[2] ELSE "nowhere"

-----------------------------------------------------------------------------
ExecInit ==
  /\ Init
  /\ prog \in Programs /\ fn = CreateRegisters(Functions[prog])
  /\ at = <<1, 1>> /\ env = <<>> /\ regs = <<>> /\ mem = <<>> /\ made = 0

AllocateStep == pc # "run" /\ Next /\ UNCHANGED exec

\* The caller has put the arguments in the argument registers and, beyond them,
\* in the stack objects the callee reads them from; the allocator's graph is gone.
StartRun ==
  LET params == Given.params
      Arg(j) == Value("argument", params[j])
  IN  /\ pc = "done"
      /\ pc' = "run"
      /\ env' = [v \in SourceVariables |->
                   IF v \in ToSet(params)
                   THEN Value("argument", v) ELSE Junk]
      /\ regs' = [r \in Reg |->
                    IF \E j \in DOMAIN params : j <= Len(ArgRegs) /\ ArgRegs[j] = r
                    THEN Arg(CHOOSE j \in DOMAIN params : j <= Len(ArgRegs) /\ ArgRegs[j] = r)
                    ELSE Value("caller", r)]
      /\ mem' = [s \in {MemOf(params[j]) :
                          j \in {j \in DOMAIN params : j > Len(ArgRegs)}} |->
                   Arg(CHOOSE j \in DOMAIN params : MemOf(params[j]) = s)]
      /\ keys' = {} /\ adj' = <<>> /\ mov' = <<>> /\ coal' = <<>>
      /\ stacked' = {} /\ color' = <<>>
      /\ UNCHANGED <<prog, at, made, fn, stack, varToReg>>

\* A step that changes values only.
Values(env1, regs1, mem1, made1) ==
  /\ env' = env1 /\ regs' = regs1 /\ mem' = mem1 /\ made' = made1
  /\ UNCHANGED <<prog, fn, graph, stacked, color, stack, pc, varToReg>>

Advance == at' = <<at[1], at[2] + 1>>

\* An instruction the allocator inserted acts on registers and frame alone.
RunInserted ==
  /\ Running /\ IsInsert(Here)
  /\ Advance
  /\ LET in    == Here
         Put(x) == [regs EXCEPT ![R(in.def)] = x]
     IN  Values(env,
                CASE in.op = "move"  -> Put(regs[R(in.uses[1])])
                  [] in.op = "load"  -> Put(ReadMem(SlotOf(in)))
                  [] in.op = "lea"   -> Put(Value("address", in.mem))
                  [] in.op = "store" -> regs,
                IF in.op = "store" THEN Written(SlotOf(in), regs[R(Last(in.uses))]) ELSE mem,
                made)

\* A computation, a call or a move of the source acts on both sides.  A call also
\* destroys the caller-saved registers.
RunSource ==
  /\ Running /\ ~IsInsert(Here) /\ Here.op \in {"op", "move", "call"}
  /\ made < MaxValues
  /\ Advance
  /\ LET in    == Here
         src   == SourceOf(in.id)
         fresh == Value("made", ToString(made + 1))
         new   == IF in.op = "move" THEN env[src.uses[1]] ELSE fresh
         newR  == IF in.op = "move" THEN regs[R(in.uses[1])] ELSE fresh
         kept  == [r \in Reg |-> IF in.op = "call" /\ r \in CallerSaved THEN Junk ELSE regs[r]]
     IN  Values(IF src.def = None THEN env ELSE [env EXCEPT ![src.def] = new],
                IF in.def = None THEN kept ELSE [kept EXCEPT ![R(in.def)] = newR],
                mem, made + 1)

RunJump ==
  /\ Running /\ Here.op = "branch"
  /\ \E s \in fn.succ[at[1]] : at' = <<s, 1>>
  /\ Values(env, regs, mem, made)

IsCaller == \E p \in Points(fn) : fn.code[p[1]][p[2]].op = "call"

\* The return address is kept above every stack object.
FarReturnAddress == Len(fn.frame) >= NearSlots

\* Mutant: no register is needed to reach the return address.
StoreRANear == regs

\* StoreRA: when the frame is large, the address goes through t0.
StoreRA ==
  IF IsCaller /\ FarReturnAddress
  THEN [regs EXCEPT ![Scratch] = Value("address", "ra")] ELSE regs

\* generate_prologue puts StoreRA at the end of the entry block, after the moves
\* of the callee-saved registers and the parameters.
LeaveEntry ==
  /\ pc = "run" /\ ~Running /\ at[1] = 1
  /\ \E s \in fn.succ[at[1]] : at' = <<s, 1>>
  /\ Values(env, StoreRA, mem, made)

ExecNext ==
  AllocateStep \/ StartRun \/ RunInserted \/ RunSource \/ RunJump \/ LeaveEntry

ExecSpec == ExecInit /\ [][ExecNext]_<<vars, exec>>

-----------------------------------------------------------------------------
\* Every instruction of the source that the rewritten code reaches reads there,
\* in registers and stack arguments, the values it reads in the source.
SameOperands ==
  Running /\ ~IsInsert(Here) =>
    LET in  == Here
        src == SourceOf(in.id)
    IN  \A k \in DOMAIN src.uses :
          IF k \in DOMAIN in.uses
          THEN regs[R(in.uses[k])] = env[src.uses[k]]
          ELSE ReadMem(Fresh(Fresh("param", in.id) \o "_", k)) = env[src.uses[k]]

\* Whatever the path, and whatever was spilled, the function returns with the
\* callee-saved registers as its caller left them.
CalleeSavedKept ==
  Running /\ Here.op = "ret" =>
    \A r \in ToSet(CalleeSaved) : regs[r] = Value("caller", r)

\* A copy that was spilled is fetched, when its register is put back, through a register
\* of its own.  No edge of the graph keeps that from being one that was already put back.
PutsBack(in, r) == IsInsert(in) /\ in.op = "move" /\ in.def = r
Fetches(in, r)  == in.op \in {"load", "lea"} /\ R(in.def) = r

FetchedOver ==
  \E i, j \in 1..(at[2] - 1) : \E r \in ToSet(CalleeSaved) :
    i < j /\ PutsBack(fn.code[at[1]][i], r) /\ Fetches(fn.code[at[1]][j], r)

\* A parameter that the body reads reaches it as the caller passed it, in the
\* register the allocator chose for it.
ParametersArrive ==
  pc = "run" /\ at = <<2, 1>> =>
    \A v \in LiveIn(fn)[2] \cap ToSet(Given.params) :
      regs[R(v)] = Value("argument", v)
=============================================================================
