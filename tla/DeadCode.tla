------------------------------ MODULE DeadCode ------------------------------
(***************************************************************************)
(* Dead code: instructions no effect depends on, globals nobody uses and    *)
(* functions nobody calls.                                                 *)
(***************************************************************************)
EXTENDS FunctionAnalysis

\* The instructions that have v for an operand, of those that matter when v is an address.
AddressUsers(f, addresses) ==
  LET used == UsedValues(f)
  IN  {ins \in Instructions(f) :
         /\ ValuesRead(ins) \cap addresses # {}
         /\ ins.op \in {"store", "gep", "call", "bitcast"} \/ ins.def \in used}

UsesGlobal(f, x) == \E v \in UsedValues(f) : v[1] = "global" /\ v[2] = x

\* dead_global_variable_eliminate
DropGlobals(m) ==
  [m EXCEPT !.globals = SelectSeq(@, LAMBDA g : \E i \in DOMAIN m.functions : UsesGlobal(m.functions[i], g.name))]

IsUsefulCall(infos, ins) ==
  IF ins.sub \notin DOMAIN infos THEN ins.sub # "memset"
  ELSE LET info == infos[ins.sub]
       IN  info.io_read \/ info.io_write \/ info.memory_write \/ info.has_side_effect \/ ~info.no_state

\* init_useful_instruction, and what uses a global.
InitiallyUseful(f, infos) ==
  LET globals == {v \in UsedValues(f) : v[1] = "global"}
      pointers == {v \in Arguments(f) : IsPointer(TypeOf(v))}
  IN  AddressUsers(f, globals)
      \cup {ins \in Instructions(f) : \/ IsTerminator(ins)
                                      \/ ins.op = "call" /\ IsUsefulCall(infos, ins)
                                      \/ ValuesRead(ins) \cap pointers # {}}

\* update_useful_instruction
MadeUseful(f, ins) ==
  {d \in Instructions(f) : Defines(d) /\ d.def \in ValuesRead(ins)}
  \cup (IF IsPointer(TypeOf(ins.def)) THEN AddressUsers(f, {ins.def}) ELSE {})

RECURSIVE UsefulFrom(_, _)
UsefulFrom(f, useful) ==
  LET next == useful \cup UNION {MadeUseful(f, ins) : ins \in useful}
  IN  IF next = useful THEN useful ELSE UsefulFrom(f, next)

Useful(f, infos) == UsefulFrom(f, InitiallyUseful(f, infos))

DeadCodeEliminate(m) ==
  LET infos == FunctionInfos(m)
      Live(f) == LET useful == Useful(f, infos)
                 IN  [f EXCEPT !.code = [b \in DOMAIN @ |-> SelectSeq(@[b], LAMBDA ins : ins \in useful)]]
  IN  DropGlobals(Computed(InFunctions(DropGlobals(m), Live)))

\* The functions main reaches by calls.
DeadFuncEliminate(m) ==
  LET infos == FunctionInfos(m)
      reached == ToSet(TopoOrder(infos, "main"))
  IN  [m EXCEPT !.functions = SelectSeq(@, LAMBDA f : f.name \in reached)]
=============================================================================
