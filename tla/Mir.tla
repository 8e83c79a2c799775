-------------------------------- MODULE Mir --------------------------------
(***************************************************************************)
(* The intermediate representation: modules, functions and instructions,   *)
(* the types instructions demand of their operands, and what running a     *)
(* module does.                                                            *)
(*                                                                         *)
(* An instruction keeps its operation, a refinement of it (the relation of *)
(* a comparison, the operation of a binary, the function of a call), the    *)
(* value it defines, its operands, the blocks it goes to and the options   *)
(* of a phi.  Names of values and blocks are numbers.                      *)
(***************************************************************************)
EXTENDS MirValues

Var(n, t) == <<"var", n, t>>
Arg(i, t) == <<"arg", i, t>>
GlobalVar(x, t) == <<"global", x, Pointer(t)>>

IsVar(v) == v[1] = "var"

Instruction(op, sub, def, args) ==
  [op |-> op, sub |-> sub, def |-> def, args |-> args, to |-> <<>>, opts |-> <<>>]

Alloc(n, t)        == Instruction("alloc", "", Var(n, Pointer(t)), <<>>)
Load(n, addr)      == Instruction("load", "", Var(n, ContainType(TypeOf(addr))), <<addr>>)
Store(addr, value) == Instruction("store", "", None, <<addr, value>>)
BitCast(n, v, t)   == Instruction("bitcast", "", Var(n, t), <<v>>)
Fptosi(n, v)       == Instruction("fptosi", "", Var(n, I32), <<v>>)
Sitofp(n, v)       == Instruction("sitofp", "", Var(n, F32), <<v>>)
Zext(n, v)         == Instruction("zext", "", Var(n, I32), <<v>>)
Binary(n, op, v, w) ==
  Instruction(IF TypeOf(v) = F32 THEN "floatbinary" ELSE "intbinary", op, Var(n, TypeOf(v)), <<v, w>>)
Ret(values)        == Instruction("ret", "", None, values)
Jump(b)            == [Instruction("jump", "", None, <<>>) EXCEPT !.to = <<b>>]
Branch(cond, t, f) == [Instruction("branch", "", None, <<cond>>) EXCEPT !.to = <<t, f>>]
CallTo(n, f, type, params) ==
  Instruction("call", f, IF type = Void THEN None ELSE Var(n, type), params)
Phi(n, t, opts)    == [Instruction("phi", "", Var(n, t), <<>>) EXCEPT !.opts = opts]
Memset(addr, bytes) == Instruction("call", "memset", None, <<addr, ConstInt(bytes)>>)

\* GetElementPtr: with one index the pointer moves; every further one (all but the last
\* are zero) goes into an array.
GepType(addr, indexes) ==
  Pointer(Through(LAMBDA t, index : ElementType(t), ContainType(TypeOf(addr)), Tail(indexes)))
GetElementPtr(n, addr, indexes) == Instruction("gep", "", Var(n, GepType(addr, indexes)), <<addr>> \o indexes)

SwapOp(op) == CASE op = "lt" -> "gt" [] op = "gt" -> "lt" [] op = "le" -> "ge" [] op = "ge" -> "le"
                [] OTHER -> op

\* A comparison keeps a constant on its right.
Compare(n, op, v, w) ==
  LET kind == IF TypeOf(v) = F32 THEN "fcmp" ELSE "icmp"
  IN  IF IsConstant(v) /\ ~IsConstant(w)
      THEN Instruction(kind, SwapOp(op), Var(n, I1), <<w, v>>)
      ELSE Instruction(kind, op, Var(n, I1), <<v, w>>)

IsTerminator(ins) == ins.op \in {"jump", "branch", "ret"}
IsPhi(ins)        == ins.op = "phi"
Defines(ins)      == ins.def # None
ValuesRead(ins)   == ToSet(ins.args) \cup {ins.opts[b] : b \in DOMAIN ins.opts}
\* The operands of a call are its arguments.
Addr(ins)         == ins.args[1]
IndexOf(ins)      == Last(ins.args)

-----------------------------------------------------------------------------
(* Initial values: a constant, an expression's value or an array of them. *)

ConstantInit(c)      == [kind |-> "constant", value |-> c]
ZeroArrayInit(t)     == [kind |-> "array", type |-> t, zero |-> TRUE, vals |-> <<>>]
ArrayInit(t, vals)   == [kind |-> "array", type |-> t, zero |-> FALSE, vals |-> vals]
ZeroInit(t)          == IF IsArray(t) THEN ZeroArrayInit(t) ELSE ConstantInit(Zero(t))
ExpInit(v)           == [kind |-> "exp", value |-> v]

RECURSIVE ValueAt(_, _), Flattened(_)
\* get_init_value
ValueAt(init, indexes) ==
  CASE indexes = <<>> -> init
    [] init.zero -> ConstantInit(Zero(AtomicType(init.type)))
    [] OTHER -> ValueAt(init.vals[Head(indexes) + 1], Tail(indexes))

\* The cells of a global variable.
Flattened(init) ==
  CASE init.kind # "array" -> <<init.value>>
    [] init.zero -> Zeros(init.type)
    [] OTHER -> FlattenSeq([i \in DOMAIN init.vals |-> Flattened(init.vals[i])])

-----------------------------------------------------------------------------
(* Functions and modules *)

Function(name, type, params, blocks, code, vars) ==
  [name |-> name, type |-> type, params |-> params, blocks |-> blocks, code |-> code, vars |-> vars]

FunctionNamed(m, name) == m.functions[CHOOSE i \in DOMAIN m.functions : m.functions[i].name = name]
FunctionNames(m)       == {m.functions[i].name : i \in DOMAIN m.functions}
GlobalNamed(m, x)      == m.globals[CHOOSE i \in DOMAIN m.globals : m.globals[i].name = x]

Entry(f)          == Head(f.blocks)
Targets(code)     == IF code = <<>> THEN {} ELSE ToSet(Last(code).to)
Instructions(f)   == UNION {ToSet(f.code[b]) : b \in DOMAIN f.code}
DefinedValues(f)  == {ins.def : ins \in Instructions(f)} \ {None}

\* Names that moves set.
Destinations(f)   == {ins.args[1] : ins \in {x \in Instructions(f) : x.op = "move"}}

\* replace_by_new_value, for all values at once.
InValues(f, Now(_)) ==
  LET InInstruction(ins) ==
        [ins EXCEPT !.args = [i \in DOMAIN @ |-> Now(@[i])], !.opts = [b \in DOMAIN @ |-> Now(@[b])]]
  IN  Computed([f EXCEPT !.code = [b \in DOMAIN @ |-> [i \in DOMAIN @[b] |-> InInstruction(@[b][i])]]])

Now(subst, v) == IF v \in DOMAIN subst THEN subst[v] ELSE v
InArgs(ins, subst) == [ins EXCEPT !.args = [i \in DOMAIN @ |-> Now(subst, @[i])]]
Substituted(f, subst) == InValues(f, LAMBDA v : Now(subst, v))
Replaced(f, v, w) == Substituted(f, v :> w)

Arguments(f)    == {Arg(i, f.params[i]) : i \in DOMAIN f.params}
UsedValues(f)   == UNION {ValuesRead(ins) : ins \in Instructions(f)}
DefinitionOf(f) == [v \in DefinedValues(f) |-> CHOOSE ins \in Instructions(f) : ins.def = v]

InFunctions(m, Pass(_)) == [m EXCEPT !.functions = [i \in DOMAIN @ |-> Pass(@[i])]]

\* What an instruction of module m demands of the types of its operands, and of the
\* value it defines.
WellTyped(m, f, ins) ==
  LET T(i) == TypeOf(ins.args[i])
      types == [i \in DOMAIN ins.args |-> TypeOf(ins.args[i])]
      def == TypeOf(ins.def)
  IN  CASE ins.op = "alloc"  -> IsPointer(def)
        [] ins.op = "load"   -> types = <<Pointer(def)>>
        [] ins.op = "store"  -> T(1) = Pointer(T(2))
        [] ins.op = "gep"    -> /\ IsPointer(T(1)) /\ Last(types) = I32
                                /\ \A i \in 2..(Len(types) - 1) : IsZero(ins.args[i])
                                /\ def = GepType(ins.args[1], Tail(ins.args))
        [] ins.op = "bitcast" -> IsPointer(T(1)) /\ IsPointer(def)
        [] ins.op = "fptosi" -> types = <<F32>> /\ def = I32
        [] ins.op = "sitofp" -> types = <<I32>> /\ def = F32
        [] ins.op = "zext"   -> types = <<I1>> /\ def = I32
        [] ins.op = "fcmp"   -> types = <<F32, F32>>
        [] ins.op = "icmp"   -> types = <<I32, I32>>
        [] ins.op = "intbinary"   -> types = <<I32, I32>> /\ def = I32
        [] ins.op = "floatbinary" -> types = <<F32, F32>> /\ def = F32
        [] ins.op = "branch" -> types = <<I1>>
        [] ins.op = "jump"   -> types = <<>>
        [] ins.op = "ret"    -> types = IF f.type = Void THEN <<>> ELSE <<f.type>>
        [] ins.op = "phi"    -> \A b \in DOMAIN ins.opts : TypeOf(ins.opts[b]) = def
        [] ins.op = "call" ->
             CASE ins.sub = "memset"    -> types = <<Pointer(<<"i8">>), I32>>
               [] ins.sub \in Library -> types = LibraryParams[ins.sub] /\ def = LibraryType[ins.sub]
               [] OTHER -> LET g == FunctionNamed(m, ins.sub) IN types = g.params /\ def = g.type

-----------------------------------------------------------------------------
(* Running a module.  The machine also knows where it is: the block, the    *)
(* one before, the values of names, the arguments and the value returned.   *)

ValueOf(s, v) ==
  CASE v[1] = "var" -> s.env[v[2]]
    [] v[1] = "arg" -> s.args[v[2]]
    [] v[1] = "global" -> Place(s.globals[v[2]], 0, v[3])
    [] OTHER -> v

Named(s, def, v) == [s EXCEPT !.env[def[2]] = v]

\* A phi reads what the names held at the end of the block before.
PhisTaken(s, phis) ==
  Through(LAMBDA r, phi : IF s.from \in DOMAIN phi.opts THEN Named(r, phi.def, ValueOf(s, phi.opts[s.from]))
                           ELSE Stuck(r), s, phis)

RECURSIVE Executed(_, _, _), RunFrom(_, _, _), RunFunction(_, _, _, _)

Executed(m, s, ins) ==
  LET v == [i \in DOMAIN ins.args |-> ValueOf(s, ins.args[i])]
      Result_(r) == IF IsConstant(r) THEN Named(s, ins.def, r) ELSE Stuck(s)
  IN  CASE ~Runs(s) -> s
        [] ins.op = "alloc" ->
             Named(Allocated(s, Blank(ContainType(TypeOf(ins.def)))), ins.def, Place(Fresh(s), 0, TypeOf(ins.def)))
        [] ins.op = "load"  -> IF InMemory(s, v[1]) THEN Named(s, ins.def, CellAt(s, v[1])) ELSE Stuck(s)
        [] ins.op = "store" -> IF InMemory(s, v[1]) THEN Written(s, v[1], v[2]) ELSE Stuck(s)
        [] ins.op = "gep" ->
             IF v[1][1] # "place" \/ ~IsConstant(Last(v)) THEN Stuck(s)
             ELSE Named(s, ins.def, Moved(v[1], NumberOf(Last(v)) * FlattenedSize(ContainType(TypeOf(ins.def))),
                                        TypeOf(ins.def)))
        [] ins.op = "bitcast" -> Named(s, ins.def, v[1])
        [] ins.op \in {"fptosi", "sitofp", "zext"} ->
             IF IsConstant(v[1]) THEN Named(s, ins.def, CastConstant(v[1], TypeOf(ins.def))) ELSE Stuck(s)
        [] ins.op \in {"icmp", "fcmp", "intbinary", "floatbinary"} -> Result_(Result(ins.sub, v[1], v[2]))
        [] ins.op = "move" -> Named(s, ins.args[1], v[2])
        [] ins.op = "call" /\ ins.sub = "memset" ->
             [s EXCEPT !.mem[v[1][2][1]] = [i \in DOMAIN @ |-> IF 4 * i <= NumberOf(v[2]) THEN Zero(TypeOf(@[i])) ELSE @[i]]]
        [] ins.op = "call" ->
             LET Back(called) ==
                   IF Defines(ins) /\ Runs(called.s) THEN Named(called.s, ins.def, called.value) ELSE called.s
             IN  Back(IF ins.sub \in Library THEN LibraryCall(s, ins.sub, v)
                      ELSE RunFunction(m, FunctionNamed(m, ins.sub), v, s))

RunFrom(m, f, s) ==
  LET code == f.code[s.at]
      t == Last(code)
      Left(after) ==
        LET c == ValueOf(after, t.args[1])
            next == [after EXCEPT !.fuel = @ - 1]
            To(b) == RunFrom(m, f, [next EXCEPT !.from = s.at, !.at = b])
        IN  CASE ~Runs(after)     -> after
              [] after.fuel = 0   -> [after EXCEPT !.status = "long"]
              [] t.op = "jump"    -> To(t.to[1])
              [] t.op = "branch"  -> IF IsConstant(c) THEN To(t.to[IF IsZero(c) THEN 2 ELSE 1]) ELSE Stuck(next)
              [] t.op = "ret"     -> [next EXCEPT !.value = IF t.args = <<>> THEN None ELSE c]
  IN  Left(Through(LAMBDA r, ins : Executed(m, r, ins),
                   PhisTaken(s, SelectSeq(code, IsPhi)),
                   SelectSeq(Front(code), LAMBDA ins : ~IsPhi(ins))))

RunFunction(m, f, args, s) ==
  LET start == [s EXCEPT !.env = [i \in {d[2] : d \in DefinedValues(f) \cup Destinations(f)} |-> Undefined(Void)],
                         !.args = args, !.at = Entry(f), !.from = -1, !.value = None]
      Back(end) == [s |-> [end EXCEPT !.env = s.env, !.args = s.args, !.at = s.at, !.from = s.from],
                    value |-> end.value]
  IN  Back(RunFrom(m, f, start))

RunModule(m, input, fuel) ==
  LET index == [x \in {m.globals[i].name : i \in DOMAIN m.globals} |->
                  CHOOSE i \in DOMAIN m.globals : m.globals[i].name = x]
      start == [env |-> <<>>, args |-> <<>>, at |-> 0, from |-> -1, value |-> None, globals |-> index]
                 @@ [Machine(input, fuel) EXCEPT !.mem = [i \in DOMAIN m.globals |-> Flattened(m.globals[i].init)]]
      Shown(end) == [status |-> end.s.status, shown |-> Append(end.s.out, end.value)]
  IN  Shown(RunFunction(m, FunctionNamed(m, "main"), <<>>, start))
=============================================================================
