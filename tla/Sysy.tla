-------------------------------- MODULE Sysy --------------------------------
(***************************************************************************)
(* What a program means: the reference the translation and the passes are  *)
(* compared with.  Expressions are evaluated from the left, an assignment   *)
(* its right side first; integers do not overflow in the programs looked   *)
(* at.  A run is "stuck" where the language leaves its meaning open.       *)
(***************************************************************************)
EXTENDS Ast

\* The innermost declaration of a name: scopes are sequences of maps.
ScopeOf(scopes, ident) == LET S == {i \in DOMAIN scopes : ident \in DOMAIN scopes[i]}
                          IN  scopes[CHOOSE i \in S : \A j \in S : j <= i][ident]
Bound(scopes, ident, entry) ==
  [scopes EXCEPT ![Len(scopes)] = (ident :> entry) @@ @]

Coerced(v, t) == IF IsConstant(v) /\ IsScalar(t) THEN CastConstant(v, t) ELSE v

\* The common type of the operands of an operator.
CommonType(v, w) == IF TypeOf(v) = F32 \/ TypeOf(w) = F32 THEN F32 ELSE I32

Operated(op, v, w) ==
  LET t == CommonType(v, w)
      Number(r) == IF TypeOf(r) = I1 THEN CastConstant(r, I32) ELSE r
  IN  Number(Result(op, Coerced(v, t), Coerced(w, t)))

Known(s, v) == [s |-> IF IsConstant(v) \/ v[1] = "place" THEN s ELSE Stuck(s), value |-> v]

\* The place reached from another by one index.
Indexed(place, index) ==
  LET t == TypeOf(place)
      elem == IF IsPointer(t) THEN ContainType(t) ELSE ElementType(t)
  IN  Moved(place, NumberOf(Coerced(index, I32)) * FlattenedSize(elem), elem)

IndexedBy(place, indexes) ==
  [s |-> indexes.s, value |-> IF Runs(indexes.s) THEN Through(Indexed, place, indexes.values) ELSE None]

\* What is found at a place; an array becomes the address of its first element.
Found(at) ==
  LET t == TypeOf(at.value)
  IN  CASE ~Runs(at.s) \/ IsPointer(t) -> at
        [] IsArray(t)   -> [at EXCEPT !.value = Moved(@, 0, Pointer(ElementType(t)))]
        [] ~InMemory(at.s, at.value) -> [at EXCEPT !.s = Stuck(@)]
        [] OTHER -> Known(at.s, CellAt(at.s, at.value))

OperatedChain(e, args) ==
  IF Runs(args.s)
  THEN Known(args.s, Through(LAMBDA v, i : Operated(e.operators[i - 1], v, args.values[i]),
                             args.values[1], [i \in 1..(Len(e.exps) - 1) |-> i + 1]))
  ELSE [s |-> args.s, value |-> None]

OperatedUnary(op, r) ==
  CASE ~Runs(r.s) \/ op = "add" -> r
    [] op = "sub" -> [r EXCEPT !.value = Operated("sub", ConstInt(0), @)]
    [] op = "not" -> [r EXCEPT !.value = Operated("eq", @, ConstInt(0))]

RECURSIVE Eval(_, _, _, _), EvalPlace(_, _, _, _), EvalAll(_, _, _, _), Run(_, _, _, _),
          Called(_, _, _, _), Filled(_, _, _, _, _)

\* Where an lvalue is: its place has the type of what is found there.
EvalPlace(p, scopes, e, s) == IndexedBy(ScopeOf(scopes, e.ident), EvalAll(p, scopes, e.exps, s))

AppendValue(values, r) == [s |-> r.s, values |-> Append(values, r.value)]

EvalAll(p, scopes, es, s) ==
  Through(LAMBDA acc, e : IF Runs(acc.s) THEN AppendValue(acc.values, Eval(p, scopes, e, acc.s)) ELSE acc,
          [s |-> s, values |-> <<>>], es)

CalledWith(p, ident, args) ==
  IF Runs(args.s) THEN Called(p, ident, args.values, args.s) ELSE [s |-> args.s, value |-> None]

Eval(p, scopes, e, s) ==
  CASE ~Runs(s) -> [s |-> s, value |-> None]
    [] e.kind = "int"   -> [s |-> s, value |-> ConstInt(e.value)]
    [] e.kind = "float" -> [s |-> s, value |-> ConstFloat(e.value)]
    [] e.kind = "lval"  -> Found(EvalPlace(p, scopes, e, s))
    [] e.kind = "call"  -> CalledWith(p, e.ident, EvalAll(p, scopes, e.params, s))
    [] e.kind = "unary" -> OperatedUnary(e.op, Eval(p, scopes, e.exp, s))
    [] e.kind = "chain" -> OperatedChain(e, EvalAll(p, scopes, e.exps, s))

AsTruth(r) == [s |-> r.s, truth |-> ~IsZero(r.value)]

\* A condition, evaluated only as far as needed.
TruthOfAll(p, scopes, es, s) ==
  Through(LAMBDA acc, e : IF acc.truth /\ Runs(acc.s) THEN AsTruth(Eval(p, scopes, e, acc.s)) ELSE acc,
          [s |-> s, truth |-> TRUE], es)
Truth(p, scopes, cond, s) ==
  Through(LAMBDA acc, es : IF acc.truth \/ ~Runs(acc.s) THEN acc ELSE TruthOfAll(p, scopes, es, acc.s),
          [s |-> s, truth |-> FALSE], cond)

CellFilled(a, type, r) ==
  [s |-> r.s, at |-> a.at + 1, cells |-> [a.cells EXCEPT ![a.at] = Coerced(r.value, AtomicType(type))]]

\* The cells of an array written from cell `at' on as a list of initial values says:
\* [s, cells, at].  A list fills the next element, and what it leaves out is zero.
Filled(p, scopes, val, type, acc) ==
  Through(LAMBDA a, v :
            CASE ~Runs(a.s) -> a
              [] IsInitVals(v) -> [Filled(p, scopes, v, ElementType(type), a)
                                     EXCEPT !.at = a.at + FlattenedSize(ElementType(type))]
              [] OTHER -> CellFilled(a, type, Eval(p, scopes, v, a.s)),
          acc, val.vals)

-----------------------------------------------------------------------------
(* Statements.  The state of a function at work: scopes, machine, flow and   *)
(* the value returned.                                                     *)

Initialized(p, scopes, def, type, s) ==
  CASE def.init = <<>> -> [s |-> s, cells |-> Blank(type)]
    [] IsArray(type)   -> Filled(p, scopes, def.init[1], type, [s |-> s, cells |-> Zeros(type), at |-> 1])
    [] OTHER           -> CellFilled([at |-> 1, cells |-> <<None>>], type, Eval(p, scopes, def.init[1], s))

PutIn(r, ident, type, given) ==
  [r EXCEPT !.s = IF Runs(given.s) THEN Allocated(given.s, given.cells) ELSE given.s,
            !.scopes = Bound(@, ident, Place(Fresh(given.s), 0, type))]

DeclaredAs(p, def, r, type, s) == PutIn(r, def.ident, type, Initialized(p, r.scopes, def, type, s))

DimensionedAs(p, bType, def, r, dims) ==
  DeclaredAs(p, def, r, Dimensioned(bType, [i \in DOMAIN def.dims |-> NumberOf(dims.values[i])]), dims.s)

Declared(p, bType, def, r) ==
  IF Runs(r.s) THEN DimensionedAs(p, bType, def, r, EvalAll(p, r.scopes, def.dims, r.s)) ELSE r

Stored(r, v, at) ==
  CASE ~Runs(v.s) -> [r EXCEPT !.s = v.s]
    [] ~Runs(at.s) -> [r EXCEPT !.s = at.s]
    [] ~InMemory(at.s, at.value) -> [r EXCEPT !.s = Stuck(@)]
    [] OTHER -> [r EXCEPT !.s = Written(at.s, at.value, Coerced(v.value, TypeOf(at.value)))]

Assigned(p, item, r, v) == Stored(r, v, EvalPlace(p, r.scopes, item.lVal, v.s))

InScope(p, items, r, returns) ==
  [Through(LAMBDA a, i : Run(p, i, a, returns), [r EXCEPT !.scopes = Append(@, <<>>)], items)
     EXCEPT !.scopes = r.scopes]

Decided(p, item, r, c, returns) ==
  IF Runs(c.s) THEN InScope(p, IF c.truth THEN <<item.then>> ELSE item.else, [r EXCEPT !.s = c.s], returns)
  ELSE [r EXCEPT !.s = c.s]

Repeated(p, item, r, returns) ==
  CASE r.flow \in {"next", "continue"} -> Run(p, item, [r EXCEPT !.flow = "next"], returns)
    [] r.flow = "break" -> [r EXCEPT !.flow = "next"]
    [] OTHER -> r

Looped(p, item, r, c, returns) ==
  IF Runs(c.s) /\ c.truth THEN Repeated(p, item, InScope(p, <<item.body>>, [r EXCEPT !.s = c.s], returns), returns)
  ELSE [r EXCEPT !.s = c.s]

Returned(r, v, returns) == [r EXCEPT !.s = v.s, !.flow = "return", !.value = Coerced(v.value, returns)]

Run(p, item, r, returns) ==
  CASE ~Runs(r.s) \/ r.flow # "next" -> r
    [] item.kind = "decl"   -> Through(LAMBDA a, def : Declared(p, item.bType, def, a), r, item.defs)
    [] item.kind = "assign" -> Assigned(p, item, r, Eval(p, r.scopes, item.exp, r.s))
    [] item.kind = "exp"    -> [r EXCEPT !.s = IF item.exp = <<>> THEN @ ELSE Eval(p, r.scopes, item.exp[1], @).s]
    [] item.kind = "block"  -> InScope(p, item.items, r, returns)
    [] item.kind = "if"     -> Decided(p, item, r, Truth(p, r.scopes, item.cond, r.s), returns)
    [] item.kind = "while"  ->
         IF r.s.fuel = 0 THEN [r EXCEPT !.s.status = "long"]
         ELSE Looped(p, item, r, Truth(p, r.scopes, item.cond, [r.s EXCEPT !.fuel = @ - 1]), returns)
    [] item.kind \in {"break", "continue"} -> [r EXCEPT !.flow = item.kind]
    [] item.kind = "return" ->
         IF item.exp = <<>> THEN [r EXCEPT !.flow = "return"]
         ELSE Returned(r, Eval(p, r.scopes, item.exp[1], r.s), returns)

\* A parameter is an object of its own, an array the place of the argument.
Passed(r, param, arg) ==
  IF param.array THEN [r EXCEPT !.scopes = Bound(@, param.ident, arg)]
  ELSE PutIn(r, param.ident, param.bType, [s |-> r.s, cells |-> <<Coerced(arg, param.bType)>>])

Called(p, ident, args, s) ==
  LET f == p.functions[ident]
      start == [s |-> [s EXCEPT !.fuel = @ - 1], scopes |-> <<p.globals, <<>>>>, flow |-> "next", value |-> None]
  IN  CASE ident \in Library ->
             LibraryCall(s, ident, [i \in DOMAIN args |-> Coerced(args[i], LibraryParams[ident][i])])
        [] s.fuel = 0 -> [s |-> [s EXCEPT !.status = "long"], value |-> None]
        [] OTHER -> Through(LAMBDA a, i : Run(p, i, a, f.funcType),
                            Through(LAMBDA a, i : Passed(a, f.params[i], args[i]), start, [i \in DOMAIN args |-> i]),
                            f.items)

-----------------------------------------------------------------------------
(* Programs *)

FunctionsOf(compUnit) ==
  LET funcs == SelectSeq(compUnit, LAMBDA u : ~IsDecl(u))
  IN  [f \in {funcs[i].ident : i \in DOMAIN funcs} |-> funcs[CHOOSE i \in DOMAIN funcs : funcs[i].ident = f]]

\* Globals nothing initializes are zero.
Zeroed(def) ==
  IF def.init # <<>> THEN def
  ELSE [def EXCEPT !.init = IF def.dims = <<>> THEN <<IntNumber(0)>> ELSE <<InitVals(<<>>)>>]

Globals(p, compUnit, start) ==
  Through(LAMBDA r, u : Through(LAMBDA a, def : Declared(p, u.bType, Zeroed(def), a), r, u.defs),
          start, SelectSeq(compUnit, IsDecl))

RunMain(functions, r) == Called([globals |-> r.scopes[1], functions |-> functions], "main", <<>>, r.s)

Shown(end) == [status |-> end.s.status, shown |-> Append(end.s.out, end.value)]

\* What a program shows and returns, and whether it means anything.
Meaning(compUnit, input, fuel) ==
  LET start == [s |-> Machine(input, fuel), scopes |-> << <<>> >>, flow |-> "next", value |-> None]
      functions == FunctionsOf(compUnit)
  IN  Shown(RunMain(functions, Globals([globals |-> <<>>, functions |-> functions], compUnit, start)))
=============================================================================
