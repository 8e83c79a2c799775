------------------------------ MODULE Builder ------------------------------
(***************************************************************************)
(* The translation of a syntax tree into the intermediate representation.  *)
(*                                                                         *)
(* The builder's state is a record that the visits pass on: the module, the *)
(* function and the block it is in, the symbol table, how deep in loops and *)
(* conditions it is, and what the last visit returned (value, init, flag).  *)
(* The programs are valid ones: of the errors the builder reports only the  *)
(* one a valid program can meet is modelled (failed).                      *)
(***************************************************************************)
EXTENDS Mir, Ast

None_ == <<>>

Builder0 ==
  [m |-> [globals |-> <<>>, functions |-> <<>>], f |-> None_, at |-> 0, table |-> << <<>> >>,
   loops |-> <<>>, conds |-> 0, global |-> FALSE, value |-> None, init |-> None_, flag |-> FALSE,
   failed |-> FALSE]

Fold(b, Visit(_, _), items) == Through(LAMBDA a, x : Visit(a, x), b, items)

-----------------------------------------------------------------------------
(* The symbol table: a stack of scopes. *)

Symbol(type, init, address, const, modified) ==
  [type |-> type, init |-> init, address |-> address, const |-> const, modified |-> modified]

push_scope(b) == [b EXCEPT !.table = Append(@, <<>>)]
pop_scope(b)  == [b EXCEPT !.table = Front(@)]

insert_symbol(b, ident, symbol) ==
  [b EXCEPT !.table[Len(b.table)] = (ident :> symbol) @@ @]

ScopeWith(b, ident) == Max({i \in DOMAIN b.table : ident \in DOMAIN b.table[i]})

lookup_in_all_scopes(b, ident) == b.table[ScopeWith(b, ident)][ident]

set_modified(b, ident) == [b EXCEPT !.table[ScopeWith(b, ident)][ident].modified = TRUE]

-----------------------------------------------------------------------------
(* Emitting instructions. *)

Name(b) == b.f.vars

Emit(b, ins) ==
  [b EXCEPT !.f.code[b.at] = Append(@, ins), !.f.vars = @ + 1, !.value = ins.def]

\* The block it creates is the last of the function.
NewBlock(b) == [b EXCEPT !.f.blocks = Append(@, Len(@)), !.f.code = @ @@ (Len(b.f.blocks) :> <<>>)]

GoTo(b, block) == [b EXCEPT !.at = block]

ToFloat(b) == Emit(b, Sitofp(Name(b), b.value))

\* type_cast.  A float compared with zero as if it were an integer is an error.
type_cast(b, v, t) ==
  LET from == TypeOf(v)
  IN  CASE IsConstant(v) -> [b EXCEPT !.value = CastConstant(v, t)]
        [] from = t -> [b EXCEPT !.value = v]
        [] from = I1 /\ t = I32 -> Emit(b, Zext(Name(b), v))
        [] from = I1 /\ t = F32 -> ToFloat(Emit(b, Zext(Name(b), v)))
        [] from = I32 /\ t = I1 -> Emit(b, Compare(Name(b), "ne", v, ConstInt(0)))
        [] from = I32 /\ t = F32 -> ToFloat([b EXCEPT !.value = v])
        [] from = F32 /\ t = I32 -> Emit(b, Fptosi(Name(b), v))
        [] OTHER -> [b EXCEPT !.failed = TRUE, !.value = ConstBool(FALSE)]

\* What the last visit returned, converted.
CastLast(b, t) == type_cast(b, b.value, t)

-----------------------------------------------------------------------------
(* Constant expressions *)

create_exp_init_value(v) == IF IsConstant(v) THEN ConstantInit(v) ELSE ExpInit(v)

RECURSIVE eval_exp(_, _)
\* The value of a constant expression.
eval_exp(b, e) ==
  LET Converted(l, r, x) == IF TypeOf(l) = I32 /\ TypeOf(r) = I32 THEN x ELSE CastConstant(x, F32)
      Apply(op, l, r) == Result(op, Converted(l, r, l), Converted(l, r, r))
  IN  CASE e.kind = "int"   -> ConstInt(e.value)
        [] e.kind = "float" -> ConstFloat(e.value)
        [] e.kind = "lval"  ->
             LET init == lookup_in_all_scopes(b, e.ident).init
                 indexes == [i \in DOMAIN e.exps |-> NumberOf(CastConstant(eval_exp(b, e.exps[i]), I32))]
             IN  (IF init.kind = "array" THEN ValueAt(init, indexes) ELSE init).value
        [] e.kind = "unary" ->
             LET v == eval_exp(b, e.exp)
             IN  CASE e.op = "sub" -> <<v[1], -v[2], v[3]>>
                   [] e.op = "not" -> ConstInt(IF IsZero(v) THEN 1 ELSE 0)
                   [] OTHER -> v
        [] e.kind = "chain" ->
             Through(LAMBDA l, i : Apply(e.operators[i], l, eval_exp(b, e.exps[i + 1])),
                      eval_exp(b, e.exps[1]), [i \in DOMAIN e.operators |-> i])

create_constant_init_value(b, t, e) == ConstantInit(CastConstant(eval_exp(b, e), t))

\* How many of the initial values from vals[i] on make up a sub-array.
SubArrayItems(vals, i, size) ==
  LET Next(acc, v) == CASE acc.j >= size -> acc
                        [] IsInitVals(v) -> [j |-> acc.j + size, n |-> acc.n + 1]
                        [] OTHER         -> [j |-> acc.j + 1, n |-> acc.n + 1]
  IN  Through(Next, [j |-> 0, n |-> 0], SubSeq(vals, i, Len(vals))).n

EmitStore(b, addr) == Emit(b, Store(addr, b.value))

ZeroedArray(b, addr) ==
  LET cast == Emit(b, BitCast(Name(b), addr, Pointer(<<"i8">>)))
  IN  Emit(cast, Memset(cast.value, 4 * FlattenedSize(ContainType(TypeOf(addr)))))

RECURSIVE GenStores(_, _, _, _)
GenElement(b, init, addr, i) ==
  LET gep == Emit(b, GetElementPtr(Name(b), addr, <<ConstInt(0), ConstInt(i - 1)>>))
  IN  GenStores(gep, init, gep.value, FALSE)

\* gen_store_inst: an array on the stack is set to zero, then its other elements stored.
GenStores(b, init, addr, isAlloc) ==
  LET Skipped(x) == IF x.kind = "array" THEN x.zero ELSE x.kind = "constant" /\ IsZero(x.value)
  IN  IF init.kind = "array"
      THEN Fold(IF isAlloc THEN ZeroedArray(b, addr) ELSE b,
                LAMBDA a, i : IF Skipped(init.vals[i]) THEN a ELSE GenElement(a, init.vals[i], addr, i),
                [i \in DOMAIN init.vals |-> i])
      ELSE EmitStore(type_cast(b, init.value, ContainType(TypeOf(addr))), addr)

-----------------------------------------------------------------------------
(* Expressions *)

RECURSIVE visit_node(_, _), is_zero_array(_, _, _, _),
          create_array_init_value(_, _, _, _), InitElements(_, _, _, _, _, _)

\* The operands of an operator, converted, are left in init.
Pair(v, b) == [b EXCEPT !.init = <<v, b.value>>]
SecondAs(b, w, t) == Pair(b.value, type_cast(b, w, t))
OperandsAs(b, v, w, t) == SecondAs(type_cast(b, v, t), w, t)

EmitOperation(b, op) ==
  Emit(b, IF op \in Relations THEN Compare(Name(b), op, b.init[1], b.init[2])
          ELSE Binary(Name(b), op, b.init[1], b.init[2]))

\* One step of visit_mulExp, visit_addExp, visit_relExp and visit_eqExp.
Operated_(b, op, v, w) ==
  EmitOperation(OperandsAs(b, v, w, IF F32 \in {TypeOf(v), TypeOf(w)} THEN F32 ELSE I32), op)

OperatedLast(b, op, v) == Operated_(b, op, v, b.value)

visit_chain(b, e) ==
  Fold(visit_node(b, e.exps[1]),
       LAMBDA a, i : OperatedLast(visit_node(a, e.exps[i + 1]), e.operators[i], a.value),
       [i \in DOMAIN e.operators |-> i])

UnaryOn(b, op, t) ==
  CASE op = "add" -> b
    [] op = "sub" -> Emit(b, Binary(Name(b), "sub", Zero(t), b.value))
    [] op = "not" -> CastLast(Emit(b, Compare(Name(b), "eq", b.value, Zero(t))), I32)

\* `+' makes its operand an integer, a float too.
UnaryAs(b, op, t) == UnaryOn(CastLast(b, t), op, t)
UnaryOf(b, op) == UnaryAs(b, op, IF op = "add" \/ TypeOf(b.value) # F32 THEN I32 ELSE F32)
visit_opExp(b, op, exp) == UnaryOf(visit_node(b, exp), op)

FunctionType(b, ident) == IF ident \in Library THEN LibraryType[ident]
                          ELSE IF ident = b.f.name THEN b.f.type ELSE FunctionNamed(b.m, ident).type
FunctionParams(b, ident) == IF ident \in Library THEN LibraryParams[ident]
                            ELSE IF ident = b.f.name THEN b.f.params ELSE FunctionNamed(b.m, ident).params

Appended(values, b) == [b |-> b, values |-> Append(values, b.value)]

ArgumentAs(b, t) ==
  CASE IsScalar(t) -> CastLast(b, t)
    [] TypeOf(b.value) # t -> Emit(b, BitCast(Name(b), b.value, t))
    [] OTHER -> b

EmitCall(r, ident) == Emit(r.b, CallTo(Name(r.b), ident, FunctionType(r.b, ident), r.values))

visit_functionCall(b, ident, params) ==
  LET types == FunctionParams(b, ident)
  IN  EmitCall(Through(LAMBDA a, i : Appended(a.values, ArgumentAs(visit_node(a.b, params[i]), types[i])),
                       [b |-> b, values |-> <<>>], [i \in DOMAIN params |-> i]),
               ident)

\* is_symbol_unmodified: in a loop or a condition the symbol counts as modified from now on.
IsUnmodified(b, ident) ==
  LET symbol == lookup_in_all_scopes(b, ident)
  IN  CASE symbol.const    -> [b EXCEPT !.flag = TRUE]
        [] symbol.modified -> [b EXCEPT !.flag = FALSE]
        [] b.loops # <<>> \/ b.conds > 0 -> [set_modified(b, ident) EXCEPT !.flag = FALSE]
        [] OTHER -> [b EXCEPT !.flag = symbol.address[1] # "global"]

visit_scalar(b, ident, symbol) ==
  LET u == IsUnmodified(b, ident)
  IN  IF u.flag /\ symbol.init # None_ THEN [u EXCEPT !.value = symbol.init.value]
      ELSE Emit(u, Load(Name(u), symbol.address))

VisitIndexes(b, exps) ==
  Through(LAMBDA a, e : Appended(a.values, CastLast(visit_node(a.b, e), I32)), [b |-> b, values |-> <<>>], exps)

EmitGep(b, zeros, index) == Emit(b, GetElementPtr(Name(b), b.value, Append(zeros, index)))

\* The pointer to the element with these indexes: an array parameter's address is loaded.
PointerTo(b, address, indexes) ==
  Fold([b EXCEPT !.value = address],
       LAMBDA a, index : IF IsPointer(ContainType(TypeOf(a.value)))
                         THEN EmitGep(Emit(a, Load(Name(a), a.value)), <<>>, index)
                         ELSE EmitGep(a, <<ConstInt(0)>>, index),
       indexes)

EmitLoad(b) == Emit(b, Load(Name(b), b.value))

\* What an lvalue is whose indexes have been visited: an address, what an array decays to,
\* an element known or a load.
Accessed(r, e, symbol, getAddress) ==
  LET Under(t, i) == IF IsPointer(t) THEN ContainType(t) ELSE ElementType(t)
      content == Through(Under, ContainType(TypeOf(symbol.address)), e.exps)
      constant == \A i \in DOMAIN r.values : IsConstant(r.values[i])
      u == IF constant THEN IsUnmodified(r.b, e.ident) ELSE r.b
      known == /\ constant /\ u.flag /\ e.exps # <<>> /\ IsScalar(content)
               /\ symbol.init # None_ /\ symbol.init.kind = "array"
  IN  CASE getAddress -> set_modified(PointerTo(u, symbol.address, r.values), e.ident)
        [] known -> [u EXCEPT !.value = ValueAt(symbol.init, [i \in DOMAIN r.values |-> NumberOf(r.values[i])]).value]
        [] IsArray(content) ->
             EmitGep(set_modified(PointerTo(u, symbol.address, r.values), e.ident), <<ConstInt(0)>>, ConstInt(0))
        [] OTHER -> EmitLoad(PointerTo(u, symbol.address, r.values))

visit_lVal(b, e, getAddress) ==
  LET symbol == lookup_in_all_scopes(b, e.ident)
  IN  IF ~getAddress /\ IsScalar(ContainType(TypeOf(symbol.address))) THEN visit_scalar(b, e.ident, symbol)
      ELSE Accessed(VisitIndexes(b, e.exps), e, symbol, getAddress)

-----------------------------------------------------------------------------
(* Initial values of arrays *)

\* Whether all the elements given are zero; to find out, expressions are visited.
is_zero_array(b, type, val, const) ==
  LET Element(a, v) ==
        CASE ~a.flag -> a
          [] IsInitVals(v) -> is_zero_array(a, ElementType(type), v, const)
          [] const -> [a EXCEPT !.flag = IsZero(CastConstant(eval_exp(a, v), AtomicType(type)))]
          [] OTHER -> LET r == visit_node(a, v) IN [r EXCEPT !.flag = IsZero(r.value)]
  IN  IF ~IsArray(type) \/ ~IsInitVals(val) THEN [b EXCEPT !.flag = FALSE]
      ELSE Fold([b EXCEPT !.flag = TRUE], Element, val.vals)

InitElements(b, type, vals, i, done, const) ==
  LET elem == ElementType(type)
      v == vals[i]
      n == SubArrayItems(vals, i, FlattenedSize(elem))
      sub == create_array_init_value(b, elem, IF IsInitVals(v) THEN v ELSE InitVals(SubSeq(vals, i, i + n - 1)), const)
      exp == visit_node(b, v)
      padding == [k \in 1..(type[2] - Len(done)) |-> ZeroInit(elem)]
  IN  CASE i > Len(vals) \/ Len(done) >= type[2] -> [b EXCEPT !.init = ArrayInit(type, done \o padding)]
        [] IsInitVals(v) -> InitElements(sub, type, vals, i + 1, Append(done, sub.init), const)
        [] IsArray(elem) -> InitElements(sub, type, vals, i + n, Append(done, sub.init), const)
        [] const -> InitElements(b, type, vals, i + 1, Append(done, create_constant_init_value(b, elem, v)), const)
        [] OTHER -> InitElements(exp, type, vals, i + 1, Append(done, create_exp_init_value(exp.value)), const)

create_array_init_value(b, type, val, const) ==
  LET z == is_zero_array(b, type, val, const)
  IN  IF z.flag THEN [z EXCEPT !.init = ZeroArrayInit(type)]
      ELSE InitElements(z, type, val.vals, 1, <<>>, const)

-----------------------------------------------------------------------------
(* Declarations *)

ExpInitOf(b) == [b EXCEPT !.init = create_exp_init_value(b.value)]

InitOf(b, const, type, init) ==
  CASE init = <<>>   -> [b EXCEPT !.init = ZeroInit(type)]
    [] IsArray(type) -> create_array_init_value(b, type, init[1], const \/ b.global)
    [] const \/ b.global -> [b EXCEPT !.init = create_constant_init_value(b, type, init[1])]
    [] OTHER -> ExpInitOf(CastLast(visit_node(b, init[1]), type))

\* A variable whose initial value (i.init) has been visited gets its place.
Placed(i, const, type, def) ==
  LET global == [i EXCEPT !.m.globals = Append(@, [name |-> def.ident, type |-> type, const |-> const, init |-> i.init]),
                          !.value = GlobalVar(def.ident, type)]
      alloc == Emit(i, Alloc(Name(i), type))
      placed == IF i.global THEN global ELSE [GenStores(alloc, i.init, alloc.value, TRUE) EXCEPT !.value = alloc.value]
  IN  insert_symbol(placed, def.ident, Symbol(type, i.init, placed.value, const, ~const /\ i.global))

\* visit_constDef and visit_varDef.
visit_def(b, const, bType, def) ==
  LET type == Dimensioned(bType, [i \in DOMAIN def.dims |-> NumberOf(eval_exp(b, def.dims[i]))])
  IN  Placed(InitOf(b, const, type, def.init), const, type, def)

visit_decl(b, decl) == Fold(b, LAMBDA a, def : visit_def(a, decl.const, decl.bType, def), decl.defs)

-----------------------------------------------------------------------------
(* Conditions and statements *)

RECURSIVE visit_lAndExp(_, _, _, _), visit_cond(_, _, _, _)

EmitBranch(b, then, else) == Emit(b, Branch(b.value, then, else))

\* The expression holds, or else.
visit_eqExp(b, exp, then, else) == EmitBranch(CastLast(visit_node(b, exp), I1), then, else)

\* All but the last of the expressions go on to a new block when they hold.
visit_lAndExp(b, eqExps, then, else) ==
  LET next == Len(b.f.blocks)
  IN  IF Len(eqExps) = 1 THEN visit_eqExp(b, eqExps[1], then, else)
      ELSE visit_lAndExp(GoTo(visit_eqExp(NewBlock(b), Head(eqExps), next, else), next), Tail(eqExps), then, else)

visit_cond(b, lAndExps, then, else) ==
  LET next == Len(b.f.blocks)
      last == Len(lAndExps) = 1
      c == visit_lAndExp(IF last THEN b ELSE NewBlock(b), Head(lAndExps), then, IF last THEN else ELSE next)
  IN  IF last THEN c ELSE visit_cond(GoTo(c, next), Tail(lAndExps), then, else)

InCond(b, k) == [b EXCEPT !.conds = @ + k]
EmitJump(b, block) == Emit(b, Jump(block))

visit_ifStmt(b, s) ==
  LET then == Len(b.f.blocks)
      hasElse == s.else # <<>>
      other == then + 1
      follow == IF hasElse THEN then + 2 ELSE other
      n == InCond(NewBlock(NewBlock(IF hasElse THEN NewBlock(b) ELSE b)), 1)
      t == EmitJump(visit_node(GoTo(visit_cond(n, s.cond, then, other), then), s.then), follow)
      k == IF hasElse THEN EmitJump(visit_node(GoTo(t, other), s.else[1]), follow) ELSE t
  IN  InCond(GoTo(k, follow), -1)

\* The condition is visited twice: before the loop and at the end of its body.
visit_whileStmt(b, s) ==
  LET n == NewBlock(NewBlock(NewBlock(b)))
      cond == Len(b.f.blocks)
      body == cond + 1
      follow == cond + 2
      in == [InCond(EmitJump(n, cond), 1) EXCEPT !.loops = Append(@, [cond |-> cond, follow |-> follow])]
      c == visit_cond(GoTo(in, cond), s.cond, body, follow)
      again == visit_cond(visit_node(GoTo(c, body), s.body), s.cond, body, follow)
  IN  [InCond(GoTo(again, follow), -1) EXCEPT !.loops = Front(@)]

\* The right side first, then where it goes.
StoreTo_(b, v) == LET c == type_cast(b, v, ContainType(TypeOf(b.value))) IN Emit(c, Store(b.value, c.value))
AssignTo(b, lVal) == StoreTo_(visit_lVal(b, lVal, TRUE), b.value)
visit_assignStmt(b, s) == AssignTo(visit_node(b, s.exp), s.lVal)

EmitRet(b) == Emit(b, Ret(<<b.value>>))
visit_returnStmt(b, exp) ==
  IF exp = <<>> THEN Emit(b, Ret(<<>>)) ELSE EmitRet(CastLast(visit_node(b, exp[1]), b.f.type))

-----------------------------------------------------------------------------
(* Functions *)

visit_funcFParam(b, param) ==
  LET dims == [i \in DOMAIN param.dims |-> NumberOf(eval_exp(b, param.dims[i]))]
  IN  IF param.array THEN Pointer(Dimensioned(param.bType, dims)) ELSE param.bType

\* Nothing is left behind the first terminator of a block.
CutAtTerminator(code) ==
  LET T == {i \in DOMAIN code : IsTerminator(code[i])}
  IN  IF T = {} THEN code ELSE SubSeq(code, 1, Min(T))

\* The blocks the entry reaches, by the code.
ReachedBlocks(blocks, code) ==
  Through(LAMBDA reached, i : reached \cup UNION {Targets(code[b]) : b \in reached},
           {Head(blocks)}, blocks)

\* A function whose body has been visited returns at its end; blocks nothing leads to go.
Ended(body, def) ==
  LET open == body.f.code[body.at] = <<>> \/ ~IsTerminator(Last(body.f.code[body.at]))
      default == IF def.funcType = Void THEN <<>> ELSE <<Zero(def.funcType)>>
      f == (IF open THEN Emit(body, Ret(default)) ELSE body).f
      cut == [l \in DOMAIN f.code |-> CutAtTerminator(f.code[l])]
      reached == ReachedBlocks(f.blocks, cut)
  IN  [body EXCEPT !.m.functions = Append(@, [f EXCEPT !.blocks = SelectSeq(@, LAMBDA l : l \in reached),
                                                       !.code = [l \in reached |-> cut[l]]]),
                   !.f = None_]

visit_funcDef(b, def) ==
  LET types == [i \in DOMAIN def.params |-> visit_funcFParam(b, def.params[i])]
      entered == [push_scope(b) EXCEPT !.f = Function(def.ident, def.funcType, types, <<0>>, 0 :> <<>>, 0), !.at = 0]
      Parameter(a, i) ==
        LET alloc == Emit(a, Alloc(Name(a), types[i]))
            stored == Emit(alloc, Store(alloc.value, Arg(i, types[i])))
        IN  insert_symbol(stored, def.params[i].ident, Symbol(types[i], None_, alloc.value, FALSE, TRUE))
      started == Fold(entered, Parameter, [i \in DOMAIN types |-> i])
  IN  Ended(pop_scope(Fold(started, visit_node, def.items)), def)

\* visit_exp, visit_stmt and visit_funcDef, by the kind of node.
visit_node(b, node) ==
  CASE node.kind = "int"    -> [b EXCEPT !.value = ConstInt(node.value)]
    [] node.kind = "float"  -> [b EXCEPT !.value = ConstFloat(node.value)]
    [] node.kind = "lval"   -> visit_lVal(b, node, FALSE)
    [] node.kind = "call"   -> visit_functionCall(b, node.ident, node.params)
    [] node.kind = "unary"  -> visit_opExp(b, node.op, node.exp)
    [] node.kind = "chain"  -> visit_chain(b, node)
    [] node.kind = "decl"   -> visit_decl(b, node)
    [] node.kind = "block"  -> pop_scope(Fold(push_scope(b), visit_node, node.items))
    [] node.kind = "assign" -> visit_assignStmt(b, node)
    [] node.kind = "exp"    -> IF node.exp = <<>> THEN b ELSE visit_node(b, node.exp[1])
    [] node.kind = "if"     -> visit_ifStmt(b, node)
    [] node.kind = "while"  -> visit_whileStmt(b, node)
    [] node.kind = "break"  -> Emit(b, Jump(Last(b.loops).follow))
    [] node.kind = "continue" -> Emit(b, Jump(Last(b.loops).cond))
    [] node.kind = "func"   -> visit_funcDef(b, node)
    [] node.kind = "return" -> visit_returnStmt(b, node.exp)

visit_unit(b, unit) == [visit_node([b EXCEPT !.global = IsDecl(unit)], unit) EXCEPT !.global = FALSE]

visit(compUnit) == Fold(Builder0, visit_unit, compUnit)
=============================================================================
