------------------------------ MODULE Localize ------------------------------
(***************************************************************************)
(* Addresses of array elements and globals.  A pointer reached in several   *)
(* steps is reached in one; globals only main uses become locals of main,   *)
(* and constants are read at compile time.                                 *)
(***************************************************************************)
EXTENDS Builder, Mem2Reg, DeadCode

-----------------------------------------------------------------------------
(* GepFolding: from where the first step started, by the sum of the steps. *)

RECURSIVE Chain_(_, _)
\* The geps that lead to v, the first one first.
Chain_(defs, v) ==
  IF v \in DOMAIN defs /\ defs[v].op = "gep" THEN Append(Chain_(defs, Addr(defs[v])), defs[v]) ELSE <<>>

\* is_folded_leaf_gep, in the order of the tree of dominators from the bottom.
FoldedLeaves(f) ==
  LET defs == DefinitionOf(f)
      order == LayersFrom(Dominance(f).children, <<Entry(f)>>)
      Leaf(ins) == ins.op = "gep" /\ Len(Chain_(defs, ins.def)) > 1
  IN  Reverse(FlattenSeq([i \in DOMAIN order |-> SelectSeq(f.code[order[i]], Leaf)]))

StepSize(gep) == FlattenedSize(ContainType(TypeOf(gep.def)))

\* The code that sums the steps up, and the sum.
Offsets(chain, vars) ==
  LET Add(a, gep) ==
        LET mul == Binary(a.vars, "mul", ConstInt(StepSize(gep)), IndexOf(gep))
            add == Binary(a.vars + 1, "add", a.sum, mul.def)
        IN  IF a.sum = None THEN [code |-> <<mul>>, sum |-> mul.def, vars |-> a.vars + 1]
            ELSE [code |-> a.code \o <<mul, add>>, sum |-> add.def, vars |-> a.vars + 2]
  IN  Through(Add, [code |-> <<>>, sum |-> None, vars |-> vars], chain)

\* try_fold_gep.  What was folded before counts for one zero: one more is put in then.
FoldGep(f, gep) ==
  LET chain == Chain_(DefinitionOf(f), gep.def)
      base == Addr(Head(chain))
      zeros == [i \in 1..Len(SelectSeq(chain, LAMBDA g : Len(g.args) > 2)) |-> ConstInt(0)]
      offset == Offsets(chain, f.vars)
      Gep(indexes) == GetElementPtr(offset.vars, base, Append(indexes, offset.sum))
      new == IF TypeOf(Gep(zeros).def) = TypeOf(gep.def) THEN Gep(zeros) ELSE Gep(Append(zeros, ConstInt(0)))
      b == CHOOSE c \in Blocks(f) : \E i \in DOMAIN f.code[c] : f.code[c][i].def = gep.def
      at == CHOOSE i \in DOMAIN f.code[b] : f.code[b][i].def = gep.def
  IN  IF gep.def \notin UsedValues(f) THEN f
      ELSE Replaced([f EXCEPT !.code[b] = SubSeq(@, 1, at - 1) \o offset.code \o <<new>> \o SubSeq(@, at, Len(@)),
                              !.vars = offset.vars + 1],
                    gep.def, new.def)

FoldGeps(m) == InFunctions(m, LAMBDA f : Through(FoldGep, f, FoldedLeaves(f)))

-----------------------------------------------------------------------------
(* Loads and users of globals *)

\* replace_by_new_value for loads of an address.
LoadsReplaced(f, addr, value) ==
  LET loads == {ins.def : ins \in {x \in Instructions(f) : x.op = "load" /\ Addr(x) = addr}}
  IN  Substituted(f, [v \in loads |-> value])

UsingFunctions(m, x) == {f.name : f \in {g \in ToSet(m.functions) : UsesGlobal(g, x)}}

\* Only main uses the global, and main is not recursive.
OnlyInMain(m, g) == UsingFunctions(m, g.name) = {"main"} /\ ~FunctionInfos(m)["main"].is_recursive

InMain(m, Change(_)) == InFunctions(m, LAMBDA f : IF f.name = "main" THEN Change(f) ELSE f)

-----------------------------------------------------------------------------
(* GlobalVariableLocalize *)

replace_const_normal_gv(m) ==
  LET Inline(n, g) == InFunctions(n, LAMBDA f : LoadsReplaced(f, GlobalVar(g.name, g.type), g.init.value))
  IN  Through(Inline, m, SelectSeq(m.globals, LAMBDA g : g.const /\ ~IsArray(g.type)))

\* An alloc and a store of the initial value at the beginning of the entry.
WithLocal(f, g) ==
  LET alloc == Alloc(f.vars, g.type)
      store == Store(alloc.def, g.init.value)
  IN  Replaced([f EXCEPT !.code[Entry(f)] = <<alloc, store>> \o @, !.vars = @ + 1],
               GlobalVar(g.name, g.type), alloc.def)

localize_scalars(m) ==
  LET Local(n, g) == IF ~IsArray(g.type) /\ OnlyInMain(m, g)
                     THEN InMain(n, LAMBDA f : WithLocal(f, g)) ELSE n
      local == DropGlobals(Through(Local, m, m.globals))
  IN  IF local.globals = m.globals THEN local ELSE PromoteMemory(local)

GlobalVariableLocalize(m) == localize_scalars(replace_const_normal_gv(m))

-----------------------------------------------------------------------------
(* GlobalArrayLocalize *)

RECURSIVE Unfolded(_, _)
\* The indexes, dimension by dimension, of a scalar of an array.
Unfolded(t, offset) ==
  IF ~IsArray(t) THEN <<>>
  ELSE LET stride == FlattenedSize(ElementType(t))
       IN  <<offset \div stride>> \o Unfolded(ElementType(t), offset % stride)

replace_const_array_gv(m) ==
  LET Geps(f, g) == SelectSeq(FlattenSeq([i \in DOMAIN f.blocks |-> f.code[f.blocks[i]]]),
                              LAMBDA ins : /\ ins.op = "gep"
                                           /\ Addr(ins) = GlobalVar(g.name, g.type)
                                           /\ IsConstant(IndexOf(ins)))
      Inline(f, g) ==
        Through(LAMBDA h, gep : LoadsReplaced(h, gep.def, ValueAt(g.init, Unfolded(g.type, NumberOf(IndexOf(gep)))).value),
                f, Geps(f, g))
  IN  Through(LAMBDA n, g : InFunctions(n, LAMBDA f : Inline(f, g)), m,
              SelectSeq(m.globals, LAMBDA g : g.const /\ IsArray(g.type)))

RECURSIVE UsersOf(_, _)
\* What uses one of the values, what uses those by a gep or a bitcast, and so on.
UsersOf(f, values) ==
  LET users == {ins \in Instructions(f) : ValuesRead(ins) \cap values # {}}
      more == values \cup {ins.def : ins \in {x \in users : x.op \in {"gep", "bitcast"}}}
  IN  IF more = values THEN users ELSE UsersOf(f, more)

array_can_localized(f, g) ==
  \A ins \in UsersOf(f, {GlobalVar(g.name, g.type)}) :
    /\ ins.op = "gep" => IsConstant(IndexOf(ins))
    /\ ins.op = "call" => ins.sub = "memset"

\* A new entry block makes and fills the array.
WithLocalArray(f, g) ==
  LET entry == Max(Blocks(f)) + 1
      b == [Builder0 EXCEPT !.f = [f EXCEPT !.blocks = <<entry>> \o @, !.code = (entry :> <<>>) @@ @], !.at = entry]
      alloc == Emit(b, Alloc(f.vars, g.type))
      filled == GenStores(alloc, g.init, alloc.value, TRUE)
  IN  Replaced(Emit(filled, Jump(Entry(f))).f, GlobalVar(g.name, g.type), alloc.value)

localize_arrays(m) ==
  LET main == FunctionNamed(m, "main")
      chosen == SelectSeq(m.globals, LAMBDA g : IsArray(g.type) /\ OnlyInMain(m, g) /\ array_can_localized(main, g))
      Local(n, g) == InMain(n, LAMBDA f : WithLocalArray(f, g))
      local == Through(Local, m, chosen)
  IN  [local EXCEPT !.globals = SelectSeq(@, LAMBDA g : g \notin ToSet(chosen))]

GlobalArrayLocalize(m) == localize_arrays(replace_const_array_gv(FoldGeps(m)))
=============================================================================
