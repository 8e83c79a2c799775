-------------------------- MODULE FunctionAnalysis --------------------------
(***************************************************************************)
(* What the functions of a module do to memory and to the outside world:   *)
(* the call graph, the attributes of every function by itself, and what it  *)
(* gets from the functions it calls.                                       *)
(***************************************************************************)
EXTENDS Mir

Callees(f) == {ins.sub : ins \in {x \in Instructions(f) : x.op = "call"}} \ (Library \cup {"memset"})

RECURSIVE BaseOf(_, _)
\* The address that geps start from.
BaseOf(defs, v) ==
  IF v \in DOMAIN defs /\ defs[v].op = "gep" THEN BaseOf(defs, Addr(defs[v])) ELSE v

use_global_addr(defs, v) == BaseOf(defs, v)[1] = "global"
has_side_effect(defs, v) == BaseOf(defs, v)[1] = "arg"

\* build_func_attribute.  The global a function uses is the address itself, whether it is
\* the variable or a gep that leads to an element.
OwnAttributes(f) ==
  LET defs == DefinitionOf(f)
      With(op) == {ins \in Instructions(f) : ins.op = op}
      loads  == {ins \in With("load") : use_global_addr(defs, Addr(ins))}
      stores == {ins \in With("store") : use_global_addr(defs, Addr(ins))}
      side   == \E ins \in With("store") : has_side_effect(defs, Addr(ins))
      relies == \E i \in DOMAIN f.params : IsPointer(f.params[i])
      Calls(S) == \E ins \in With("call") : ins.sub \in S
  IN  [memory_read |-> loads # {}, memory_write |-> stores # {}, memory_alloc |-> With("alloc") # {},
       io_read |-> Calls({"getint", "getfloat", "getarray"}),
       io_write |-> Calls({"putint", "putfloat", "putarray"}),
       has_return |-> f.type # Void, has_side_effect |-> side,
       no_state |-> ~relies /\ loads = {} /\ stores = {} /\ ~side,
       used |-> {Addr(ins) : ins \in loads \cup stores}, callees |-> Callees(f),
       is_recursive |-> f.name \in Callees(f), is_leaf |-> Callees(f) = {}]

\* mutant: what callees write is not passed on.
OwnWritesOnly(a, callee) ==
  [a EXCEPT !.memory_read = @ \/ callee.memory_read, !.memory_alloc = @ \/ callee.memory_alloc,
            !.io_read = @ \/ callee.io_read, !.io_write = @ \/ callee.io_write,
            !.used = @ \cup callee.used]

FromCallee(a, callee) ==
  [a EXCEPT !.memory_read = @ \/ callee.memory_read, !.memory_write = @ \/ callee.memory_write,
            !.memory_alloc = @ \/ callee.memory_alloc,
            !.io_read = @ \/ callee.io_read, !.io_write = @ \/ callee.io_write,
            !.has_side_effect = @ \/ callee.has_side_effect,
            !.used = @ \cup callee.used]

Settled(a) == [a EXCEPT !.no_state = @ /\ ~a.has_side_effect /\ ~a.memory_read /\ ~a.memory_write]

\* transmit_attribute for one function.
Transmitted(infos, name) ==
  [infos EXCEPT ![name] = Settled(Through(LAMBDA a, g : FromCallee(a, infos[g]), @, SetToSeq(@.callees)))]

\* The search of topo_order from one function: [visited, order], a function visited before
\* those it calls and in the order after them.
RECURSIVE Search(_, _, _)
Search(infos, s, name) ==
  LET Called(t, g) == IF g \in t.visited THEN t ELSE Search(infos, t, g)
      Ordered(t) == [t EXCEPT !.order = Append(@, name)]
  IN  Ordered(Through(Called, [s EXCEPT !.visited = @ \cup {name}], SetToSeq(infos[name].callees)))

TopoOrder(infos, name) == Search(infos, [visited |-> {}, order |-> <<>>], name).order

\* FunctionAnalysis::analyze.
FromCallees(own) == Through(Transmitted, own, TopoOrder(own, "main"))
FunctionInfos(m) == FromCallees([name \in FunctionNames(m) |-> OwnAttributes(FunctionNamed(m, name))])
=============================================================================
