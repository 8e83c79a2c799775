------------------------ MODULE LoadStoreElimination ------------------------
(***************************************************************************)
(* LoadEliminate replaces a load by the value stored or loaded before at    *)
(* the same place; StoreEliminate removes a store that is overwritten.     *)
(*                                                                         *)
(* A place is an array (the address geps start from) with an index, or a    *)
(* global variable with None.                                              *)
(***************************************************************************)
EXTENDS DominanceGraph, FunctionAnalysis

PlaceOf(defs, addr) ==
  IF addr \in DOMAIN defs /\ defs[addr].op = "gep"
  THEN [base |-> Addr(defs[addr]), index |-> IndexOf(defs[addr])]
  ELSE [base |-> addr, index |-> None]

IsElement(place) == place.index # None

RECURSIVE base_addr(_, _)
base_addr(defs, v) ==
  IF v \in DOMAIN defs /\ defs[v].op \in {"gep", "bitcast"} THEN base_addr(defs, Addr(defs[v])) ELSE v

Minus(map, places) == [p \in DOMAIN map \ places |-> map[p]]
OfBase(map, base)  == {p \in DOMAIN map : p.base = base}

\* The arrays a call may change through its arguments.
ChangedArguments(defs, ins) == {base_addr(defs, v) : v \in {x \in ToSet(ins.args) : IsPointer(TypeOf(x))}}

IsPut(ins) == ins.sub \in {"putint", "putfloat", "putarray"}

\* Functions of the library count as writing memory and what their arguments point to.
Writes(infos, ins)  == ins.sub \in DOMAIN infos => infos[ins.sub].memory_write
Affects(infos, ins) == ins.sub \in DOMAIN infos => infos[ins.sub].has_side_effect

-----------------------------------------------------------------------------
(* Loads: what is known of places, from stores and from loads. *)

Nothing == [stored |-> <<>>, loaded |-> <<>>]

Forget(known, places) ==
  [stored |-> Minus(known.stored, places), loaded |-> Minus(known.loaded, places)]

KnownPlaces(known) == DOMAIN known.stored \cup DOMAIN known.loaded

\* handle_store: at a constant index the other places of the array keep what is known.
StoredAt(known, place, v) ==
  LET all == {p \in KnownPlaces(known) : p.base = place.base}
      kept == IF IsElement(place) /\ ~IsConstant(place.index) THEN Forget(known, all) ELSE known
  IN  [stored |-> (place :> v) @@ kept.stored, loaded |-> Minus(kept.loaded, {place})]

\* handle_call
AfterCall(known, infos, defs, ins) ==
  LET changed == IF Affects(infos, ins) THEN ChangedArguments(defs, ins) ELSE {}
      used == IF Writes(infos, ins) /\ ins.sub \in DOMAIN infos THEN infos[ins.sub].used ELSE {}
      Hit(p) == (IsElement(p) /\ p.base \in changed) \/ p.base \in used
  IN  IF IsPut(ins) THEN known ELSE Forget(known, {p \in KnownPlaces(known) : Hit(p)})

RECURSIVE EliminateLoads(_, _, _)
\* dfs; the state is [f, subst, known], env what does not change: [infos, defs, pred, children].
EliminateLoads(s, b, env) ==
  LET Visit(a, given) ==
        LET ins == InArgs(given, a.subst)
            raw == PlaceOf(env.defs, Addr(ins))
            place == [raw EXCEPT !.index = Now(a.subst, @)]
            isPlace == IsElement(place) \/ place.base[1] = "global"
            value == IF place \in DOMAIN a.known.stored THEN a.known.stored[place] ELSE a.known.loaded[place]
        IN  CASE ins.op = "load" /\ isPlace /\ place \in KnownPlaces(a.known) ->
                   [a EXCEPT !.subst = (ins.def :> value) @@ @]
              [] ins.op = "load" /\ isPlace ->
                   [a EXCEPT !.kept = Append(@, ins), !.known.loaded = (place :> ins.def) @@ @]
              [] ins.op = "store" ->
                   [a EXCEPT !.kept = Append(@, ins), !.known = StoredAt(@, place, ins.args[2])]
              [] ins.op = "call" ->
                   [a EXCEPT !.kept = Append(@, ins), !.known = AfterCall(@, env.infos, env.defs, ins)]
              [] OTHER -> [a EXCEPT !.kept = Append(@, ins)]
      known == IF Cardinality(env.pred[b]) > 1 THEN Nothing ELSE s.known
      in == Through(Visit, [subst |-> s.subst, known |-> known, kept |-> <<>>], s.f.code[b])
      Child(a, c) == [EliminateLoads(a, c, env) EXCEPT !.known = a.known]
  IN  Through(Child, [f |-> [s.f EXCEPT !.code[b] = in.kept], subst |-> in.subst, known |-> in.known],
              InOrder(env.children[b]))

LoadEliminate(m) ==
  LET infos == FunctionInfos(m)
      InFunction(f) ==
        LET env == [infos |-> infos, defs |-> DefinitionOf(f), pred |-> Predecessors(f),
                    children |-> Dominance(f).children]
            end == EliminateLoads([f |-> f, subst |-> <<>>, known |-> Nothing], Entry(f), env)
        IN  Substituted(end.f, end.subst)
  IN  InFunctions(m, InFunction)

-----------------------------------------------------------------------------
(* Stores: the last one at each place that nothing has read since, by its   *)
(* position in the block; a block starts with none.                        *)

\* handle_load
LoadFrom(pending, place) ==
  IF IsElement(place) /\ ~IsConstant(place.index) THEN Minus(pending, OfBase(pending, place.base))
  ELSE Minus(pending, {place})

\* handle_store: the pending stores after it, and the store it makes superfluous.
StoreTo(pending, place, i) ==
  LET kept == IF IsElement(place) /\ ~IsConstant(place.index) THEN Minus(pending, OfBase(pending, place.base))
              ELSE pending
  IN  (place :> i) @@ kept

\* handle_call
CallWith(pending, infos, defs, ins) ==
  LET changed == IF Affects(infos, ins) THEN ChangedArguments(defs, ins) ELSE {}
      Hit(p) == \/ IsElement(p) /\ p.base \in changed
                \/ Writes(infos, ins) /\ p.base[1] = "global"
  IN  IF IsPut(ins) THEN pending ELSE Minus(pending, {p \in DOMAIN pending : Hit(p)})

SuperfluousStores(code, infos, defs) ==
  LET Visit(a, i) ==
        LET ins == code[i]
            place == PlaceOf(defs, Addr(ins))
        IN  CASE ins.op = "load" -> [a EXCEPT !.pending = LoadFrom(@, place)]
              [] ins.op = "store" /\ (IsElement(place) \/ place.base[1] = "global") ->
                   [pending |-> StoreTo(a.pending, place, i),
                    superfluous |-> IF place \in DOMAIN a.pending THEN a.superfluous \cup {a.pending[place]}
                                    ELSE a.superfluous]
              [] ins.op = "call" -> [a EXCEPT !.pending = CallWith(@, infos, defs, ins)]
              [] OTHER -> a
  IN  Through(Visit, [pending |-> <<>>, superfluous |-> {}], [i \in DOMAIN code |-> i]).superfluous

StoreEliminate(m) ==
  LET infos == FunctionInfos(m)
      InBlock(code, defs) ==
        LET out == SuperfluousStores(code, infos, defs)
            kept == SelectSeq([i \in DOMAIN code |-> i], LAMBDA i : i \notin out)
        IN  [k \in DOMAIN kept |-> code[kept[k]]]
  IN  InFunctions(m, LAMBDA f : LET defs == DefinitionOf(f)
                                IN  [f EXCEPT !.code = [b \in DOMAIN @ |-> InBlock(@[b], defs)]])
=============================================================================
