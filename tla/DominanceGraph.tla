--------------------------- MODULE DominanceGraph ---------------------------
(***************************************************************************)
(* The graph of a function's blocks and who dominates whom: sets of         *)
(* dominators by iteration, the tree by the algorithm of Lengauer and       *)
(* Tarjan with path compression, and the frontiers from the tree.          *)
(*                                                                         *)
(* Unordered sets of blocks are visited by number.                         *)
(***************************************************************************)
EXTENDS Mir, FiniteSetsExt

Blocks(f) == ToSet(f.blocks)
InOrder(S) == SetToSortSeq(S, <)

Successors(f)   == [b \in Blocks(f) |-> Targets(f.code[b])]
Predecessors(f) == [b \in Blocks(f) |-> {a \in Blocks(f) : b \in Targets(f.code[a])}]

-----------------------------------------------------------------------------
(* Sets of dominators *)

IntersectionOver(S, g) ==
  IF S = {} THEN {} ELSE LET one == CHOOSE a \in S : TRUE IN {d \in g[one] : \A a \in S : d \in g[a]}

RECURSIVE Narrowed(_, _, _)
Narrowed(f, pred, dominator) ==
  LET Update(g, b) == IF b = Entry(f) THEN g ELSE [g EXCEPT ![b] = IntersectionOver(pred[b], g) \cup {b}]
      next == Through(Update, dominator, f.blocks)
  IN  IF next = dominator THEN dominator ELSE Narrowed(f, pred, next)

Dominators(f) ==
  Narrowed(f, Predecessors(f), [b \in Blocks(f) |-> IF b = Entry(f) THEN {b} ELSE Blocks(f)])

-----------------------------------------------------------------------------
(* The tree: the state of the algorithm is [num, order, parent, ancestor,   *)
(* best, semi, bucket, idom].                                              *)

NoBlock == -1

RECURSIVE Dfs(_, _, _), Compress(_, _)

Dfs(succ, v, t) ==
  LET entered == [t EXCEPT !.num = (v :> Len(t.order)) @@ @, !.order = Append(@, v)]
      Child(acc, w) == IF w \in DOMAIN acc.num THEN acc ELSE Dfs(succ, w, [acc EXCEPT !.parent = (w :> v) @@ @])
  IN  Through(Child, entered, InOrder(succ[v]))

CompressWithoutBest(t, v) ==   \* mutant: the path is shortened, the best on it forgotten
  IF t.ancestor[v] = NoBlock \/ t.ancestor[t.ancestor[v]] = NoBlock THEN t
  ELSE [t EXCEPT !.ancestor[v] = t.ancestor[t.ancestor[v]]]

Compress(t, v) ==
  LET a == t.ancestor[v]
      c == Compress(t, a)
      better == c.num[c.semi[c.best[a]]] < c.num[c.semi[c.best[v]]]
  IN  IF a = NoBlock \/ t.ancestor[a] = NoBlock THEN t
      ELSE [c EXCEPT !.best[v] = IF better THEN c.best[a] ELSE @, !.ancestor[v] = c.ancestor[a]]

\* find: the block found, and the state with its path compressed.
Find(t, v) ==
  LET Found(c) == [block |-> c.best[v], state |-> c]
  IN  IF t.ancestor[v] = NoBlock THEN [block |-> v, state |-> t] ELSE Found(Compress(t, v))

\* One block of the loop of compute, in reverse order of the search.
Semidominated(f, succ, t, v) ==
  LET p == t.parent[v]
      Earlier(c, s) == [c EXCEPT !.semi[v] = IF c.num[s] < c.num[@] THEN s ELSE @]
      OfFound(r) == Earlier(r.state, r.state.semi[r.block])
      Pred(acc, u) ==
        CASE v \notin succ[u] -> acc
          [] acc.num[u] > acc.num[v] -> OfFound(Find(acc, u))
          [] OTHER -> Earlier(acc, u)
      Linked(semi) == [semi EXCEPT !.bucket[semi.semi[v]] = Append(@, v), !.ancestor[v] = p]
      Decided(r, w) ==
        [r.state EXCEPT !.idom[w] = IF r.state.semi[r.block] = r.state.semi[w] THEN p ELSE r.block]
      Bucketed(linked) ==
        [Through(LAMBDA acc, w : Decided(Find(acc, w), w), linked, linked.bucket[p]) EXCEPT !.bucket[p] = <<>>]
  IN  Bucketed(Linked(Through(Pred, t, f.blocks)))

\* LengauerTarjan::compute.
ImmediateDominators(f) ==
  LET succ == Successors(f)
      d == Dfs(succ, Entry(f), [num |-> <<>>, order |-> <<>>, parent |-> Entry(f) :> NoBlock])
      all == Blocks(f)
      start == d @@ [ancestor |-> [b \in all |-> NoBlock], best |-> [b \in all |-> b], semi |-> [b \in all |-> b],
                     bucket |-> [b \in all |-> <<>>], idom |-> [b \in all |-> NoBlock]]
      Settle(t, v) == IF t.idom[v] # t.semi[v] THEN [t EXCEPT !.idom[v] = t.idom[t.idom[v]]] ELSE t
      swept == Through(LAMBDA t, v : Semidominated(f, succ, t, v), start, Reverse(Tail(d.order)))
  IN  Through(Settle, swept, Tail(d.order)).idom

DominanceChildren(f, idom) == [b \in Blocks(f) |-> {c \in Blocks(f) : idom[c] = b}]

\* mutant: the way up the tree also ends at the join itself.
FrontierWithoutJoin(f, idom) ==
  LET pred == Predecessors(f)
      RECURSIVE Runners(_, _)
      Runners(r, ends) == IF r \in ends THEN {} ELSE {r} \cup Runners(idom[r], ends)
      joins == {x \in Blocks(f) : Cardinality(pred[x]) >= 2}
  IN  [b \in Blocks(f) |-> {x \in joins : \E p \in pred[x] : b \in Runners(p, {idom[x], x, NoBlock})}]

\* From every predecessor of a join up the tree to the dominator of the join.
DominanceFrontier(f, idom) ==
  LET pred == Predecessors(f)
      RECURSIVE Runners(_, _)
      Runners(r, top) == IF r \in {top, NoBlock} THEN {} ELSE {r} \cup Runners(idom[r], top)
      joins == {x \in Blocks(f) : Cardinality(pred[x]) >= 2}
  IN  [b \in Blocks(f) |-> {x \in joins : \E p \in pred[x] : b \in Runners(p, idom[x])}]

\* dom_tree_layer.
RECURSIVE LayersFrom(_, _)
LayersFrom(children, layer) ==
  IF layer = <<>> THEN <<>>
  ELSE layer \o LayersFrom(children, FlattenSeq([i \in DOMAIN layer |-> InOrder(children[layer[i]])]))

\* DominanceGraph::analyze.
Dominance(f) ==
  LET Of(idom) == [idom |-> idom, children |-> DominanceChildren(f, idom), frontier |-> DominanceFrontier(f, idom)]
  IN  Of(ImmediateDominators(f))
=============================================================================
