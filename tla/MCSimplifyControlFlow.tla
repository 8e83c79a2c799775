----------------------- MODULE MCSimplifyControlFlow -----------------------
(* All functions of an entry and a few blocks.  A variable x, which blocks   *)
(* may set or show, is in SSA form: a phi where several predecessors meet.  *)
EXTENDS SimplifyControlFlow

Entry == "entry"

\* How a block may end: <<"ret">>, <<"jump", t>>, <<cond, t, f>>; a condition is a
\* constant, the input r, or the negation of x.
Ends(blocks, conditions) ==
  LET T == ToSet(blocks)
  IN  {<<"ret">>} \cup {<<"jump", t>> : t \in T}
        \cup {e \in conditions \X T \X T : e[2] # e[3]}

EntryEnds(blocks, conditions) ==
  {<<"jump", Head(blocks)>>, <<"jump", Last(blocks)>>}
    \cup {<<c, Head(blocks), Last(blocks)>> : c \in conditions}

Preds(end, b) == {a \in DOMAIN end : \E i \in 2..Len(end[a]) : end[a][i] = b}

RECURSIVE XAfter(_, _, _, _)
\* The value of x before and after a block; n bounds the way back.
XBefore(end, content, b, n) ==
  CASE b = Entry \/ n = 0 \/ Preds(end, b) = {} -> "0"
    [] Cardinality(Preds(end, b)) > 1 -> "x_" \o b
    [] OTHER -> XAfter(end, content, CHOOSE a \in Preds(end, b) : TRUE, n - 1)
XAfter(end, content, b, n) ==
  IF b # Entry /\ content[b] = "set" THEN "1" ELSE XBefore(end, content, b, n)

CodeOf(end, content, b) ==
  LET preds == Preds(end, b)
      cond == end[b][1]
      XOut(a) == XAfter(end, content, a, Cardinality(DOMAIN end))
      before == XBefore(end, content, b, Cardinality(DOMAIN end))
      phis == IF Cardinality(preds) > 1 THEN <<Phi("x_" \o b, [a \in preds |-> XOut(a)])>>
              ELSE <<>>
      body == IF b = Entry THEN <<Read("r")>>
              ELSE IF content[b] = "show" THEN <<Put(before)>> ELSE <<>>
      test == IF cond = "x" THEN <<Not("t_" \o b, XOut(b))>> ELSE <<>>
      end_ == CASE cond = "ret"  -> Ret(XOut(b))
                [] cond = "jump" -> Jump(end[b][2])
                [] OTHER -> Branch(IF cond = "x" THEN "t_" \o b ELSE cond, end[b][2], end[b][3])
  IN  Append(phis \o body \o test, end_)

FunctionsOf(blocks, contents, conditions, entryConditions) ==
  LET all == {Entry} \cup ToSet(blocks)
      Whole(end, entry) == [b \in all |-> IF b = Entry THEN entry ELSE end[b]]
  IN  {[blocks |-> <<Entry>> \o blocks,
        code |-> [b \in all |-> CodeOf(Whole(end, entry), content, b)]] :
         end \in [ToSet(blocks) -> Ends(blocks, conditions)],
         entry \in EntryEnds(blocks, entryConditions), content \in contents}

TwoBlocks ==
  FunctionsOf(<<"b", "c">>, [{"b", "c"} -> {"nothing", "show", "set"}],
              {"1", "r", "x"}, {"0", "1", "r"})

ThreeBlocks ==
  {f \in FunctionsOf(<<"b", "c", "d">>,
                     {[b |-> "nothing", c |-> "nothing", d |-> "nothing"],
                      [b |-> "set", c |-> "nothing", d |-> "show"]}, {"1", "r"}, {"r"}) :
     EveryBlockReturns(f)}

\* A chain p -> e -> b whose last block only branches: it is hoisted into p when
\* e has been merged.  Block t gets empty if all it does is folded.
Chain(inT) ==
  [blocks |-> <<Entry, "p", "q", "e", "b", "t", "f", "x", "z">>,
   code |-> [entry |-> <<Read("r"), Read("s"), Branch("r", "p", "q")>>,
             p |-> <<Put("r"), Jump("e")>>,
             q |-> <<Branch("1", "z", "e")>>,
             e |-> <<Phi("v", [p |-> "0", q |-> "1"]), Jump("b")>>,
             b |-> <<Branch("s", "t", "f")>>,
             t |-> inT \o <<Not("y", "v"), Jump("x")>>,
             f |-> <<Put("s"), Jump("x")>>,
             x |-> <<Phi("w", [t |-> "y", f |-> "0"]), Ret("w")>>,
             z |-> <<Ret("0")>>]]

\* The chain with a condition that gets constant after b has been hoisted: then only b,
\* which is gone, is left of the predecessors of f.  The loop w has no exit.
HoistedBefore ==
  LET chain == Chain(<<Put("s")>>)
      altered == [w |-> <<Put("s"), Jump("w")>>,
                  e |-> <<Phi("v", [p |-> "0", q |-> "1"]), Not("c", "v"), Jump("b")>>,
                  b |-> <<Branch("c", "t", "f")>>,
                  f |-> <<Branch("s", "x", "w")>>]
  IN  [blocks |-> Append(chain.blocks, "w"), code |-> altered @@ chain.code]

\* A branch that gets two equal targets when e is removed, and then a constant condition.
Rejoined ==
  [blocks |-> <<Entry, "e", "x">>,
   code |-> [entry |-> <<Read("r"), Not("c", "0"), Branch("c", "e", "x")>>,
             e |-> <<Jump("x")>>,
             x |-> <<Put("r"), Ret("r")>>]]

ManyFunctions == TwoBlocks \cup ThreeBlocks \cup {Chain(<<Put("s")>>), HoistedBefore, Rejoined}
FailingFunctions == TwoBlocks \cup {Chain(<<>>)}

MCInputs == {<<x, y>> : x, y \in Constants}
=============================================================================
