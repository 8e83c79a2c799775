--------------------- MODULE SimplifyControlFlow_proofs ---------------------
(***************************************************************************)
(* What the code does to a function is followed on two levels.  What an    *)
(* operation makes of the code of a block is said by where the block goes   *)
(* and for which blocks its phis have options (Follows, EndsLike); what a   *)
(* step makes of a function is then a step of a graph: a set of live blocks *)
(* L, the targets T of each and the keys K of its phis (GraphMerged,       *)
(* GraphBypassed, GraphHoisted), which the copies take too (CopiesMerged,   *)
(* CopiesBypassed, CopiesHoisted).                                         *)
(*                                                                         *)
(* That folding a branch keeps the copies true needs more than the graph:   *)
(* BranchesApart says from which loop to which loop a branch may test a     *)
(* constant, and may go to one block twice.                                *)
(***************************************************************************)
EXTENDS SimplifyControlFlow, NumberLemmas, SequenceTheorems, FiniteSetTheorems

-----------------------------------------------------------------------------
(* Sequences. *)

LEMMA AppendedElements ==
  ASSUME NEW S, NEW s \in Seq(S), NEW x \in S
  PROVE  ToSet(Append(s, x)) = ToSet(s) \cup {x}
<1>1. DOMAIN Append(s, x) = (1..Len(s)) \cup {Len(s) + 1} /\ DOMAIN s = 1..Len(s)
  OBVIOUS
<1>2. (\A j \in 1..Len(s) : Append(s, x)[j] = s[j]) /\ Append(s, x)[Len(s) + 1] = x
  OBVIOUS
<1>3. \A e : e \in ToSet(Append(s, x)) => e \in ToSet(s) \cup {x}
  BY <1>1, <1>2 DEF ToSet
<1>4. \A e : e \in ToSet(s) => e \in ToSet(Append(s, x))
  BY <1>1, <1>2 DEF ToSet
<1>5. x \in ToSet(Append(s, x))
  BY <1>1, <1>2 DEF ToSet
<1> QED BY <1>3, <1>4, <1>5

\* The elements of the kept part, and its end.
ThoseKept(s, kept, set) ==
  /\ ToSet(kept) = ToSet(s) \cap set
  /\ s # <<>> /\ Last(s) \in set => kept # <<>> /\ Last(kept) = Last(s)

LEMMA ThoseAre ==
  ASSUME NEW S, NEW s \in Seq(S), NEW set
  PROVE  Those(s, set) \in Seq(S) /\ ThoseKept(s, Those(s, set), set)
<1> DEFINE n == Len(s)
           T == [p \in Seq(S) \X (1..n) |-> IF s[p[2]] \in set THEN Append(p[1], s[p[2]]) ELSE p[1]]
           K == CHOOSE f : f = [i \in 0..n |-> IF i = 0 THEN <<>>
                                  ELSE IF s[i] \in set THEN Append(f[i - 1], s[i]) ELSE f[i - 1]]
<1>1. n \in Nat /\ <<>> \in Seq(S) /\ T \in [Seq(S) \X (1..n) -> Seq(S)]
  OBVIOUS
<1>2. \A i \in 1..n, q \in Seq(S) : T[<<q, i>>] = IF s[i] \in set THEN Append(q, s[i]) ELSE q
  OBVIOUS
<1>3. Those(s, set) = K[n]
  BY DEF Those
<1>4. ToSet(s) = {s[j] : j \in 1..n} /\ (s # <<>> => n # 0 /\ Last(s) = s[n])
  BY DEF ToSet, Last
<1>5. \A i \in 1..n : s[i] \in S
  OBVIOUS
<1>6. K = [i \in 0..n |-> IF i = 0 THEN <<>>
                            ELSE IF s[i] \in set THEN Append(K[i - 1], s[i]) ELSE K[i - 1]]
  <2> HIDE DEF n, T
  <2>1. PICK f \in [0..n -> Seq(S)] : Iterates(f, n, <<>>, T)
    BY <1>1, IterationExists
  <2>2. \A i \in 1..n : i - 1 \in 0..n /\ i \in 0..n /\ i # 0
    BY <1>1
  <2>3. \A i \in 1..n : f[i] = IF s[i] \in set THEN Append(f[i - 1], s[i]) ELSE f[i - 1]
    BY <1>2, <2>1, <2>2 DEF Iterates
  <2>4. \A i \in 0..n : i = 0 \/ i \in 1..n
    BY <1>1
  <2>5. f = [i \in 0..n |-> IF i = 0 THEN <<>>
                            ELSE IF s[i] \in set THEN Append(f[i - 1], s[i]) ELSE f[i - 1]]
    <3> HIDE DEF K
    <3> QED BY <2>1, <2>3, <2>4 DEF Iterates
  <2> QED BY <2>5
<1> HIDE DEF K, n, T
<1>7. K[0] = <<>> /\ \A i \in 0..(n - 1) : K[i + 1] = IF s[i + 1] \in set THEN Append(K[i], s[i + 1])
                                                       ELSE K[i]
  <2>1. \A i \in 0..(n - 1) : i + 1 \in 0..n /\ i + 1 # 0 /\ (i + 1) - 1 = i
    BY <1>1
  <2>2. 0 \in 0..n
    BY <1>1
  <2> QED BY <1>6, <2>1, <2>2
<1> DEFINE Seen(i) == {s[j] : j \in 1..i}
           Good == {i \in 0..n : /\ K[i] \in Seq(S)
                                 /\ ToSet(K[i]) = Seen(i) \cap set
                                 /\ i # 0 /\ s[i] \in set => K[i] # <<>> /\ Last(K[i]) = s[i]}
<1>8. 0 \in Good
  <2>1. ToSet(<<>>) = {} /\ Seen(0) = {}
    BY DEF ToSet
  <2> HIDE DEF Seen
  <2>2. 0 \in 0..n /\ <<>> \in Seq(S)
    BY <1>1
  <2> QED BY <1>7, <2>1, <2>2
<1>9. ASSUME NEW i \in 0..(n - 1), i \in Good PROVE i + 1 \in Good
  <2>1. i + 1 \in 1..n /\ i + 1 \in 0..n /\ s[i + 1] \in S
    BY <1>1, <1>5
  <2>2. Seen(i + 1) = Seen(i) \cup {s[i + 1]}
    <3>1. 1..(i + 1) = (1..i) \cup {i + 1}
      OBVIOUS
    <3> QED BY <3>1
  <2>3. K[i] \in Seq(S) /\ ToSet(K[i]) = Seen(i) \cap set
    BY <1>9
  <2> HIDE DEF Seen
  <2>4. CASE s[i + 1] \in set
    <3>1. K[i + 1] = Append(K[i], s[i + 1])
      BY <1>7, <2>4
    <3>2. Append(K[i], s[i + 1]) \in Seq(S) /\ Append(K[i], s[i + 1]) # <<>>
          /\ Last(Append(K[i], s[i + 1])) = s[i + 1]
      BY <2>1, <2>3 DEF Last
    <3>3. ToSet(Append(K[i], s[i + 1])) = ToSet(K[i]) \cup {s[i + 1]}
      BY <2>1, <2>3, AppendedElements
    <3>4. Seen(i + 1) \cap set = (Seen(i) \cap set) \cup {s[i + 1]}
      BY <2>2, <2>4
    <3> QED BY <2>1, <2>3, <3>1, <3>2, <3>3, <3>4
  <2>5. CASE s[i + 1] \notin set
    <3>1. K[i + 1] = K[i]
      BY <1>7, <2>5
    <3>2. Seen(i + 1) \cap set = Seen(i) \cap set
      BY <2>2, <2>5
    <3> QED BY <2>1, <2>3, <2>5, <3>1, <3>2
  <2> QED BY <2>4, <2>5
<1>10. n \in Good
  <2> HIDE DEF Good
  <2>1. \A i \in 0..n : i \in Good
    BY <1>1, <1>8, <1>9, NumbersUpTo
  <2> QED BY <1>1, <2>1
<1> QED BY <1>1, <1>3, <1>4, <1>10 DEF ThoseKept

LEMMA FrontOf ==
  ASSUME NEW S, NEW s \in Seq(S)
  PROVE  Front(s) \in Seq(S) /\ ToSet(Front(s)) \subseteq ToSet(s)
<1>1. CASE s = <<>>
  <2>1. Front(s) = <<>>
    BY <1>1 DEF Front
  <2> QED BY <2>1, <1>1
<1>2. CASE s # <<>>
  <2>1. Len(s) \in Nat /\ Len(s) # 0
    BY <1>2
  <2>2. /\ Front(s) \in Seq(S) /\ Len(Front(s)) = Len(s) - 1
        /\ \A i \in 1..(Len(s) - 1) : Front(s)[i] = s[i]
    <3> DEFINE n == Len(s) - 1
    <3>1. n \in Nat /\ n <= Len(s)
      BY <2>1
    <3> HIDE DEF n
    <3>2. /\ SubSeq(s, 1, n) \in Seq(S) /\ Len(SubSeq(s, 1, n)) = n
          /\ \A i \in 1..n : SubSeq(s, 1, n)[i] = s[i]
      BY <2>1, <3>1
    <3> QED BY <3>2 DEF Front, n
  <2>3. DOMAIN Front(s) = 1..(Len(s) - 1) /\ DOMAIN s = 1..Len(s)
    BY <2>2
  <2>4. \A i \in 1..(Len(s) - 1) : i \in 1..Len(s)
    BY <2>1
  <2> QED BY <2>2, <2>3, <2>4 DEF ToSet
<1> QED BY <1>1, <1>2

\* A block with another end.
LEMMA EndReplaced ==
  ASSUME NEW S, NEW s \in Seq(S), NEW x \in S
  PROVE  /\ Append(Front(s), x) \in Seq(S) /\ Append(Front(s), x) # <<>>
         /\ Last(Append(Front(s), x)) = x
         /\ ToSet(Append(Front(s), x)) \subseteq ToSet(s) \cup {x}
<1>1. Front(s) \in Seq(S) /\ ToSet(Front(s)) \subseteq ToSet(s)
  BY FrontOf
<1>2. ToSet(Append(Front(s), x)) = ToSet(Front(s)) \cup {x}
  BY <1>1, AppendedElements
<1>3. \A t \in Seq(S) : Append(t, x) \in Seq(S) /\ Append(t, x) # <<>> /\ Last(Append(t, x)) = x
  BY DEF Last
<1> QED BY <1>1, <1>2, <1>3

LEMMA Joined ==
  ASSUME NEW S, NEW s \in Seq(S), NEW t \in Seq(S), t # <<>>
  PROVE  /\ s \o t \in Seq(S) /\ s \o t # <<>> /\ Last(s \o t) = Last(t)
         /\ ToSet(s \o t) \subseteq ToSet(s) \cup ToSet(t)
<1>1. Len(t) \in Nat \ {0} /\ Len(s) \in Nat /\ Len(s \o t) = Len(s) + Len(t) /\ s \o t \in Seq(S)
  OBVIOUS
<1>2. \A i \in 1..Len(s) : (s \o t)[i] = s[i]
  OBVIOUS
<1>3. \A i \in 1..Len(t) : (s \o t)[Len(s) + i] = t[i]
  OBVIOUS
<1>4. \A i \in 1..(Len(s) + Len(t)) : i \in 1..Len(s) \/ \E j \in 1..Len(t) : i = Len(s) + j
  <2>1. \A i \in 1..(Len(s) + Len(t)) : i \notin 1..Len(s) =>
           i - Len(s) \in 1..Len(t) /\ i = Len(s) + (i - Len(s))
    BY <1>1
  <2> QED BY <2>1
<1>5. DOMAIN (s \o t) = 1..(Len(s) + Len(t)) /\ DOMAIN s = 1..Len(s) /\ DOMAIN t = 1..Len(t)
  BY <1>1
<1>6. ToSet(s \o t) \subseteq ToSet(s) \cup ToSet(t)
  <2>1. ASSUME NEW i \in 1..(Len(s) + Len(t)) PROVE (s \o t)[i] \in ToSet(s) \cup ToSet(t)
    <3>1. CASE i \in 1..Len(s)
      BY <1>2, <1>5, <3>1 DEF ToSet
    <3>2. CASE \E j \in 1..Len(t) : i = Len(s) + j
      <4>1. PICK j \in 1..Len(t) : i = Len(s) + j
        BY <3>2
      <4>2. (s \o t)[i] = t[j] /\ t[j] \in ToSet(t)
        BY <1>3, <1>5, <4>1 DEF ToSet
      <4> QED BY <4>2
    <3> QED BY <1>4, <3>1, <3>2
  <2> QED BY <1>5, <2>1 DEF ToSet
<1>7. Last(s \o t) = Last(t)
  BY <1>1, <1>3 DEF Last
<1> QED BY <1>1, <1>6, <1>7

\* A block without an instruction that is not its last.
LEMMA Removed ==
  ASSUME NEW S, NEW s \in Seq(S), NEW k \in 1..Len(s), k # Len(s)
  PROVE  /\ RemoveAt(s, k) \in Seq(S) /\ RemoveAt(s, k) # <<>>
         /\ Last(RemoveAt(s, k)) = Last(s) /\ ToSet(RemoveAt(s, k)) \subseteq ToSet(s)
<1> DEFINE u == SubSeq(s, 1, k - 1)
           v == SubSeq(s, k + 1, Len(s))
<1>1. Len(s) \in Nat /\ k \in Nat /\ 1 <= k /\ k < Len(s)
  OBVIOUS
<1>2. u \in Seq(S) /\ Len(u) = k - 1 /\ \A i \in 1..(k - 1) : u[i] = s[i]
  BY <1>1
<1>3. v \in Seq(S) /\ Len(v) = Len(s) - k /\ \A i \in 1..(Len(s) - k) : v[i] = s[k + i]
  BY <1>1
<1>4. RemoveAt(s, k) = u \o v
  BY DEF RemoveAt
<1> HIDE DEF u, v
<1>5. v # <<>> /\ Last(v) = Last(s)
  BY <1>1, <1>3 DEF Last
<1>6. /\ u \o v \in Seq(S) /\ u \o v # <<>> /\ Last(u \o v) = Last(v)
      /\ ToSet(u \o v) \subseteq ToSet(u) \cup ToSet(v)
  BY <1>2, <1>3, <1>5, Joined
<1>7. ToSet(u) \subseteq ToSet(s) /\ ToSet(v) \subseteq ToSet(s)
  <2>1. \A i \in 1..(k - 1) : i \in 1..Len(s)
    BY <1>1
  <2>2. \A i \in 1..(Len(s) - k) : k + i \in 1..Len(s)
    BY <1>1
  <2>3. DOMAIN u = 1..(k - 1) /\ DOMAIN v = 1..(Len(s) - k) /\ DOMAIN s = 1..Len(s)
    BY <1>1, <1>2, <1>3
  <2>4. ToSet(u) \subseteq ToSet(s)
    BY <1>2, <2>1, <2>3 DEF ToSet
  <2>5. ToSet(v) \subseteq ToSet(s)
    BY <1>3, <2>2, <2>3 DEF ToSet
  <2> QED BY <2>4, <2>5
<1> QED BY <1>4, <1>5, <1>6, <1>7

-----------------------------------------------------------------------------
(* What the functions of a run are made of. *)

Values == Constants \cup UNION {UNION {ValuesRead(ins) : ins \in InstructionsOf(f)} : f \in Sources}

Names == {None} \cup UNION {{ins.def : ins \in InstructionsOf(f)} : f \in Sources}

Operations == {"jump"} \cup UNION {{ins.op : ins \in InstructionsOf(f)} : f \in Sources}

Options(B) == UNION {[keys -> Values] : keys \in SUBSET B}

Instructions(B) ==
  {ins \in [op : Operations, def : Names, args : Seq(Values), to : Seq(B), opts : Options(B)] :
     /\ ins.op = "jump" => Len(ins.to) = 1
     /\ ins.op = "branch" => Len(ins.to) = 2 /\ Len(ins.args) = 1}

Functions(B) ==
  [blocks : Seq(B), code : [B -> Seq(Instructions(B))], deleted : SUBSET B,
   forgotten : SUBSET (Names \X Values)]

\* An instruction with other values, its targets renamed by r and its keys by k.
InstructionRewired(ins, old, r, k) ==
  /\ ins.op = old.op
  /\ ins.to = [j \in DOMAIN old.to |-> r[old.to[j]]]
  /\ Keys(ins) = k[Keys(old)]

\* Block t is block s with its instructions rewired.
Rewired(t, s, r, k) ==
  /\ Len(t) = Len(s)
  /\ \A i \in 1..Len(s) : InstructionRewired(t[i], s[i], r, k)

\* What the graph needs of a block: that a terminator ends it, its targets (see
\* MirCode), and the keys of its phis.
Ends(instructions) == instructions # <<>> /\ IsTerminator(Last(instructions))

KeySets(instructions) == {Keys(ins) : ins \in PhisOf(instructions)}

\* What the graph knows of a rewired block.
Follows(t, s, r, k) ==
  /\ Ends(s) => Ends(t)
  /\ Targets(t) = {r[x] : x \in Targets(s)}
  /\ \A keys \in KeySets(t) : \E old \in KeySets(s) : keys = k[old]

LEMMA RewiredFollows ==
  ASSUME NEW B, NEW s \in Seq(Instructions(B)), NEW t \in Seq(Instructions(B)), NEW r, NEW k,
         Rewired(t, s, r, k)
  PROVE  Follows(t, s, r, k)
<1>1. /\ Len(t) = Len(s) /\ Len(s) \in Nat /\ DOMAIN s = 1..Len(s) /\ DOMAIN t = 1..Len(s)
      /\ (s = <<>> <=> Len(s) = 0) /\ (t = <<>> <=> Len(s) = 0)
  BY DEF Rewired
<1>2. s # <<>> => Len(s) \in 1..Len(s)
  BY <1>1
<1>3. Ends(s) => Ends(t)
  BY <1>1, <1>2 DEF Ends, Rewired, InstructionRewired, IsTerminator, Last
<1>4. Targets(t) = {r[x] : x \in Targets(s)}
  <2>1. CASE s = <<>>
    BY <1>1, <2>1 DEF Targets
  <2>2. CASE s # <<>>
    <3>1. Last(t).to = [j \in DOMAIN Last(s).to |-> r[Last(s).to[j]]]
      BY <1>1, <1>2, <2>2 DEF Rewired, InstructionRewired, Last
    <3>2. Targets(t) = ToSet(Last(t).to) /\ Targets(s) = ToSet(Last(s).to)
      BY <1>1, <2>2 DEF Targets
    <3> QED BY <3>1, <3>2 DEF ToSet
  <2> QED BY <2>1, <2>2
<1>5. ASSUME NEW ins \in PhisOf(t) PROVE \E old \in PhisOf(s) : Keys(ins) = k[Keys(old)]
  <2>1. PICK i \in 1..Len(s) : ins = t[i]
    BY <1>1 DEF PhisOf, ToSet
  <2>2. s[i] \in PhisOf(s)
    BY <1>1, <2>1 DEF Rewired, InstructionRewired, PhisOf, ToSet, IsPhi
  <2>3. Keys(ins) = k[Keys(s[i])]
    BY <2>1 DEF Rewired, InstructionRewired
  <2> QED BY <2>2, <2>3
<1>6. \A keys \in KeySets(t) : \E old \in KeySets(s) : keys = k[old]
  BY <1>5 DEF KeySets
<1> QED BY <1>3, <1>4, <1>6 DEF Follows

\* A block whose instructions read other values.
Similar(t, s) ==
  /\ Len(t) = Len(s)
  /\ \A i \in 1..Len(s) : t[i].op = s[i].op /\ t[i].to = s[i].to /\ Keys(t[i]) = Keys(s[i])

\* The graph does not see the difference.
SameView(t, s) ==
  (Ends(s) => Ends(t)) /\ Targets(t) = Targets(s) /\ KeySets(t) \subseteq KeySets(s)

LEMMA SimilarView ==
  ASSUME NEW B, NEW s \in Seq(Instructions(B)), NEW t \in Seq(Instructions(B)), Similar(t, s)
  PROVE  SameView(t, s)
<1>1. /\ Len(t) = Len(s) /\ Len(s) \in Nat /\ DOMAIN s = 1..Len(s) /\ DOMAIN t = 1..Len(s)
      /\ (s = <<>> <=> Len(s) = 0) /\ (t = <<>> <=> Len(s) = 0)
  BY DEF Similar
<1>2. s # <<>> => Len(s) \in 1..Len(s)
  BY <1>1
<1>3. Ends(s) => Ends(t)
  BY <1>1, <1>2 DEF Ends, Similar, IsTerminator, Last
<1>4. Targets(t) = Targets(s)
  <2>1. CASE s = <<>>
    BY <1>1, <2>1 DEF Targets
  <2>2. CASE s # <<>>
    <3>1. Last(t).to = Last(s).to
      BY <1>1, <1>2, <2>2 DEF Similar, Last
    <3> QED BY <1>1, <2>2, <3>1 DEF Targets
  <2> QED BY <2>1, <2>2
<1>5. ASSUME NEW ins \in PhisOf(t) PROVE \E old \in PhisOf(s) : Keys(ins) = Keys(old)
  <2>1. PICK i \in 1..Len(s) : ins = t[i]
    BY <1>1 DEF PhisOf, ToSet
  <2>2. s[i] \in PhisOf(s)
    BY <1>1, <2>1 DEF Similar, PhisOf, ToSet, IsPhi
  <2> QED BY <2>1, <2>2 DEF Similar
<1>6. KeySets(t) \subseteq KeySets(s)
  BY <1>5 DEF KeySets
<1> QED BY <1>3, <1>4, <1>6 DEF SameView

LEMMA JumpIsInstruction ==
  ASSUME NEW B, NEW b \in B
  PROVE  Jump(b) \in Instructions(B) /\ Jump(b).op = "jump" /\ Jump(b).to = <<b>>
         /\ IsTerminator(Jump(b))
<1>1. Jump(b) = [op |-> "jump", def |-> None, args |-> <<>>, to |-> <<b>>, opts |-> <<>>]
  BY DEF Jump, Instruction
<1>2. <<>> \in Options(B)
  <2>1. <<>> \in [{} -> Values]
    OBVIOUS
  <2>2. {} \in SUBSET B
    OBVIOUS
  <2> QED BY <2>1, <2>2 DEF Options
<1>3. "jump" \in Operations /\ None \in Names
  BY DEF Operations, Names
<1>4. <<>> \in Seq(Values) /\ <<b>> \in Seq(B) /\ Len(<<b>>) = 1
  OBVIOUS
<1>5. Jump(b) \in [op : Operations, def : Names, args : Seq(Values), to : Seq(B), opts : Options(B)]
  BY <1>1, <1>2, <1>3, <1>4
<1>6. Jump(b).op = "jump" /\ Jump(b).to = <<b>>
  BY <1>1
<1> QED BY <1>4, <1>5, <1>6 DEF Instructions, IsTerminator

-----------------------------------------------------------------------------
(* Replacing values and blocks in all of the code. *)

Same(B) == [x \in B |-> x]
SameKeys(B) == [keys \in SUBSET B |-> keys]

\* Block b gets c, and where b was a key, every block of P is one.
Renaming(B, b, c) == [x \in B |-> IF x = b THEN c ELSE x]
KeysRenaming(B, b, P) == [keys \in SUBSET B |-> IF b \in keys THEN (keys \ {b}) \cup P ELSE keys]

LEMMA InstructionParts ==
  ASSUME NEW B, NEW ins \in Instructions(B)
  PROVE  /\ ins.args \in Seq(Values) /\ ins.to \in Seq(B) /\ Keys(ins) \in SUBSET B
         /\ ins.opts \in [Keys(ins) -> Values] /\ ins.op \in Operations /\ ins.def \in Names
<1>1. /\ ins.args \in Seq(Values) /\ ins.to \in Seq(B) /\ ins.opts \in Options(B)
      /\ ins.op \in Operations /\ ins.def \in Names
  BY DEF Instructions
<1>2. PICK keys \in SUBSET B : ins.opts \in [keys -> Values]
  BY <1>1 DEF Options
<1>3. Keys(ins) = keys
  BY <1>2 DEF Keys
<1> QED BY <1>1, <1>2, <1>3

\* An instruction with other arguments, targets and options.
Made(ins, args, to, opts) == [ins EXCEPT !.args = args, !.to = to, !.opts = opts]

\* Instruction now has these targets and keys, and else the form of ins.
MadeOf(now, ins, to, keys, B) ==
  now \in Instructions(B) /\ now.op = ins.op /\ now.to = to /\ Keys(now) = keys

LEMMA InstructionMade ==
  ASSUME NEW B, NEW ins \in Instructions(B), NEW args \in Seq(Values), NEW to \in Seq(B),
         Len(args) = Len(ins.args), Len(to) = Len(ins.to),
         NEW keys \in SUBSET B, NEW opts \in [keys -> Values]
  PROVE  MadeOf(Made(ins, args, to, opts), ins, to, keys, B)
<1> DEFINE now == Made(ins, args, to, opts)
<1>1. opts \in Options(B)
  BY DEF Options
<1>2. ins \in [op : Operations, def : Names, args : Seq(Values), to : Seq(B), opts : Options(B)]
  BY DEF Instructions
<1>3. now \in [op : Operations, def : Names, args : Seq(Values), to : Seq(B), opts : Options(B)]
  BY <1>1, <1>2 DEF Made
<1>4. now.op = ins.op /\ now.to = to /\ now.opts = opts /\ now.args = args
  BY <1>2 DEF Made
<1> HIDE DEF now
<1>5. now \in Instructions(B)
  <2>1. /\ ins.op = "jump" => Len(ins.to) = 1
        /\ ins.op = "branch" => Len(ins.to) = 2 /\ Len(ins.args) = 1
    BY DEF Instructions
  <2> QED BY <1>3, <1>4, <2>1 DEF Instructions
<1>6. Keys(now) = keys
  BY <1>4 DEF Keys
<1>7. MadeOf(now, ins, to, keys, B)
  BY <1>4, <1>5, <1>6 DEF MadeOf
<1> QED BY <1>7 DEF now

LEMMA RenamedSequence ==
  ASSUME NEW S, NEW s \in Seq(S), NEW v, NEW w \in S
  PROVE  Renamed(s, v, w) \in Seq(S) /\ Len(Renamed(s, v, w)) = Len(s)
<1>1. DOMAIN s = 1..Len(s) /\ Len(s) \in Nat /\ \A i \in 1..Len(s) : s[i] \in S
  OBVIOUS
<1>2. Renamed(s, v, w) = [i \in 1..Len(s) |-> IF s[i] = v THEN w ELSE s[i]]
  BY <1>1 DEF Renamed
<1> QED BY <1>1, <1>2

LEMMA RenamedOptions ==
  ASSUME NEW keys, NEW opts \in [keys -> Values], NEW v, NEW w \in Values
  PROVE  Renamed(opts, v, w) \in [keys -> Values]
BY DEF Renamed

LEMMA SameTargets ==
  ASSUME NEW B, NEW to \in Seq(B)
  PROVE  to = [j \in DOMAIN to |-> Same(B)[to[j]]]
BY DEF Same

\* The function now rewires every instruction.
Rewires(now, B, r, k) ==
  /\ now \in [Instructions(B) -> Instructions(B)]
  /\ \A ins \in Instructions(B) : InstructionRewired(now[ins], ins, r, k)

Through(now, code, B) == [b \in B |-> [i \in DOMAIN code[b] |-> now[code[b][i]]]]

CodeRewired(new, code, B, r, k) ==
  new \in [B -> Seq(Instructions(B))] /\ \A x \in B : Rewired(new[x], code[x], r, k)

LEMMA CodeMapped ==
  ASSUME NEW B, NEW code \in [B -> Seq(Instructions(B))], NEW r, NEW k, NEW now,
         Rewires(now, B, r, k)
  PROVE  CodeRewired(Through(now, code, B), code, B, r, k)
<1> DEFINE new == Through(now, code, B)
<1>1. ASSUME NEW x \in B
      PROVE  new[x] \in Seq(Instructions(B)) /\ Rewired(new[x], code[x], r, k)
  <2> DEFINE s == code[x]
             t == new[x]
  <2>1. s \in Seq(Instructions(B)) /\ t = [i \in DOMAIN s |-> now[s[i]]]
    BY DEF Through
  <2> HIDE DEF s, t
  <2>2. DOMAIN s = 1..Len(s) /\ Len(s) \in Nat
    BY <2>1
  <2>3. \A i \in 1..Len(s) : s[i] \in Instructions(B) /\ t[i] = now[s[i]]
    BY <2>1, <2>2
  <2>4. \A i \in 1..Len(s) : now[s[i]] \in Instructions(B) /\ InstructionRewired(now[s[i]], s[i], r, k)
    BY <2>3 DEF Rewires
  <2>5. t = [i \in 1..Len(s) |-> now[s[i]]]
    BY <2>1, <2>2
  <2>6. t \in [1..Len(s) -> Instructions(B)]
    BY <2>4, <2>5
  <2>7. t \in Seq(Instructions(B)) /\ Len(t) = Len(s)
    BY <2>2, <2>6
  <2>8. Rewired(t, s, r, k)
    BY <2>3, <2>4, <2>7 DEF Rewired
  <2> QED BY <2>7, <2>8 DEF s, t
<1>2. new = [x \in B |-> new[x]]
  BY DEF Through
<1> HIDE DEF new
<1>3. CodeRewired(new, code, B, r, k)
  BY <1>1, <1>2 DEF CodeRewired
<1> QED BY <1>3 DEF new

\* g is f with its code rewired.
FunctionRewired(g, f, B, r, k) ==
  /\ g \in Functions(B) /\ g.blocks = f.blocks /\ g.deleted = f.deleted
  /\ CodeRewired(g.code, f.code, B, r, k)

LEMMA FunctionMapped ==
  ASSUME NEW B, NEW f \in Functions(B), NEW r, NEW k, NEW now, Rewires(now, B, r, k),
         NEW less \in SUBSET (Names \X Values)
  PROVE  FunctionRewired([f EXCEPT !.code = Through(now, f.code, B), !.forgotten = less],
                         f, B, r, k)
<1> DEFINE code == Through(now, f.code, B)
           g == [f EXCEPT !.code = code, !.forgotten = less]
<1>1. f.code \in [B -> Seq(Instructions(B))]
  BY DEF Functions
<1>2. CodeRewired(code, f.code, B, r, k)
  BY <1>1, CodeMapped
<1> HIDE DEF code
<1>3. code \in [B -> Seq(Instructions(B))]
  BY <1>2 DEF CodeRewired
<1>4. g \in Functions(B) /\ g.blocks = f.blocks /\ g.deleted = f.deleted /\ g.code = code
  BY <1>3 DEF Functions
<1> HIDE DEF g
<1>5. FunctionRewired(g, f, B, r, k)
  BY <1>2, <1>4 DEF FunctionRewired
<1> QED BY <1>5 DEF g, code

LEMMA ValuesReplaced ==
  ASSUME NEW B, NEW f \in Functions(B), NEW v, NEW w \in Values
  PROVE  FunctionRewired(ValueReplaced(f, v, w), f, B, Same(B), SameKeys(B))
<1> DEFINE Now(ins) == IF Knows(f, v, ins)
                       THEN [ins EXCEPT !.args = Renamed(@, v, w), !.opts = Renamed(@, v, w)]
                       ELSE ins
           now == [ins \in Instructions(B) |-> Now(ins)]
           told == {<<ins.def, w>> : ins \in Users(f, v)}
           less == IF v = w THEN f.forgotten \cup told ELSE f.forgotten \ told
<1>1. f.code \in [B -> Seq(Instructions(B))]
  BY DEF Functions
<1>2. \A ins \in Instructions(B) : now[ins] = Now(ins)
  OBVIOUS
<1>3. ASSUME NEW ins \in Instructions(B)
      PROVE  Now(ins) \in Instructions(B) /\ InstructionRewired(Now(ins), ins, Same(B), SameKeys(B))
  <2>1. /\ ins.args \in Seq(Values) /\ ins.to \in Seq(B) /\ Keys(ins) \in SUBSET B
        /\ ins.opts \in [Keys(ins) -> Values]
    BY InstructionParts
  <2>2. ins.to = [j \in DOMAIN ins.to |-> Same(B)[ins.to[j]]] /\ SameKeys(B)[Keys(ins)] = Keys(ins)
    BY <2>1, SameTargets DEF SameKeys
  <2>3. CASE Knows(f, v, ins)
    <3> DEFINE args == Renamed(ins.args, v, w)
               opts == Renamed(ins.opts, v, w)
               keys == Keys(ins)
               to == ins.to
    <3>1. args \in Seq(Values) /\ Len(args) = Len(ins.args) /\ opts \in [keys -> Values]
      BY <2>1, RenamedSequence, RenamedOptions
    <3>2. Now(ins) = Made(ins, args, to, opts)
      BY <2>3 DEF Made, Instructions
    <3>3. keys \in SUBSET B /\ to \in Seq(B) /\ Len(to) = Len(ins.to)
      BY <2>1
    <3> HIDE DEF args, opts, keys, Now, to
    <3>4. MadeOf(Made(ins, args, to, opts), ins, to, keys, B)
      BY <3>1, <3>3, InstructionMade
    <3>5. MadeOf(Now(ins), ins, to, keys, B)
      BY <3>2, <3>4
    <3> QED BY <2>2, <3>5 DEF keys, to, MadeOf, InstructionRewired
  <2>4. CASE ~Knows(f, v, ins)
    BY <2>2, <2>4 DEF InstructionRewired
  <2> QED BY <2>3, <2>4
<1>4. now = [ins \in Instructions(B) |-> now[ins]]
  OBVIOUS
<1>5. Mapped(f.code, Now) = Through(now, f.code, B)
  <2>1. Mapped(f.code, Now) = [b \in B |-> [i \in DOMAIN f.code[b] |-> Now(f.code[b][i])]]
    BY <1>1 DEF Mapped
  <2>2. \A b \in B : \A i \in DOMAIN f.code[b] : f.code[b][i] \in Instructions(B)
    BY <1>1
  <2> HIDE DEF now, Now
  <2>3. \A b \in B : \A i \in DOMAIN f.code[b] : now[f.code[b][i]] = Now(f.code[b][i])
    BY <1>2, <2>2
  <2> QED BY <2>1, <2>3 DEF Through
<1>6. ValueReplaced(f, v, w) = [f EXCEPT !.code = Through(now, f.code, B), !.forgotten = less]
  BY <1>5 DEF ValueReplaced
<1> HIDE DEF now, Now
<1>7. Rewires(now, B, Same(B), SameKeys(B))
  BY <1>2, <1>3, <1>4 DEF Rewires
<1>8. less \in SUBSET (Names \X Values)
  <2>1. f.forgotten \in SUBSET (Names \X Values) /\ DOMAIN f.code = B
    BY <1>1 DEF Functions
  <2>2. \A b \in B : ToSet(f.code[b]) \subseteq Instructions(B)
    BY <1>1 DEF ToSet
  <2>3. \A ins \in Users(f, v) : ins.def \in Names
    BY <2>1, <2>2 DEF Users, InstructionsOf, Instructions
  <2>4. told \subseteq Names \X Values
    BY <2>3
  <2> QED BY <2>1, <2>4
<1> HIDE DEF less
<1>9. FunctionRewired([f EXCEPT !.code = Through(now, f.code, B), !.forgotten = less],
                      f, B, Same(B), SameKeys(B))
  BY <1>7, <1>8, FunctionMapped
<1> QED BY <1>6, <1>9

\* The targets of an instruction, with c for b.
LEMMA RenamedTargets ==
  ASSUME NEW B, NEW to \in Seq(B), NEW b, NEW c \in B
  PROVE  /\ Renamed(to, b, c) \in Seq(B) /\ Len(Renamed(to, b, c)) = Len(to)
         /\ Renamed(to, b, c) = [j \in DOMAIN to |-> Renaming(B, b, c)[to[j]]]
<1>1. \A j \in DOMAIN to : to[j] \in B
  OBVIOUS
<1>2. Renamed(to, b, c) = [j \in DOMAIN to |-> Renaming(B, b, c)[to[j]]]
  BY <1>1 DEF Renamed, Renaming
<1> QED BY <1>2, RenamedSequence

LEMMA BlocksReplaced ==
  ASSUME NEW B, NEW f \in Functions(B), NEW b \in B, NEW c \in B
  PROVE  FunctionRewired(BlockReplaced(f, b, c), f, B, Renaming(B, b, c), KeysRenaming(B, b, {c}))
<1> DEFINE Now(ins) == [ins EXCEPT !.to = Renamed(@, b, c), !.opts = KeyRenamed(@, b, c)]
           now == [ins \in Instructions(B) |-> Now(ins)]
           less == f.forgotten
           r == Renaming(B, b, c)
           k == KeysRenaming(B, b, {c})
<1>1. f.code \in [B -> Seq(Instructions(B))] /\ less \in SUBSET (Names \X Values)
  BY DEF Functions
<1>2. \A ins \in Instructions(B) : now[ins] = Now(ins)
  OBVIOUS
<1>3. ASSUME NEW ins \in Instructions(B)
      PROVE  Now(ins) \in Instructions(B) /\ InstructionRewired(Now(ins), ins, r, k)
  <2> DEFINE args == ins.args
             opts == KeyRenamed(ins.opts, b, c)
             keys == k[Keys(ins)]
             to == Renamed(ins.to, b, c)
  <2>1. /\ ins.args \in Seq(Values) /\ ins.to \in Seq(B) /\ Keys(ins) \in SUBSET B
        /\ ins.opts \in [Keys(ins) -> Values]
    BY InstructionParts
  <2>2. to \in Seq(B) /\ Len(to) = Len(ins.to) /\ to = [j \in DOMAIN ins.to |-> r[ins.to[j]]]
    BY <2>1, RenamedTargets
  <2>3. keys \in SUBSET B /\ opts \in [keys -> Values]
    BY <2>1 DEF KeysRenaming, KeyRenamed
  <2>4. Now(ins) = Made(ins, args, to, opts)
    BY DEF Made, Instructions
  <2>5. args \in Seq(Values) /\ Len(args) = Len(ins.args)
    BY <2>1
  <2> HIDE DEF args, opts, keys, Now, to, r, k
  <2>6. MadeOf(Made(ins, args, to, opts), ins, to, keys, B)
    BY <2>2, <2>3, <2>5, InstructionMade
  <2>7. MadeOf(Now(ins), ins, to, keys, B)
    BY <2>4, <2>6
  <2> QED BY <2>2, <2>7 DEF keys, MadeOf, InstructionRewired
<1>4. now = [ins \in Instructions(B) |-> now[ins]]
  OBVIOUS
<1>5. Mapped(f.code, Now) = Through(now, f.code, B)
  <2>1. Mapped(f.code, Now) = [x \in B |-> [i \in DOMAIN f.code[x] |-> Now(f.code[x][i])]]
    BY <1>1 DEF Mapped
  <2>2. \A x \in B : \A i \in DOMAIN f.code[x] : f.code[x][i] \in Instructions(B)
    BY <1>1
  <2> HIDE DEF now, Now
  <2>3. \A x \in B : \A i \in DOMAIN f.code[x] : now[f.code[x][i]] = Now(f.code[x][i])
    BY <1>2, <2>2
  <2> QED BY <2>1, <2>3 DEF Through
<1>6. BlockReplaced(f, b, c) = [f EXCEPT !.code = Through(now, f.code, B), !.forgotten = less]
  <2>1. BlockReplaced(f, b, c) = [f EXCEPT !.code = Through(now, f.code, B)]
    BY <1>5 DEF BlockReplaced
  <2> HIDE DEF now
  <2> QED BY <2>1 DEF Functions
<1> HIDE DEF now, Now, r, k, less
<1>7. Rewires(now, B, r, k)
  BY <1>2, <1>3, <1>4 DEF Rewires
<1>8. FunctionRewired([f EXCEPT !.code = Through(now, f.code, B), !.forgotten = less], f, B, r, k)
  BY <1>1, <1>7, FunctionMapped
<1> QED BY <1>6, <1>8 DEF r, k

LEMMA BlockBypassed ==
  ASSUME NEW B, NEW f \in Functions(B), NEW b \in B, NEW c \in B, NEW P \in SUBSET B
  PROVE  FunctionRewired(Bypassed(f, b, c, P), f, B, Renaming(B, b, c), KeysRenaming(B, b, P))
<1> DEFINE Opts(opts) == [x \in (DOMAIN opts \ {b}) \cup P |-> IF x \in P THEN opts[b] ELSE opts[x]]
           Now(ins) == [ins EXCEPT !.to = Renamed(@, b, c),
                                   !.opts = IF b \in DOMAIN @ THEN Opts(@) ELSE @]
           now == [ins \in Instructions(B) |-> Now(ins)]
           less == f.forgotten \ {<<ins.def, ins.opts[b]>> : ins \in {x \in InstructionsOf(f) : b \in Keys(x)}}
           r == Renaming(B, b, c)
           k == KeysRenaming(B, b, P)
<1>1. f.code \in [B -> Seq(Instructions(B))] /\ less \in SUBSET (Names \X Values)
  BY DEF Functions
<1>2. \A ins \in Instructions(B) : now[ins] = Now(ins)
  OBVIOUS
<1>3. ASSUME NEW ins \in Instructions(B)
      PROVE  Now(ins) \in Instructions(B) /\ InstructionRewired(Now(ins), ins, r, k)
  <2> DEFINE args == ins.args
             opts == IF b \in DOMAIN ins.opts THEN Opts(ins.opts) ELSE ins.opts
             keys == k[Keys(ins)]
             to == Renamed(ins.to, b, c)
  <2>1. /\ ins.args \in Seq(Values) /\ ins.to \in Seq(B) /\ Keys(ins) \in SUBSET B
        /\ ins.opts \in [Keys(ins) -> Values]
    BY InstructionParts
  <2>2. to \in Seq(B) /\ Len(to) = Len(ins.to) /\ to = [j \in DOMAIN ins.to |-> r[ins.to[j]]]
    BY <2>1, RenamedTargets
  <2>3. keys \in SUBSET B /\ opts \in [keys -> Values]
    BY <2>1 DEF KeysRenaming
  <2>4. Now(ins) = Made(ins, args, to, opts)
    BY DEF Made, Instructions
  <2>5. args \in Seq(Values) /\ Len(args) = Len(ins.args)
    BY <2>1
  <2> HIDE DEF args, opts, keys, Now, to, r, k
  <2>6. MadeOf(Made(ins, args, to, opts), ins, to, keys, B)
    BY <2>2, <2>3, <2>5, InstructionMade
  <2>7. MadeOf(Now(ins), ins, to, keys, B)
    BY <2>4, <2>6
  <2> QED BY <2>2, <2>7 DEF keys, MadeOf, InstructionRewired
<1>4. now = [ins \in Instructions(B) |-> now[ins]]
  OBVIOUS
<1>5. Mapped(f.code, Now) = Through(now, f.code, B)
  <2>1. Mapped(f.code, Now) = [x \in B |-> [i \in DOMAIN f.code[x] |-> Now(f.code[x][i])]]
    BY <1>1 DEF Mapped
  <2>2. \A x \in B : \A i \in DOMAIN f.code[x] : f.code[x][i] \in Instructions(B)
    BY <1>1
  <2> HIDE DEF now, Now
  <2>3. \A x \in B : \A i \in DOMAIN f.code[x] : now[f.code[x][i]] = Now(f.code[x][i])
    BY <1>2, <2>2
  <2> QED BY <2>1, <2>3 DEF Through
<1>6. Bypassed(f, b, c, P) = [f EXCEPT !.code = Through(now, f.code, B), !.forgotten = less]
  BY <1>5 DEF Bypassed
<1> HIDE DEF now, Now, r, k, less
<1>7. Rewires(now, B, r, k)
  BY <1>2, <1>3, <1>4 DEF Rewires
<1>8. FunctionRewired([f EXCEPT !.code = Through(now, f.code, B), !.forgotten = less], f, B, r, k)
  BY <1>1, <1>7, FunctionMapped
<1> QED BY <1>6, <1>8 DEF r, k

\* g is f with other values read.
FunctionSimilar(g, f, B) ==
  /\ g \in Functions(B) /\ g.blocks = f.blocks /\ g.deleted = f.deleted
  /\ \A x \in B : Similar(g.code[x], f.code[x])

LEMMA ValueReplacedSimilar ==
  ASSUME NEW B, NEW f \in Functions(B), NEW v, NEW w \in Values
  PROVE  FunctionSimilar(ValueReplaced(f, v, w), f, B)
<1> DEFINE g == ValueReplaced(f, v, w)
<1>1. FunctionRewired(g, f, B, Same(B), SameKeys(B))
  BY ValuesReplaced
<1>2. f.code \in [B -> Seq(Instructions(B))]
  BY DEF Functions
<1> HIDE DEF g
<1>3. ASSUME NEW x \in B PROVE Similar(g.code[x], f.code[x])
  <2> DEFINE s == f.code[x]
             t == g.code[x]
  <2>1. s \in Seq(Instructions(B)) /\ Rewired(t, s, Same(B), SameKeys(B))
    BY <1>1, <1>2 DEF FunctionRewired, CodeRewired
  <2> HIDE DEF s, t
  <2>2. ASSUME NEW i \in 1..Len(s)
        PROVE  t[i].op = s[i].op /\ t[i].to = s[i].to /\ Keys(t[i]) = Keys(s[i])
    <3>1. s[i] \in Instructions(B) /\ InstructionRewired(t[i], s[i], Same(B), SameKeys(B))
      BY <2>1 DEF Rewired
    <3>2. s[i].to \in Seq(B) /\ Keys(s[i]) \in SUBSET B
      BY <3>1, InstructionParts
    <3>3. s[i].to = [j \in DOMAIN s[i].to |-> Same(B)[s[i].to[j]]]
      BY <3>2, SameTargets
    <3>4. SameKeys(B)[Keys(s[i])] = Keys(s[i])
      BY <3>2 DEF SameKeys
    <3> QED BY <3>1, <3>3, <3>4 DEF InstructionRewired
  <2>3. Similar(t, s)
    BY <2>1, <2>2 DEF Rewired, Similar
  <2> QED BY <2>3 DEF s, t
<1>4. FunctionSimilar(g, f, B)
  BY <1>1, <1>3 DEF FunctionRewired, FunctionSimilar
<1> QED BY <1>4 DEF g

LEMMA SimilarTwice ==
  ASSUME NEW B, NEW f, NEW g, NEW h, FunctionSimilar(g, f, B), FunctionSimilar(h, g, B)
  PROVE  FunctionSimilar(h, f, B)
BY DEF FunctionSimilar, Similar

LEMMA SimilarItself ==
  ASSUME NEW B, NEW f \in Functions(B)
  PROVE  FunctionSimilar(f, f, B)
BY DEF FunctionSimilar, Similar

LEMMA PhiReplacedSimilar ==
  ASSUME NEW B, NEW f \in Functions(B), NEW b, NEW child \in B, NEW k \in 1..Len(f.code[child])
  PROVE  FunctionSimilar(PhiReplaced(f, b, child, k), f, B)
<1> DEFINE ins == f.code[child][k]
<1>1. f.code[child] \in Seq(Instructions(B))
  BY DEF Functions
<1>2. ins \in Instructions(B)
  BY <1>1
<1>3. CASE IsPhi(ins) /\ b \in Keys(ins)
  <2>1. ins.opts \in [Keys(ins) -> Values]
    BY <1>2, InstructionParts
  <2>2. ins.opts[b] \in Values
    BY <1>3, <2>1
  <2>3. PhiReplaced(f, b, child, k) = ValueReplaced(f, ins.def, ins.opts[b])
    BY <1>3 DEF PhiReplaced
  <2> QED BY <2>2, <2>3, ValueReplacedSimilar
<1>4. CASE ~(IsPhi(ins) /\ b \in Keys(ins))
  <2>1. PhiReplaced(f, b, child, k) = f
    BY <1>4 DEF PhiReplaced
  <2> QED BY <2>1, SimilarItself
<1> QED BY <1>3, <1>4

\* What holds of a function and stays when a phi is replaced holds when all are.
LEMMA PhisReplacedIn ==
  ASSUME NEW D, NEW f \in D, NEW b, NEW child, NEW n \in Nat, n = Len(f.code[child]),
         \A g \in D : \A k \in 1..n : PhiReplaced(g, b, child, k) \in D
  PROVE  PhisReplaced(f, b, child) \in D
<1> DEFINE T == [p \in D \X (1..n) |-> PhiReplaced(p[1], b, child, p[2])]
           K == CHOOSE F : F = [k \in 0..n |-> IF k = 0 THEN f
                                               ELSE PhiReplaced(F[k - 1], b, child, k)]
<1>1. PhisReplaced(f, b, child) = K[n]
  BY DEF PhisReplaced
<1>2. T \in [D \X (1..n) -> D]
  OBVIOUS
<1>3. \A k \in 1..n, g \in D : T[<<g, k>>] = PhiReplaced(g, b, child, k)
  OBVIOUS
<1> HIDE DEF T
<1>4. PICK F \in [0..n -> D] : Iterates(F, n, f, T)
  BY <1>2, IterationExists
<1>5. F = [k \in 0..n |-> IF k = 0 THEN f ELSE PhiReplaced(F[k - 1], b, child, k)]
  <2> HIDE DEF K
  <2>1. \A k \in 1..n : k - 1 \in 0..n /\ k \in 0..n /\ k # 0
    OBVIOUS
  <2>2. \A k \in 1..n : F[k] = PhiReplaced(F[k - 1], b, child, k)
    BY <1>3, <1>4, <2>1 DEF Iterates
  <2>3. \A k \in 0..n : k = 0 \/ k \in 1..n
    OBVIOUS
  <2> QED BY <1>4, <2>2, <2>3 DEF Iterates
<1>6. K = [k \in 0..n |-> IF k = 0 THEN f ELSE PhiReplaced(K[k - 1], b, child, k)]
  BY <1>5
<1> HIDE DEF K
<1>7. K[0] = f /\ \A k \in 0..(n - 1) : K[k + 1] = PhiReplaced(K[k], b, child, k + 1)
  <2>1. \A k \in 0..(n - 1) : k + 1 \in 0..n /\ k + 1 # 0 /\ (k + 1) - 1 = k
    OBVIOUS
  <2>2. 0 \in 0..n
    OBVIOUS
  <2> QED BY <1>6, <2>1, <2>2
<1> DEFINE Good == {k \in 0..n : K[k] \in D}
<1>8. 0 \in Good
  BY <1>7
<1>9. ASSUME NEW k \in 0..(n - 1), k \in Good PROVE k + 1 \in Good
  <2>1. k + 1 \in 1..n /\ k + 1 \in 0..n
    OBVIOUS
  <2> QED BY <1>7, <1>9, <2>1
<1>10. n \in Good
  <2> HIDE DEF Good
  <2>1. \A k \in 0..n : k \in Good
    BY <1>8, <1>9, NumbersUpTo
  <2> QED BY <2>1
<1> QED BY <1>1, <1>10

LEMMA PhisReplacedSimilar ==
  ASSUME NEW B, NEW f \in Functions(B), NEW b, NEW child \in B
  PROVE  FunctionSimilar(PhisReplaced(f, b, child), f, B)
<1> DEFINE n == Len(f.code[child])
           D == {g \in Functions(B) : FunctionSimilar(g, f, B)}
<1>1. n \in Nat
  BY DEF Functions
<1>2. f \in D
  BY SimilarItself
<1>3. ASSUME NEW g \in D, NEW k \in 1..n PROVE PhiReplaced(g, b, child, k) \in D
  <2>1. g \in Functions(B) /\ FunctionSimilar(g, f, B)
    OBVIOUS
  <2>2. Len(g.code[child]) = n
    BY <2>1 DEF FunctionSimilar, Similar
  <2> HIDE DEF D
  <2>3. FunctionSimilar(PhiReplaced(g, b, child, k), g, B)
    BY <2>1, <2>2, PhiReplacedSimilar
  <2>4. FunctionSimilar(PhiReplaced(g, b, child, k), f, B)
    BY <2>1, <2>3, SimilarTwice
  <2>5. PhiReplaced(g, b, child, k) \in Functions(B)
    BY <2>3 DEF FunctionSimilar
  <2> QED BY <2>4, <2>5 DEF D
<1> HIDE DEF D, n
<1>4. PhisReplaced(f, b, child) \in D
  BY <1>1, <1>2, <1>3, PhisReplacedIn DEF n
<1> QED BY <1>4 DEF D

-----------------------------------------------------------------------------
(* The graph of the live blocks L: T[x] are the targets of block x, K[x] the *)
(* sets of keys of its phis.                                               *)

Into(L, T, x) == {a \in L : x \in T[a]}

\* Targets are live, and phis have a key for every block that comes to theirs.
Sound(L, T, K) ==
  \A x \in L : T[x] \subseteq L /\ \A keys \in K[x] : Into(L, T, x) \subseteq keys

\* The copies of the successors and the predecessors are those of the graph.
Mirrored(succ, pred, B, L, T) ==
  \A x \in L : /\ x \in DOMAIN succ /\ x \in DOMAIN pred
               /\ succ[x] = T[x]
               /\ pred[x] \subseteq B /\ pred[x] \cap L = Into(L, T, x)

\* Block c, where only b goes and where b only goes, becomes part of b.
Merges(B, L, T, K, L2, T2, K2, b, c) ==
  /\ L \subseteq B /\ \A x \in L : K[x] \subseteq SUBSET B
  /\ Sound(L, T, K) /\ b \in L /\ c \in L /\ b # c
  /\ T[b] = {c} /\ Into(L, T, c) = {b}
  /\ L2 = L \ {c}
  /\ \A x \in L2 : T2[x] = {Renaming(B, c, b)[y] : y \in IF x = b THEN T[c] ELSE T[x]}
  /\ \A x \in L2 : \A keys \in K2[x] : \E old \in K[x] : keys = KeysRenaming(B, c, {b})[old]

LEMMA GraphMerged ==
  ASSUME NEW B, NEW L, NEW T, NEW K, NEW L2, NEW T2, NEW K2, NEW b, NEW c,
         Merges(B, L, T, K, L2, T2, K2, b, c)
  PROVE  Sound(L2, T2, K2) /\ \A x \in L2 : T2[x] = IF x = b THEN T[c] ELSE T[x]
<1>1. /\ L \subseteq B /\ (\A x \in L : K[x] \subseteq SUBSET B)
      /\ b \in L /\ c \in L /\ b # c /\ T[b] = {c} /\ Into(L, T, c) = {b} /\ Sound(L, T, K)
  BY DEF Merges
<1>2. b \in L2 /\ L2 = L \ {c}
  BY DEF Merges
<1>3. \A x \in L : x # b => c \notin T[x]
  BY <1>1 DEF Into
<1>4. ASSUME NEW x \in L2 PROVE T2[x] = IF x = b THEN T[c] ELSE T[x]
  <2> DEFINE old == IF x = b THEN T[c] ELSE T[x]
  <2>1. c \notin old /\ old \subseteq B
    BY <1>1, <1>2, <1>3 DEF Sound
  <2>2. \A y \in old : Renaming(B, c, b)[y] = y
    BY <1>1, <2>1 DEF Renaming
  <2>3. T2[x] = {Renaming(B, c, b)[y] : y \in old}
    BY DEF Merges
  <2> HIDE DEF old
  <2>4. T2[x] = old
    BY <1>1, <2>2, <2>3
  <2> QED BY <2>4 DEF old
<1>5. ASSUME NEW x \in L2 PROVE T2[x] \subseteq L2
  BY <1>1, <1>2, <1>3, <1>4 DEF Sound
<1>6. ASSUME NEW x \in L2, NEW keys \in K2[x], NEW a \in Into(L2, T2, x) PROVE a \in keys
  <2>1. PICK old \in K[x] : keys = KeysRenaming(B, c, {b})[old]
    BY DEF Merges
  <2>2. old \in SUBSET B /\ x \in L /\ Into(L, T, x) \subseteq old
    BY <1>1, <1>2 DEF Sound
  <2>3. keys = IF c \in old THEN (old \ {c}) \cup {b} ELSE old
    BY <1>1, <2>1, <2>2 DEF KeysRenaming
  <2>4. a \in L2 /\ x \in T2[a]
    BY <1>1 DEF Into
  <2>5. CASE a = b
    <3>1. c \in Into(L, T, x)
      BY <1>1, <1>4, <2>4, <2>5 DEF Into
    <3> QED BY <2>2, <2>3, <2>5, <3>1
  <2>6. CASE a # b
    <3>1. a \in Into(L, T, x)
      BY <1>1, <1>2, <1>4, <2>4, <2>6 DEF Into
    <3> QED BY <1>2, <2>2, <2>3, <2>4, <3>1
  <2> QED BY <2>5, <2>6
<1> QED BY <1>4, <1>5, <1>6 DEF Sound

MergesEdges(B, L, T, T2, b, c) ==
  /\ L \subseteq B /\ b \in L /\ c \in L /\ b # c /\ T[b] = {c} /\ Into(L, T, c) = {b}
  /\ \A x \in L \ {c} : T2[x] = IF x = b THEN T[c] ELSE T[x]

LEMMA CopiesMerged ==
  ASSUME NEW B, NEW L, NEW T, NEW T2, NEW b, NEW c, MergesEdges(B, L, T, T2, b, c),
         NEW succ, NEW pred, Mirrored(succ, pred, B, L, T)
  PROVE  Mirrored(Erased([succ EXCEPT ![b] = (@ \ {c}) \cup succ[c]], c),
                  Erased([x \in DOMAIN pred |-> IF x \in succ[c] THEN (pred[x] \ {c}) \cup {b}
                                                ELSE pred[x]], c),
                  B, L \ {c}, T2)
<1> DEFINE succ2 == Erased([succ EXCEPT ![b] = (@ \ {c}) \cup succ[c]], c)
           pred2 == Erased([x \in DOMAIN pred |-> IF x \in succ[c] THEN (pred[x] \ {c}) \cup {b}
                                                  ELSE pred[x]], c)
<1>1. /\ L \subseteq B /\ b \in L /\ c \in L /\ b # c /\ T[b] = {c} /\ Into(L, T, c) = {b}
      /\ \A x \in L \ {c} : T2[x] = IF x = b THEN T[c] ELSE T[x]
  BY DEF MergesEdges
<1>2. \A x \in L : /\ x \in DOMAIN succ /\ x \in DOMAIN pred /\ succ[x] = T[x]
                   /\ pred[x] \subseteq B /\ pred[x] \cap L = Into(L, T, x)
  BY DEF Mirrored
<1>3. DOMAIN succ2 = DOMAIN succ \ {c} /\ DOMAIN pred2 = DOMAIN pred \ {c}
  BY DEF Erased, Restrict
<1>4. ASSUME NEW x \in L \ {c}
      PROVE  /\ x \in DOMAIN succ2 /\ x \in DOMAIN pred2 /\ succ2[x] = T2[x]
             /\ pred2[x] \subseteq B /\ pred2[x] \cap (L \ {c}) = Into(L \ {c}, T2, x)
  <2>1. x \in DOMAIN succ2 /\ x \in DOMAIN pred2
    BY <1>1, <1>2, <1>3
  <2>2. succ2[x] = IF x = b THEN (succ[b] \ {c}) \cup succ[c] ELSE succ[x]
    BY <1>1, <1>2, <2>1 DEF Erased, Restrict
  <2>3. succ2[x] = T2[x]
    BY <1>1, <1>2, <2>2
  <2>4. pred2[x] = IF x \in T[c] THEN (pred[x] \ {c}) \cup {b} ELSE pred[x]
    BY <1>1, <1>2, <2>1 DEF Erased, Restrict
  <2>5. pred2[x] \subseteq B
    BY <1>1, <1>2, <2>4
  <2>6. \A a \in L \ {c} : a \in pred[x] <=> x \in T[a]
    BY <1>1, <1>2 DEF Into
  <2>7. \A a \in L \ {c} : a \in pred2[x] <=> x \in T2[a]
    BY <1>1, <2>4, <2>6
  <2>8. pred2[x] \cap (L \ {c}) = Into(L \ {c}, T2, x)
    BY <1>1, <2>7 DEF Into
  <2> QED BY <2>1, <2>3, <2>5, <2>8
<1> HIDE DEF succ2, pred2
<1>5. Mirrored(succ2, pred2, B, L \ {c}, T2)
  BY <1>4 DEF Mirrored
<1> QED BY <1>5 DEF succ2, pred2

\* Block b, which only goes to t, is taken out: the blocks P come to t instead.
Bypasses(B, L, T, K, L2, T2, K2, b, t, P) ==
  /\ L \subseteq B /\ \A x \in L : K[x] \subseteq SUBSET B
  /\ Sound(L, T, K) /\ b \in L /\ t \in L /\ b # t
  /\ T[b] = {t} /\ P \subseteq B /\ P \cap L = Into(L, T, b)
  /\ L2 = L \ {b}
  /\ \A x \in L2 : T2[x] = {Renaming(B, b, t)[y] : y \in T[x]}
  /\ \A x \in L2 : \A keys \in K2[x] : \E old \in K[x] : keys = KeysRenaming(B, b, P)[old]

LEMMA GraphBypassed ==
  ASSUME NEW B, NEW L, NEW T, NEW K, NEW L2, NEW T2, NEW K2, NEW b, NEW t, NEW P,
         Bypasses(B, L, T, K, L2, T2, K2, b, t, P)
  PROVE  /\ Sound(L2, T2, K2)
         /\ \A x \in L2 : T2[x] = IF b \in T[x] THEN (T[x] \ {b}) \cup {t} ELSE T[x]
<1>1. /\ L \subseteq B /\ (\A x \in L : K[x] \subseteq SUBSET B) /\ P \subseteq B
      /\ b \in L /\ t \in L /\ b # t /\ T[b] = {t} /\ P \cap L = Into(L, T, b) /\ Sound(L, T, K)
  BY DEF Bypasses
<1>2. t \in L2 /\ L2 = L \ {b}
  BY DEF Bypasses
<1>3. ASSUME NEW x \in L2 PROVE T2[x] = IF b \in T[x] THEN (T[x] \ {b}) \cup {t} ELSE T[x]
  <2>1. T[x] \subseteq B
    BY <1>1, <1>2 DEF Sound
  <2>2. \A y \in T[x] : Renaming(B, b, t)[y] = IF y = b THEN t ELSE y
    BY <1>1, <2>1 DEF Renaming
  <2>3. T2[x] = {Renaming(B, b, t)[y] : y \in T[x]}
    BY DEF Bypasses
  <2>4. \A z : z \in T2[x] => z \in IF b \in T[x] THEN (T[x] \ {b}) \cup {t} ELSE T[x]
    BY <1>1, <2>2, <2>3
  <2>5. \A z : z \in (IF b \in T[x] THEN (T[x] \ {b}) \cup {t} ELSE T[x]) => z \in T2[x]
    BY <1>1, <2>2, <2>3
  <2> QED BY <2>4, <2>5
<1>4. ASSUME NEW x \in L2 PROVE T2[x] \subseteq L2
  BY <1>1, <1>2, <1>3 DEF Sound
<1>5. ASSUME NEW x \in L2, NEW keys \in K2[x], NEW a \in Into(L2, T2, x) PROVE a \in keys
  <2>1. PICK old \in K[x] : keys = KeysRenaming(B, b, P)[old]
    BY DEF Bypasses
  <2>2. old \in SUBSET B /\ x \in L /\ Into(L, T, x) \subseteq old
    BY <1>1, <1>2 DEF Sound
  <2>3. keys = IF b \in old THEN (old \ {b}) \cup P ELSE old
    BY <1>1, <2>1, <2>2 DEF KeysRenaming
  <2>4. a \in L2 /\ x \in T2[a]
    BY <1>1 DEF Into
  <2>5. CASE x \in T[a]
    <3>1. a \in Into(L, T, x)
      BY <1>1, <1>2, <2>4, <2>5 DEF Into
    <3> QED BY <1>2, <2>2, <2>3, <2>4, <3>1
  <2>6. CASE x \notin T[a]
    <3>1. x = t /\ b \in T[a]
      BY <1>1, <1>3, <2>4, <2>6
    <3>2. a \in P /\ b \in Into(L, T, x)
      BY <1>1, <1>2, <2>4, <3>1 DEF Into
    <3> QED BY <2>2, <2>3, <3>2
  <2> QED BY <2>5, <2>6
<1> QED BY <1>3, <1>4, <1>5 DEF Sound

BypassesEdges(B, L, T, T2, b, t) ==
  /\ L \subseteq B /\ b \in L /\ t \in L /\ b # t /\ T[b] = {t}
  /\ \A x \in L \ {b} : T2[x] = IF b \in T[x] THEN (T[x] \ {b}) \cup {t} ELSE T[x]

LEMMA CopiesBypassed ==
  ASSUME NEW B, NEW L, NEW T, NEW T2, NEW b, NEW t, BypassesEdges(B, L, T, T2, b, t),
         NEW succ, NEW pred, Mirrored(succ, pred, B, L, T)
  PROVE  Mirrored(Erased([x \in DOMAIN succ |->
                            IF x \in pred[b] THEN (succ[x] \ {b}) \cup {t} ELSE succ[x]], b),
                  Erased([pred EXCEPT ![t] = (@ \cup pred[b]) \ {b}], b),
                  B, L \ {b}, T2)
<1> DEFINE succ2 == Erased([x \in DOMAIN succ |->
                              IF x \in pred[b] THEN (succ[x] \ {b}) \cup {t} ELSE succ[x]], b)
           pred2 == Erased([pred EXCEPT ![t] = (@ \cup pred[b]) \ {b}], b)
<1>1. /\ L \subseteq B /\ b \in L /\ t \in L /\ b # t /\ T[b] = {t}
      /\ \A x \in L \ {b} : T2[x] = IF b \in T[x] THEN (T[x] \ {b}) \cup {t} ELSE T[x]
  BY DEF BypassesEdges
<1>2. \A x \in L : /\ x \in DOMAIN succ /\ x \in DOMAIN pred /\ succ[x] = T[x]
                   /\ pred[x] \subseteq B /\ pred[x] \cap L = Into(L, T, x)
  BY DEF Mirrored
<1>3. DOMAIN succ2 = DOMAIN succ \ {b} /\ DOMAIN pred2 = DOMAIN pred \ {b}
  BY DEF Erased, Restrict
<1>4. ASSUME NEW x \in L \ {b}
      PROVE  /\ x \in DOMAIN succ2 /\ x \in DOMAIN pred2 /\ succ2[x] = T2[x]
             /\ pred2[x] \subseteq B /\ pred2[x] \cap (L \ {b}) = Into(L \ {b}, T2, x)
  <2>1. x \in DOMAIN succ2 /\ x \in DOMAIN pred2
    BY <1>1, <1>2, <1>3
  <2>2. succ2[x] = IF x \in pred[b] THEN (succ[x] \ {b}) \cup {t} ELSE succ[x]
    BY <1>1, <1>2, <2>1 DEF Erased, Restrict
  <2>3. x \in pred[b] <=> b \in T[x]
    BY <1>1, <1>2 DEF Into
  <2>4. succ2[x] = T2[x]
    BY <1>1, <1>2, <2>2, <2>3
  <2>5. pred2[x] = IF x = t THEN (pred[t] \cup pred[b]) \ {b} ELSE pred[x]
    BY <1>1, <1>2, <2>1 DEF Erased, Restrict
  <2>6. pred2[x] \subseteq B
    BY <1>1, <1>2, <2>5
  <2>7. \A a \in L \ {b} : (a \in pred[x] <=> x \in T[a]) /\ (a \in pred[b] <=> b \in T[a])
    BY <1>1, <1>2 DEF Into
  <2>8. \A a \in L \ {b} : a \in pred2[x] <=> x \in T2[a]
    BY <1>1, <2>5, <2>7
  <2>9. pred2[x] \cap (L \ {b}) = Into(L \ {b}, T2, x)
    BY <1>1, <2>8 DEF Into
  <2> QED BY <2>1, <2>4, <2>6, <2>9
<1> HIDE DEF succ2, pred2
<1>5. Mirrored(succ2, pred2, B, L \ {b}, T2)
  BY <1>4 DEF Mirrored
<1> QED BY <1>5 DEF succ2, pred2

\* Block b, where at most p goes, is taken out and p goes where b went.
Hoists(B, L, T, K, L2, T2, K2, b, p) ==
  /\ L \subseteq B /\ \A x \in L : K[x] \subseteq SUBSET B
  /\ Sound(L, T, K) /\ b \in L /\ p \in B /\ p # b
  /\ Into(L, T, b) = L \cap {p} /\ (p \in L => T[p] = {b})
  /\ L2 = L \ {b}
  /\ \A x \in L2 : T2[x] = {Renaming(B, b, p)[y] : y \in IF x = p THEN T[b] ELSE T[x]}
  /\ \A x \in L2 : \A keys \in K2[x] : \E old \in K[x] : keys = KeysRenaming(B, b, {p})[old]

LEMMA GraphHoisted ==
  ASSUME NEW B, NEW L, NEW T, NEW K, NEW L2, NEW T2, NEW K2, NEW b, NEW p,
         Hoists(B, L, T, K, L2, T2, K2, b, p)
  PROVE  Sound(L2, T2, K2) /\ \A x \in L2 : T2[x] = IF x = p THEN T[b] ELSE T[x]
<1>1. /\ L \subseteq B /\ (\A x \in L : K[x] \subseteq SUBSET B) /\ p \in B /\ b \in L /\ p # b
      /\ Into(L, T, b) = L \cap {p} /\ (p \in L => T[p] = {b}) /\ Sound(L, T, K)
  BY DEF Hoists
<1>2. L2 = L \ {b}
  BY DEF Hoists
<1>3. \A x \in L : x # p => b \notin T[x]
  BY <1>1 DEF Into
<1>4. ASSUME NEW x \in L2 PROVE T2[x] = IF x = p THEN T[b] ELSE T[x]
  <2> DEFINE old == IF x = p THEN T[b] ELSE T[x]
  <2>1. b \notin old /\ old \subseteq B
    BY <1>1, <1>2, <1>3 DEF Sound
  <2>2. \A y \in old : Renaming(B, b, p)[y] = y
    BY <1>1, <2>1 DEF Renaming
  <2>3. T2[x] = {Renaming(B, b, p)[y] : y \in old}
    BY DEF Hoists
  <2> HIDE DEF old
  <2>4. T2[x] = old
    BY <1>1, <2>2, <2>3
  <2> QED BY <2>4 DEF old
<1>5. ASSUME NEW x \in L2 PROVE T2[x] \subseteq L2
  BY <1>1, <1>2, <1>3, <1>4 DEF Sound
<1>6. ASSUME NEW x \in L2, NEW keys \in K2[x], NEW a \in Into(L2, T2, x) PROVE a \in keys
  <2>1. PICK old \in K[x] : keys = KeysRenaming(B, b, {p})[old]
    BY DEF Hoists
  <2>2. old \in SUBSET B /\ x \in L /\ Into(L, T, x) \subseteq old
    BY <1>1, <1>2 DEF Sound
  <2>3. keys = IF b \in old THEN (old \ {b}) \cup {p} ELSE old
    BY <1>1, <2>1, <2>2 DEF KeysRenaming
  <2>4. a \in L2 /\ x \in T2[a]
    BY <1>1 DEF Into
  <2>5. CASE a = p
    <3>1. b \in Into(L, T, x)
      BY <1>1, <1>4, <2>4, <2>5 DEF Into
    <3> QED BY <2>2, <2>3, <2>5, <3>1
  <2>6. CASE a # p
    <3>1. a \in Into(L, T, x)
      BY <1>1, <1>2, <1>4, <2>4, <2>6 DEF Into
    <3> QED BY <1>2, <2>2, <2>3, <2>4, <3>1
  <2> QED BY <2>5, <2>6
<1> QED BY <1>4, <1>5, <1>6 DEF Sound

HoistsEdges(B, L, T, T2, b, p) ==
  /\ L \subseteq B /\ b \in L /\ p \in B /\ p # b
  /\ Into(L, T, b) = L \cap {p} /\ (p \in L => T[p] = {b})
  /\ \A x \in L \ {b} : T2[x] = IF x = p THEN T[b] ELSE T[x]

LEMMA CopiesHoisted ==
  ASSUME NEW B, NEW L, NEW T, NEW T2, NEW b, NEW p, HoistsEdges(B, L, T, T2, b, p),
         NEW succ, NEW pred, Mirrored(succ, pred, B, L, T)
  PROVE  Mirrored(Erased([succ EXCEPT ![p] = (@ \ {b}) \cup T[b]], b),
                  Erased([x \in DOMAIN pred |-> IF x \in T[b] THEN pred[x] \cup {p} ELSE pred[x]], b),
                  B, L \ {b}, T2)
<1> DEFINE succ2 == Erased([succ EXCEPT ![p] = (@ \ {b}) \cup T[b]], b)
           pred2 == Erased([x \in DOMAIN pred |-> IF x \in T[b] THEN pred[x] \cup {p} ELSE pred[x]], b)
<1>1. /\ L \subseteq B /\ b \in L /\ p \in B /\ p # b
      /\ Into(L, T, b) = L \cap {p} /\ (p \in L => T[p] = {b})
      /\ \A x \in L \ {b} : T2[x] = IF x = p THEN T[b] ELSE T[x]
  BY DEF HoistsEdges
<1>2. \A x \in L : /\ x \in DOMAIN succ /\ x \in DOMAIN pred /\ succ[x] = T[x]
                   /\ pred[x] \subseteq B /\ pred[x] \cap L = Into(L, T, x)
  BY DEF Mirrored
<1>3. DOMAIN succ2 = DOMAIN succ \ {b} /\ DOMAIN pred2 = DOMAIN pred \ {b}
  BY DEF Erased, Restrict
<1>4. ASSUME NEW x \in L \ {b}
      PROVE  /\ x \in DOMAIN succ2 /\ x \in DOMAIN pred2 /\ succ2[x] = T2[x]
             /\ pred2[x] \subseteq B /\ pred2[x] \cap (L \ {b}) = Into(L \ {b}, T2, x)
  <2>1. x \in DOMAIN succ2 /\ x \in DOMAIN pred2
    BY <1>1, <1>2, <1>3
  <2>2. succ2[x] = IF x = p THEN (succ[p] \ {b}) \cup T[b] ELSE succ[x]
    BY <1>1, <1>2, <2>1 DEF Erased, Restrict
  <2>3. succ2[x] = T2[x]
    BY <1>1, <1>2, <2>2
  <2>4. pred2[x] = IF x \in T[b] THEN pred[x] \cup {p} ELSE pred[x]
    BY <1>1, <1>2, <2>1 DEF Erased, Restrict
  <2>5. pred2[x] \subseteq B
    BY <1>1, <1>2, <2>4
  <2>6. \A a \in L \ {b} : a \in pred[x] <=> x \in T[a]
    BY <1>1, <1>2 DEF Into
  <2>7. \A a \in L \ {b} : a \in pred2[x] <=> x \in T2[a]
    BY <1>1, <2>4, <2>6
  <2>8. pred2[x] \cap (L \ {b}) = Into(L \ {b}, T2, x)
    BY <1>1, <2>7 DEF Into
  <2> QED BY <2>1, <2>3, <2>5, <2>8
<1> HIDE DEF succ2, pred2
<1>5. Mirrored(succ2, pred2, B, L \ {b}, T2)
  BY <1>4 DEF Mirrored
<1> QED BY <1>5 DEF succ2, pred2

-----------------------------------------------------------------------------
(* The graph of blocks that are put together, cut and ended. *)

\* Only some of the elements: only some of the phis.
LEMMA FewerKeys ==
  ASSUME NEW s, NEW t, ToSet(t) \subseteq ToSet(s)
  PROVE  KeySets(t) \subseteq KeySets(s)
BY DEF KeySets, PhisOf

LEMMA LastIsThere ==
  ASSUME NEW S, NEW s \in Seq(S), s # <<>>
  PROVE  Last(s) \in ToSet(s) /\ Last(s) \in S /\ Len(s) \in 1..Len(s)
<1>1. Len(s) \in 1..Len(s) /\ DOMAIN s = 1..Len(s)
  OBVIOUS
<1> QED BY <1>1 DEF Last, ToSet

LEMMA NoPhiEnds ==
  ASSUME NEW ins, IsTerminator(ins)
  PROVE  ~IsPhi(ins)
BY DEF IsTerminator, IsPhi

\* A block with a terminator at its end and no phis behind those of s.
EndsLike(t, s, to) ==
  Ends(t) /\ Targets(t) = to /\ KeySets(t) \subseteq KeySets(s)

LEMMA EndView ==
  ASSUME NEW B, NEW s \in Seq(Instructions(B)), NEW x \in Instructions(B), IsTerminator(x)
  PROVE  /\ Append(Front(s), x) \in Seq(Instructions(B))
         /\ EndsLike(Append(Front(s), x), s, ToSet(x.to))
<1> DEFINE t == Append(Front(s), x)
<1>1. t \in Seq(Instructions(B)) /\ t # <<>> /\ Last(t) = x /\ ToSet(t) \subseteq ToSet(s) \cup {x}
  BY EndReplaced
<1> HIDE DEF t
<1>2. Ends(t) /\ Targets(t) = ToSet(x.to)
  BY <1>1 DEF Ends, Targets
<1>3. PhisOf(t) \subseteq PhisOf(s)
  BY <1>1, NoPhiEnds DEF PhisOf
<1>4. EndsLike(t, s, ToSet(x.to))
  BY <1>2, <1>3 DEF EndsLike, KeySets
<1> QED BY <1>1, <1>4 DEF t

LEMMA BodyView ==
  ASSUME NEW B, NEW s \in Seq(Instructions(B)), NEW t \in Seq(Instructions(B)), Ends(t)
  PROVE  /\ s \o BodyOf(t) \in Seq(Instructions(B))
         /\ EndsLike(s \o BodyOf(t), s, Targets(t))
<1> DEFINE body == BodyOf(t)
           all == s \o body
           others == ToSet(t) \ PhisOf(t)
<1>1. body \in Seq(Instructions(B)) /\ ThoseKept(t, body, others)
  BY ThoseAre DEF BodyOf
<1>2. t # <<>> /\ Last(t) \in others
  BY LastIsThere, NoPhiEnds DEF Ends, PhisOf
<1> HIDE DEF others, body
<1>3. ToSet(body) = ToSet(t) \cap others /\ body # <<>> /\ Last(body) = Last(t)
  BY <1>1, <1>2 DEF ThoseKept
<1>4. /\ all \in Seq(Instructions(B)) /\ all # <<>> /\ Last(all) = Last(body)
      /\ ToSet(all) \subseteq ToSet(s) \cup ToSet(body)
  BY <1>1, <1>3, Joined
<1> HIDE DEF all
<1>5. Ends(all) /\ Targets(all) = Targets(t)
  BY <1>2, <1>3, <1>4 DEF Ends, Targets
<1>6. PhisOf(all) \subseteq PhisOf(s)
  BY <1>3, <1>4 DEF PhisOf, others
<1>7. EndsLike(all, s, Targets(t))
  BY <1>5, <1>6 DEF EndsLike, KeySets
<1> QED BY <1>4, <1>7 DEF all, body

LEMMA RemovedView ==
  ASSUME NEW B, NEW s \in Seq(Instructions(B)), Ends(s), NEW k \in 1..Len(s), ~IsTerminator(s[k])
  PROVE  RemoveAt(s, k) \in Seq(Instructions(B)) /\ EndsLike(RemoveAt(s, k), s, Targets(s))
<1>1. k # Len(s) /\ s # <<>>
  BY DEF Ends, Last
<1> DEFINE t == RemoveAt(s, k)
<1>2. t \in Seq(Instructions(B)) /\ t # <<>> /\ Last(t) = Last(s) /\ ToSet(t) \subseteq ToSet(s)
  BY <1>1, Removed
<1> HIDE DEF t
<1>3. Ends(t) /\ Targets(t) = Targets(s)
  BY <1>1, <1>2 DEF Ends, Targets
<1>4. EndsLike(t, s, Targets(s))
  BY <1>2, <1>3, FewerKeys DEF EndsLike
<1> QED BY <1>2, <1>4 DEF t

-----------------------------------------------------------------------------
(* Functions whose graph is sound. *)

LiveOf(f) == ToSet(f.blocks) \ f.deleted

Edges(f)   == [b \in DOMAIN f.code |-> Targets(f.code[b])]
PhiKeys(f) == [b \in DOMAIN f.code |-> KeySets(f.code[b])]

FunctionSound(f, B) ==
  /\ f \in Functions(B) /\ B = ToSet(f.blocks) \cup f.deleted
  /\ \A x \in LiveOf(f) : Ends(f.code[x])
  /\ Sound(LiveOf(f), Edges(f), PhiKeys(f))

LEMMA FunctionParts ==
  ASSUME NEW B, NEW f \in Functions(B)
  PROVE  /\ f.blocks \in Seq(B) /\ ToSet(f.blocks) \subseteq B /\ f.deleted \subseteq B
         /\ f.code \in [B -> Seq(Instructions(B))] /\ DOMAIN f.code = B
         /\ \A x \in B : /\ f.code[x] \in Seq(Instructions(B)) /\ Edges(f)[x] = Targets(f.code[x])
                         /\ PhiKeys(f)[x] = KeySets(f.code[x]) /\ PhiKeys(f)[x] \subseteq SUBSET B
<1>1. f.blocks \in Seq(B) /\ f.deleted \subseteq B /\ f.code \in [B -> Seq(Instructions(B))]
  BY DEF Functions
<1>2. ToSet(f.blocks) \subseteq B
  BY <1>1 DEF ToSet
<1>3. DOMAIN f.code = B
  BY <1>1
<1>4. ASSUME NEW x \in B
      PROVE  /\ f.code[x] \in Seq(Instructions(B)) /\ Edges(f)[x] = Targets(f.code[x])
             /\ PhiKeys(f)[x] = KeySets(f.code[x]) /\ PhiKeys(f)[x] \subseteq SUBSET B
  <2>1. f.code[x] \in Seq(Instructions(B))
    BY <1>1
  <2>2. Edges(f)[x] = Targets(f.code[x]) /\ PhiKeys(f)[x] = KeySets(f.code[x])
    BY <1>3 DEF Edges, PhiKeys
  <2>3. \A ins \in PhisOf(f.code[x]) : ins \in Instructions(B)
    BY <2>1 DEF PhisOf, ToSet
  <2>4. \A ins \in PhisOf(f.code[x]) : Keys(ins) \in SUBSET B
    BY <2>3, InstructionParts
  <2>5. KeySets(f.code[x]) \subseteq SUBSET B
    BY <2>4 DEF KeySets
  <2> QED BY <2>1, <2>2, <2>5
<1> QED BY <1>1, <1>2, <1>3, <1>4

\* g is f with block b changed.
BlockChanged(g, f, B, b, instructions, deleted) ==
  /\ g \in Functions(B) /\ g.blocks = f.blocks /\ g.deleted = deleted
  /\ g.code[b] = instructions
  /\ \A x \in B \ {b} : g.code[x] = f.code[x]

LEMMA BlockChange ==
  ASSUME NEW B, NEW f \in Functions(B), NEW b \in B, NEW s \in Seq(Instructions(B))
  PROVE  BlockChanged([f EXCEPT !.code[b] = s], f, B, b, s, f.deleted)
<1> DEFINE g == [f EXCEPT !.code[b] = s]
<1>1. g \in Functions(B)
  BY DEF Functions
<1>2. g.blocks = f.blocks /\ g.deleted = f.deleted /\ g.code = [f.code EXCEPT ![b] = s]
  BY DEF Functions
<1>3. f.code \in [B -> Seq(Instructions(B))]
  BY DEF Functions
<1> HIDE DEF g
<1>4. BlockChanged(g, f, B, b, s, f.deleted)
  BY <1>1, <1>2, <1>3 DEF BlockChanged
<1> QED BY <1>4 DEF g

LEMMA BlockDeleted ==
  ASSUME NEW B, NEW f \in Functions(B), NEW b \in B
  PROVE  BlockChanged(Deleted(f, b), f, B, b, <<>>, f.deleted \cup {b})
<1> DEFINE g == Deleted(f, b)
           deleted == f.deleted \cup {b}
           code == [f.code EXCEPT ![b] = <<>>]
<1>1. f.code \in [B -> Seq(Instructions(B))] /\ <<>> \in Seq(Instructions(B))
  BY DEF Functions
<1>2. deleted \in SUBSET B
  BY DEF Functions
<1>3. code \in [B -> Seq(Instructions(B))]
  BY <1>1
<1>4. g = [f EXCEPT !.deleted = deleted, !.code = code]
  BY DEF Functions, Deleted
<1> HIDE DEF deleted, code, g
<1>5. g \in Functions(B)
  BY <1>2, <1>3, <1>4 DEF Functions
<1>6. g.blocks = f.blocks /\ g.deleted = deleted /\ g.code = code
  BY <1>4 DEF Functions
<1>7. g.blocks = f.blocks /\ g.deleted = f.deleted \cup {b} /\ g.code = [f.code EXCEPT ![b] = <<>>]
  BY <1>6 DEF deleted, code
<1>8. BlockChanged(g, f, B, b, <<>>, f.deleted \cup {b})
  BY <1>5, <1>7, <1>1 DEF BlockChanged
<1> QED BY <1>8 DEF g

LEMMA FunctionRewiredView ==
  ASSUME NEW B, NEW f \in Functions(B), NEW g, NEW r, NEW k, FunctionRewired(g, f, B, r, k), NEW x \in B
  PROVE  Follows(g.code[x], f.code[x], r, k)
<1>1. f.code[x] \in Seq(Instructions(B)) /\ g.code[x] \in Seq(Instructions(B))
      /\ Rewired(g.code[x], f.code[x], r, k)
  BY FunctionParts DEF FunctionRewired, CodeRewired
<1> QED BY <1>1, RewiredFollows

LEMMA FunctionSimilarView ==
  ASSUME NEW B, NEW f \in Functions(B), NEW g, FunctionSimilar(g, f, B), NEW x \in B
  PROVE  SameView(g.code[x], f.code[x])
<1>1. f.code[x] \in Seq(Instructions(B)) /\ g.code[x] \in Seq(Instructions(B))
      /\ Similar(g.code[x], f.code[x])
  BY FunctionParts DEF FunctionSimilar
<1> QED BY <1>1, SimilarView

\* g has the blocks of f, gone is deleted, and the targets of block x are to[x].
Becomes(g, f, B, gone, to) ==
  /\ FunctionSound(g, B) /\ g.blocks = f.blocks /\ g.deleted = f.deleted \cup gone
  /\ LiveOf(g) = LiveOf(f) \ gone
  /\ \A x \in LiveOf(g) : Edges(g)[x] = to[x]

\* perform_merge, of a block that goes to child only and where alone child is gone to.
LEMMA MergedSound ==
  ASSUME NEW B, NEW f, FunctionSound(f, B), NEW b \in LiveOf(f), NEW c \in LiveOf(f), b # c,
         Edges(f)[b] = {c}, Into(LiveOf(f), Edges(f), c) = {b}
  PROVE  Becomes(Merged(f, b, c), f, B, {c},
                 [x \in LiveOf(f) |-> IF x = b THEN Edges(f)[c] ELSE Edges(f)[x]])
<1> DEFINE L == LiveOf(f)
           T == Edges(f)
           K == PhiKeys(f)
           front == Front(f.code[b])
           popped == [f EXCEPT !.code[b] = front]
           replaced == PhisReplaced(popped, b, c)
           joined == replaced.code[b] \o BodyOf(replaced.code[c])
           moved == [replaced EXCEPT !.code[b] = joined]
           del == Deleted(moved, c)
           g == BlockReplaced(del, c, b)
           to == [x \in L |-> IF x = b THEN T[c] ELSE T[x]]
<1>1. Merged(f, b, c) = g
  BY DEF Merged
<1>2. /\ f \in Functions(B) /\ B = ToSet(f.blocks) \cup f.deleted /\ Sound(L, T, K)
      /\ L \subseteq B /\ b \in B /\ c \in B
      /\ \A x \in L : Ends(f.code[x])
  BY DEF FunctionSound, LiveOf
<1>3. \A x \in B : f.code[x] \in Seq(Instructions(B)) /\ T[x] = Targets(f.code[x]) /\ K[x] = KeySets(f.code[x])
                   /\ K[x] \subseteq SUBSET B
  BY <1>2, FunctionParts
<1> HIDE DEF L, T, K, g, to
<1>4. front \in Seq(Instructions(B)) /\ KeySets(front) \subseteq KeySets(f.code[b])
  BY <1>2, <1>3, FrontOf, FewerKeys
<1> HIDE DEF front
<1>5. BlockChanged(popped, f, B, b, front, f.deleted)
  BY <1>2, <1>4, BlockChange
<1> HIDE DEF popped
<1>6. popped \in Functions(B)
  BY <1>5 DEF BlockChanged
<1>7. FunctionSimilar(replaced, popped, B)
  BY <1>2, <1>6, PhisReplacedSimilar
<1> HIDE DEF replaced
<1>8. replaced \in Functions(B) /\ replaced.code[b] \in Seq(Instructions(B))
      /\ replaced.code[c] \in Seq(Instructions(B))
  BY <1>2, <1>7, FunctionParts DEF FunctionSimilar
<1>9. \A x \in B : SameView(replaced.code[x], popped.code[x])
  BY <1>6, <1>7, FunctionSimilarView
<1>10. \A x \in L : x # b => SameView(replaced.code[x], f.code[x])
  BY <1>2, <1>5, <1>9 DEF BlockChanged
<1>11. KeySets(replaced.code[b]) \subseteq KeySets(f.code[b])
  BY <1>2, <1>4, <1>5, <1>9 DEF BlockChanged, SameView
<1>12. Ends(replaced.code[c]) /\ Targets(replaced.code[c]) = T[c]
  BY <1>2, <1>3, <1>10 DEF SameView, L
<1>13. joined \in Seq(Instructions(B)) /\ EndsLike(joined, replaced.code[b], T[c])
  BY <1>8, <1>12, BodyView
<1> HIDE DEF joined
<1>14. BlockChanged(moved, replaced, B, b, joined, replaced.deleted)
  BY <1>2, <1>8, <1>13, BlockChange
<1> HIDE DEF moved
<1>15. moved \in Functions(B)
  BY <1>14 DEF BlockChanged
<1>16. BlockChanged(del, moved, B, c, <<>>, moved.deleted \cup {c})
  BY <1>2, <1>15, BlockDeleted
<1> HIDE DEF del
<1>17. del \in Functions(B) /\ del.blocks = f.blocks /\ del.deleted = f.deleted \cup {c}
  BY <1>5, <1>7, <1>14, <1>16 DEF BlockChanged, FunctionSimilar
<1>18. \A x \in L \ {c} : EndsLike(del.code[x], f.code[x], to[x])
  <2>1. ASSUME NEW x \in L \ {c}, x # b PROVE EndsLike(del.code[x], f.code[x], to[x])
    <3>1. del.code[x] = replaced.code[x]
      BY <1>2, <1>14, <1>16, <2>1 DEF BlockChanged
    <3>2. to[x] = Targets(f.code[x])
      BY <1>2, <1>3, <2>1 DEF to
    <3> QED BY <1>2, <1>10, <2>1, <3>1, <3>2 DEF SameView, EndsLike
  <2>2. EndsLike(del.code[b], f.code[b], to[b])
    <3>1. del.code[b] = joined
      BY <1>2, <1>14, <1>16 DEF BlockChanged
    <3>2. to[b] = T[c]
      BY DEF to, L
    <3> QED BY <1>11, <1>13, <3>1, <3>2 DEF EndsLike
  <2> QED BY <2>1, <2>2
<1>19. FunctionRewired(g, del, B, Renaming(B, c, b), KeysRenaming(B, c, {b}))
  BY <1>2, <1>17, BlocksReplaced DEF g
<1>20. g \in Functions(B) /\ g.blocks = f.blocks /\ g.deleted = f.deleted \cup {c}
  BY <1>17, <1>19 DEF FunctionRewired
<1>21. LiveOf(g) = L \ {c} /\ B = ToSet(g.blocks) \cup g.deleted
  BY <1>2, <1>20 DEF LiveOf, L
<1>22. \A x \in B : Follows(g.code[x], del.code[x], Renaming(B, c, b), KeysRenaming(B, c, {b}))
  BY <1>17, <1>19, FunctionRewiredView
<1>23. \A x \in LiveOf(g) : Ends(g.code[x])
  BY <1>2, <1>18, <1>21, <1>22 DEF Follows, EndsLike
<1>24. \A x \in B : Edges(g)[x] = Targets(g.code[x]) /\ PhiKeys(g)[x] = KeySets(g.code[x])
  BY <1>20, FunctionParts
<1>25. Merges(B, L, T, K, LiveOf(g), Edges(g), PhiKeys(g), b, c)
  <2>1. ASSUME NEW x \in LiveOf(g)
        PROVE  /\ Edges(g)[x] = {Renaming(B, c, b)[y] : y \in IF x = b THEN T[c] ELSE T[x]}
               /\ \A keys \in PhiKeys(g)[x] : \E old \in K[x] : keys = KeysRenaming(B, c, {b})[old]
    <3>1. x \in B /\ x \in L \ {c}
      BY <1>2, <1>21
    <3>2. EndsLike(del.code[x], f.code[x], to[x])
          /\ Follows(g.code[x], del.code[x], Renaming(B, c, b), KeysRenaming(B, c, {b}))
      BY <1>18, <1>22, <3>1
    <3>3. to[x] = IF x = b THEN T[c] ELSE T[x]
      BY <3>1 DEF to
    <3>4. Edges(g)[x] = {Renaming(B, c, b)[y] : y \in to[x]}
      BY <1>24, <3>1, <3>2 DEF EndsLike, Follows
    <3>5. ASSUME NEW keys \in PhiKeys(g)[x]
          PROVE  \E old \in K[x] : keys = KeysRenaming(B, c, {b})[old]
      <4>1. PICK old \in KeySets(del.code[x]) : keys = KeysRenaming(B, c, {b})[old]
        BY <1>24, <3>1, <3>2 DEF Follows
      <4>2. old \in K[x]
        BY <1>3, <3>1, <3>2 DEF EndsLike
      <4> QED BY <4>1, <4>2
    <3> QED BY <3>3, <3>4, <3>5
  <2>2. T[b] = {c} /\ Into(L, T, c) = {b} /\ b \in L /\ c \in L
    BY DEF T, L
  <2>3. \A x \in L : K[x] \subseteq SUBSET B
    BY <1>2, <1>3
  <2> QED BY <1>2, <1>21, <2>1, <2>2, <2>3 DEF Merges
<1>26. /\ Sound(LiveOf(g), Edges(g), PhiKeys(g))
       /\ \A x \in LiveOf(g) : Edges(g)[x] = IF x = b THEN T[c] ELSE T[x]
  BY <1>25, GraphMerged
<1>27. \A x \in LiveOf(g) : Edges(g)[x] = to[x]
  BY <1>21, <1>26 DEF to
<1>28. FunctionSound(g, B)
  BY <1>20, <1>21, <1>23, <1>26 DEF FunctionSound
<1>29. Becomes(g, f, B, {c}, to)
  BY <1>20, <1>21, <1>27, <1>28 DEF Becomes, L
<1> QED BY <1>1, <1>29 DEF to, L, T

\* What remove_empty_blocks does to the code, for a block that only goes to t.
LEMMA BypassedSound ==
  ASSUME NEW B, NEW f, FunctionSound(f, B), NEW b \in LiveOf(f), NEW t \in LiveOf(f), b # t,
         Edges(f)[b] = {t}, NEW P, P \subseteq B, P \cap LiveOf(f) = Into(LiveOf(f), Edges(f), b)
  PROVE  Becomes(Deleted(Bypassed(f, b, t, P), b), f, B, {b},
                 [x \in LiveOf(f) |-> IF b \in Edges(f)[x] THEN (Edges(f)[x] \ {b}) \cup {t}
                                      ELSE Edges(f)[x]])
<1> DEFINE L == LiveOf(f)
           T == Edges(f)
           K == PhiKeys(f)
           bypassed == Bypassed(f, b, t, P)
           g == Deleted(bypassed, b)
           to == [x \in L |-> IF b \in T[x] THEN (T[x] \ {b}) \cup {t} ELSE T[x]]
<1>1. /\ f \in Functions(B) /\ B = ToSet(f.blocks) \cup f.deleted /\ Sound(L, T, K)
      /\ L \subseteq B /\ b \in B /\ t \in B
      /\ \A x \in L : Ends(f.code[x])
  BY DEF FunctionSound, LiveOf
<1>2. \A x \in B : f.code[x] \in Seq(Instructions(B)) /\ T[x] = Targets(f.code[x]) /\ K[x] = KeySets(f.code[x])
                   /\ K[x] \subseteq SUBSET B
  BY <1>1, FunctionParts
<1> HIDE DEF L, T, K, to, g
<1>3. FunctionRewired(bypassed, f, B, Renaming(B, b, t), KeysRenaming(B, b, P))
  BY <1>1, BlockBypassed
<1> HIDE DEF bypassed
<1>4. bypassed \in Functions(B) /\ bypassed.blocks = f.blocks /\ bypassed.deleted = f.deleted
  BY <1>3 DEF FunctionRewired
<1>5. \A x \in B : Follows(bypassed.code[x], f.code[x], Renaming(B, b, t), KeysRenaming(B, b, P))
  BY <1>1, <1>3, FunctionRewiredView
<1>6. BlockChanged(g, bypassed, B, b, <<>>, bypassed.deleted \cup {b})
  BY <1>1, <1>4, BlockDeleted DEF g
<1>7. g \in Functions(B) /\ g.blocks = f.blocks /\ g.deleted = f.deleted \cup {b}
  BY <1>4, <1>6 DEF BlockChanged
<1>8. LiveOf(g) = L \ {b} /\ B = ToSet(g.blocks) \cup g.deleted
  BY <1>1, <1>7 DEF LiveOf, L
<1>9. \A x \in LiveOf(g) : Follows(g.code[x], f.code[x], Renaming(B, b, t), KeysRenaming(B, b, P))
  BY <1>1, <1>5, <1>6, <1>8 DEF BlockChanged
<1>10. \A x \in LiveOf(g) : Ends(g.code[x])
  BY <1>1, <1>8, <1>9 DEF Follows
<1>11. \A x \in B : Edges(g)[x] = Targets(g.code[x]) /\ PhiKeys(g)[x] = KeySets(g.code[x])
  BY <1>7, FunctionParts
<1>12. Bypasses(B, L, T, K, LiveOf(g), Edges(g), PhiKeys(g), b, t, P)
  <2>1. ASSUME NEW x \in LiveOf(g)
        PROVE  /\ Edges(g)[x] = {Renaming(B, b, t)[y] : y \in T[x]}
               /\ \A keys \in PhiKeys(g)[x] : \E old \in K[x] : keys = KeysRenaming(B, b, P)[old]
    <3>1. x \in B /\ Follows(g.code[x], f.code[x], Renaming(B, b, t), KeysRenaming(B, b, P))
      BY <1>1, <1>8, <1>9
    <3>2. Edges(g)[x] = {Renaming(B, b, t)[y] : y \in T[x]}
      BY <1>2, <1>11, <3>1 DEF Follows
    <3>3. \A keys \in PhiKeys(g)[x] : \E old \in K[x] : keys = KeysRenaming(B, b, P)[old]
      BY <1>2, <1>11, <3>1 DEF Follows
    <3> QED BY <3>2, <3>3
  <2>2. T[b] = {t} /\ P \cap L = Into(L, T, b) /\ b \in L /\ t \in L
    BY DEF T, L
  <2>3. \A x \in L : K[x] \subseteq SUBSET B
    BY <1>1, <1>2
  <2> QED BY <1>1, <1>8, <2>1, <2>2, <2>3 DEF Bypasses
<1>13. /\ Sound(LiveOf(g), Edges(g), PhiKeys(g))
       /\ \A x \in LiveOf(g) : Edges(g)[x] = IF b \in T[x] THEN (T[x] \ {b}) \cup {t} ELSE T[x]
  BY <1>12, GraphBypassed
<1>14. \A x \in LiveOf(g) : Edges(g)[x] = to[x]
  BY <1>8, <1>13 DEF to
<1>15. FunctionSound(g, B)
  BY <1>7, <1>8, <1>10, <1>13 DEF FunctionSound
<1>16. Becomes(g, f, B, {b}, to)
  BY <1>7, <1>8, <1>14, <1>15 DEF Becomes, L
<1> QED BY <1>16 DEF to, L, T, g, bypassed

\* What hoist_branch does to the code, for a block only p can go to: p ends like it.
LEMMA HoistedSound ==
  ASSUME NEW B, NEW f, FunctionSound(f, B), NEW b \in LiveOf(f), NEW p \in B, p # b,
         Into(LiveOf(f), Edges(f), b) = LiveOf(f) \cap {p},
         p \in LiveOf(f) => Edges(f)[p] = {b}
  PROVE  Becomes(BlockReplaced(Deleted([f EXCEPT !.code[p] = Append(Front(@), Last(f.code[b]))], b), b, p),
                 f, B, {b}, [x \in LiveOf(f) |-> IF x = p THEN Edges(f)[b] ELSE Edges(f)[x]])
<1> DEFINE L == LiveOf(f)
           T == Edges(f)
           K == PhiKeys(f)
           ended == Append(Front(f.code[p]), Last(f.code[b]))
           hoisted == [f EXCEPT !.code[p] = ended]
           del == Deleted(hoisted, b)
           g == BlockReplaced(del, b, p)
           to == [x \in L |-> IF x = p THEN T[b] ELSE T[x]]
<1>1. BlockReplaced(Deleted([f EXCEPT !.code[p] = Append(Front(@), Last(f.code[b]))], b), b, p) = g
  OBVIOUS
<1>2. /\ f \in Functions(B) /\ B = ToSet(f.blocks) \cup f.deleted /\ Sound(L, T, K)
      /\ L \subseteq B /\ b \in B
      /\ \A x \in L : Ends(f.code[x])
  BY DEF FunctionSound, LiveOf
<1>3. \A x \in B : f.code[x] \in Seq(Instructions(B)) /\ T[x] = Targets(f.code[x]) /\ K[x] = KeySets(f.code[x])
                   /\ K[x] \subseteq SUBSET B
  BY <1>2, FunctionParts
<1> HIDE DEF L, T, K, g, to
<1>4. ended \in Seq(Instructions(B)) /\ EndsLike(ended, f.code[p], T[b])
  <2> DEFINE last == Last(f.code[b])
  <2>1. Ends(f.code[b]) /\ f.code[b] \in Seq(Instructions(B)) /\ f.code[p] \in Seq(Instructions(B))
    BY <1>2, <1>3 DEF L
  <2>2. last \in Instructions(B) /\ IsTerminator(last)
    BY <2>1, LastIsThere DEF Ends
  <2>3. ToSet(last.to) = T[b]
    BY <1>2, <1>3, <2>1 DEF Ends, Targets
  <2> HIDE DEF last
  <2>4. /\ Append(Front(f.code[p]), last) \in Seq(Instructions(B))
        /\ EndsLike(Append(Front(f.code[p]), last), f.code[p], ToSet(last.to))
    BY <2>1, <2>2, EndView
  <2> QED BY <2>3, <2>4 DEF last
<1> HIDE DEF ended
<1>5. BlockChanged(hoisted, f, B, p, ended, f.deleted)
  BY <1>2, <1>4, BlockChange
<1> HIDE DEF hoisted
<1>6. hoisted \in Functions(B)
  BY <1>5 DEF BlockChanged
<1>7. BlockChanged(del, hoisted, B, b, <<>>, hoisted.deleted \cup {b})
  BY <1>2, <1>6, BlockDeleted
<1> HIDE DEF del
<1>8. del \in Functions(B) /\ del.blocks = f.blocks /\ del.deleted = f.deleted \cup {b}
  BY <1>5, <1>7 DEF BlockChanged
<1>9. \A x \in L \ {b} : EndsLike(del.code[x], f.code[x], to[x])
  <2>1. ASSUME NEW x \in L \ {b}, x # p PROVE EndsLike(del.code[x], f.code[x], to[x])
    <3>1. del.code[x] = f.code[x]
      BY <1>2, <1>5, <1>7, <2>1 DEF BlockChanged
    <3>2. to[x] = Targets(f.code[x])
      BY <1>2, <1>3, <2>1 DEF to
    <3> QED BY <1>2, <3>1, <3>2 DEF EndsLike
  <2>2. ASSUME p \in L PROVE EndsLike(del.code[p], f.code[p], to[p])
    <3>1. del.code[p] = ended
      BY <1>2, <1>5, <1>7 DEF BlockChanged
    <3>2. to[p] = T[b]
      BY <2>2 DEF to
    <3> QED BY <1>4, <3>1, <3>2
  <2> QED BY <2>1, <2>2
<1>10. FunctionRewired(g, del, B, Renaming(B, b, p), KeysRenaming(B, b, {p}))
  BY <1>2, <1>8, BlocksReplaced DEF g
<1>11. g \in Functions(B) /\ g.blocks = f.blocks /\ g.deleted = f.deleted \cup {b}
  BY <1>8, <1>10 DEF FunctionRewired
<1>12. LiveOf(g) = L \ {b} /\ B = ToSet(g.blocks) \cup g.deleted
  BY <1>2, <1>11 DEF LiveOf, L
<1>13. \A x \in B : Follows(g.code[x], del.code[x], Renaming(B, b, p), KeysRenaming(B, b, {p}))
  BY <1>8, <1>10, FunctionRewiredView
<1>14. \A x \in LiveOf(g) : Ends(g.code[x])
  BY <1>2, <1>9, <1>12, <1>13 DEF Follows, EndsLike
<1>15. \A x \in B : Edges(g)[x] = Targets(g.code[x]) /\ PhiKeys(g)[x] = KeySets(g.code[x])
  BY <1>11, FunctionParts
<1>16. Hoists(B, L, T, K, LiveOf(g), Edges(g), PhiKeys(g), b, p)
  <2>1. ASSUME NEW x \in LiveOf(g)
        PROVE  /\ Edges(g)[x] = {Renaming(B, b, p)[y] : y \in IF x = p THEN T[b] ELSE T[x]}
               /\ \A keys \in PhiKeys(g)[x] : \E old \in K[x] : keys = KeysRenaming(B, b, {p})[old]
    <3>1. x \in B /\ x \in L \ {b}
      BY <1>2, <1>12
    <3>2. EndsLike(del.code[x], f.code[x], to[x])
          /\ Follows(g.code[x], del.code[x], Renaming(B, b, p), KeysRenaming(B, b, {p}))
      BY <1>9, <1>13, <3>1
    <3>3. to[x] = IF x = p THEN T[b] ELSE T[x]
      BY <3>1 DEF to
    <3>4. Edges(g)[x] = {Renaming(B, b, p)[y] : y \in to[x]}
      BY <1>15, <3>1, <3>2 DEF EndsLike, Follows
    <3>5. ASSUME NEW keys \in PhiKeys(g)[x]
          PROVE  \E old \in K[x] : keys = KeysRenaming(B, b, {p})[old]
      <4>1. PICK old \in KeySets(del.code[x]) : keys = KeysRenaming(B, b, {p})[old]
        BY <1>15, <3>1, <3>2 DEF Follows
      <4>2. old \in K[x]
        BY <1>3, <3>1, <3>2 DEF EndsLike
      <4> QED BY <4>1, <4>2
    <3> QED BY <3>3, <3>4, <3>5
  <2>2. Into(L, T, b) = L \cap {p} /\ (p \in L => T[p] = {b}) /\ b \in L
    BY DEF T, L
  <2>3. \A x \in L : K[x] \subseteq SUBSET B
    BY <1>2, <1>3
  <2> QED BY <1>2, <1>12, <2>1, <2>2, <2>3 DEF Hoists
<1>17. /\ Sound(LiveOf(g), Edges(g), PhiKeys(g))
       /\ \A x \in LiveOf(g) : Edges(g)[x] = IF x = p THEN T[b] ELSE T[x]
  BY <1>16, GraphHoisted
<1>18. \A x \in LiveOf(g) : Edges(g)[x] = to[x]
  BY <1>12, <1>17 DEF to
<1>19. FunctionSound(g, B)
  BY <1>11, <1>12, <1>14, <1>17 DEF FunctionSound
<1>20. Becomes(g, f, B, {b}, to)
  BY <1>11, <1>12, <1>18, <1>19 DEF Becomes, L
<1> QED BY <1>1, <1>20 DEF to, L, T

-----------------------------------------------------------------------------
(* What takes blocks, edges or instructions away. *)

\* g has some of the live blocks of f, each with some of its targets.
LEMMA ShrunkSound ==
  ASSUME NEW B, NEW f, FunctionSound(f, B), NEW g \in Functions(B),
         B = ToSet(g.blocks) \cup g.deleted, LiveOf(g) \subseteq LiveOf(f),
         \A x \in LiveOf(g) :
           /\ Ends(g.code[x]) /\ Edges(g)[x] \subseteq Edges(f)[x] /\ Edges(g)[x] \subseteq LiveOf(g)
           /\ \A keys \in PhiKeys(g)[x] :
                keys \in PhiKeys(f)[x] \/ Into(LiveOf(f), Edges(f), x) \subseteq keys
  PROVE  FunctionSound(g, B)
<1> DEFINE L == LiveOf(f)
           M == LiveOf(g)
<1>1. ASSUME NEW x \in M, NEW keys \in PhiKeys(g)[x] PROVE Into(M, Edges(g), x) \subseteq keys
  <2>1. Into(M, Edges(g), x) \subseteq Into(L, Edges(f), x)
    BY DEF Into
  <2>2. Into(L, Edges(f), x) \subseteq keys
    BY DEF FunctionSound, Sound
  <2> QED BY <2>1, <2>2
<1>2. Sound(M, Edges(g), PhiKeys(g))
  BY <1>1 DEF Sound
<1> QED BY <1>2 DEF FunctionSound

\* The same blocks, each with some of its targets.
LEMMA SameBlocksSound ==
  ASSUME NEW B, NEW f, FunctionSound(f, B), NEW g \in Functions(B),
         g.blocks = f.blocks, g.deleted = f.deleted, NEW to,
         \A x \in LiveOf(f) :
           /\ Ends(g.code[x]) /\ Edges(g)[x] = to[x] /\ to[x] \subseteq Edges(f)[x]
           /\ \A keys \in PhiKeys(g)[x] :
                keys \in PhiKeys(f)[x] \/ Into(LiveOf(f), Edges(f), x) \subseteq keys
  PROVE  Becomes(g, f, B, {}, to)
<1>1. LiveOf(g) = LiveOf(f) /\ B = ToSet(g.blocks) \cup g.deleted
  BY DEF LiveOf, FunctionSound
<1>2. \A x \in LiveOf(f) : Edges(f)[x] \subseteq LiveOf(f)
  BY DEF FunctionSound, Sound
<1>3. \A x \in LiveOf(g) : Edges(g)[x] \subseteq Edges(f)[x] /\ Edges(g)[x] \subseteq LiveOf(g)
  BY <1>1, <1>2
<1>4. FunctionSound(g, B)
  BY <1>1, <1>3, ShrunkSound
<1> QED BY <1>1, <1>4 DEF Becomes

\* A branch whose target taken is known becomes a jump.
LEMMA FoldedSound ==
  ASSUME NEW B, NEW f, FunctionSound(f, B), NEW b \in LiveOf(f), NEW taken \in Edges(f)[b]
  PROVE  Becomes([f EXCEPT !.code[b] = Append(Front(@), Jump(taken))], f, B, {},
                 [x \in LiveOf(f) |-> IF x = b THEN {taken} ELSE Edges(f)[x]])
<1> DEFINE ended == Append(Front(f.code[b]), Jump(taken))
           g == [f EXCEPT !.code[b] = ended]
           to == [x \in LiveOf(f) |-> IF x = b THEN {taken} ELSE Edges(f)[x]]
<1>1. /\ f \in Functions(B) /\ LiveOf(f) \subseteq B /\ taken \in B
      /\ \A x \in LiveOf(f) : Ends(f.code[x])
  BY DEF FunctionSound, LiveOf, Sound
<1>2. \A x \in B : f.code[x] \in Seq(Instructions(B)) /\ Edges(f)[x] = Targets(f.code[x])
                   /\ PhiKeys(f)[x] = KeySets(f.code[x])
  BY <1>1, FunctionParts
<1>3. ended \in Seq(Instructions(B)) /\ EndsLike(ended, f.code[b], {taken})
  <2> DEFINE jump == Jump(taken)
  <2>1. jump \in Instructions(B) /\ jump.to = <<taken>> /\ IsTerminator(jump)
    BY <1>1, JumpIsInstruction
  <2> HIDE DEF jump
  <2>2. /\ Append(Front(f.code[b]), jump) \in Seq(Instructions(B))
        /\ EndsLike(Append(Front(f.code[b]), jump), f.code[b], ToSet(jump.to))
    BY <1>1, <1>2, <2>1, EndView
  <2>3. ToSet(jump.to) = {taken}
    BY <2>1 DEF ToSet
  <2> QED BY <2>2, <2>3 DEF jump
<1> HIDE DEF ended
<1>4. BlockChanged(g, f, B, b, ended, f.deleted)
  BY <1>1, <1>3, BlockChange
<1> HIDE DEF g
<1>5. g \in Functions(B) /\ g.blocks = f.blocks /\ g.deleted = f.deleted
  BY <1>4 DEF BlockChanged
<1>6. \A x \in B : Edges(g)[x] = Targets(g.code[x]) /\ PhiKeys(g)[x] = KeySets(g.code[x])
  BY <1>5, FunctionParts
<1>7. ASSUME NEW x \in LiveOf(f)
      PROVE  /\ Ends(g.code[x]) /\ Edges(g)[x] = to[x] /\ to[x] \subseteq Edges(f)[x]
             /\ \A keys \in PhiKeys(g)[x] :
                  keys \in PhiKeys(f)[x] \/ Into(LiveOf(f), Edges(f), x) \subseteq keys
  <2>1. CASE x = b
    BY <1>1, <1>2, <1>3, <1>4, <1>6, <2>1 DEF BlockChanged, EndsLike
  <2>2. CASE x # b
    BY <1>1, <1>2, <1>4, <1>6, <2>2 DEF BlockChanged
  <2> QED BY <2>1, <2>2
<1> HIDE DEF to
<1>8. Becomes(g, f, B, {}, to)
  BY <1>5, <1>7, SameBlocksSound
<1> QED BY <1>8 DEF g, to, ended

\* An instruction is removed, and a value takes the place of another.
LEMMA RemovedSound ==
  ASSUME NEW B, NEW f, FunctionSound(f, B), NEW b \in LiveOf(f), NEW k \in 1..Len(f.code[b]),
         ~IsTerminator(f.code[b][k]), NEW v, NEW w \in Values
  PROVE  Becomes([ValueReplaced(f, v, w) EXCEPT !.code[b] = RemoveAt(@, k)], f, B, {}, Edges(f))
<1> DEFINE replaced == ValueReplaced(f, v, w)
           less == RemoveAt(replaced.code[b], k)
           g == [replaced EXCEPT !.code[b] = less]
<1>1. /\ f \in Functions(B) /\ LiveOf(f) \subseteq B
      /\ \A x \in LiveOf(f) : Ends(f.code[x])
  BY DEF FunctionSound, LiveOf
<1>2. \A x \in B : f.code[x] \in Seq(Instructions(B)) /\ Edges(f)[x] = Targets(f.code[x])
                   /\ PhiKeys(f)[x] = KeySets(f.code[x])
  BY <1>1, FunctionParts
<1>3. FunctionSimilar(replaced, f, B)
  BY <1>1, ValueReplacedSimilar
<1> HIDE DEF replaced
<1>4. \A x \in B : SameView(replaced.code[x], f.code[x])
  BY <1>1, <1>3, FunctionSimilarView
<1>5. replaced \in Functions(B) /\ replaced.blocks = f.blocks /\ replaced.deleted = f.deleted
      /\ Similar(replaced.code[b], f.code[b]) /\ replaced.code[b] \in Seq(Instructions(B))
  BY <1>1, <1>3, FunctionParts DEF FunctionSimilar
<1>6. Ends(replaced.code[b]) /\ Targets(replaced.code[b]) = Edges(f)[b]
      /\ KeySets(replaced.code[b]) \subseteq PhiKeys(f)[b]
  BY <1>1, <1>2, <1>4 DEF SameView
<1>7. k \in 1..Len(replaced.code[b]) /\ ~IsTerminator(replaced.code[b][k])
  BY <1>5 DEF Similar, IsTerminator
<1>8. less \in Seq(Instructions(B)) /\ EndsLike(less, replaced.code[b], Targets(replaced.code[b]))
  BY <1>5, <1>6, <1>7, RemovedView
<1> HIDE DEF less
<1>9. BlockChanged(g, replaced, B, b, less, replaced.deleted)
  BY <1>1, <1>5, <1>8, BlockChange
<1> HIDE DEF g
<1>10. g \in Functions(B) /\ g.blocks = f.blocks /\ g.deleted = f.deleted
  BY <1>5, <1>9 DEF BlockChanged
<1>11. \A x \in B : Edges(g)[x] = Targets(g.code[x]) /\ PhiKeys(g)[x] = KeySets(g.code[x])
  BY <1>10, FunctionParts
<1>12. ASSUME NEW x \in LiveOf(f)
       PROVE  /\ Ends(g.code[x]) /\ Edges(g)[x] = Edges(f)[x] /\ Edges(f)[x] \subseteq Edges(f)[x]
              /\ \A keys \in PhiKeys(g)[x] :
                   keys \in PhiKeys(f)[x] \/ Into(LiveOf(f), Edges(f), x) \subseteq keys
  <2>1. CASE x = b
    <3>1. g.code[x] = less
      BY <1>9, <2>1 DEF BlockChanged
    <3>2. Ends(less) /\ Targets(less) = Edges(f)[b] /\ KeySets(less) \subseteq PhiKeys(f)[b]
      BY <1>6, <1>8 DEF EndsLike
    <3> QED BY <1>1, <1>11, <2>1, <3>1, <3>2
  <2>2. CASE x # b
    <3>1. x \in B /\ g.code[x] = replaced.code[x]
      BY <1>1, <1>9, <2>2 DEF BlockChanged
    <3>2. Ends(replaced.code[x]) /\ Targets(replaced.code[x]) = Edges(f)[x]
          /\ KeySets(replaced.code[x]) \subseteq PhiKeys(f)[x]
      BY <1>1, <1>2, <1>4, <3>1 DEF SameView
    <3> QED BY <1>11, <3>1, <3>2
  <2> QED BY <2>1, <2>2
<1>13. Becomes(g, f, B, {}, Edges(f))
  BY <1>10, <1>12, SameBlocksSound
<1> QED BY <1>13 DEF g, less, replaced

LEMMA ValuesAreRead ==
  ASSUME NEW B, NEW ins \in Instructions(B)
  PROVE  ValuesRead(ins) \subseteq Values
<1>1. ins.args \in Seq(Values) /\ ins.opts \in [Keys(ins) -> Values]
  BY InstructionParts
<1>2. ToSet(ins.args) \subseteq Values
  BY <1>1 DEF ToSet
<1>3. \A b \in Keys(ins) : ins.opts[b] \in Values
  BY <1>1
<1> QED BY <1>2, <1>3 DEF ValuesRead

\* A phi without some of its options.
Cut(ins, gone) == [ins EXCEPT !.opts = Restrict(@, DOMAIN @ \ gone)]

PhiCut(f, b, k, gone) ==
  [f EXCEPT !.code[b][k] = Cut(f.code[b][k], gone),
            !.forgotten = @ \cup {<<Cut(f.code[b][k], gone).def, f.code[b][k].opts[x]>> : x \in gone}]

LEMMA PhiCutSound ==
  ASSUME NEW B, NEW f, FunctionSound(f, B), NEW b \in LiveOf(f), NEW k \in 1..Len(f.code[b]),
         IsPhi(f.code[b][k]), NEW gone, gone \subseteq Keys(f.code[b][k]),
         Into(LiveOf(f), Edges(f), b) \cap gone = {}
  PROVE  /\ Becomes(PhiCut(f, b, k, gone), f, B, {}, Edges(f))
         /\ Len(PhiCut(f, b, k, gone).code[b]) = Len(f.code[b])
         /\ PhiCut(f, b, k, gone).code[b][k] = Cut(f.code[b][k], gone)
         /\ Cut(f.code[b][k], gone) \in Instructions(B) /\ IsPhi(Cut(f.code[b][k], gone))
<1> DEFINE s == f.code[b]
           old == s[k]
           ins == Cut(old, gone)
           t == [s EXCEPT ![k] = ins]
           more == f.forgotten \cup {<<ins.def, old.opts[x]>> : x \in gone}
           changed_f == [f EXCEPT !.code[b] = t]
           g == PhiCut(f, b, k, gone)
<1>1. /\ f \in Functions(B) /\ LiveOf(f) \subseteq B /\ Sound(LiveOf(f), Edges(f), PhiKeys(f))
      /\ \A x \in LiveOf(f) : Ends(f.code[x])
  BY DEF FunctionSound, LiveOf
<1>2. \A x \in B : f.code[x] \in Seq(Instructions(B)) /\ Edges(f)[x] = Targets(f.code[x])
                   /\ PhiKeys(f)[x] = KeySets(f.code[x])
  BY <1>1, FunctionParts
<1>3. s \in Seq(Instructions(B)) /\ Ends(s) /\ old \in Instructions(B)
  BY <1>1, <1>2
<1>4. /\ ins \in Instructions(B) /\ IsPhi(ins) /\ Keys(ins) = Keys(old) \ gone /\ ins.def = old.def
  <2> DEFINE keys == Keys(old) \ gone
             opts == [x \in keys |-> old.opts[x]]
             args == old.args
             to == old.to
  <2>1. old.args \in Seq(Values) /\ old.to \in Seq(B) /\ Keys(old) \in SUBSET B
        /\ old.opts \in [Keys(old) -> Values]
    BY <1>3, InstructionParts
  <2>2. keys \in SUBSET B /\ opts \in [keys -> Values]
    BY <2>1
  <2>3. ins = Made(old, args, to, opts)
    BY <1>3 DEF Cut, Made, Restrict, Instructions, Keys
  <2>4. ins.def = old.def
    BY <1>3 DEF Cut, Instructions
  <2>5. args \in Seq(Values) /\ Len(args) = Len(old.args) /\ to \in Seq(B) /\ Len(to) = Len(old.to)
    BY <2>1
  <2> HIDE DEF keys, opts, ins, old, args, to
  <2>6. MadeOf(Made(old, args, to, opts), old, to, keys, B)
    BY <1>3, <2>2, <2>5, InstructionMade
  <2> QED BY <2>3, <2>4, <2>6 DEF MadeOf, IsPhi, keys, old
<1> HIDE DEF ins
<1>5. t \in Seq(Instructions(B)) /\ Len(t) = Len(s) /\ t[k] = ins
      /\ \A i \in 1..Len(s) : i # k => t[i] = s[i]
  BY <1>3, <1>4
<1>6. k # Len(s) /\ s # <<>> /\ t # <<>> /\ Len(s) \in 1..Len(s)
  BY <1>3, <1>5 DEF Ends, Last, IsTerminator, IsPhi
<1>7. Last(t) = Last(s)
  BY <1>5, <1>6 DEF Last
<1>8. Ends(t) /\ Targets(t) = Targets(s)
  BY <1>3, <1>6, <1>7 DEF Ends, Targets
<1>9. ASSUME NEW keys \in KeySets(t)
      PROVE  keys \in KeySets(s) \/ Into(LiveOf(f), Edges(f), b) \subseteq keys
  <2>1. PICK phi_t \in PhisOf(t) : keys = Keys(phi_t)
    BY DEF KeySets
  <2>2. PICK i \in 1..Len(s) : phi_t = t[i]
    BY <1>5 DEF PhisOf, ToSet
  <2>3. CASE i = k
    <3>1. keys = Keys(old) \ gone
      BY <1>4, <1>5, <2>1, <2>2, <2>3
    <3>2. old \in PhisOf(s)
      BY <1>3 DEF PhisOf, ToSet
    <3>3. Keys(old) \in PhiKeys(f)[b]
      BY <1>1, <1>2, <3>2 DEF KeySets
    <3>4. Into(LiveOf(f), Edges(f), b) \subseteq Keys(old)
      BY <1>1, <3>3 DEF Sound
    <3> QED BY <3>1, <3>4
  <2>4. CASE i # k
    <3>1. phi_t = s[i]
      BY <1>5, <2>2, <2>4
    <3>2. phi_t \in PhisOf(s)
      BY <1>3, <2>1, <2>2, <3>1 DEF PhisOf, ToSet
    <3> QED BY <2>1, <3>2 DEF KeySets
  <2> QED BY <2>3, <2>4
<1>10. more \in SUBSET (Names \X Values)
  <2>1. old.def \in Names /\ old.opts \in [Keys(old) -> Values]
    BY <1>3, InstructionParts
  <2>2. \A x \in gone : old.opts[x] \in Values
    BY <2>1
  <2> QED BY <1>1, <1>4, <2>1, <2>2 DEF Functions
<1>11. g = [f EXCEPT !.code = [@ EXCEPT ![b] = t], !.forgotten = more]
  BY DEF PhiCut, ins
<1> HIDE DEF t, g, s, old, more
<1>12. [f.code EXCEPT ![b] = t] \in [B -> Seq(Instructions(B))]
  BY <1>1, <1>5, FunctionParts
<1>13. g \in Functions(B) /\ g.blocks = f.blocks /\ g.deleted = f.deleted
       /\ g.code = [f.code EXCEPT ![b] = t]
  <2> DEFINE code == [f.code EXCEPT ![b] = t]
  <2>1. code \in [B -> Seq(Instructions(B))] /\ g = [f EXCEPT !.code = code, !.forgotten = more]
    BY <1>11, <1>12
  <2> HIDE DEF code
  <2>2. g \in Functions(B) /\ g.blocks = f.blocks /\ g.deleted = f.deleted /\ g.code = code
    BY <1>1, <1>10, <2>1 DEF Functions
  <2> QED BY <2>2 DEF code
<1>14. g.code[b] = t /\ \A x \in B : x # b => g.code[x] = f.code[x]
  BY <1>1, <1>13, FunctionParts
<1>15. \A x \in B : Edges(g)[x] = Targets(g.code[x]) /\ PhiKeys(g)[x] = KeySets(g.code[x])
  BY <1>13, FunctionParts
<1>16. ASSUME NEW x \in LiveOf(f)
       PROVE  /\ Ends(g.code[x]) /\ Edges(g)[x] = Edges(f)[x] /\ Edges(f)[x] \subseteq Edges(f)[x]
              /\ \A keys \in PhiKeys(g)[x] :
                   keys \in PhiKeys(f)[x] \/ Into(LiveOf(f), Edges(f), x) \subseteq keys
  <2>1. CASE x = b
    BY <1>1, <1>2, <1>8, <1>9, <1>14, <1>15, <2>1 DEF s
  <2>2. CASE x # b
    BY <1>1, <1>2, <1>14, <1>15, <2>2
  <2> QED BY <2>1, <2>2
<1>17. Becomes(g, f, B, {}, Edges(f))
  BY <1>13, <1>16, SameBlocksSound
<1> QED BY <1>4, <1>5, <1>14, <1>17 DEF g, ins, old, s

\* g has the blocks of f that are left, and none of them is deleted.
Cleared(g, f, B) ==
  /\ FunctionSound(g, B) /\ LiveOf(g) \subseteq LiveOf(f) /\ ToSet(g.blocks) \cap g.deleted = {}
  /\ \A x \in LiveOf(g) : Edges(g)[x] = Edges(f)[x]

LEMMA DeletedRemovedSound ==
  ASSUME NEW B, NEW f, FunctionSound(f, B)
  PROVE  Cleared(DeletedRemoved(f), f, B) /\ LiveOf(DeletedRemoved(f)) = LiveOf(f)
<1> DEFINE left == ToSet(f.blocks) \ f.deleted
           blocks == Those(f.blocks, left)
           g == DeletedRemoved(f)
<1>1. /\ f \in Functions(B) /\ B = ToSet(f.blocks) \cup f.deleted /\ f.blocks \in Seq(B)
      /\ \A x \in LiveOf(f) : Ends(f.code[x])
  BY DEF FunctionSound, Functions
<1>2. blocks \in Seq(B) /\ ToSet(blocks) = ToSet(f.blocks) \cap left
  BY <1>1, ThoseAre DEF ThoseKept
<1>3. g = [f EXCEPT !.blocks = blocks]
  BY DEF DeletedRemoved
<1> HIDE DEF g, blocks
<1>4. g \in Functions(B) /\ g.blocks = blocks /\ g.deleted = f.deleted /\ g.code = f.code
  BY <1>1, <1>2, <1>3 DEF Functions
<1>5. LiveOf(g) = LiveOf(f) /\ B = ToSet(g.blocks) \cup g.deleted /\ ToSet(g.blocks) \cap g.deleted = {}
  BY <1>1, <1>2, <1>4 DEF LiveOf
<1>6. Edges(g) = Edges(f) /\ PhiKeys(g) = PhiKeys(f)
  BY <1>4 DEF Edges, PhiKeys
<1>7. FunctionSound(g, B)
  BY <1>1, <1>4, <1>5, <1>6 DEF FunctionSound
<1> QED BY <1>5, <1>6, <1>7 DEF Cleared, g

LEMMA UnreachableRemovedSound ==
  ASSUME NEW B, NEW f, FunctionSound(f, B), ToSet(f.blocks) \cap f.deleted = {}
  PROVE  Cleared(UnreachableRemoved(f), f, B)
<1> DEFINE L == ToSet(f.blocks)
           R == Reached(f.blocks, f.code)
           gone == L \ R
           blocks == Those(f.blocks, L \ gone)
           deleted == f.deleted \cup gone
           code == [b \in DOMAIN f.code |-> IF b \in gone THEN <<>> ELSE f.code[b]]
           g == UnreachableRemoved(f)
<1>1. /\ f \in Functions(B) /\ B = L \cup f.deleted /\ f.blocks \in Seq(B) /\ DOMAIN f.code = B
      /\ f.deleted \subseteq B /\ f.code \in [B -> Seq(Instructions(B))]
      /\ LiveOf(f) = L /\ \A x \in L : Ends(f.code[x])
  BY DEF FunctionSound, Functions, LiveOf
<1>2. R \subseteq L /\ \A x \in R : Targets(f.code[x]) \subseteq R
  <2>1. \A x \in L : Targets(f.code[x]) \subseteq L
    BY <1>1, FunctionParts DEF FunctionSound, Sound
  <2> QED BY <2>1 DEF Reached
<1> HIDE DEF R
<1>3. blocks \in Seq(B) /\ ToSet(blocks) = R
  <2>1. blocks \in Seq(B) /\ ToSet(blocks) = L \cap (L \ gone)
    BY <1>1, ThoseAre DEF ThoseKept
  <2> QED BY <1>2, <2>1
<1>4. deleted \in SUBSET B
  BY <1>1
<1>5. code \in [B -> Seq(Instructions(B))]
  <2>1. <<>> \in Seq(Instructions(B))
    OBVIOUS
  <2> QED BY <1>1, <2>1
<1>6. g = [f EXCEPT !.blocks = blocks, !.deleted = deleted, !.code = code]
  BY DEF UnreachableRemoved, R
<1>7. \A x \in R : code[x] = f.code[x]
  BY <1>1, <1>2
<1>8. B = ToSet(blocks) \cup deleted /\ ToSet(blocks) \cap deleted = {}
  BY <1>1, <1>2, <1>3
<1> HIDE DEF g, blocks, deleted, code
<1>9. g \in Functions(B) /\ g.blocks = blocks /\ g.deleted = deleted /\ g.code = code
  BY <1>1, <1>3, <1>4, <1>5, <1>6 DEF Functions
<1>10. LiveOf(g) = R
  BY <1>3, <1>8, <1>9 DEF LiveOf
<1>11. \A x \in R : Edges(g)[x] = Edges(f)[x] /\ PhiKeys(g)[x] = PhiKeys(f)[x]
                   /\ Edges(f)[x] = Targets(f.code[x])
  <2>1. \A x \in B : Edges(g)[x] = Targets(g.code[x]) /\ PhiKeys(g)[x] = KeySets(g.code[x])
    BY <1>9, FunctionParts
  <2>2. \A x \in B : Edges(f)[x] = Targets(f.code[x]) /\ PhiKeys(f)[x] = KeySets(f.code[x])
    BY <1>1, FunctionParts
  <2> QED BY <1>1, <1>2, <1>7, <1>9, <2>1, <2>2
<1>12. \A x \in LiveOf(g) :
         /\ Ends(g.code[x]) /\ Edges(g)[x] \subseteq Edges(f)[x] /\ Edges(g)[x] \subseteq LiveOf(g)
         /\ \A keys \in PhiKeys(g)[x] :
              keys \in PhiKeys(f)[x] \/ Into(LiveOf(f), Edges(f), x) \subseteq keys
  BY <1>1, <1>2, <1>7, <1>9, <1>10, <1>11
<1>13. B = ToSet(g.blocks) \cup g.deleted /\ LiveOf(g) \subseteq LiveOf(f)
  BY <1>1, <1>2, <1>8, <1>9, <1>10
<1>14. FunctionSound(g, B)
  BY <1>9, <1>12, <1>13, ShrunkSound
<1>15. Cleared(g, f, B)
  BY <1>8, <1>9, <1>10, <1>11, <1>13, <1>14 DEF Cleared
<1> QED BY <1>15 DEF g

-----------------------------------------------------------------------------
(* The copies, and the analysis, where only edges go. *)

LEMMA CopiesKept ==
  ASSUME NEW B, NEW L, NEW T, NEW M, NEW U, NEW succ, NEW pred, Mirrored(succ, pred, B, L, T),
         M \subseteq L, \A x \in M : U[x] = T[x]
  PROVE  Mirrored(succ, pred, B, M, U)
<1>1. ASSUME NEW x \in M PROVE pred[x] \cap M = Into(M, U, x)
  <2>1. pred[x] \cap L = Into(L, T, x)
    BY DEF Mirrored
  <2>2. Into(M, U, x) = Into(L, T, x) \cap M
    BY DEF Into
  <2> QED BY <2>1, <2>2
<1> QED BY <1>1 DEF Mirrored

\* One of the two edges of block b is erased.
Folds(L, T, U, b, taken, other) ==
  /\ b \in L /\ taken \in L /\ other \in L /\ taken # other /\ T[b] = {taken, other}
  /\ \A x \in L : U[x] = IF x = b THEN {taken} ELSE T[x]

LEMMA CopiesFolded ==
  ASSUME NEW B, NEW L, NEW T, NEW U, NEW b, NEW taken, NEW other, Folds(L, T, U, b, taken, other),
         NEW succ, NEW pred, Mirrored(succ, pred, B, L, T)
  PROVE  Mirrored([succ EXCEPT ![b] = @ \ {other}], [pred EXCEPT ![other] = @ \ {b}], B, L, U)
<1> DEFINE succ2 == [succ EXCEPT ![b] = @ \ {other}]
           pred2 == [pred EXCEPT ![other] = @ \ {b}]
<1>1. \A x \in L : /\ x \in DOMAIN succ /\ x \in DOMAIN pred /\ succ[x] = T[x]
                   /\ pred[x] \subseteq B /\ pred[x] \cap L = Into(L, T, x)
  BY DEF Mirrored
<1>2. DOMAIN succ2 = DOMAIN succ /\ DOMAIN pred2 = DOMAIN pred
  OBVIOUS
<1>3. /\ b \in L /\ taken \in L /\ other \in L /\ taken # other /\ T[b] = {taken, other}
      /\ \A x \in L : U[x] = IF x = b THEN {taken} ELSE T[x]
  BY DEF Folds
<1>4. ASSUME NEW x \in L
      PROVE  /\ x \in DOMAIN succ2 /\ x \in DOMAIN pred2 /\ succ2[x] = U[x]
             /\ pred2[x] \subseteq B /\ pred2[x] \cap L = Into(L, U, x)
  <2>1. x \in DOMAIN succ2 /\ x \in DOMAIN pred2
    BY <1>1, <1>2
  <2>2. succ2[x] = U[x]
    BY <1>3, <1>1
  <2>3. pred2[x] = IF x = other THEN pred[x] \ {b} ELSE pred[x]
    BY <1>1
  <2>4. \A a \in L : a \in pred[x] <=> x \in T[a]
    BY <1>1 DEF Into
  <2>5. \A a \in L : a \in pred2[x] <=> x \in U[a]
    BY <1>3, <2>3, <2>4
  <2>6. pred2[x] \cap L = Into(L, U, x)
    BY <2>5 DEF Into
  <2> QED BY <1>1, <2>1, <2>2, <2>3, <2>6
<1> HIDE DEF succ2, pred2
<1>5. Mirrored(succ2, pred2, B, L, U)
  BY <1>4 DEF Mirrored
<1> QED BY <1>5 DEF succ2, pred2

\* What the analysis calls predecessors contains the ones of the live blocks.
Covers(pred, L, T) == \A x \in L : Into(L, T, x) \subseteq pred[x]

LEMMA CoversFewer ==
  ASSUME NEW L, NEW T, NEW M, NEW U, NEW pred, Covers(pred, L, T),
         M \subseteq L, \A x \in M : U[x] \subseteq T[x]
  PROVE  Covers(pred, M, U)
BY DEF Covers, Into

\* The analysis computed for a function none of whose blocks is deleted.
LEMMA AnalysisExact ==
  ASSUME NEW B, NEW f, FunctionSound(f, B), ToSet(f.blocks) \cap f.deleted = {}
  PROVE  /\ Mirrored(SuccessorsOf(f.blocks, f.code), PredecessorsOf(f.blocks, f.code), B,
                     LiveOf(f), Edges(f))
         /\ Covers(PredecessorsOf(f.blocks, f.code), LiveOf(f), Edges(f))
<1> DEFINE L == LiveOf(f)
           succ == SuccessorsOf(f.blocks, f.code)
           pred == PredecessorsOf(f.blocks, f.code)
<1>1. L = ToSet(f.blocks) /\ L \subseteq B /\ f \in Functions(B)
  BY DEF LiveOf, FunctionSound
<1>2. \A x \in B : Edges(f)[x] = Targets(f.code[x])
  BY <1>1, FunctionParts
<1>3. succ = [b \in L |-> Targets(f.code[b])]
      /\ pred = [b \in L |-> {a \in L : b \in Targets(f.code[a])}]
  BY <1>1 DEF SuccessorsOf, PredecessorsOf
<1> HIDE DEF succ, pred, L
<1>4. ASSUME NEW x \in L
      PROVE  /\ x \in DOMAIN succ /\ x \in DOMAIN pred /\ succ[x] = Edges(f)[x]
             /\ pred[x] \subseteq B /\ pred[x] = Into(L, Edges(f), x)
  <2>1. x \in DOMAIN succ /\ x \in DOMAIN pred /\ succ[x] = Edges(f)[x]
    BY <1>1, <1>2, <1>3
  <2>2. pred[x] = {a \in L : x \in Targets(f.code[a])}
    BY <1>3
  <2>3. pred[x] = Into(L, Edges(f), x)
    BY <1>1, <1>2, <2>2 DEF Into
  <2> QED BY <1>1, <2>1, <2>2, <2>3
<1>5. \A x \in L : pred[x] \cap L = pred[x]
  BY <1>4 DEF Into
<1>6. Mirrored(succ, pred, B, L, Edges(f)) /\ Covers(pred, L, Edges(f))
  BY <1>4, <1>5 DEF Mirrored, Covers
<1> QED BY <1>6 DEF succ, pred, L

-----------------------------------------------------------------------------
(* What branches test. *)

\* The same instructions, up to what they read and where they go.
Named(t, s) ==
  /\ Len(t) = Len(s)
  /\ \A i \in 1..Len(s) : t[i].op = s[i].op /\ t[i].def = s[i].def

\* The same tests and phis, with w for v.
TestsReplaced(t, s, v, w) == \A c \in Tests(t) : c \in Tests(s) \/ (v \in Tests(s) /\ c = w)

\* No other tests and phis.
TestsFewer(t, s) == Tests(t) \subseteq Tests(s) /\ PhiNames(t) \subseteq PhiNames(s)

LEMMA NamedPhis ==
  ASSUME NEW B, NEW s \in Seq(Instructions(B)), NEW t \in Seq(Instructions(B)), Named(t, s)
  PROVE  PhiNames(t) \subseteq PhiNames(s)
<1>1. DOMAIN t = 1..Len(s) /\ DOMAIN s = 1..Len(s)
  BY DEF Named
<1>2. ASSUME NEW ins \in PhisOf(t) PROVE ins.def \in PhiNames(s)
  <2>1. PICK i \in 1..Len(s) : ins = t[i]
    BY <1>1 DEF PhisOf, ToSet
  <2>2. s[i] \in PhisOf(s) /\ s[i].def = ins.def
    BY <1>1, <2>1 DEF Named, PhisOf, ToSet, IsPhi
  <2> QED BY <2>2 DEF PhiNames
<1> QED BY <1>2 DEF PhiNames

LEMMA TestsOfLast ==
  ASSUME NEW s, NEW t, (s = <<>>) <=> (t = <<>>),
         s # <<>> => Last(t).op = Last(s).op /\ Last(t).args = Last(s).args
  PROVE  Tests(t) = Tests(s)
BY DEF Tests

LEMMA ValueReplacedTests ==
  ASSUME NEW B, NEW f \in Functions(B), NEW v, NEW w \in Values, NEW x \in B
  PROVE  /\ Named(ValueReplaced(f, v, w).code[x], f.code[x])
         /\ TestsReplaced(ValueReplaced(f, v, w).code[x], f.code[x], v, w)
<1> DEFINE Now(ins) == IF Knows(f, v, ins)
                       THEN [ins EXCEPT !.args = Renamed(@, v, w), !.opts = Renamed(@, v, w)]
                       ELSE ins
           s == f.code[x]
           t == ValueReplaced(f, v, w).code[x]
<1>1. f.code \in [B -> Seq(Instructions(B))] /\ s \in Seq(Instructions(B))
  BY DEF Functions
<1>2. t = [i \in DOMAIN s |-> Now(s[i])]
  <2>1. ValueReplaced(f, v, w).code = Mapped(f.code, Now)
    BY DEF ValueReplaced, Functions
  <2> HIDE DEF Now
  <2> QED BY <1>1, <2>1 DEF Mapped
<1>3. Len(t) = Len(s) /\ t \in Seq(Instructions(B))
  <2>1. FunctionSimilar(ValueReplaced(f, v, w), f, B)
    BY ValueReplacedSimilar
  <2> HIDE DEF s, t
  <2> QED BY <2>1, FunctionParts DEF FunctionSimilar, Similar, s, t
<1>4. \A ins \in Instructions(B) :
        /\ Now(ins).op = ins.op /\ Now(ins).def = ins.def
        /\ Now(ins).args = ins.args \/ Now(ins).args = Renamed(ins.args, v, w)
  BY DEF Instructions
<1> HIDE DEF Now, s, t
<1>5. DOMAIN s = 1..Len(s) /\ Len(s) \in Nat /\ \A i \in 1..Len(s) : s[i] \in Instructions(B) /\ t[i] = Now(s[i])
  BY <1>1, <1>2
<1>6. Named(t, s)
  BY <1>3, <1>4, <1>5 DEF Named
<1>7. ASSUME NEW c \in Tests(t) PROVE c \in Tests(s) \/ (v \in Tests(s) /\ c = w)
  <2>1. t # <<>> /\ Last(t).op = "branch" /\ c = Last(t).args[1]
    BY <1>7 DEF Tests
  <2>2. s # <<>> /\ Len(s) \in 1..Len(s) /\ Last(s) \in Instructions(B) /\ Last(t) = Now(Last(s))
    BY <1>1, <1>3, <1>5, <2>1 DEF Last
  <2>3. Last(s).op = "branch" /\ Tests(s) = {Last(s).args[1]}
    BY <1>4, <2>1, <2>2 DEF Tests
  <2>4. 1 \in DOMAIN Last(s).args
    <3>1. Last(s).args \in Seq(Values) /\ Len(Last(s).args) = 1
      BY <2>2, <2>3 DEF Instructions
    <3> QED BY <3>1
  <2>5. Renamed(Last(s).args, v, w)[1] = IF Last(s).args[1] = v THEN w ELSE Last(s).args[1]
    BY <2>4 DEF Renamed
  <2> QED BY <1>4, <2>1, <2>2, <2>3, <2>5
<1>8. TestsReplaced(t, s, v, w)
  BY <1>7 DEF TestsReplaced
<1> QED BY <1>6, <1>8 DEF s, t

\* The same instructions going elsewhere.
Kin(t, s) ==
  /\ Len(t) = Len(s)
  /\ \A i \in 1..Len(s) : t[i].op = s[i].op /\ t[i].def = s[i].def /\ t[i].args = s[i].args

LEMMA KinTests ==
  ASSUME NEW B, NEW s \in Seq(Instructions(B)), NEW t \in Seq(Instructions(B)), Kin(t, s)
  PROVE  TestsFewer(t, s)
<1>1. PhiNames(t) \subseteq PhiNames(s)
  BY NamedPhis DEF Kin, Named
<1>2. Len(t) = Len(s) /\ (s = <<>> <=> t = <<>>) /\ (s # <<>> => Len(s) \in 1..Len(s))
  BY DEF Kin
<1>3. Tests(t) = Tests(s)
  BY <1>2, TestsOfLast DEF Kin, Last
<1> QED BY <1>1, <1>3 DEF TestsFewer

LEMMA BlockReplacedTests ==
  ASSUME NEW B, NEW f \in Functions(B), NEW b \in B, NEW c \in B, NEW x \in B
  PROVE  TestsFewer(BlockReplaced(f, b, c).code[x], f.code[x])
<1> DEFINE Now(ins) == [ins EXCEPT !.to = Renamed(@, b, c), !.opts = KeyRenamed(@, b, c)]
           s == f.code[x]
           t == BlockReplaced(f, b, c).code[x]
<1>1. f.code \in [B -> Seq(Instructions(B))] /\ s \in Seq(Instructions(B))
  BY DEF Functions
<1>2. t = [i \in DOMAIN s |-> Now(s[i])]
  <2>1. BlockReplaced(f, b, c).code = Mapped(f.code, Now)
    BY DEF BlockReplaced, Functions
  <2> HIDE DEF Now
  <2> QED BY <1>1, <2>1 DEF Mapped
<1>3. Len(t) = Len(s) /\ t \in Seq(Instructions(B))
  <2>1. FunctionRewired(BlockReplaced(f, b, c), f, B, Renaming(B, b, c), KeysRenaming(B, b, {c}))
    BY BlocksReplaced
  <2> HIDE DEF s, t
  <2> QED BY <2>1 DEF FunctionRewired, CodeRewired, Rewired, s, t
<1>4. \A ins \in Instructions(B) :
        Now(ins).op = ins.op /\ Now(ins).def = ins.def /\ Now(ins).args = ins.args
  BY DEF Instructions
<1> HIDE DEF Now, s, t
<1>5. \A i \in 1..Len(s) : s[i] \in Instructions(B) /\ t[i] = Now(s[i])
  BY <1>1, <1>2
<1>6. Kin(t, s)
  BY <1>3, <1>4, <1>5 DEF Kin
<1>7. TestsFewer(t, s)
  BY <1>1, <1>3, <1>6, KinTests
<1> QED BY <1>7 DEF s, t

LEMMA BypassedTests ==
  ASSUME NEW B, NEW f \in Functions(B), NEW b \in B, NEW c \in B, NEW P \in SUBSET B, NEW x \in B
  PROVE  TestsFewer(Bypassed(f, b, c, P).code[x], f.code[x])
<1> DEFINE Opts(opts) == [y \in (DOMAIN opts \ {b}) \cup P |-> IF y \in P THEN opts[b] ELSE opts[y]]
           Now(ins) == [ins EXCEPT !.to = Renamed(@, b, c),
                                   !.opts = IF b \in DOMAIN @ THEN Opts(@) ELSE @]
           s == f.code[x]
           t == Bypassed(f, b, c, P).code[x]
<1>1. f.code \in [B -> Seq(Instructions(B))] /\ s \in Seq(Instructions(B))
  BY DEF Functions
<1>2. t = [i \in DOMAIN s |-> Now(s[i])]
  <2>1. Bypassed(f, b, c, P).code = Mapped(f.code, Now)
    BY DEF Bypassed, Functions
  <2> HIDE DEF Now
  <2> QED BY <1>1, <2>1 DEF Mapped
<1>3. Len(t) = Len(s) /\ t \in Seq(Instructions(B))
  <2>1. FunctionRewired(Bypassed(f, b, c, P), f, B, Renaming(B, b, c), KeysRenaming(B, b, P))
    BY BlockBypassed
  <2> HIDE DEF s, t
  <2> QED BY <2>1 DEF FunctionRewired, CodeRewired, Rewired, s, t
<1>4. \A ins \in Instructions(B) :
        Now(ins).op = ins.op /\ Now(ins).def = ins.def /\ Now(ins).args = ins.args
  BY DEF Instructions
<1> HIDE DEF Now, s, t
<1>5. \A i \in 1..Len(s) : s[i] \in Instructions(B) /\ t[i] = Now(s[i])
  BY <1>1, <1>2
<1>6. Kin(t, s)
  BY <1>3, <1>4, <1>5 DEF Kin
<1>7. TestsFewer(t, s)
  BY <1>1, <1>3, <1>6, KinTests
<1> QED BY <1>7 DEF s, t

\* A block with another terminator.
LEMMA EndTests ==
  ASSUME NEW B, NEW s \in Seq(Instructions(B)), NEW x \in Instructions(B), IsTerminator(x)
  PROVE  /\ Tests(Append(Front(s), x)) = IF x.op = "branch" THEN {x.args[1]} ELSE {}
         /\ PhiNames(Append(Front(s), x)) \subseteq PhiNames(s)
<1> DEFINE t == Append(Front(s), x)
<1>1. t \in Seq(Instructions(B)) /\ t # <<>> /\ Last(t) = x /\ ToSet(t) \subseteq ToSet(s) \cup {x}
  BY EndReplaced
<1> HIDE DEF t
<1>2. Tests(t) = IF x.op = "branch" THEN {x.args[1]} ELSE {}
  BY <1>1 DEF Tests
<1>3. PhisOf(t) \subseteq PhisOf(s)
  BY <1>1, NoPhiEnds DEF PhisOf
<1>4. PhiNames(t) \subseteq PhiNames(s)
  BY <1>3 DEF PhiNames
<1> QED BY <1>2, <1>4 DEF t

\* A block behind another, without its phis.
LEMMA BodyTests ==
  ASSUME NEW B, NEW s \in Seq(Instructions(B)), NEW t \in Seq(Instructions(B)), Ends(t)
  PROVE  Tests(s \o BodyOf(t)) = Tests(t) /\ PhiNames(s \o BodyOf(t)) \subseteq PhiNames(s)
<1> DEFINE body == BodyOf(t)
           all == s \o body
           others == ToSet(t) \ PhisOf(t)
<1>1. body \in Seq(Instructions(B)) /\ ThoseKept(t, body, others)
  BY ThoseAre DEF BodyOf
<1>2. t # <<>> /\ Last(t) \in others
  BY LastIsThere, NoPhiEnds DEF Ends, PhisOf
<1> HIDE DEF others, body
<1>3. ToSet(body) = ToSet(t) \cap others /\ body # <<>> /\ Last(body) = Last(t)
  BY <1>1, <1>2 DEF ThoseKept
<1>4. /\ all \in Seq(Instructions(B)) /\ all # <<>> /\ Last(all) = Last(body)
      /\ ToSet(all) \subseteq ToSet(s) \cup ToSet(body)
  BY <1>1, <1>3, Joined
<1> HIDE DEF all
<1>5. Tests(all) = Tests(t)
  BY <1>2, <1>3, <1>4 DEF Tests
<1>6. PhisOf(all) \subseteq PhisOf(s)
  BY <1>3, <1>4 DEF PhisOf, others
<1>7. PhiNames(all) \subseteq PhiNames(s)
  BY <1>6 DEF PhiNames
<1> QED BY <1>5, <1>7 DEF all, body

\* A block without one of its instructions.
LEMMA RemovedTests ==
  ASSUME NEW B, NEW s \in Seq(Instructions(B)), Ends(s), NEW k \in 1..Len(s), ~IsTerminator(s[k])
  PROVE  Tests(RemoveAt(s, k)) = Tests(s) /\ PhiNames(RemoveAt(s, k)) \subseteq PhiNames(s)
<1>1. k # Len(s) /\ s # <<>>
  BY DEF Ends, Last
<1> DEFINE t == RemoveAt(s, k)
<1>2. t \in Seq(Instructions(B)) /\ t # <<>> /\ Last(t) = Last(s) /\ ToSet(t) \subseteq ToSet(s)
  BY <1>1, Removed
<1> HIDE DEF t
<1>3. Tests(t) = Tests(s)
  BY <1>1, <1>2 DEF Tests
<1>4. PhiNames(t) \subseteq PhiNames(s)
  BY <1>2 DEF PhiNames, PhisOf
<1> QED BY <1>3, <1>4 DEF t

LEMMA FewerInstructions ==
  ASSUME NEW s, NEW t, ToSet(t) \subseteq ToSet(s)
  PROVE  PhiNames(t) \subseteq PhiNames(s)
BY DEF PhiNames, PhisOf

-----------------------------------------------------------------------------
(* Tests and phis of a function. *)

Tested(f) == UNION {Tests(f.code[x]) : x \in LiveOf(f)}

NoPhiTested(f) == \A x \in LiveOf(f) : PhiNames(f.code[x]) \cap (Tested(f) \cup Constants) = {}

\* The tests of g are tests of f, in whatever blocks.
Draws(g, f) ==
  \A x \in LiveOf(g) :
    /\ x \in LiveOf(f) /\ PhiNames(g.code[x]) \subseteq PhiNames(f.code[x])
    /\ Tests(g.code[x]) \subseteq Tested(f)

LEMMA DrawsKeeps ==
  ASSUME NEW f, NEW g, Draws(g, f)
  PROVE  Tested(g) \subseteq Tested(f) /\ (NoPhiTested(f) => NoPhiTested(g))
<1>1. Tested(g) \subseteq Tested(f)
  BY DEF Draws, Tested
<1>2. ASSUME NoPhiTested(f), NEW x \in LiveOf(g)
      PROVE  PhiNames(g.code[x]) \cap (Tested(g) \cup Constants) = {}
  <2>1. PhiNames(f.code[x]) \cap (Tested(f) \cup Constants) = {}
    BY <1>2 DEF Draws, NoPhiTested
  <2>2. PhiNames(g.code[x]) \subseteq PhiNames(f.code[x])
    BY DEF Draws
  <2> QED BY <1>1, <2>1, <2>2
<1> QED BY <1>1, <1>2 DEF NoPhiTested

\* Every live block has fewer tests and phis.
LEMMA FewerDraws ==
  ASSUME NEW f, NEW g, LiveOf(g) \subseteq LiveOf(f),
         \A x \in LiveOf(g) : TestsFewer(g.code[x], f.code[x])
  PROVE  Draws(g, f)
<1>1. ASSUME NEW x \in LiveOf(g) PROVE Tests(g.code[x]) \subseteq Tested(f)
  BY DEF TestsFewer, Tested
<1> QED BY <1>1 DEF Draws, TestsFewer

LEMMA PhisReplacedTests ==
  ASSUME NEW B, NEW f \in Functions(B), NEW b, NEW c \in B, NEW X \in SUBSET B,
         \A ins \in PhisOf(f.code[c]) : \A x \in X : ins.def \notin Tests(f.code[x])
  PROVE  /\ \A x \in B : Named(PhisReplaced(f, b, c).code[x], f.code[x])
         /\ \A x \in X : Tests(PhisReplaced(f, b, c).code[x]) \subseteq Tests(f.code[x])
<1> DEFINE n == Len(f.code[c])
           Alike(g) == /\ \A x \in B : Named(g.code[x], f.code[x])
                       /\ \A x \in X : Tests(g.code[x]) \subseteq Tests(f.code[x])
           D == {g \in Functions(B) : Alike(g)}
<1>1. n \in Nat /\ f.code[c] \in Seq(Instructions(B))
  BY DEF Functions
<1>2. f \in D
  BY DEF Named
<1>3. ASSUME NEW g \in D, NEW k \in 1..n PROVE PhiReplaced(g, b, c, k) \in D
  <2> DEFINE ins == g.code[c][k]
  <2>1. g \in Functions(B) /\ Alike(g)
    OBVIOUS
  <2>2. Named(g.code[c], f.code[c]) /\ ins.op = f.code[c][k].op /\ ins.def = f.code[c][k].def
    BY <2>1 DEF Named
  <2>3. CASE IsPhi(ins) /\ b \in Keys(ins)
    <3>1. g.code[c] \in Seq(Instructions(B)) /\ Len(g.code[c]) = n
      BY <2>1, <2>2, FunctionParts DEF Named
    <3>2. ins \in Instructions(B)
      BY <3>1
    <3>3. ins.opts \in [Keys(ins) -> Values]
      BY <3>2, InstructionParts
    <3> DEFINE w == ins.opts[b]
               v == ins.def
               h == ValueReplaced(g, v, w)
    <3>4. w \in Values
      BY <2>3, <3>3
    <3>5. PhiReplaced(g, b, c, k) = h
      BY <2>3 DEF PhiReplaced
    <3>6. f.code[c][k] \in PhisOf(f.code[c])
      <4>1. f.code[c][k] \in ToSet(f.code[c])
        BY <1>1 DEF ToSet
      <4> QED BY <2>2, <2>3, <4>1 DEF PhisOf, IsPhi
    <3>7. \A x \in X : v \notin Tests(g.code[x])
      BY <2>1, <2>2, <3>6
    <3> HIDE DEF ins, v, w
    <3>8. \A x \in B : Named(h.code[x], g.code[x]) /\ TestsReplaced(h.code[x], g.code[x], v, w)
      BY <2>1, <3>4, ValueReplacedTests
    <3>9. h \in Functions(B)
      BY <2>1, <3>4, ValueReplacedSimilar DEF FunctionSimilar
    <3> HIDE DEF h
    <3>10. \A x \in B : Named(h.code[x], f.code[x])
      BY <2>1, <3>8 DEF Named
    <3>11. \A x \in X : Tests(h.code[x]) \subseteq Tests(f.code[x])
      BY <2>1, <3>7, <3>8 DEF TestsReplaced
    <3> QED BY <3>5, <3>9, <3>10, <3>11
  <2>4. CASE ~(IsPhi(ins) /\ b \in Keys(ins))
    BY <2>4 DEF PhiReplaced
  <2> QED BY <2>3, <2>4
<1> HIDE DEF D, n
<1>4. PhisReplaced(f, b, c) \in D
  BY <1>1, <1>2, <1>3, PhisReplacedIn DEF n
<1> QED BY <1>4 DEF D

LEMMA MergedDraws ==
  ASSUME NEW B, NEW f, FunctionSound(f, B), NoPhiTested(f),
         NEW b \in LiveOf(f), NEW c \in LiveOf(f), b # c, LiveOf(Merged(f, b, c)) = LiveOf(f) \ {c}
  PROVE  Draws(Merged(f, b, c), f)
<1> DEFINE L == LiveOf(f)
           front == Front(f.code[b])
           popped == [f EXCEPT !.code[b] = front]
           replaced == PhisReplaced(popped, b, c)
           joined == replaced.code[b] \o BodyOf(replaced.code[c])
           moved == [replaced EXCEPT !.code[b] = joined]
           del == Deleted(moved, c)
           g == BlockReplaced(del, c, b)
<1>1. Merged(f, b, c) = g
  BY DEF Merged
<1>2. f \in Functions(B) /\ L \subseteq B /\ b \in B /\ c \in B /\ \A x \in L : Ends(f.code[x])
  BY DEF FunctionSound, LiveOf
<1>3. \A x \in B : f.code[x] \in Seq(Instructions(B))
  BY <1>2, FunctionParts
<1> HIDE DEF g
<1>4. front \in Seq(Instructions(B)) /\ PhiNames(front) \subseteq PhiNames(f.code[b])
  BY <1>2, <1>3, FrontOf, FewerInstructions
<1> HIDE DEF front
<1>5. BlockChanged(popped, f, B, b, front, f.deleted)
  BY <1>2, <1>4, BlockChange
<1> HIDE DEF popped
<1>6. popped \in Functions(B) /\ popped.code[c] = f.code[c]
      /\ \A x \in B \ {b} : popped.code[x] = f.code[x]
  BY <1>2, <1>5 DEF BlockChanged
<1>7. /\ \A x \in B : Named(replaced.code[x], popped.code[x])
      /\ \A x \in L \ {b} : Tests(replaced.code[x]) \subseteq Tests(popped.code[x])
  <2> DEFINE X == L \ {b}
  <2>1. X \in SUBSET B
    BY <1>2
  <2>2. ASSUME NEW ins \in PhisOf(popped.code[c]), NEW x \in X PROVE ins.def \notin Tests(popped.code[x])
    <3>1. ins.def \in PhiNames(f.code[c])
      BY <1>6 DEF PhiNames
    <3>2. Tests(popped.code[x]) \subseteq Tested(f)
      BY <1>2, <1>6 DEF Tested
    <3> QED BY <3>1, <3>2 DEF NoPhiTested
  <2> HIDE DEF X
  <2>3. /\ \A x \in B : Named(PhisReplaced(popped, b, c).code[x], popped.code[x])
        /\ \A x \in X : Tests(PhisReplaced(popped, b, c).code[x]) \subseteq Tests(popped.code[x])
    BY <1>2, <1>6, <2>1, <2>2, PhisReplacedTests
  <2> QED BY <2>3 DEF X
<1>8. FunctionSimilar(replaced, popped, B)
  BY <1>2, <1>6, PhisReplacedSimilar
<1> HIDE DEF replaced
<1>9. replaced \in Functions(B) /\ \A x \in B : replaced.code[x] \in Seq(Instructions(B))
  BY <1>8, FunctionParts DEF FunctionSimilar
<1>10. \A x \in B : popped.code[x] \in Seq(Instructions(B))
  BY <1>6, FunctionParts
<1>11. \A x \in B : PhiNames(replaced.code[x]) \subseteq PhiNames(popped.code[x])
  BY <1>7, <1>9, <1>10, NamedPhis
<1>12. Ends(replaced.code[c])
  BY <1>2, <1>6, <1>8, FunctionSimilarView DEF SameView
<1>13. Tests(joined) = Tests(replaced.code[c]) /\ PhiNames(joined) \subseteq PhiNames(replaced.code[b])
       /\ joined \in Seq(Instructions(B))
  BY <1>2, <1>9, <1>12, BodyTests, BodyView
<1> HIDE DEF joined
<1>14. BlockChanged(moved, replaced, B, b, joined, replaced.deleted)
  BY <1>2, <1>9, <1>13, BlockChange
<1> HIDE DEF moved
<1>15. moved \in Functions(B)
  BY <1>14 DEF BlockChanged
<1>16. BlockChanged(del, moved, B, c, <<>>, moved.deleted \cup {c})
  BY <1>2, <1>15, BlockDeleted
<1> HIDE DEF del
<1>17. del \in Functions(B)
  BY <1>16 DEF BlockChanged
<1>18. \A x \in B : TestsFewer(g.code[x], del.code[x])
  BY <1>2, <1>17, BlockReplacedTests DEF g
<1>19. ASSUME NEW x \in L \ {c}
       PROVE  Tests(g.code[x]) \subseteq Tested(f) /\ PhiNames(g.code[x]) \subseteq PhiNames(f.code[x])
  <2>1. CASE x = b
    <3>1. del.code[x] = joined
      BY <1>2, <1>14, <1>16, <2>1 DEF BlockChanged
    <3>2. Tests(joined) \subseteq Tests(f.code[c])
      BY <1>6, <1>7, <1>13
    <3>3. PhiNames(joined) \subseteq PhiNames(f.code[b])
      BY <1>2, <1>4, <1>5, <1>11, <1>13 DEF BlockChanged
    <3> QED BY <1>2, <1>18, <2>1, <3>1, <3>2, <3>3 DEF TestsFewer, Tested
  <2>2. CASE x # b
    <3>1. del.code[x] = replaced.code[x] /\ popped.code[x] = f.code[x] /\ x \in B
      BY <1>2, <1>6, <1>14, <1>16, <2>2 DEF BlockChanged
    <3>2. Tests(del.code[x]) \subseteq Tests(f.code[x]) /\ PhiNames(del.code[x]) \subseteq PhiNames(f.code[x])
      BY <1>7, <1>11, <2>2, <3>1
    <3> QED BY <1>18, <3>1, <3>2 DEF TestsFewer, Tested
  <2> QED BY <2>1, <2>2
<1> QED BY <1>1, <1>19 DEF Draws

LEMMA BypassedDraws ==
  ASSUME NEW B, NEW f, FunctionSound(f, B), NEW b \in LiveOf(f), NEW t \in LiveOf(f),
         NEW P \in SUBSET B, LiveOf(Deleted(Bypassed(f, b, t, P), b)) = LiveOf(f) \ {b}
  PROVE  Draws(Deleted(Bypassed(f, b, t, P), b), f)
<1> DEFINE bypassed == Bypassed(f, b, t, P)
           g == Deleted(bypassed, b)
<1>1. f \in Functions(B) /\ LiveOf(f) \subseteq B /\ b \in B /\ t \in B
  BY DEF FunctionSound, LiveOf
<1>2. \A x \in B : TestsFewer(bypassed.code[x], f.code[x])
  BY <1>1, BypassedTests
<1>3. bypassed \in Functions(B)
  BY <1>1, BlockBypassed DEF FunctionRewired
<1> HIDE DEF bypassed
<1>4. BlockChanged(g, bypassed, B, b, <<>>, bypassed.deleted \cup {b})
  BY <1>1, <1>3, BlockDeleted
<1>5. LiveOf(g) = LiveOf(f) \ {b}
  BY DEF bypassed
<1> HIDE DEF g
<1>6. \A x \in LiveOf(g) : TestsFewer(g.code[x], f.code[x])
  BY <1>1, <1>2, <1>4, <1>5 DEF BlockChanged
<1>7. Draws(g, f)
  BY <1>5, <1>6, FewerDraws
<1> QED BY <1>7 DEF g, bypassed

LEMMA HoistedDraws ==
  ASSUME NEW B, NEW f, FunctionSound(f, B), NEW b \in LiveOf(f), NEW p \in B, p # b,
         LiveOf(BlockReplaced(Deleted([f EXCEPT !.code[p] = Append(Front(@), Last(f.code[b]))], b),
                              b, p)) = LiveOf(f) \ {b}
  PROVE  Draws(BlockReplaced(Deleted([f EXCEPT !.code[p] = Append(Front(@), Last(f.code[b]))], b),
                             b, p), f)
<1> DEFINE last == Last(f.code[b])
           ended == Append(Front(f.code[p]), last)
           hoisted == [f EXCEPT !.code[p] = ended]
           del == Deleted(hoisted, b)
           g == BlockReplaced(del, b, p)
<1>1. LiveOf(g) = LiveOf(f) \ {b}
  OBVIOUS
<1> HIDE DEF g
<1>2. f \in Functions(B) /\ LiveOf(f) \subseteq B /\ b \in B /\ Ends(f.code[b])
  BY DEF FunctionSound, LiveOf
<1>3. f.code[b] \in Seq(Instructions(B)) /\ f.code[p] \in Seq(Instructions(B))
  BY <1>2, FunctionParts
<1>4. last \in Instructions(B) /\ IsTerminator(last)
      /\ Tests(f.code[b]) = IF last.op = "branch" THEN {last.args[1]} ELSE {}
  BY <1>2, <1>3, LastIsThere DEF Ends, Tests
<1> HIDE DEF last
<1>5. ended \in Seq(Instructions(B)) /\ Tests(ended) = Tests(f.code[b])
      /\ PhiNames(ended) \subseteq PhiNames(f.code[p])
  BY <1>3, <1>4, EndTests, EndView
<1> HIDE DEF ended
<1>6. BlockChanged(hoisted, f, B, p, ended, f.deleted)
  BY <1>2, <1>5, BlockChange
<1> HIDE DEF hoisted
<1>7. hoisted \in Functions(B)
  BY <1>6 DEF BlockChanged
<1>8. BlockChanged(del, hoisted, B, b, <<>>, hoisted.deleted \cup {b})
  BY <1>2, <1>7, BlockDeleted
<1>9. g = BlockReplaced(del, b, p)
  BY DEF g
<1> HIDE DEF del
<1>10. del \in Functions(B)
  BY <1>8 DEF BlockChanged
<1>11. \A x \in B : TestsFewer(g.code[x], del.code[x])
  BY <1>2, <1>9, <1>10, BlockReplacedTests
<1>12. ASSUME NEW x \in LiveOf(g)
       PROVE  Tests(del.code[x]) \subseteq Tested(f) /\ PhiNames(del.code[x]) \subseteq PhiNames(f.code[x])
  <2>1. CASE x = p
    BY <1>2, <1>5, <1>6, <1>8, <2>1 DEF BlockChanged, Tested
  <2>2. CASE x # p
    <3>1. del.code[x] = f.code[x] /\ x \in LiveOf(f)
      BY <1>1, <1>2, <1>6, <1>8, <1>12, <2>2 DEF BlockChanged
    <3> QED BY <3>1 DEF Tested
  <2> QED BY <2>1, <2>2
<1>13. Draws(g, f)
  BY <1>1, <1>2, <1>11, <1>12 DEF Draws, TestsFewer
<1> QED BY <1>13 DEF g, del, hoisted, ended, last

\* Block b of f without its test.
Untested(g, f, B, b) ==
  /\ Draws(g, f) /\ Tests(g.code[b]) = {} /\ Ends(g.code[b])
  /\ \A x \in B \ {b} : g.code[x] = f.code[x]

LEMMA FoldedDraws ==
  ASSUME NEW B, NEW f, FunctionSound(f, B), NEW b \in LiveOf(f), NEW taken \in B
  PROVE  Untested([f EXCEPT !.code[b] = Append(Front(@), Jump(taken))], f, B, b)
<1> DEFINE jump == Jump(taken)
           ended == Append(Front(f.code[b]), jump)
           g == [f EXCEPT !.code[b] = Append(Front(@), Jump(taken))]
<1>1. f \in Functions(B) /\ LiveOf(f) \subseteq B /\ b \in B
  BY DEF FunctionSound, LiveOf
<1>2. f.code[b] \in Seq(Instructions(B))
  BY <1>1, FunctionParts
<1>3. jump \in Instructions(B) /\ jump.op = "jump" /\ IsTerminator(jump)
  BY JumpIsInstruction
<1> HIDE DEF jump
<1>4. /\ ended \in Seq(Instructions(B)) /\ Ends(ended) /\ Tests(ended) = {}
      /\ PhiNames(ended) \subseteq PhiNames(f.code[b])
  BY <1>2, <1>3, EndTests, EndView DEF EndsLike
<1> HIDE DEF ended
<1>5. g = [f EXCEPT !.code[b] = ended]
  BY DEF ended, jump
<1> HIDE DEF g
<1>6. BlockChanged(g, f, B, b, ended, f.deleted)
  <2>1. BlockChanged([f EXCEPT !.code[b] = ended], f, B, b, ended, f.deleted)
    BY <1>1, <1>4, BlockChange
  <2> QED BY <1>5, <2>1
<1>7. LiveOf(g) = LiveOf(f) /\ g.code[b] = ended /\ \A x \in B \ {b} : g.code[x] = f.code[x]
  BY <1>6 DEF BlockChanged, LiveOf
<1>8. \A x \in LiveOf(g) : TestsFewer(g.code[x], f.code[x])
  BY <1>1, <1>4, <1>7 DEF TestsFewer
<1>9. Draws(g, f)
  BY <1>7, <1>8, FewerDraws
<1>10. Untested(g, f, B, b)
  BY <1>4, <1>7, <1>9 DEF Untested
<1> QED BY <1>10 DEF g

\* An instruction is removed, and w takes the place of v.
LEMMA RemovedTested ==
  ASSUME NEW B, NEW f, FunctionSound(f, B), NEW b \in LiveOf(f), NEW k \in 1..Len(f.code[b]),
         ~IsTerminator(f.code[b][k]), NEW v, NEW w \in Values, NEW g,
         g = [ValueReplaced(f, v, w) EXCEPT !.code[b] = RemoveAt(@, k)]
  PROVE  /\ LiveOf(g) = LiveOf(f)
         /\ \A x \in LiveOf(f) : /\ PhiNames(g.code[x]) \subseteq PhiNames(f.code[x])
                                 /\ TestsReplaced(g.code[x], f.code[x], v, w)
<1> DEFINE replaced == ValueReplaced(f, v, w)
           less == RemoveAt(replaced.code[b], k)
<1>1. f \in Functions(B) /\ LiveOf(f) \subseteq B /\ \A x \in LiveOf(f) : Ends(f.code[x])
  BY DEF FunctionSound, LiveOf
<1>2. FunctionSimilar(replaced, f, B)
  BY <1>1, ValueReplacedSimilar
<1>3. \A x \in B : Named(replaced.code[x], f.code[x]) /\ TestsReplaced(replaced.code[x], f.code[x], v, w)
  BY <1>1, ValueReplacedTests
<1>4. g = [replaced EXCEPT !.code[b] = less]
  OBVIOUS
<1> HIDE DEF replaced
<1>5. /\ replaced \in Functions(B) /\ replaced.blocks = f.blocks /\ replaced.deleted = f.deleted
      /\ \A x \in B : replaced.code[x] \in Seq(Instructions(B)) /\ f.code[x] \in Seq(Instructions(B))
  BY <1>1, <1>2, FunctionParts DEF FunctionSimilar
<1>6. \A x \in B : PhiNames(replaced.code[x]) \subseteq PhiNames(f.code[x])
  BY <1>3, <1>5, NamedPhis
<1>7. Ends(replaced.code[b])
  BY <1>1, <1>2, FunctionSimilarView DEF SameView
<1>8. k \in 1..Len(replaced.code[b]) /\ ~IsTerminator(replaced.code[b][k])
  BY <1>1, <1>2 DEF FunctionSimilar, Similar, IsTerminator
<1>9. less \in Seq(Instructions(B)) /\ Tests(less) = Tests(replaced.code[b])
      /\ PhiNames(less) \subseteq PhiNames(replaced.code[b])
  BY <1>1, <1>5, <1>7, <1>8, RemovedTests, RemovedView
<1> HIDE DEF less
<1>10. BlockChanged(g, replaced, B, b, less, replaced.deleted)
  <2>1. BlockChanged([replaced EXCEPT !.code[b] = less], replaced, B, b, less, replaced.deleted)
    BY <1>1, <1>5, <1>9, BlockChange
  <2> QED BY <1>4, <2>1
<1>11. LiveOf(g) = LiveOf(f)
  BY <1>5, <1>10 DEF BlockChanged, LiveOf
<1>12. ASSUME NEW x \in LiveOf(f)
       PROVE  /\ PhiNames(g.code[x]) \subseteq PhiNames(f.code[x])
              /\ TestsReplaced(g.code[x], f.code[x], v, w)
  <2>1. CASE x = b
    BY <1>1, <1>3, <1>6, <1>9, <1>10, <2>1 DEF BlockChanged, TestsReplaced
  <2>2. CASE x # b
    BY <1>1, <1>3, <1>6, <1>10, <2>2 DEF BlockChanged
  <2> QED BY <2>1, <2>2
<1> QED BY <1>11, <1>12

LEMMA PhiCutTests ==
  ASSUME NEW B, NEW f, FunctionSound(f, B), NEW b \in LiveOf(f), NEW k \in 1..Len(f.code[b]),
         IsPhi(f.code[b][k]), NEW gone, PhiCut(f, b, k, gone) \in Functions(B)
  PROVE  /\ LiveOf(PhiCut(f, b, k, gone)) = LiveOf(f)
         /\ \A x \in LiveOf(f) : TestsFewer(PhiCut(f, b, k, gone).code[x], f.code[x])
<1> DEFINE s == f.code[b]
           ins == Cut(s[k], gone)
           t == [s EXCEPT ![k] = ins]
           g == PhiCut(f, b, k, gone)
<1>1. f \in Functions(B) /\ LiveOf(f) \subseteq B
  BY DEF FunctionSound, LiveOf
<1>2. f.code \in [B -> Seq(Instructions(B))] /\ s \in Seq(Instructions(B)) /\ s[k] \in Instructions(B)
  BY <1>1, FunctionParts
<1>3. ins.op = s[k].op /\ ins.def = s[k].def /\ ins.args = s[k].args
  BY <1>2 DEF Cut, Instructions
<1>4. g.blocks = f.blocks /\ g.deleted = f.deleted /\ g.code = [f.code EXCEPT ![b] = t]
  BY <1>1 DEF PhiCut, Functions
<1> HIDE DEF g, ins
<1>5. Kin(t, s)
  BY <1>2, <1>3 DEF Kin
<1>6. g.code[b] = t /\ \A x \in B \ {b} : g.code[x] = f.code[x]
  BY <1>1, <1>2, <1>4
<1>7. \A x \in B : g.code[x] \in Seq(Instructions(B))
  BY FunctionParts DEF g
<1>8. TestsFewer(g.code[b], f.code[b])
  <2> HIDE DEF s, t
  <2>1. s \in Seq(Instructions(B)) /\ t \in Seq(Instructions(B)) /\ Kin(t, s)
    BY <1>1, <1>2, <1>5, <1>6, <1>7
  <2> QED BY <1>6, <2>1, KinTests DEF s
<1>9. \A x \in LiveOf(f) : TestsFewer(g.code[x], f.code[x])
  BY <1>1, <1>6, <1>8 DEF TestsFewer
<1> QED BY <1>4, <1>9 DEF g, LiveOf

\* Where a block goes is as it was, and what it tests too unless that got constant.
TestsKept(g, f) ==
  /\ LiveOf(g) = LiveOf(f)
  /\ \A x \in LiveOf(f) :
       /\ PhiNames(g.code[x]) \subseteq PhiNames(f.code[x])
       /\ Tests(g.code[x]) \subseteq Tests(f.code[x]) \cup Constants
       /\ Tests(g.code[x]) # {} => Tests(f.code[x]) # {}
       /\ Targets(g.code[x]) = Targets(f.code[x])

\* Functions with one graph: the targets of their blocks.
LEMMA SameTargetsOf ==
  ASSUME NEW B, NEW f, FunctionSound(f, B), NEW g, Becomes(g, f, B, {}, Edges(f))
  PROVE  LiveOf(g) = LiveOf(f) /\ \A x \in LiveOf(f) : Targets(g.code[x]) = Targets(f.code[x])
<1>1. LiveOf(g) = LiveOf(f) /\ FunctionSound(g, B) /\ \A x \in LiveOf(f) : Edges(g)[x] = Edges(f)[x]
  BY DEF Becomes
<1>2. ASSUME NEW x \in LiveOf(f) PROVE Targets(g.code[x]) = Targets(f.code[x])
  <2>1. x \in B /\ f \in Functions(B) /\ g \in Functions(B)
    BY <1>1 DEF FunctionSound, LiveOf
  <2>2. Edges(g)[x] = Targets(g.code[x])
    BY <2>1, FunctionParts
  <2>3. Edges(f)[x] = Targets(f.code[x])
    BY <2>1, FunctionParts
  <2> QED BY <1>1, <2>2, <2>3
<1> QED BY <1>1, <1>2

LEMMA KeptTwice ==
  ASSUME NEW f, NEW g, NEW h, TestsKept(g, f), TestsKept(h, g)
  PROVE  TestsKept(h, f)
<1>1. ASSUME NEW x \in LiveOf(f)
      PROVE  /\ PhiNames(h.code[x]) \subseteq PhiNames(f.code[x])
             /\ Tests(h.code[x]) \subseteq Tests(f.code[x]) \cup Constants
             /\ Tests(h.code[x]) # {} => Tests(f.code[x]) # {}
             /\ Targets(h.code[x]) = Targets(f.code[x])
  BY DEF TestsKept
<1> QED BY <1>1 DEF TestsKept

LEMMA RemovedKept ==
  ASSUME NEW B, NEW f, FunctionSound(f, B), NEW b \in LiveOf(f), NEW k \in 1..Len(f.code[b]),
         ~IsTerminator(f.code[b][k]), NEW v, NEW w \in Values, w \in Constants \/ v \notin Tested(f)
  PROVE  TestsKept([ValueReplaced(f, v, w) EXCEPT !.code[b] = RemoveAt(@, k)], f)
<1> DEFINE g == [ValueReplaced(f, v, w) EXCEPT !.code[b] = RemoveAt(@, k)]
<1>1. /\ LiveOf(g) = LiveOf(f)
      /\ \A x \in LiveOf(f) : /\ PhiNames(g.code[x]) \subseteq PhiNames(f.code[x])
                              /\ TestsReplaced(g.code[x], f.code[x], v, w)
  BY RemovedTested
<1>2. Becomes(g, f, B, {}, Edges(f))
  BY RemovedSound
<1> HIDE DEF g
<1>3. \A x \in LiveOf(f) : Targets(g.code[x]) = Targets(f.code[x])
  BY <1>2, SameTargetsOf
<1>4. ASSUME NEW x \in LiveOf(f)
      PROVE  /\ Tests(g.code[x]) \subseteq Tests(f.code[x]) \cup Constants
             /\ Tests(g.code[x]) # {} => Tests(f.code[x]) # {}
  <2>1. w \in Constants \/ v \notin Tests(f.code[x])
    BY DEF Tested
  <2> QED BY <1>1, <2>1 DEF TestsReplaced
<1>5. TestsKept(g, f)
  BY <1>1, <1>3, <1>4 DEF TestsKept
<1> QED BY <1>5 DEF g

\* What is left of a function is as it was.
LeftOf(g, f) == LiveOf(g) \subseteq LiveOf(f) /\ \A x \in LiveOf(g) : g.code[x] = f.code[x]

LEMMA LeftDraws ==
  ASSUME NEW f, NEW g, LeftOf(g, f)
  PROVE  Draws(g, f)
BY FewerDraws DEF LeftOf, TestsFewer

LEMMA RemovalLeaves ==
  ASSUME NEW B, NEW f, FunctionSound(f, B)
  PROVE  /\ LeftOf(DeletedRemoved(f), f)
         /\ ToSet(f.blocks) \cap f.deleted = {} => LeftOf(UnreachableRemoved(f), f)
<1>1. f \in Functions(B) /\ DOMAIN f.code = B /\ LiveOf(f) \subseteq B
  BY DEF FunctionSound, Functions, LiveOf
<1>2. LiveOf(DeletedRemoved(f)) = LiveOf(f)
  BY DeletedRemovedSound
<1>3. DeletedRemoved(f).code = f.code
  BY <1>1 DEF DeletedRemoved, Functions
<1>4. ASSUME ToSet(f.blocks) \cap f.deleted = {} PROVE LeftOf(UnreachableRemoved(f), f)
  <2> DEFINE gone == ToSet(f.blocks) \ Reached(f.blocks, f.code)
             g == UnreachableRemoved(f)
  <2>1. LiveOf(g) \subseteq LiveOf(f)
    BY <1>4, UnreachableRemovedSound DEF Cleared
  <2>2. g.deleted = f.deleted \cup gone /\ g.code = [b \in B |-> IF b \in gone THEN <<>> ELSE f.code[b]]
    BY <1>1 DEF UnreachableRemoved, Functions
  <2> HIDE DEF g, gone
  <2>3. \A x \in LiveOf(g) : g.code[x] = f.code[x]
    BY <1>1, <2>1, <2>2 DEF LiveOf
  <2> QED BY <2>1, <2>3 DEF g, LeftOf
<1> QED BY <1>2, <1>3, <1>4 DEF LeftOf

-----------------------------------------------------------------------------
(* The inductive invariant. *)

Blocks == DOMAIN func.code

Typed == "dirty" \in DOMAIN cfg_info /\ at \in Nat \ {0} /\ phi \in Nat \ {0}

\* Blocks that are deleted are in the list only until the end of the loop.
MarkedOnly ==
  \/ ToSet(func.blocks) \cap func.deleted = {}
  \/ modified /\ pc \in {"combine", "empty", "hoist"}
  \/ pc \in {"crashed", "hung"}

CopiesMirror ==
  InRun => Mirrored(successors, predecessors, Blocks, LiveOf(func), Edges(func))

\* The analysis is only asked again after the graph was modified or the analysis was
\* invalidated: until then it knows every predecessor there is.
AnalysisCovers ==
  (InRun /\ ~graph_modified /\ ~cfg_info.dirty) \/ pc = "cleanup" =>
    Covers(cfg_info.predecessors, LiveOf(func), Edges(func))

IInv ==
  /\ Typed /\ FunctionSound(func, Blocks) /\ MarkedOnly /\ CopiesMirror /\ AnalysisCovers

LEMMA SourceInstructions ==
  ASSUME NEW f \in Sources, NEW b \in DOMAIN f.code, NEW ins \in ToSet(f.code[b])
  PROVE  ins \in Instructions(DOMAIN f.code)
<1> DEFINE B == DOMAIN f.code
<1>1. InstructionOver(ins, B)
  BY SourcesAssumption DEF WellFormed
<1>2. ins \in InstructionsOf(f)
  BY DEF InstructionsOf
<1>3. ins.op \in Operations /\ ins.def \in Names
  BY <1>2 DEF Operations, Names
<1>4. ValuesRead(ins) \subseteq Values
  BY <1>2 DEF Values
<1> HIDE DEF B
<1>5. /\ ins = [op |-> ins.op, def |-> ins.def, args |-> ins.args, to |-> ins.to, opts |-> ins.opts]
      /\ ins.args \in Seq(ValuesRead(ins)) /\ ins.opts \in [Keys(ins) -> ValuesRead(ins)]
      /\ ins.to \in Seq(B) /\ Keys(ins) \subseteq B
      /\ (ins.op = "jump" => Len(ins.to) = 1)
      /\ (ins.op = "branch" => Len(ins.to) = 2 /\ Len(ins.args) = 1)
  BY <1>1 DEF InstructionOver
<1>6. ins.args \in Seq(Values)
  BY <1>4, <1>5
<1>7. ins.opts \in Options(B)
  <2>1. ins.opts \in [Keys(ins) -> Values]
    BY <1>4, <1>5
  <2> QED BY <1>5, <2>1 DEF Options
<1>8. ins \in [op : Operations, def : Names, args : Seq(Values), to : Seq(B), opts : Options(B)]
  <2> DEFINE op == ins.op
             def == ins.def
             args == ins.args
             to == ins.to
             opts == ins.opts
  <2>1. op \in Operations /\ def \in Names /\ args \in Seq(Values) /\ to \in Seq(B) /\ opts \in Options(B)
    BY <1>3, <1>5, <1>6, <1>7
  <2>2. ins = [op |-> op, def |-> def, args |-> args, to |-> to, opts |-> opts]
    BY <1>5
  <2> HIDE DEF op, def, args, to, opts
  <2> QED BY <2>1, <2>2
<1>9. ins \in Instructions(B)
  BY <1>5, <1>8 DEF Instructions
<1> QED BY <1>9 DEF B

\* A function as it is given is sound.
LEMMA SourceSound ==
  ASSUME NEW f \in Sources
  PROVE  FunctionSound([blocks |-> f.blocks, code |-> f.code, deleted |-> {}, forgotten |-> {}],
                       DOMAIN f.code)
<1> DEFINE B == DOMAIN f.code
           g == [blocks |-> f.blocks, code |-> f.code, deleted |-> {}, forgotten |-> {}]
<1>1. /\ f.blocks \in Seq(B) /\ ToSet(f.blocks) = B
      /\ f.code \in [B -> Seq(UNION {ToSet(f.code[b]) : b \in B})]
      /\ \A b \in B : /\ f.code[b] # <<>> /\ IsTerminator(Last(f.code[b]))
                      /\ \A ins \in ToSet(f.code[b]) : InstructionOver(ins, B)
                      /\ \A ins \in PhisOf(f.code[b]) :
                           {a \in B : b \in Targets(f.code[a])} \subseteq Keys(ins)
  BY SourcesAssumption DEF WellFormed
<1>2. \A b \in B : \A ins \in ToSet(f.code[b]) : ins \in Instructions(B)
  BY SourceInstructions
<1> HIDE DEF B
<1>3. ASSUME NEW b \in B PROVE f.code[b] \in Seq(Instructions(B))
  <2> DEFINE s == f.code[b]
             S == UNION {ToSet(f.code[x]) : x \in B}
  <2>1. s \in Seq(S)
    BY <1>1
  <2>2. \A ins \in ToSet(s) : ins \in Instructions(B)
    BY <1>2
  <2> HIDE DEF s, S
  <2>3. \A i \in 1..Len(s) : s[i] \in ToSet(s)
    BY <2>1 DEF ToSet
  <2>4. s \in Seq(Instructions(B))
    BY <2>1, <2>2, <2>3
  <2> QED BY <2>4 DEF s
<1>4. f.code \in [B -> Seq(Instructions(B))]
  BY <1>1, <1>3
<1>5. g \in Functions(B)
  BY <1>1, <1>4 DEF Functions
<1>6. g.blocks = f.blocks /\ g.deleted = {} /\ g.code = f.code
  OBVIOUS
<1> HIDE DEF g
<1>7. LiveOf(g) = B /\ B = ToSet(g.blocks) \cup g.deleted
  BY <1>1, <1>6 DEF LiveOf
<1>8. \A x \in B : /\ Edges(g)[x] = Targets(f.code[x])
                   /\ PhiKeys(g)[x] = KeySets(f.code[x])
  BY <1>5, <1>6, FunctionParts
<1>9. \A x \in B : Ends(f.code[x])
  BY <1>1 DEF Ends
<1>10. ASSUME NEW x \in B PROVE Edges(g)[x] \subseteq B
  <2>1. Last(f.code[x]) \in ToSet(f.code[x])
    BY <1>1, <1>3, LastIsThere
  <2>2. Last(f.code[x]).to \in Seq(B)
    BY <1>1, <2>1 DEF InstructionOver
  <2>3. Edges(g)[x] = ToSet(Last(f.code[x]).to)
    BY <1>1, <1>8 DEF Targets
  <2> QED BY <2>2, <2>3 DEF ToSet
<1>11. ASSUME NEW x \in B, NEW keys \in PhiKeys(g)[x] PROVE Into(B, Edges(g), x) \subseteq keys
  <2>1. PICK ins \in PhisOf(f.code[x]) : keys = Keys(ins)
    BY <1>8 DEF KeySets
  <2>2. Into(B, Edges(g), x) = {a \in B : x \in Targets(f.code[a])}
    BY <1>8 DEF Into
  <2> QED BY <1>1, <2>1, <2>2
<1>12. Sound(LiveOf(g), Edges(g), PhiKeys(g))
  BY <1>7, <1>10, <1>11 DEF Sound
<1>13. FunctionSound(g, B)
  BY <1>5, <1>6, <1>7, <1>9, <1>12 DEF FunctionSound
<1> QED BY <1>13 DEF g, B

LEMMA InitSound == Init => IInv
<1> SUFFICES ASSUME Init PROVE IInv
  OBVIOUS
<1>1. PICK f \in Sources :
        func = [blocks |-> f.blocks, code |-> f.code, deleted |-> {}, forgotten |-> {}]
  BY DEF Init
<1>2. func.blocks = f.blocks /\ func.deleted = {} /\ func.code = f.code
  BY <1>1
<1>3. FunctionSound(func, Blocks)
  BY <1>1, <1>2, SourceSound DEF Blocks
<1>4. Typed
  BY DEF Init, Typed
<1>5. MarkedOnly
  BY <1>2 DEF MarkedOnly
<1>6. CopiesMirror /\ AnalysisCovers
  BY DEF Init, CopiesMirror, AnalysisCovers, InRun
<1> QED BY <1>3, <1>4, <1>5, <1>6 DEF IInv

-----------------------------------------------------------------------------
(* The steps of the loops. *)

\* A step that keeps the live blocks, the edges and the loop keeps the rest.
LEMMA SameGraphSteps ==
  ASSUME IInv, Becomes(func', func, Blocks, {}, Edges(func)), Typed',
         UNCHANGED <<cfg_info, copies, flags, pc>>
  PROVE  IInv'
<1> DEFINE B == Blocks
<1>1. FunctionSound(func', B) /\ func'.blocks = func.blocks /\ func'.deleted = func.deleted
      /\ LiveOf(func') = LiveOf(func) /\ \A x \in LiveOf(func) : Edges(func')[x] = Edges(func)[x]
  BY DEF Becomes
<1>2. Blocks' = B
  BY <1>1, FunctionParts DEF FunctionSound, Blocks
<1>3. FunctionSound(func, Blocks)'
  BY <1>1, <1>2
<1>4. MarkedOnly'
  BY <1>1 DEF IInv, MarkedOnly, flags
<1>5. CopiesMirror'
  <2> SUFFICES ASSUME InRun' PROVE Mirrored(successors', predecessors', B, LiveOf(func'), Edges(func'))
    BY <1>2 DEF CopiesMirror
  <2>1. Mirrored(successors, predecessors, B, LiveOf(func), Edges(func))
    BY DEF IInv, CopiesMirror, InRun
  <2>2. Mirrored(successors, predecessors, B, LiveOf(func'), Edges(func'))
    BY <1>1, <2>1, CopiesKept
  <2> QED BY <2>2 DEF copies
<1>6. AnalysisCovers'
  <2> SUFFICES ASSUME (InRun' /\ ~graph_modified' /\ ~cfg_info'.dirty) \/ pc' = "cleanup"
               PROVE  Covers(cfg_info'.predecessors, LiveOf(func'), Edges(func'))
    BY DEF AnalysisCovers
  <2>1. Covers(cfg_info.predecessors, LiveOf(func), Edges(func))
    BY DEF IInv, AnalysisCovers, InRun, flags
  <2>2. Covers(cfg_info.predecessors, LiveOf(func'), Edges(func'))
    BY <1>1, <2>1, CoversFewer
  <2> QED BY <2>2
<1> QED BY <1>3, <1>4, <1>5, <1>6 DEF IInv

\* A loop comes to a live block.
LEMMA VisitedLive ==
  ASSUME IInv, NEW i \in DOMAIN func.blocks, func.blocks[i] \notin func.deleted
  PROVE  /\ i \in Nat \ {0} /\ i + 1 \in Nat \ {0}
         /\ func.blocks[i] \in LiveOf(func) /\ func.blocks[i] \in Blocks
<1>1. func.blocks \in Seq(Blocks)
  BY DEF IInv, FunctionSound, Functions
<1>2. i \in 1..Len(func.blocks)
  BY <1>1
<1> QED BY <1>1, <1>2 DEF LiveOf, ToSet

\* The end of a live block.
LEMMA BlockEnd ==
  ASSUME NEW B, NEW f, FunctionSound(f, B), NEW b \in LiveOf(f)
  PROVE  /\ Last(f.code[b]) \in Instructions(B) /\ Edges(f)[b] = ToSet(Last(f.code[b]).to)
         /\ (Last(f.code[b]).op = "branch" =>
               Edges(f)[b] = {Last(f.code[b]).to[1], Last(f.code[b]).to[2]})
         /\ \A c : Last(f.code[b]) = Jump(c) => Edges(f)[b] = {c}
         /\ (Last(f.code[b]).op = "jump" => Edges(f)[b] = {Last(f.code[b]).to[1]})
<1> DEFINE t == Last(f.code[b])
<1>1. b \in B /\ f \in Functions(B) /\ Ends(f.code[b])
  BY DEF FunctionSound, LiveOf
<1>2. f.code[b] \in Seq(Instructions(B)) /\ Edges(f)[b] = Targets(f.code[b]) /\ f.code[b] # <<>>
  BY <1>1, FunctionParts DEF Ends
<1>3. t \in Instructions(B) /\ Edges(f)[b] = ToSet(t.to)
  BY <1>2, LastIsThere DEF Targets
<1> HIDE DEF t
<1>4. t.to \in Seq(B) /\ (t.op = "branch" => Len(t.to) = 2) /\ (t.op = "jump" => Len(t.to) = 1)
  BY <1>3 DEF Instructions
<1>5. ASSUME t.op = "branch" PROVE ToSet(t.to) = {t.to[1], t.to[2]}
  <2>1. DOMAIN t.to = {1, 2}
    BY <1>4, <1>5
  <2> QED BY <2>1 DEF ToSet
<1>6. ASSUME NEW c, t = Jump(c) PROVE ToSet(t.to) = {c}
  <2>1. t.to = <<c>>
    BY <1>6 DEF Jump, Instruction
  <2> QED BY <2>1 DEF ToSet
<1>7. ASSUME t.op = "jump" PROVE ToSet(t.to) = {t.to[1]}
  <2>1. DOMAIN t.to = {1}
    BY <1>4, <1>7
  <2> QED BY <2>1 DEF ToSet
<1> QED BY <1>3, <1>5, <1>6, <1>7 DEF t

LEMMA FoldBranchStep ==
  ASSUME IInv, NEW i \in DOMAIN func.blocks, FoldBranch(i), ~ErasesTakenEdge(i)
  PROVE  IInv'
<1> DEFINE B == Blocks
           L == LiveOf(func)
           T == Edges(func)
           b == func.blocks[i]
           t == Last(func.code[b])
           constant == t.args[1] \in Constants
           taken == TargetTaken(t)
           other == IF taken = t.to[1] THEN t.to[2] ELSE t.to[1]
           U == [x \in L |-> IF x = b THEN {taken} ELSE T[x]]
<1>1. /\ pc \in {"fold", "refold"} /\ b \notin func.deleted
      /\ t.op = "branch" /\ (constant \/ t.to[1] = t.to[2])
      /\ func' = [func EXCEPT !.code[b] = Append(Front(@), Jump(taken))]
      /\ successors' = IF constant THEN [successors EXCEPT ![b] = @ \ {other}] ELSE successors
      /\ predecessors' = IF constant THEN [predecessors EXCEPT ![other] = @ \ {b}] ELSE predecessors
      /\ UNCHANGED <<graph_modified, changed, modified, cfg_info, pc, phi>> /\ at' = i + 1
  BY DEF FoldBranch, GoesOn, Visits, Redundant, Live, Terminator
<1>2. constant => t.to[1] # t.to[2]
  BY DEF ErasesTakenEdge, Terminator
<1>3. b \in L /\ i + 1 \in Nat \ {0}
  BY <1>1, VisitedLive
<1>4. FunctionSound(func, B) /\ L \subseteq B
  BY DEF IInv, FunctionSound, LiveOf
<1>5. T[b] = {t.to[1], t.to[2]} /\ T[b] \subseteq L
  <2>1. t.op = "branch"
    BY <1>1
  <2>2. t.op = "branch" => T[b] = {t.to[1], t.to[2]}
    BY <1>3, <1>4, BlockEnd
  <2>3. T[b] \subseteq L
    BY <1>3, <1>4 DEF FunctionSound, Sound
  <2> QED BY <2>1, <2>2, <2>3
<1>6. taken \in {t.to[1], t.to[2]}
  BY DEF TargetTaken
<1>7. taken \in L /\ other \in L /\ T[b] = {taken, other} /\ (constant => taken # other)
      /\ (~constant => T[b] = {taken})
  BY <1>1, <1>2, <1>5, <1>6
<1> HIDE DEF t, taken, other, constant
<1>8. Becomes(func', func, B, {}, U)
  <2>1. func' = [func EXCEPT !.code[b] = Append(Front(@), Jump(taken))]
    BY <1>1
  <2> HIDE DEF b, B
  <2>2. b \in LiveOf(func) /\ taken \in Edges(func)[b] /\ FunctionSound(func, B)
    BY <1>3, <1>4, <1>7
  <2>3. Becomes([func EXCEPT !.code[b] = Append(Front(@), Jump(taken))], func, B, {}, U)
    BY <2>2, FoldedSound
  <2> QED BY <2>1, <2>3
<1>9. FunctionSound(func', B) /\ func'.blocks = func.blocks /\ func'.deleted = func.deleted
      /\ LiveOf(func') = L /\ \A x \in L : Edges(func')[x] = U[x]
  BY <1>8 DEF Becomes
<1>10. Blocks' = B
  BY <1>9, FunctionParts DEF FunctionSound, Blocks
<1>11. Typed'
  BY <1>1, <1>3 DEF IInv, Typed
<1>12. MarkedOnly'
  BY <1>1, <1>9 DEF IInv, MarkedOnly
<1>13. InRun /\ InRun'
  BY <1>1 DEF InRun
<1>14. Mirrored(successors, predecessors, B, L, T)
  BY <1>13 DEF IInv, CopiesMirror
<1>15. Mirrored(successors', predecessors', B, LiveOf(func'), Edges(func'))
  <2>1. CASE constant
    <3>1. \A x \in L : Edges(func')[x] = IF x = b THEN {taken} ELSE T[x]
      BY <1>9
    <3>2. Folds(L, T, Edges(func'), b, taken, other)
      BY <1>3, <1>7, <2>1, <3>1 DEF Folds
    <3>3. /\ successors' = [successors EXCEPT ![b] = @ \ {other}]
          /\ predecessors' = [predecessors EXCEPT ![other] = @ \ {b}]
      BY <1>1, <2>1
    <3> HIDE DEF L, T, U, B, b
    <3>4. Mirrored([successors EXCEPT ![b] = @ \ {other}], [predecessors EXCEPT ![other] = @ \ {b}],
                   B, L, Edges(func'))
      BY <1>14, <3>2, CopiesFolded
    <3> QED BY <1>9, <3>3, <3>4
  <2>2. CASE ~constant
    <3>1. \A x \in L : Edges(func')[x] = T[x]
      BY <1>7, <1>9, <2>2
    <3>2. Mirrored(successors, predecessors, B, L, Edges(func'))
      BY <1>14, <3>1, CopiesKept
    <3> QED BY <1>1, <1>9, <2>2, <3>2
  <2> QED BY <2>1, <2>2
<1>16. CopiesMirror'
  BY <1>10, <1>15 DEF CopiesMirror
<1>17. AnalysisCovers'
  <2> SUFFICES ASSUME ~graph_modified, ~cfg_info.dirty
               PROVE  Covers(cfg_info.predecessors, LiveOf(func'), Edges(func'))
    BY <1>1 DEF AnalysisCovers
  <2>1. Covers(cfg_info.predecessors, L, T)
    BY <1>13 DEF IInv, AnalysisCovers
  <2>2. \A x \in L : Edges(func')[x] \subseteq T[x]
    BY <1>7, <1>9
  <2> QED BY <1>9, <2>1, <2>2, CoversFewer
<1> QED BY <1>9, <1>10, <1>11, <1>12, <1>16, <1>17 DEF IInv

\* What a step of a removing loop does to the graph, and to the copies.
LEMMA RemovingSteps ==
  ASSUME IInv, pc \in {"combine", "empty", "hoist"}, NEW gone, NEW to,
         Becomes(func', func, Blocks, gone, to),
         Mirrored(successors', predecessors', Blocks, LiveOf(func'), Edges(func')),
         modified' = TRUE, graph_modified' = TRUE, Typed', UNCHANGED <<cfg_info, pc>>
  PROVE  IInv'
<1> DEFINE B == Blocks
<1>1. FunctionSound(func', B)
  BY DEF Becomes
<1>2. Blocks' = B
  BY <1>1, FunctionParts DEF FunctionSound, Blocks
<1>3. MarkedOnly'
  BY DEF MarkedOnly
<1>4. CopiesMirror'
  BY <1>2 DEF CopiesMirror
<1>5. AnalysisCovers'
  BY DEF AnalysisCovers
<1> QED BY <1>1, <1>2, <1>3, <1>4, <1>5 DEF IInv

LEMMA LiveGraph ==
  ASSUME IInv
  PROVE  /\ FunctionSound(func, Blocks) /\ LiveOf(func) \subseteq Blocks
         /\ \A x \in LiveOf(func) : Edges(func)[x] \subseteq LiveOf(func)
         /\ InRun => Mirrored(successors, predecessors, Blocks, LiveOf(func), Edges(func))
BY DEF IInv, FunctionSound, LiveOf, Sound, CopiesMirror

LEMMA CombineBlocksStep ==
  ASSUME IInv, NEW i \in DOMAIN func.blocks, CombineBlocks(i)
  PROVE  IInv' /\ pc' = pc /\ (NoPhiTested(func) => Draws(func', func))
<1> DEFINE B == Blocks
           L == LiveOf(func)
           T == Edges(func)
           b == func.blocks[i]
           c == CHOOSE x \in successors[b] : TRUE
           U == [x \in L |-> IF x = b THEN T[c] ELSE T[x]]
<1>1. /\ pc = "combine" /\ b \notin func.deleted /\ Combinable(b) /\ c # b
      /\ func' = Merged(func, b, c) /\ modified' = TRUE /\ graph_modified' = TRUE
      /\ successors' = Erased([successors EXCEPT ![b] = (@ \ {c}) \cup successors[c]], c)
      /\ predecessors' = PredecessorsMoved(b, c)
      /\ UNCHANGED <<cfg_info, pc, phi>> /\ at' = i + 1
  BY DEF CombineBlocks, GoesOn, Visits, Live
<1>2. b \in L /\ i + 1 \in Nat \ {0}
  BY <1>1, VisitedLive
<1>3. /\ FunctionSound(func, B) /\ L \subseteq B /\ (\A x \in L : T[x] \subseteq L)
      /\ Mirrored(successors, predecessors, B, L, T)
  BY <1>1, LiveGraph DEF InRun
<1>4. /\ Cardinality(successors[b]) = 1
      /\ \A x \in successors[b] : predecessors[x] = {b} /\ Last(func.code[b]) = Jump(x)
  BY <1>1 DEF Combinable, Terminator
<1>5. c \in successors[b]
  <2>1. successors[b] # {}
    BY <1>4, FS_EmptySet
  <2> QED BY <2>1
<1> HIDE DEF c
<1>6. T[b] = {c} /\ c \in L
  <2>1. Last(func.code[b]) = Jump(c)
    BY <1>4, <1>5
  <2>2. T[b] = {c}
    BY <1>2, <1>3, <2>1, BlockEnd
  <2> QED BY <1>2, <1>3, <2>2
<1>7. Into(L, T, c) = {b}
  <2>1. predecessors[c] = {b} /\ predecessors[c] \cap L = Into(L, T, c)
    BY <1>3, <1>4, <1>5, <1>6 DEF Mirrored
  <2> QED BY <1>2, <2>1
<1>8. Becomes(func', func, B, {c}, U)
  <2> HIDE DEF b, B
  <2>1. Becomes(Merged(func, b, c), func, B, {c}, U)
    BY <1>1, <1>2, <1>3, <1>6, <1>7, MergedSound
  <2> QED BY <1>1, <2>1
<1>9. LiveOf(func') = L \ {c} /\ \A x \in L \ {c} : Edges(func')[x] = U[x]
  BY <1>8 DEF Becomes
<1>10. MergesEdges(B, L, T, Edges(func'), b, c)
  BY <1>1, <1>2, <1>3, <1>6, <1>7, <1>9 DEF MergesEdges
<1>11. predecessors' = Erased([x \in DOMAIN predecessors |->
                                 IF x \in successors[c] THEN (predecessors[x] \ {c}) \cup {b}
                                 ELSE predecessors[x]], c)
  BY <1>1 DEF PredecessorsMoved
<1>12. Mirrored(successors', predecessors', B, LiveOf(func'), Edges(func'))
  <2> HIDE DEF B, L, T, b
  <2>1. Mirrored(Erased([successors EXCEPT ![b] = (@ \ {c}) \cup successors[c]], c),
                 Erased([x \in DOMAIN predecessors |->
                           IF x \in successors[c] THEN (predecessors[x] \ {c}) \cup {b}
                           ELSE predecessors[x]], c),
                 B, L \ {c}, Edges(func'))
    BY <1>3, <1>10, CopiesMerged
  <2> QED BY <1>1, <1>9, <1>11, <2>1
<1>13. Typed'
  BY <1>1, <1>2 DEF IInv, Typed
<1>14. pc \in {"combine", "empty", "hoist"}
  BY <1>1
<1>15. ASSUME NoPhiTested(func) PROVE Draws(func', func)
  <2>1. func' = Merged(func, b, c) /\ c \in LiveOf(func) /\ LiveOf(func') = LiveOf(func) \ {c}
    BY <1>1, <1>6, <1>9
  <2> HIDE DEF b, B, U
  <2>2. Draws(Merged(func, b, c), func)
    BY <1>1, <1>2, <1>3, <1>15, <2>1, MergedDraws
  <2> QED BY <2>1, <2>2
<1> HIDE DEF U
<1>16. IInv'
  BY <1>1, <1>8, <1>12, <1>13, <1>14, RemovingSteps
<1> QED BY <1>1, <1>15, <1>16

LEMMA RemoveEmptyBlockStep ==
  ASSUME IInv, NEW i \in DOMAIN func.blocks, RemoveEmptyBlock(i)
  PROVE  IInv' /\ pc' = pc /\ Draws(func', func)
<1> DEFINE B == Blocks
           L == LiveOf(func)
           T == Edges(func)
           b == func.blocks[i]
           t == Last(func.code[b]).to[1]
           P == predecessors[b]
           U == [x \in L |-> IF b \in T[x] THEN (T[x] \ {b}) \cup {t} ELSE T[x]]
<1>1. /\ pc = "empty" /\ b \notin func.deleted /\ Last(func.code[b]).op = "jump" /\ t # b
      /\ func' = Deleted(Bypassed(func, b, t, P), b) /\ modified' = TRUE /\ graph_modified' = TRUE
      /\ successors' = Erased([x \in DOMAIN successors |->
                                 IF x \in P THEN (successors[x] \ {b}) \cup {t} ELSE successors[x]], b)
      /\ predecessors' = Erased([predecessors EXCEPT ![t] = (@ \cup P) \ {b}], b)
      /\ UNCHANGED <<cfg_info, pc, phi>> /\ at' = i + 1
  BY DEF RemoveEmptyBlock, GoesOn, Visits, Live, Empty, OnlyA, Terminator
<1>2. b \in L /\ i + 1 \in Nat \ {0}
  BY <1>1, VisitedLive
<1>3. /\ FunctionSound(func, B) /\ L \subseteq B /\ (\A x \in L : T[x] \subseteq L)
      /\ Mirrored(successors, predecessors, B, L, T)
  BY <1>1, LiveGraph DEF InRun
<1>4. T[b] = {t} /\ t \in L
  <2>1. Last(func.code[b]).op = "jump" => T[b] = {t}
    BY <1>2, <1>3, BlockEnd
  <2>2. T[b] = {t}
    BY <1>1, <2>1
  <2> QED BY <1>2, <1>3, <2>2
<1>5. P \subseteq B /\ P \cap L = Into(L, T, b)
  BY <1>2, <1>3 DEF Mirrored
<1> HIDE DEF t
<1>6. Becomes(func', func, B, {b}, U)
  <2> HIDE DEF b, B, P
  <2>1. Becomes(Deleted(Bypassed(func, b, t, P), b), func, B, {b}, U)
    BY <1>1, <1>2, <1>3, <1>4, <1>5, BypassedSound
  <2> QED BY <1>1, <2>1
<1>7. LiveOf(func') = L \ {b} /\ \A x \in L \ {b} : Edges(func')[x] = U[x]
  BY <1>6 DEF Becomes
<1>8. BypassesEdges(B, L, T, Edges(func'), b, t)
  BY <1>1, <1>2, <1>3, <1>4, <1>7 DEF BypassesEdges
<1>9. Mirrored(successors', predecessors', B, LiveOf(func'), Edges(func'))
  <2> HIDE DEF B, L, T, b
  <2>1. Mirrored(Erased([x \in DOMAIN successors |->
                           IF x \in predecessors[b] THEN (successors[x] \ {b}) \cup {t}
                           ELSE successors[x]], b),
                 Erased([predecessors EXCEPT ![t] = (@ \cup predecessors[b]) \ {b}], b),
                 B, L \ {b}, Edges(func'))
    BY <1>3, <1>8, CopiesBypassed
  <2> QED BY <1>1, <1>7, <2>1
<1>10. Typed'
  BY <1>1, <1>2 DEF IInv, Typed
<1>11. pc \in {"combine", "empty", "hoist"}
  BY <1>1
<1>12. Draws(func', func)
  <2>1. func' = Deleted(Bypassed(func, b, t, P), b) /\ t \in LiveOf(func)
        /\ LiveOf(func') = LiveOf(func) \ {b}
    BY <1>1, <1>4, <1>7
  <2> HIDE DEF b, B, U, P
  <2>2. Draws(Deleted(Bypassed(func, b, t, P), b), func)
    BY <1>2, <1>3, <1>5, <2>1, BypassedDraws
  <2> QED BY <2>1, <2>2
<1> HIDE DEF U
<1>13. IInv'
  BY <1>1, <1>6, <1>9, <1>10, <1>11, RemovingSteps
<1> QED BY <1>1, <1>12, <1>13

LEMMA HoistBranchStep ==
  ASSUME IInv, NEW i \in DOMAIN func.blocks, HoistBranch(i)
  PROVE  IInv' /\ pc' = pc /\ Draws(func', func)
<1> DEFINE B == Blocks
           L == LiveOf(func)
           T == Edges(func)
           b == func.blocks[i]
           p == CHOOSE x \in predecessors[b] : TRUE
           targets == Targets(func.code[b])
           U == [x \in L |-> IF x = p THEN T[b] ELSE T[x]]
<1>1. /\ pc = "hoist" /\ b \notin func.deleted /\ Hoistable(b)
      /\ p \notin func.deleted => Last(func.code[p]) = Jump(b)
      /\ func' = BlockReplaced(Deleted([func EXCEPT !.code[p] = Append(Front(@), Last(func.code[b]))], b),
                               b, p)
      /\ modified' = TRUE /\ graph_modified' = TRUE
      /\ successors' = Erased([successors EXCEPT ![p] = (@ \ {b}) \cup targets], b)
      /\ predecessors' = Erased([x \in DOMAIN predecessors |->
                                   IF x \in targets THEN predecessors[x] \cup {p}
                                   ELSE predecessors[x]], b)
      /\ UNCHANGED <<cfg_info, pc, phi>> /\ at' = i + 1
  BY DEF HoistBranch, GoesOn, Visits, Live, Terminator
<1>2. b \in L /\ i + 1 \in Nat \ {0}
  BY <1>1, VisitedLive
<1>3. /\ FunctionSound(func, B) /\ L \subseteq B /\ (\A x \in L : T[x] \subseteq L)
      /\ Mirrored(successors, predecessors, B, L, T)
  BY <1>1, LiveGraph DEF InRun
<1>4. Last(func.code[b]).op = "branch" /\ predecessors[b] = {p}
  BY <1>1 DEF Hoistable, OnlyA, Terminator
<1> HIDE DEF p
<1>5. p \in B /\ Into(L, T, b) = L \cap {p}
  BY <1>2, <1>3, <1>4 DEF Mirrored
<1>6. p # b
  <2>1. Last(func.code[b]) # Jump(b)
    BY <1>4 DEF Jump, Instruction
  <2> QED BY <1>1, <2>1
<1>7. p \in L => T[p] = {b}
  <2> SUFFICES ASSUME p \in L PROVE T[p] = {b}
    OBVIOUS
  <2>1. Last(func.code[p]) = Jump(b)
    BY <1>1 DEF LiveOf
  <2> QED BY <1>3, <2>1, BlockEnd
<1>8. targets = T[b]
  <2>1. b \in B /\ func \in Functions(B)
    BY <1>2, <1>3 DEF FunctionSound
  <2> QED BY <2>1, FunctionParts
<1> HIDE DEF targets
<1>9. Becomes(func', func, B, {b}, U)
  <2> HIDE DEF b, B
  <2>1. Becomes(BlockReplaced(Deleted([func EXCEPT !.code[p] = Append(Front(@), Last(func.code[b]))], b),
                              b, p), func, B, {b}, U)
    BY <1>2, <1>3, <1>5, <1>6, <1>7, HoistedSound
  <2> QED BY <1>1, <2>1
<1>10. LiveOf(func') = L \ {b} /\ \A x \in L \ {b} : Edges(func')[x] = U[x]
  BY <1>9 DEF Becomes
<1>11. HoistsEdges(B, L, T, Edges(func'), b, p)
  BY <1>2, <1>3, <1>5, <1>6, <1>7, <1>10 DEF HoistsEdges
<1>12. Mirrored(successors', predecessors', B, LiveOf(func'), Edges(func'))
  <2> HIDE DEF B, L, T, b
  <2>1. Mirrored(Erased([successors EXCEPT ![p] = (@ \ {b}) \cup T[b]], b),
                 Erased([x \in DOMAIN predecessors |->
                           IF x \in T[b] THEN predecessors[x] \cup {p} ELSE predecessors[x]], b),
                 B, L \ {b}, Edges(func'))
    BY <1>3, <1>11, CopiesHoisted
  <2> QED BY <1>1, <1>8, <1>10, <2>1
<1>13. Typed'
  BY <1>1, <1>2 DEF IInv, Typed
<1>14. pc \in {"combine", "empty", "hoist"}
  BY <1>1
<1>15. Draws(func', func)
  <2>1. /\ func' = BlockReplaced(Deleted([func EXCEPT !.code[p] = Append(Front(@), Last(func.code[b]))], b),
                                 b, p)
        /\ LiveOf(func') = LiveOf(func) \ {b}
    BY <1>1, <1>10
  <2> HIDE DEF b, B, U
  <2>2. Draws(BlockReplaced(Deleted([func EXCEPT !.code[p] = Append(Front(@), Last(func.code[b]))], b),
                            b, p), func)
    BY <1>2, <1>3, <1>5, <1>6, <2>1, HoistedDraws
  <2> QED BY <2>1, <2>2
<1> HIDE DEF U
<1>16. IInv'
  BY <1>1, <1>9, <1>12, <1>13, <1>14, RemovingSteps
<1> QED BY <1>1, <1>15, <1>16

\* The pass stops.
LEMMA StopsStep ==
  ASSUME IInv, NEW how \in {"crashed", "hung"}, Stops(how)
  PROVE  IInv' /\ func' = func /\ pc' \in {"crashed", "hung"}
<1>1. UNCHANGED <<func, cfg_info, at, phi>> /\ pc' = how
  BY DEF Stops
<1>2. Blocks' = Blocks /\ Typed' /\ FunctionSound(func, Blocks)'
  BY <1>1 DEF IInv, Typed, Blocks
<1>3. MarkedOnly' /\ CopiesMirror' /\ AnalysisCovers'
  BY <1>1 DEF MarkedOnly, CopiesMirror, AnalysisCovers, InRun
<1> QED BY <1>1, <1>2, <1>3 DEF IInv

LEMMA NegatedValue ==
  ASSUME NEW c \in Constants
  PROVE  Negated[c] \in Constants /\ Negated[c] \in Values
<1>1. Negated[c] \in Constants
  BY DEF Negated, Constants
<1> QED BY <1>1 DEF Values

LEMMA FoldInstructionStep ==
  ASSUME IInv, NEW i \in DOMAIN func.blocks, FoldInstruction(i)
  PROVE  IInv' /\ pc' = pc /\ TestsKept(func', func)
<1> DEFINE b == func.blocks[i]
           at_b == FoldableAt(b)
           k == Min(at_b)
           ins == func.code[b][k]
           w == Negated[ins.args[1]]
<1>1. /\ b \notin func.deleted /\ at_b # {}
      /\ func' = [ValueReplaced(func, ins.def, w) EXCEPT !.code[b] = RemoveAt(@, k)]
      /\ at' = i /\ UNCHANGED <<cfg_info, copies, flags, pc, phi>>
  BY DEF FoldInstruction, Visits, Live, Foldable
<1>2. b \in LiveOf(func) /\ b \in Blocks /\ i \in Nat \ {0}
  BY <1>1, VisitedLive
<1>3. FunctionSound(func, Blocks)
  BY DEF IInv
<1>4. func.code[b] \in Seq(Instructions(Blocks))
  BY <1>2, <1>3, FunctionParts DEF FunctionSound
<1>5. k \in 1..Len(func.code[b]) /\ ins.op = "not" /\ ins.args[1] \in Constants
  <2>1. at_b \subseteq 1..Len(func.code[b])
    BY <1>4 DEF FoldableAt
  <2>2. k \in at_b
    <3> HIDE DEF at_b
    <3>1. \E x \in at_b : \A y \in at_b : x <= y
      <4>1. at_b \subseteq Nat
        BY <1>4, <2>1
      <4> QED BY <1>1, <4>1, LeastNumber
    <3> QED BY <3>1 DEF Min
  <2> QED BY <2>1, <2>2 DEF FoldableAt
<1>6. ~IsTerminator(ins) /\ w \in Values /\ w \in Constants
  BY <1>5, NegatedValue DEF IsTerminator
<1> HIDE DEF b, k, w
<1>7. Becomes([ValueReplaced(func, ins.def, w) EXCEPT !.code[b] = RemoveAt(@, k)], func, Blocks, {},
              Edges(func))
  BY <1>2, <1>3, <1>5, <1>6, RemovedSound
<1>8. Becomes(func', func, Blocks, {}, Edges(func))
  BY <1>1, <1>7
<1>9. Typed'
  BY <1>1, <1>2 DEF IInv, Typed
<1>10. IInv'
  BY <1>1, <1>8, <1>9, SameGraphSteps
<1>11. TestsKept(func', func)
  <2>1. TestsKept([ValueReplaced(func, ins.def, w) EXCEPT !.code[b] = RemoveAt(@, k)], func)
    BY <1>2, <1>3, <1>5, <1>6, RemovedKept
  <2> QED BY <1>1, <2>1
<1> QED BY <1>1, <1>10, <1>11

-----------------------------------------------------------------------------
(* The steps from loop to loop. *)

LEMMA StartsRunStep ==
  ASSUME IInv, ToSet(func.blocks) \cap func.deleted = {}, func' = UnreachableRemoved(func),
         StartsRun(func'), UNCHANGED phi
  PROVE  IInv'
<1> DEFINE B == Blocks
           succ == SuccessorsOf(func'.blocks, func'.code)
           pred == PredecessorsOf(func'.blocks, func'.code)
<1>1. Cleared(func', func, B)
  BY UnreachableRemovedSound DEF IInv
<1>2. FunctionSound(func', B) /\ ToSet(func'.blocks) \cap func'.deleted = {}
  BY <1>1 DEF Cleared
<1>3. Blocks' = B
  BY <1>2, FunctionParts DEF FunctionSound, Blocks
<1>4. cfg_info' = [predecessors |-> pred, successors |-> succ, dirty |-> FALSE]
  BY DEF StartsRun, AnalysisResult, Dirty, IInv, Typed
<1>5. predecessors' = pred /\ successors' = succ /\ cfg_info'.predecessors = pred
      /\ "dirty" \in DOMAIN cfg_info'
  BY <1>4 DEF StartsRun
<1> HIDE DEF succ, pred, B
<1>6. Mirrored(succ, pred, B, LiveOf(func'), Edges(func')) /\ Covers(pred, LiveOf(func'), Edges(func'))
  BY <1>2, AnalysisExact DEF succ, pred
<1>7. Typed'
  BY <1>5 DEF StartsRun, StartsLoop, IInv, Typed
<1>8. MarkedOnly'
  BY <1>2 DEF MarkedOnly
<1>9. CopiesMirror' /\ AnalysisCovers'
  BY <1>3, <1>5, <1>6 DEF CopiesMirror, AnalysisCovers
<1> QED BY <1>2, <1>3, <1>7, <1>8, <1>9 DEF IInv

\* A step that only goes to another loop.
LEMMA NextLoopSteps ==
  ASSUME IInv, ToSet(func.blocks) \cap func.deleted = {}, InRun,
         NEW loop, StartsLoop(loop), loop # "cleanup",
         UNCHANGED <<func, copies, cfg_info, graph_modified, phi>>
  PROVE  IInv'
<1>1. Blocks' = Blocks /\ Typed' /\ FunctionSound(func, Blocks)'
  BY DEF IInv, Typed, Blocks, StartsLoop
<1>2. MarkedOnly'
  BY DEF MarkedOnly
<1>3. CopiesMirror'
  BY <1>1 DEF IInv, CopiesMirror, copies
<1>4. AnalysisCovers'
  BY DEF IInv, AnalysisCovers, StartsLoop
<1> QED BY <1>1, <1>2, <1>3, <1>4 DEF IInv

\* A step that drops blocks which are deleted or cannot be reached.
LEMMA ClearingSteps ==
  ASSUME IInv, InRun, Cleared(func', func, Blocks), cfg_info' = Dirty(cfg_info),
         NEW loop, StartsLoop(loop), loop # "cleanup", UNCHANGED <<copies, phi>>
  PROVE  IInv'
<1> DEFINE B == Blocks
<1>1. /\ FunctionSound(func', B) /\ ToSet(func'.blocks) \cap func'.deleted = {}
      /\ LiveOf(func') \subseteq LiveOf(func)
      /\ \A x \in LiveOf(func') : Edges(func')[x] = Edges(func)[x]
  BY DEF Cleared
<1>2. Blocks' = B
  BY <1>1, FunctionParts DEF FunctionSound, Blocks
<1>3. cfg_info'.dirty = TRUE /\ "dirty" \in DOMAIN cfg_info'
  BY DEF Dirty, IInv, Typed
<1>4. Typed'
  BY <1>3 DEF StartsLoop, IInv, Typed
<1>5. MarkedOnly'
  BY <1>1 DEF MarkedOnly
<1>6. CopiesMirror'
  <2>1. Mirrored(successors, predecessors, B, LiveOf(func), Edges(func))
    BY DEF IInv, CopiesMirror
  <2> HIDE DEF B
  <2>2. Mirrored(successors, predecessors, B, LiveOf(func'), Edges(func'))
    BY <1>1, <2>1, CopiesKept
  <2>3. Mirrored(successors', predecessors', B, LiveOf(func'), Edges(func'))
    BY <2>2 DEF copies
  <2> QED BY <1>2, <2>3 DEF CopiesMirror
<1>7. AnalysisCovers'
  BY <1>3 DEF AnalysisCovers, StartsLoop
<1> QED BY <1>1, <1>2, <1>4, <1>5, <1>6, <1>7 DEF IInv

LEMMA EndRemovingLoopStep ==
  ASSUME IInv, EndRemovingLoop
  PROVE  IInv'
<1> DEFINE loop == After[pc]
<1>1. /\ pc \in {"combine", "empty", "hoist"}
      /\ func' = IF modified THEN DeletedRemoved(func) ELSE func
      /\ cfg_info' = IF modified THEN Dirty(cfg_info) ELSE cfg_info
      /\ StartsLoop(loop) /\ UNCHANGED <<copies, graph_modified, phi>>
  BY DEF EndRemovingLoop
<1>2. loop # "cleanup" /\ InRun
  BY <1>1 DEF After, InRun
<1> HIDE DEF loop
<1>3. CASE modified
  <2>1. Cleared(func', func, Blocks)
    BY <1>1, <1>3, DeletedRemovedSound DEF IInv
  <2> QED BY <1>1, <1>2, <1>3, <2>1, ClearingSteps
<1>4. CASE ~modified
  <2>1. ToSet(func.blocks) \cap func.deleted = {}
    BY <1>1, <1>4 DEF IInv, MarkedOnly
  <2> QED BY <1>1, <1>2, <1>4, <2>1, NextLoopSteps
<1> QED BY <1>3, <1>4

LEMMA EndRefoldStep ==
  ASSUME IInv, EndRefold
  PROVE  IInv'
<1>1. /\ pc = "refold" /\ func' = IF changed THEN UnreachableRemoved(DeletedRemoved(func)) ELSE func
      /\ cfg_info' = IF changed THEN Dirty(cfg_info) ELSE cfg_info
      /\ StartsLoop("constants") /\ UNCHANGED <<copies, graph_modified, phi>>
  BY DEF EndRefold, flags
<1>2. InRun
  BY <1>1 DEF InRun
<1>3. CASE changed
  <2> DEFINE left == DeletedRemoved(func)
  <2>1. Cleared(left, func, Blocks)
    BY DeletedRemovedSound DEF IInv
  <2> HIDE DEF left
  <2>2. FunctionSound(left, Blocks) /\ ToSet(left.blocks) \cap left.deleted = {}
    BY <2>1 DEF Cleared
  <2>3. Cleared(UnreachableRemoved(left), left, Blocks)
    BY <2>2, UnreachableRemovedSound
  <2>4. Cleared(UnreachableRemoved(left), func, Blocks)
    BY <2>1, <2>3 DEF Cleared
  <2>5. Cleared(func', func, Blocks)
    BY <1>1, <1>3, <2>4 DEF left
  <2> QED BY <1>1, <1>2, <1>3, <2>5, ClearingSteps
<1>4. CASE ~changed
  <2>1. ToSet(func.blocks) \cap func.deleted = {}
    BY <1>1 DEF IInv, MarkedOnly
  <2> QED BY <1>1, <1>2, <1>4, <2>1, NextLoopSteps
<1> QED BY <1>3, <1>4

LEMMA EndRunStep ==
  ASSUME IInv, EndRun
  PROVE  IInv'
<1> DEFINE info == IF graph_modified THEN Dirty(cfg_info) ELSE cfg_info
           pred == PredecessorsOf(func.blocks, func.code)
<1>1. /\ pc = "constants" /\ cfg_info' = AnalysisResult(info, func) /\ pc' = "cleanup" /\ at' = 1
      /\ phi' = 1 /\ func' = func
  BY DEF EndRun, StartsLoop
<1>2. ToSet(func.blocks) \cap func.deleted = {} /\ FunctionSound(func, Blocks)
  BY <1>1 DEF IInv, MarkedOnly
<1>3. "dirty" \in DOMAIN cfg_info' /\ Covers(cfg_info'.predecessors, LiveOf(func), Edges(func))
  <2>1. CASE info.dirty
    <3>1. cfg_info'.predecessors = pred /\ "dirty" \in DOMAIN cfg_info'
      BY <1>1, <2>1 DEF AnalysisResult
    <3> HIDE DEF pred
    <3>2. Covers(pred, LiveOf(func), Edges(func))
      BY <1>2, AnalysisExact DEF pred
    <3> QED BY <3>1, <3>2
  <2>2. CASE ~info.dirty
    <3>1. ~graph_modified
      BY <2>2 DEF Dirty, IInv, Typed
    <3>2. cfg_info' = cfg_info /\ ~cfg_info.dirty
      BY <1>1, <2>2, <3>1 DEF AnalysisResult
    <3> QED BY <1>1, <3>1, <3>2 DEF IInv, Typed, AnalysisCovers, InRun
  <2> QED BY <2>1, <2>2
<1>4. Blocks' = Blocks /\ Typed' /\ FunctionSound(func, Blocks)'
  BY <1>1, <1>2, <1>3 DEF IInv, Typed, Blocks
<1>5. MarkedOnly'
  BY <1>1, <1>2 DEF MarkedOnly
<1>6. CopiesMirror' /\ AnalysisCovers'
  BY <1>1, <1>3 DEF CopiesMirror, AnalysisCovers, InRun
<1> QED BY <1>4, <1>5, <1>6 DEF IInv

-----------------------------------------------------------------------------
(* cleanup_phi *)

LEMMA CleanPhiStep ==
  ASSUME IInv, CleanPhi
  PROVE  IInv' /\ (Stops("crashed") \/ (pc' = pc /\ (NoPhiTested(func) => TestsKept(func', func))))
<1> DEFINE b == func.blocks[at]
           old == func.code[b][phi]
           gone == OptionsGone(b, old)
           ins == Cut(old, gone)
           f == PhiCut(func, b, phi, gone)
<1>1. pc = "cleanup" /\ at <= Len(func.blocks) /\ phi <= Len(func.code[b]) /\ IsPhi(old)
  BY DEF CleanPhi, InCleanup, PhiLeft
<1>2. /\ FunctionSound(func, Blocks) /\ func \in Functions(Blocks)
      /\ ToSet(func.blocks) \cap func.deleted = {}
      /\ at \in Nat \ {0} /\ phi \in Nat \ {0}
  BY <1>1 DEF IInv, MarkedOnly, Typed, FunctionSound
<1>3. b \in LiveOf(func) /\ b \in Blocks
  <2>1. func.blocks \in Seq(Blocks)
    BY <1>2 DEF Functions
  <2>2. at \in DOMAIN func.blocks
    BY <1>1, <1>2, <2>1
  <2> QED BY <1>2, <2>1, <2>2 DEF LiveOf, ToSet
<1>4. phi \in 1..Len(func.code[b])
  BY <1>1, <1>2, <1>3, FunctionParts
<1>5. Into(LiveOf(func), Edges(func), b) \cap gone = {}
  <2>1. Into(LiveOf(func), Edges(func), b) \subseteq cfg_info.predecessors[b]
    BY <1>1, <1>3 DEF IInv, AnalysisCovers, Covers
  <2>2. \A x \in gone : x \notin LiveOf(func) \/ x \notin cfg_info.predecessors[b]
    BY DEF OptionsGone, LiveOf
  <2> QED BY <2>1, <2>2 DEF Into
<1>6. gone \subseteq Keys(old)
  BY DEF OptionsGone
<1>7. /\ f = [func EXCEPT !.code[b][phi] = ins,
                          !.forgotten = @ \cup {<<ins.def, old.opts[x]>> : x \in gone}]
      /\ ins = [old EXCEPT !.opts = Restrict(@, DOMAIN @ \ gone)]
  BY DEF PhiCut, Cut
<1>8. \/ Stops("crashed")
      \/ /\ \/ func' = f
            \/ \E v \in ValuesRead(ins) :
                 func' = [ValueReplaced(f, ins.def, v) EXCEPT !.code[b] = RemoveAt(@, phi)]
         /\ phi' \in {phi, phi + 1}
         /\ UNCHANGED <<cfg_info, copies, flags, pc, at>>
  BY ZenonT(60) DEF CleanPhi, PhiCut, Cut
<1> HIDE DEF b, gone, ins, f, old
<1>9. /\ Becomes(f, func, Blocks, {}, Edges(func)) /\ Len(f.code[b]) = Len(func.code[b])
      /\ f.code[b][phi] = ins /\ ins \in Instructions(Blocks) /\ IsPhi(ins)
  BY <1>1, <1>2, <1>3, <1>4, <1>5, <1>6, PhiCutSound DEF f, ins, old
<1>10. CASE Stops("crashed")
  BY <1>10, StopsStep
<1>11. LiveOf(f) = LiveOf(func) /\ \A x \in LiveOf(func) : TestsFewer(f.code[x], func.code[x])
  <2>1. PhiCut(func, b, phi, gone) \in Functions(Blocks)
    BY <1>9 DEF Becomes, FunctionSound, f
  <2> QED BY <1>1, <1>2, <1>3, <1>4, <2>1, PhiCutTests DEF f, old
<1>12. TestsKept(f, func)
  <2>1. \A x \in LiveOf(func) : Targets(f.code[x]) = Targets(func.code[x])
    BY <1>2, <1>9, SameTargetsOf
  <2> QED BY <1>11, <2>1 DEF TestsFewer, TestsKept
<1>13. ASSUME func' = f, phi' \in {phi, phi + 1}, UNCHANGED <<cfg_info, copies, flags, pc, at>>
       PROVE  IInv' /\ TestsKept(func', func)
  <2>1. Typed'
    BY <1>2, <1>13 DEF IInv, Typed
  <2> QED BY <1>9, <1>13, <1>12, <2>1, SameGraphSteps
<1>14. ASSUME NEW v \in ValuesRead(ins),
              func' = [ValueReplaced(f, ins.def, v) EXCEPT !.code[b] = RemoveAt(@, phi)],
              phi' \in {phi, phi + 1}, UNCHANGED <<cfg_info, copies, flags, pc, at>>
       PROVE  IInv' /\ (NoPhiTested(func) => TestsKept(func', func))
  <2>1. v \in Values
    BY <1>9, ValuesAreRead
  <2>2. /\ FunctionSound(f, Blocks) /\ f.blocks = func.blocks /\ f.deleted = func.deleted
        /\ LiveOf(f) = LiveOf(func) /\ \A x \in LiveOf(func) : Edges(f)[x] = Edges(func)[x]
    BY <1>9 DEF Becomes
  <2>3. phi \in 1..Len(f.code[b]) /\ ~IsTerminator(f.code[b][phi]) /\ b \in LiveOf(f)
    BY <1>3, <1>4, <1>9, <2>2, NoPhiEnds
  <2>4. Becomes([ValueReplaced(f, ins.def, v) EXCEPT !.code[b] = RemoveAt(@, phi)], f, Blocks, {},
                Edges(f))
    BY <2>1, <2>2, <2>3, RemovedSound
  <2>5. Becomes(func', f, Blocks, {}, Edges(f))
    BY <1>14, <2>4
  <2>6. Becomes(func', func, Blocks, {}, Edges(func))
    BY <2>2, <2>5 DEF Becomes
  <2>7. Typed'
    BY <1>2, <1>14 DEF IInv, Typed
  <2>8. ASSUME NoPhiTested(func) PROVE TestsKept(func', func)
    <3>1. ins.def \in PhiNames(f.code[b])
      BY <1>9, <2>3 DEF PhiNames, PhisOf, ToSet
    <3>2. ins.def \notin Tested(func)
      BY <1>3, <1>11, <2>8, <3>1 DEF TestsFewer, NoPhiTested
    <3>3. Tested(f) \subseteq Tested(func)
      BY <1>11 DEF TestsFewer, Tested
    <3>4. TestsKept([ValueReplaced(f, ins.def, v) EXCEPT !.code[b] = RemoveAt(@, phi)], f)
      BY <2>1, <2>2, <2>3, <3>2, <3>3, RemovedKept
    <3> QED BY <1>14, <1>12, <3>4, KeptTwice
  <2>9. IInv'
    BY <1>14, <2>6, <2>7, SameGraphSteps
  <2> QED BY <2>8, <2>9
<1> QED BY <1>8, <1>10, <1>13, <1>14

\* A step that touches neither the function nor the copies nor the loop.
LEMMA QuietSteps ==
  ASSUME IInv, UNCHANGED <<func, cfg_info, copies, graph_modified, modified, pc>>, Typed'
  PROVE  IInv'
<1>1. Blocks' = Blocks /\ FunctionSound(func, Blocks)'
  BY DEF IInv, Blocks
<1>2. MarkedOnly'
  BY DEF IInv, MarkedOnly
<1>3. CopiesMirror'
  BY <1>1 DEF IInv, CopiesMirror, InRun, copies
<1>4. AnalysisCovers'
  BY DEF IInv, AnalysisCovers, InRun
<1> QED BY <1>1, <1>2, <1>3, <1>4 DEF IInv

LEMMA FinishStep ==
  ASSUME IInv, Finish
  PROVE  IInv'
<1>1. /\ pc = "cleanup" /\ func' = UnreachableRemoved(func) /\ cfg_info' = Dirty(cfg_info)
      /\ pc' = "done" /\ UNCHANGED <<at, phi>>
  BY DEF Finish
<1>2. Cleared(func', func, Blocks)
  BY <1>1, UnreachableRemovedSound DEF IInv, MarkedOnly
<1>3. FunctionSound(func', Blocks) /\ ToSet(func'.blocks) \cap func'.deleted = {}
  BY <1>2 DEF Cleared
<1>4. Blocks' = Blocks
  BY <1>3, FunctionParts DEF FunctionSound, Blocks
<1>5. Typed'
  BY <1>1 DEF IInv, Typed, Dirty
<1>6. MarkedOnly' /\ CopiesMirror' /\ AnalysisCovers'
  BY <1>1, <1>3 DEF MarkedOnly, CopiesMirror, AnalysisCovers, InRun
<1> QED BY <1>3, <1>4, <1>5, <1>6 DEF IInv

-----------------------------------------------------------------------------
(* The invariant *)

LEMMA StartingSteps ==
  ASSUME IInv, Preprocess \/ TransformAgain
  PROVE  IInv'
<1>1. /\ pc \in {"start", "cleanup"} /\ func' = UnreachableRemoved(func) /\ StartsRun(func')
      /\ UNCHANGED phi
  BY DEF Preprocess, TransformAgain
<1>2. ToSet(func.blocks) \cap func.deleted = {}
  BY <1>1 DEF IInv, MarkedOnly
<1> QED BY <1>1, <1>2, StartsRunStep

LEMMA RoundSteps ==
  ASSUME IInv, EndFold \/ NextRound
  PROVE  IInv'
<1>1. PICK loop \in {"fold", "combine"} :
        /\ pc \in {"fold", "constants"} /\ StartsLoop(loop)
        /\ UNCHANGED <<func, copies, cfg_info, graph_modified, phi>>
  BY DEF EndFold, NextRound
<1>2. ToSet(func.blocks) \cap func.deleted = {} /\ InRun
  BY <1>1 DEF IInv, MarkedOnly, InRun
<1> QED BY <1>1, <1>2, NextLoopSteps

LEMMA FailingSteps ==
  ASSUME IInv, NEW i \in DOMAIN func.blocks,
         CombineWithItself(i) \/ RemoveEmptyBlockFails(i) \/ HoistBranchFails(i)
  PROVE  IInv'
<1>1. Stops("hung") \/ Stops("crashed")
  BY DEF CombineWithItself, RemoveEmptyBlockFails, HoistBranchFails
<1> QED BY <1>1, StopsStep

LEMMA CleanNextBlockStep ==
  ASSUME IInv, CleanNextBlock
  PROVE  IInv'
<1>1. /\ at' = at + 1 /\ phi' = 1 /\ UNCHANGED <<func, cfg_info, copies, flags, pc>>
  BY DEF CleanNextBlock
<1>2. Typed'
  BY <1>1 DEF IInv, Typed
<1>3. UNCHANGED <<func, cfg_info, copies, graph_modified, modified, pc>>
  BY <1>1 DEF flags
<1> QED BY <1>2, <1>3, QuietSteps

\* Every step but the fold of a branch that erases an edge it takes.
LEMMA NextSound ==
  ASSUME IInv, [Next]_vars, [\A i \in DOMAIN func.blocks : ~ErasesTakenEdge(i)]_vars
  PROVE  IInv'
<1>1. CASE UNCHANGED vars
  <2>1. UNCHANGED <<func, cfg_info, copies, graph_modified, modified, pc, at, phi>>
    BY <1>1 DEF vars, flags
  <2>2. Typed'
    BY <2>1 DEF IInv, Typed
  <2> QED BY <2>1, <2>2, QuietSteps
<1>2. CASE Next /\ ~UNCHANGED vars
  <2>1. \A i \in DOMAIN func.blocks : ~ErasesTakenEdge(i)
    BY <1>2
  <2>2. ASSUME NEW i \in DOMAIN func.blocks, OnBlock(i)
        PROVE  IInv'
    <3>1. CASE FoldBranch(i)
      BY <2>1, <3>1, FoldBranchStep
    <3>2. CASE CombineBlocks(i)
      BY <3>2, CombineBlocksStep
    <3>3. CASE RemoveEmptyBlock(i)
      BY <3>3, RemoveEmptyBlockStep
    <3>4. CASE HoistBranch(i)
      BY <3>4, HoistBranchStep
    <3>5. CASE FoldInstruction(i)
      BY <3>5, FoldInstructionStep
    <3>6. CASE CombineWithItself(i) \/ RemoveEmptyBlockFails(i) \/ HoistBranchFails(i)
      BY <3>6, FailingSteps
    <3> QED BY <2>2, <3>1, <3>2, <3>3, <3>4, <3>5, <3>6 DEF OnBlock
  <2>3. CASE Preprocess \/ TransformAgain
    BY <2>3, StartingSteps
  <2>4. CASE EndFold \/ NextRound
    BY <2>4, RoundSteps
  <2>5. CASE EndRemovingLoop
    BY <2>5, EndRemovingLoopStep
  <2>6. CASE EndRefold
    BY <2>6, EndRefoldStep
  <2>7. CASE EndRun
    BY <2>7, EndRunStep
  <2>8. CASE CleanPhi
    BY <2>8, CleanPhiStep
  <2>9. CASE CleanNextBlock
    BY <2>9, CleanNextBlockStep
  <2>10. CASE Finish
    BY <2>10, FinishStep
  <2> QED BY <1>2, <2>2, <2>3, <2>4, <2>5, <2>6, <2>7, <2>8, <2>9, <2>10 DEF Next
<1> QED BY <1>1, <1>2

-----------------------------------------------------------------------------
(* The branches of the loops. *)

\* A branch has two targets.
Forks(f, x) == Tests(f.code[x]) # {} => \A c : Targets(f.code[x]) # {c}

\* While branches are folded, none that was passed is left to fold.
Passed ==
  \A j \in 1..(at - 1) :
    j \in DOMAIN func.blocks /\ Live(func.blocks[j]) => ~Redundant(func.blocks[j])

\* What keeps a branch on a constant from having two equal targets: conditions get constant
\* only after the branches with equal targets were folded.
BranchesApart ==
  /\ NoPhiTested(func)
  /\ pc \in {"start", "fold"} =>
       \A x \in LiveOf(func) : Tests(func.code[x]) \cap Constants # {} => Forks(func, x)
  /\ pc \in {"combine", "empty", "hoist", "refold"} => Tested(func) \cap Constants = {}
  /\ pc \in {"constants", "cleanup"} => \A x \in LiveOf(func) : Forks(func, x)
  /\ pc \in {"fold", "refold"} => Passed

LEMMA RedundantIs ==
  ASSUME NEW B, FunctionSound(func, B), NEW b \in LiveOf(func)
  PROVE  Redundant(b) <=> Tests(func.code[b]) \cap Constants # {} \/ ~Forks(func, b)
<1> DEFINE t == Last(func.code[b])
<1>1. func \in Functions(B) /\ b \in B /\ Ends(func.code[b])
  BY DEF FunctionSound, LiveOf
<1>2. Edges(func)[b] = Targets(func.code[b])
  BY <1>1, FunctionParts
<1>3. Tests(func.code[b]) = IF t.op = "branch" THEN {t.args[1]} ELSE {}
  BY <1>1 DEF Ends, Tests
<1>4. t.op = "branch" => Targets(func.code[b]) = {t.to[1], t.to[2]}
  BY <1>2, BlockEnd
<1>5. Redundant(b) <=> t.op = "branch" /\ (t.args[1] \in Constants \/ t.to[1] = t.to[2])
  BY DEF Redundant, Terminator
<1> HIDE DEF t
<1>6. t.op = "branch" => (Forks(func, b) <=> t.to[1] # t.to[2])
  BY <1>3, <1>4 DEF Forks
<1>7. t.op # "branch" => Forks(func, b)
  BY <1>3 DEF Forks
<1> QED BY <1>3, <1>5, <1>6, <1>7

LEMMA InitApart == Init => BranchesApart
<1> SUFFICES ASSUME Init PROVE BranchesApart
  OBVIOUS
<1>1. PICK f \in Sources :
        func = [blocks |-> f.blocks, code |-> f.code, deleted |-> {}, forgotten |-> {}]
  BY DEF Init
<1>2. func.blocks = f.blocks /\ func.deleted = {} /\ func.code = f.code
  BY <1>1
<1>3. pc = "start"
  BY DEF Init
<1>4. WellFormed(f)
  BY SourcesAssumption
<1>5. LiveOf(func) = DOMAIN f.code /\ FunctionSound(func, DOMAIN f.code)
  <2>1. ToSet(f.blocks) = DOMAIN f.code
    BY <1>4 DEF WellFormed
  <2>2. LiveOf(func) = DOMAIN f.code
    BY <1>2, <2>1 DEF LiveOf
  <2>3. FunctionSound(func, DOMAIN f.code)
    BY <1>1, SourceSound
  <2> QED BY <2>2, <2>3
<1>6. NoPhiTested(func)
  <2>1. \A a, b \in DOMAIN f.code : PhiNames(f.code[a]) \cap (Tests(f.code[b]) \cup Constants) = {}
    BY <1>4 DEF WellFormed
  <2> QED BY <1>2, <1>5, <2>1 DEF NoPhiTested, Tested
<1>7. ASSUME NEW x \in LiveOf(func), Tests(func.code[x]) \cap Constants # {} PROVE Forks(func, x)
  <2>1. Last(func.code[x]).to[1] # Last(func.code[x]).to[2]
    BY <1>2, <1>4, <1>5, <1>7 DEF WellFormed
  <2>2. Last(func.code[x]).op = "branch"
    BY <1>7 DEF Tests
  <2>3. Edges(func)[x] = {Last(func.code[x]).to[1], Last(func.code[x]).to[2]}
    BY <1>5, <2>2, BlockEnd
  <2>4. Edges(func)[x] = Targets(func.code[x])
    BY <1>5, FunctionParts DEF FunctionSound
  <2> QED BY <2>1, <2>3, <2>4 DEF Forks
<1> QED BY <1>3, <1>6, <1>7 DEF BranchesApart

LEMMA NeverErased ==
  ASSUME IInv, BranchesApart, NEW i \in DOMAIN func.blocks
  PROVE  ~ErasesTakenEdge(i)
<1> SUFFICES ASSUME ErasesTakenEdge(i) PROVE FALSE
  OBVIOUS
<1> DEFINE b == func.blocks[i]
           t == Last(func.code[b])
<1>1. /\ pc \in {"fold", "refold"} /\ b \notin func.deleted /\ t.op = "branch"
      /\ t.args[1] \in Constants /\ t.to[1] = t.to[2]
  <2>1. FoldBranch(i) /\ t.args[1] \in Constants /\ t.to[1] = t.to[2]
    BY DEF ErasesTakenEdge, Terminator
  <2>2. pc \in {"fold", "refold"} /\ Live(b) /\ Redundant(b)
    BY <2>1 DEF FoldBranch, Visits
  <2>3. t.op = "branch"
    BY <2>2 DEF Redundant, Terminator
  <2> QED BY <2>1, <2>2, <2>3 DEF Live
<1>2. b \in LiveOf(func) /\ FunctionSound(func, Blocks) /\ func \in Functions(Blocks) /\ b \in Blocks
  BY <1>1, VisitedLive DEF IInv, FunctionSound
<1>3. Edges(func)[b] = {t.to[1], t.to[2]} /\ Edges(func)[b] = Targets(func.code[b])
  <2>1. Edges(func)[b] = Targets(func.code[b])
    <3> HIDE DEF b
    <3> QED BY <1>2, FunctionParts
  <2>2. Edges(func)[b] = {t.to[1], t.to[2]}
    <3> HIDE DEF b
    <3> QED BY <1>1, <1>2, BlockEnd
  <2> QED BY <2>1, <2>2
<1>4. Tests(func.code[b]) = {t.args[1]}
  BY <1>1, <1>2 DEF Tests, FunctionSound, Ends
<1>5. CASE pc = "fold"
  <2>1. Forks(func, b) /\ Tests(func.code[b]) # {}
    BY <1>1, <1>2, <1>4, <1>5 DEF BranchesApart
  <2>2. Targets(func.code[b]) # {t.to[1]}
    <3> HIDE DEF b, t
    <3> QED BY <2>1 DEF Forks
  <2> QED BY <1>1, <1>3, <2>2
<1>6. CASE pc = "refold"
  BY <1>1, <1>2, <1>4, <1>6 DEF BranchesApart, Tested
<1> QED BY <1>1, <1>5, <1>6

LEMMA FoldBranchApart ==
  ASSUME IInv, BranchesApart, NEW i \in DOMAIN func.blocks, FoldBranch(i)
  PROVE  BranchesApart'
<1> DEFINE b == func.blocks[i]
           t == Last(func.code[b])
           taken == TargetTaken(t)
<1>1. /\ pc \in {"fold", "refold"} /\ b \notin func.deleted /\ t.op = "branch"
      /\ func' = [func EXCEPT !.code[b] = Append(Front(@), Jump(taken))]
      /\ pc' = pc /\ at' = i + 1 /\ Visits(i, Redundant)
  BY DEF FoldBranch, GoesOn, Visits, Redundant, Live, Terminator
<1>2. b \in LiveOf(func) /\ FunctionSound(func, Blocks) /\ func \in Functions(Blocks) /\ b \in Blocks
  BY <1>1, VisitedLive DEF IInv, FunctionSound
<1>3. taken \in Blocks
  <2>1. Edges(func)[b] = {t.to[1], t.to[2]}
    BY <1>1, <1>2, BlockEnd
  <2>2. Edges(func)[b] \subseteq Blocks
    BY <1>2, LiveGraph
  <2> QED BY <2>1, <2>2 DEF TargetTaken
<1> HIDE DEF taken
<1>4. /\ Draws(func', func) /\ Tests(func'.code[b]) = {} /\ Ends(func'.code[b])
      /\ \A x \in Blocks \ {b} : func'.code[x] = func.code[x]
  <2>1. func' = [func EXCEPT !.code[b] = Append(Front(@), Jump(taken))]
    BY <1>1
  <2> HIDE DEF b
  <2>2. Untested([func EXCEPT !.code[b] = Append(Front(@), Jump(taken))], func, Blocks, b)
    BY <1>2, <1>3, FoldedDraws
  <2>3. Untested(func', func, Blocks, b)
    BY <2>1, <2>2
  <2> QED BY <2>3 DEF Untested
<1>5. Tested(func') \subseteq Tested(func) /\ NoPhiTested(func')
  BY <1>4, DrawsKeeps DEF BranchesApart
<1>6. \A x \in LiveOf(func') : x \in LiveOf(func) /\ x \in Blocks
  BY <1>2, <1>4 DEF Draws, FunctionSound, LiveOf
<1>7. pc = "fold" =>
        \A x \in LiveOf(func') : Tests(func'.code[x]) \cap Constants # {} => Forks(func', x)
  <2> SUFFICES ASSUME pc = "fold", NEW x \in LiveOf(func'), Tests(func'.code[x]) \cap Constants # {}
               PROVE  Forks(func', x)
    OBVIOUS
  <2>1. x # b /\ func'.code[x] = func.code[x]
    BY <1>4, <1>6
  <2> QED BY <1>6, <2>1 DEF BranchesApart, Forks
<1>8. Passed'
  <2> SUFFICES ASSUME NEW j \in 1..i, j \in DOMAIN func'.blocks, func'.blocks[j] \notin func'.deleted
               PROVE  ~Redundant(func.blocks[j])'
    <3>1. i \in Nat /\ at' - 1 = i
      BY <1>1, <1>2, VisitedLive
    <3> QED BY <1>1, <3>1 DEF Passed, Live
  <2>1. func'.blocks = func.blocks /\ func'.deleted = func.deleted
    BY <1>1, <1>2 DEF Functions
  <2>2. func.blocks[j] \in LiveOf(func) /\ func.blocks[j] \in Blocks /\ j \in DOMAIN func.blocks
    BY <2>1, VisitedLive
  <2>3. CASE func.blocks[j] = b
    <3>1. Tests(func'.code[func.blocks[j]]) = {} /\ Ends(func'.code[func.blocks[j]])
      BY <1>4, <2>3
    <3>2. Last(func'.code[func.blocks[j]]).op # "branch"
      BY <3>1 DEF Tests, Ends
    <3> QED BY <2>1, <3>2 DEF Redundant, Terminator
  <2>4. CASE func.blocks[j] # b
    <3>1. func'.code[func.blocks[j]] = func.code[func.blocks[j]]
      BY <1>4, <2>2, <2>4
    <3>2. ~Redundant(func.blocks[j])
      <4>1. j # i
        BY <2>4
      <4>2. i \in Nat /\ at \in Nat \ {0} /\ i \in at..Len(func.blocks)
        BY <1>1, <1>2, VisitedLive DEF IInv, Typed, Visits
      <4>3. CASE j < at
        <5>1. Passed
          BY <1>1 DEF BranchesApart
        <5>2. j \in 1..(at - 1) /\ Live(func.blocks[j])
          BY <2>1, <4>2, <4>3 DEF Live
        <5> QED BY <2>2, <5>1, <5>2 DEF Passed
      <4>4. CASE ~(j < at)
        <5>1. j \in at..(i - 1) /\ Live(func.blocks[j])
          BY <2>1, <4>1, <4>2, <4>4 DEF Live
        <5> QED BY <1>1, <5>1 DEF Visits
      <4> QED BY <4>3, <4>4
    <3> QED BY <2>1, <3>1, <3>2 DEF Redundant, Terminator
  <2> QED BY <2>3, <2>4
<1> QED BY <1>1, <1>5, <1>7, <1>8 DEF BranchesApart

\* The steps of constant folding and of cleanup_phi.
LEMMA KeptApart ==
  ASSUME BranchesApart, pc \in {"constants", "cleanup"}, pc' = pc, TestsKept(func', func)
  PROVE  BranchesApart'
<1>1. NoPhiTested(func) /\ \A x \in LiveOf(func) : Forks(func, x)
  BY DEF BranchesApart
<1>2. LiveOf(func') = LiveOf(func)
  BY DEF TestsKept
<1>3. Tested(func') \subseteq Tested(func) \cup Constants
  BY DEF TestsKept, Tested
<1>4. NoPhiTested(func')
  <2> SUFFICES ASSUME NEW x \in LiveOf(func)
               PROVE  PhiNames(func'.code[x]) \cap (Tested(func') \cup Constants) = {}
    BY <1>2 DEF NoPhiTested
  <2>1. PhiNames(func.code[x]) \cap (Tested(func) \cup Constants) = {}
    BY <1>1 DEF NoPhiTested
  <2>2. PhiNames(func'.code[x]) \subseteq PhiNames(func.code[x])
    BY DEF TestsKept
  <2> QED BY <1>3, <2>1, <2>2
<1>5. ASSUME NEW x \in LiveOf(func') PROVE Forks(func', x)
  BY <1>1, <1>2 DEF TestsKept, Forks
<1> QED BY <1>4, <1>5 DEF BranchesApart

LEMMA StopsApart ==
  ASSUME BranchesApart, NEW how \in {"crashed", "hung"}, Stops(how)
  PROVE  BranchesApart'
BY DEF BranchesApart, Stops

LEMMA LeftApart ==
  ASSUME NEW f, NEW g, LeftOf(g, f), NoPhiTested(f), \A x \in LiveOf(f) : Forks(f, x)
  PROVE  NoPhiTested(g) /\ \A x \in LiveOf(g) : Forks(g, x)
<1>1. NoPhiTested(g)
  BY LeftDraws, DrawsKeeps
<1>2. \A x \in LiveOf(g) : Forks(g, x)
  BY DEF LeftOf, Forks
<1> QED BY <1>1, <1>2

\* When the loop is through with the branches none is left to fold.
LEMMA NoneRedundant ==
  ASSUME IInv, Passed, Exhausted(Redundant)
  PROVE  \A x \in LiveOf(func) : Tests(func.code[x]) \cap Constants = {} /\ Forks(func, x)
<1> SUFFICES ASSUME NEW x \in LiveOf(func) PROVE ~Redundant(x)
  BY RedundantIs DEF IInv
<1>1. func.blocks \in Seq(Blocks) /\ at \in Nat \ {0}
  BY DEF IInv, FunctionSound, Functions, Typed
<1>2. PICK j \in DOMAIN func.blocks : x = func.blocks[j]
  BY DEF LiveOf, ToSet
<1>3. Live(func.blocks[j])
  BY <1>2 DEF LiveOf, Live
<1>4. j \in 1..(at - 1) \/ j \in at..Len(func.blocks)
  BY <1>1, <1>2
<1>5. CASE j \in 1..(at - 1)
  BY <1>2, <1>3, <1>5 DEF Passed
<1>6. CASE j \in at..Len(func.blocks)
  BY <1>2, <1>3, <1>6 DEF Exhausted
<1> QED BY <1>4, <1>5, <1>6

\* The steps of the loops.
LEMMA LoopsApart ==
  ASSUME IInv, BranchesApart, NEW i \in DOMAIN func.blocks, OnBlock(i)
  PROVE  BranchesApart'
<1>1. CASE FoldBranch(i)
  BY <1>1, FoldBranchApart
<1>2. CASE CombineBlocks(i) \/ RemoveEmptyBlock(i) \/ HoistBranch(i)
  <2>1. pc \in {"combine", "empty", "hoist"}
    BY <1>2 DEF CombineBlocks, RemoveEmptyBlock, HoistBranch
  <2>2. NoPhiTested(func) /\ Tested(func) \cap Constants = {}
    BY <2>1 DEF BranchesApart
  <2>3. pc' = pc /\ Draws(func', func)
    BY <1>2, <2>2, CombineBlocksStep, RemoveEmptyBlockStep, HoistBranchStep
  <2>4. Tested(func') \subseteq Tested(func) /\ NoPhiTested(func')
    BY <2>2, <2>3, DrawsKeeps
  <2> QED BY <2>1, <2>2, <2>3, <2>4 DEF BranchesApart
<1>3. CASE FoldInstruction(i)
  <2>1. pc = "constants"
    BY <1>3 DEF FoldInstruction
  <2>2. pc' = pc /\ TestsKept(func', func)
    BY <1>3, FoldInstructionStep
  <2> QED BY <2>1, <2>2, KeptApart
<1>4. CASE CombineWithItself(i) \/ RemoveEmptyBlockFails(i) \/ HoistBranchFails(i)
  <2>1. Stops("hung") \/ Stops("crashed")
    BY <1>4 DEF CombineWithItself, RemoveEmptyBlockFails, HoistBranchFails
  <2> QED BY <2>1, StopsApart
<1> QED BY <1>1, <1>2, <1>3, <1>4 DEF OnBlock

LEMMA NextApart ==
  ASSUME IInv, BranchesApart, [Next]_vars
  PROVE  BranchesApart'
<1>1. CASE UNCHANGED vars
  BY <1>1 DEF vars, BranchesApart, Passed, Live, Redundant, Terminator
<1>2. CASE \E i \in DOMAIN func.blocks : OnBlock(i)
  BY <1>2, LoopsApart
<1>3. CASE EndFold
  <2>1. /\ pc = "fold" /\ Exhausted(Redundant) /\ func' = func /\ pc' = "combine"
    BY <1>3 DEF EndFold, StartsLoop
  <2>2. \A x \in LiveOf(func) : Tests(func.code[x]) \cap Constants = {}
    BY <2>1, NoneRedundant DEF BranchesApart
  <2>3. Tested(func) \cap Constants = {}
    BY <2>2 DEF Tested
  <2> QED BY <2>1, <2>3 DEF BranchesApart
<1>4. CASE EndRemovingLoop
  <2>1. /\ pc \in {"combine", "empty", "hoist"} /\ func' \in {func, DeletedRemoved(func)}
        /\ pc' \in {"empty", "hoist", "refold"} /\ at' = 1
    BY <1>4 DEF EndRemovingLoop, StartsLoop, After
  <2>2. LeftOf(func', func)
    BY <2>1, RemovalLeaves DEF IInv, LeftOf
  <2>3. Tested(func') \subseteq Tested(func) /\ NoPhiTested(func')
    BY <2>2, LeftDraws, DrawsKeeps DEF BranchesApart
  <2>4. Passed'
    BY <2>1 DEF Passed
  <2> QED BY <2>1, <2>3, <2>4 DEF BranchesApart
<1>5. CASE EndRefold
  <2>1. /\ pc = "refold" /\ Exhausted(Redundant) /\ pc' = "constants"
        /\ func' \in {func, UnreachableRemoved(DeletedRemoved(func))}
    BY <1>5 DEF EndRefold, StartsLoop
  <2>2. \A x \in LiveOf(func) : Forks(func, x)
    BY <2>1, NoneRedundant DEF BranchesApart
  <2>3. LeftOf(func', func)
    <3> DEFINE left == DeletedRemoved(func)
    <3>1. Cleared(left, func, Blocks) /\ LeftOf(left, func)
      BY DeletedRemovedSound, RemovalLeaves DEF IInv
    <3> HIDE DEF left
    <3>2. LeftOf(UnreachableRemoved(left), left)
      BY <3>1, RemovalLeaves DEF Cleared
    <3> QED BY <2>1, <3>1, <3>2 DEF LeftOf, left
  <2>4. (\A x \in LiveOf(func') : Forks(func', x)) /\ NoPhiTested(func')
    BY <2>2, <2>3, LeftApart DEF BranchesApart
  <2> QED BY <2>1, <2>4 DEF BranchesApart
<1>6. CASE NextRound \/ EndRun
  <2>1. /\ pc = "constants" /\ pc' \in {"fold", "cleanup"} /\ at' = 1 /\ func' = func
    BY <1>6 DEF NextRound, EndRun, StartsLoop
  <2>2. Passed'
    BY <2>1 DEF Passed
  <2> QED BY <2>1, <2>2 DEF BranchesApart
<1>7. CASE CleanPhi
  <2>1. pc = "cleanup"
    BY <1>7 DEF CleanPhi, InCleanup
  <2>2. CASE Stops("crashed")
    BY <2>2, StopsApart
  <2>3. CASE pc' = pc /\ TestsKept(func', func)
    BY <2>1, <2>3, KeptApart
  <2> QED BY <1>7, <2>2, <2>3, CleanPhiStep DEF BranchesApart
<1>8. CASE CleanNextBlock
  BY <1>8 DEF CleanNextBlock, InCleanup, BranchesApart
<1>9. CASE Preprocess \/ TransformAgain \/ Finish
  <2>1. /\ pc \in {"start", "cleanup"} /\ func' = UnreachableRemoved(func)
        /\ pc' = "done" \/ (pc' = "fold" /\ at' = 1)
    BY <1>9 DEF Preprocess, TransformAgain, Finish, StartsRun, StartsLoop
  <2>2. LeftOf(func', func)
    BY <2>1, RemovalLeaves DEF IInv, MarkedOnly
  <2>3. NoPhiTested(func')
    BY <2>2, LeftDraws, DrawsKeeps DEF BranchesApart
  <2>4. ASSUME NEW x \in LiveOf(func'), Tests(func'.code[x]) \cap Constants # {} PROVE Forks(func', x)
    BY <2>1, <2>2, <2>4 DEF BranchesApart, LeftOf, Forks
  <2>5. at' = 1 => Passed'
    BY DEF Passed
  <2> QED BY <2>1, <2>3, <2>4, <2>5 DEF BranchesApart
<1> QED BY <1>1, <1>2, <1>3, <1>4, <1>5, <1>6, <1>7, <1>8, <1>9 DEF Next

LEMMA NextKeeps ==
  ASSUME IInv, BranchesApart, [Next]_vars
  PROVE  IInv' /\ BranchesApart' /\ [\A i \in DOMAIN func.blocks : ~ErasesTakenEdge(i)]_vars
<1>1. \A i \in DOMAIN func.blocks : ~ErasesTakenEdge(i)
  BY NeverErased
<1> QED BY <1>1, NextSound, NextApart

LEMMA Invariant == Spec => [](IInv /\ BranchesApart)
<1>1. IInv /\ BranchesApart /\ [Next]_vars => (IInv /\ BranchesApart)'
  BY NextKeeps
<1> QED BY <1>1, InitSound, InitApart, PTL DEF Spec

LEMMA GraphIsTyped == IInv => TypeOK
<1> SUFFICES ASSUME IInv PROVE TypeOK
  OBVIOUS
<1>1. FunctionSound(func, Blocks) /\ func \in Functions(Blocks)
  BY DEF IInv, FunctionSound
<1>2. ASSUME NEW b \in LiveOf(func)
      PROVE  func.code[b] # <<>> /\ Targets(func.code[b]) \subseteq LiveOf(func)
  <2>1. b \in Blocks /\ Edges(func)[b] = Targets(func.code[b])
    BY <1>1, FunctionParts DEF LiveOf
  <2>2. Ends(func.code[b]) /\ Edges(func)[b] \subseteq LiveOf(func)
    BY <1>1 DEF FunctionSound, Sound
  <2> QED BY <2>1, <2>2 DEF Ends
<1>3. InRun => LiveOf(func) \subseteq DOMAIN predecessors \cap DOMAIN successors
  BY DEF IInv, CopiesMirror, Mirrored
<1> QED BY <1>2, <1>3 DEF TypeOK, LiveOf

LEMMA CopiesAreTheGraph == IInv => CopiesFollowGraph
<1> SUFFICES ASSUME IInv, InRun,
                    NEW b \in LiveOf(func)
             PROVE  /\ successors[b] = Targets(func.code[b])
                    /\ predecessors[b] \cap LiveOf(func) =
                         {a \in LiveOf(func) : b \in Targets(func.code[a])}
  BY DEF CopiesFollowGraph, LiveOf
<1>1. \A x \in LiveOf(func) : Edges(func)[x] = Targets(func.code[x])
  BY FunctionParts DEF IInv, FunctionSound, LiveOf
<1>2. /\ successors[b] = Edges(func)[b]
      /\ predecessors[b] \cap LiveOf(func) = Into(LiveOf(func), Edges(func), b)
  BY DEF IInv, CopiesMirror, Mirrored
<1> QED BY <1>1, <1>2 DEF Into

LEMMA PhisAreCovered == IInv => PhisCoverPredecessors
<1> SUFFICES ASSUME IInv, NEW b \in LiveOf(func), NEW ins \in PhisOf(func.code[b])
             PROVE  {a \in LiveOf(func) : b \in Targets(func.code[a])} \subseteq Keys(ins)
  BY DEF PhisCoverPredecessors, LiveOf
<1>1. FunctionSound(func, Blocks)
  BY DEF IInv
<1>2. \A x \in LiveOf(func) : Edges(func)[x] = Targets(func.code[x])
                              /\ PhiKeys(func)[x] = KeySets(func.code[x])
  BY <1>1, FunctionParts DEF FunctionSound, LiveOf
<1>3. Keys(ins) \in PhiKeys(func)[b]
  BY <1>2 DEF KeySets
<1>4. Into(LiveOf(func), Edges(func), b) \subseteq Keys(ins)
  BY <1>1, <1>3 DEF FunctionSound, Sound
<1> QED BY <1>2, <1>4 DEF Into

-----------------------------------------------------------------------------
\* No branch on a constant whose targets are one block is ever folded, which would erase
\* the edge taken from the copies: branches with equal targets are folded before the loop
\* that makes conditions constant, and merging replaces no condition by an option of a phi.
THEOREM NoTakenEdgeIsErased == Spec => TakenEdgesKept
<1>1. IInv /\ BranchesApart /\ [Next]_vars => [\A i \in DOMAIN func.blocks : ~ErasesTakenEdge(i)]_vars
  BY NextKeeps
<1> QED BY <1>1, Invariant, PTL DEF Spec, TakenEdgesKept

\* simplify_control_flow keeps every function well formed, however its blocks are connected
\* and however often its loops find something to do: no live block is left without
\* a terminator or goes to a block that was merged, bypassed, hoisted or never reached,
\* and no live block is missing from the copies of run_on_func.
THEOREM SimplifiedStaysWellFormed == Spec => []TypeOK
<1> QED BY Invariant, GraphIsTyped, PTL

\* The predecessors and successors that run_on_func copies once and updates by hand, through
\* every merge, bypass, hoist and fold, are those of the code itself.
THEOREM CopiesAreMaintained == Spec => []CopiesFollowGraph
<1> QED BY Invariant, CopiesAreTheGraph, PTL

\* No phi loses the option of a block that still comes to its block, although blocks are
\* replaced in the phis through their users and cleanup_phi trusts an analysis that is
\* renewed only when the graph was modified.
THEOREM PhisKeepTheirPredecessors == Spec => []PhisCoverPredecessors
<1> QED BY Invariant, PhisAreCovered, PTL
=============================================================================
