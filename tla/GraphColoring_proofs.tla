----------------------- MODULE GraphColoring_proofs -----------------------
(***************************************************************************)
(* Why GraphColoring colours properly, for every register file, every set  *)
(* of functions and every order in which its phases take nodes.            *)
(*                                                                         *)
(* Each variable has an owner, the node of the map it was coalesced into.  *)
(* The heart of the inductive invariant is what becomes of an edge of the  *)
(* original graph: its two owners are distinct, and either they are still  *)
(* neighbours, or one of them waits on the stack below the other and       *)
(* remembers it, or both have colours and the colours differ.              *)
(*                                                                         *)
(* First come lemmas about LirCode, for every function: what a rewriting   *)
(* leaves of the code is a sequence of blocks, each instruction names      *)
(* variables that the function keeps in registers, and what is live is     *)
(* among them.                                                             *)
(***************************************************************************)
EXTENDS GraphColoring, NumberLemmas, SequenceTheorems

-----------------------------------------------------------------------------
(* Sequences of pieces of code. *)

\* A function on the numbers up to n is a sequence.
LEMMA SeqIs ==
  ASSUME NEW S, NEW n \in Nat, NEW s \in [1..n -> S]
  PROVE  s \in Seq(S)
OBVIOUS

\* p has the pieces of s joined up to each place, and all of them at the end.
Joined(S, n, s, p) ==
  /\ p \in [0..n -> Seq(S)] /\ p[0] = <<>>
  /\ \A i \in 1..n : p[i] = p[i - 1] \o s[i]
  /\ FlattenSeq(s) = p[n]

\* Pieces are joined one after the other.
LEMMA FlattenPrefixes ==
  ASSUME NEW S, NEW n \in Nat, NEW s \in [1..n -> Seq(S)]
  PROVE  \E p : Joined(S, n, s, p)
<1>1. Len(s) = n /\ DOMAIN s = 1..n /\ s \in Seq(Seq(S))
  OBVIOUS
<1>2. CASE n = 0
  <2>1. FlattenSeq(s) = s
    BY <1>1, <1>2 DEF FlattenSeq
  <2>2. s = <<>>
    BY <1>1, <1>2
  <2> DEFINE q == [i \in 0..n |-> <<>>]
  <2>3. q \in [0..n -> Seq(S)] /\ q[0] = <<>> /\ FlattenSeq(s) = q[n]
    BY <1>2, <2>1, <2>2
  <2>4. \A i \in 1..n : q[i] = q[i - 1] \o s[i]
    BY <1>2
  <2> HIDE DEF q
  <2>5. Joined(S, n, s, q)
    BY <2>3, <2>4 DEF Joined
  <2> QED BY <2>5
<1>3. CASE n # 0
  <2> DEFINE D == Seq(S)
             T == [p \in D \X (1..n) |-> p[1] \o s[p[2]]]
             Equation(f) == f = [i \in 1..n |-> IF i = 1 THEN s[i] ELSE f[i - 1] \o s[i]]
  <2>1. T \in [D \X (1..n) -> D] /\ <<>> \in D
    <3>1. \A d \in D, i \in 1..n : d \o s[i] \in D
      OBVIOUS
    <3> QED BY <3>1
  <2>2. \A d \in D, i \in 1..n : T[<<d, i>>] = d \o s[i]
    OBVIOUS
  <2> HIDE DEF T
  <2>3. PICK g \in [0..n -> D] : Iterates(g, n, <<>>, T)
    <3> HIDE DEF D
    <3> QED BY <2>1, IterationExists
  <2> DEFINE h == [i \in 1..n |-> g[i]]
  <2>4. Equation(h)
    <3>1. ASSUME NEW i \in 1..n
          PROVE  h[i] = IF i = 1 THEN s[i] ELSE h[i - 1] \o s[i]
      <4>1. i - 1 \in 0..n /\ g[i - 1] \in D /\ h[i] = g[i]
        OBVIOUS
      <4>2. g[i] = g[i - 1] \o s[i]
        BY <2>2, <2>3, <4>1 DEF Iterates
      <4>3. CASE i = 1
        <5>1. g[i - 1] = <<>> /\ s[i] \in Seq(S)
          BY <2>3, <4>3 DEF Iterates
        <5>2. <<>> \o s[i] = s[i]
          BY <5>1, ConcatEmptySeq
        <5> QED BY <4>1, <4>2, <4>3, <5>1, <5>2
      <4>4. CASE i # 1
        <5>1. i - 1 \in 1..n
          BY <4>4
        <5> QED BY <4>1, <4>2, <4>4, <5>1
      <4> QED BY <4>3, <4>4
    <3> QED BY <3>1
  <2>5. FlattenSeq(s) = (CHOOSE f : Equation(f))[n]
    BY <1>1, <1>3 DEF FlattenSeq
  <2> HIDE DEF Equation
  <2>6. PICK f : Equation(f) /\ FlattenSeq(s) = f[n]
    BY <2>4, <2>5
  <2>7. \A i \in 1..n : f[i] = IF i = 1 THEN s[i] ELSE f[i - 1] \o s[i]
    BY <2>6 DEF Equation
  <2> DEFINE I == {i \in 0..n : i # 0 => f[i] \in Seq(S)}
  <2>8. 0 \in I
    OBVIOUS
  <2>9. ASSUME NEW i \in 0..(n - 1), i \in I PROVE i + 1 \in I
    <3>1. i + 1 \in 1..n /\ s[i + 1] \in Seq(S) /\ (i + 1) - 1 = i
      OBVIOUS
    <3>2. f[i + 1] = IF i + 1 = 1 THEN s[i + 1] ELSE f[i] \o s[i + 1]
      BY <2>7, <3>1
    <3>3. f[i + 1] \in Seq(S)
      <4>1. CASE i = 0
        BY <3>1, <3>2, <4>1
      <4>2. CASE i # 0
        <5>1. f[i] \in Seq(S)
          BY <2>9, <4>2
        <5>2. f[i] \o s[i + 1] \in Seq(S)
          BY <3>1, <5>1
        <5> QED BY <3>2, <4>2, <5>2
      <4> QED BY <4>1, <4>2
    <3> QED BY <3>1, <3>3
  <2> HIDE DEF I
  <2>10. \A i \in 0..n : i \in I
    BY <2>8, <2>9, NumbersUpTo
  <2>11. \A i \in 1..n : f[i] \in Seq(S)
    BY <2>10 DEF I
  <2> DEFINE q == [i \in 0..n |-> IF i = 0 THEN <<>> ELSE f[i]]
  <2>12. q \in [0..n -> Seq(S)]
    BY <2>1, <2>11
  <2>13. ASSUME NEW i \in 1..n PROVE q[i] = q[i - 1] \o s[i]
    <3>1. s[i] \in Seq(S) /\ i \in 0..n /\ i - 1 \in 0..n /\ q[i] = f[i]
      OBVIOUS
    <3>2. CASE i = 1
      <4>1. <<>> \o s[i] = s[i]
        BY <3>1, ConcatEmptySeq
      <4> QED BY <2>7, <3>1, <3>2, <4>1
    <3>3. CASE i # 1
      <4>1. f[i] = f[i - 1] \o s[i]
        BY <2>7, <3>3
      <4>2. q[i - 1] = f[i - 1]
        BY <3>3
      <4> QED BY <3>1, <4>1, <4>2
    <3> QED BY <3>2, <3>3
  <2>14. q[0] = <<>> /\ q[n] = f[n]
    BY <1>3
  <2> HIDE DEF q
  <2>15. Joined(S, n, s, q)
    BY <2>6, <2>12, <2>13, <2>14 DEF Joined
  <2> QED BY <2>15
<1> QED BY <1>2, <1>3

\* The elements of two sequences joined.
LEMMA ElementsOfBoth ==
  ASSUME NEW S, NEW s \in Seq(S), NEW t \in Seq(S)
  PROVE  ToSet(s \o t) = ToSet(s) \cup ToSet(t)
<1>1. Range(s \o t) = Range(s) \cup Range(t)
  BY RangeConcatenation
<1> QED BY <1>1 DEF ToSet, Range

\* Pieces over a set join to a sequence over it.
LEMMA FlattenOver ==
  ASSUME NEW S, NEW n \in Nat, NEW s \in [1..n -> Seq(S)]
  PROVE  FlattenSeq(s) \in Seq(S)
<1>1. n \in 0..n
  OBVIOUS
<1>2. PICK p : Joined(S, n, s, p)
  BY FlattenPrefixes
<1> QED BY <1>1, <1>2 DEF Joined

-----------------------------------------------------------------------------
(* Points, and the code at them. *)

\* A point is a block and a place in it.
LEMMA PointsAre ==
  ASSUME NEW func, NEW S, func.code \in Seq(Seq(S))
  PROVE  /\ \A p \in Points(func) : /\ p = <<p[1], p[2]>>
                                  /\ p[1] \in DOMAIN func.code
                                  /\ p[2] \in DOMAIN func.code[p[1]]
                                  /\ At(func, p) \in S
         /\ \A b \in DOMAIN func.code : \A i \in DOMAIN func.code[b] :
              <<b, i>> \in Points(func) /\ At(func, <<b, i>>) = func.code[b][i]
         /\ IsFiniteSet(Points(func))
<1>1. ASSUME NEW p \in Points(func)
      PROVE  /\ p = <<p[1], p[2]>> /\ p[1] \in DOMAIN func.code
             /\ p[2] \in DOMAIN func.code[p[1]] /\ At(func, p) \in S
  <2>1. PICK b \in DOMAIN func.code : p \in {b} \X DOMAIN func.code[b]
    BY DEF Points
  <2>2. p = <<p[1], p[2]>> /\ p[1] = b /\ p[2] \in DOMAIN func.code[b]
    BY <2>1
  <2>3. func.code[b] \in Seq(S)
    BY ElementOfSeq
  <2>4. func.code[b][p[2]] \in S
    BY <2>2, <2>3, ElementOfSeq
  <2> QED BY <2>1, <2>2, <2>4 DEF At
<1>2. ASSUME NEW b \in DOMAIN func.code, NEW i \in DOMAIN func.code[b]
      PROVE  <<b, i>> \in Points(func) /\ At(func, <<b, i>>) = func.code[b][i]
  BY DEF Points, At
<1>3. IsFiniteSet(Points(func))
  <2> DEFINE Row(b) == {b} \X DOMAIN func.code[b]
             Rows == {Row(b) : b \in DOMAIN func.code}
  <2>1. ASSUME NEW b \in DOMAIN func.code PROVE IsFiniteSet(Row(b))
    <3>1. func.code[b] \in Seq(S)
      BY ElementOfSeq
    <3>2. DOMAIN func.code[b] = 1..Len(func.code[b]) /\ Len(func.code[b]) \in Nat
      BY <3>1, LenProperties
    <3>3. IsFiniteSet(DOMAIN func.code[b])
      BY <3>2, FS_Interval
    <3>4. IsFiniteSet({b})
      BY FS_Singleton
    <3> QED BY <3>3, <3>4, FS_Product
  <2>2. IsFiniteSet(DOMAIN func.code)
    <3>1. DOMAIN func.code = 1..Len(func.code) /\ Len(func.code) \in Nat
      BY LenProperties
    <3> QED BY <3>1, FS_Interval
  <2> HIDE DEF Row
  <2>3. IsFiniteSet(Rows)
    <3> DEFINE row == [b \in DOMAIN func.code |-> Row(b)]
    <3>1. row \in Surjection(DOMAIN func.code, Rows)
      BY DEF Surjection
    <3> QED BY <2>2, <3>1, FS_Surjection DEF ExistsSurjection
  <2>4. \A r \in Rows : IsFiniteSet(r)
    BY <2>1
  <2>5. IsFiniteSet(UNION Rows)
    BY <2>3, <2>4, FS_UNION
  <2>6. Points(func) = UNION Rows
    BY DEF Points, Row
  <2> QED BY <2>5, <2>6
<1> QED BY <1>1, <1>2, <1>3

\* Code over a set is code over the instructions that occur in it.
LEMMA InstructionsOver ==
  ASSUME NEW func, NEW S, func.code \in Seq(Seq(S))
  PROVE  /\ Instructions(func) \subseteq S
         /\ func.code \in Seq(Seq(Instructions(func)))
<1> DEFINE I == Instructions(func)
<1>1. I \subseteq S
  BY PointsAre DEF Instructions
<1>2. ASSUME NEW b \in DOMAIN func.code, NEW i \in DOMAIN func.code[b]
      PROVE  func.code[b][i] \in I
  <2>1. <<b, i>> \in Points(func) /\ At(func, <<b, i>>) = func.code[b][i]
    BY PointsAre
  <2>2. At(func, <<b, i>>) \in I
    BY <2>1 DEF Instructions
  <2> QED BY <2>1, <2>2
<1> HIDE DEF I
<1>3. ASSUME NEW b \in DOMAIN func.code PROVE func.code[b] \in Seq(I)
  <2>1. func.code[b] \in Seq(S)
    BY ElementOfSeq
  <2>2. Len(func.code[b]) \in Nat /\ func.code[b] \in [1..Len(func.code[b]) -> S]
    BY <2>1
  <2>3. func.code[b] \in [1..Len(func.code[b]) -> I]
    BY <1>2, <2>2
  <2> QED BY <2>2, <2>3, SeqIs
<1>4. func.code \in Seq(Seq(I))
  <2>1. Len(func.code) \in Nat /\ func.code \in [1..Len(func.code) -> Seq(S)]
    OBVIOUS
  <2>2. func.code \in [1..Len(func.code) -> Seq(I)]
    BY <1>3, <2>1
  <2> QED BY <2>1, <2>2, SeqIs
<1> QED BY <1>1, <1>4 DEF I

\* A rewriting that gives each point a piece of code over S gives code over S.
LEMMA ReplacedOver ==
  ASSUME NEW func, NEW prefix, NEW sites, NEW piece, NEW S, NEW I, func.code \in Seq(Seq(I)),
         \A p \in Points(func) : piece[p] \in Seq(S)
  PROVE  LET to == Replaced(func, prefix, sites, piece)
         IN  to.code \in Seq(Seq(S)) /\ DOMAIN to.code = DOMAIN func.code
<1> DEFINE Block(b) == FlattenSeq([i \in DOMAIN func.code[b] |-> piece[<<b, i>>]])
           code == [b \in DOMAIN func.code |-> Block(b)]
<1>1. ASSUME NEW b \in DOMAIN func.code PROVE Block(b) \in Seq(S)
  <2> DEFINE s == [i \in DOMAIN func.code[b] |-> piece[<<b, i>>]]
             n == Len(func.code[b])
  <2>1. n \in Nat /\ DOMAIN func.code[b] = 1..n
    BY ElementOfSeq, LenProperties
  <2>2. s \in [1..n -> Seq(S)]
    BY <2>1, PointsAre
  <2> HIDE DEF s, n
  <2>3. FlattenSeq(s) \in Seq(S)
    BY <2>1, <2>2, FlattenOver
  <2> QED BY <2>3 DEF s
<1> HIDE DEF Block
<1>2. code \in Seq(Seq(S))
  <2>1. Len(func.code) \in Nat /\ DOMAIN func.code = 1..Len(func.code)
    BY LenProperties
  <2> QED BY <1>1, <2>1
<1>3. Replaced(func, prefix, sites, piece).code = code
  BY DEF Replaced, Block
<1> QED BY <1>2, <1>3

\* The names of a rewriting are numbered from uid up to the next uid.
LEMMA NumberRange ==
  ASSUME NEW func, NEW I, func.code \in Seq(Seq(I)), func.uid \in Nat,
         NEW sites \in SUBSET Points(func)
  PROVE  /\ func.uid + Cardinality(sites) \in Nat
         /\ \A p \in sites : /\ Number(func, sites, p) \in func.uid..(func.uid + Cardinality(sites) - 1)
                             /\ Number(func, sites, p) \in Nat
<1>1. IsFiniteSet(sites) /\ Cardinality(sites) \in Nat
  BY PointsAre, FS_Subset, FS_CardinalityType
<1>2. ASSUME NEW p \in sites
      PROVE  Number(func, sites, p) \in func.uid..(func.uid + Cardinality(sites) - 1)
  <2> DEFINE before == {q \in sites : q[1] < p[1] \/ (q[1] = p[1] /\ q[2] < p[2])}
  <2>1. p \notin before
    <3>1. p[1] \in Nat /\ p[2] \in Nat
      <4>1. p[1] \in DOMAIN func.code /\ p[2] \in DOMAIN func.code[p[1]] /\ func.code[p[1]] \in Seq(I)
        BY PointsAre, ElementOfSeq
      <4> QED BY <4>1, LenProperties
    <3> QED BY <3>1
  <2> HIDE DEF before
  <2>2. before \subseteq sites
    BY DEF before
  <2>3. Cardinality(before) \in Nat /\ Cardinality(before) < Cardinality(sites)
    BY <1>1, <2>1, <2>2, FS_Subset, FS_CardinalityType
  <2>4. Number(func, sites, p) = func.uid + Cardinality(before)
    BY DEF Number, before
  <2> QED BY <1>1, <2>3, <2>4
<1> QED BY <1>1, <1>2
-----------------------------------------------------------------------------
(* Liveness. *)

\* f is what is live within a block, from its end up.
LiveFrom(f, is, V, out) ==
  /\ f \in [0..Len(is) -> SUBSET V]
  /\ f[Len(is)] = out
  /\ \A i \in 1..Len(is) : f[i - 1] = LiveBefore(is[i], f[i])

\* What is live in a block is used in it or live at its end.
LEMMA LiveWithinIs ==
  ASSUME NEW S, NEW is \in Seq(S), NEW V, NEW out \in SUBSET V,
         \A in \in S : ToSet(in.uses) \subseteq V
  PROVE  LiveFrom(LiveWithin(is, out), is, V, out)
<1> DEFINE n == Len(is)
           D == SUBSET V
           T == [p \in D \X (1..n) |-> LiveBefore(is[p[2]], p[1])]
           Equation(f) == f = [i \in 0..n |-> IF i = n THEN out ELSE LiveBefore(is[i + 1], f[i + 1])]
<1>1. n \in Nat /\ out \in D
  OBVIOUS
<1>2. ASSUME NEW d \in D, NEW i \in 1..n PROVE LiveBefore(is[i], d) \in D
  <2>1. is[i] \in S
    BY ElementOfSeq
  <2>2. ToSet(is[i].uses) \subseteq V
    BY <2>1
  <2> QED BY <2>2 DEF LiveBefore
<1>3. T \in [D \X (1..n) -> D]
  BY <1>2
<1>4. \A d \in D, i \in 1..n : T[<<d, i>>] = LiveBefore(is[i], d)
  OBVIOUS
<1> HIDE DEF T
<1>5. PICK g \in [0..n -> D] : IteratesDown(g, n, out, T)
  <2> HIDE DEF D, n
  <2> QED BY <1>1, <1>3, DownIterationExists
<1>6. Equation(g)
  <2>1. ASSUME NEW i \in 0..n
        PROVE  g[i] = IF i = n THEN out ELSE LiveBefore(is[i + 1], g[i + 1])
    <3>1. CASE i = n
      BY <1>5, <3>1 DEF IteratesDown
    <3>2. CASE i # n
      <4>1. i + 1 \in 1..n /\ (i + 1) - 1 = i /\ g[i + 1] \in D
        BY <1>1, <3>2
      <4> HIDE DEF n, D
      <4>2. g[(i + 1) - 1] = T[<<g[i + 1], i + 1>>]
        BY <1>5, <4>1 DEF IteratesDown
      <4>3. T[<<g[i + 1], i + 1>>] = LiveBefore(is[i + 1], g[i + 1])
        BY <1>4, <4>1
      <4> QED BY <3>2, <4>1, <4>2, <4>3
    <3> QED BY <3>1, <3>2
  <2> QED BY <2>1
<1>7. LiveWithin(is, out) = CHOOSE f : Equation(f)
  BY DEF LiveWithin
<1> HIDE DEF Equation
<1>8. PICK f : Equation(f) /\ LiveWithin(is, out) = f
  BY <1>6, <1>7
<1>9. /\ DOMAIN f = 0..n
      /\ f = [i \in 0..n |-> f[i]]
      /\ \A i \in 0..n : f[i] = IF i = n THEN out ELSE LiveBefore(is[i + 1], f[i + 1])
  BY <1>8 DEF Equation
<1> DEFINE I == {i \in 0..n : f[i] \in D}
<1>10. n \in I
  BY <1>1, <1>9
<1>11. ASSUME NEW i \in 0..(n - 1), i + 1 \in I PROVE i \in I
  <2>1. i \in 0..n /\ i # n /\ i + 1 \in 1..n /\ f[i + 1] \in D
    BY <1>1, <1>11
  <2>2. f[i] = LiveBefore(is[i + 1], f[i + 1])
    BY <1>9, <2>1
  <2>3. f[i] \in D
    BY <1>2, <2>1, <2>2
  <2> QED BY <2>1, <2>3
<1> HIDE DEF I
<1>12. \A i \in 0..n : i \in I
  <2> HIDE DEF n
  <2> QED BY <1>1, <1>10, <1>11, NumbersDownFrom
<1>13. \A i \in 0..n : f[i] \in D
  BY <1>12 DEF I
<1> HIDE DEF D
<1>14. f \in [0..n -> D]
  BY <1>9, <1>13
<1>15. f[n] = out
  <2>1. n \in 0..n
    BY <1>1
  <2> QED BY <1>9, <2>1
<1>16. ASSUME NEW i \in 1..n PROVE f[i - 1] = LiveBefore(is[i], f[i])
  <2>1. i - 1 \in 0..n /\ i - 1 # n /\ (i - 1) + 1 = i
    BY <1>1
  <2> QED BY <1>9, <2>1
<1> HIDE DEF n
<1>17. LiveFrom(f, is, V, out)
  BY <1>14, <1>15, <1>16 DEF n, D, LiveFrom
<1> QED BY <1>8, <1>17

\* In particular it is over the variables used.
LEMMA LiveWithinOver ==
  ASSUME NEW S, NEW is \in Seq(S), NEW V, NEW out \in SUBSET V,
         \A in \in S : ToSet(in.uses) \subseteq V
  PROVE  LiveWithin(is, out) \in [0..Len(is) -> SUBSET V]
BY LiveWithinIs DEF LiveFrom

\* The blocks of func only use variables of V, and jump to blocks of func.
UsesOnly(func, V) ==
  \E S : /\ func.code \in Seq(Seq(S))
         /\ \A in \in S : ToSet(in.uses) \subseteq V
         /\ func.succ \in [DOMAIN func.code -> SUBSET DOMAIN func.code]

\* One round of the liveness equations.
LiveRound(func, before) ==
  [b \in DOMAIN func.code |->
     LiveWithin(func.code[b], UNION {before[s] : s \in func.succ[b]})[0]]

\* LiveIn is where as many rounds as there are blocks lead.
LEMMA LiveRounds ==
  ASSUME NEW func, NEW V, UsesOnly(func, V)
  PROVE  \E f \in [0..Len(func.code) -> [DOMAIN func.code -> SUBSET V]] :
           /\ f[0] = [b \in DOMAIN func.code |-> {}]
           /\ \A k \in 0..(Len(func.code) - 1) : f[k + 1] = LiveRound(func, f[k])
           /\ LiveIn(func) = f[Len(func.code)]
<1>1. PICK S : /\ func.code \in Seq(Seq(S))
               /\ \A in \in S : ToSet(in.uses) \subseteq V
               /\ func.succ \in [DOMAIN func.code -> SUBSET DOMAIN func.code]
  BY DEF UsesOnly
<1> DEFINE n == Len(func.code)
           B == DOMAIN func.code
           D == [B -> SUBSET V]
           Round(before) ==
             [b \in B |-> LiveWithin(func.code[b], UNION {before[s] : s \in func.succ[b]})[0]]
           c == [b \in B |-> {}]
           T == [p \in D \X (1..n) |-> Round(p[1])]
           Equation(f) == f = [k \in 0..n |-> IF k = 0 THEN c ELSE Round(f[k - 1])]
<1>2. n \in Nat /\ c \in D
  BY <1>1, LenProperties
<1>3. ASSUME NEW d \in D PROVE Round(d) \in D
  <2>1. ASSUME NEW b \in B
        PROVE  LiveWithin(func.code[b], UNION {d[s] : s \in func.succ[b]})[0] \in SUBSET V
    <3> DEFINE out == UNION {d[s] : s \in func.succ[b]}
    <3>1. func.code[b] \in Seq(S)
      BY <1>1, ElementOfSeq
    <3>2. out \in SUBSET V
      BY <1>1
    <3> HIDE DEF out
    <3>3. LiveWithin(func.code[b], out) \in [0..Len(func.code[b]) -> SUBSET V]
      BY <1>1, <3>1, <3>2, LiveWithinOver
    <3>4. 0 \in 0..Len(func.code[b])
      BY <3>1
    <3>5. LiveWithin(func.code[b], out)[0] \in SUBSET V
      BY <3>3, <3>4
    <3> QED BY <3>5 DEF out
  <2> QED BY <2>1
<1> HIDE DEF Round
<1>4. T \in [D \X (1..n) -> D]
  BY <1>3
<1>5. \A d \in D, i \in 1..n : T[<<d, i>>] = Round(d)
  OBVIOUS
<1> HIDE DEF T
<1>6. PICK g \in [0..n -> D] : Iterates(g, n, c, T)
  <2> HIDE DEF D, n, c
  <2> QED BY <1>2, <1>4, IterationExists
<1>7. Equation(g)
  <2>1. ASSUME NEW k \in 0..n
        PROVE  g[k] = IF k = 0 THEN c ELSE Round(g[k - 1])
    <3> HIDE DEF D, n, c
    <3>1. CASE k = 0
      BY <1>6, <3>1 DEF Iterates
    <3>2. CASE k # 0
      <4>1. k \in 1..n /\ k - 1 \in 0..n
        BY <1>2, <3>2
      <4>2. g[k] = T[<<g[k - 1], k>>] /\ g[k - 1] \in D
        BY <1>6, <4>1 DEF Iterates
      <4> QED BY <1>5, <3>2, <4>1, <4>2
    <3> QED BY <3>1, <3>2
  <2> QED BY <2>1
<1>8. LiveIn(func) = (CHOOSE f : Equation(f))[n]
  BY DEF LiveIn, Round
<1> HIDE DEF Equation
<1>9. PICK f : Equation(f) /\ LiveIn(func) = f[n]
  BY <1>7, <1>8
<1> HIDE DEF c, n, D
<1>10. \A k \in 0..n : f[k] = IF k = 0 THEN c ELSE Round(f[k - 1])
  BY <1>9 DEF Equation
<1> DEFINE I == {k \in 0..n : f[k] \in D}
<1>11. 0 \in I
  BY <1>2, <1>10
<1>12. ASSUME NEW k \in 0..(n - 1), k \in I PROVE k + 1 \in I
  <2>1. k + 1 \in 0..n /\ k + 1 # 0 /\ (k + 1) - 1 = k /\ f[k] \in D
    BY <1>2, <1>12
  <2>2. f[k + 1] = Round(f[k])
    BY <1>10, <2>1
  <2> QED BY <1>3, <2>1, <2>2
<1> HIDE DEF I
<1>13. \A k \in 0..n : k \in I
  BY <1>2, <1>11, <1>12, NumbersUpTo
<1>14. \A k \in 0..n : f[k] \in D
  BY <1>13 DEF I
<1>15. f = [k \in 0..n |-> f[k]]
  BY <1>9 DEF Equation
<1>16. f \in [0..n -> D]
  BY <1>14, <1>15
<1>17. f[0] = c
  BY <1>2, <1>10
<1>18. ASSUME NEW k \in 0..(n - 1) PROVE f[k + 1] = Round(f[k])
  <2>1. k + 1 \in 0..n /\ k + 1 # 0 /\ (k + 1) - 1 = k
    BY <1>2
  <2> QED BY <1>10, <2>1
<1>19. \A d : Round(d) = LiveRound(func, d)
  BY DEF Round, LiveRound, B
<1>20. /\ f \in [0..n -> D] /\ f[0] = c
       /\ \A k \in 0..(n - 1) : f[k + 1] = LiveRound(func, f[k])
       /\ LiveIn(func) = f[n]
  BY <1>9, <1>16, <1>17, <1>18, <1>19
<1> QED BY <1>20 DEF D, B, c, n

\* So it is over the variables that are used.
LEMMA LiveInOver ==
  ASSUME NEW func, NEW V, UsesOnly(func, V)
  PROVE  LiveIn(func) \in [DOMAIN func.code -> SUBSET V]
<1> DEFINE n == Len(func.code)
           D == [DOMAIN func.code -> SUBSET V]
<1>1. n \in 0..n
  BY LenProperties DEF UsesOnly
<1>2. PICK f \in [0..n -> D] : LiveIn(func) = f[n]
  BY LiveRounds
<1> HIDE DEF n, D
<1>3. f[n] \in D
  BY <1>1
<1> QED BY <1>2, <1>3 DEF D

\* A set that grows strictly with every step, as long as it grows at all, is full
\* after as many steps as it may have elements.
LEMMA GrowthEnds ==
  ASSUME NEW B, IsFiniteSet(B), NEW n \in Nat, Cardinality(B) <= n,
         NEW S \in [0..n -> SUBSET B], NEW next \in SUBSET B,
         \A k \in 0..(n - 1) : S[k] \subseteq S[k + 1],
         S[n] \subseteq next,
         \A k \in 0..(n - 1) : S[k + 1] = S[k] =>
            IF k + 1 = n THEN next = S[n] ELSE S[k + 2] = S[k + 1]
  PROVE  next = S[n]
<1> DEFINE I == {k \in 0..n : next = S[n] \/ Cardinality(S[k]) >= k}
           Still == {k \in 0..n : next = S[n] \/ (k < n => S[k + 1] # S[k])}
<1>1. \A k \in 0..n : IsFiniteSet(S[k]) /\ Cardinality(S[k]) \in Nat
  BY FS_Subset, FS_CardinalityType
<1>2. \A k \in 0..n : k \in Still
  <2>1. n \in Still
    OBVIOUS
  <2>2. ASSUME NEW k \in 0..(n - 1), k + 1 \in Still PROVE k \in Still
    <3>1. k \in 0..n /\ k + 1 \in 0..n
      OBVIOUS
    <3>2. CASE k + 1 = n
      BY <2>2, <3>1, <3>2
    <3>3. CASE k + 1 # n
      <4>1. k + 1 < n /\ (k + 1) + 1 = k + 2
        BY <3>3
      <4> QED BY <2>2, <3>1, <3>3, <4>1
    <3> QED BY <3>2, <3>3
  <2> HIDE DEF Still
  <2> QED BY <2>1, <2>2, NumbersDownFrom
<1>3. \A k \in 0..n : k \in I
  <2>1. 0 \in I
    BY <1>1
  <2>2. ASSUME NEW k \in 0..(n - 1), k \in I PROVE k + 1 \in I
    <3>1. k \in 0..n /\ k + 1 \in 0..n
      OBVIOUS
    <3>2. CASE next # S[n]
      <4>1. S[k] \subseteq S[k + 1] /\ S[k + 1] # S[k]
        BY <1>2, <3>1, <3>2
      <4>2. Cardinality(S[k]) < Cardinality(S[k + 1])
        BY <1>1, <3>1, <4>1, FS_Subset
      <4>3. Cardinality(S[k]) >= k
        BY <2>2, <3>2
      <4>4. Cardinality(S[k + 1]) >= k + 1
        BY <1>1, <3>1, <4>2, <4>3
      <4> QED BY <3>1, <4>4
    <3> QED BY <3>1, <3>2
  <2> HIDE DEF I
  <2> QED BY <2>1, <2>2, NumbersUpTo
<1>4. CASE next # S[n]
  <2>1. n \in 0..n /\ Cardinality(S[n]) >= n
    BY <1>3, <1>4
  <2>2. Cardinality(S[n]) = Cardinality(B)
    BY <1>1, <2>1, FS_Subset, FS_CardinalityType
  <2>3. S[n] = B
    BY <2>1, <2>2, FS_Subset
  <2> QED BY <1>4, <2>3
<1> QED BY <1>4

\* Whether a variable is live in a block depends on whether that one is live at its end.
LEMMA LiveWithinMonotone ==
  ASSUME NEW S, NEW is \in Seq(S), NEW V, NEW out \in SUBSET V, NEW more \in SUBSET V,
         \A in \in S : ToSet(in.uses) \subseteq V,
         NEW x, x \in out => x \in more
  PROVE  x \in LiveWithin(is, out)[0] => x \in LiveWithin(is, more)[0]
<1> DEFINE n == Len(is)
           f == LiveWithin(is, out)
           g == LiveWithin(is, more)
           I == {i \in 0..n : x \in f[i] => x \in g[i]}
<1>1. /\ n \in Nat /\ f[n] = out /\ g[n] = more
      /\ \A i \in 1..n : f[i - 1] = LiveBefore(is[i], f[i]) /\ g[i - 1] = LiveBefore(is[i], g[i])
  <2>1. n \in Nat
    BY LenProperties
  <2>2. LiveFrom(f, is, V, out) /\ LiveFrom(g, is, V, more)
    BY LiveWithinIs
  <2> HIDE DEF f, g
  <2> QED BY <2>1, <2>2 DEF LiveFrom
<1> HIDE DEF f, g, n
<1>2. n \in I
  BY <1>1
<1>3. ASSUME NEW i \in 0..(n - 1), i + 1 \in I PROVE i \in I
  <2>1. i + 1 \in 1..n /\ (i + 1) - 1 = i /\ i \in 0..n
    BY <1>1
  <2>2. f[i] = LiveBefore(is[i + 1], f[i + 1]) /\ g[i] = LiveBefore(is[i + 1], g[i + 1])
    BY <1>1, <2>1
  <2> QED BY <1>3, <2>1, <2>2 DEF LiveBefore
<1> HIDE DEF I
<1>4. \A i \in 0..n : i \in I
  BY <1>1, <1>2, <1>3, NumbersDownFrom
<1>5. 0 \in I
  BY <1>1, <1>4
<1> QED BY <1>5 DEF I, f, g

\* After as many rounds as there are blocks another one adds nothing.
LEMMA LivenessSettles ==
  ASSUME NEW func, NEW V, UsesOnly(func, V)
  PROVE  LiveRound(func, LiveIn(func)) = LiveIn(func)
<1>1. PICK S : /\ func.code \in Seq(Seq(S))
               /\ \A in \in S : ToSet(in.uses) \subseteq V
               /\ func.succ \in [DOMAIN func.code -> SUBSET DOMAIN func.code]
  BY DEF UsesOnly
<1> DEFINE n == Len(func.code)
           B == DOMAIN func.code
           D == [B -> SUBSET V]
           Out(d, b) == UNION {d[s] : s \in func.succ[b]}
<1>2. n \in Nat /\ B = 1..n
  BY <1>1, LenProperties
<1>3. PICK f \in [0..n -> D] :
        /\ f[0] = [b \in B |-> {}]
        /\ \A k \in 0..(n - 1) : f[k + 1] = LiveRound(func, f[k])
        /\ LiveIn(func) = f[n]
  BY LiveRounds
<1>4. ASSUME NEW d \in D, NEW b \in B
      PROVE  /\ Out(d, b) \in SUBSET V
             /\ LiveRound(func, d)[b] = LiveWithin(func.code[b], Out(d, b))[0]
             /\ LiveRound(func, d)[b] \in SUBSET V
  <2>1. func.code[b] \in Seq(S) /\ func.succ[b] \subseteq B
    BY <1>1, ElementOfSeq
  <2>2. Out(d, b) \in SUBSET V
    BY <2>1
  <2>3. LiveRound(func, d)[b] = LiveWithin(func.code[b], Out(d, b))[0]
    BY DEF LiveRound
  <2> HIDE DEF Out
  <2>4. LiveWithin(func.code[b], Out(d, b)) \in [0..Len(func.code[b]) -> SUBSET V]
    BY <1>1, <2>1, <2>2, LiveWithinOver
  <2>5. 0 \in 0..Len(func.code[b])
    BY <2>1, LenProperties
  <2> QED BY <2>2, <2>3, <2>4, <2>5
<1>5. ASSUME NEW d \in D, NEW e \in D, NEW x,
             \A s \in B : x \in d[s] => x \in e[s]
      PROVE  \A b \in B : x \in LiveRound(func, d)[b] => x \in LiveRound(func, e)[b]
  <2> SUFFICES ASSUME NEW b \in B
               PROVE  x \in LiveRound(func, d)[b] => x \in LiveRound(func, e)[b]
    OBVIOUS
  <2>1. func.code[b] \in Seq(S) /\ func.succ[b] \subseteq B
    BY <1>1, ElementOfSeq
  <2>2. x \in Out(d, b) => x \in Out(e, b)
    BY <1>5, <2>1
  <2>3. Out(d, b) \in SUBSET V /\ Out(e, b) \in SUBSET V
    BY <1>4
  <2> HIDE DEF Out
  <2>4. x \in LiveWithin(func.code[b], Out(d, b))[0] => x \in LiveWithin(func.code[b], Out(e, b))[0]
    BY <1>1, <2>1, <2>2, <2>3, LiveWithinMonotone
  <2> QED BY <1>4, <2>4
<1>6. \A d \in D : LiveRound(func, d) \in D
  BY <1>4 DEF LiveRound
<1> HIDE DEF Out, D, B, n
<1>7. \A k \in 0..n : f[k] \in D
  OBVIOUS
<1>8. \A k \in 0..n : \A x : \A b \in B : x \in f[k][b] => x \in LiveRound(func, f[k])[b]
  <2> DEFINE I == {k \in 0..n : \A x : \A b \in B : x \in f[k][b] => x \in LiveRound(func, f[k])[b]}
  <2>1. 0 \in I
    BY <1>2, <1>3
  <2>2. ASSUME NEW k \in 0..(n - 1), k \in I PROVE k + 1 \in I
    <3>1. k \in 0..n /\ k + 1 \in 0..n
      BY <1>2
    <3>2. f[k + 1] = LiveRound(func, f[k])
      BY <1>3
    <3>3. \A x : \A b \in B : x \in f[k][b] => x \in f[k + 1][b]
      BY <2>2, <3>2
    <3>4. f[k] \in D /\ f[k + 1] \in D
      BY <1>7, <3>1
    <3>5. \A x : \A b \in B : x \in LiveRound(func, f[k])[b] => x \in LiveRound(func, f[k + 1])[b]
      BY <1>5, <3>3, <3>4
    <3> QED BY <3>1, <3>2, <3>5
  <2> HIDE DEF I
  <2>3. \A k \in 0..n : k \in I
    BY <1>2, <2>1, <2>2, NumbersUpTo
  <2> QED BY <2>3 DEF I
<1>9. ASSUME NEW x
      PROVE  \A b \in B : x \in LiveRound(func, f[n])[b] => x \in f[n][b]
  <2> DEFINE With(d) == {b \in B : x \in d[b]}
             Blocks == [k \in 0..n |-> With(f[k])]
             next == With(LiveRound(func, f[n]))
  <2>1. IsFiniteSet(B) /\ Cardinality(B) <= n
    <3>1. IsFiniteSet(1..n) /\ Cardinality(1..n) = n
      BY <1>2, FS_Interval
    <3> QED BY <1>2, <3>1
  <2>2. Blocks \in [0..n -> SUBSET B] /\ next \in SUBSET B
    OBVIOUS
  <2>3. \A k \in 0..(n - 1) : Blocks[k] \subseteq Blocks[k + 1]
    <3> SUFFICES ASSUME NEW k \in 0..(n - 1) PROVE Blocks[k] \subseteq Blocks[k + 1]
      OBVIOUS
    <3>1. k \in 0..n /\ k + 1 \in 0..n
      BY <1>2
    <3>2. f[k + 1] = LiveRound(func, f[k])
      BY <1>3
    <3> QED BY <1>8, <3>1, <3>2
  <2>4. n \in 0..n
    BY <1>2
  <2>5. Blocks[n] \subseteq next
    BY <1>8, <2>4
  <2>6. ASSUME NEW k \in 0..(n - 1), Blocks[k + 1] = Blocks[k]
        PROVE  IF k + 1 = n THEN next = Blocks[n] ELSE Blocks[k + 2] = Blocks[k + 1]
    <3>1. k \in 0..n /\ k + 1 \in 0..n
      BY <1>2
    <3>2. f[k + 1] = LiveRound(func, f[k]) /\ f[k] \in D /\ f[k + 1] \in D
      BY <1>3, <1>7, <3>1
    <3>3. \A b \in B : x \in f[k][b] <=> x \in f[k + 1][b]
      BY <2>6, <3>1
    <3>4. \A b \in B : x \in LiveRound(func, f[k])[b] <=> x \in LiveRound(func, f[k + 1])[b]
      BY <1>5, <3>2, <3>3
    <3>5. \A b \in B : x \in f[k + 1][b] <=> x \in LiveRound(func, f[k + 1])[b]
      BY <3>2, <3>4
    <3>6. CASE k + 1 = n
      BY <3>1, <3>5, <3>6
    <3>7. CASE k + 1 # n
      <4>1. k + 1 \in 0..(n - 1) /\ k + 2 \in 0..n /\ (k + 1) + 1 = k + 2
        BY <1>2, <3>7
      <4>2. f[k + 2] = LiveRound(func, f[k + 1])
        BY <1>3, <4>1
      <4> QED BY <3>1, <3>5, <3>7, <4>1, <4>2
    <3> QED BY <3>6, <3>7
  <2> HIDE DEF Blocks, next
  <2>7. next = Blocks[n]
    BY <1>2, <2>1, <2>2, <2>3, <2>5, <2>6, GrowthEnds
  <2> QED BY <2>4, <2>7 DEF Blocks, next
<1>10. n \in 0..n
  BY <1>2
<1>11. f[n] \in D /\ LiveRound(func, f[n]) \in D
  BY <1>6, <1>7, <1>10
<1>12. \A b \in B : LiveRound(func, f[n])[b] = f[n][b]
  BY <1>8, <1>9, <1>10
<1>13. LiveRound(func, f[n]) = f[n]
  BY <1>11, <1>12 DEF D
<1> QED BY <1>3, <1>13

\* What is live after each instruction of each block: it follows from what is live
\* after the next one and, at the end, covers what is live in the blocks that follow.
LEMMA LiveAfterIs ==
  ASSUME NEW func, NEW V, UsesOnly(func, V)
  PROVE  \A b \in DOMAIN func.code :
           LET live == LiveAfter(func)[b]
               n    == Len(func.code[b])
           IN  /\ live \in [0..n -> SUBSET V]
               /\ live[0] = LiveIn(func)[b]
               /\ \A i \in 1..n : live[i - 1] = LiveBefore(func.code[b][i], live[i])
               /\ \A s \in func.succ[b] : s \in DOMAIN func.code /\ LiveAfter(func)[s][0] \subseteq live[n]
<1>1. PICK S : /\ func.code \in Seq(Seq(S))
               /\ \A in \in S : ToSet(in.uses) \subseteq V
               /\ func.succ \in [DOMAIN func.code -> SUBSET DOMAIN func.code]
  BY DEF UsesOnly
<1>2. ASSUME NEW b \in DOMAIN func.code
      PROVE  /\ LiveAfter(func)[b] = LiveWithin(func.code[b], LiveOut(func)[b])
             /\ LiveOut(func)[b] = UNION {LiveIn(func)[s] : s \in func.succ[b]}
             /\ LiveOut(func)[b] \in SUBSET V
             /\ func.code[b] \in Seq(S) /\ func.succ[b] \subseteq DOMAIN func.code
  <2>1. LiveOut(func)[b] = UNION {LiveIn(func)[s] : s \in func.succ[b]}
    BY DEF LiveOut
  <2>2. func.code[b] \in Seq(S) /\ func.succ[b] \subseteq DOMAIN func.code
    BY <1>1, ElementOfSeq
  <2>3. \A s \in func.succ[b] : LiveIn(func)[s] \subseteq V
    BY <2>2, LiveInOver
  <2>4. LiveAfter(func)[b] = LiveWithin(func.code[b], LiveOut(func)[b])
    BY DEF LiveAfter
  <2> QED BY <2>1, <2>2, <2>3, <2>4
<1>3. ASSUME NEW b \in DOMAIN func.code
      PROVE  LiveAfter(func)[b][0] = LiveIn(func)[b]
  <2>1. LiveRound(func, LiveIn(func))[b] = LiveWithin(func.code[b], UNION {LiveIn(func)[s] : s \in func.succ[b]})[0]
    BY DEF LiveRound
  <2>2. LiveRound(func, LiveIn(func))[b] = LiveIn(func)[b]
    BY LivenessSettles
  <2> QED BY <1>2, <2>1, <2>2
<1> SUFFICES ASSUME NEW b \in DOMAIN func.code
             PROVE  LET live == LiveAfter(func)[b]
                        n    == Len(func.code[b])
                    IN  /\ live \in [0..n -> SUBSET V]
                        /\ live[0] = LiveIn(func)[b]
                        /\ \A i \in 1..n : live[i - 1] = LiveBefore(func.code[b][i], live[i])
                        /\ \A s \in func.succ[b] :
                             s \in DOMAIN func.code /\ LiveAfter(func)[s][0] \subseteq live[n]
  OBVIOUS
<1> DEFINE out == LiveOut(func)[b]
           live == LiveWithin(func.code[b], out)
           n == Len(func.code[b])
<1>4. /\ live \in [0..n -> SUBSET V] /\ live[n] = out
      /\ \A i \in 1..n : live[i - 1] = LiveBefore(func.code[b][i], live[i])
  <2> HIDE DEF out
  <2>1. out \in SUBSET V /\ func.code[b] \in Seq(S)
    BY <1>2 DEF out
  <2>2. LiveFrom(live, func.code[b], V, out)
    BY <1>1, <2>1, LiveWithinIs
  <2> HIDE DEF live
  <2> QED BY <2>2 DEF LiveFrom
<1>5. \A s \in func.succ[b] : s \in DOMAIN func.code /\ LiveAfter(func)[s][0] \subseteq out
  BY <1>2, <1>3
<1>6. LiveAfter(func)[b] = live
  BY <1>2
<1> HIDE DEF out, live, n
<1> QED BY <1>3, <1>4, <1>5, <1>6 DEF n

\* What is live anywhere in a function is used in it.
LEMMA LiveAfterOver ==
  ASSUME NEW func, NEW V, UsesOnly(func, V), NEW p \in Points(func)
  PROVE  LiveAfter(func)[p[1]][p[2]] \subseteq V
<1>1. PICK S : /\ func.code \in Seq(Seq(S))
               /\ \A in \in S : ToSet(in.uses) \subseteq V
               /\ func.succ \in [DOMAIN func.code -> SUBSET DOMAIN func.code]
  BY DEF UsesOnly
<1> DEFINE b == p[1]
           out == LiveOut(func)[b]
<1>2. b \in DOMAIN func.code /\ p[2] \in DOMAIN func.code[b]
  BY <1>1, PointsAre
<1>3. func.code[b] \in Seq(S)
  BY <1>1, <1>2, ElementOfSeq
<1>4. out \in SUBSET V
  <2>1. out = UNION {LiveIn(func)[s] : s \in func.succ[b]}
    BY <1>2 DEF LiveOut
  <2>2. func.succ[b] \subseteq DOMAIN func.code
    BY <1>1, <1>2
  <2>3. \A s \in func.succ[b] : LiveIn(func)[s] \subseteq V
    BY <2>2, LiveInOver
  <2> QED BY <2>1, <2>3
<1>5. LiveAfter(func)[b] = LiveWithin(func.code[b], out)
  BY <1>2 DEF LiveAfter
<1> HIDE DEF out, b
<1>6. LiveWithin(func.code[b], out) \in [0..Len(func.code[b]) -> SUBSET V]
  BY <1>1, <1>3, <1>4, LiveWithinOver
<1>7. p[2] \in 0..Len(func.code[b])
  BY <1>2, <1>3, LenProperties
<1> QED BY <1>5, <1>6, <1>7 DEF b

-----------------------------------------------------------------------------
(* Functions that keep every variable they name in a register. *)

\* The instruction names variables of V only, and does not define a variable it
\* uses, unless it is a register.
InstructionOver(in, V) ==
  /\ in = Instr(in.id, in.op, in.def, in.uses, in.mem)
  /\ in.def \in V \cup {None}
  /\ in.uses \in Seq(V)
  /\ in.def \notin Reg => in.def \notin ToSet(in.uses)

\* A piece of code made of such instructions.
PieceOver(s, V) == s \in Seq(ToSet(s)) /\ \A in \in ToSet(s) : InstructionOver(in, V)

\* Every instruction of the function names variables the function keeps in registers.
Closed(func) ==
  /\ func.code \in Seq(Seq(Instructions(func)))
  /\ func.succ \in [DOMAIN func.code -> SUBSET DOMAIN func.code]
  /\ \A in \in Instructions(func) : InstructionOver(in, func.locals)
  /\ func.uid \in Nat
  /\ None \notin func.locals

NamePrefixes == {"spill_", "addr"}

\* The allocator can tell the names it invents apart.
OneToOne ==
  \A x, y \in NamePrefixes : \A m, n \in Nat : Fresh(x, m) = Fresh(y, n) => m = n

\* No name it has yet to invent is taken.
NamesLeft(func) ==
  \A x \in NamePrefixes : \A n \in Nat :
    n >= func.uid => Fresh(x, n) \notin func.locals \cup {None}

\* In a closed function all conflicts are between variables it keeps in registers.
LEMMA ClosedConflicts ==
  ASSUME NEW func, Closed(func), Reg \subseteq func.locals
  PROVE  ~MissingNode(func)
<1> DEFINE V == func.locals
<1>1. \A in \in Instructions(func) :
        /\ in.def \in V \cup {None}
        /\ ToSet(in.uses) \subseteq V
  BY RangeOfSeq DEF Closed, InstructionOver, ToSet
<1>2. UsesOnly(func, V)
  BY <1>1 DEF Closed, UsesOnly
<1> HIDE DEF V
<1>3. ASSUME NEW c \in Conflicts(func) PROVE ToSet(c) \subseteq V
  <2> DEFINE live(p) == LiveAfter(func)[p[1]][p[2]]
  <2>1. PICK p \in Points(func) : \E u, v : c = <<u, v>> /\ Clobbers(At(func, p), live(p), u, v)
    BY DEF Conflicts, At
  <2>2. PICK u, v : c = <<u, v>> /\ Clobbers(At(func, p), live(p), u, v)
    BY <2>1
  <2>3. live(p) \subseteq V
    BY <1>2, LiveAfterOver
  <2> HIDE DEF live
  <2>4. At(func, p).def \in V \cup {None}
    BY <1>1 DEF Instructions
  <2>5. u \in V /\ v \in V
    BY <2>2, <2>3, <2>4, RegisterAssumption DEF Clobbers, V
  <2>6. ToSet(c) = {u, v}
    BY <2>2 DEF ToSet
  <2> QED BY <2>5, <2>6
<1> QED BY <1>3 DEF MissingNode, V

\* A rewriting by pieces of code over the variables that are left keeps a function
\* closed, and its unused names unused.
LEMMA ReplacedClosed ==
  ASSUME NEW func, Closed(func), NamesLeft(func), OneToOne,
         NEW prefix \in NamePrefixes, NEW sites \in SUBSET Points(func), NEW piece, NEW gone,
         NEW params, NEW frame, NEW to, NEW V,
         to = Replaced(func, prefix, sites, piece),
         V = (func.locals \cup to.new) \ gone,
         \A p \in Points(func) : PieceOver(piece[p], V)
  PROVE  LET f == Function(to.code, func.succ, params, V, frame, to.uid)
         IN  Closed(f) /\ NamesLeft(f)
<1> DEFINE f == Function(to.code, func.succ, params, V, frame, to.uid)
           S == UNION {ToSet(piece[p]) : p \in Points(func)}
<1>1. f.code = to.code /\ f.succ = func.succ /\ f.locals = V /\ f.uid = to.uid
  BY DEF Function
<1>2. \A p \in Points(func) : piece[p] \in Seq(S)
  <2>1. ASSUME NEW p \in Points(func) PROVE piece[p] \in Seq(S)
    <3>1. ToSet(piece[p]) \subseteq S /\ piece[p] \in Seq(ToSet(piece[p]))
      BY DEF PieceOver
    <3> HIDE DEF S
    <3> QED BY <3>1, SeqMonotonic
  <2> QED BY <2>1
<1>3. \A in \in S : InstructionOver(in, V)
  BY DEF PieceOver
<1> HIDE DEF f, S
<1>4. to.code \in Seq(Seq(S)) /\ DOMAIN to.code = DOMAIN func.code
  BY <1>2, ReplacedOver DEF Closed
<1>5. Instructions(f) \subseteq S /\ f.code \in Seq(Seq(Instructions(f)))
  BY <1>1, <1>4, InstructionsOver
<1>6. func.uid \in Nat /\ None \notin func.locals /\ func.code \in Seq(Seq(Instructions(func)))
  BY DEF Closed
<1>7. /\ to.uid \in Nat /\ to.uid = func.uid + Cardinality(sites) /\ func.uid <= to.uid
      /\ \A q \in sites : /\ Number(func, sites, q) \in Nat
                          /\ func.uid <= Number(func, sites, q)
                          /\ Number(func, sites, q) < to.uid
  <2>1. to.uid = func.uid + Cardinality(sites)
    BY DEF Replaced
  <2>2. Cardinality(sites) \in Nat
    BY <1>6, PointsAre, FS_Subset, FS_CardinalityType
  <2>3. \A q \in sites : /\ Number(func, sites, q) \in func.uid..(func.uid + Cardinality(sites) - 1)
                         /\ Number(func, sites, q) \in Nat
    BY <1>6, NumberRange
  <2> QED BY <1>6, <2>1, <2>2, <2>3
<1>8. to.new = {Fresh(prefix, Number(func, sites, q)) : q \in sites}
  BY DEF Replaced
<1>9. None \notin to.new
  BY <1>6, <1>7, <1>8 DEF NamesLeft
<1>10. Closed(f)
  BY <1>1, <1>3, <1>4, <1>5, <1>6, <1>7, <1>9 DEF Closed
<1>11. NamesLeft(f)
  <2> SUFFICES ASSUME NEW x \in NamePrefixes, NEW n \in Nat, n >= to.uid
               PROVE  Fresh(x, n) \notin V \cup {None}
    BY <1>1 DEF NamesLeft
  <2>1. n >= func.uid
    BY <1>6, <1>7
  <2>2. Fresh(x, n) \notin func.locals \cup {None}
    BY <2>1 DEF NamesLeft
  <2>3. \A q \in sites : Fresh(x, n) # Fresh(prefix, Number(func, sites, q))
    BY <1>7 DEF OneToOne
  <2> QED BY <1>8, <2>2, <2>3
<1> QED BY <1>10, <1>11 DEF f

\* The names of a rewriting are numbered from uid on, and uid grows past them.
LEMMA NamesNumbered ==
  ASSUME NEW func, Closed(func), NEW prefix, NEW sites \in SUBSET Points(func), NEW piece, NEW to,
         to = Replaced(func, prefix, sites, piece)
  PROVE  /\ to.uid \in Nat /\ func.uid \in Nat /\ func.uid <= to.uid
         /\ \A x \in to.new : \E n \in Nat : func.uid <= n /\ x = Fresh(prefix, n)
<1>1. func.uid \in Nat /\ func.code \in Seq(Seq(Instructions(func)))
  BY DEF Closed
<1>2. Cardinality(sites) \in Nat
  BY <1>1, PointsAre, FS_Subset, FS_CardinalityType
<1>3. ASSUME NEW q \in sites PROVE Number(func, sites, q) \in Nat /\ func.uid <= Number(func, sites, q)
  <2>1. /\ Number(func, sites, q) \in func.uid..(func.uid + Cardinality(sites) - 1)
        /\ Number(func, sites, q) \in Nat
    BY <1>1, NumberRange
  <2> QED BY <1>1, <1>2, <2>1
<1>4. to.uid = func.uid + Cardinality(sites) /\ to.new = {Fresh(prefix, Number(func, sites, q)) : q \in sites}
  BY DEF Replaced
<1> QED BY <1>1, <1>2, <1>3, <1>4

\* A site's new name is one of the function's afterwards and was not before.
LEMMA NewName ==
  ASSUME NEW func, Closed(func), NamesLeft(func),
         NEW prefix \in NamePrefixes, NEW sites \in SUBSET Points(func), NEW piece, NEW q \in sites
  PROVE  LET t == Fresh(prefix, Number(func, sites, q))
         IN  /\ t \in Replaced(func, prefix, sites, piece).new
             /\ t \notin func.locals /\ t # None
<1>1. func.uid \in Nat /\ func.code \in Seq(Seq(Instructions(func)))
  BY DEF Closed
<1>2. Number(func, sites, q) \in Nat /\ Number(func, sites, q) >= func.uid
  <2>1. Number(func, sites, q) \in Nat
        /\ Number(func, sites, q) \in func.uid..(func.uid + Cardinality(sites) - 1)
    BY <1>1, NumberRange
  <2>2. Cardinality(sites) \in Nat
    BY <1>1, PointsAre, FS_Subset, FS_CardinalityType
  <2> QED BY <1>1, <2>1, <2>2
<1> QED BY <1>2 DEF NamesLeft, Replaced
\* Short pieces of code.
LEMMA ShortPieces ==
  ASSUME NEW a, NEW b
  PROVE  /\ <<a>> \in Seq(ToSet(<<a>>)) /\ ToSet(<<a>>) = {a}
         /\ <<a, b>> \in Seq(ToSet(<<a, b>>)) /\ ToSet(<<a, b>>) = {a, b}
<1>1. ToSet(<<a>>) = {a} /\ ToSet(<<a, b>>) = {a, b}
  BY DEF ToSet
<1> QED BY <1>1

\* Pieces of instructions over V.
LEMMA PiecesOver ==
  ASSUME NEW V, NEW a, NEW b, InstructionOver(a, V), InstructionOver(b, V)
  PROVE  PieceOver(<<a>>, V) /\ PieceOver(<<a, b>>, V)
BY ShortPieces DEF PieceOver

\* Changing the variables of an instruction.
LEMMA InstructionFields ==
  ASSUME NEW in, in = Instr(in.id, in.op, in.def, in.uses, in.mem)
  PROVE  /\ \A d : [in EXCEPT !.def = d] = Instr(in.id, in.op, d, in.uses, in.mem)
         /\ \A u : [in EXCEPT !.uses = u] = Instr(in.id, in.op, in.def, u, in.mem)
<1> DEFINE id == in.id
           op == in.op
           def == in.def
           uses == in.uses
           mem == in.mem
<1>1. in = [id |-> id, op |-> op, def |-> def, uses |-> uses, mem |-> mem]
  BY DEF Instr
<1> HIDE DEF id, op, def, uses, mem
<1>2. ASSUME NEW d PROVE [in EXCEPT !.def = d] = Instr(id, op, d, uses, mem)
  BY <1>1 DEF Instr
<1>3. ASSUME NEW u PROVE [in EXCEPT !.uses = u] = Instr(id, op, def, u, mem)
  BY <1>1 DEF Instr
<1> QED BY <1>2, <1>3 DEF id, op, def, uses, mem

\* The fields of an instruction.
LEMMA InstrFields ==
  ASSUME NEW id, NEW op, NEW def, NEW uses, NEW mem, NEW in,
         in = Instr(id, op, def, uses, mem)
  PROVE  /\ in.id = id /\ in.op = op /\ in.def = def /\ in.uses = uses /\ in.mem = mem
         /\ in = Instr(in.id, in.op, in.def, in.uses, in.mem)
BY DEF Instr

\* Spilling a variable keeps a function closed: whatever named the variable names a
\* new one instead.
LEMMA SpillClosed ==
  ASSUME NEW func, Closed(func), NamesLeft(func), OneToOne,
         NEW v \in func.locals, v \notin Reg
  PROVE  Closed(SpillCode(func, v)) /\ NamesLeft(SpillCode(func, v))
<1> DEFINE sites == SpillSites(func, v)
           piece == [p \in Points(func) |-> SpillPiece(func, v, p)]
           to == SpillStores(func, v)
           V == (func.locals \cup to.new) \ {v}
<1>1. to = Replaced(func, "spill_", sites, piece) /\ sites \in SUBSET Points(func)
  BY DEF SpillStores, SpillSites
<1>2. "spill_" \in NamePrefixes
  BY DEF NamePrefixes
<1>3. ASSUME NEW p \in Points(func)
      PROVE  PieceOver(SpillPiece(func, v, p), V)
  <2> DEFINE in == At(func, p)
             t == Fresh("spill_", Number(func, sites, p))
             L == func.locals
  <2>1. /\ in = Instr(in.id, in.op, in.def, in.uses, in.mem)
        /\ in.def \in L \cup {None} /\ in.uses \in Seq(L)
        /\ in.def \notin Reg => in.def \notin ToSet(in.uses)
    BY DEF Closed, InstructionOver, Instructions
  <2>2. v # None /\ None \notin L
    BY DEF Closed
  <2>3. ToSet(in.uses) \subseteq L
    BY <2>1, RangeOfSeq DEF ToSet
  <2>4. ASSUME p \in sites PROVE t \in V /\ t \notin L /\ t # None /\ t # v
    <3>1. t \in to.new /\ t \notin func.locals /\ t # None
      BY <1>1, <1>2, <2>4, NewName
    <3> QED BY <3>1
  <2>5. L \ {v} \subseteq V
    OBVIOUS
  <2>6. p \in sites <=> in.def = v \/ v \in ToSet(in.uses)
    BY DEF SpillSites
  <2>7. SpillPiece(func, v, p) =
          IF in.def = v THEN <<[in EXCEPT !.def = t], Store(v, t)>>
          ELSE IF v \in ToSet(in.uses)
               THEN <<Load(t, v), [in EXCEPT !.uses = ReplaceAll(in.uses, v, t)]>>
               ELSE <<in>>
    <3> DEFINE A == <<[in EXCEPT !.def = t], Store(v, t)>>
               B == <<Load(t, v), [in EXCEPT !.uses = ReplaceAll(@, v, t)]>>
    <3>1. B = <<Load(t, v), [in EXCEPT !.uses = ReplaceAll(in.uses, v, t)]>>
      OBVIOUS
    <3>2. SpillPiece(func, v, p) =
            CASE in.def = v -> A
              [] in.def # v /\ v \in ToSet(in.uses) -> B
              [] OTHER -> <<in>>
      BY DEF SpillPiece
    <3> HIDE DEF A, B, in, t
    <3> QED BY <3>1, <3>2 DEF A
  <2> HIDE DEF in, t, L, V, sites
  <2>8. CASE in.def = v
    <3> DEFINE a == [in EXCEPT !.def = t]
               b == Store(v, t)
    <3>1. p \in sites /\ v \notin ToSet(in.uses)
      BY <2>1, <2>6, <2>8
    <3>2. t \in V /\ t \notin L /\ t # None
      BY <2>4, <3>1
    <3>3. a = Instr(in.id, in.op, t, in.uses, in.mem)
      BY <2>1, InstructionFields
    <3>4. in.uses \in Seq(V)
      <4>1. in.uses \in Seq(ToSet(in.uses))
        BY <2>1, SeqOfRange DEF ToSet
      <4>2. ToSet(in.uses) \subseteq V
        BY <2>3, <2>5, <3>1
      <4> QED BY <4>1, <4>2, SeqMonotonic
    <3> HIDE DEF a
    <3>5. InstructionOver(a, V)
      <4>1. /\ a.def = t /\ a.uses = in.uses
            /\ a = Instr(a.id, a.op, a.def, a.uses, a.mem)
        BY <3>3, InstrFields
      <4>2. t \notin ToSet(in.uses)
        BY <2>3, <3>2
      <4> QED BY <3>2, <3>4, <4>1, <4>2 DEF InstructionOver
    <3>6. InstructionOver(b, V)
      <4>1. /\ b.def = None /\ b.uses = <<t>>
            /\ b = Instr(b.id, b.op, b.def, b.uses, b.mem)
        BY DEF Store, Instr
      <4>2. ToSet(<<t>>) = {t} /\ <<t>> \in Seq(V)
        <5>1. ToSet(<<t>>) = {t}
          BY ShortPieces
        <5>2. <<t>> \in Seq(V)
          BY <3>2
        <5> QED BY <5>1, <5>2
      <4> HIDE DEF b
      <4> QED BY <3>2, <4>1, <4>2 DEF InstructionOver
    <3> HIDE DEF b
    <3>7. SpillPiece(func, v, p) = <<a, b>>
      BY <2>7, <2>8 DEF a, b
    <3>8. PieceOver(<<a, b>>, V)
      BY <3>5, <3>6, PiecesOver
    <3> QED BY <3>7, <3>8
  <2>9. CASE in.def # v /\ v \in ToSet(in.uses)
    <3> DEFINE new == ReplaceAll(in.uses, v, t)
               a == Load(t, v)
               b == [in EXCEPT !.uses = new]
    <3>1. p \in sites
      BY <2>6, <2>9
    <3>2. t \in V /\ t \notin L /\ t # None
      BY <2>4, <3>1
    <3>3. /\ new \in Seq(V)
          /\ ToSet(new) \subseteq ToSet(in.uses) \cup {t}
      <4>1. Len(in.uses) \in Nat /\ DOMAIN in.uses = 1..Len(in.uses)
        BY <2>1
      <4>2. \A i \in 1..Len(in.uses) : in.uses[i] \in L
        BY <2>1
      <4>3. new = [i \in 1..Len(in.uses) |-> IF in.uses[i] = v THEN t ELSE in.uses[i]]
        BY DEF ReplaceAll
      <4> HIDE DEF new
      <4>4. new \in [1..Len(in.uses) -> V]
        BY <2>5, <3>2, <4>2, <4>3
      <4>5. ToSet(new) \subseteq ToSet(in.uses) \cup {t}
        BY <4>1, <4>3 DEF ToSet
      <4> QED BY <4>1, <4>4, <4>5, SeqIs
    <3> HIDE DEF new
    <3>4. b = Instr(in.id, in.op, in.def, new, in.mem)
      BY <2>1, InstructionFields
    <3> HIDE DEF b
    <3>5. InstructionOver(b, V)
      <4>1. /\ b.def = in.def /\ b.uses = new
            /\ b = Instr(b.id, b.op, b.def, b.uses, b.mem)
        BY <3>4, InstrFields
      <4>2. in.def \in V \cup {None}
        BY <2>1, <2>5, <2>9
      <4>3. in.def \notin Reg => in.def \notin ToSet(new)
        BY <2>1, <3>2, <3>3
      <4> QED BY <3>3, <4>1, <4>2, <4>3 DEF InstructionOver
    <3>6. InstructionOver(a, V)
      <4>1. /\ a.def = t /\ a.uses = <<>>
            /\ a = Instr(a.id, a.op, a.def, a.uses, a.mem)
        BY DEF Load, Instr
      <4>2. ToSet(<<>>) = {}
        BY DEF ToSet
      <4> HIDE DEF a
      <4> QED BY <3>2, <4>1, <4>2 DEF InstructionOver
    <3> HIDE DEF a
    <3>7. SpillPiece(func, v, p) = <<a, b>>
      BY <2>7, <2>9 DEF a, b, new
    <3>8. PieceOver(<<a, b>>, V)
      BY <3>5, <3>6, PiecesOver
    <3> QED BY <3>7, <3>8
  <2>10. CASE in.def # v /\ v \notin ToSet(in.uses)
    <3>1. in.uses \in Seq(V)
      <4>1. in.uses \in Seq(ToSet(in.uses))
        BY <2>1, SeqOfRange DEF ToSet
      <4>2. ToSet(in.uses) \subseteq V
        BY <2>3, <2>5, <2>10
      <4> QED BY <4>1, <4>2, SeqMonotonic
    <3>2. in.def \in V \cup {None}
      BY <2>1, <2>5, <2>10
    <3>3. InstructionOver(in, V)
      BY <2>1, <3>1, <3>2 DEF InstructionOver
    <3>4. SpillPiece(func, v, p) = <<in>>
      BY <2>7, <2>10
    <3>5. PieceOver(<<in>>, V)
      BY <3>3, PiecesOver
    <3> QED BY <3>4, <3>5
  <2> QED BY <2>8, <2>9, <2>10
<1>4. \A p \in Points(func) : piece[p] = SpillPiece(func, v, p)
  OBVIOUS
<1>5. SpillCode(func, v) = Function(to.code, func.succ, func.params, V, Append(func.frame, v), to.uid)
  BY DEF SpillCode
<1> HIDE DEF sites, piece, to
<1>6. V = (func.locals \cup to.new) \ {v}
  OBVIOUS
<1> HIDE DEF V
<1>7. \A p \in Points(func) : PieceOver(piece[p], V)
  BY <1>3, <1>4
<1>8. LET f == Function(to.code, func.succ, func.params, V, Append(func.frame, v), to.uid)
      IN  Closed(f) /\ NamesLeft(f)
  BY <1>1, <1>2, <1>6, <1>7, ReplacedClosed
<1> QED BY <1>5, <1>8
\* So does computing the far addresses apart.
LEMMA RewriteLargeOffsetClosed ==
  ASSUME NEW func, Closed(func), NamesLeft(func), OneToOne
  PROVE  Closed(RewriteLargeOffset(func)) /\ NamesLeft(RewriteLargeOffset(func))
<1> DEFINE sites == FarSites(func)
           piece == [p \in Points(func) |-> AddressPiece(func, p)]
           to == Addressed(func)
           V == func.locals \cup to.new
<1>1. to = Replaced(func, "addr", sites, piece) /\ sites \in SUBSET Points(func)
  BY DEF Addressed, FarSites
<1>2. "addr" \in NamePrefixes
  BY DEF NamePrefixes
<1>3. ASSUME NEW p \in Points(func)
      PROVE  PieceOver(AddressPiece(func, p), V)
  <2> DEFINE in == At(func, p)
             t == Fresh("addr", Number(func, sites, p))
             L == func.locals
             a == LoadAddress(t, in.mem)
             b == Instr(in.id, in.op, in.def, <<t>> \o in.uses, None)
  <2>1. /\ in = Instr(in.id, in.op, in.def, in.uses, in.mem)
        /\ in.def \in L \cup {None} /\ in.uses \in Seq(L)
        /\ in.def \notin Reg => in.def \notin ToSet(in.uses)
    BY DEF Closed, InstructionOver, Instructions
  <2>2. ASSUME p \in sites PROVE t \in V /\ t \notin L /\ t # None
    <3>1. t \in to.new /\ t \notin func.locals /\ t # None
      BY <1>1, <1>2, <2>2, NewName
    <3> QED BY <3>1
  <2>3. AddressPiece(func, p) = IF p \in sites THEN <<a, b>> ELSE <<in>>
    BY DEF AddressPiece
  <2>4. L \subseteq V
    OBVIOUS
  <2>5. in.uses \in Seq(V)
    BY <2>1, <2>4, SeqMonotonic
  <2>6. InstructionOver(in, V)
    BY <2>1, <2>4, <2>5 DEF InstructionOver
  <2> HIDE DEF in, t, L, V, sites
  <2>7. CASE p \in sites
    <3>1. t \in V /\ t \notin L /\ t # None
      BY <2>2, <2>7
    <3>2. InstructionOver(a, V)
      <4>1. /\ a.def = t /\ a.uses = <<>>
            /\ a = Instr(a.id, a.op, a.def, a.uses, a.mem)
        BY DEF LoadAddress, Instr
      <4>2. ToSet(<<>>) = {}
        BY DEF ToSet
      <4> HIDE DEF a
      <4> QED BY <3>1, <4>1, <4>2 DEF InstructionOver
    <3>3. InstructionOver(b, V)
      <4> DEFINE uses == <<t>> \o in.uses
      <4>1. <<t>> \in Seq(V)
        BY <3>1
      <4>2. uses \in Seq(V)
        BY <2>5, <4>1, ConcatProperties
      <4>3. ToSet(uses) = {t} \cup ToSet(in.uses)
        <5>1. ToSet(uses) = ToSet(<<t>>) \cup ToSet(in.uses)
          BY <2>5, <4>1, ElementsOfBoth
        <5>2. ToSet(<<t>>) = {t}
          BY ShortPieces
        <5> QED BY <5>1, <5>2
      <4> HIDE DEF uses
      <4>4. b = Instr(in.id, in.op, in.def, uses, None)
        BY DEF uses
      <4> HIDE DEF b
      <4>5. /\ b.def = in.def /\ b.uses = uses
            /\ b = Instr(b.id, b.op, b.def, b.uses, b.mem)
        BY <4>4, InstrFields
      <4> QED BY <2>1, <2>4, <3>1, <4>2, <4>3, <4>5 DEF InstructionOver
    <3> HIDE DEF a, b
    <3>4. PieceOver(<<a, b>>, V)
      BY <3>2, <3>3, PiecesOver
    <3>5. AddressPiece(func, p) = <<a, b>>
      BY <2>3, <2>7
    <3> QED BY <3>4, <3>5
  <2>8. CASE p \notin sites
    <3>1. AddressPiece(func, p) = <<in>>
      BY <2>3, <2>8
    <3>2. PieceOver(<<in>>, V)
      BY <2>6, PiecesOver
    <3> QED BY <3>1, <3>2
  <2> QED BY <2>7, <2>8
<1>4. \A p \in Points(func) : piece[p] = AddressPiece(func, p)
  OBVIOUS
<1>5. RewriteLargeOffset(func) = Function(to.code, func.succ, func.params, V, func.frame, to.uid)
  BY DEF RewriteLargeOffset
<1> HIDE DEF sites, piece, to
<1>6. V = (func.locals \cup to.new) \ {}
  OBVIOUS
<1> HIDE DEF V
<1>7. \A p \in Points(func) : PieceOver(piece[p], V)
  BY <1>3, <1>4
<1>8. LET f == Function(to.code, func.succ, func.params, V, func.frame, to.uid)
      IN  Closed(f) /\ NamesLeft(f)
  BY <1>1, <1>2, <1>6, <1>7, ReplacedClosed
<1> QED BY <1>5, <1>8
-----------------------------------------------------------------------------
(* create_registers makes a closed function of a well-formed one. *)

\* Pieces join to a piece.
LEMMA PieceConcat ==
  ASSUME NEW V, NEW s, NEW t, PieceOver(s, V), PieceOver(t, V)
  PROVE  PieceOver(s \o t, V)
<1> DEFINE S == ToSet(s) \cup ToSet(t)
<1>1. s \in Seq(S) /\ t \in Seq(S)
  <2>1. s \in Seq(ToSet(s)) /\ t \in Seq(ToSet(t)) /\ ToSet(s) \subseteq S /\ ToSet(t) \subseteq S
    BY DEF PieceOver
  <2> HIDE DEF S
  <2> QED BY <2>1, SeqMonotonic
<1>2. ToSet(s \o t) = S
  BY <1>1, ElementsOfBoth
<1> HIDE DEF S
<1>3. s \o t \in Seq(S)
  BY <1>1, ConcatProperties
<1>4. \A in \in S : InstructionOver(in, V)
  BY DEF S, PieceOver
<1> QED BY <1>2, <1>3, <1>4 DEF PieceOver

\* So does a table of instructions.
LEMMA PieceTable ==
  ASSUME NEW V, NEW n \in Nat, NEW s, DOMAIN s = 1..n, s = [i \in 1..n |-> s[i]],
         \A i \in 1..n : InstructionOver(s[i], V)
  PROVE  PieceOver(s, V)
<1> DEFINE S == ToSet(s)
<1>1. \A i \in 1..n : s[i] \in S
  BY DEF ToSet
<1>2. \A in \in S : InstructionOver(in, V)
  BY DEF ToSet
<1> HIDE DEF S
<1>3. s \in [1..n -> S]
  BY <1>1
<1>4. s \in Seq(S)
  BY <1>3, SeqIs
<1> QED BY <1>2, <1>4 DEF PieceOver, S

\* The instructions the allocator inserts.
LEMMA InsertedOver ==
  ASSUME NEW V, None \notin V, NEW to \in V, NEW from \in V, NEW slot
  PROVE  /\ to \in Reg \/ to # from => InstructionOver(Move(to, from), V)
         /\ InstructionOver(Load(to, slot), V)
         /\ InstructionOver(Store(slot, from), V)
<1>1. ToSet(<<from>>) = {from} /\ ToSet(<<>>) = {}
  BY DEF ToSet
<1>2. <<from>> \in Seq(V) /\ <<>> \in Seq(V)
  OBVIOUS
<1>3. ASSUME to \in Reg \/ to # from PROVE InstructionOver(Move(to, from), V)
  <2> DEFINE in == Move(to, from)
  <2>1. /\ in.def = to /\ in.uses = <<from>>
        /\ in = Instr(in.id, in.op, in.def, in.uses, in.mem)
    BY DEF Move, Instr
  <2> HIDE DEF in
  <2>2. InstructionOver(in, V)
    BY <1>1, <1>2, <1>3, <2>1 DEF InstructionOver
  <2> QED BY <2>2 DEF in
<1>4. InstructionOver(Load(to, slot), V)
  <2> DEFINE in == Load(to, slot)
  <2>1. /\ in.def = to /\ in.uses = <<>>
        /\ in = Instr(in.id, in.op, in.def, in.uses, in.mem)
    BY DEF Load, Instr
  <2> HIDE DEF in
  <2>2. InstructionOver(in, V)
    BY <1>1, <1>2, <2>1 DEF InstructionOver
  <2> QED BY <2>2 DEF in
<1>5. InstructionOver(Store(slot, from), V)
  <2> DEFINE in == Store(slot, from)
  <2>1. /\ in.def = None /\ in.uses = <<from>>
        /\ in = Instr(in.id, in.op, in.def, in.uses, in.mem)
    BY DEF Store, Instr
  <2> HIDE DEF in
  <2>2. InstructionOver(in, V)
    BY <1>1, <1>2, <2>1 DEF InstructionOver
  <2> QED BY <2>2 DEF in
<1> QED BY <1>3, <1>4, <1>5

\* The argument registers and the callee-saved ones are registers.
LEMMA RegistersAre ==
  /\ Len(ArgRegs) \in Nat /\ 1 \in 1..Len(ArgRegs)
  /\ \A j \in 1..Len(ArgRegs) : ArgRegs[j] \in Reg
  /\ Len(CalleeSaved) \in Nat /\ DOMAIN CalleeSaved = 1..Len(CalleeSaved)
  /\ \A k \in 1..Len(CalleeSaved) : CalleeSaved[k] \in Reg /\ CalleeSaved[k] \in ToSet(CalleeSaved)
<1>1. ArgRegs \in Seq(Reg) /\ ArgRegs # <<>> /\ CalleeSaved \in Seq(Reg)
  BY RegisterAssumption
<1> HIDE DEF Reg
<1> QED BY <1>1 DEF ToSet

\* A call passes its arguments and fetches its result through registers.
LEMMA RewriteCallOver ==
  ASSUME NEW V, Reg \subseteq V, None \notin V, NEW in,
         in = Instr(in.id, in.op, in.def, in.uses, in.mem),
         in.def \in V \cup {None}, in.uses \in Seq(V)
  PROVE  PieceOver(RewriteCall(in), V)
<1> DEFINE a0 == ArgRegs[1]
           n == Len(in.uses)
           Pass(j) == IF j <= Len(ArgRegs)
                      THEN Move(ArgRegs[j], in.uses[j])
                      ELSE Store(Fresh(Fresh("param", in.id) \o "_", j), in.uses[j])
           inRegs == IF n < Len(ArgRegs) THEN n ELSE Len(ArgRegs)
           uses == SubSeq(ArgRegs, 1, inRegs)
           def == IF in.def = None THEN None ELSE a0
           call == Instr(in.id, in.op, def, uses, in.mem)
           passes == [j \in DOMAIN in.uses |-> Pass(j)]
           result == IF in.def = None THEN <<>> ELSE <<Move(in.def, a0)>>
<1>1. a0 \in Reg /\ a0 \in V /\ n \in Nat /\ DOMAIN in.uses = 1..n
  BY RegistersAre
<1>2. PieceOver(passes, V)
  <2>1. ASSUME NEW j \in 1..n PROVE InstructionOver(Pass(j), V)
    <3>1. in.uses[j] \in V
      OBVIOUS
    <3>2. CASE j <= Len(ArgRegs)
      <4>1. j \in 1..Len(ArgRegs)
        BY <3>2, RegistersAre
      <4>2. ArgRegs[j] \in Reg /\ ArgRegs[j] \in V
        BY <4>1, RegistersAre
      <4>3. InstructionOver(Move(ArgRegs[j], in.uses[j]), V)
        BY <3>1, <4>2, InsertedOver
      <4> QED BY <3>2, <4>3
    <3>3. CASE ~(j <= Len(ArgRegs))
      <4> DEFINE slot == Fresh(Fresh("param", in.id) \o "_", j)
      <4> HIDE DEF slot
      <4>1. InstructionOver(Store(slot, in.uses[j]), V)
        BY <1>1, <3>1, InsertedOver
      <4> QED BY <3>3, <4>1 DEF slot
    <3> QED BY <3>2, <3>3
  <2> HIDE DEF Pass
  <2>2. DOMAIN passes = 1..n /\ passes = [i \in 1..n |-> passes[i]]
    BY <1>1
  <2>3. \A i \in 1..n : InstructionOver(passes[i], V)
    BY <1>1, <2>1
  <2> HIDE DEF passes, n
  <2> QED BY <1>1, <2>2, <2>3, PieceTable
<1>3. PieceOver(<<call>>, V)
  <2>1. uses \in Seq(V)
    <3>1. ArgRegs \in Seq(V)
      BY RegisterAssumption, SeqMonotonic
    <3>2. \A i \in 1..inRegs : ArgRegs[i] \in V
      BY <1>1, RegistersAre
    <3> QED BY <1>1, <3>1, <3>2, RegistersAre
  <2>2. call.def = def /\ call.uses = uses /\ call = Instr(call.id, call.op, call.def, call.uses, call.mem)
    <3> HIDE DEF def, uses
    <3> QED BY DEF Instr
  <2>3. ToSet(uses) \subseteq V
    BY <2>1, RangeOfSeq DEF ToSet
  <2>4. def \in V \cup {None} /\ (def \notin Reg => def = None)
    BY <1>1
  <2> HIDE DEF call, uses, def
  <2>5. InstructionOver(call, V)
    BY <2>1, <2>2, <2>3, <2>4 DEF InstructionOver
  <2> QED BY <2>5, PiecesOver
<1>4. PieceOver(result, V)
  <2>1. CASE in.def = None
    <3>1. PieceOver(<<>>, V)
      BY DEF PieceOver, ToSet
    <3> QED BY <2>1, <3>1
  <2>2. CASE in.def # None
    <3>1. InstructionOver(Move(in.def, a0), V)
      <4>1. in.def \in V /\ (in.def \in Reg \/ in.def # a0)
        BY <1>1, <2>2
      <4> QED BY <1>1, <4>1, InsertedOver
    <3>2. PieceOver(<<Move(in.def, a0)>>, V)
      BY <3>1, PiecesOver
    <3> QED BY <2>2, <3>2
  <2> QED BY <2>1, <2>2
<1>5. RewriteCall(in) = (passes \o <<call>>) \o result
  BY DEF RewriteCall
<1> HIDE DEF passes, call, result
<1> QED BY <1>2, <1>3, <1>4, <1>5, PieceConcat
\* A return puts its value and the callee-saved registers back.
LEMMA RewriteReturnOver ==
  ASSUME NEW V, Reg \subseteq V, None \notin V, NEW in,
         {MemOf(r) : r \in ToSet(CalleeSaved)} \subseteq V,
         in = Instr(in.id, in.op, in.def, in.uses, in.mem),
         in.def \in V \cup {None}, in.uses \in Seq(V), in.def \notin ToSet(in.uses)
  PROVE  PieceOver(RewriteReturn(in), V)
<1> DEFINE a0 == ArgRegs[1]
           n == Len(CalleeSaved)
           value == IF in.uses = <<>> THEN <<>> ELSE <<Move(a0, in.uses[1])>>
           saved == [k \in DOMAIN CalleeSaved |-> Move(CalleeSaved[k], MemOf(CalleeSaved[k]))]
           ret == [in EXCEPT !.uses = IF @ = <<>> THEN <<>> ELSE <<a0>>]
<1>1. a0 \in Reg /\ a0 \in V /\ n \in Nat /\ DOMAIN CalleeSaved = 1..n
  BY RegistersAre
<1>2. PieceOver(value, V)
  <2>1. CASE in.uses = <<>>
    <3>1. PieceOver(<<>>, V)
      BY DEF PieceOver, ToSet
    <3> QED BY <2>1, <3>1
  <2>2. CASE in.uses # <<>>
    <3>1. in.uses[1] \in V
      BY <2>2
    <3>2. InstructionOver(Move(a0, in.uses[1]), V)
      BY <1>1, <3>1, InsertedOver
    <3>3. PieceOver(<<Move(a0, in.uses[1])>>, V)
      BY <3>2, PiecesOver
    <3> QED BY <2>2, <3>3
  <2> QED BY <2>1, <2>2
<1>3. PieceOver(saved, V)
  <2>1. ASSUME NEW k \in 1..n PROVE InstructionOver(saved[k], V)
    <3> DEFINE r == CalleeSaved[k]
    <3>1. r \in Reg /\ r \in V /\ MemOf(r) \in V
      BY RegistersAre
    <3>2. saved[k] = Move(r, MemOf(r))
      BY <1>1
    <3> HIDE DEF r, saved
    <3>3. InstructionOver(Move(r, MemOf(r)), V)
      BY <3>1, InsertedOver
    <3> QED BY <3>2, <3>3
  <2>2. DOMAIN saved = 1..n /\ saved = [i \in 1..n |-> saved[i]]
    BY <1>1
  <2> HIDE DEF saved, n
  <2> QED BY <1>1, <2>1, <2>2, PieceTable
<1>4. PieceOver(<<ret>>, V)
  <2> DEFINE uses == IF in.uses = <<>> THEN <<>> ELSE <<a0>>
  <2>1. uses \in Seq(V)
    BY <1>1
  <2>2. ret = Instr(in.id, in.op, in.def, uses, in.mem)
    BY InstructionFields
  <2>3. ToSet(uses) \subseteq Reg
    <3>1. ToSet(<<>>) = {} /\ ToSet(<<a0>>) = {a0}
      BY ShortPieces DEF ToSet
    <3> QED BY <1>1, <3>1
  <2> HIDE DEF ret, uses
  <2>4. ret.def = in.def /\ ret.uses = uses
        /\ ret = Instr(ret.id, ret.op, ret.def, ret.uses, ret.mem)
    BY <2>2, InstrFields
  <2>5. InstructionOver(ret, V)
    BY <2>1, <2>3, <2>4 DEF InstructionOver
  <2> QED BY <2>5, PiecesOver
<1>5. RewriteReturn(in) = (value \o saved) \o <<ret>>
  BY DEF RewriteReturn
<1> HIDE DEF value, saved, ret
<1> QED BY <1>2, <1>3, <1>4, <1>5, PieceConcat

\* The entry block copies the callee-saved registers and fetches the parameters.
LEMMA EntryBlockOver ==
  ASSUME NEW V, Reg \subseteq V, None \notin V, NEW func,
         {MemOf(r) : r \in ToSet(CalleeSaved)} \subseteq V,
         func.params \in Seq(ToSet(func.params)), ToSet(func.params) \subseteq V
  PROVE  PieceOver(EntryBlock(func), V)
<1> DEFINE n == Len(CalleeSaved)
           m == Len(func.params)
           copies == [k \in DOMAIN CalleeSaved |->
                        LET r == CalleeSaved[Len(CalleeSaved) + 1 - k] IN Move(MemOf(r), r)]
           moves == [j \in DOMAIN func.params |-> ParameterMove(func, j)]
<1>1. n \in Nat /\ DOMAIN CalleeSaved = 1..n /\ m \in Nat /\ DOMAIN func.params = 1..m
  BY RegistersAre, LenProperties
<1>2. PieceOver(copies, V)
  <2>1. ASSUME NEW k \in 1..n PROVE InstructionOver(copies[k], V)
    <3> DEFINE r == CalleeSaved[n + 1 - k]
    <3>1. n + 1 - k \in 1..n
      BY <1>1
    <3>2. r \in Reg /\ r \in V /\ MemOf(r) \in V
      BY <3>1, RegistersAre
    <3>3. copies[k] = Move(MemOf(r), r)
      BY <1>1
    <3>4. MemOf(r) \in Reg \/ MemOf(r) # r
      BY <3>2
    <3> HIDE DEF r, copies
    <3>5. InstructionOver(Move(MemOf(r), r), V)
      BY <3>2, <3>4, InsertedOver
    <3> QED BY <3>3, <3>5
  <2>2. DOMAIN copies = 1..n /\ copies = [i \in 1..n |-> copies[i]]
    BY <1>1
  <2> HIDE DEF copies, n
  <2> QED BY <1>1, <2>1, <2>2, PieceTable
<1>3. PieceOver(moves, V)
  <2>1. ASSUME NEW j \in 1..m PROVE InstructionOver(moves[j], V)
    <3> DEFINE p == func.params[j]
    <3>1. p \in V
      BY <1>1, ElementOfSeq
    <3>2. moves[j] = ParameterMove(func, j)
      BY <1>1
    <3>3. CASE j <= Len(ArgRegs)
      <4>1. ArgRegs[j] \in Reg /\ ArgRegs[j] \in V
        BY <1>1, <3>3, RegistersAre
      <4>2. InstructionOver(Move(p, ArgRegs[j]), V)
        BY <3>1, <4>1, InsertedOver
      <4>3. ParameterMove(func, j) = Move(p, ArgRegs[j])
        BY <3>3 DEF ParameterMove
      <4> QED BY <3>2, <4>2, <4>3
    <3>4. CASE ~(j <= Len(ArgRegs))
      <4>1. InstructionOver(Load(p, MemOf(p)), V)
        BY <3>1, InsertedOver
      <4>2. ParameterMove(func, j) = Load(p, MemOf(p))
        BY <3>4 DEF ParameterMove
      <4> QED BY <3>2, <4>1, <4>2
    <3> QED BY <3>3, <3>4
  <2>2. DOMAIN moves = 1..m /\ moves = [i \in 1..m |-> moves[i]]
    BY <1>1
  <2> HIDE DEF moves, m
  <2> QED BY <1>1, <2>1, <2>2, PieceTable
<1>4. EntryBlock(func) = copies \o moves
  BY DEF EntryBlock
<1> HIDE DEF copies, moves
<1> QED BY <1>2, <1>3, <1>4, PieceConcat

\* So does what takes the place of any instruction.
LEMMA RewriteInstructionOver ==
  ASSUME NEW V, Reg \subseteq V, None \notin V, NEW in,
         {MemOf(r) : r \in ToSet(CalleeSaved)} \subseteq V,
         in = Instr(in.id, in.op, in.def, in.uses, in.mem),
         in.def \in V \cup {None}, in.uses \in Seq(V), in.def \notin ToSet(in.uses)
  PROVE  PieceOver(RewriteInstruction(in), V)
<1>1. CASE in.op = "call"
  <2>1. RewriteInstruction(in) = RewriteCall(in)
    BY <1>1 DEF RewriteInstruction
  <2> QED BY <2>1, RewriteCallOver
<1>2. CASE in.op = "ret"
  <2>1. RewriteInstruction(in) = RewriteReturn(in)
    BY <1>2 DEF RewriteInstruction
  <2> QED BY <2>1, RewriteReturnOver
<1>3. CASE in.op \notin {"call", "ret"}
  <2>1. RewriteInstruction(in) = <<in>>
    BY <1>3 DEF RewriteInstruction
  <2>2. InstructionOver(in, V)
    BY DEF InstructionOver
  <2> QED BY <2>1, <2>2, PiecesOver
<1> QED BY <1>1, <1>2, <1>3

\* A function ready for the allocator is closed.
LEMMA CreateRegistersClosed ==
  ASSUME NEW func, WellFormed(func)
  PROVE  Closed(CreateRegisters(func))
<1> DEFINE mems == {MemOf(r) : r \in ToSet(CalleeSaved)}
           V == func.locals \cup ToSet(func.params) \cup Reg \cup mems
           I == Instructions(func)
           n == Len(func.code)
           Block(b) == FlattenSeq([i \in DOMAIN func.code[b] |-> RewriteInstruction(func.code[b][i])])
           body == [b \in DOMAIN func.code |-> Block(b)]
           entry == EntryBlock(func)
           tail == [b \in DOMAIN func.succ |-> {s + 1 : s \in func.succ[b]}]
           f == CreateRegisters(func)
<1>1. /\ func.code \in Seq(Seq(I)) /\ n \in Nat /\ n >= 1 /\ DOMAIN func.code = 1..n
      /\ func.succ \in [1..n -> SUBSET (1..n)]
      /\ func.params \in Seq(ToSet(func.params))
  <2>1. func.code \in Seq(Seq(I)) /\ func.code # <<>>
    BY DEF WellFormed
  <2>2. n \in Nat /\ n # 0 /\ DOMAIN func.code = 1..n
    <3> HIDE DEF I
    <3> QED BY <2>1, EmptySeq, LenProperties
  <2>3. /\ func.succ \in [DOMAIN func.code -> SUBSET DOMAIN func.code]
        /\ func.params \in Seq(ToSet(func.params))
    BY DEF WellFormed
  <2> HIDE DEF n, I
  <2> QED BY <2>1, <2>2, <2>3
<1>2. \A in \in I : /\ in = Instr(in.id, in.op, in.def, in.uses, in.mem)
                    /\ in.def \in V \cup {None}
                    /\ in.uses \in Seq(V)
                    /\ in.def \notin ToSet(in.uses)
  <2>1. func.locals \cup ToSet(func.params) \subseteq V
    OBVIOUS
  <2> HIDE DEF V
  <2> QED BY <2>1, SeqMonotonic DEF WellFormed
<1>3. None \notin V /\ Reg \subseteq V /\ mems \subseteq V /\ ToSet(func.params) \subseteq V
  BY RegisterAssumption DEF WellFormed
<1>4. /\ f.code = <<entry>> \o body /\ f.succ = <<{2}>> \o tail
      /\ f.locals = V /\ f.uid = 0
  BY DEF CreateRegisters, Function
<1> HIDE DEF V, I, f
<1>5. \A in \in I : PieceOver(RewriteInstruction(in), V)
  <2> SUFFICES ASSUME NEW in \in I PROVE PieceOver(RewriteInstruction(in), V)
    OBVIOUS
  <2>1. /\ in = Instr(in.id, in.op, in.def, in.uses, in.mem)
        /\ in.def \in V \cup {None}
        /\ in.uses \in Seq(V)
        /\ in.def \notin ToSet(in.uses)
    BY <1>2
  <2> QED BY <1>3, <2>1, RewriteInstructionOver
<1>6. PieceOver(entry, V)
  BY <1>1, <1>3, EntryBlockOver
<1> DEFINE S == ToSet(entry) \cup UNION {ToSet(RewriteInstruction(in)) : in \in I}
<1>7. \A in \in S : InstructionOver(in, V)
  BY <1>5, <1>6 DEF PieceOver
<1>8. entry \in Seq(S) /\ \A in \in I : RewriteInstruction(in) \in Seq(S)
  <2>1. /\ entry \in Seq(ToSet(entry)) /\ ToSet(entry) \subseteq S
        /\ \A in \in I : /\ RewriteInstruction(in) \in Seq(ToSet(RewriteInstruction(in)))
                         /\ ToSet(RewriteInstruction(in)) \subseteq S
    BY <1>5, <1>6 DEF PieceOver
  <2> HIDE DEF S, entry
  <2> QED BY <2>1, SeqMonotonic
<1> HIDE DEF S, entry
<1>9. ASSUME NEW b \in 1..n PROVE Block(b) \in Seq(S)
  <2> DEFINE s == [i \in DOMAIN func.code[b] |-> RewriteInstruction(func.code[b][i])]
             m == Len(func.code[b])
  <2>1. func.code[b] \in Seq(I)
    BY <1>1, ElementOfSeq
  <2>2. m \in Nat /\ DOMAIN func.code[b] = 1..m /\ \A i \in 1..m : func.code[b][i] \in I
    BY <2>1, LenProperties, ElementOfSeq
  <2>3. s \in [1..m -> Seq(S)]
    BY <1>8, <2>2
  <2> HIDE DEF s, m
  <2>4. FlattenSeq(s) \in Seq(S)
    BY <2>2, <2>3, FlattenOver
  <2> QED BY <2>4 DEF s
<1> HIDE DEF Block
<1>10. body \in Seq(Seq(S)) /\ Len(body) = n
  <2>1. body \in [1..n -> Seq(S)]
    BY <1>1, <1>9
  <2> HIDE DEF body
  <2>2. body \in Seq(Seq(S))
    BY <1>1, <2>1, SeqIs
  <2> QED BY <1>1, <2>1, <2>2, LenProperties
<1> HIDE DEF body
<1>11. f.code \in Seq(Seq(S)) /\ DOMAIN f.code = 1..(n + 1)
  <2>1. <<entry>> \in Seq(Seq(S)) /\ Len(<<entry>>) = 1
    BY <1>8
  <2>2. f.code \in Seq(Seq(S)) /\ Len(f.code) = n + 1
    BY <1>1, <1>4, <1>10, <2>1, ConcatProperties
  <2> QED BY <2>2, LenProperties
<1>12. Instructions(f) \subseteq S /\ f.code \in Seq(Seq(Instructions(f)))
  BY <1>11, InstructionsOver
<1>13. f.succ \in [DOMAIN f.code -> SUBSET DOMAIN f.code]
  <2> DEFINE B == SUBSET (1..(n + 1))
  <2>1. tail \in [1..n -> B]
    BY <1>1
  <2>2. {2} \in B
    BY <1>1
  <2> HIDE DEF tail, B
  <2>3. tail \in Seq(B) /\ Len(tail) = n
    <3>1. tail \in Seq(B)
      BY <1>1, <2>1, SeqIs
    <3> QED BY <1>1, <2>1, <3>1, LenProperties
  <2>4. <<{2}>> \in Seq(B) /\ Len(<<{2}>>) = 1
    BY <2>2
  <2>5. f.succ \in Seq(B) /\ Len(f.succ) = n + 1
    BY <1>1, <1>4, <2>3, <2>4, ConcatProperties
  <2>6. f.succ \in [1..(n + 1) -> B]
    BY <2>5, LenProperties
  <2> QED BY <1>11, <2>6 DEF B
<1>14. \A in \in Instructions(f) : InstructionOver(in, f.locals)
  <2>1. \A in \in Instructions(f) : InstructionOver(in, V)
    BY <1>7, <1>12
  <2> QED BY <1>4, <2>1
<1>15. f.uid \in Nat /\ None \notin f.locals
  BY <1>3, <1>4
<1> HIDE DEF mems, n, tail
<1>16. Closed(f)
  BY <1>12, <1>13, <1>14, <1>15 DEF Closed
<1> QED BY <1>16 DEF f

-----------------------------------------------------------------------------
(* Reaching stack objects. *)

\* The code is a sequence of blocks, whatever its instructions are.
HasBlocks(func) == func.code \in Seq(Seq(Instructions(func)))

\* Loads and stores that name a stack object are near it.
InReach(func) ==
  \A in \in Instructions(func) : in.op \in {"load", "store"} /\ in.mem # None => ~Far(func, in.mem)

\* The pieces of the two rewritings are sequences of what occurs in them.
LEMMA PiecesAreSequences ==
  ASSUME NEW func, NEW v, NEW p
  PROVE  /\ SpillPiece(func, v, p) \in Seq(ToSet(SpillPiece(func, v, p)))
         /\ AddressPiece(func, p) \in Seq(ToSet(AddressPiece(func, p)))
<1>1. \E a, b : SpillPiece(func, v, p) = <<a, b>> \/ SpillPiece(func, v, p) = <<a>>
  <2> DEFINE A == At(func, p).def = v
             B == v \in ToSet(At(func, p).uses)
  <2>1. CASE A
    BY <2>1 DEF SpillPiece
  <2>2. CASE ~A /\ B
    BY <2>2 DEF SpillPiece
  <2>3. CASE ~A /\ ~B
    BY <2>3 DEF SpillPiece
  <2> QED BY <2>1, <2>2, <2>3
<1>2. \E a, b : AddressPiece(func, p) = <<a, b>> \/ AddressPiece(func, p) = <<a>>
  BY DEF AddressPiece
<1>3. ASSUME NEW s, \E a, b : s = <<a, b>> \/ s = <<a>> PROVE s \in Seq(ToSet(s))
  <2>1. PICK a, b : s = <<a, b>> \/ s = <<a>>
    BY <1>3
  <2>2. CASE s = <<a, b>>
    BY <2>2, ShortPieces
  <2>3. CASE s = <<a>>
    BY <2>3, ShortPieces
  <2> QED BY <2>1, <2>2, <2>3
<1> QED BY <1>1, <1>2, <1>3

\* All rewritings give blocks of instructions, with no condition on their names.
LEMMA RewritingKeepsBlocks ==
  ASSUME NEW func, HasBlocks(func), NEW v
  PROVE  HasBlocks(SpillCode(func, v)) /\ HasBlocks(RewriteLargeOffset(func))
<1>1. ASSUME NEW prefix, NEW sites, NEW piece, NEW f,
             f.code = Replaced(func, prefix, sites, piece).code,
             \A p \in Points(func) : piece[p] \in Seq(ToSet(piece[p]))
      PROVE  HasBlocks(f)
  <2> DEFINE S == UNION {ToSet(piece[p]) : p \in Points(func)}
  <2>1. \A p \in Points(func) : ToSet(piece[p]) \subseteq S
    OBVIOUS
  <2> HIDE DEF S
  <2>2. \A p \in Points(func) : piece[p] \in Seq(S)
    BY <1>1, <2>1, SeqMonotonic
  <2>3. f.code \in Seq(Seq(S))
    BY <1>1, <2>2, ReplacedOver DEF HasBlocks
  <2> QED BY <2>3, InstructionsOver DEF HasBlocks
<1>2. HasBlocks(SpillCode(func, v))
  <2> DEFINE piece == [p \in Points(func) |-> SpillPiece(func, v, p)]
  <2>1. SpillCode(func, v).code = Replaced(func, "spill_", SpillSites(func, v), piece).code
    BY DEF SpillCode, SpillStores, Function
  <2>2. \A p \in Points(func) : piece[p] \in Seq(ToSet(piece[p]))
    BY PiecesAreSequences
  <2> HIDE DEF piece
  <2> QED BY <1>1, <2>1, <2>2
<1>3. HasBlocks(RewriteLargeOffset(func))
  <2> DEFINE piece == [p \in Points(func) |-> AddressPiece(func, p)]
  <2>1. RewriteLargeOffset(func).code = Replaced(func, "addr", FarSites(func), piece).code
    BY DEF RewriteLargeOffset, Addressed, Function
  <2>2. \A p \in Points(func) : piece[p] \in Seq(ToSet(piece[p]))
    BY PiecesAreSequences
  <2> HIDE DEF piece
  <2> QED BY <1>1, <2>1, <2>2
<1> QED BY <1>2, <1>3

\* Once far addresses are computed apart, the loads and stores that still name a
\* stack object are near it.
LEMMA AddressedInReach ==
  ASSUME NEW func, HasBlocks(func)
  PROVE  InReach(RewriteLargeOffset(func))
<1> DEFINE f == RewriteLargeOffset(func)
           piece == [p \in Points(func) |-> AddressPiece(func, p)]
           S == UNION {ToSet(AddressPiece(func, p)) : p \in Points(func)}
<1>1. /\ f.code = Replaced(func, "addr", FarSites(func), piece).code
      /\ f.frame = func.frame
  BY DEF RewriteLargeOffset, Addressed, Function
<1>2. \A slot : Far(f, slot) <=> Far(func, slot)
  BY <1>1 DEF Far
<1>3. ASSUME NEW p \in Points(func), NEW in \in ToSet(AddressPiece(func, p)),
             in.op \in {"load", "store"}, in.mem # None
      PROVE  ~Far(func, in.mem)
  <2> DEFINE is == At(func, p)
             t == Fresh("addr", Number(func, FarSites(func), p))
             a == LoadAddress(t, is.mem)
             b == Instr(is.id, is.op, is.def, <<t>> \o is.uses, None)
  <2>1. AddressPiece(func, p) = IF p \in FarSites(func) THEN <<a, b>> ELSE <<is>>
    BY DEF AddressPiece
  <2>2. CASE p \in FarSites(func)
    <3>1. in = a \/ in = b
      <4> HIDE DEF a, b, is
      <4>1. ToSet(<<a, b>>) = {a, b}
        BY ShortPieces
      <4> QED BY <1>3, <2>1, <2>2, <4>1
    <3>2. a.op = "lea" /\ b.mem = None
      BY InstrFields DEF LoadAddress
    <3> QED BY <1>3, <3>1, <3>2
  <2>3. CASE p \notin FarSites(func)
    <3>1. in = is
      <4> HIDE DEF a, b, is
      <4>1. ToSet(<<is>>) = {is}
        BY ShortPieces
      <4>2. ToSet(AddressPiece(func, p)) = {is}
        BY <2>1, <2>3, <4>1
      <4> QED BY <1>3, <4>2
    <3> QED BY <1>3, <2>3, <3>1 DEF FarSites
  <2> QED BY <2>2, <2>3
<1>4. Instructions(f) \subseteq S
  <2>1. \A p \in Points(func) : piece[p] \in Seq(S)
    <3>1. ASSUME NEW p \in Points(func) PROVE piece[p] \in Seq(S)
      <4>1. /\ piece[p] = AddressPiece(func, p)
            /\ AddressPiece(func, p) \in Seq(ToSet(AddressPiece(func, p)))
            /\ ToSet(AddressPiece(func, p)) \subseteq S
        BY PiecesAreSequences
      <4> HIDE DEF S, piece
      <4> QED BY <4>1, SeqMonotonic
    <3> QED BY <3>1
  <2> HIDE DEF S, f, piece
  <2>2. f.code \in Seq(Seq(S))
    BY <1>1, <2>1, ReplacedOver DEF HasBlocks
  <2> QED BY <2>2, InstructionsOver
<1> HIDE DEF f
<1>5. InReach(f)
  BY <1>2, <1>3, <1>4 DEF InReach
<1> QED BY <1>5 DEF f

-----------------------------------------------------------------------------
(* The invariant of the colouring. *)

\* The graph exists: allocate() is past its first build.
Built == pc \in {"select", "crashed", "assign", "done"}

Owns(k, x) == k \in keys /\ x \in Members(k)

\* Every variable has exactly one owner.
OneOwner ==
  /\ \A x \in fn.locals : \E k \in keys : x \in Members(k)
  /\ \A j, k \in keys : j # k => Members(j) \cap Members(k) = {}

\* The physical registers keep their own colour and stay pairwise adjacent.
Precolored ==
  /\ \A r \in Reg : color[r] = r
  /\ \A r, s \in Reg : r # s => s \in adj[r]

\* The edges between active nodes form a graph.
AdjGraph ==
  \A x \in Active :
    /\ adj[x] \subseteq Active
    /\ x \notin Reg => x \notin adj[x]
    /\ \A y \in adj[x] : x \in adj[y]

\* So do their moves, and no two nodes are related both ways.
MovGraph ==
  \A x \in Active :
    /\ mov[x] \subseteq Active \ (adj[x] \cup {x})
    /\ \A y \in mov[x] : x \in mov[y]

\* Each node is pushed once.
StackOnce ==
  \A i, j \in DOMAIN stack : stack[i] = stack[j] => i = j

\* While nodes are selected only registers have a colour, and the pushed nodes
\* are those on the stack.
SelectInv ==
  pc \in {"select", "crashed"} =>
    /\ \A x \in fn.locals \ Reg : color[x] = None
    /\ \A k \in stacked : \E i \in DOMAIN stack : stack[i] = k

\* While colours are given, a node has its members' colour, and the nodes
\* without one are those on the stack.
AssignInv ==
  pc \in {"assign", "done"} =>
    /\ \A k \in keys : \A x \in Members(k) : color[x] = color[k]
    /\ \A k \in keys : color[k] = None <=> \E i \in DOMAIN stack : stack[i] = k

Linked(a, b) == a \in Active /\ b \in adj[a]

\* a is on the stack with a neighbour that b stands for, and b is not below it.
Waits(a, b) ==
  \E i \in DOMAIN stack :
    /\ stack[i] = a
    /\ \A j \in 1..i : stack[j] # b
    /\ adj[a] \cap Members(b) # {}

Apart(a, b) == color[a] # None /\ color[b] # None /\ color[a] # color[b]

Kept(a, b) ==
  /\ a # b
  /\ \/ pc \in {"select", "crashed"} /\ Linked(a, b)
     \/ Waits(a, b)
     \/ Waits(b, a)
     \/ pc \in {"assign", "done"} /\ Apart(a, b)

\* No edge of the original graph is lost.
EdgesKept ==
  \A u \in fn.locals :
    LET conflicts == Interference(fn)[u]
    IN  \A v \in fn.locals : v \in conflicts /\ u # v =>
          \A a, b \in keys : u \in Members(a) /\ v \in Members(b) => Kept(a, b)

Published ==
  IF pc = "done" THEN stack = <<>> /\ varToReg = color ELSE varToReg = <<>>

\* The state of the allocation loop stays consistent: the graph keeps every
\* conflict of the function through pushing and merging, each variable belongs to
\* one node, the stack holds the nodes that wait for a colour, and the colours
\* given so far respect the conflicts.
IInv ==
  /\ TypeOK
  /\ (pc = "build" => varToReg = <<>> /\ stack = <<>>)
  /\ Built => /\ OneOwner /\ Precolored /\ AdjGraph /\ MovGraph /\ StackOnce
              /\ SelectInv /\ AssignInv /\ EdgesKept /\ Published

-----------------------------------------------------------------------------
(* The graph as it is built. *)

\* The rewritings drop no variable but the spilled one, and the registers are there from the start.
LEMMA RewritingKeepsRegisters ==
  ASSUME NEW f, NEW v
  PROVE  /\ Reg \subseteq CreateRegisters(f).locals
         /\ f.locals \subseteq RewriteLargeOffset(f).locals
         /\ f.locals \ {v} \subseteq SpillCode(f, v).locals
  <1>1. Reg \subseteq CreateRegisters(f).locals
    BY DEF CreateRegisters, Function
  <1>2. f.locals \subseteq RewriteLargeOffset(f).locals
    BY DEF RewriteLargeOffset, Function
  <1>3. f.locals \ {v} \subseteq SpillCode(f, v).locals
    BY DEF SpillCode, Function
  <1> QED BY <1>1, <1>2, <1>3

\* Only a register can conflict with itself (a call whose result it is).
LEMMA SelfConflict ==
  ASSUME NEW f, NEW x, <<x, x>> \in Conflicts(f)
  PROVE  x \in Reg
  <1>1. PICK in, live : Clobbers(in, live, x, x)
    BY DEF Conflicts
  <1> QED BY <1>1, RegisterAssumption DEF Clobbers

\* The graph as built is symmetric, has no loops but on registers, and joins all registers.
LEMMA InterferenceGraph ==
  ASSUME NEW f
  PROVE  /\ Interference(f) \in [f.locals -> SUBSET f.locals]
         /\ \A u, v \in f.locals : v \in Interference(f)[u] => u \in Interference(f)[v]
         /\ \A u \in f.locals \ Reg : u \notin Interference(f)[u]
         /\ \A r, s \in Reg \cap f.locals : r # s => s \in Interference(f)[r]
  BY SelfConflict DEF Interference

\* The move edges as built are symmetric and never join variables that interfere.
LEMMA MoveGraph ==
  ASSUME NEW f, NEW A,
         \A u, v \in f.locals : v \in A[u] => u \in A[v]
  PROVE  /\ MoveRelated(f, A) \in [f.locals -> SUBSET f.locals]
         /\ \A u \in f.locals : MoveRelated(f, A)[u] \cap (A[u] \cup {u}) = {}
         /\ \A u, v \in f.locals : v \in MoveRelated(f, A)[u] => u \in MoveRelated(f, A)[v]
  BY DEF MoveRelated

-----------------------------------------------------------------------------
(* The invariant holds initially and every action keeps it. *)

\* The code create_registers leaves, before the first graph is built.
LEMMA InitInv == Init => IInv
  <1> SUFFICES ASSUME Init PROVE IInv
    OBVIOUS
  <1>1. PICK p \in Programs : fn = CreateRegisters(Functions[p])
    BY DEF Init
  <1>2. Reg \subseteq fn.locals
    BY <1>1, RewritingKeepsRegisters
  <1> QED BY <1>2 DEF Init, IInv, TypeOK, Built

\* build_interference_graph starts every node with its own edges and no colour but a register's.
LEMMA BuildGraphInv == IInv /\ BuildGraph => IInv'
  <1> SUFFICES ASSUME IInv, BuildGraph PROVE IInv'
    OBVIOUS
  <1>1. /\ pc = "build" /\ stack = <<>> /\ varToReg = <<>>
        /\ stack' = stack /\ varToReg' = varToReg
        /\ pc' \in {"select", "crashed"}
        /\ keys' = fn'.locals /\ stacked' = {}
        /\ adj' = Interference(fn') /\ mov' = MoveRelated(fn', adj')
        /\ coal' = [n \in fn'.locals |-> {}]
        /\ color' = [n \in fn'.locals |-> IF n \in Reg THEN n ELSE None]
    BY DEF IInv, BuildGraph
  <1>2. Reg \subseteq fn'.locals
    BY RewritingKeepsRegisters DEF IInv, TypeOK, BuildGraph
  <1>3. /\ adj' \in [fn'.locals -> SUBSET fn'.locals]
        /\ \A u, v \in fn'.locals : v \in adj'[u] => u \in adj'[v]
        /\ \A u \in fn'.locals \ Reg : u \notin adj'[u]
        /\ \A r, s \in Reg \cap fn'.locals : r # s => s \in adj'[r]
    BY <1>1, InterferenceGraph
  <1>4. /\ mov' \in [fn'.locals -> SUBSET fn'.locals]
        /\ \A u \in fn'.locals : mov'[u] \cap (adj'[u] \cup {u}) = {}
        /\ \A u, v \in fn'.locals : v \in mov'[u] => u \in mov'[v]
    BY <1>1, <1>3, MoveGraph
  <1>5. TypeOK'
    BY <1>1, <1>2, <1>3, <1>4 DEF TypeOK
  <1>6. \A k \in keys' : Members(k)' = {k}
    BY <1>1 DEF Members
  <1>7. OneOwner'
    BY <1>1, <1>6 DEF OneOwner
  <1>8. Precolored' /\ AdjGraph' /\ MovGraph'
    BY <1>1, <1>2, <1>3, <1>4 DEF Precolored, AdjGraph, MovGraph, Active
  <1>9. StackOnce' /\ SelectInv' /\ AssignInv' /\ Published'
    BY <1>1 DEF StackOnce, SelectInv, AssignInv, Published
  <1>10. EdgesKept'
    BY <1>1, <1>6 DEF EdgesKept, Kept, Linked, Active
  <1> QED BY <1>1, <1>5, <1>7, <1>8, <1>9, <1>10 DEF IInv

\* What is known of a state in which nodes are selected.
LEMMA SelectFacts ==
  ASSUME IInv, pc = "select"
  PROVE  /\ TypeOK /\ OneOwner /\ Precolored /\ AdjGraph /\ MovGraph /\ StackOnce
         /\ EdgesKept /\ varToReg = <<>>
         /\ Reg \subseteq Active /\ None \notin Reg
         /\ \A x \in Active : Uncolored(x) <=> x \notin Reg
         /\ \A k \in keys : k \in stacked <=> \E i \in DOMAIN stack : stack[i] = k
         /\ stack \in Seq(stacked)
  BY RegisterAssumption DEF IInv, Built, TypeOK, SelectInv, Precolored, Published, Active, Uncolored

\* Pushing an uncoloured node, with its moves given up.
LEMMA PushInv ==
  ASSUME IInv, pc = "select",
         NEW n \in Active, Uncolored(n), Push(n),
         adj' = ForgottenBy(n, adj[n], adj),
         mov' = ForgottenBy(n, mov[n], mov),
         UNCHANGED <<fn, keys, coal, color, pc, varToReg>>
  PROVE  IInv'
  <1> USE SelectFacts
  <1>1. /\ n \in keys \ stacked /\ n \notin Reg
        /\ Active' = Active \ {n}
        /\ Active \subseteq fn.locals
        /\ stacked' = stacked \cup {n}
        /\ adj \in [fn.locals -> SUBSET fn.locals]
        /\ mov \in [fn.locals -> SUBSET fn.locals]
        /\ keys \subseteq fn.locals
    BY DEF Push, Active, TypeOK
  <1>2. /\ stack' \in Seq(stacked')
        /\ Len(stack') = Len(stack) + 1
        /\ stack'[Len(stack) + 1] = n
        /\ \A i \in DOMAIN stack : stack'[i] = stack[i] /\ i \in DOMAIN stack'
        /\ Len(stack) + 1 \in DOMAIN stack'
        /\ \A i \in DOMAIN stack' : i = Len(stack) + 1 \/ i \in DOMAIN stack
        /\ \A i \in DOMAIN stack : stack[i] # n
    <2>1. stack \in Seq(stacked') /\ n \in stacked' /\ stack' = Append(stack, n)
      BY <1>1 DEF Push
    <2>2. \A i \in DOMAIN stack : stack[i] \in stacked
      BY ElementOfSeq
    <2> QED BY <1>1, <2>1, <2>2
  <1>3. /\ DOMAIN adj' = fn.locals /\ DOMAIN mov' = fn.locals
        /\ \A x \in fn.locals : adj'[x] = IF x \in adj[n] THEN adj[x] \ {n} ELSE adj[x]
        /\ \A x \in fn.locals : mov'[x] = IF x \in mov[n] THEN mov[x] \ {n} ELSE mov[x]
    BY <1>1 DEF ForgottenBy
  <1>4. TypeOK'
    <2>1. adj' \in [fn.locals -> SUBSET fn.locals] /\ mov' \in [fn.locals -> SUBSET fn.locals]
      BY <1>1 DEF ForgottenBy
    <2> QED BY <1>1, <1>2, <2>1 DEF TypeOK
  <1>5. OneOwner' /\ Precolored' /\ AdjGraph' /\ MovGraph'
    <2>1. OneOwner'
      BY DEF OneOwner, Members
    <2>2. Precolored'
      <3>1. \A r \in Reg : color'[r] = r
        BY DEF Precolored
      <3>2. ASSUME NEW r \in Reg, NEW s \in Reg, r # s PROVE s \in adj'[r]
        <4>1. s \in adj[r] /\ s # n /\ r \in fn.locals
          BY <1>1, <3>2 DEF Precolored
        <4> QED BY <1>3, <4>1
      <3> QED BY <3>1, <3>2 DEF Precolored
    <2>3. \A x \in Active' : adj'[x] = adj[x] \ {n}
      <3>1. \A x \in Active : n \in adj[x] => x \in adj[n]
        BY DEF AdjGraph
      <3>2. \A x \in Active : x \notin adj[n] => adj[x] \ {n} = adj[x]
        BY <3>1
      <3> QED BY <1>1, <1>3, <3>2
    <2>4. AdjGraph'
      BY <1>1, <1>3, <2>3 DEF AdjGraph
    <2>5. \A x \in Active' : mov'[x] = mov[x] \ {n}
      <3>1. \A x \in Active : n \in mov[x] => x \in mov[n]
        BY DEF MovGraph
      <3>2. \A x \in Active : x \notin mov[n] => mov[x] \ {n} = mov[x]
        BY <3>1
      <3> QED BY <1>1, <1>3, <3>2
    <2>6. MovGraph'
      BY <1>1, <1>3, <2>3, <2>5 DEF MovGraph
    <2> QED BY <2>1, <2>2, <2>4, <2>6
  <1>6. StackOnce' /\ SelectInv' /\ AssignInv' /\ Published'
    <2>1. StackOnce'
      BY <1>2 DEF StackOnce
    <2>2. \A k \in stacked' : \E i \in DOMAIN stack' : stack'[i] = k
      BY <1>1, <1>2 DEF IInv, TypeOK
    <2>3. SelectInv'
      BY <2>2 DEF SelectInv, IInv, Built
    <2> QED BY <2>1, <2>3 DEF AssignInv, Published
  <1>7. EdgesKept'
    <2> SUFFICES ASSUME NEW u \in fn.locals, NEW v \in fn.locals,
                        v \in Interference(fn)[u], u # v,
                        NEW a \in keys, NEW b \in keys, u \in Members(a), v \in Members(b)
                 PROVE  Kept(a, b)'
      BY DEF EdgesKept, Members
    <2>1. Kept(a, b)
      BY DEF EdgesKept
    <2>2. ASSUME NEW c, NEW d, Waits(c, d)
          PROVE  Waits(c, d)'
      <3>1. PICK i \in DOMAIN stack :
              stack[i] = c /\ (\A j \in 1..i : stack[j] # d) /\ adj[c] \cap Members(d) # {}
        BY <2>2 DEF Waits
      <3>2. c \in stacked /\ c \in fn.locals
        BY <1>1, <3>1, ElementOfSeq DEF TypeOK
      <3>3. adj'[c] = adj[c]
        BY <1>1, <1>3, <3>2 DEF AdjGraph, Active
      <3>4. \A j \in 1..i : j \in DOMAIN stack
        BY <3>1
      <3> QED BY <1>2, <3>1, <3>3, <3>4 DEF Waits, Members
    <2>3. CASE Linked(a, b) /\ a = n
      <3>1. b \in Active /\ b \in adj[a]
        BY <2>3 DEF Linked, AdjGraph
      <3>2. adj'[n] = adj[n]
        BY <1>1, <1>3 DEF AdjGraph
      <3>3. \A j \in 1..(Len(stack) + 1) : stack'[j] # b
        BY <1>1, <1>2, <2>1, <2>3, <3>1, ElementOfSeq DEF Kept, Active
      <3> QED BY <1>2, <2>1, <2>3, <3>1, <3>2, <3>3 DEF Kept, Waits, Members
    <2>4. CASE Linked(a, b) /\ b = n
      <3>1. a \in Active /\ a \in adj[b] /\ a # n
        BY <2>1, <2>4 DEF Linked, AdjGraph, Kept
      <3>2. adj'[n] = adj[n]
        BY <1>1, <1>3 DEF AdjGraph
      <3>3. \A j \in 1..(Len(stack) + 1) : stack'[j] # a
        BY <1>1, <1>2, <2>4, <3>1, ElementOfSeq DEF Active
      <3>4. Waits(b, a)'
        BY <1>2, <2>4, <3>1, <3>2, <3>3 DEF Waits, Members
      <3> QED BY <2>1, <3>4 DEF Kept
    <2>5. CASE Linked(a, b) /\ a # n /\ b # n
      <3>1. a \in Active /\ b \in adj[a] /\ a \in fn.locals
        BY <1>1, <2>5 DEF Linked
      <3>2. a \in Active' /\ b \in adj'[a]
        BY <1>1, <1>3, <2>5, <3>1
      <3>3. a # b /\ pc' = pc /\ pc \in {"select", "crashed"}
        BY <2>1 DEF Kept
      <3> QED BY <3>2, <3>3 DEF Linked, Kept
    <2>6. CASE Waits(a, b) \/ Waits(b, a)
      BY <2>1, <2>2, <2>6 DEF Kept
    <2> QED BY <2>1, <2>3, <2>4, <2>5, <2>6 DEF Kept
  <1> QED BY <1>4, <1>5, <1>6, <1>7 DEF IInv, Built

\* simplify_phase pushes a node that its neighbours may forget.
LEMMA SimplifyInv == \A n \in keys : IInv /\ Simplify(n) => IInv'
  <1> SUFFICES ASSUME NEW n \in keys, IInv, Simplify(n) PROVE IInv'
    OBVIOUS
  <1>1. /\ pc = "select" /\ n \in Active /\ Uncolored(n) /\ Push(n) /\ mov[n] = {}
        /\ adj' = ForgottenBy(n, adj[n], adj)
        /\ UNCHANGED <<fn, keys, coal, color, pc, varToReg>>
    BY DEF Simplify, CanSimplify
  <1>2. mov \in [fn.locals -> SUBSET fn.locals]
    BY <1>1 DEF IInv, TypeOK
  <1>3. mov' = ForgottenBy(n, mov[n], mov)
    BY <1>1, <1>2 DEF Simplify, ForgottenBy
  <1> QED BY <1>1, <1>3, PushInv

\* spill_phase pushes a node of any degree.
LEMMA SelectSpillInv == \A n \in keys : IInv /\ SelectSpill(n) => IInv'
  BY PushInv DEF SelectSpill, SpillCandidates

\* freeze_phase gives up the moves of a node, on both sides.
LEMMA FreezeInv == \A n \in keys : IInv /\ Freeze(n) => IInv'
  <1> SUFFICES ASSUME NEW n \in keys, IInv, Freeze(n) PROVE IInv'
    OBVIOUS
  <1>1. /\ pc = "select" /\ n \in Active
        /\ mov' = [ForgottenBy(n, mov[n], mov) EXCEPT ![n] = {}]
        /\ UNCHANGED <<fn, keys, adj, coal, stacked, color, stack, pc, varToReg>>
    BY DEF Freeze, CanFreeze
  <1>2. TypeOK /\ MovGraph
    BY <1>1, SelectFacts
  <1>3. /\ mov \in [fn.locals -> SUBSET fn.locals] /\ Active \subseteq fn.locals
        /\ Active' = Active
    BY <1>1, <1>2 DEF TypeOK, Active
  <1>4. /\ DOMAIN mov' = fn.locals
        /\ \A x \in fn.locals :
             mov'[x] = IF x = n THEN {} ELSE IF x \in mov[n] THEN mov[x] \ {n} ELSE mov[x]
    BY <1>1, <1>3 DEF ForgottenBy
  <1>5. mov' \in [fn.locals -> SUBSET fn.locals]
    BY <1>1, <1>3 DEF ForgottenBy
  <1>6. TypeOK'
    BY <1>1, <1>2, <1>5 DEF TypeOK
  <1>7. MovGraph'
    <2>1. \A x \in Active : x \notin mov[n] => mov[x] \ {n} = mov[x]
      BY <1>1, <1>2 DEF MovGraph
    <2>2. \A x \in Active \ {n} : mov'[x] = mov[x] \ {n}
      BY <1>3, <1>4, <2>1
    <2>3. mov'[n] = {}
      BY <1>1, <1>3, <1>4
    <2> QED BY <1>1, <1>2, <1>3, <2>2, <2>3 DEF MovGraph
  <1>8. /\ OneOwner' /\ Precolored' /\ AdjGraph' /\ StackOnce' /\ SelectInv'
        /\ AssignInv' /\ Published'
    BY <1>1 DEF IInv, Built, OneOwner, Members, Precolored, AdjGraph, Active, StackOnce,
                SelectInv, AssignInv, Published
  <1>9. EdgesKept'
    BY <1>1 DEF IInv, Built, EdgesKept, Kept, Linked, Waits, Apart, Members, Active
  <1> QED BY <1>1, <1>6, <1>7, <1>8, <1>9 DEF IInv, Built

\* Merging two move-related active nodes, the second of which is no register.
LEMMA MergeInv ==
  ASSUME IInv, pc = "select",
         NEW n1 \in Active, NEW n2 \in Active,
         n2 \in mov[n1], n2 \notin Reg, MergeInto(n1, n2),
         UNCHANGED <<fn, stacked, color, stack, pc, varToReg>>
  PROVE  IInv'
  <1> DEFINE moved == {m \in mov[n2] \ {n1} : m \notin adj[n1]}
  <1>1. /\ TypeOK /\ OneOwner /\ Precolored /\ AdjGraph /\ MovGraph /\ StackOnce
        /\ EdgesKept /\ Reg \subseteq Active
        /\ \A k \in keys : k \in stacked <=> \E i \in DOMAIN stack : stack[i] = k
    BY SelectFacts
  <1>2. /\ n1 # n2 /\ n1 \in mov[n2] /\ n2 \notin adj[n1] /\ n1 \notin adj[n2]
        /\ n2 \notin adj[n2] /\ n2 \notin mov[n2] /\ n1 \notin mov[n1]
    BY <1>1 DEF AdjGraph, MovGraph
  <1>3. /\ Active \subseteq fn.locals /\ Active' = Active \ {n2}
        /\ n1 \in keys /\ n2 \in keys /\ n1 \notin stacked /\ n2 \notin stacked
        /\ n1 \in fn.locals /\ n2 \in fn.locals
        /\ keys' = keys \ {n2}
        /\ adj \in [fn.locals -> SUBSET fn.locals]
        /\ mov \in [fn.locals -> SUBSET fn.locals]
        /\ coal \in [fn.locals -> SUBSET fn.locals]
    BY <1>1 DEF MergeInto, Active, TypeOK
  <1>4. /\ DOMAIN adj' = fn.locals
        /\ \A x \in fn.locals \ {n1} : \A y :
             y \in adj'[x] <=> \/ y \in adj[x] /\ (x \in adj[n2] => y # n2)
                               \/ y = n1 /\ x \in adj[n2]
        /\ \A y : y \in adj'[n1] <=> y \in adj[n1] \/ y \in adj[n2]
        /\ \A x \in fn.locals \ {n1} : x \notin adj[n2] => adj'[x] = adj[x]
        /\ adj' \in [fn.locals -> SUBSET fn.locals]
    <2>1. adj' = [x \in fn.locals |->
                    IF x = n1 THEN adj[n1] \cup adj[n2]
                    ELSE IF x \in adj[n2] THEN (adj[x] \ {n2}) \cup {n1}
                    ELSE adj[x]]
      BY <1>3 DEF MergeInto
    <2>2. adj' \in [fn.locals -> SUBSET fn.locals]
      BY <1>3, <2>1
    <2>3. \A y : y \in adj'[n1] <=> y \in adj[n1] \/ y \in adj[n2]
      BY <1>3, <2>1
    <2>4. \A x \in fn.locals \ {n1} : \A y :
             y \in adj'[x] <=> \/ y \in adj[x] /\ (x \in adj[n2] => y # n2)
                               \/ y = n1 /\ x \in adj[n2]
      <3> TAKE x \in fn.locals \ {n1}
      <3> TAKE y
      <3>1. CASE x \in adj[n2]
        <4>1. adj'[x] = (adj[x] \ {n2}) \cup {n1}
          BY <2>1, <3>1
        <4> QED BY <3>1, <4>1
      <3>2. CASE x \notin adj[n2]
        <4>1. adj'[x] = adj[x]
          BY <2>1, <3>2
        <4> QED BY <3>2, <4>1
      <3> QED BY <3>1, <3>2
    <2> QED BY <2>1, <2>2, <2>3, <2>4
  <1>5. /\ DOMAIN mov' = fn.locals
        /\ \A x \in fn.locals \ {n1} : \A y :
             y \in mov'[x] <=>
               /\ \/ y \in mov[x] /\ (x \in mov[n2] => y # n2)
                  \/ y = n1 /\ x \in moved
               /\ y = n1 => x \notin adj[n2]
        /\ \A y : y \in mov'[n1] <=>
               /\ (y \in mov[n1] /\ y # n2) \/ y \in moved
               /\ y \notin adj[n2]
        /\ mov' \in [fn.locals -> SUBSET fn.locals]
    BY <1>3 DEF MergeInto
  <1>6. /\ coal' \in [fn.locals -> SUBSET fn.locals]
        /\ \A x \in fn.locals \ {n1} : coal'[x] = coal[x]
        /\ coal'[n1] = coal[n1] \cup Members(n2)
    BY <1>3 DEF MergeInto, Members
  <1>7. /\ \A k \in keys' \ {n1} : Members(k)' = Members(k)
        /\ Members(n1)' = Members(n1) \cup Members(n2)
    BY <1>1, <1>3, <1>6 DEF Members, TypeOK
  <1>8. TypeOK'
    BY <1>1, <1>3, <1>4, <1>5, <1>6 DEF TypeOK, MergeInto
  <1>9. OneOwner'
    BY <1>1, <1>2, <1>3, <1>7 DEF OneOwner
  <1>10. Precolored'
    <2> SUFFICES ASSUME NEW r \in Reg, NEW s \in Reg, r # s PROVE s \in adj'[r]
      BY <1>1 DEF Precolored
    <2>1. s \in adj[r] /\ s # n2 /\ r # n2 /\ r \in fn.locals
      BY <1>1, <1>3 DEF Precolored
    <2> QED BY <1>4, <2>1
  <1>11. AdjGraph'
    <2> SUFFICES ASSUME NEW x \in Active \ {n2}
                 PROVE  /\ adj'[x] \subseteq Active \ {n2}
                        /\ x \notin Reg => x \notin adj'[x]
                        /\ \A y \in adj'[x] : x \in adj'[y]
      BY <1>3 DEF AdjGraph
    <2>1. /\ n2 \in adj[x] <=> x \in adj[n2]
          /\ adj[x] \subseteq Active /\ (x \notin Reg => x \notin adj[x])
          /\ adj[n2] \subseteq Active
          /\ x \in fn.locals
      BY <1>1, <1>3 DEF AdjGraph
    <2>2. adj'[x] \subseteq Active \ {n2} /\ (x \notin Reg => x \notin adj'[x])
      <3>1. CASE x = n1
        BY <1>2, <1>4, <2>1, <3>1
      <3>2. CASE x # n1
        BY <1>2, <1>4, <2>1, <3>2
      <3> QED BY <3>1, <3>2
    <2>3. ASSUME NEW y \in adj'[x] PROVE x \in adj'[y]
      <3>1. /\ y \in Active \ {n2} /\ y \in fn.locals
            /\ y \in adj[x] <=> x \in adj[y]
            /\ y \in adj[n1] <=> n1 \in adj[y]
            /\ y \in adj[n2] <=> n2 \in adj[y]
        BY <1>1, <1>3, <2>2 DEF AdjGraph
      <3> QED BY <1>2, <1>4, <2>1, <3>1
    <2> QED BY <2>2, <2>3
  <1>12. MovGraph'
    <2> SUFFICES ASSUME NEW x \in Active \ {n2}
                 PROVE  /\ mov'[x] \subseteq (Active \ {n2}) \ (adj'[x] \cup {x})
                        /\ \A y \in mov'[x] : x \in mov'[y]
      BY <1>3 DEF MovGraph
    <2>1. /\ n2 \in mov[x] <=> x \in mov[n2]
          /\ n1 \in adj[x] <=> x \in adj[n1]
          /\ n1 \in mov[x] <=> x \in mov[n1]
          /\ mov[x] \subseteq Active \ (adj[x] \cup {x})
          /\ x \in fn.locals
      BY <1>1, <1>3 DEF AdjGraph, MovGraph
    <2>2. moved \subseteq Active \ {n1, n2} /\ mov[n1] \subseteq Active
      BY <1>1, <1>2 DEF MovGraph
    <2>3. mov'[x] \subseteq (Active \ {n2}) \ (adj'[x] \cup {x})
      <3>1. CASE x = n1
        BY <1>2, <1>4, <1>5, <2>1, <2>2, <3>1
      <3>2. CASE x # n1
        BY <1>2, <1>4, <1>5, <2>1, <2>2, <3>2
      <3> QED BY <3>1, <3>2
    <2>4. ASSUME NEW y \in mov'[x] PROVE x \in mov'[y]
      <3>1. y \in Active \ {n2} /\ y # x
        BY <2>3
      <3>2. CASE x = n1
        BY <1>1, <1>3, <1>5, <2>2, <3>1, <3>2 DEF MovGraph
      <3>3. CASE x # n1 /\ y = n1
        BY <1>1, <1>3, <1>5, <2>1, <2>2, <3>1, <3>3 DEF MovGraph
      <3>4. CASE x # n1 /\ y # n1
        BY <1>1, <1>3, <1>5, <3>1, <3>4 DEF MovGraph
      <3> QED BY <3>2, <3>3, <3>4
    <2> QED BY <2>3, <2>4
  <1>13. StackOnce' /\ SelectInv' /\ AssignInv' /\ Published'
    BY DEF IInv, Built, StackOnce, SelectInv, AssignInv, Published
  <1>14. EdgesKept'
    <2> SUFFICES ASSUME NEW u \in fn.locals, NEW v \in fn.locals,
                        v \in Interference(fn)[u], u # v,
                        NEW a1 \in keys', NEW b1 \in keys',
                        u \in Members(a1)', v \in Members(b1)'
                 PROVE  Kept(a1, b1)'
      BY DEF EdgesKept
    <2> DEFINE Old(k, x) == IF k = n1 /\ x \in Members(n2) THEN n2 ELSE k
               a == Old(a1, u)
               b == Old(b1, v)
    <2>1. /\ a \in keys /\ b \in keys /\ u \in Members(a) /\ v \in Members(b)
          /\ (a = n2 => a1 = n1) /\ (a # n2 => a1 = a)
          /\ (b = n2 => b1 = n1) /\ (b # n2 => b1 = b)
      BY <1>3, <1>7
    <2> HIDE DEF a, b
    <2>2. Kept(a, b)
      BY <1>1, <2>1 DEF EdgesKept
    <2>3. \A c, d : Waits(c, d) => c \in stacked /\ (d \in {n1, n2} \/ d \in keys => TRUE)
      BY <1>1, ElementOfSeq DEF Waits, TypeOK
    <2>4. a1 # b1
      <3>1. CASE Linked(a, b)
        BY <1>1, <1>2, <2>1, <2>2, <3>1 DEF Kept, Linked, AdjGraph
      <3>2. CASE Waits(a, b) \/ Waits(b, a)
        BY <1>3, <2>1, <2>2, <2>3, <3>2 DEF Kept
      <3> QED BY <2>2, <3>1, <3>2 DEF Kept
    <2>5. CASE Linked(a, b)
      <3>1. a \in Active /\ b \in adj[a] /\ b \in Active /\ a \in adj[b]
        BY <1>1, <2>5 DEF Linked, AdjGraph
      <3>2. b1 \in adj'[a1] /\ a1 \in Active'
        BY <1>2, <1>3, <1>4, <2>1, <2>4, <3>1
      <3> QED BY <2>2, <2>4, <3>2 DEF Kept, Linked
    <2>6. ASSUME NEW c \in keys, NEW d \in keys, NEW d1 \in keys', Waits(c, d),
                 d = n2 => d1 = n1, d # n2 => d1 = d
          PROVE  Waits(c, d1)'
      <3>1. PICK i \in DOMAIN stack :
              stack[i] = c /\ (\A j \in 1..i : stack[j] # d) /\ adj[c] \cap Members(d) # {}
        BY <2>6 DEF Waits
      <3>2. c \in stacked /\ c \in fn.locals /\ c \notin Active
        BY <1>1, <3>1, ElementOfSeq DEF TypeOK, Active
      <3>3. c \notin adj[n2]
        BY <1>1, <3>2 DEF AdjGraph
      <3>4. adj'[c] = adj[c]
        BY <1>3, <1>4, <3>2, <3>3
      <3>5. Members(d) \subseteq Members(d1)'
        BY <1>3, <1>7, <2>6
      <3>6. \A j \in 1..i : stack[j] # d1
        <4>1. \A j \in 1..i : stack[j] \in stacked
          BY <1>1, <3>1, ElementOfSeq DEF TypeOK
        <4> QED BY <1>3, <2>6, <3>1, <4>1
      <3> QED BY <3>1, <3>4, <3>5, <3>6 DEF Waits
    <2>7. \A c, d : Waits(c, d) => c \in stacked
      BY <2>3
    <2>8. CASE Waits(a, b)
      BY <1>3, <2>1, <2>4, <2>6, <2>7, <2>8 DEF Kept
    <2>9. CASE Waits(b, a)
      BY <1>3, <2>1, <2>4, <2>6, <2>7, <2>9 DEF Kept
    <2> QED BY <2>2, <2>5, <2>8, <2>9 DEF Kept
  <1> QED BY <1>8, <1>9, <1>10, <1>11, <1>12, <1>13, <1>14 DEF IInv, Built

\* coalesce_phase merges two nodes, either of which may be a register.
LEMMA CoalesceInv == \A n \in keys : \A m \in mov[n] : IInv /\ Coalesce(n, m) => IInv'
  <1> SUFFICES ASSUME NEW n \in keys, NEW m \in mov[n], IInv, Coalesce(n, m) PROVE IInv'
    OBVIOUS
  <1>1. /\ pc = "select" /\ n \in Active
        /\ IF Uncolored(m) THEN MergeInto(n, m) ELSE MergeInto(m, n)
        /\ UNCHANGED <<fn, stacked, color, stack, pc, varToReg>>
    BY DEF Coalesce
  <1>2. /\ m \in Active /\ n \in mov[m] /\ m \notin adj[n] /\ m # n
        /\ Uncolored(m) <=> m \notin Reg
        /\ n \in Reg /\ m \in Reg => m \in adj[n]
    BY <1>1, SelectFacts DEF MovGraph, Precolored
  <1>3. CASE Uncolored(m)
    BY <1>1, <1>2, <1>3, MergeInv
  <1>4. CASE ~Uncolored(m)
    <2>1. n \notin Reg
      BY <1>2, <1>4
    <2> QED BY <1>1, <1>2, <1>4, <2>1, MergeInv
  <1> QED BY <1>3, <1>4

\* assign_colors starts when every node that is no register is on the stack.
LEMMA StartAssignInv == IInv /\ StartAssign => IInv'
  <1> SUFFICES ASSUME IInv, StartAssign PROVE IInv'
    OBVIOUS
  <1>1. /\ pc = "select" /\ pc' = "assign" /\ SpillCandidates = {}
        /\ color' = [x \in DOMAIN color |->
                       IF \E r \in Reg : x \in coal[r]
                       THEN CHOOSE r \in Reg : x \in coal[r]
                       ELSE color[x]]
        /\ UNCHANGED <<fn, keys, adj, mov, coal, stacked, stack, varToReg>>
    BY DEF StartAssign, graph
  <1>2. /\ TypeOK /\ OneOwner /\ Precolored /\ AdjGraph /\ MovGraph /\ StackOnce
        /\ EdgesKept /\ varToReg = <<>> /\ None \notin Reg
        /\ Reg \subseteq keys /\ keys \subseteq fn.locals
        /\ \A x \in Active : x \in Reg
        /\ \A k \in keys : k \in stacked <=> \E i \in DOMAIN stack : stack[i] = k
        /\ \A x \in fn.locals \ Reg : color[x] = None
        /\ color \in [fn.locals -> Reg \cup {None}]
        /\ stacked \cap Reg = {}
    BY <1>1, SelectFacts DEF SpillCandidates, TypeOK, IInv, Built, SelectInv
  <1>3. ASSUME NEW x \in fn.locals, NEW k \in keys, x \in Members(k)
        PROVE  color'[x] = IF k \in Reg THEN k ELSE None
    <2>1. \A j \in keys : j # k => x \notin Members(j)
      BY <1>2, <1>3 DEF OneOwner
    <2>2. color'[x] = IF \E r \in Reg : x \in coal[r]
                      THEN CHOOSE r \in Reg : x \in coal[r] ELSE color[x]
      BY <1>1, <1>2
    <2>3. \A r \in Reg : x \in coal[r] => r = k
      BY <1>2, <2>1 DEF Members
    <2>4. CASE \E r \in Reg : x \in coal[r]
      BY <2>2, <2>3, <2>4
    <2>5. CASE ~\E r \in Reg : x \in coal[r]
      <3>1. color'[x] = color[x]
        BY <2>2, <2>5
      <3>2. CASE x \in Reg
        <4>1. x = k
          BY <1>2, <2>1, <3>2 DEF Members
        <4> QED BY <1>2, <3>1, <3>2, <4>1 DEF Precolored
      <3>3. CASE x \notin Reg
        <4>1. k \notin Reg
          BY <1>3, <2>5, <3>3 DEF Members
        <4> QED BY <1>2, <3>1, <3>3, <4>1
      <3> QED BY <3>2, <3>3
    <2> QED BY <2>4, <2>5
  <1>4. color' \in [fn.locals -> Reg \cup {None}]
    <2>1. \A x \in fn.locals : color'[x] \in Reg \cup {None}
      BY <1>2, <1>3 DEF OneOwner
    <2> QED BY <1>1, <1>2, <2>1
  <1>5. \A k \in keys : color'[k] = IF k \in Reg THEN k ELSE None
    BY <1>2, <1>3 DEF Members
  <1>6. TypeOK'
    BY <1>1, <1>2, <1>4 DEF TypeOK
  <1>7. OneOwner' /\ AdjGraph' /\ MovGraph' /\ StackOnce' /\ SelectInv' /\ Published'
    BY <1>1, <1>2 DEF OneOwner, Members, AdjGraph, MovGraph, StackOnce, SelectInv,
                      Published, Active
  <1>8. Precolored'
    BY <1>1, <1>2, <1>5 DEF Precolored
  <1>9. AssignInv'
    <2>1. \A k \in keys : \A x \in Members(k) : color'[x] = color'[k]
      <3>1. \A k \in keys : \A x \in Members(k) : x \in fn.locals
        BY <1>1, <1>2 DEF Members, TypeOK
      <3> QED BY <1>3, <1>5, <3>1
    <2>2. \A k \in keys : color'[k] = None <=> \E i \in DOMAIN stack : stack[i] = k
      BY <1>2, <1>5 DEF Active
    <2> QED BY <1>1, <2>1, <2>2 DEF AssignInv, Members
  <1>10. EdgesKept'
    <2> SUFFICES ASSUME NEW u \in fn.locals, NEW v \in fn.locals,
                        v \in Interference(fn)[u], u # v,
                        NEW a \in keys, NEW b \in keys, u \in Members(a), v \in Members(b)
                 PROVE  Kept(a, b)'
      BY <1>1 DEF EdgesKept, Members
    <2>1. Kept(a, b)
      BY <1>2 DEF EdgesKept
    <2>2. CASE Linked(a, b)
      <3>1. a \in Reg /\ b \in Reg
        BY <1>2, <2>2 DEF Linked, AdjGraph
      <3>2. color'[a] = a /\ color'[b] = b /\ a # None /\ b # None /\ a # b
        BY <1>2, <1>5, <2>1, <3>1 DEF Kept
      <3> QED BY <1>1, <3>2 DEF Kept, Apart
    <2>3. CASE Waits(a, b) \/ Waits(b, a)
      BY <1>1, <2>1, <2>3 DEF Kept, Waits, Members
    <2> QED BY <1>1, <2>1, <2>2, <2>3 DEF Kept
  <1> QED BY <1>1, <1>6, <1>7, <1>8, <1>9, <1>10 DEF IInv

\* What is known of a state in which colours are given.
LEMMA AssignFacts ==
  ASSUME IInv, pc = "assign"
  PROVE  /\ TypeOK /\ OneOwner /\ Precolored /\ AdjGraph /\ MovGraph /\ StackOnce
         /\ EdgesKept /\ varToReg = <<>> /\ None \notin Reg
         /\ Reg \subseteq keys /\ keys \subseteq fn.locals
         /\ coal \in [fn.locals -> SUBSET fn.locals]
         /\ color \in [fn.locals -> Reg \cup {None}]
         /\ stack \in Seq(stacked) /\ stacked \subseteq keys \ Reg
         /\ \A k \in keys : \A x \in Members(k) : color[x] = color[k] /\ x \in fn.locals
         /\ \A k \in keys : color[k] = None <=> \E i \in DOMAIN stack : stack[i] = k
  BY RegisterAssumption DEF IInv, Built, TypeOK, AssignInv, Published, Members

\* A popped node gets a colour none of its neighbours has.
LEMMA AssignColorInv == \A i \in 1..K : IInv /\ AssignColor(i) => IInv'
  <1> SUFFICES ASSUME NEW i \in 1..K, IInv, AssignColor(i) PROVE IInv'
    OBVIOUS
  <1> DEFINE t == Top
             n == Len(stack)
  <1>1. /\ pc = "assign" /\ pc' = "assign" /\ stack # <<>>
        /\ Registers[i] \notin UsedColors(t)
        /\ color' = [x \in DOMAIN color |->
                       IF x \in Members(t) THEN Registers[i] ELSE color[x]]
        /\ stack' = Front(stack)
        /\ UNCHANGED <<fn, keys, adj, mov, coal, stacked, varToReg>>
    BY DEF AssignColor, graph
  <1>2. /\ TypeOK /\ OneOwner /\ Precolored /\ AdjGraph /\ MovGraph /\ StackOnce
        /\ EdgesKept /\ varToReg = <<>> /\ None \notin Reg
        /\ Reg \subseteq keys /\ keys \subseteq fn.locals
        /\ coal \in [fn.locals -> SUBSET fn.locals]
        /\ color \in [fn.locals -> Reg \cup {None}]
        /\ stack \in Seq(stacked) /\ stacked \subseteq keys \ Reg
        /\ \A k \in keys : \A x \in Members(k) : color[x] = color[k] /\ x \in fn.locals
        /\ \A k \in keys : color[k] = None <=> \E j \in DOMAIN stack : stack[j] = k
    BY <1>1, AssignFacts
  <1>3. Registers[i] \in Reg /\ Registers[i] # None
    BY <1>2 DEF Reg, ToSet, K
  <1>4. /\ n \in Nat /\ n > 0 /\ DOMAIN stack = 1..n /\ t = stack[n]
        /\ t \in stacked /\ t \in keys /\ t \notin Reg
        /\ stack' \in Seq(stacked) /\ DOMAIN stack' = 1..(n - 1)
        /\ \A j \in 1..(n - 1) : stack'[j] = stack[j] /\ stack[j] # t
    <2>1. n \in Nat /\ n > 0 /\ DOMAIN stack = 1..n /\ t = stack[n] /\ t \in stacked
      BY <1>1, <1>2, EmptySeq, ElementOfSeq DEF Top, Last
    <2>2. stack' = SubSeq(stack, 1, n - 1)
      BY <1>1 DEF Front
    <2>3. /\ stack' \in Seq(stacked) /\ DOMAIN stack' = 1..(n - 1)
          /\ \A j \in 1..(n - 1) : stack'[j] = stack[j]
      BY <1>2, <2>1, <2>2
    <2>4. \A j \in 1..(n - 1) : stack[j] # t
      BY <1>2, <2>1 DEF StackOnce
    <2> QED BY <1>2, <2>1, <2>3, <2>4
  <1> HIDE DEF t, n
  <1>5. \A k \in keys : \A x \in Members(k) :
           color'[x] = IF k = t THEN Registers[i] ELSE color[k]
    <2> SUFFICES ASSUME NEW k \in keys, NEW x \in Members(k)
                 PROVE  color'[x] = IF k = t THEN Registers[i] ELSE color[k]
      OBVIOUS
    <2>1. x \in fn.locals /\ color[x] = color[k]
      BY <1>2
    <2>2. k # t => x \notin Members(t)
      BY <1>2, <1>4 DEF OneOwner
    <2> QED BY <1>1, <1>2, <2>1, <2>2
  <1>6. \A k \in keys : color'[k] = IF k = t THEN Registers[i] ELSE color[k]
    BY <1>5 DEF Members
  <1>7. color' \in [fn.locals -> Reg \cup {None}]
    BY <1>1, <1>2, <1>3
  <1>8. TypeOK'
    BY <1>1, <1>2, <1>4, <1>7 DEF TypeOK
  <1>9. OneOwner' /\ AdjGraph' /\ MovGraph' /\ SelectInv' /\ Published'
    BY <1>1, <1>2 DEF OneOwner, Members, AdjGraph, MovGraph, SelectInv, Published, Active
  <1>10. StackOnce'
    BY <1>2, <1>4 DEF StackOnce
  <1>11. Precolored'
    BY <1>1, <1>2, <1>4, <1>6 DEF Precolored
  <1>12. AssignInv'
    <2>1. \A k \in keys : \A x \in Members(k) : color'[x] = color'[k]
      BY <1>5, <1>6
    <2>2. \A k \in keys : color'[k] = None <=> \E j \in DOMAIN stack' : stack'[j] = k
      <3> TAKE k \in keys
      <3>1. CASE k = t
        BY <1>3, <1>4, <1>6, <3>1
      <3>2. CASE k # t
        <4>1. (\E j \in 1..n : stack[j] = k) <=> (\E j \in 1..(n - 1) : stack[j] = k)
          BY <1>4, <3>2
        <4> QED BY <1>2, <1>4, <1>6, <3>2, <4>1
      <3> QED BY <3>1, <3>2
    <2> QED BY <1>1, <2>1, <2>2 DEF AssignInv, Members
  <1>13. EdgesKept'
    <2> SUFFICES ASSUME NEW u \in fn.locals, NEW v \in fn.locals,
                        v \in Interference(fn)[u], u # v,
                        NEW a \in keys, NEW b \in keys, u \in Members(a), v \in Members(b)
                 PROVE  Kept(a, b)'
      BY <1>1 DEF EdgesKept, Members
    <2>1. Kept(a, b) /\ a # b
      BY <1>2 DEF EdgesKept, Kept
    <2>2. ASSUME NEW c \in keys, NEW d \in keys, c # d, Waits(c, d)
          PROVE  Waits(c, d)' \/ Apart(c, d)'
      <3>1. PICK j \in 1..n :
              stack[j] = c /\ (\A l \in 1..j : stack[l] # d) /\ adj[c] \cap Members(d) # {}
        BY <1>4, <2>2 DEF Waits
      <3>2. CASE j = n
        <4>1. c = t /\ color[d] # None
          BY <1>2, <1>4, <3>1, <3>2
        <4>2. PICK x : x \in adj[t] /\ x \in Members(d)
          BY <3>1, <4>1
        <4>3. color[d] \in UsedColors(t)
          BY <1>2, <4>1, <4>2 DEF UsedColors
        <4> QED BY <1>1, <1>3, <1>6, <2>2, <4>1, <4>3 DEF Apart
      <3>3. CASE j # n
        <4>1. j \in 1..(n - 1) /\ \A l \in 1..j : l \in 1..(n - 1)
          BY <1>4, <3>3
        <4>2. j \in DOMAIN stack' /\ stack'[j] = c /\ \A l \in 1..j : stack'[l] # d
          BY <1>4, <3>1, <4>1
        <4> QED BY <1>1, <3>1, <4>2 DEF Waits, Members
      <3> QED BY <3>2, <3>3
    <2>3. CASE Apart(a, b)
      <3>1. color[t] = None
        BY <1>2, <1>4
      <3> QED BY <1>1, <1>6, <2>1, <2>3, <3>1 DEF Kept, Apart
    <2>4. CASE Waits(a, b)
      BY <1>1, <2>1, <2>2, <2>4 DEF Kept
    <2>5. CASE Waits(b, a)
      BY <1>1, <2>1, <2>2, <2>5 DEF Kept, Apart
    <2> QED BY <1>1, <2>1, <2>3, <2>4, <2>5 DEF Kept
  <1> QED BY <1>1, <1>8, <1>9, <1>10, <1>11, <1>12, <1>13 DEF IInv

\* A popped node without a free colour is spilled and the allocation starts again.
LEMMA ActualSpillInv == IInv /\ ActualSpill => IInv'
  <1> SUFFICES ASSUME IInv, ActualSpill PROVE IInv'
    OBVIOUS
  <1>1. /\ pc = "assign" /\ pc' = "build" /\ stack # <<>> /\ stack' = <<>>
        /\ fn' = SpillCode(fn, Top) /\ varToReg' = varToReg
    BY DEF ActualSpill
  <1>2. Top \notin Reg
    BY <1>1, AssignFacts, EmptySeq, ElementOfSeq DEF Top, Last
  <1>3. Reg \subseteq fn'.locals
    BY <1>1, <1>2, AssignFacts, RewritingKeepsRegisters DEF TypeOK
  <1> QED BY <1>1, <1>3, AssignFacts DEF IInv, TypeOK, Built

\* __allocate__ publishes the colour of every node and of what was merged into it.
LEMMA AllocateInv == IInv /\ Allocate => IInv'
  <1> SUFFICES ASSUME IInv, Allocate PROVE IInv'
    OBVIOUS
  <1> DEFINE Owner(x) == CHOOSE k \in keys : x \in Members(k)
             Colored  == UNION {Members(k) : k \in {k \in keys : ~Uncolored(k)}}
  <1>1. /\ pc = "assign" /\ pc' = "done" /\ stack = <<>>
        /\ varToReg' = [x \in Colored |-> color[Owner(x)]]
        /\ UNCHANGED <<fn, keys, adj, mov, coal, stacked, color, stack>>
    BY DEF Allocate, graph
  <1>2. /\ TypeOK /\ OneOwner /\ Precolored /\ AdjGraph /\ MovGraph /\ StackOnce
        /\ EdgesKept /\ color \in [fn.locals -> Reg \cup {None}]
        /\ \A k \in keys : \A x \in Members(k) : color[x] = color[k] /\ x \in fn.locals
        /\ \A k \in keys : color[k] = None <=> \E j \in DOMAIN stack : stack[j] = k
    BY <1>1, AssignFacts
  <1>3. \A k \in keys : ~Uncolored(k)
    BY <1>1, <1>2 DEF Uncolored
  <1>4. \A x \in fn.locals : Owner(x) \in keys /\ x \in Members(Owner(x))
    BY <1>2 DEF OneOwner
  <1>5. Colored = fn.locals
    BY <1>2, <1>3, <1>4
  <1> HIDE DEF Owner, Colored
  <1>6. \A x \in fn.locals : color[Owner(x)] = color[x]
    BY <1>2, <1>4
  <1>7. varToReg' = color
    BY <1>1, <1>2, <1>5, <1>6
  <1>8. TypeOK'
    BY <1>1, <1>2 DEF TypeOK
  <1>9. /\ OneOwner' /\ Precolored' /\ AdjGraph' /\ MovGraph' /\ StackOnce' /\ SelectInv'
        /\ AssignInv' /\ Published'
    BY <1>1, <1>2, <1>7 DEF OneOwner, Members, Precolored, AdjGraph, Active, MovGraph,
                            StackOnce, SelectInv, AssignInv, Published
  <1>10. EdgesKept'
    BY <1>1, <1>2 DEF EdgesKept, Kept, Linked, Waits, Apart, Members, Active
  <1> QED BY <1>1, <1>8, <1>9, <1>10 DEF IInv

\* Every step keeps the invariant.
LEMMA NextInv == IInv /\ [Next]_vars => IInv'
  <1> SUFFICES ASSUME IInv, [Next]_vars PROVE IInv'
    OBVIOUS
  <1>1. CASE BuildGraph
    BY <1>1, BuildGraphInv
  <1>2. ASSUME NEW n \in keys, Simplify(n) \/ Freeze(n) \/ SelectSpill(n) PROVE IInv'
    BY <1>2, SimplifyInv, FreezeInv, SelectSpillInv
  <1>3. ASSUME NEW n \in keys, NEW m \in mov[n], Coalesce(n, m) PROVE IInv'
    BY <1>3, CoalesceInv
  <1>4. CASE StartAssign
    BY <1>4, StartAssignInv
  <1>5. ASSUME NEW i \in 1..K, AssignColor(i) PROVE IInv'
    BY <1>5, AssignColorInv
  <1>6. CASE ActualSpill
    BY <1>6, ActualSpillInv
  <1>7. CASE Allocate
    BY <1>7, AllocateInv
  <1>8. CASE UNCHANGED vars
    <2> USE <1>8 DEF vars
    <2>1. TypeOK' <=> TypeOK
      BY DEF TypeOK
    <2>2. /\ OneOwner' <=> OneOwner
          /\ Precolored' <=> Precolored
          /\ AdjGraph' <=> AdjGraph
          /\ MovGraph' <=> MovGraph
          /\ StackOnce' <=> StackOnce
      BY DEF OneOwner, Members, Precolored, AdjGraph, Active, MovGraph, StackOnce
    <2>3. /\ SelectInv' <=> SelectInv
          /\ AssignInv' <=> AssignInv
          /\ Published' <=> Published
      BY DEF SelectInv, AssignInv, Members, Published
    <2>4. EdgesKept' <=> EdgesKept
      BY DEF EdgesKept, Kept, Linked, Waits, Apart, Members, Active
    <2> QED BY <2>1, <2>2, <2>3, <2>4 DEF IInv, Built
  <1> QED BY <1>1, <1>2, <1>3, <1>4, <1>5, <1>6, <1>7, <1>8 DEF Next

\* The inductive invariant holds of every run of the allocator.
THEOREM Inductive == Spec => []IInv
  <1>1. Init => IInv
    BY InitInv
  <1>2. IInv /\ [Next]_vars => IInv'
    BY NextInv
  <1> QED BY <1>1, <1>2, PTL DEF Spec

-----------------------------------------------------------------------------
(* What follows from it. *)

\* The state of the allocator keeps its types: in particular physical registers
\* stay in the graph, are never pushed and never leave the function.
THEOREM TypeCorrect == Spec => []TypeOK
  <1>1. IInv => TypeOK
    BY DEF IInv
  <1> QED BY <1>1, Inductive, PTL

\* Colours are proper in the published allocation because they are in the graph.
LEMMA ColoringFromInv == IInv => ProperColoring
  <1> SUFFICES ASSUME IInv, pc \in {"assign", "done"},
                      NEW u \in fn.locals, NEW v \in Interference(fn)[u] \ {u},
                      ~Uncolored(u), ~Uncolored(v)
               PROVE  color[u] # color[v]
    BY DEF ProperColoring
  <1>1. OneOwner /\ AssignInv /\ EdgesKept
    BY DEF IInv, Built
  <1>2. v \in fn.locals
    BY InterferenceGraph
  <1>3. PICK a \in keys, b \in keys : u \in Members(a) /\ v \in Members(b)
    BY <1>1, <1>2 DEF OneOwner
  <1>4. color[a] = color[u] /\ color[b] = color[v]
    BY <1>1, <1>3 DEF AssignInv
  <1>5. Kept(a, b)
    BY <1>1, <1>2, <1>3 DEF EdgesKept
  <1>6. ~Waits(a, b) /\ ~Waits(b, a)
    BY <1>1, <1>3, <1>4 DEF AssignInv, Waits, Uncolored
  <1> QED BY <1>4, <1>5, <1>6 DEF Kept, Apart

\* Two variables that interfere in the function never hold the same colour, for
\* any order in which nodes are simplified, coalesced, frozen and spilled.
THEOREM ColoringIsProper == Spec => []ProperColoring
  BY ColoringFromInv, Inductive, PTL

\* Every variable kept in a register is a node or was merged into one.
LEMMA PlacedFromInv == IInv => EveryVariablePlaced
  <1> SUFFICES ASSUME IInv, pc = "done"
               PROVE  DOMAIN varToReg = fn.locals /\ None \notin {varToReg[v] : v \in fn.locals}
    BY DEF EveryVariablePlaced
  <1>1. /\ OneOwner /\ AssignInv /\ stack = <<>> /\ varToReg = color
        /\ color \in [fn.locals -> Reg \cup {None}]
    BY DEF IInv, Built, Published, TypeOK
  <1>2. ASSUME NEW v \in fn.locals PROVE color[v] # None
    <2>1. PICK k \in keys : v \in Members(k)
      BY <1>1 DEF OneOwner
    <2> QED BY <1>1, <2>1 DEF AssignInv
  <1> QED BY <1>1, <1>2

\* When the allocator returns, no variable that is to live in a register is left
\* without one, the coalesced ones included.
THEOREM EveryVariableIsPlaced == Spec => []EveryVariablePlaced
  BY PlacedFromInv, Inductive, PTL

\* The initial states are initial states of RegisterAllocation.
LEMMA PromiseInit == Init => Promise!Init
  BY DEF Init, Promise!Init

\* Every step is a step of RegisterAllocation or leaves its variables alone.
LEMMA PromiseStep == IInv /\ [Next]_vars => [Promise!Next]_<<fn, varToReg>>
  <1> SUFFICES ASSUME IInv, [Next]_vars PROVE [Promise!Next]_<<fn, varToReg>>
    OBVIOUS
  <1>1. CASE BuildGraph
    <2>1. varToReg = <<>> /\ varToReg' = varToReg /\ fn' = RewriteLargeOffset(fn)
      BY <1>1 DEF BuildGraph, IInv
    <2> QED BY <2>1 DEF Promise!Next, Promise!Address
  <1>2. ASSUME NEW n \in keys, Simplify(n) \/ Freeze(n) \/ SelectSpill(n)
        PROVE  UNCHANGED <<fn, varToReg>>
    BY <1>2 DEF Simplify, Freeze, SelectSpill
  <1>3. ASSUME NEW n \in keys, NEW m \in mov[n], Coalesce(n, m)
        PROVE  UNCHANGED <<fn, varToReg>>
    BY <1>3 DEF Coalesce
  <1>4. CASE StartAssign
    BY <1>4 DEF StartAssign
  <1>5. ASSUME NEW i \in 1..K, AssignColor(i) PROVE UNCHANGED <<fn, varToReg>>
    BY <1>5 DEF AssignColor
  <1>6. CASE ActualSpill
    <2>1. /\ pc = "assign" /\ stack # <<>> /\ fn' = SpillCode(fn, Top)
          /\ varToReg' = varToReg
      BY <1>6 DEF ActualSpill
    <2>2. varToReg = <<>> /\ Top \in fn.locals /\ Top \notin Reg
      BY <2>1, AssignFacts, EmptySeq, ElementOfSeq DEF Top, Last
    <2> QED BY <2>1, <2>2 DEF Promise!Next, Promise!Spill
  <1>7. CASE Allocate
    <2>1. pc = "assign" /\ pc' = "done" /\ fn' = fn /\ color' = color
      BY <1>7 DEF Allocate
    <2>2. varToReg = <<>>
      BY <2>1, AssignFacts
    <2>3. IInv'
      BY NextInv
    <2>10. ProperColoring'
      BY <2>3, ColoringFromInv, PTL
    <2>11. EveryVariablePlaced'
      BY <2>3, PlacedFromInv, PTL
    <2>4. /\ varToReg' = color' /\ Precolored' /\ ProperColoring' /\ EveryVariablePlaced'
          /\ color' \in [fn'.locals -> Reg \cup {None}]
      BY <2>1, <2>3, <2>10, <2>11 DEF IInv, Built, Published, TypeOK
    <2>5. \A v \in fn.locals : color[v] # None
      BY <2>1, <2>4 DEF EveryVariablePlaced
    <2>6. color \in [fn.locals -> Reg]
      BY <2>1, <2>4, <2>5
    <2>7. \A u \in fn.locals : \A v \in Interference(fn)[u] \ {u} : color[u] # color[v]
      <3>1. \A u \in fn.locals : Interference(fn)[u] \subseteq fn.locals
        BY InterferenceGraph
      <3> QED BY <2>1, <2>4, <2>5, <3>1 DEF ProperColoring, Uncolored
    <2>8. \A r \in Reg : color[r] = r
      BY <2>1, <2>4 DEF Precolored
    <2> QED BY <2>1, <2>2, <2>4, <2>6, <2>7, <2>8
            DEF Promise!Next, Promise!Allocate, Promise!SoundFor
  <1>8. CASE UNCHANGED vars
    BY <1>8 DEF vars
  <1> QED BY <1>1, <1>2, <1>3, <1>4, <1>5, <1>6, <1>7, <1>8 DEF Next

\* Graph colouring is one way to keep the promise of RegisterAllocation: every
\* step moves a variable that is no register to the frame, rewrites far slots,
\* publishes a sound allocation, or changes nothing the promise speaks of.
THEOREM Refinement == Spec => KeepsPromise
  <1>1. Init => Promise!Init
    BY PromiseInit
  <1>2. IInv /\ [Next]_vars => [Promise!Next]_<<fn, varToReg>>
    BY PromiseStep
  <1> QED BY <1>1, <1>2, Inductive, PTL DEF Spec, KeepsPromise, Promise!Spec

-----------------------------------------------------------------------------
(* The code under the graph. *)

\* Between two steps the code only changes by the two rewritings.
LEMMA CodeSteps ==
  ASSUME IInv, [Next]_vars
  PROVE  \/ pc = "build" /\ BuildGraph
         \/ pc' = "build" /\ Top \in fn.locals \ Reg /\ fn' = SpillCode(fn, Top)
         \/ fn' = fn /\ (pc' = pc \/ (pc # "build" /\ pc' \in {"assign", "done"}))
  <1>1. CASE BuildGraph
    BY <1>1 DEF BuildGraph
  <1>2. CASE ActualSpill
    <2>1. pc = "assign" /\ stack # <<>> /\ pc' = "build" /\ fn' = SpillCode(fn, Top)
      BY <1>2 DEF ActualSpill
    <2>2. Top \in stacked /\ stacked \subseteq fn.locals \ Reg
      BY <2>1, AssignFacts, EmptySeq, ElementOfSeq DEF Top, Last, TypeOK
    <2> QED BY <2>1, <2>2
  <1>3. ASSUME NEW n \in keys, Simplify(n) \/ Freeze(n) \/ SelectSpill(n)
        PROVE  fn' = fn /\ pc' = pc
    BY <1>3 DEF Simplify, Freeze, SelectSpill
  <1>4. ASSUME NEW n \in keys, NEW m \in mov[n], Coalesce(n, m)
        PROVE  fn' = fn /\ pc' = pc
    BY <1>4 DEF Coalesce
  <1>5. ASSUME NEW i \in 1..K, AssignColor(i)
        PROVE  fn' = fn /\ pc' = pc
    BY <1>5 DEF AssignColor
  <1>6. CASE StartAssign
    BY <1>6 DEF StartAssign
  <1>7. CASE Allocate
    BY <1>7 DEF Allocate
  <1>8. CASE UNCHANGED vars
    BY <1>8 DEF vars
  <1> QED BY <1>1, <1>2, <1>3, <1>4, <1>5, <1>6, <1>7, <1>8 DEF Next

\* Each block of the code is a sequence of instructions, and once the far addresses
\* are computed apart each load and store reaches what it names.
CodeInv ==
  /\ HasBlocks(fn)
  /\ pc # "build" => InReach(fn)

\* Every state's code has blocks, and its far slots are addressed once they have been looked at.
LEMMA CodeInductive == Spec => []CodeInv
<1>1. Init => CodeInv
  <2> SUFFICES ASSUME Init PROVE CodeInv
    OBVIOUS
  <2>1. PICK p \in Programs : fn = CreateRegisters(Functions[p])
    BY DEF Init
  <2>2. Closed(fn)
    BY <2>1, FunctionAssumption, CreateRegistersClosed
  <2> QED BY <2>2 DEF Init, CodeInv, Closed, HasBlocks
<1>2. IInv /\ CodeInv /\ [Next]_vars => CodeInv'
  <2> SUFFICES ASSUME IInv, CodeInv, [Next]_vars PROVE CodeInv'
    OBVIOUS
  <2>1. CASE pc = "build" /\ BuildGraph
    <3>1. fn' = RewriteLargeOffset(fn)
      BY <2>1 DEF BuildGraph
    <3> QED BY <3>1, RewritingKeepsBlocks, AddressedInReach DEF CodeInv
  <2>2. CASE pc' = "build" /\ fn' = SpillCode(fn, Top)
    BY <2>2, RewritingKeepsBlocks DEF CodeInv
  <2>3. CASE fn' = fn /\ (pc' = pc \/ pc # "build")
    BY <2>3 DEF CodeInv
  <2> QED BY <2>1, <2>2, <2>3, CodeSteps
<1> QED BY <1>1, <1>2, Inductive, PTL DEF Spec

\* Every load and store of the allocated code reaches the stack object it names,
\* however far later spills have moved it from sp.
THEOREM Reaches == Spec => []SlotsInReach
<1>1. CodeInv => SlotsInReach
  <2> SUFFICES ASSUME CodeInv, pc = "done", NEW p \in Points(fn),
                      At(fn, p).op \in {"load", "store"}, At(fn, p).mem # None
               PROVE  ~Far(fn, At(fn, p).mem)
    BY DEF SlotsInReach, At
  <2> QED BY DEF CodeInv, InReach, Instructions
<1> QED BY <1>1, CodeInductive, PTL

\* The names the allocator invents are told apart, and are not those of the
\* functions it is given (unique_name counts through the whole compilation).
FreshNames ==
  /\ OneToOne
  /\ \A p \in Programs : NamesLeft(CreateRegisters(Functions[p]))

\* The code names variables that are kept in registers only, and there are names
\* for the variables to come.
ClosedInv == Closed(fn) /\ NamesLeft(fn) /\ NoNullNode

\* A step of the allocator keeps the code closed, and does not crash.
LEMMA ClosedStep ==
  ASSUME OneToOne, IInv, ClosedInv, [Next]_vars
  PROVE  ClosedInv'
<1>1. CASE pc = "build" /\ BuildGraph
  <2>1. /\ fn' = RewriteLargeOffset(fn)
        /\ pc' = IF MissingNode(fn') THEN "crashed" ELSE "select"
    BY <1>1 DEF BuildGraph
  <2>2. Closed(fn') /\ NamesLeft(fn')
    BY <2>1, RewriteLargeOffsetClosed DEF ClosedInv
  <2>3. Reg \subseteq fn'.locals
    BY <2>1, RewritingKeepsRegisters DEF IInv, TypeOK
  <2>4. ~MissingNode(fn')
    BY <2>2, <2>3, ClosedConflicts
  <2> QED BY <2>1, <2>2, <2>4 DEF ClosedInv, NoNullNode
<1>2. CASE pc' = "build" /\ Top \in fn.locals \ Reg /\ fn' = SpillCode(fn, Top)
  <2>1. Closed(fn') /\ NamesLeft(fn')
    BY <1>2, SpillClosed DEF ClosedInv
  <2> QED BY <1>2, <2>1 DEF ClosedInv, NoNullNode
<1>3. CASE fn' = fn /\ (pc' = pc \/ pc' \in {"assign", "done"})
  BY <1>3 DEF ClosedInv, NoNullNode
<1> QED BY <1>1, <1>2, <1>3, CodeSteps

\* However often the function is spilled and rewritten, building its graph finds a
\* node for every variable it meets: spilling leaves no instruction behind that
\* names the variable it moved to the frame.
THEOREM NoMissingNode ==
  ASSUME FreshNames
  PROVE  Spec => []NoNullNode
<1>1. Init => ClosedInv
  <2> SUFFICES ASSUME Init PROVE ClosedInv
    OBVIOUS
  <2>1. PICK p \in Programs : fn = CreateRegisters(Functions[p])
    BY DEF Init
  <2>2. Closed(fn) /\ NamesLeft(fn)
    BY <2>1, FunctionAssumption, CreateRegistersClosed DEF FreshNames
  <2> QED BY <2>2 DEF Init, ClosedInv, NoNullNode
<1>2. IInv /\ ClosedInv /\ [Next]_vars => ClosedInv'
  BY ClosedStep DEF FreshNames
<1>3. ClosedInv => NoNullNode
  BY DEF ClosedInv
<1> QED BY <1>1, <1>2, <1>3, Inductive, PTL DEF Spec
=============================================================================
