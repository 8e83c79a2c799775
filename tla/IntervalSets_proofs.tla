------------------------ MODULE IntervalSets_proofs ------------------------
(***************************************************************************)
(* Proofs about the interval sets, for every width of words and any other  *)
(* operands.                                                               *)
(***************************************************************************)
EXTENDS IntervalSets, NumberLemmas, SequenceTheorems

-----------------------------------------------------------------------------
(* Words. *)

\* The least and the largest word.
LEMMA WordBounds ==
  /\ MinWord \in Int /\ MaxWord \in Int
  /\ MinWord <= -2 /\ MaxWord = -MinWord - 1
<1>1. Bits - 2 \in Nat /\ (Bits - 2) + 1 = Bits - 1
  BY BitsAssumption
<1>2. Pow2[Bits - 1] = 2 * Pow2[Bits - 2] /\ Pow2[Bits - 2] \in Nat \ {0}
  BY <1>1, Pow2Equations
<1> QED BY <1>2 DEF MinWord, MaxWord

\* What wrapping makes of an integer, and of the two beside the words.
LEMMA WrappedWord ==
  ASSUME NEW n \in Int
  PROVE  /\ Wrapped(n) \in Words
         /\ n \in Words => Wrapped(n) = n
         /\ n = MaxWord + 1 => Wrapped(n) = MinWord
         /\ n = MinWord - 1 => Wrapped(n) = MaxWord
<1> DEFINE m == MaxWord - MinWord + 1
           r == (n - MinWord) % m
<1>1. m \in Nat \ {0} /\ n - MinWord \in Int
  BY WordBounds
<1>2. Wrapped(n) = r + MinWord
  BY DEF Wrapped
<1>3. r \in 0..(m - 1)
  BY <1>1
<1>4. n \in Words => r = n - MinWord
  BY <1>1, WordBounds DEF Words
<1>5. n = MaxWord + 1 => r = 0
  BY <1>1, WordBounds
<1>6. n = MinWord - 1 => r = m - 1
  BY <1>1, WordBounds
<1> QED BY <1>2, <1>3, <1>4, <1>5, <1>6, WordBounds DEF Words

\* The end points that Least and Greatest choose.
LEMMA LeastOf ==
  ASSUME NEW T \in SUBSET Words, T # {}
  PROVE  Least(T) \in T /\ \A k \in T : Least(T) <= k
<1> DEFINE U == {k - MinWord : k \in T}
<1>1. \A k \in T : k \in Int /\ k - MinWord \in Nat
  BY WordBounds DEF Words
<1>2. U \in SUBSET Nat /\ U # {}
  BY <1>1
<1>3. PICK u \in U : \A n \in U : u <= n
  <2> HIDE DEF U
  <2> QED BY <1>2, LeastNumber
<1>4. PICK m \in T : u = m - MinWord
  BY <1>3
<1>5. \A k \in T : m <= k
  BY <1>1, <1>3, <1>4, WordBounds
<1> QED BY <1>5 DEF Least

\* A set of words that is not empty has a greatest one.
LEMMA GreatestOf ==
  ASSUME NEW T \in SUBSET Words, T # {}
  PROVE  Greatest(T) \in T /\ \A k \in T : k <= Greatest(T)
<1> DEFINE U == {MaxWord - k : k \in T}
<1>1. \A k \in T : k \in Int /\ MaxWord - k \in Nat
  BY WordBounds DEF Words
<1>2. U \in SUBSET Nat /\ U # {}
  BY <1>1
<1>3. PICK u \in U : \A n \in U : u <= n
  <2> HIDE DEF U
  <2> QED BY <1>2, LeastNumber
<1>4. PICK m \in T : u = MaxWord - m
  BY <1>3
<1>5. ASSUME NEW k \in T PROVE k <= m
  <2>1. MaxWord - k \in U
    OBVIOUS
  <2>2. MaxWord - m <= MaxWord - k
    BY <1>3, <1>4, <2>1
  <2> QED BY <1>1, <2>2, WordBounds
<1> QED BY <1>5 DEF Greatest

\* The least and the greatest of two words.
LEMMA EndsOfTwo ==
  ASSUME NEW a \in Words, NEW b \in Words
  PROVE  /\ Least({a, b}) = IF a <= b THEN a ELSE b
         /\ Greatest({a, b}) = IF a <= b THEN b ELSE a
         /\ Least({a, b}) \in Words /\ Greatest({a, b}) \in Words
<1>1. /\ Least({a, b}) \in {a, b} /\ Least({a, b}) <= a /\ Least({a, b}) <= b
      /\ Greatest({a, b}) \in {a, b} /\ a <= Greatest({a, b}) /\ b <= Greatest({a, b})
  BY LeastOf, GreatestOf
<1>2. a \in Int /\ b \in Int
  BY WordBounds DEF Words
<1> QED BY <1>1, <1>2

-----------------------------------------------------------------------------
(* Arithmetic on the bounds. *)

\* A quotient grows with its dividend.
LEMMA DivMonotone ==
  ASSUME NEW x \in Nat, NEW y \in Nat, NEW c \in Nat \ {0}, x <= y
  PROVE  Quot(x, c) <= Quot(y, c)
BY DEF Quot

\* A quotient by its two inequalities.
LEMMA DivBounds ==
  ASSUME NEW x \in Nat, NEW c \in Nat \ {0}
  PROVE  Quot(x, c) \in Nat /\ c * Quot(x, c) <= x /\ x < c * Quot(x, c) + c
BY DEF Quot

\* A quotient shrinks as its divisor grows.
LEMMA DivAntimonotone ==
  ASSUME NEW n \in Nat, NEW c \in Nat \ {0}, NEW d \in Nat \ {0}, c <= d
  PROVE  Quot(n, d) <= Quot(n, c)
<1> DEFINE q == Quot(n, d)
           p == Quot(n, c)
<1>1. q \in Nat /\ p \in Nat /\ d * q <= n /\ n < c * p + c
  BY DivBounds
<1> HIDE DEF q, p
<1>2. c * q <= d * q
  BY <1>1, TimesMonotone
<1>3. CASE q >= p + 1
  <2>1. c * (p + 1) <= c * q
    BY <1>1, <1>3, TimesMonotone
  <2> QED BY <1>1, <1>2, <2>1
<1> QED BY <1>1, <1>3 DEF q, p

\* Division of C, by the signs of its operands.
LEMMA DivPP ==
  ASSUME NEW a \in Int, NEW b \in Int, a >= 0, b > 0
  PROVE  Div(a, b) = Quot(a, b) /\ Div(a, b) \in Int /\ Div(a, b) >= 0
<1>1. Div(a, b) = Sign(a) * Sign(b) * Quot(Abs(a), Abs(b))
  BY DEF Div, Quot
<1>2. Sign(a) = 1 /\ Sign(b) = 1 /\ Abs(a) = a /\ Abs(b) = b /\ a \in Nat /\ b \in Nat \ {0}
  BY DEF Sign, Abs
<1>3. Quot(a, b) \in Nat
  BY <1>2, DivBounds
<1> QED BY <1>1, <1>2, <1>3

\* Division of C by signs: a negative dividend,
LEMMA DivNP ==
  ASSUME NEW a \in Int, NEW b \in Int, a < 0, b > 0
  PROVE  Div(a, b) = -Quot(-a, b) /\ Div(a, b) \in Int /\ Div(a, b) <= 0
<1>1. Div(a, b) = Sign(a) * Sign(b) * Quot(Abs(a), Abs(b))
  BY DEF Div, Quot
<1>2. Sign(a) = -1 /\ Sign(b) = 1 /\ Abs(a) = -a /\ Abs(b) = b /\ -a \in Nat /\ b \in Nat \ {0}
  BY DEF Sign, Abs
<1>3. Quot(-a, b) \in Nat
  BY <1>2, DivBounds
<1> QED BY <1>1, <1>2, <1>3

\* a negative divisor,
LEMMA DivPN ==
  ASSUME NEW a \in Int, NEW b \in Int, a >= 0, b < 0
  PROVE  Div(a, b) = -Quot(a, -b) /\ Div(a, b) \in Int /\ Div(a, b) <= 0
<1>1. Div(a, b) = Sign(a) * Sign(b) * Quot(Abs(a), Abs(b))
  BY DEF Div, Quot
<1>2. Sign(a) = 1 /\ Sign(b) = -1 /\ Abs(a) = a /\ Abs(b) = -b /\ a \in Nat /\ -b \in Nat \ {0}
  BY DEF Sign, Abs
<1>3. Quot(a, -b) \in Nat
  BY <1>2, DivBounds
<1> QED BY <1>1, <1>2, <1>3

\* and both negative.
LEMMA DivNN ==
  ASSUME NEW a \in Int, NEW b \in Int, a < 0, b < 0
  PROVE  Div(a, b) = Quot(-a, -b) /\ Div(a, b) \in Int /\ Div(a, b) >= 0
<1>1. Div(a, b) = Sign(a) * Sign(b) * Quot(Abs(a), Abs(b))
  BY DEF Div, Quot
<1>2. Sign(a) = -1 /\ Sign(b) = -1 /\ Abs(a) = -a /\ Abs(b) = -b /\ -a \in Nat /\ -b \in Nat \ {0}
  BY DEF Sign, Abs
<1>3. Quot(-a, -b) \in Nat
  BY <1>2, DivBounds
<1> QED BY <1>1, <1>2, <1>3

Between(r, x, y) == (x <= r /\ r <= y) \/ (y <= r /\ r <= x)

\* A product lies between the products of the ends of one factor.
LEMMA ProductBetween ==
  ASSUME NEW c \in Int, NEW x \in Int, NEW y \in Int, NEW v \in Int, x <= v, v <= y
  PROVE  Between(c * v, c * x, c * y) /\ Between(v * c, x * c, y * c)
<1>1. CASE c >= 0
  BY <1>1, TimesMonotone DEF Between
<1>2. CASE c <= 0
  BY <1>2, TimesMonotone DEF Between
<1> QED BY <1>1, <1>2

\* A quotient lies between the quotients of the ends of the dividend.
LEMMA DividendBetween ==
  ASSUME NEW b \in Int \ {0}, NEW x \in Int, NEW y \in Int, NEW v \in Int, x <= v, v <= y
  PROVE  Between(Div(v, b), Div(x, b), Div(y, b))
<1>1. ASSUME NEW m \in Int, NEW n \in Int, m <= n
      PROVE  (b > 0 => Div(m, b) <= Div(n, b)) /\ (b < 0 => Div(n, b) <= Div(m, b))
  <2>1. CASE m >= 0 /\ b > 0
    <3>1. Div(m, b) = Quot(m, b) /\ Div(n, b) = Quot(n, b)
      BY <1>1, <2>1, DivPP
    <3> QED BY <1>1, <2>1, <3>1, DivMonotone
  <2>2. CASE m >= 0 /\ b < 0
    <3>1. Div(m, b) = -Quot(m, -b) /\ Div(n, b) = -Quot(n, -b)
      BY <1>1, <2>2, DivPN
    <3>2. m \in Nat /\ n \in Nat /\ -b \in Nat \ {0}
      BY <1>1, <2>2
    <3>3. Quot(m, -b) <= Quot(n, -b) /\ Quot(m, -b) \in Int /\ Quot(n, -b) \in Int
      <4>1. Quot(m, -b) <= Quot(n, -b)
        BY <1>1, <3>2, DivMonotone
      <4> QED BY <3>2, <4>1, DivBounds
    <3> QED BY <2>2, <3>1, <3>3
  <2>3. CASE m < 0 /\ n >= 0 /\ b > 0
    <3>1. Div(m, b) <= 0 /\ Div(n, b) >= 0 /\ Div(m, b) \in Int /\ Div(n, b) \in Int
      BY <2>3, DivNP, DivPP
    <3> QED BY <2>3, <3>1
  <2>4. CASE m < 0 /\ n >= 0 /\ b < 0
    <3>1. Div(m, b) >= 0 /\ Div(n, b) <= 0 /\ Div(m, b) \in Int /\ Div(n, b) \in Int
      BY <2>4, DivNN, DivPN
    <3> QED BY <2>4, <3>1
  <2>5. CASE n < 0 /\ b > 0
    <3>1. Div(m, b) = -Quot(-m, b) /\ Div(n, b) = -Quot(-n, b)
      BY <1>1, <2>5, DivNP
    <3>2. -m \in Nat /\ -n \in Nat /\ b \in Nat \ {0} /\ -n <= -m
      BY <1>1, <2>5
    <3>3. Quot(-n, b) <= Quot(-m, b) /\ Quot(-n, b) \in Int /\ Quot(-m, b) \in Int
      <4>1. Quot(-n, b) <= Quot(-m, b)
        BY <1>1, <3>2, DivMonotone
      <4> QED BY <3>2, <4>1, DivBounds
    <3> QED BY <2>5, <3>1, <3>3
  <2>6. CASE n < 0 /\ b < 0
    <3>1. Div(m, b) = Quot(-m, -b) /\ Div(n, b) = Quot(-n, -b)
      BY <1>1, <2>6, DivNN
    <3>2. -m \in Nat /\ -n \in Nat /\ -b \in Nat \ {0} /\ -n <= -m
      BY <1>1, <2>6
    <3>3. Quot(-n, -b) <= Quot(-m, -b)
      BY <3>2, DivMonotone
    <3> QED BY <2>6, <3>1, <3>3
  <2> QED BY <2>1, <2>2, <2>3, <2>4, <2>5, <2>6
<1>2. CASE b > 0
  BY <1>1, <1>2 DEF Between
<1>3. CASE b < 0
  BY <1>1, <1>3 DEF Between
<1> QED BY <1>2, <1>3

\* A quotient lies between those of the ends of the divisor, when they are on one side of 0.
LEMMA DivisorBetween ==
  ASSUME NEW a \in Int, NEW x \in Int, NEW y \in Int, NEW v \in Int, x <= v, v <= y, x > 0 \/ y < 0
  PROVE  Between(Div(a, v), Div(a, x), Div(a, y))
<1>1. CASE a >= 0 /\ x > 0
  <2>1. Div(a, v) = Quot(a, v) /\ Div(a, x) = Quot(a, x) /\ Div(a, y) = Quot(a, y)
    BY <1>1, DivPP
  <2>2. /\ a \in Nat
        /\ x \in Nat \ {0} /\ v \in Nat \ {0} /\ y \in Nat \ {0}
    BY <1>1
  <2>3. /\ Quot(a, y) <= Quot(a, v) /\ Quot(a, v) <= Quot(a, x)
        /\ Quot(a, v) \in Int /\ Quot(a, x) \in Int /\ Quot(a, y) \in Int
    <3>1. Quot(a, y) <= Quot(a, v)
      BY <2>2, DivAntimonotone
    <3>2. Quot(a, v) <= Quot(a, x)
      BY <2>2, DivAntimonotone
    <3> QED BY <2>2, <3>1, <3>2, DivBounds
  <2> QED BY <2>1, <2>3 DEF Between
<1>2. CASE a < 0 /\ x > 0
  <2>1. Div(a, v) = -Quot(-a, v) /\ Div(a, x) = -Quot(-a, x) /\ Div(a, y) = -Quot(-a, y)
    BY <1>2, DivNP
  <2>2. /\ (-a) \in Nat
        /\ x \in Nat \ {0} /\ v \in Nat \ {0} /\ y \in Nat \ {0}
    BY <1>2
  <2>3. /\ Quot(-a, y) <= Quot(-a, v) /\ Quot(-a, v) <= Quot(-a, x)
        /\ Quot(-a, v) \in Int /\ Quot(-a, x) \in Int /\ Quot(-a, y) \in Int
    <3>1. Quot(-a, y) <= Quot(-a, v)
      BY <2>2, DivAntimonotone
    <3>2. Quot(-a, v) <= Quot(-a, x)
      BY <2>2, DivAntimonotone
    <3> QED BY <2>2, <3>1, <3>2, DivBounds
  <2> QED BY <2>1, <2>3 DEF Between
<1>3. CASE a >= 0 /\ y < 0
  <2>1. Div(a, v) = -Quot(a, -v) /\ Div(a, x) = -Quot(a, -x) /\ Div(a, y) = -Quot(a, -y)
    BY <1>3, DivPN
  <2>2. /\ a \in Nat
        /\ (-x) \in Nat \ {0} /\ (-v) \in Nat \ {0} /\ (-y) \in Nat \ {0}
    BY <1>3
  <2>3. /\ Quot(a, -x) <= Quot(a, -v) /\ Quot(a, -v) <= Quot(a, -y)
        /\ Quot(a, -v) \in Int /\ Quot(a, -x) \in Int /\ Quot(a, -y) \in Int
    <3>1. Quot(a, -x) <= Quot(a, -v)
      BY <2>2, DivAntimonotone
    <3>2. Quot(a, -v) <= Quot(a, -y)
      BY <2>2, DivAntimonotone
    <3> QED BY <2>2, <3>1, <3>2, DivBounds
  <2> QED BY <2>1, <2>3 DEF Between
<1>4. CASE a < 0 /\ y < 0
  <2>1. Div(a, v) = Quot(-a, -v) /\ Div(a, x) = Quot(-a, -x) /\ Div(a, y) = Quot(-a, -y)
    BY <1>4, DivNN
  <2>2. /\ (-a) \in Nat
        /\ (-x) \in Nat \ {0} /\ (-v) \in Nat \ {0} /\ (-y) \in Nat \ {0}
    BY <1>4
  <2>3. /\ Quot(-a, -x) <= Quot(-a, -v) /\ Quot(-a, -v) <= Quot(-a, -y)
        /\ Quot(-a, -v) \in Int /\ Quot(-a, -x) \in Int /\ Quot(-a, -y) \in Int
    <3>1. Quot(-a, -x) <= Quot(-a, -v)
      BY <2>2, DivAntimonotone
    <3>2. Quot(-a, -v) <= Quot(-a, -y)
      BY <2>2, DivAntimonotone
    <3> QED BY <2>2, <3>1, <3>2, DivBounds
  <2> QED BY <2>1, <2>3 DEF Between
<1> QED BY <1>1, <1>2, <1>3, <1>4

\* The rest of a division of numbers that are not negative.
LEMMA RestBounds ==
  ASSUME NEW a \in Nat, NEW b \in Nat \ {0}
  PROVE  0 <= Mod(a, b) /\ Mod(a, b) <= b - 1
<1>1. Div(a, b) = Quot(a, b)
  BY DivPP
<1>2. Mod(a, b) = a - b * Quot(a, b)
  BY <1>1 DEF Mod
<1> DEFINE q == Quot(a, b)
<1>3. q \in Nat /\ b * q <= a /\ a < b * q + b
  BY DivBounds
<1> HIDE DEF q
<1>4. b * q \in Int
  BY <1>3
<1> QED BY <1>2, <1>3, <1>4 DEF q

-----------------------------------------------------------------------------
(* Merging. *)

Intervals == {i \in Words \X Words : i[1] <= i[2]}

\* The ends of an interval.
LEMMA IntervalEnds ==
  ASSUME NEW i \in Intervals
  PROVE  /\ i[1] \in Words /\ i[2] \in Words /\ i = <<i[1], i[2]>>
         /\ i[1] \in Int /\ i[2] \in Int
         /\ MinWord <= i[1] /\ i[1] <= i[2] /\ i[2] <= MaxWord
BY WordBounds DEF Intervals, Words

\* There are finitely many intervals of words.
LEMMA IntervalsFinite == IsFiniteSet(Intervals)
<1>1. IsFiniteSet(Words)
  BY FS_Interval, WordBounds DEF Words
<1>2. IsFiniteSet(Words \X Words)
  BY <1>1, FS_Product
<1> QED BY <1>2, FS_Subset DEF Intervals

\* Two words in order make an interval.
LEMMA MakeInterval ==
  ASSUME NEW a \in Words, NEW b \in Words, a <= b
  PROVE  <<a, b>> \in Intervals
BY DEF Intervals

\* The hull of two intervals covers both and has its ends from them.
LEMMA HullOfTwo ==
  ASSUME NEW i \in Intervals, NEW j \in Intervals
  PROVE  /\ Hull(i, j) \in Intervals
         /\ Hull(i, j)[1] <= i[1] /\ Hull(i, j)[1] <= j[1]
         /\ i[2] <= Hull(i, j)[2] /\ j[2] <= Hull(i, j)[2]
         /\ Hull(i, j)[1] \in {i[1], j[1]} /\ Hull(i, j)[2] \in {i[2], j[2]}
<1>1. Hull(i, j)[1] = Least({i[1], j[1]}) /\ Hull(i, j)[2] = Greatest({i[2], j[2]})
      /\ Hull(i, j) = <<Hull(i, j)[1], Hull(i, j)[2]>>
  BY DEF Hull
<1>2. /\ Hull(i, j)[1] = IF i[1] <= j[1] THEN i[1] ELSE j[1]
      /\ Hull(i, j)[2] = IF i[2] <= j[2] THEN j[2] ELSE i[2]
  <2>1. i[1] \in Words /\ i[2] \in Words /\ j[1] \in Words /\ j[2] \in Words
    BY IntervalEnds
  <2>2. /\ Least({i[1], j[1]}) = IF i[1] <= j[1] THEN i[1] ELSE j[1]
        /\ Greatest({i[2], j[2]}) = IF i[2] <= j[2] THEN j[2] ELSE i[2]
    BY <2>1, EndsOfTwo
  <2> QED BY <1>1, <2>2
<1>3. /\ Hull(i, j)[1] \in Words /\ Hull(i, j)[2] \in Words
      /\ Hull(i, j)[1] <= Hull(i, j)[2]
  BY <1>2, IntervalEnds
<1>4. Hull(i, j) \in Intervals
  BY <1>1, <1>3, MakeInterval
<1> QED BY <1>2, <1>4, IntervalEnds

\* What the adjacency test says of two intervals in order.
LEMMA WhenAdjacent ==
  ASSUME NEW i \in Intervals, NEW j \in Intervals, i[1] <= j[1], j # Whole, wraps \in BOOLEAN
  PROVE  IntersectsOrAdjacent(i, j) <=>
           j[1] <= i[2] + 1 /\ ~(wraps /\ i[2] = MaxWord /\ j[2] = MaxWord)
<1> DEFINE upper == Least({i[2], j[2]})
<1>1. Greatest({i[1], j[1]}) = j[1]
  BY EndsOfTwo, IntervalEnds
<1>2. upper = (IF i[2] <= j[2] THEN i[2] ELSE j[2]) /\ upper \in Int /\ upper <= MaxWord
  BY EndsOfTwo, IntervalEnds
<1> HIDE DEF upper
<1>3. IntersectsOrAdjacent(i, j) <=> j[1] <= (IF wraps THEN Wrapped(upper + 1) ELSE upper + 1)
  BY <1>1 DEF IntersectsOrAdjacent, upper
<1>4. j[1] <= upper + 1 <=> j[1] <= i[2] + 1
  BY <1>2, IntervalEnds
<1>5. CASE ~wraps
  BY <1>3, <1>4, <1>5
<1>6. CASE wraps /\ upper # MaxWord
  <2>1. upper + 1 \in Words
    BY <1>2, <1>6, IntervalEnds, WordBounds DEF Words
  <2>2. Wrapped(upper + 1) = upper + 1
    BY <1>2, <2>1, WrappedWord
  <2>3. ~(i[2] = MaxWord /\ j[2] = MaxWord)
    BY <1>2, <1>6
  <2> QED BY <1>3, <1>4, <1>6, <2>2, <2>3
<1>7. CASE wraps /\ upper = MaxWord
  <2>1. Wrapped(upper + 1) = MinWord
    BY <1>2, <1>7, WrappedWord
  <2>2. i[2] = MaxWord /\ j[2] = MaxWord
    BY <1>2, <1>7, IntervalEnds, WordBounds
  <2>3. ~(j[1] <= MinWord)
    BY <2>2, IntervalEnds, WordBounds DEF Whole
  <2> QED BY <1>3, <1>7, <2>1, <2>2, <2>3
<1> QED BY <1>5, <1>6, <1>7

\* A sequence with its last element replaced.
LEMMA LastReplaced ==
  ASSUME NEW X, NEW s \in Seq(X), s # <<>>, NEW x \in X
  PROVE  LET d == Append(Front(s), x) IN
         /\ d \in Seq(X) /\ Len(d) = Len(s) /\ d[Len(s)] = x
         /\ \A k \in 1..(Len(s) - 1) : d[k] = s[k]
<1>1. Len(s) \in Nat \ {0} /\ Len(s) - 1 \in Nat
  OBVIOUS
<1>2. /\ Front(s) \in Seq(X) /\ Len(Front(s)) = Len(s) - 1
      /\ \A k \in 1..(Len(s) - 1) : Front(s)[k] = s[k]
  <2>1. \A k \in 1..(Len(s) - 1) : s[k] \in X
    OBVIOUS
  <2>2. PICK l \in Nat : l = Len(s) - 1
    BY <1>1
  <2>3. /\ SubSeq(s, 1, l) \in Seq(X) /\ Len(SubSeq(s, 1, l)) = l
        /\ \A k \in 1..l : SubSeq(s, 1, l)[k] = s[k]
    BY <2>1, <2>2, SubSeqProperties
  <2> QED BY <2>2, <2>3 DEF Front
<1> DEFINE f == Front(s)
<1> HIDE DEF f
<1>3. /\ Append(f, x) \in Seq(X) /\ Len(Append(f, x)) = Len(f) + 1
      /\ Append(f, x)[Len(f) + 1] = x /\ \A k \in 1..Len(f) : Append(f, x)[k] = f[k]
  BY <1>2 DEF f
<1> QED BY <1>1, <1>2, <1>3 DEF f

\* A sequence with an element after it.
LEMMA Appended ==
  ASSUME NEW X, NEW s \in Seq(X), NEW x \in X
  PROVE  LET d == Append(s, x) IN
         /\ d \in Seq(X) /\ Len(d) = Len(s) + 1 /\ d[Len(s) + 1] = x
         /\ \A k \in 1..Len(s) : d[k] = s[k]
OBVIOUS

\* One step of the loop of normalize: `last` is where the next interval may begin.
LEMMA MergeStep ==
  ASSUME NEW done \in Seq(Intervals), InOrder(done), NEW i \in Intervals, i # Whole,
         wraps \in BOOLEAN, done # <<>> => Last(done)[1] <= i[1]
  PROVE  /\ MergedInto(done, i) \in Seq(Intervals)
         /\ InOrder(MergedInto(done, i))
         /\ MergedInto(done, i) # <<>>
         /\ Last(MergedInto(done, i))[1] <= i[1]
         /\ i[2] <= Last(MergedInto(done, i))[2]
         /\ \A k \in DOMAIN done : /\ k \in DOMAIN MergedInto(done, i)
                                   /\ MergedInto(done, i)[k][1] <= done[k][1]
                                   /\ done[k][2] <= MergedInto(done, i)[k][2]
<1> DEFINE d == MergedInto(done, i)
           l == Last(done)
<1>1. CASE done # <<>> /\ IntersectsOrAdjacent(l, i)
  <2> DEFINE h == Hull(l, i)
             n == Len(done)
  <2>1. n \in Nat \ {0} /\ l = done[n] /\ l \in Intervals /\ DOMAIN done = 1..n
    BY <1>1 DEF Last
  <2>2. h \in Intervals /\ h[1] = l[1] /\ h[1] <= i[1] /\ i[2] <= h[2] /\ l[2] <= h[2]
    BY <1>1, <2>1, HullOfTwo, IntervalEnds
  <2>3. d = Append(Front(done), h)
    BY <1>1 DEF MergedInto
  <2> HIDE DEF h, l, d, n
  <2>4. d \in Seq(Intervals) /\ Len(d) = n /\ d[n] = h /\ \A k \in 1..(n - 1) : d[k] = done[k]
    BY <1>1, <2>2, <2>3, LastReplaced DEF n
  <2>5. d # <<>> /\ DOMAIN d = 1..n /\ Last(d) = h
    BY <2>1, <2>4 DEF Last
  <2>6. ASSUME NEW k \in DOMAIN d, NEW m \in DOMAIN d, k < m
        PROVE  /\ d[k][1] <= d[m][1]
               /\ d[k][2] + 1 < d[m][1] \/ (wraps /\ d[k][2] = MaxWord /\ d[m][2] = MaxWord)
    <3>1. k \in DOMAIN done /\ m \in DOMAIN done /\ d[k] = done[k]
      BY <2>1, <2>4, <2>5, <2>6
    <3>2. /\ done[k][1] <= done[m][1]
          /\ done[k][2] + 1 < done[m][1] \/ (wraps /\ done[k][2] = MaxWord /\ done[m][2] = MaxWord)
      BY <2>6, <3>1 DEF InOrder
    <3>3. CASE m = n
      <4>1. done[m][2] = MaxWord => h[2] = MaxWord
        BY <2>1, <2>2, <3>3, IntervalEnds
      <4> QED BY <2>1, <2>2, <2>4, <3>1, <3>2, <3>3, <4>1
    <3>4. CASE m # n
      BY <2>1, <2>4, <2>5, <3>1, <3>2, <3>4
    <3> QED BY <3>3, <3>4
  <2>7. InOrder(d)
    BY <2>6 DEF InOrder
  <2>8. ASSUME NEW k \in DOMAIN done
        PROVE  k \in DOMAIN d /\ d[k][1] <= done[k][1] /\ done[k][2] <= d[k][2]
    <3>1. k \in DOMAIN d /\ done[k] \in Intervals
      BY <2>1, <2>5
    <3>2. CASE k = n
      BY <2>1, <2>2, <2>4, <3>1, <3>2, IntervalEnds
    <3>3. CASE k # n
      <4>1. done[k][1] \in Int /\ done[k][2] \in Int
        BY <3>1, IntervalEnds
      <4> QED BY <2>1, <2>4, <3>1, <3>3, <4>1
    <3> QED BY <3>1, <3>2, <3>3
  <2> QED BY <2>2, <2>4, <2>5, <2>7, <2>8 DEF d
<1>2. CASE ~(done # <<>> /\ IntersectsOrAdjacent(l, i))
  <2> DEFINE n == Len(done)
  <2>1. n \in Nat /\ DOMAIN done = 1..n /\ (done # <<>> => n > 0 /\ l = done[n] /\ l \in Intervals)
    BY DEF Last
  <2>2. d = Append(done, i)
    BY <1>2 DEF MergedInto
  <2> HIDE DEF l, d, n
  <2>3. d \in Seq(Intervals) /\ Len(d) = n + 1 /\ d[n + 1] = i /\ \A k \in 1..n : d[k] = done[k]
    BY <2>2, Appended DEF n
  <2>4. d # <<>> /\ DOMAIN d = 1..(n + 1) /\ Last(d) = i
    BY <2>1, <2>3 DEF Last
  <2>5. ASSUME NEW k \in DOMAIN d, NEW m \in DOMAIN d, k < m
        PROVE  /\ d[k][1] <= d[m][1]
               /\ d[k][2] + 1 < d[m][1] \/ (wraps /\ d[k][2] = MaxWord /\ d[m][2] = MaxWord)
    <3>1. k \in DOMAIN done /\ d[k] = done[k] /\ done # <<>> /\ done[k] \in Intervals
      BY <2>1, <2>3, <2>4, <2>5
    <3>2. CASE m = n + 1
      <4>1. l \in Intervals /\ l = done[n] /\ l[1] <= i[1]
        BY <2>1, <3>1 DEF l
      <4>2. ~IntersectsOrAdjacent(l, i)
        BY <1>2, <3>1
      <4>3. l[2] + 1 < i[1] \/ (wraps /\ l[2] = MaxWord /\ i[2] = MaxWord)
        BY <4>1, <4>2, WhenAdjacent, IntervalEnds
      <4>4. CASE k = n
        BY <2>3, <3>1, <3>2, <4>1, <4>3, <4>4
      <4>5. CASE k < n
        <5>1. /\ done[k][1] <= l[1]
              /\ done[k][2] + 1 < l[1] \/ (wraps /\ done[k][2] = MaxWord /\ l[2] = MaxWord)
          BY <2>1, <3>1, <4>1, <4>5 DEF InOrder
        <5>2. l[2] = MaxWord => ~(l[2] + 1 < i[1])
          BY <4>1, IntervalEnds, WordBounds
        <5>3. /\ l[1] \in Int /\ l[2] \in Int /\ l[1] <= l[2] /\ i[1] \in Int
              /\ done[k][1] \in Int /\ done[k][2] \in Int
          BY <3>1, <4>1, IntervalEnds
        <5>4. done[k][1] <= i[1] /\ (done[k][2] + 1 < i[1] \/ (wraps /\ done[k][2] = MaxWord /\ i[2] = MaxWord))
          BY <4>1, <4>3, <5>1, <5>2, <5>3
        <5> QED BY <2>3, <3>1, <3>2, <5>4
      <4> QED BY <2>1, <3>1, <4>4, <4>5
    <3>3. CASE m # n + 1
      <4>1. m \in DOMAIN done /\ d[m] = done[m]
        BY <2>1, <2>3, <2>4, <3>3
      <4> QED BY <2>5, <3>1, <4>1 DEF InOrder
    <3> QED BY <3>2, <3>3
  <2>6. InOrder(d)
    BY <2>5 DEF InOrder
  <2>7. ASSUME NEW k \in DOMAIN done
        PROVE  k \in DOMAIN d /\ d[k][1] <= done[k][1] /\ done[k][2] <= d[k][2]
    <3>1. done[k] \in Intervals /\ k \in DOMAIN d /\ d[k] = done[k]
      BY <2>1, <2>3, <2>4
    <3>2. done[k][1] \in Int /\ done[k][2] \in Int
      BY <3>1, IntervalEnds
    <3> QED BY <3>1, <3>2
  <2>8. i[1] <= i[1] /\ i[2] <= i[2]
    BY IntervalEnds
  <2> QED BY <2>3, <2>4, <2>6, <2>7, <2>8 DEF d
<1> QED BY <1>1, <1>2

\* The first interval of a set, as normalize sorts them.
LEMMA FirstOf ==
  ASSUME NEW S \in SUBSET Intervals, S # {}
  PROVE  First(S) \in S /\ \A j \in S : First(S)[1] <= j[1]
<1> DEFINE L == {i[1] : i \in S}
<1>1. L \in SUBSET Words /\ L # {}
  BY IntervalEnds
<1>2. Least(L) \in L /\ \A k \in L : Least(L) <= k
  <2> HIDE DEF L
  <2> QED BY <1>1, LeastOf
<1> DEFINE U == {i[2] : i \in {j \in S : j[1] = Least(L)}}
<1>3. U \in SUBSET Words /\ U # {}
  BY <1>2, IntervalEnds
<1>4. Least(U) \in U /\ \A k \in U : Least(U) <= k
  <2> HIDE DEF U
  <2> QED BY <1>3, LeastOf
<1>5. PICK i \in S : i[1] = Least(L) /\ i[2] = Least(U)
  BY <1>4
<1>6. ASSUME NEW j \in S PROVE Before(i, j)
  <2>1. /\ i[1] \in Int /\ i[2] \in Int /\ j[1] \in Int /\ j[2] \in Int
    BY IntervalEnds
  <2>2. i[1] <= j[1]
    BY <1>2, <1>5
  <2>3. CASE j[1] = Least(L)
    <3>1. j[2] \in U
      BY <2>3
    <3> QED BY <1>4, <1>5, <2>3, <3>1 DEF Before
  <2>4. CASE j[1] # Least(L)
    BY <1>5, <2>1, <2>2, <2>4 DEF Before
  <2> QED BY <2>3, <2>4
<1>7. First(S) \in S /\ \A j \in S : Before(First(S), j)
  BY <1>6 DEF First
<1>8. \A j \in S : j[1] \in Int
  BY IntervalEnds
<1> QED BY <1>7, <1>8 DEF Before

\* The loop of normalize puts any intervals in order and leaves none out.
LEMMA MergedIntervals ==
  ASSUME NEW S \in SUBSET Intervals, Whole \notin S, wraps \in BOOLEAN
  PROVE  /\ Merged(S) \in Seq(Intervals)
         /\ InOrder(Merged(S))
         /\ \A i \in S : \E k \in DOMAIN Merged(S) : Merged(S)[k][1] <= i[1] /\ i[2] <= Merged(S)[k][2]
<1> DEFINE n == Cardinality(S)
           State == [done : Seq(Intervals), rest : SUBSET S]
           After(p) == [done |-> MergedInto(p.done, First(p.rest)), rest |-> p.rest \ {First(p.rest)}]
           Equation(f) == f = [k \in 0..n |-> IF k = 0 THEN [done |-> <<>>, rest |-> S]
                                             ELSE LET i == First(f[k - 1].rest)
                                                  IN  [done |-> MergedInto(f[k - 1].done, i), rest |-> f[k - 1].rest \ {i}]]
           Good(p) == /\ InOrder(p.done)
                      /\ p.done # <<>> => \A i \in p.rest : Last(p.done)[1] <= i[1]
                      /\ \A i \in S \ p.rest : \E k \in DOMAIN p.done : p.done[k][1] <= i[1] /\ i[2] <= p.done[k][2]
<1>1. IsFiniteSet(S) /\ n \in Nat
  BY IntervalsFinite, FS_Subset, FS_CardinalityType
<1>2. ASSUME NEW p \in State, p.rest # {}, Good(p)
      PROVE  /\ After(p) \in State
             /\ Good(After(p))
             /\ Cardinality(After(p).rest) = Cardinality(p.rest) - 1
  <2> DEFINE i == First(p.rest)
             d == MergedInto(p.done, i)
  <2>1. p.rest \in SUBSET Intervals /\ p.done \in Seq(Intervals)
    OBVIOUS
  <2>2. i \in p.rest /\ \A j \in p.rest : i[1] <= j[1]
    BY <1>2, <2>1, FirstOf
  <2>3. i \in Intervals /\ i # Whole /\ i \in S
    BY <2>1, <2>2
  <2>4. p.done # <<>> => Last(p.done)[1] <= i[1]
    BY <1>2, <2>2
  <2> HIDE DEF i
  <2>5. /\ d \in Seq(Intervals) /\ InOrder(d) /\ d # <<>>
        /\ Last(d)[1] <= i[1] /\ i[2] <= Last(d)[2]
        /\ \A k \in DOMAIN p.done : k \in DOMAIN d /\ d[k][1] <= p.done[k][1] /\ p.done[k][2] <= d[k][2]
    BY <1>2, <2>1, <2>3, <2>4, MergeStep
  <2> HIDE DEF d
  <2>6. After(p) = [done |-> d, rest |-> p.rest \ {i}]
    BY DEF d, i
  <2>7. \A j \in p.rest \ {i} : Last(d)[1] <= j[1]
    <3>1. Last(d) \in Intervals
      BY <2>5 DEF Last
    <3>2. \A j \in p.rest : j[1] \in Int
      BY <2>1, IntervalEnds
    <3> QED BY <2>2, <2>3, <2>5, <3>1, <3>2, IntervalEnds
  <2>8. ASSUME NEW j \in S \ (p.rest \ {i})
        PROVE  \E k \in DOMAIN d : d[k][1] <= j[1] /\ j[2] <= d[k][2]
    <3>1. CASE j = i
      <4>1. Len(d) \in DOMAIN d /\ Last(d) = d[Len(d)]
        BY <2>5 DEF Last
      <4> QED BY <2>5, <3>1, <4>1
    <3>2. CASE j # i
      <4>1. PICK k \in DOMAIN p.done : p.done[k][1] <= j[1] /\ j[2] <= p.done[k][2]
        BY <1>2, <3>2
      <4>2. k \in DOMAIN d /\ d[k][1] <= p.done[k][1] /\ p.done[k][2] <= d[k][2]
        BY <2>5
      <4>3. p.done[k] \in Intervals /\ d[k] \in Intervals /\ j \in Intervals
        BY <2>1, <2>5, <4>2
      <4>4. /\ p.done[k][1] \in Int /\ p.done[k][2] \in Int /\ d[k][1] \in Int /\ d[k][2] \in Int
            /\ j[1] \in Int /\ j[2] \in Int
        BY <4>3, IntervalEnds
      <4> QED BY <4>1, <4>2, <4>4
    <3> QED BY <3>1, <3>2
  <2>9. Cardinality(p.rest \ {i}) = Cardinality(p.rest) - 1
    BY <1>1, <2>2, FS_Subset, FS_RemoveElement
  <2> QED BY <2>5, <2>6, <2>7, <2>8, <2>9
<1> HIDE DEF State, Good
<1>3. PICK f : /\ Equation(f)
               /\ \A k \in 0..n : f[k] \in State /\ Good(f[k]) /\ Cardinality(f[k].rest) = n - k
  <2> DEFINE T == [e \in State \X (1..n) |-> IF e[1].rest # {} /\ Good(e[1]) THEN After(e[1]) ELSE e[1]]
             start == [done |-> <<>>, rest |-> S]
  <2>1. start \in State
    BY DEF State
  <2>2. T \in [State \X (1..n) -> State]
    <3> HIDE DEF After
    <3> QED BY <1>2
  <2>3. \A p \in State, k \in 1..n : p.rest # {} /\ Good(p) => T[<<p, k>>] = After(p)
    OBVIOUS
  <2> HIDE DEF T, start
  <2>4. PICK f \in [0..n -> State] : Iterates(f, n, start, T)
    BY <1>1, <2>1, <2>2, IterationExists
  <2> DEFINE K == {k \in 0..n : Good(f[k]) /\ Cardinality(f[k].rest) = n - k}
  <2>5. 0 \in K
    <3>1. f[0] = start
      BY <2>4 DEF Iterates
    <3>2. Good(start)
      BY DEF Good, start, InOrder
    <3> QED BY <1>1, <3>1, <3>2 DEF start
  <2>6. ASSUME NEW k \in 0..(n - 1), k \in K
        PROVE  f[k].rest # {} /\ f[k + 1] = After(f[k]) /\ k + 1 \in K
    <3>1. k + 1 \in 1..n /\ (k + 1) - 1 = k /\ k \in 0..n /\ k + 1 \in 0..n /\ n - k # 0
      BY <1>1
    <3>2. f[k] \in State
      BY <3>1
    <3>3. f[k].rest # {}
      BY <2>6, <3>1, FS_EmptySet
    <3>4. f[k + 1] = T[<<f[k], k + 1>>]
      BY <2>4, <3>1 DEF Iterates
    <3>5. f[k + 1] = After(f[k])
      BY <2>3, <2>6, <3>1, <3>2, <3>3, <3>4
    <3>6. Good(f[k + 1]) /\ Cardinality(f[k + 1].rest) = n - (k + 1)
      <4> HIDE DEF After
      <4>1. Good(After(f[k])) /\ Cardinality(After(f[k]).rest) = Cardinality(f[k].rest) - 1
        BY <1>2, <2>6, <3>2, <3>3
      <4> QED BY <1>1, <2>6, <3>5, <4>1
    <3> QED BY <3>1, <3>3, <3>5, <3>6
  <2>7. \A k \in 0..n : k \in K
    <3> HIDE DEF K
    <3> QED BY <1>1, <2>5, <2>6, NumbersUpTo
  <2>8. ASSUME NEW k \in 1..n PROVE f[k] = After(f[k - 1])
    <3>1. k - 1 \in 0..(n - 1) /\ k - 1 \in 0..n /\ (k - 1) + 1 = k
      BY <1>1
    <3> HIDE DEF K, After
    <3> QED BY <2>6, <2>7, <3>1
  <2>9. f[0] = [done |-> <<>>, rest |-> S]
    BY <2>4 DEF Iterates, start
  <2>10. \A k \in 0..n : k # 0 => k \in 1..n
    OBVIOUS
  <2>11. Equation(f)
    BY <2>8, <2>9, <2>10
  <2>12. \A k \in 0..n : f[k] \in State /\ Good(f[k]) /\ Cardinality(f[k].rest) = n - k
    BY <2>4, <2>7
  <2> QED BY <2>11, <2>12
<1>4. ASSUME NEW g, Equation(g) PROVE g[n] = f[n]
  <2> DEFINE K == {k \in 0..n : g[k] = f[k]}
  <2>1. 0 \in K
    BY <1>1, <1>3, <1>4
  <2>2. ASSUME NEW k \in 0..(n - 1), k \in K PROVE k + 1 \in K
    <3>1. k + 1 \in 0..n /\ k + 1 # 0 /\ (k + 1) - 1 = k
      BY <1>1
    <3>2. g[k + 1] = After(g[k]) /\ f[k + 1] = After(f[k])
      BY <1>3, <1>4, <3>1
    <3> HIDE DEF After, Equation
    <3> QED BY <2>2, <3>1, <3>2
  <2> HIDE DEF K
  <2>3. n \in K
    BY <1>1, <2>1, <2>2, NumbersUpTo
  <2> QED BY <2>3 DEF K
<1>5. Merged(S) = (CHOOSE g : Equation(g))[n].done
  BY DEF Merged
<1> HIDE DEF Equation
<1>6. Merged(S) = f[n].done
  BY <1>3, <1>4, <1>5
<1>7. f[n].rest = {} /\ f[n] \in State /\ Good(f[n])
  <2>1. n \in 0..n /\ n - n = 0
    BY <1>1
  <2>2. f[n] \in State /\ Good(f[n]) /\ Cardinality(f[n].rest) = 0
    BY <1>3, <2>1
  <2>3. IsFiniteSet(f[n].rest)
    BY <1>1, <2>2, FS_Subset DEF State
  <2> QED BY <2>2, <2>3, FS_EmptySet
<1> QED BY <1>6, <1>7 DEF State, Good

-----------------------------------------------------------------------------
(* What an operation makes of two intervals holds its results. *)

\* Bounded makes an interval around the words among its results, anything if one overflows.
LEMMA BoundedInterval ==
  ASSUME NEW R, R # {}
  PROVE  /\ Bounded(R) \in Intervals
         /\ \A x, y \in R, r \in Words : x <= r /\ r <= y => Bounded(R)[1] <= r /\ r <= Bounded(R)[2]
<1>1. CASE R \subseteq Words
  <2>1. /\ Least(R) \in R /\ \A k \in R : Least(R) <= k
        /\ Greatest(R) \in R /\ \A k \in R : k <= Greatest(R)
    BY <1>1, LeastOf, GreatestOf
  <2>2. Bounded(R) = <<Least(R), Greatest(R)>>
    BY <1>1 DEF Bounded
  <2>3. \A k \in Words : k \in Int
    BY WordBounds DEF Words
  <2>4. Least(R) \in Words /\ Greatest(R) \in Words /\ Least(R) <= Greatest(R)
    BY <1>1, <2>1
  <2>5. Bounded(R) \in Intervals
    BY <2>2, <2>4, MakeInterval
  <2> QED BY <1>1, <2>1, <2>2, <2>3, <2>5
<1>2. CASE ~(R \subseteq Words)
  <2>1. Bounded(R) = <<MinWord, MaxWord>>
    BY <1>2 DEF Bounded, Whole
  <2>2. MinWord \in Words /\ MaxWord \in Words /\ MinWord <= MaxWord
    BY WordBounds DEF Words
  <2>3. \A r \in Words : MinWord <= r /\ r <= MaxWord
    BY WordBounds DEF Words
  <2> QED BY <2>1, <2>2, <2>3, MakeInterval
<1> QED BY <1>1, <1>2

\* The whole interval holds every word.
LEMMA WholeInterval ==
  Whole \in Intervals /\ \A r \in Words : Whole[1] <= r /\ r <= Whole[2]
<1>1. MinWord \in Words /\ MaxWord \in Words /\ MinWord <= MaxWord
  BY WordBounds DEF Words
<1>2. \A r \in Words : MinWord <= r /\ r <= MaxWord
  BY WordBounds DEF Words
<1> QED BY <1>1, <1>2, MakeInterval DEF Whole

In(v, i) == v \in Int /\ i[1] <= v /\ v <= i[2]

\* The interval of the sums holds every sum that is a word,
LEMMA SumsHold ==
  ASSUME NEW i \in Intervals, NEW j \in Intervals
  PROVE  /\ Sums(i, j) \in Intervals
         /\ \A a, b : In(a, i) /\ In(b, j) /\ a + b \in Words => In(a + b, Sums(i, j))
<1> DEFINE R == {i[1] + j[1], i[2] + j[2]}
<1>1. Sums(i, j) = Bounded(R) /\ R # {} /\ i[1] + j[1] \in R /\ i[2] + j[2] \in R
  BY DEF Sums
<1>2. ASSUME NEW a, NEW b, In(a, i), In(b, j)
      PROVE  a + b \in Int /\ i[1] + j[1] <= a + b /\ a + b <= i[2] + j[2]
  BY <1>2, IntervalEnds DEF In
<1> HIDE DEF R
<1> QED BY <1>1, <1>2, BoundedInterval DEF In

\* that of the differences every difference,
LEMMA DifferencesHold ==
  ASSUME NEW i \in Intervals, NEW j \in Intervals
  PROVE  /\ Differences(i, j) \in Intervals
         /\ \A a, b : In(a, i) /\ In(b, j) /\ a - b \in Words => In(a - b, Differences(i, j))
<1> DEFINE R == {i[1] - j[2], i[2] - j[1]}
<1>1. Differences(i, j) = Bounded(R) /\ R # {} /\ i[1] - j[2] \in R /\ i[2] - j[1] \in R
  BY DEF Differences
<1>2. ASSUME NEW a, NEW b, In(a, i), In(b, j)
      PROVE  a - b \in Int /\ i[1] - j[2] <= a - b /\ a - b <= i[2] - j[1]
  BY <1>2, IntervalEnds DEF In
<1> HIDE DEF R
<1> QED BY <1>1, <1>2, BoundedInterval DEF In

\* that of the products every product, by the four products of the ends,
LEMMA ProductsHold ==
  ASSUME NEW i \in Intervals, NEW j \in Intervals
  PROVE  /\ Products(i, j) \in Intervals
         /\ \A a, b : In(a, i) /\ In(b, j) /\ a * b \in Words => In(a * b, Products(i, j))
<1> DEFINE R == {a * b : a \in {i[1], i[2]}, b \in {j[1], j[2]}}
<1>1. Products(i, j) = Bounded(R) /\ R # {}
  BY DEF Products
<1>2. /\ i[1] * j[1] \in R /\ i[1] * j[2] \in R
      /\ i[2] * j[1] \in R /\ i[2] * j[2] \in R
  OBVIOUS
<1>3. i[1] \in Int /\ i[2] \in Int /\ j[1] \in Int /\ j[2] \in Int
  BY IntervalEnds
<1> HIDE DEF R
<1>4. ASSUME NEW a, NEW b, In(a, i), In(b, j)
      PROVE  a * b \in Int /\ \E l, u \in R : l <= a * b /\ a * b <= u
  <2>1. a \in Int /\ b \in Int /\ i[1] <= a /\ a <= i[2] /\ j[1] <= b /\ b <= j[2]
    BY <1>4 DEF In
  <2>2. Between(a * b, i[1] * b, i[2] * b)
    BY <1>3, <2>1, ProductBetween
  <2>3. Between(i[1] * b, i[1] * j[1], i[1] * j[2]) /\ Between(i[2] * b, i[2] * j[1], i[2] * j[2])
    BY <1>3, <2>1, ProductBetween
  <2>4. /\ a * b \in Int /\ i[1] * b \in Int /\ i[2] * b \in Int
        /\ i[1] * j[1] \in Int /\ i[1] * j[2] \in Int /\ i[2] * j[1] \in Int /\ i[2] * j[2] \in Int
    BY <1>3, <2>1
  <2> DEFINE r == a * b
             x == i[1] * b
             y == i[2] * b
             xx == i[1] * j[1]
             xy == i[1] * j[2]
             yx == i[2] * j[1]
             yy == i[2] * j[2]
  <2>5. /\ r \in Int /\ x \in Int /\ y \in Int /\ xx \in Int /\ xy \in Int /\ yx \in Int /\ yy \in Int
        /\ Between(r, x, y) /\ Between(x, xx, xy) /\ Between(y, yx, yy)
        /\ xx \in R /\ xy \in R /\ yx \in R /\ yy \in R
    BY <1>2, <2>2, <2>3, <2>4
  <2> HIDE DEF r, x, y, xx, xy, yx, yy
  <2>6. r \in Int /\ \E l, u \in R : l <= r /\ r <= u
    BY <2>5 DEF Between
  <2> QED BY <2>6 DEF r
<1> QED BY <1>1, <1>4, BoundedInterval DEF In

\* that of the quotients every quotient, whatever the signs of the ends,
LEMMA QuotientsHold ==
  ASSUME NEW i \in Intervals, NEW j \in Intervals
  PROVE  /\ Quotients(i, j) \in Intervals
         /\ \A a, b : In(a, i) /\ In(b, j) /\ b # 0 /\ Div(a, b) \in Words => In(Div(a, b), Quotients(i, j))
<1> DEFINE R == {Div(a, b) : a \in {i[1], i[2]}, b \in {j[1], j[2]}}
<1>1. CASE HasZero(j)
  <2>1. Quotients(i, j) = Whole
    BY <1>1 DEF Quotients
  <2>2. \A r \in Words : r \in Int
    BY WordBounds DEF Words
  <2> QED BY <2>1, <2>2, WholeInterval DEF In
<1>2. CASE ~HasZero(j)
  <2>1. Quotients(i, j) = Bounded(R) /\ R # {}
    BY <1>2 DEF Quotients
  <2>2. /\ Div(i[1], j[1]) \in R /\ Div(i[1], j[2]) \in R
        /\ Div(i[2], j[1]) \in R /\ Div(i[2], j[2]) \in R
    OBVIOUS
  <2>3. /\ i[1] \in Int /\ i[2] \in Int /\ j[1] \in Int \ {0} /\ j[2] \in Int \ {0}
        /\ j[1] > 0 \/ j[2] < 0
    BY <1>2, IntervalEnds DEF HasZero
  <2> HIDE DEF R
  <2>4. ASSUME NEW a, NEW b, In(a, i), In(b, j)
        PROVE  Div(a, b) \in Int /\ \E l, u \in R : l <= Div(a, b) /\ Div(a, b) <= u
    <3>1. a \in Int /\ b \in Int \ {0} /\ i[1] <= a /\ a <= i[2] /\ j[1] <= b /\ b <= j[2]
      BY <2>3, <2>4 DEF In
    <3>2. Between(Div(a, b), Div(i[1], b), Div(i[2], b))
      BY <2>3, <3>1, DividendBetween
    <3>3. Between(Div(i[1], b), Div(i[1], j[1]), Div(i[1], j[2]))
      BY <2>3, <3>1, DivisorBetween
    <3>4. Between(Div(i[2], b), Div(i[2], j[1]), Div(i[2], j[2]))
      BY <2>3, <3>1, DivisorBetween
    <3>5. \A m \in Int, n \in Int \ {0} : Div(m, n) \in Int
      BY DivPP, DivNP, DivPN, DivNN
    <3> DEFINE r == Div(a, b)
               x == Div(i[1], b)
               y == Div(i[2], b)
               xx == Div(i[1], j[1])
               xy == Div(i[1], j[2])
               yx == Div(i[2], j[1])
               yy == Div(i[2], j[2])
    <3>6. /\ r \in Int /\ x \in Int /\ y \in Int /\ xx \in Int /\ xy \in Int /\ yx \in Int /\ yy \in Int
          /\ Between(r, x, y) /\ Between(x, xx, xy) /\ Between(y, yx, yy)
          /\ xx \in R /\ xy \in R /\ yx \in R /\ yy \in R
      BY <2>2, <2>3, <3>1, <3>2, <3>3, <3>4, <3>5
    <3> HIDE DEF r, x, y, xx, xy, yx, yy
    <3>7. r \in Int /\ \E l, u \in R : l <= r /\ r <= u
      BY <3>6 DEF Between
    <3> QED BY <3>7 DEF r
  <2> QED BY <2>1, <2>4, BoundedInterval DEF In
<1> QED BY <1>1, <1>2

\* that of the remainders every remainder of numbers that are not negative,
LEMMA RemaindersHold ==
  ASSUME NEW i \in Intervals, NEW j \in Intervals
  PROVE  /\ Remainders(i, j) \in Intervals
         /\ \A a, b : In(a, i) /\ In(b, j) /\ b # 0 /\ a >= 0 /\ b >= 0 /\ Mod(a, b) \in Words =>
              In(Mod(a, b), Remainders(i, j))
<1>0. /\ j[1] \in Int /\ j[2] \in Int /\ j[1] <= j[2] /\ MinWord <= j[1] /\ j[2] <= MaxWord
      /\ \A r \in Words : r \in Int
  BY IntervalEnds, WordBounds DEF Words
<1>1. CASE HasZero(j)
  <2>1. ~(j[1] > 0) /\ ~(j[2] < 0)
    BY <1>0, <1>1 DEF HasZero
  <2>2. Remainders(i, j) = Whole
    BY <1>1, <2>1 DEF Remainders
  <2> QED BY <1>0, <2>2, WholeInterval DEF In
<1>2. CASE j[1] > 0
  <2>1. ~HasZero(j)
    BY <1>0, <1>2 DEF HasZero
  <2>2. ~(j[2] < 0)
    BY <1>0, <1>2
  <2>3. Remainders(i, j) = <<0, j[2] - 1>>
    BY <1>2, <2>1, <2>2 DEF Remainders
  <2>4. 0 \in Words /\ j[2] - 1 \in Words /\ 0 <= j[2] - 1
    BY <1>0, <1>2, WordBounds DEF Words
  <2>5. ASSUME NEW a, NEW b, In(a, i), In(b, j), b # 0, a >= 0, b >= 0, Mod(a, b) \in Words
        PROVE  In(Mod(a, b), Remainders(i, j))
    <3>1. a \in Nat /\ b \in Nat \ {0} /\ b <= j[2]
      BY <2>5 DEF In
    <3>2. 0 <= Mod(a, b) /\ Mod(a, b) <= b - 1 /\ Mod(a, b) \in Int
      BY <1>0, <2>5, <3>1, RestBounds
    <3> QED BY <1>0, <2>3, <3>1, <3>2 DEF In
  <2> QED BY <2>3, <2>4, <2>5, MakeInterval
<1>3. CASE j[2] < 0
  <2>1. ~HasZero(j)
    BY <1>0, <1>3 DEF HasZero
  <2>2. ~(j[1] > 0)
    BY <1>0, <1>3
  <2>3. Remainders(i, j) = <<j[2] + 1, 0>>
    BY <1>3, <2>1, <2>2 DEF Remainders
  <2>4. 0 \in Words /\ j[2] + 1 \in Words /\ j[2] + 1 <= 0
    BY <1>0, <1>3, WordBounds DEF Words
  <2>5. \A b : In(b, j) => ~(b >= 0)
    BY <1>0, <1>3 DEF In
  <2> QED BY <2>3, <2>4, <2>5, MakeInterval
<1> QED BY <1>0, <1>1, <1>2, <1>3 DEF HasZero

\* and those of max and min every maximum and minimum.
LEMMA LargerAndSmallerHold ==
  ASSUME NEW i \in Intervals, NEW j \in Intervals
  PROVE  /\ Larger(i, j) \in Intervals /\ Smaller(i, j) \in Intervals
         /\ \A a, b \in Words : In(a, i) /\ In(b, j) =>
              In(Greatest({a, b}), Larger(i, j)) /\ In(Least({a, b}), Smaller(i, j))
<1>1. /\ i[1] \in Words /\ i[2] \in Words /\ j[1] \in Words /\ j[2] \in Words
      /\ i[1] <= i[2] /\ j[1] <= j[2]
      /\ \A k \in Words : k \in Int
  BY IntervalEnds, WordBounds DEF Words
<1> DEFINE larger == Larger(i, j)
           smaller == Smaller(i, j)
<1>2. /\ larger = <<larger[1], larger[2]>>
      /\ larger[1] = (IF i[1] <= j[1] THEN j[1] ELSE i[1])
      /\ larger[2] = (IF i[2] <= j[2] THEN j[2] ELSE i[2])
  BY <1>1, EndsOfTwo DEF Larger
<1>3. /\ smaller = <<smaller[1], smaller[2]>>
      /\ smaller[1] = (IF i[1] <= j[1] THEN i[1] ELSE j[1])
      /\ smaller[2] = (IF i[2] <= j[2] THEN i[2] ELSE j[2])
  BY <1>1, EndsOfTwo DEF Smaller
<1> HIDE DEF larger, smaller
<1>4. larger[1] \in Words /\ larger[2] \in Words /\ larger[1] <= larger[2]
  BY <1>1, <1>2
<1>5. smaller[1] \in Words /\ smaller[2] \in Words /\ smaller[1] <= smaller[2]
  BY <1>1, <1>3
<1>6. larger \in Intervals /\ smaller \in Intervals
  BY <1>2, <1>3, <1>4, <1>5, MakeInterval
<1>7. ASSUME NEW a \in Words, NEW b \in Words, In(a, i), In(b, j)
      PROVE  In(Greatest({a, b}), larger) /\ In(Least({a, b}), smaller)
  <2>1. /\ Least({a, b}) = (IF a <= b THEN a ELSE b)
        /\ Greatest({a, b}) = (IF a <= b THEN b ELSE a)
    BY EndsOfTwo
  <2>2. a \in Int /\ b \in Int /\ i[1] <= a /\ a <= i[2] /\ j[1] <= b /\ b <= j[2]
    BY <1>7 DEF In
  <2>3. In(Greatest({a, b}), larger)
    BY <1>1, <1>2, <2>1, <2>2 DEF In
  <2>4. In(Least({a, b}), smaller)
    BY <1>1, <1>3, <2>1, <2>2 DEF In
  <2> QED BY <2>3, <2>4
<1> QED BY <1>6, <1>7 DEF larger, smaller

-----------------------------------------------------------------------------
(* Sets of intervals. *)

\* What every operation of the analysis gives.
GoodSet(s) ==
  /\ s \in [undefined : BOOLEAN, intervals : Seq(Intervals)]
  /\ s.undefined => s.intervals = <<>>
  /\ InOrder(s.intervals)

\* X_N is a set of the analysis and has no members.
LEMMA GoodUndefined == GoodSet(Undefined) /\ Members(Undefined) = {}
BY DEF GoodSet, Undefined, InOrder, Members

\* So is one interval, with the words between its ends.
LEMMA GoodInterval ==
  ASSUME NEW a \in Words, NEW b \in Words
  PROVE  /\ GoodSet(Interval(a, b))
         /\ \A v \in Words : v \in Members(Interval(a, b)) <=> a <= v /\ v <= b
         /\ ~Interval(a, b).undefined
<1>1. a \in Int /\ b \in Int /\ \A v \in Words : v \in Int
  BY WordBounds DEF Words
<1>2. CASE a <= b
  <2>1. Interval(a, b) = [undefined |-> FALSE, intervals |-> << <<a, b>> >>]
    BY <1>2 DEF Interval, IntervalSet
  <2>2. <<a, b>> \in Intervals
    BY <1>2, MakeInterval
  <2>3. << <<a, b>> >> \in Seq(Intervals) /\ InOrder(<< <<a, b>> >>)
    BY <2>2 DEF InOrder
  <2> QED BY <2>1, <2>3 DEF GoodSet, Members
<1>3. CASE ~(a <= b)
  <2>1. Interval(a, b) = [undefined |-> FALSE, intervals |-> <<>>]
    BY <1>3 DEF Interval, EmptySet, IntervalSet
  <2>2. Members(Interval(a, b)) = {} /\ GoodSet(Interval(a, b))
    BY <2>1 DEF GoodSet, Members, InOrder
  <2> QED BY <1>1, <1>3, <2>1, <2>2
<1> QED BY <1>2, <1>3

\* So is T_N, with every word.
LEMMA GoodAnyWord ==
  GoodSet(AnyWord) /\ Members(AnyWord) = Words /\ ~AnyWord.undefined
<1>1. MinWord \in Words /\ MaxWord \in Words /\ MinWord <= MaxWord
  BY WordBounds DEF Words
<1>2. AnyWord = Interval(MinWord, MaxWord)
  BY <1>1 DEF AnyWord, Whole, Interval
<1>3. \A v \in Words : MinWord <= v /\ v <= MaxWord
  BY WordBounds DEF Words
<1> QED BY <1>1, <1>2, <1>3, GoodInterval DEF Members

\* normalize makes one of any set of intervals and drops none of their words.
LEMMA GoodNormalize ==
  ASSUME NEW S \in SUBSET Intervals, wraps \in BOOLEAN
  PROVE  /\ GoodSet(Normalize(S)) /\ ~Normalize(S).undefined
         /\ \A i \in S, v \in Words : i[1] <= v /\ v <= i[2] => v \in Members(Normalize(S))
<1>1. CASE Whole \in S
  <2>1. Normalize(S) = AnyWord
    BY <1>1 DEF Normalize
  <2> QED BY <2>1, GoodAnyWord
<1>2. CASE Whole \notin S
  <2>1. Normalize(S) = [undefined |-> FALSE, intervals |-> Merged(S)]
    BY <1>2 DEF Normalize, IntervalSet
  <2>2. /\ Merged(S) \in Seq(Intervals) /\ InOrder(Merged(S))
        /\ \A i \in S : \E k \in DOMAIN Merged(S) : Merged(S)[k][1] <= i[1] /\ i[2] <= Merged(S)[k][2]
    BY <1>2, MergedIntervals
  <2> DEFINE m == Merged(S)
  <2> HIDE DEF m
  <2>3. GoodSet(Normalize(S)) /\ ~Normalize(S).undefined
    BY <2>1, <2>2 DEF GoodSet
  <2>4. ASSUME NEW i \in S, NEW v \in Words, i[1] <= v, v <= i[2]
        PROVE  v \in Members(Normalize(S))
    <3>1. PICK k \in DOMAIN m : m[k][1] <= i[1] /\ i[2] <= m[k][2]
      BY <2>2 DEF m
    <3>2. m[k] \in Intervals /\ i \in Intervals /\ v \in Int
      BY <2>2, WordBounds DEF m, Words
    <3>3. m[k][1] <= v /\ v <= m[k][2]
      BY <2>4, <3>1, <3>2, IntervalEnds
    <3> QED BY <2>1, <3>3 DEF Members, m
  <2> QED BY <2>3, <2>4
<1> QED BY <1>1, <1>2

\* The intervals of a set as a set, and what a member is.
LEMMA IntervalsOf ==
  ASSUME NEW s, GoodSet(s)
  PROVE  /\ ToSet(s.intervals) \in SUBSET Intervals
         /\ Members(s) \in SUBSET Words
         /\ \A v \in Words : v \in Members(s) <=> \E i \in ToSet(s.intervals) : i[1] <= v /\ v <= i[2]
         /\ s.undefined => Members(s) = {}
BY DEF GoodSet, ToSet, Members

\* A set with the whole interval has every word.
LEMMA WholeHasAll ==
  ASSUME NEW s, IsWhole(s)
  PROVE  Members(s) = Words
<1>1. PICK k \in DOMAIN s.intervals : s.intervals[k] = <<MinWord, MaxWord>>
  BY DEF IsWhole, Whole
<1>2. \A v \in Words : MinWord <= v /\ v <= MaxWord
  BY WordBounds DEF Words
<1>3. \A v \in Words : s.intervals[k][1] <= v /\ v <= s.intervals[k][2]
  BY <1>1, <1>2
<1> QED BY <1>3 DEF Members

\* union_with loses no member of either set.
LEMMA GoodUnion ==
  ASSUME NEW s, NEW t, GoodSet(s), GoodSet(t), wraps \in BOOLEAN
  PROVE  /\ GoodSet(UnionWith(s, t))
         /\ Members(s) \cup Members(t) \subseteq Members(UnionWith(s, t))
<1> DEFINE S == ToSet(s.intervals)
           T == ToSet(t.intervals)
<1>1. /\ S \in SUBSET Intervals /\ T \in SUBSET Intervals
      /\ Members(s) \in SUBSET Words /\ Members(t) \in SUBSET Words
      /\ \A v \in Words : v \in Members(s) <=> \E i \in S : i[1] <= v /\ v <= i[2]
      /\ \A v \in Words : v \in Members(t) <=> \E i \in T : i[1] <= v /\ v <= i[2]
      /\ s.undefined => Members(s) = {}
      /\ t.undefined => Members(t) = {}
  BY IntervalsOf
<1> HIDE DEF S, T
<1>2. CASE t.undefined \/ s.undefined
  BY <1>1, <1>2 DEF UnionWith
<1>3. CASE ~t.undefined /\ ~s.undefined /\ (IsWhole(s) \/ IsWhole(t))
  BY <1>1, <1>3, WholeHasAll DEF UnionWith
<1>4. CASE ~t.undefined /\ ~s.undefined /\ ~IsWhole(s) /\ ~IsWhole(t)
  <2>1. UnionWith(s, t) = Normalize(S \cup T)
    BY <1>4 DEF UnionWith, S, T
  <2>2. S \cup T \in SUBSET Intervals
    BY <1>1
  <2>3. /\ GoodSet(Normalize(S \cup T))
        /\ \A i \in S \cup T, v \in Words : i[1] <= v /\ v <= i[2] => v \in Members(Normalize(S \cup T))
    BY <2>2, GoodNormalize
  <2> QED BY <1>1, <2>1, <2>3
<1> QED BY <1>2, <1>3, <1>4

\* intersect_with loses no member of both sets.
LEMMA GoodIntersection ==
  ASSUME NEW s, NEW t, GoodSet(s), GoodSet(t), wraps \in BOOLEAN
  PROVE  /\ GoodSet(IntersectWith(s, t))
         /\ Members(s) \cap Members(t) \subseteq Members(IntersectWith(s, t))
<1> DEFINE S == ToSet(s.intervals)
           T == ToSet(t.intervals)
           R == {k \in {Common(i, j) : i \in S, j \in T} : k[1] <= k[2]}
<1>1. /\ S \in SUBSET Intervals /\ T \in SUBSET Intervals
      /\ Members(s) \in SUBSET Words /\ Members(t) \in SUBSET Words
      /\ \A v \in Words : v \in Members(s) <=> \E i \in S : i[1] <= v /\ v <= i[2]
      /\ \A v \in Words : v \in Members(t) <=> \E i \in T : i[1] <= v /\ v <= i[2]
      /\ s.undefined => Members(s) = {}
      /\ t.undefined => Members(t) = {}
  BY IntervalsOf
<1> HIDE DEF S, T
<1>2. CASE t.undefined \/ s.undefined
  BY <1>1, <1>2 DEF IntersectWith
<1>3. CASE ~t.undefined /\ ~s.undefined
  <2>1. IntersectWith(s, t) = Normalize(R)
    BY <1>3 DEF IntersectWith, S, T
  <2>2. ASSUME NEW i \in S, NEW j \in T
        PROVE  /\ Common(i, j) = <<Common(i, j)[1], Common(i, j)[2]>>
               /\ Common(i, j)[1] = (IF i[1] <= j[1] THEN j[1] ELSE i[1])
               /\ Common(i, j)[2] = (IF i[2] <= j[2] THEN i[2] ELSE j[2])
               /\ Common(i, j)[1] \in Words /\ Common(i, j)[2] \in Words
    <3>1. i \in Intervals /\ j \in Intervals
      BY <1>1
    <3>2. i[1] \in Words /\ i[2] \in Words /\ j[1] \in Words /\ j[2] \in Words
      BY <3>1, IntervalEnds
    <3>3. Common(i, j) = <<Greatest({i[1], j[1]}), Least({i[2], j[2]})>>
      BY DEF Common
    <3>4. /\ Greatest({i[1], j[1]}) = (IF i[1] <= j[1] THEN j[1] ELSE i[1])
          /\ Least({i[2], j[2]}) = (IF i[2] <= j[2] THEN i[2] ELSE j[2])
      BY <3>2, EndsOfTwo
    <3> QED BY <3>2, <3>3, <3>4
  <2>3. R \in SUBSET Intervals
    BY <2>2, MakeInterval
  <2>4. /\ GoodSet(Normalize(R))
        /\ \A i \in R, v \in Words : i[1] <= v /\ v <= i[2] => v \in Members(Normalize(R))
    <3> HIDE DEF R
    <3> QED BY <2>3, GoodNormalize
  <2>5. ASSUME NEW v \in Members(s) \cap Members(t)
        PROVE  v \in Members(Normalize(R))
    <3>1. v \in Words /\ v \in Int
      BY <1>1, WordBounds DEF Words
    <3>2. PICK i \in S, j \in T : i[1] <= v /\ v <= i[2] /\ j[1] <= v /\ v <= j[2]
      BY <1>1, <3>1
    <3>3. i \in Intervals /\ j \in Intervals
      BY <1>1
    <3>4. /\ Common(i, j)[1] <= v /\ v <= Common(i, j)[2]
          /\ Common(i, j)[1] <= Common(i, j)[2]
      BY <2>2, <3>1, <3>2, <3>3, IntervalEnds
    <3>5. Common(i, j) \in R
      BY <3>4
    <3> QED BY <2>4, <3>1, <3>4, <3>5
  <2> QED BY <2>1, <2>4, <2>5
<1> QED BY <1>2, <1>3

\* The operations on sets take the intervals in pairs; R is what they make of them.
ResultOfPairs(s, t, R) == IF s.undefined \/ t.undefined THEN Undefined ELSE Normalize(R)

\* Every number of V comes from one of A and one of B, and R has it whichever pair of
\* intervals holds those.
HoldsResults(V, A, B, S, T, R) ==
  \A r \in V : \E a \in A, b \in B : \A i \in S, j \in T :
    In(a, i) /\ In(b, j) => \E k \in R : In(r, k)

\* An operation on all the pairs of two sets holds the results of their members, when it holds
\* those of two intervals.
LEMMA PairsHold ==
  ASSUME NEW s, NEW t, GoodSet(s), GoodSet(t), wraps \in BOOLEAN,
         NEW R \in SUBSET Intervals, NEW V \in SUBSET Words,
         NEW A \in SUBSET Members(s), NEW B \in SUBSET Members(t),
         HoldsResults(V, A, B, ToSet(s.intervals), ToSet(t.intervals), R)
  PROVE  GoodSet(ResultOfPairs(s, t, R)) /\ V \subseteq Members(ResultOfPairs(s, t, R))
<1>1. /\ Members(s) \in SUBSET Words /\ Members(t) \in SUBSET Words
      /\ \A v \in Words : v \in Members(s) <=> \E i \in ToSet(s.intervals) : i[1] <= v /\ v <= i[2]
      /\ \A v \in Words : v \in Members(t) <=> \E i \in ToSet(t.intervals) : i[1] <= v /\ v <= i[2]
      /\ s.undefined => Members(s) = {}
      /\ t.undefined => Members(t) = {}
  BY IntervalsOf
<1>2. CASE s.undefined \/ t.undefined
  <2>1. V = {}
    BY <1>1, <1>2 DEF HoldsResults
  <2> QED BY <1>2, <2>1, GoodUndefined DEF ResultOfPairs
<1>3. CASE ~(s.undefined \/ t.undefined)
  <2>1. /\ GoodSet(Normalize(R))
        /\ \A i \in R, v \in Words : i[1] <= v /\ v <= i[2] => v \in Members(Normalize(R))
    BY GoodNormalize
  <2>2. ASSUME NEW r \in V PROVE r \in Members(Normalize(R))
    <3>1. PICK a \in Members(s), b \in Members(t) :
            \A i \in ToSet(s.intervals), j \in ToSet(t.intervals) :
              In(a, i) /\ In(b, j) => \E k \in R : In(r, k)
      BY DEF HoldsResults
    <3>2. a \in Words /\ b \in Words /\ a \in Int /\ b \in Int
      BY <1>1, WordBounds DEF Words
    <3>3. PICK i \in ToSet(s.intervals), j \in ToSet(t.intervals) : In(a, i) /\ In(b, j)
      BY <1>1, <3>2 DEF In
    <3>4. PICK k \in R : In(r, k)
      BY <3>1, <3>3
    <3> QED BY <2>1, <3>4 DEF In
  <2> QED BY <1>3, <2>1, <2>2 DEF ResultOfPairs
<1> QED BY <1>2, <1>3

Ops == {"add", "sub", "mul", "div", "mod", "max", "min"}

\* What the analysis says of a result holds it, remainders below 0 apart.
LEMMA GoodEvaluated ==
  ASSUME NEW s, NEW t, GoodSet(s), GoodSet(t), wraps \in BOOLEAN, NEW op \in Ops,
         NEW A \in SUBSET Members(s), NEW B \in SUBSET Members(t),
         op = "mod" => \A v \in A \cup B : v >= 0
  PROVE  GoodSet(Evaluated(op, s, t)) /\ ResultsOf(op, A, B) \subseteq Members(Evaluated(op, s, t))
<1> DEFINE S == ToSet(s.intervals)
           T == ToSet(t.intervals)
           V == ResultsOf(op, A, B)
<1>1. S \in SUBSET Intervals /\ T \in SUBSET Intervals /\ A \in SUBSET Words /\ B \in SUBSET Words
  BY IntervalsOf
<1>2. V \in SUBSET Words /\ \A v \in Words : v \in Int
  BY WordBounds DEF ResultsOf, Words
<1>3. ASSUME NEW R \in SUBSET Intervals, Evaluated(op, s, t) = ResultOfPairs(s, t, R),
             HoldsResults(V, A, B, S, T, R)
      PROVE  GoodSet(Evaluated(op, s, t)) /\ V \subseteq Members(Evaluated(op, s, t))
  <2> HIDE DEF V
  <2> QED BY <1>2, <1>3, PairsHold
<1>4. CASE op = "add"
  <2> DEFINE R == {Sums(i, j) : i \in S, j \in T}
  <2>1. R \in SUBSET Intervals
    BY <1>1, SumsHold
  <2>2. Evaluated(op, s, t) = ResultOfPairs(s, t, R)
    BY <1>4 DEF Evaluated, Pairwise, ResultOfPairs
  <2>3. ASSUME NEW r \in V
        PROVE  \E a \in A, b \in B : \A i \in S, j \in T :
                 In(a, i) /\ In(b, j) => \E k \in R : In(r, k)
    <3>1. PICK a \in A, b \in B : r = a + b
      BY <1>4 DEF ResultsOf
    <3>2. r \in Words /\ a \in Words /\ b \in Words
      BY <1>1, <1>2
    <3>3. ASSUME NEW i \in S, NEW j \in T, In(a, i), In(b, j)
          PROVE  Sums(i, j) \in R /\ In(r, Sums(i, j))
      <4>1. i \in Intervals /\ j \in Intervals
        BY <1>1
      <4> QED BY <3>1, <3>2, <3>3, <4>1, SumsHold
    <3> HIDE DEF R
    <3> QED BY <3>3
  <2>4. HoldsResults(V, A, B, S, T, R)
    BY <2>3 DEF HoldsResults
  <2> HIDE DEF R, V
  <2>5. GoodSet(Evaluated(op, s, t)) /\ V \subseteq Members(Evaluated(op, s, t))
    BY <1>3, <2>1, <2>2, <2>4
  <2> QED BY <2>5 DEF V
<1>5. CASE op = "sub"
  <2> DEFINE R == {Differences(i, j) : i \in S, j \in T}
  <2>1. R \in SUBSET Intervals
    BY <1>1, DifferencesHold
  <2>2. Evaluated(op, s, t) = ResultOfPairs(s, t, R)
    BY <1>5 DEF Evaluated, Pairwise, ResultOfPairs
  <2>3. ASSUME NEW r \in V
        PROVE  \E a \in A, b \in B : \A i \in S, j \in T :
                 In(a, i) /\ In(b, j) => \E k \in R : In(r, k)
    <3>1. PICK a \in A, b \in B : r = a - b
      BY <1>5 DEF ResultsOf
    <3>2. r \in Words /\ a \in Words /\ b \in Words
      BY <1>1, <1>2
    <3>3. ASSUME NEW i \in S, NEW j \in T, In(a, i), In(b, j)
          PROVE  Differences(i, j) \in R /\ In(r, Differences(i, j))
      <4>1. i \in Intervals /\ j \in Intervals
        BY <1>1
      <4> QED BY <3>1, <3>2, <3>3, <4>1, DifferencesHold
    <3> HIDE DEF R
    <3> QED BY <3>3
  <2>4. HoldsResults(V, A, B, S, T, R)
    BY <2>3 DEF HoldsResults
  <2> HIDE DEF R, V
  <2>5. GoodSet(Evaluated(op, s, t)) /\ V \subseteq Members(Evaluated(op, s, t))
    BY <1>3, <2>1, <2>2, <2>4
  <2> QED BY <2>5 DEF V
<1>6. CASE op = "mul"
  <2> DEFINE R == {Products(i, j) : i \in S, j \in T}
  <2>1. R \in SUBSET Intervals
    BY <1>1, ProductsHold
  <2>2. Evaluated(op, s, t) = ResultOfPairs(s, t, R)
    BY <1>6 DEF Evaluated, Pairwise, ResultOfPairs
  <2>3. ASSUME NEW r \in V
        PROVE  \E a \in A, b \in B : \A i \in S, j \in T :
                 In(a, i) /\ In(b, j) => \E k \in R : In(r, k)
    <3>1. PICK a \in A, b \in B : r = a * b
      BY <1>6 DEF ResultsOf
    <3>2. r \in Words /\ a \in Words /\ b \in Words
      BY <1>1, <1>2
    <3>3. ASSUME NEW i \in S, NEW j \in T, In(a, i), In(b, j)
          PROVE  Products(i, j) \in R /\ In(r, Products(i, j))
      <4>1. i \in Intervals /\ j \in Intervals
        BY <1>1
      <4> QED BY <3>1, <3>2, <3>3, <4>1, ProductsHold
    <3> HIDE DEF R
    <3> QED BY <3>3
  <2>4. HoldsResults(V, A, B, S, T, R)
    BY <2>3 DEF HoldsResults
  <2> HIDE DEF R, V
  <2>5. GoodSet(Evaluated(op, s, t)) /\ V \subseteq Members(Evaluated(op, s, t))
    BY <1>3, <2>1, <2>2, <2>4
  <2> QED BY <2>5 DEF V
<1>7. CASE op = "div"
  <2> DEFINE R == {Quotients(i, j) : i \in S, j \in T}
  <2>1. R \in SUBSET Intervals
    BY <1>1, QuotientsHold
  <2>2. Evaluated(op, s, t) = ResultOfPairs(s, t, R)
    BY <1>7 DEF Evaluated, Pairwise, ResultOfPairs
  <2>3. ASSUME NEW r \in V
        PROVE  \E a \in A, b \in B : \A i \in S, j \in T :
                 In(a, i) /\ In(b, j) => \E k \in R : In(r, k)
    <3>1. PICK a \in A, b \in B : r = Div(a, b) /\ b # 0
      BY <1>7 DEF ResultsOf
    <3>2. r \in Words /\ a \in Words /\ b \in Words
      BY <1>1, <1>2
    <3>3. ASSUME NEW i \in S, NEW j \in T, In(a, i), In(b, j)
          PROVE  Quotients(i, j) \in R /\ In(r, Quotients(i, j))
      <4>1. i \in Intervals /\ j \in Intervals
        BY <1>1
      <4> QED BY <3>1, <3>2, <3>3, <4>1, QuotientsHold
    <3> HIDE DEF R
    <3> QED BY <3>3
  <2>4. HoldsResults(V, A, B, S, T, R)
    BY <2>3 DEF HoldsResults
  <2> HIDE DEF R, V
  <2>5. GoodSet(Evaluated(op, s, t)) /\ V \subseteq Members(Evaluated(op, s, t))
    BY <1>3, <2>1, <2>2, <2>4
  <2> QED BY <2>5 DEF V
<1>8. CASE op = "mod"
  <2> DEFINE R == {Remainders(i, j) : i \in S, j \in T}
  <2>1. R \in SUBSET Intervals
    BY <1>1, RemaindersHold
  <2>2. Evaluated(op, s, t) = ResultOfPairs(s, t, R)
    BY <1>8 DEF Evaluated, Pairwise, ResultOfPairs
  <2>3. ASSUME NEW r \in V
        PROVE  \E a \in A, b \in B : \A i \in S, j \in T :
                 In(a, i) /\ In(b, j) => \E k \in R : In(r, k)
    <3>1. PICK a \in A, b \in B : r = Mod(a, b) /\ b # 0 /\ a >= 0 /\ b >= 0
      BY <1>8 DEF ResultsOf
    <3>2. r \in Words /\ a \in Words /\ b \in Words
      BY <1>1, <1>2
    <3>3. ASSUME NEW i \in S, NEW j \in T, In(a, i), In(b, j)
          PROVE  Remainders(i, j) \in R /\ In(r, Remainders(i, j))
      <4>1. i \in Intervals /\ j \in Intervals
        BY <1>1
      <4> QED BY <3>1, <3>2, <3>3, <4>1, RemaindersHold
    <3> HIDE DEF R
    <3> QED BY <3>3
  <2>4. HoldsResults(V, A, B, S, T, R)
    BY <2>3 DEF HoldsResults
  <2> HIDE DEF R, V
  <2>5. GoodSet(Evaluated(op, s, t)) /\ V \subseteq Members(Evaluated(op, s, t))
    BY <1>3, <2>1, <2>2, <2>4
  <2> QED BY <2>5 DEF V
<1>9. CASE op = "max"
  <2> DEFINE R == {Larger(i, j) : i \in S, j \in T}
  <2>1. R \in SUBSET Intervals
    BY <1>1, LargerAndSmallerHold
  <2>2. Evaluated(op, s, t) = ResultOfPairs(s, t, R)
    BY <1>9 DEF Evaluated, Pairwise, ResultOfPairs
  <2>3. ASSUME NEW r \in V
        PROVE  \E a \in A, b \in B : \A i \in S, j \in T :
                 In(a, i) /\ In(b, j) => \E k \in R : In(r, k)
    <3>1. PICK a \in A, b \in B : r = Greatest({a, b})
      BY <1>9 DEF ResultsOf
    <3>2. r \in Words /\ a \in Words /\ b \in Words
      BY <1>1, <1>2
    <3>3. ASSUME NEW i \in S, NEW j \in T, In(a, i), In(b, j)
          PROVE  Larger(i, j) \in R /\ In(r, Larger(i, j))
      <4>1. i \in Intervals /\ j \in Intervals
        BY <1>1
      <4> QED BY <3>1, <3>2, <3>3, <4>1, LargerAndSmallerHold
    <3> HIDE DEF R
    <3> QED BY <3>3
  <2>4. HoldsResults(V, A, B, S, T, R)
    BY <2>3 DEF HoldsResults
  <2> HIDE DEF R, V
  <2>5. GoodSet(Evaluated(op, s, t)) /\ V \subseteq Members(Evaluated(op, s, t))
    BY <1>3, <2>1, <2>2, <2>4
  <2> QED BY <2>5 DEF V
<1>10. CASE op = "min"
  <2> DEFINE R == {Smaller(i, j) : i \in S, j \in T}
  <2>1. R \in SUBSET Intervals
    BY <1>1, LargerAndSmallerHold
  <2>2. Evaluated(op, s, t) = ResultOfPairs(s, t, R)
    BY <1>10 DEF Evaluated, Pairwise, ResultOfPairs
  <2>3. ASSUME NEW r \in V
        PROVE  \E a \in A, b \in B : \A i \in S, j \in T :
                 In(a, i) /\ In(b, j) => \E k \in R : In(r, k)
    <3>1. PICK a \in A, b \in B : r = Least({a, b})
      BY <1>10 DEF ResultsOf
    <3>2. r \in Words /\ a \in Words /\ b \in Words
      BY <1>1, <1>2
    <3>3. ASSUME NEW i \in S, NEW j \in T, In(a, i), In(b, j)
          PROVE  Smaller(i, j) \in R /\ In(r, Smaller(i, j))
      <4>1. i \in Intervals /\ j \in Intervals
        BY <1>1
      <4> QED BY <3>1, <3>2, <3>3, <4>1, LargerAndSmallerHold
    <3> HIDE DEF R
    <3> QED BY <3>3
  <2>4. HoldsResults(V, A, B, S, T, R)
    BY <2>3 DEF HoldsResults
  <2> HIDE DEF R, V
  <2>5. GoodSet(Evaluated(op, s, t)) /\ V \subseteq Members(Evaluated(op, s, t))
    BY <1>3, <2>1, <2>2, <2>4
  <2> QED BY <2>5 DEF V
<1> QED BY <1>4, <1>5, <1>6, <1>7, <1>8, <1>9, <1>10 DEF Ops

Relations == {"eq", "ne", "lt", "le", "gt", "ge"}

\* The interval of a condition holds what meets it, where its end wraps, too.
LEMMA GoodCondition ==
  ASSUME NEW rel \in Relations, NEW n \in Words, NEW V \in SUBSET Words, wraps \in BOOLEAN
  PROVE  /\ GoodSet(Condition(rel, n))
         /\ Meeting(rel, n, V) \subseteq Members(Condition(rel, n)) /\ Meeting(rel, n, V) \subseteq V
<1>1. /\ MinWord \in Words /\ MaxWord \in Words /\ n \in Int
      /\ \A v \in Words : v \in Int /\ MinWord <= v /\ v <= MaxWord
  BY WordBounds DEF Words
<1>2. /\ Wrapped(n - 1) \in Words /\ Wrapped(n + 1) \in Words
      /\ \A v \in Words : v < n => v <= Wrapped(n - 1)
      /\ \A v \in Words : v > n => v >= Wrapped(n + 1)
  <2>1. Wrapped(n - 1) \in Words /\ Wrapped(n + 1) \in Words
    BY <1>1, WrappedWord
  <2>2. n = MinWord \/ n - 1 \in Words
    BY <1>1, WordBounds DEF Words
  <2>3. n = MaxWord \/ n + 1 \in Words
    BY <1>1, WordBounds DEF Words
  <2>4. n = MinWord \/ Wrapped(n - 1) = n - 1
    BY <1>1, <2>2, WrappedWord
  <2>5. n = MaxWord \/ Wrapped(n + 1) = n + 1
    BY <1>1, <2>3, WrappedWord
  <2> QED BY <1>1, <2>1, <2>4, <2>5
<1>3. CASE rel = "eq"
  <2>1. Condition(rel, n) = Interval(n, n) /\ Meeting(rel, n, V) = {v \in V : v = n}
    BY <1>3 DEF Condition, Meeting
  <2> QED BY <1>1, <2>1, GoodInterval
<1>4. CASE rel = "ne"
  <2> DEFINE s == Interval(MinWord, Wrapped(n - 1))
             t == Interval(Wrapped(n + 1), MaxWord)
  <2>1. Condition(rel, n) = UnionWith(s, t) /\ Meeting(rel, n, V) = {v \in V : v # n}
    BY <1>4 DEF Condition, Meeting
  <2>2. GoodSet(s) /\ \A v \in Words : v < n => v \in Members(s)
    BY <1>1, <1>2, GoodInterval
  <2>3. GoodSet(t) /\ \A v \in Words : v > n => v \in Members(t)
    BY <1>1, <1>2, GoodInterval
  <2> HIDE DEF s, t
  <2>4. GoodSet(UnionWith(s, t)) /\ Members(s) \cup Members(t) \subseteq Members(UnionWith(s, t))
    BY <2>2, <2>3, GoodUnion
  <2>5. \A v \in Words : v # n => v < n \/ v > n
    BY <1>1
  <2> QED BY <2>1, <2>2, <2>3, <2>4, <2>5
<1>5. CASE rel = "lt"
  <2>1. Condition(rel, n) = Interval(MinWord, Wrapped(n - 1)) /\ Meeting(rel, n, V) = {v \in V : v < n}
    BY <1>5 DEF Condition, Meeting
  <2> QED BY <1>1, <1>2, <2>1, GoodInterval
<1>6. CASE rel = "le"
  <2>1. Condition(rel, n) = Interval(MinWord, n) /\ Meeting(rel, n, V) = {v \in V : v <= n}
    BY <1>6 DEF Condition, Meeting
  <2> QED BY <1>1, <2>1, GoodInterval
<1>7. CASE rel = "gt"
  <2>1. Condition(rel, n) = Interval(Wrapped(n + 1), MaxWord) /\ Meeting(rel, n, V) = {v \in V : v > n}
    BY <1>7 DEF Condition, Meeting
  <2> QED BY <1>1, <1>2, <2>1, GoodInterval
<1>8. CASE rel = "ge"
  <2>1. Condition(rel, n) = Interval(n, MaxWord) /\ Meeting(rel, n, V) = {v \in V : v >= n}
    BY <1>8 DEF Condition, Meeting
  <2> QED BY <1>1, <2>1, GoodInterval
<1> QED BY <1>3, <1>4, <1>5, <1>6, <1>7, <1>8 DEF Relations

-----------------------------------------------------------------------------
(* Widening. *)

\* In order, the first lower bound and the last upper bound are the ends of the set.
LEMMA EndsOfSet ==
  ASSUME NEW s, GoodSet(s), s.intervals # <<>>
  PROVE  LET l == Head(s.intervals)[1]
             u == Last(s.intervals)[2]
         IN  l \in Words /\ u \in Words /\ l <= u /\ \A v \in Members(s) : l <= v /\ v <= u
<1> DEFINE m == s.intervals
           n == Len(m)
<1>1. m \in Seq(Intervals) /\ m # <<>> /\ InOrder(m)
  BY DEF GoodSet
<1>2. n \in Nat \ {0} /\ DOMAIN m = 1..n /\ Head(m) = m[1] /\ Last(m) = m[n]
  <2> HIDE DEF m
  <2> QED BY <1>1 DEF Last, n
<1>3. Members(s) = {v \in Words : \E i \in DOMAIN m : m[i][1] <= v /\ v <= m[i][2]}
  BY DEF Members
<1> HIDE DEF m, n
<1>4. \A k \in 1..n : m[k] \in Intervals
  BY <1>1, <1>2
<1>5. ASSUME NEW k \in 1..n PROVE m[1][1] <= m[k][1] /\ m[k][2] <= m[n][2]
  <2>1. /\ m[1][1] \in Int /\ m[k][1] \in Int /\ m[k][2] \in Int /\ m[n][1] \in Int /\ m[n][2] \in Int
        /\ m[n][1] <= m[n][2] /\ m[k][2] <= MaxWord
    BY <1>2, <1>4, IntervalEnds
  <2>2. m[1][1] <= m[k][1]
    BY <1>1, <1>2, <2>1 DEF InOrder
  <2>3. k = n \/ m[k][2] + 1 < m[n][1] \/ m[n][2] = MaxWord
    BY <1>1, <1>2 DEF InOrder
  <2> QED BY <2>1, <2>2, <2>3
<1>6. /\ m[1][1] \in Words /\ m[n][2] \in Words /\ m[1][1] <= m[1][2]
      /\ m[1][1] \in Int /\ m[1][2] \in Int /\ m[n][2] \in Int
  BY <1>2, <1>4, IntervalEnds
<1>7. m[1][1] <= m[n][2]
  BY <1>2, <1>5, <1>6
<1>8. ASSUME NEW v \in Members(s) PROVE m[1][1] <= v /\ v <= m[n][2]
  <2>1. PICK k \in 1..n : m[k][1] <= v /\ v <= m[k][2]
    BY <1>2, <1>3
  <2>2. v \in Int /\ m[k][1] \in Int /\ m[k][2] \in Int
    BY <1>3, <1>4, IntervalEnds, WordBounds DEF Words
  <2> QED BY <1>5, <1>6, <2>1, <2>2
<1> QED BY <1>2, <1>6, <1>7, <1>8 DEF m

Infinite(l, u) == (IF l = MinWord THEN 1 ELSE 0) + (IF u = MaxWord THEN 1 ELSE 0)

\* An interval with the ends l and u.
Single(s, l, u) == s.intervals = << <<l, u>> >> /\ l \in Words /\ u \in Words /\ l <= u

\* widen covers both sets; after the first one the set is one interval, and every further one
\* that changes it moves an end to infinity.
LEMMA GoodWiden ==
  ASSUME NEW s, NEW t, GoodSet(s), GoodSet(t), wraps \in BOOLEAN
  PROVE  /\ GoodSet(Widen(s, t))
         /\ Members(s) \cup Members(t) \subseteq Members(Widen(s, t))
         /\ s.intervals # <<>> /\ Widen(s, t) # s =>
              \E l, u \in Words : Single(Widen(s, t), l, u)
         /\ \A l, u \in Words : Single(s, l, u) /\ ~s.undefined /\ Widen(s, t) # s =>
              \E x, y \in Words : /\ Single(Widen(s, t), x, y)
                                  /\ Infinite(x, y) >= Infinite(l, u) + 1
<1>1. CASE t.intervals = <<>>
  <2>1. Widen(s, t) = s
    BY <1>1 DEF Widen
  <2>2. Members(t) = {}
    BY <1>1 DEF Members
  <2> QED BY <2>1, <2>2
<1>2. CASE t.intervals # <<>> /\ s.intervals = <<>>
  <2>1. Widen(s, t) = t
    BY <1>2 DEF Widen
  <2>2. Members(s) = {}
    BY <1>2 DEF Members
  <2>3. \A l, u \in Words : ~Single(s, l, u)
    BY <1>2 DEF Single
  <2> QED BY <1>2, <2>1, <2>2, <2>3
<1>3. CASE t.intervals # <<>> /\ s.intervals # <<>>
  <2> DEFINE l == Head(s.intervals)[1]
             u == Last(s.intervals)[2]
             tl == Head(t.intervals)[1]
             tu == Last(t.intervals)[2]
             x == IF tl < l THEN MinWord ELSE l
             y == IF tu > u THEN MaxWord ELSE u
  <2>1. /\ l \in Words /\ u \in Words /\ l <= u /\ \A v \in Members(s) : l <= v /\ v <= u
        /\ tl \in Words /\ tu \in Words /\ tl <= tu /\ \A v \in Members(t) : tl <= v /\ v <= tu
    BY <1>3, EndsOfSet
  <2>2. Widen(s, t) = Interval(x, y)
    BY <1>3 DEF Widen
  <2>3. \A a, b \in Words : Single(s, a, b) => a = l /\ b = u
    BY DEF Single, Last
  <2> HIDE DEF l, u, tl, tu
  <2>4. /\ MinWord \in Words /\ MaxWord \in Words
        /\ \A v \in Words : v \in Int /\ MinWord <= v /\ v <= MaxWord
    BY WordBounds DEF Words
  <2>5. x \in Words /\ y \in Words /\ x <= y /\ x <= l /\ x <= tl /\ u <= y /\ tu <= y
    BY <2>1, <2>4
  <2>6. Infinite(x, y) >= Infinite(l, u) + 1 \/ (x = l /\ y = u)
    BY <2>1, <2>4 DEF Infinite
  <2> HIDE DEF x, y
  <2>7. Interval(x, y) = [undefined |-> FALSE, intervals |-> << <<x, y>> >>]
    BY <2>5 DEF Interval, IntervalSet
  <2>8. Single(Widen(s, t), x, y)
    BY <2>2, <2>5, <2>7 DEF Single
  <2>9. GoodSet(Widen(s, t)) /\ \A v \in Words : x <= v /\ v <= y => v \in Members(Widen(s, t))
    BY <2>2, <2>5, GoodInterval
  <2>10. Members(s) \cup Members(t) \subseteq Members(Widen(s, t))
    <3>1. Members(s) \in SUBSET Words /\ Members(t) \in SUBSET Words
      BY IntervalsOf
    <3> QED BY <2>1, <2>4, <2>5, <2>9, <3>1
  <2>11. ASSUME NEW a \in Words, NEW b \in Words, Single(s, a, b), ~s.undefined, Widen(s, t) # s
         PROVE  Infinite(x, y) >= Infinite(a, b) + 1
    <3>1. a = l /\ b = u
      BY <2>3, <2>11
    <3>2. s = [undefined |-> FALSE, intervals |-> << <<a, b>> >>]
      BY <2>11 DEF Single, GoodSet
    <3> QED BY <2>2, <2>6, <2>7, <2>11, <3>1, <3>2
  <2> QED BY <2>5, <2>8, <2>9, <2>10, <2>11
<1> QED BY <1>1, <1>2, <1>3

-----------------------------------------------------------------------------
(* The invariant of the walk. *)

\* The sets that come from elsewhere are sets of the analysis.
LEMMA OthersGood ==
  ASSUME NEW s \in Others, InOrder(s.intervals)
  PROVE  GoodSet(s)
<1>1. CASE s = Undefined
  BY <1>1, GoodUndefined
<1>2. CASE s # Undefined
  <2>1. /\ s = [undefined |-> FALSE, intervals |-> s.intervals]
        /\ s.intervals \in Seq(Words \X Words)
        /\ \A i \in DOMAIN s.intervals : s.intervals[i][1] <= s.intervals[i][2]
    BY <1>2, OthersAssumption DEF IntervalSet
  <2> DEFINE m == s.intervals
  <2>2. Len(m) \in Nat /\ DOMAIN m = 1..Len(m) /\ \A i \in DOMAIN m : m[i] \in Intervals
    BY <2>1 DEF Intervals
  <2>3. m = [i \in 1..Len(m) |-> m[i]]
    BY <2>1
  <2>4. m \in [1..Len(m) -> Intervals]
    BY <2>2, <2>3
  <2>5. m \in Seq(Intervals)
    BY <2>2, <2>4
  <2>6. m = s.intervals
    OBVIOUS
  <2> HIDE DEF m
  <2>7. s = [undefined |-> FALSE, intervals |-> m] /\ InOrder(m)
    BY <2>1, <2>6
  <2> QED BY <2>5, <2>7 DEF GoodSet
<1> QED BY <1>1, <1>2

\* What keeps the widenings few: after one the set is an interval, and every further one
\* moves another end of it to infinity.
WideningShape ==
  widenings > 0 => \E l, u \in Words : Single(bounds, l, u) /\ widenings <= 1 + Infinite(l, u)

IntervalInv ==
  /\ wraps \in BOOLEAN
  /\ guessed \in BOOLEAN
  /\ widenings \in Nat
  /\ values \subseteq Words
  /\ GoodSet(bounds)
  /\ WithinBounds
  /\ WideningShape

\* The walk starts within the invariant, and every kind of step keeps it:
LEMMA InitGood == IntervalInit => IntervalInv
<1> SUFFICES ASSUME IntervalInit PROVE IntervalInv
  OBVIOUS
<1>1. GoodSet(bounds)
  <2>1. \A n \in Numbers : GoodSet(Interval(n, n))
    BY NumbersAssumption, GoodInterval
  <2> QED BY <2>1, OthersGood DEF IntervalInit
<1>2. values = Members(bounds) /\ Members(bounds) \in SUBSET Words
  BY <1>1, IntervalsOf DEF IntervalInit
<1>3. wraps \in BOOLEAN /\ guessed \in BOOLEAN /\ widenings = 0
  BY DEF IntervalInit
<1>4. WithinBounds /\ WideningShape
  BY <1>2, <1>3 DEF WithinBounds, WideningShape
<1> QED BY <1>1, <1>2, <1>3, <1>4 DEF IntervalInv

\* A step that makes the bounds a good set which holds the values, and is no widening.
LEMMA StepGood ==
  ASSUME IntervalInv, NEW s, GoodSet(s), bounds' = s, wraps' = wraps,
         values' \subseteq Words, guessed' \in BOOLEAN, ~guessed' => values' \subseteq Members(s),
         widenings' = 0
  PROVE  IntervalInv'
<1>1. GoodSet(bounds)'
  BY DEF GoodSet, InOrder
<1>2. wraps' \in BOOLEAN
  BY DEF IntervalInv
<1> QED BY <1>1, <1>2 DEF IntervalInv, WithinBounds, WideningShape

\* an instruction,
LEMMA EvaluateGood ==
  ASSUME IntervalInv, wraps' = wraps, NEW other \in Others, InOrder(other.intervals),
         NEW op \in Ops, NEW swapped \in BOOLEAN, Evaluate(op, other, swapped)
  PROVE  IntervalInv'
<1>1. PICK s, t, A, B :
        /\ IF swapped THEN s = other /\ t = bounds /\ A = Members(other) /\ B = values
                      ELSE s = bounds /\ t = other /\ A = values /\ B = Members(other)
        /\ bounds' = Evaluated(op, s, t)
        /\ values' = ResultsOf(op, A, B)
        /\ guessed' = (guessed \/ (op = "mod" /\ \E v \in A \cup B : v < 0))
        /\ widenings' = 0
  BY DEF Evaluate
<1>2. /\ GoodSet(bounds) /\ GoodSet(other) /\ wraps \in BOOLEAN /\ values \subseteq Words
      /\ guessed \in BOOLEAN
      /\ ~guessed => values \subseteq Members(bounds)
  BY OthersGood DEF IntervalInv, WithinBounds
<1>3. GoodSet(s) /\ GoodSet(t) /\ A \subseteq Words /\ B \subseteq Words
      /\ (~guessed => A \subseteq Members(s) /\ B \subseteq Members(t))
  BY <1>1, <1>2, IntervalsOf
<1>4. GoodSet(Evaluated(op, s, t))
  <2>1. {} \in SUBSET Members(s) /\ {} \in SUBSET Members(t) /\ \A v \in {} \cup {} : v >= 0
    OBVIOUS
  <2> QED BY <1>2, <1>3, <2>1, GoodEvaluated
<1>5. ~guessed' => values' \subseteq Members(Evaluated(op, s, t))
  <2> SUFFICES ASSUME ~guessed' PROVE values' \subseteq Members(Evaluated(op, s, t))
    OBVIOUS
  <2>1. ~guessed /\ (op = "mod" => \A v \in A \cup B : ~(v < 0))
    BY <1>1
  <2>2. \A v \in A \cup B : v \in Int
    BY <1>3, WordBounds DEF Words
  <2>3. op = "mod" => \A v \in A \cup B : v >= 0
    BY <2>1, <2>2
  <2> QED BY <1>1, <1>2, <1>3, <2>1, <2>3, GoodEvaluated
<1>6. values' \subseteq Words /\ guessed' \in BOOLEAN
  BY <1>1, <1>2 DEF ResultsOf
<1> QED BY <1>1, <1>4, <1>5, <1>6, StepGood

\* a jump,
LEMMA JumpGood ==
  ASSUME IntervalInv, wraps' = wraps, NEW before \in Others, InOrder(before.intervals), Jump(before)
  PROVE  IntervalInv'
<1>1. /\ GoodSet(bounds) /\ GoodSet(before) /\ wraps \in BOOLEAN /\ values \subseteq Words
      /\ guessed \in BOOLEAN
      /\ ~guessed => values \subseteq Members(bounds)
  BY OthersGood DEF IntervalInv, WithinBounds
<1> DEFINE s == UnionWith(before, bounds)
<1>2. GoodSet(s) /\ Members(before) \cup Members(bounds) \subseteq Members(s)
  BY <1>1, GoodUnion
<1>3. /\ bounds' = s /\ values' = values \cup Members(before) /\ widenings' = 0
      /\ guessed' = guessed
  BY DEF Jump
<1>4. Members(before) \in SUBSET Words
  BY <1>1, IntervalsOf
<1> HIDE DEF s
<1> QED BY <1>1, <1>2, <1>3, <1>4, StepGood

\* a branch,
LEMMA BranchGood ==
  ASSUME IntervalInv, wraps' = wraps, NEW before \in Others, InOrder(before.intervals),
         NEW rel \in Relations, NEW n \in Numbers, Branch(before, rel, n)
  PROVE  IntervalInv'
<1>1. /\ GoodSet(bounds) /\ GoodSet(before) /\ wraps \in BOOLEAN /\ values \in SUBSET Words
      /\ guessed \in BOOLEAN /\ n \in Words
      /\ ~guessed => values \subseteq Members(bounds)
  BY OthersGood, NumbersAssumption DEF IntervalInv, WithinBounds
<1> DEFINE s == UnionWith(before, bounds)
           c == Condition(rel, n)
           V == Meeting(rel, n, values)
           E == Meeting(rel, n, Members(before))
<1>2. GoodSet(s) /\ Members(before) \cup Members(bounds) \subseteq Members(s)
  BY <1>1, GoodUnion
<1>3. Members(before) \in SUBSET Words
  BY <1>1, IntervalsOf
<1>4. GoodSet(c) /\ V \subseteq Members(c) /\ V \subseteq values /\ E \subseteq Members(c)
  BY <1>1, <1>3, GoodCondition
<1>5. /\ bounds' = IntersectWith(s, c) /\ values' = V \cup Members(before) /\ widenings' = 0
      /\ guessed' = (guessed \/ E # Members(before))
  BY DEF Branch
<1> HIDE DEF s, c, V, E
<1>6. GoodSet(IntersectWith(s, c)) /\ Members(s) \cap Members(c) \subseteq Members(IntersectWith(s, c))
  BY <1>1, <1>2, <1>4, GoodIntersection
<1>7. ~guessed' => values' \subseteq Members(IntersectWith(s, c))
  BY <1>1, <1>2, <1>4, <1>5, <1>6
<1>8. values' \subseteq Words /\ guessed' \in BOOLEAN
  BY <1>1, <1>3, <1>4, <1>5
<1> QED BY <1>5, <1>6, <1>7, <1>8, StepGood

\* and a phi of a loop.
LEMMA PhiGood ==
  ASSUME IntervalInv, wraps' = wraps, NEW incoming \in Others, InOrder(incoming.intervals),
         PhiOfLoop(incoming)
  PROVE  IntervalInv'
<1>1. /\ GoodSet(bounds) /\ GoodSet(incoming) /\ wraps \in BOOLEAN /\ values \in SUBSET Words
      /\ guessed \in BOOLEAN /\ widenings \in Nat
      /\ ~guessed => values \subseteq Members(bounds)
  BY OthersGood DEF IntervalInv, WithinBounds
<1> DEFINE s == Widen(bounds, incoming)
<1>2. /\ GoodSet(s)
      /\ Members(bounds) \cup Members(incoming) \subseteq Members(s)
      /\ bounds.intervals # <<>> /\ s # bounds => \E l, u \in Words : Single(s, l, u)
      /\ \A l, u \in Words : Single(bounds, l, u) /\ ~bounds.undefined /\ s # bounds =>
           \E x, y \in Words : Single(s, x, y) /\ Infinite(x, y) >= Infinite(l, u) + 1
  BY <1>1, GoodWiden
<1>3. /\ bounds' = s /\ values' = values \cup Members(incoming) /\ guessed' = guessed
      /\ widenings' = widenings + (IF bounds.intervals = <<>> \/ s = bounds THEN 0 ELSE 1)
  BY DEF PhiOfLoop
<1> HIDE DEF s
<1>4. GoodSet(bounds)'
  BY <1>2, <1>3 DEF GoodSet, InOrder
<1>5. Members(incoming) \in SUBSET Words
  BY <1>1, IntervalsOf
<1>6. widenings' \in Nat
  BY <1>1, <1>3
<1>7. \A l, u \in Words : Infinite(l, u) \in Nat
  BY DEF Infinite
<1>8. widenings' > 0 => \E l, u \in Words : Single(s, l, u) /\ widenings' <= 1 + Infinite(l, u)
  <2>1. CASE bounds.intervals = <<>>
    <3>1. \A l, u : ~Single(bounds, l, u)
      BY <2>1 DEF Single
    <3>2. widenings = 0
      BY <1>1, <3>1 DEF IntervalInv, WideningShape
    <3> QED BY <1>3, <2>1, <3>2
  <2>2. CASE bounds.intervals # <<>> /\ s = bounds
    BY <1>1, <1>3, <2>2 DEF IntervalInv, WideningShape
  <2>3. CASE bounds.intervals # <<>> /\ s # bounds /\ widenings = 0
    <3>1. PICK l \in Words, u \in Words : Single(s, l, u)
      BY <1>2, <2>3
    <3> QED BY <1>3, <1>7, <2>3, <3>1
  <2>4. CASE bounds.intervals # <<>> /\ s # bounds /\ widenings > 0
    <3>1. PICK l \in Words, u \in Words : Single(bounds, l, u) /\ widenings <= 1 + Infinite(l, u)
      BY <2>4 DEF IntervalInv, WideningShape
    <3>2. ~bounds.undefined
      BY <1>1, <2>4 DEF GoodSet
    <3>3. PICK x \in Words, y \in Words : Single(s, x, y) /\ Infinite(x, y) >= Infinite(l, u) + 1
      BY <1>2, <2>4, <3>1, <3>2
    <3>4. widenings' = widenings + 1
      BY <1>3, <2>4
    <3> QED BY <1>1, <1>7, <3>1, <3>3, <3>4
  <2> QED BY <1>1, <2>1, <2>2, <2>3, <2>4
<1>9. WideningShape'
  BY <1>3, <1>8 DEF WideningShape, Single
<1>10. WithinBounds'
  BY <1>1, <1>2, <1>3 DEF WithinBounds
<1> QED BY <1>1, <1>3, <1>4, <1>5, <1>6, <1>9, <1>10 DEF IntervalInv

\* The walk keeps its invariant.
THEOREM WalkInvariant == IntervalSpec => []IntervalInv
<1>1. IntervalInit => IntervalInv
  BY InitGood
<1>2. IntervalInv /\ [Walk]_ivars => IntervalInv'
  <2> SUFFICES ASSUME IntervalInv, [Walk]_ivars PROVE IntervalInv'
    OBVIOUS
  <2>1. CASE Walk
    <3>1. PICK other \in Others :
            /\ InOrder(other.intervals)
            /\ \/ \E op \in Ops, swapped \in BOOLEAN : Evaluate(op, other, swapped)
               \/ Jump(other)
               \/ \E rel \in Relations, n \in Numbers : Branch(other, rel, n)
               \/ PhiOfLoop(other)
      BY <2>1 DEF Walk, Ops, Relations
    <3>2. wraps' = wraps
      BY <2>1 DEF Walk
    <3> QED BY <3>1, <3>2, EvaluateGood, JumpGood, BranchGood, PhiGood
  <2>2. CASE UNCHANGED ivars
    BY <2>2 DEF ivars, IntervalInv, GoodSet, InOrder, WithinBounds, WideningShape, Single
  <2> QED BY <2>1, <2>2
<1> QED BY <1>1, <1>2, PTL DEF IntervalSpec

\* Whatever the width of words, the constants and the other operands, and whatever the
\* largest word + 1 is: the analysis never loses a value a variable can have, the two
\* guesses of IntervalAnalysis apart.
THEOREM AnalysisSound == IntervalSpec => []WithinBounds
<1>1. IntervalInv => WithinBounds
  BY DEF IntervalInv
<1> QED BY <1>1, WalkInvariant, PTL

\* Every operation leaves the intervals in order and apart.
THEOREM AlwaysOrderly == IntervalSpec => []Orderly
<1>1. IntervalInv => Orderly
  BY DEF IntervalInv, GoodSet, Orderly
<1> QED BY <1>1, WalkInvariant, PTL

\* At most three widenings in a row change a phi (IntervalSet::widen).  That the worklist of
\* rabai_function runs empty is another matter: FewAnalyses of IntervalAnalysis.
THEOREM FewWidenings == IntervalSpec => [](WideningStops /\ widenings <= 3)
<1>1. IntervalInv => WideningStops /\ widenings <= 3
  <2> SUFFICES ASSUME IntervalInv PROVE WideningStops /\ widenings <= 3
    OBVIOUS
  <2>1. CASE widenings = 0
    BY <2>1 DEF WideningStops
  <2>2. CASE widenings > 0
    <3>1. PICK l \in Words, u \in Words : Single(bounds, l, u) /\ widenings <= 1 + Infinite(l, u)
      BY <2>2 DEF IntervalInv, WideningShape
    <3>2. Ends = {l, u}
      BY <3>1 DEF Ends, Single, Last
    <3>3. /\ MinWord \in Int /\ MaxWord \in Int /\ MinWord # MaxWord /\ l \in Int /\ u \in Int
          /\ l <= u /\ MinWord <= l /\ u <= MaxWord
      BY <3>1, WordBounds DEF Words, Single
    <3>4. IsFiniteSet({}) /\ Cardinality({}) = 0
      BY FS_EmptySet
    <3>5. IsFiniteSet({MinWord}) /\ Cardinality({MinWord}) = 1 /\ Cardinality({MaxWord}) = 1
      BY FS_Singleton
    <3>6. Cardinality({MinWord, MaxWord}) = 2
      <4>1. {MinWord, MaxWord} = {MinWord} \cup {MaxWord} /\ MaxWord \notin {MinWord}
        BY <3>3
      <4> QED BY <3>5, <4>1, FS_AddElement
    <3>7. Cardinality(Ends \cap {MinWord, MaxWord}) = Infinite(l, u)
      <4>1. CASE l = MinWord /\ u = MaxWord
        <5>1. Ends \cap {MinWord, MaxWord} = {MinWord, MaxWord}
          BY <3>2, <4>1
        <5> QED BY <3>6, <4>1, <5>1 DEF Infinite
      <4>2. CASE l = MinWord /\ u # MaxWord
        <5>1. Ends \cap {MinWord, MaxWord} = {MinWord}
          BY <3>2, <3>3, <4>2
        <5> QED BY <3>5, <4>2, <5>1 DEF Infinite
      <4>3. CASE l # MinWord /\ u = MaxWord
        <5>1. Ends \cap {MinWord, MaxWord} = {MaxWord}
          BY <3>2, <3>3, <4>3
        <5> QED BY <3>5, <4>3, <5>1 DEF Infinite
      <4>4. CASE l # MinWord /\ u # MaxWord
        <5>1. Ends \cap {MinWord, MaxWord} = {}
          BY <3>2, <3>3, <4>4
        <5> QED BY <3>4, <4>4, <5>1 DEF Infinite
      <4> QED BY <4>1, <4>2, <4>3, <4>4
    <3>8. Infinite(l, u) \in Nat /\ Infinite(l, u) <= 2 /\ widenings \in Nat
      BY DEF Infinite, IntervalInv
    <3> QED BY <3>1, <3>7, <3>8 DEF WideningStops
  <2> QED BY <2>1, <2>2 DEF IntervalInv
<1> QED BY <1>1, WalkInvariant, PTL
=============================================================================
