-------------------------- MODULE DivConst_proofs --------------------------
(***************************************************************************)
(* Proofs about the code for division and multiplication by a constant,    *)
(* for every width of words, every constant and every other operand.       *)
(***************************************************************************)
EXTENDS DivConst, NumberLemmas

-----------------------------------------------------------------------------
(* Registers. *)

\* Half a word: words are -Half .. Half - 1.
Half == Pow2[W - 1]

\* The powers of two that a word of W bits and a register of 2W bits are bounded by.
LEMMA Widths ==
  /\ Half \in Nat \ {0, 1}
  /\ Pow2[W] = 2 * Half
  /\ Pow2[2 * W] = 4 * (Half * Half)
  /\ Pow2[2 * W - 1] = 2 * (Half * Half)
<1>1. W \in Nat /\ W - 2 \in Nat /\ W - 1 = (W - 2) + 1 /\ W = (W - 1) + 1 /\ W - 1 \in Nat
  BY WordAssumption
<1>2. Half \in Nat \ {0, 1}
  <2>1. Half = 2 * Pow2[W - 2] /\ Pow2[W - 2] \in Nat \ {0}
    BY <1>1, Pow2Equations DEF Half
  <2> QED BY <2>1
<1>3. Pow2[W] = 2 * Half
  BY <1>1, Pow2Equations DEF Half
<1>4. Pow2[W + (W - 1)] = Pow2[W] * Half
  BY <1>1, Pow2Sum DEF Half
<1>5. Pow2[W + W] = Pow2[W] * Pow2[W]
  BY <1>1, Pow2Sum
<1>6. W + W = 2 * W /\ W + (W - 1) = 2 * W - 1
  BY <1>1
<1> QED BY <1>2, <1>3, <1>4, <1>5, <1>6

\* What a register of n bits keeps of a number.
LEMMA WrapIs ==
  ASSUME NEW n \in Nat \ {0}, NEW x \in Int, NEW y \in Int, NEW c \in Int,
         x = y + c * Pow2[n], -Pow2[n - 1] <= y, y < Pow2[n - 1]
  PROVE  Wrap(x, n) = y
<1> DEFINE m == Pow2[n]
           h == Pow2[n - 1]
<1>1. m = 2 * h /\ h \in Nat \ {0}
  <2>1. n - 1 \in Nat /\ (n - 1) + 1 = n
    OBVIOUS
  <2> QED BY <2>1, Pow2Equations
<1>2. x = y + c * m /\ -h <= y /\ y < h
  OBVIOUS
<1>3. Wrap(x, n) = ((x + h) % m) - h
  BY DEF Wrap
<1> HIDE DEF m, h
<1>4. /\ x + h \in Int /\ y + h \in Int /\ m \in Nat \ {0}
      /\ x + h = (y + h) + c * m /\ 0 <= y + h /\ y + h < m
  BY <1>1, <1>2
<1>5. (x + h) % m = y + h
  BY <1>4, RemainderIs
<1> QED BY <1>1, <1>3, <1>5

\* srli of a register that is not negative is a division by a power of two.
LEMMA ShiftRightNotNegative ==
  ASSUME NEW x \in Int, 0 <= x, x < Pow2[2 * W - 1], NEW k \in Nat
  PROVE  ShiftRight(x, k) = Quot(x, Pow2[k])
<1> DEFINE m == Pow2[2 * W]
           h == Pow2[2 * W - 1]
           d == Pow2[k]
           q == Quot(x, d)
<1>1. 2 * W \in Nat \ {0} /\ 2 * W - 1 \in Nat /\ (2 * W - 1) + 1 = 2 * W
  BY WordAssumption
<1>2. m = 2 * h /\ h \in Nat \ {0} /\ m \in Nat \ {0} /\ d \in Nat \ {0}
  BY <1>1, Pow2Equations
<1>3. x % m = x
  <2> HIDE DEF m
  <2>1. m \in Nat \ {0} /\ 0 \in Int /\ x = x + 0 * m /\ x < m
    BY <1>2
  <2> QED BY <2>1, RemainderIs
<1>4. ShiftRight(x, k) = Wrap(q, 2 * W)
  BY <1>3 DEF ShiftRight, Quot
<1>5. q \in Int /\ d * q <= x /\ x < d * q + d
  BY <1>2, QuotBounds
<1>6. 0 <= q /\ q <= x
  <2> HIDE DEF d, q
  <2>1. CASE q < 0
    <3>1. d * (q + 1) <= d * 0
      BY <1>2, <1>5, <2>1, TimesMonotone
    <3> QED BY <1>2, <1>5, <3>1
  <2>2. CASE q >= 0
    <3>1. 1 * q <= d * q
      BY <1>2, <1>5, <2>2, TimesMonotone
    <3> QED BY <1>2, <1>5, <2>2, <3>1
  <2> QED BY <1>5, <2>1, <2>2
<1> HIDE DEF q
<1>7. q \in Int /\ 0 \in Int /\ q = q + 0 * Pow2[2 * W] /\ -Pow2[2 * W - 1] <= q /\ q < Pow2[2 * W - 1]
  BY <1>2, <1>5, <1>6
<1>8. Wrap(q, 2 * W) = q
  BY <1>1, <1>7, WrapIs
<1> QED BY <1>4, <1>8 DEF q

\* A negative number is taken for a large positive one.
LEMMA ShiftRightNegative ==
  ASSUME NEW x \in Int, x < 0, -Pow2[2 * W - 1] <= x, NEW k \in 1..(2 * W)
  PROVE  ShiftRight(x, k) = Quot(x, Pow2[k]) + Pow2[2 * W - k]
<1> DEFINE m == Pow2[2 * W]
           h == Pow2[2 * W - 1]
           d == Pow2[k]
           e == Pow2[2 * W - k]
           q == Quot(x, d)
<1>1. /\ 2 * W \in Nat \ {0} /\ 2 * W - 1 \in Nat /\ (2 * W - 1) + 1 = 2 * W
      /\ k \in Nat /\ k - 1 \in Nat /\ (k - 1) + 1 = k /\ 2 * W - k \in Nat /\ k + (2 * W - k) = 2 * W
  BY WordAssumption
<1>2. m = 2 * h /\ h \in Nat \ {0} /\ m \in Nat \ {0} /\ d \in Nat \ {0} /\ e \in Nat \ {0}
  BY <1>1, Pow2Equations
<1>3. m = d * e
  <2>1. Pow2[k + (2 * W - k)] = d * e
    BY <1>1, Pow2Sum
  <2> QED BY <1>1, <2>1
<1>4. 2 <= d
  <2>1. d = 2 * Pow2[k - 1] /\ Pow2[k - 1] \in Nat \ {0}
    BY <1>1, Pow2Equations
  <2> QED BY <2>1
<1>5. x % m = x + m
  <2> HIDE DEF m
  <2>1. /\ m \in Nat \ {0} /\ -1 \in Int /\ x + m \in Int
        /\ x = (x + m) + (-1) * m /\ 0 <= x + m /\ x + m < m
    BY <1>2
  <2> QED BY <2>1, RemainderIs
<1>6. q \in Int /\ d * q <= x /\ x < d * q + d
  BY <1>2, QuotBounds
<1>7. Quot(x + m, d) = q + e
  <2> HIDE DEF m, d, e, q
  <2>1. d * (q + e) = d * q + m
    BY <1>2, <1>3, <1>6
  <2> QED BY <1>2, <1>6, <2>1, QuotIs
<1>8. ShiftRight(x, k) = Wrap(q + e, 2 * W)
  BY <1>5, <1>7 DEF ShiftRight, Quot
<1>9. q < 0 /\ 0 <= q + e /\ e <= h
  <2> HIDE DEF m, d, e, q, h
  <2>1. CASE q >= 0
    <3>1. d * 0 <= d * q
      BY <1>2, <1>6, <2>1, TimesMonotone
    <3> QED BY <1>2, <1>6, <3>1
  <2>2. CASE q + e < 0
    <3>1. d * (q + 1) <= d * (-e)
      BY <1>2, <1>6, <2>2, TimesMonotone
    <3>2. d * (q + 1) = d * q + d /\ d * (-e) = -m
      BY <1>2, <1>3, <1>6
    <3>3. -m <= x
      BY <1>2 DEF h
    <3> QED BY <1>2, <1>6, <3>1, <3>2, <3>3
  <2>3. 2 * e <= d * e
    BY <1>2, <1>4, TimesMonotone
  <2> QED BY <1>2, <1>3, <1>6, <2>1, <2>2, <2>3
<1> DEFINE y == q + e
<1>10. y \in Int /\ 0 \in Int /\ y = y + 0 * m /\ -h <= y /\ y < h
  <2> HIDE DEF m, d, e, q, h
  <2> QED BY <1>2, <1>6, <1>9
<1>11. Wrap(y, 2 * W) = y
  <2> HIDE DEF y, q, e, d
  <2>1. 2 * W \in Nat \ {0} /\ y = y + 0 * Pow2[2 * W] /\ -Pow2[2 * W - 1] <= y /\ y < Pow2[2 * W - 1]
    BY <1>1, <1>10
  <2> QED BY <1>10, <2>1, WrapIs
<1> QED BY <1>8, <1>11

\* A shift by 0 keeps a register.
LEMMA ShiftRightByNothing ==
  ASSUME NEW x \in Int, -Pow2[2 * W - 1] <= x, x < Pow2[2 * W - 1]
  PROVE  ShiftRight(x, 0) = x
<1> DEFINE m == Pow2[2 * W]
           h == Pow2[2 * W - 1]
<1>1. 2 * W \in Nat \ {0} /\ 2 * W - 1 \in Nat /\ (2 * W - 1) + 1 = 2 * W
  BY WordAssumption
<1>2. m = 2 * h /\ h \in Nat \ {0} /\ m \in Nat \ {0} /\ Pow2[0] = 1
  BY <1>1, Pow2Equations
<1>3. \E c \in Int : x % m = x + c * m
  <2> HIDE DEF m
  <2>1. x % m = x + (-Quot(x, m)) * m /\ Quot(x, m) \in Int
    <3>1. Quot(x, m) \in Int
      BY <1>2, QuotBounds
    <3>2. x % m = x - m * Quot(x, m)
      BY <1>2, QuotRemainder
    <3> QED BY <1>2, <3>1, <3>2
  <2> QED BY <2>1
<1>4. PICK c \in Int : x % m = x + c * m
  BY <1>3
<1>5. Quot(x + c * m, 1) = x + c * m
  <2> HIDE DEF m
  <2> QED BY <1>2, QuotIs
<1>6. ShiftRight(x, 0) = Wrap(x + c * m, 2 * W)
  BY <1>2, <1>4, <1>5 DEF ShiftRight, Quot
<1> DEFINE z == x + c * m
<1>7. z \in Int /\ z = x + c * Pow2[2 * W]
  BY <1>2
<1>8. Wrap(z, 2 * W) = x
  <2> HIDE DEF z
  <2> QED BY <1>1, <1>2, <1>7, WrapIs
<1> QED BY <1>6, <1>8

-----------------------------------------------------------------------------
(* The multiplier. *)

\* Words and divisors, by half a word.
LEMMA WordsAre ==
  /\ Word = -Half .. (Half - 1)
  /\ Divisors = 1 .. (Half - 1)
BY DEF Word, Divisors, Half

\* The exponent of the greatest power of two below a divisor.
LEMMA Log2FloorIs ==
  ASSUME NEW d \in Divisors
  PROVE  /\ Log2Floor(d) \in 0..(W - 2)
         /\ Pow2[Log2Floor(d)] <= d /\ d < Pow2[Log2Floor(d) + 1]
<1> DEFINE T == {k \in Nat : d < Pow2[k]}
<1>1. W - 1 \in Nat /\ d \in Nat \ {0} /\ d < Pow2[W - 1]
  <2>1. W - 1 \in Nat
    BY WordAssumption
  <2>2. Half \in Nat \ {0, 1} /\ d \in 1..(Half - 1)
    BY Widths, WordsAre
  <2>3. d \in Nat \ {0} /\ d < Half
    BY <2>2
  <2> QED BY <2>1, <2>3 DEF Half
<1>2. W - 1 \in T
  BY <1>1
<1>3. PICK m \in T : \A n \in T : m <= n
  BY <1>2, LeastNumber
<1>4. m # 0
  BY <1>1, Pow2Equations
<1>5. m \in Nat /\ m - 1 \in Nat /\ m - 1 \notin T /\ m <= W - 1
  BY <1>2, <1>3, <1>4
<1>6. Pow2[m - 1] <= d /\ d < Pow2[(m - 1) + 1]
  BY <1>1, <1>3, <1>5, Pow2Equations
<1> HIDE DEF T
<1>7. m - 1 \in 0..W /\ m - 1 \in 0..(W - 2)
  BY <1>5, WordAssumption
<1>8. \A j, k \in Nat : Pow2[j] <= d /\ d < Pow2[k + 1] => j <= k
  <2>1. SUFFICES ASSUME NEW j \in Nat, NEW k \in Nat, Pow2[j] <= d, d < Pow2[k + 1], k + 1 <= j
                 PROVE  FALSE
    OBVIOUS
  <2>2. Pow2[k + 1] <= Pow2[j]
    BY <2>1, Pow2Monotone
  <2>3. Pow2[k + 1] \in Nat /\ Pow2[j] \in Nat
    BY Pow2Equations
  <2> QED BY <1>1, <2>1, <2>2, <2>3
<1> DEFINE l == Log2Floor(d)
<1>9. l \in 0..W /\ Pow2[l] <= d /\ d < Pow2[l + 1]
  BY <1>6, <1>7 DEF Log2Floor
<1> HIDE DEF l
<1>10. l <= m - 1
  BY <1>5, <1>6, <1>8, <1>9
<1>11. l \in 0..(W - 2)
  BY <1>7, <1>9, <1>10, WordAssumption
<1> QED BY <1>9, <1>11 DEF l

\* The candidates after k halvings, without halving.
LEMMA Candidate ==
  ASSUME NEW d \in Divisors, NEW k \in 0..Log2Floor(d)
  PROVE  /\ Low(d, k) = Quot(Pow2[W + Log2Floor(d) - k], d)
         /\ High(d, k) = Quot(Pow2[W + Log2Floor(d) - k] + Pow2[Log2Floor(d) + 1 - k], d)
<1> DEFINE l == Log2Floor(d)
           a == Pow2[W + l]
           b == Pow2[l + 1]
           p == Pow2[W + l - k]
           e == Pow2[l + 1 - k]
           c == Pow2[k]
<1>1. d \in Nat \ {0} /\ l \in 0..(W - 2) /\ l \in Nat /\ W \in Nat /\ k \in Nat
  BY Widths, WordsAre, Log2FloorIs, WordAssumption
<1>2. /\ W + l - k \in Nat /\ (W + l - k) + k = W + l
      /\ l + 1 - k \in Nat /\ (l + 1 - k) + k = l + 1
      /\ W + l \in Nat /\ l + 1 \in Nat
  <2> HIDE DEF l
  <2>1. k \in 0..l
    BY DEF l
  <2> QED BY <1>1, <2>1
<1>3. a = p * c /\ b = e * c
  <2> HIDE DEF l
  <2>1. Pow2[(W + l - k) + k] = p * c
    BY <1>1, <1>2, Pow2Sum
  <2>2. Pow2[(l + 1 - k) + k] = e * c
    BY <1>1, <1>2, Pow2Sum
  <2> QED BY <1>2, <2>1, <2>2
<1>4. a \in Nat /\ b \in Nat /\ p \in Nat /\ e \in Nat /\ c \in Nat \ {0}
  <2> HIDE DEF l
  <2> QED BY <1>1, <1>2, Pow2Equations
<1>5. Low(d, k) = Quot(Quot(a, d), c) /\ High(d, k) = Quot(Quot(a + b, d), c)
  BY DEF Low, High, Quot
<1> HIDE DEF l, a, b, c, p, e
<1>6. Quot(Quot(a, d), c) = Quot(p, d)
  <2>1. Quot(Quot(a, d), c) = Quot(a, d * c)
    BY <1>1, <1>4, QuotOfQuot
  <2>2. Quot(p * c, d * c) = Quot(p, d)
    BY <1>1, <1>4, QuotScaled
  <2> QED BY <1>3, <2>1, <2>2
<1>7. Quot(Quot(a + b, d), c) = Quot(p + e, d)
  <2>1. Quot(Quot(a + b, d), c) = Quot(a + b, d * c)
    BY <1>1, <1>4, QuotOfQuot
  <2>2. Quot((p + e) * c, d * c) = Quot(p + e, d)
    <3>1. p + e \in Int
      BY <1>4
    <3> QED BY <1>1, <1>4, <3>1, QuotScaled
  <2>3. a + b = (p + e) * c
    BY <1>3, <1>4
  <2> QED BY <2>1, <2>2, <2>3
<1> QED BY <1>5, <1>6, <1>7 DEF l, p, e

\* What the multiplier is good for: it lies just above 2^(W + sh) / d.
LEMMA MultiplierIs ==
  ASSUME NEW d \in Divisors, NEW h, NEW s, Multiplier(d) = [high |-> h, sh |-> s]
  PROVE  /\ h \in Nat /\ s \in 0..Log2Floor(d)
         /\ Pow2[W + s] < h * d /\ h * d <= Pow2[W + s] + Pow2[s + 1]
<1> DEFINE l == Log2Floor(d)
           T == {k \in 0..l : ~CanHalve(d, k)}
<1>1. d \in Nat \ {0} /\ l \in 0..(W - 2) /\ l \in Nat /\ W \in Nat
  BY Widths, WordsAre, Log2FloorIs, WordAssumption
<1>2. l \in T
  BY <1>1 DEF CanHalve
<1>3. \E k \in 0..l : ~CanHalve(d, k) /\ \A j \in 0..(k - 1) : CanHalve(d, j)
  <2>1. T \in SUBSET Nat /\ T # {}
    BY <1>2
  <2>2. PICK k \in T : \A n \in T : k <= n
    BY <2>1, LeastNumber
  <2>3. \A j \in 0..(k - 1) : j \in 0..l /\ ~(k <= j)
    BY <1>1, <2>1, <2>2
  <2> QED BY <2>2, <2>3
<1> DEFINE Stop(k) == ~CanHalve(d, k) /\ \A j \in 0..(k - 1) : CanHalve(d, j)
           g == CHOOSE k \in 0..l : Stop(k)
<1>4. g \in 0..l /\ Stop(g)
  <2> HIDE DEF Stop, l
  <2>1. \E k \in 0..l : Stop(k)
    BY <1>3 DEF Stop
  <2> QED BY <2>1
<1>5. Multiplier(d) = [high |-> High(d, g), sh |-> l - g]
  BY DEF Multiplier
<1> HIDE DEF g
<1>6. h = High(d, g) /\ s = l - g
  BY <1>5
<1> DEFINE p == Pow2[W + s]
           e == Pow2[s + 1]
           low == Low(d, g)
<1>7. s \in 0..l /\ W + l - g = W + s /\ l + 1 - g = s + 1 /\ W + s \in Nat /\ s + 1 \in Nat
  <2> HIDE DEF l
  <2> QED BY <1>1, <1>4, <1>6
<1>8. low = Quot(p, d) /\ h = Quot(p + e, d)
  BY <1>4, <1>6, <1>7, Candidate
<1>9. p \in Nat /\ e \in Nat \ {0}
  BY <1>7, Pow2Equations
<1>10. low < h
  <2>1. CASE g = 0
    <3>1. s = l /\ d < e
      BY <1>1, <1>6, <2>1, Log2FloorIs
    <3> HIDE DEF p, e, low
    <3>2. low \in Int /\ d * low <= p /\ p < d * low + d
      BY <1>1, <1>8, <1>9, QuotBounds
    <3>3. h \in Int /\ p + e < d * h + d
      BY <1>1, <1>8, <1>9, QuotBounds
    <3>4. CASE h <= low
      <4>1. d * h <= d * low
        BY <1>1, <3>2, <3>3, <3>4, TimesMonotone
      <4> QED BY <1>1, <1>9, <3>1, <3>2, <3>3, <4>1
    <3> QED BY <3>2, <3>3, <3>4
  <2>2. CASE g # 0
    <3>1. g - 1 \in 0..(g - 1) /\ (g - 1) + 1 = g
      BY <1>4, <2>2
    <3>2. CanHalve(d, g - 1)
      BY <1>4, <3>1
    <3> QED BY <1>6, <3>1, <3>2 DEF CanHalve
  <2> QED BY <2>1, <2>2
<1> HIDE DEF p, e, low
<1>11. /\ low \in Int /\ d * low <= p /\ p < d * low + d
       /\ h \in Int /\ d * h <= p + e
  BY <1>1, <1>8, <1>9, QuotBounds
<1>12. d * (low + 1) <= d * h
  BY <1>1, <1>10, <1>11, TimesMonotone
<1>13. p < d * h /\ d * h = h * d
  <2>1. d * (low + 1) = d * low + d
    BY <1>1, <1>11
  <2>2. d * low \in Int /\ d * h \in Int
    BY <1>1, <1>11
  <2> QED BY <1>1, <1>9, <1>11, <1>12, <2>1, <2>2
<1>14. h \in Nat
  <2>1. CASE h < 0
    <3>1. d * h <= d * 0
      BY <1>1, <1>11, <2>1, TimesMonotone
    <3>2. d * 0 = 0 /\ d * h \in Int
      BY <1>1, <1>11
    <3> QED BY <1>9, <1>13, <3>1, <3>2
  <2> QED BY <1>11, <2>1
<1> QED BY <1>7, <1>11, <1>13, <1>14 DEF p, e, l

-----------------------------------------------------------------------------
(* Multiplying by h and shifting by the width and s divides by d. *)

\* h lies above p / d, and by no more than e / d: p stands for 2^(W + s), e for 2^(s + 1).
Above(h, d, p, e) == p < h * d /\ h * d <= p + e

\* A dividend that is not negative.
LEMMA MultiplyNotNegative ==
  ASSUME NEW d \in Nat \ {0}, NEW p \in Nat \ {0}, NEW e \in Nat, NEW h \in Nat,
         Above(h, d, p, e), NEW n \in Nat, n * e < p
  PROVE  Quot(n * h, p) = Quot(n, d)
<1> USE DEF Above
<1> DEFINE q == Quot(n, d)
<1>1. q \in Int /\ d * q <= n /\ n < d * q + d
  BY QuotBounds
<1> DEFINE z == n * h
           f == h * d - p
           y == n * f
           x == n * p
<1>2. z \in Int /\ f \in 1..e /\ y \in Int /\ x \in Int /\ 0 <= y /\ y <= n * e
  <2>1. z \in Int /\ f \in 1..e /\ y \in Int /\ x \in Int
    OBVIOUS
  <2> HIDE DEF z, f, x
  <2>2. n * 0 <= n * f /\ n * f <= n * e
    BY <2>1, TimesMonotone
  <2> QED BY <2>1, <2>2
<1>3. d * z = x + y
  <2>1. d * z = n * (h * d)
    OBVIOUS
  <2>2. n * (h * d) = n * (p + f)
    OBVIOUS
  <2>3. n * (p + f) = n * p + n * f
    BY <1>2
  <2> QED BY <2>1, <2>2, <2>3
<1>4. y < p
  BY <1>2
<1> HIDE DEF q, z, f, y, x
<1>5. p * q <= z
  <2>1. CASE z + 1 <= p * q
    <3>1. d * (z + 1) <= d * (p * q)
      BY <1>1, <1>2, <2>1, TimesMonotone
    <3>2. d * (p * q) = (d * q) * p /\ (d * q) * p <= n * p
      BY <1>1, TimesMonotone
    <3>3. d * (z + 1) = d * z + d
      BY <1>2
    <3>4. x + y + d <= x
      BY <1>1, <1>2, <1>3, <3>1, <3>2, <3>3 DEF x
    <3> QED BY <1>2, <3>4
  <2> QED BY <1>1, <1>2, <2>1
<1>6. z < p * q + p
  <2>1. CASE p * q + p <= z
    <3>1. d * (p * q + p) <= d * z
      BY <1>1, <1>2, <2>1, TimesMonotone
    <3>2. d * (p * q + p) = (d * q + d) * p /\ (n + 1) * p <= (d * q + d) * p
      BY <1>1, TimesMonotone
    <3>3. (n + 1) * p = x + p
      BY DEF x
    <3>4. x + p <= x + y
      BY <1>1, <1>2, <1>3, <3>1, <3>2, <3>3
    <3> QED BY <1>2, <1>4, <3>4
  <2> QED BY <1>1, <1>2, <2>1
<1>7. Quot(z, p) = q
  BY <1>1, <1>2, <1>5, <1>6, QuotIs
<1> QED BY <1>7 DEF z, q

\* A negative one, -n.
LEMMA MultiplyNegative ==
  ASSUME NEW d \in Nat \ {0}, NEW p \in Nat \ {0}, NEW e \in Nat, NEW h \in Nat,
         Above(h, d, p, e), NEW n \in Nat \ {0}, n * e <= p
  PROVE  Quot(-(n * h), p) = -Quot(n, d) - 1
<1> USE DEF Above
<1> DEFINE q == Quot(n, d)
<1>1. q \in Int /\ d * q <= n /\ n + 1 <= d * q + d
  BY QuotBounds
<1> DEFINE z == n * h
           f == h * d - p
           y == n * f
           x == n * p
<1>2. z \in Int /\ f \in 1..e /\ y \in Int /\ x \in Int /\ 0 < y /\ y <= n * e
  <2>1. z \in Int /\ f \in 1..e /\ y \in Int /\ x \in Int
    OBVIOUS
  <2> HIDE DEF z, f, x
  <2>2. n * 1 <= n * f /\ n * f <= n * e
    BY <2>1, TimesMonotone
  <2> QED BY <2>1, <2>2
<1>3. d * z = x + y
  <2>1. d * z = n * (h * d)
    OBVIOUS
  <2>2. n * (h * d) = n * (p + f)
    OBVIOUS
  <2>3. n * (p + f) = n * p + n * f
    BY <1>2
  <2> QED BY <2>1, <2>2, <2>3
<1>4. y <= p
  BY <1>2
<1> HIDE DEF q, z, f, y, x
<1>5. p * q < z
  <2>1. CASE z <= p * q
    <3>1. d * z <= d * (p * q)
      BY <1>1, <1>2, <2>1, TimesMonotone
    <3>2. d * (p * q) = (d * q) * p /\ (d * q) * p <= n * p
      BY <1>1, TimesMonotone
    <3>3. x + y <= x
      BY <1>1, <1>2, <1>3, <3>1, <3>2 DEF x
    <3> QED BY <1>2, <3>3
  <2> QED BY <1>1, <1>2, <2>1
<1>6. z <= p * q + p
  <2>1. CASE p * q + p + 1 <= z
    <3>1. d * (p * q + p + 1) <= d * z
      BY <1>1, <1>2, <2>1, TimesMonotone
    <3>2. d * (p * q + p + 1) = (d * q + d) * p + d /\ (n + 1) * p <= (d * q + d) * p
      BY <1>1, TimesMonotone
    <3>3. (n + 1) * p = x + p
      BY DEF x
    <3>4. x + p + d <= x + y
      <4>1. (n + 1) * p + d <= (d * q + d) * p + d
        BY <1>1, <3>2
      <4> QED BY <1>1, <1>2, <1>3, <3>1, <3>2, <3>3, <4>1
    <3> QED BY <1>2, <1>4, <3>4
  <2> QED BY <1>1, <1>2, <2>1
<1> DEFINE r == -q - 1
           w == -z
<1>7. r \in Int /\ w \in Int /\ p * r <= w /\ w < p * r + p
  <2>1. p * r = -(p * q) - p
    BY <1>1
  <2> QED BY <1>1, <1>2, <1>5, <1>6, <2>1
<1> HIDE DEF r, w
<1>8. Quot(w, p) = r
  BY <1>7, QuotIs
<1> QED BY <1>8 DEF w, z, r, q

\* The same with the multiplier of d.
LEMMA MultiplierDivides ==
  ASSUME NEW d \in Divisors, NEW h, NEW s, Multiplier(d) = [high |-> h, sh |-> s], NEW n \in 0..Half
  PROVE  /\ n < Half => Quot(n * h, Pow2[W + s]) = Quot(n, d)
         /\ n > 0 => Quot(-(n * h), Pow2[W + s]) = -Quot(n, d) - 1
<1> DEFINE p == Pow2[W + s]
           e == Pow2[s + 1]
<1>1. d \in Nat \ {0} /\ W \in Nat /\ h \in Nat /\ s \in Nat /\ p < h * d /\ h * d <= p + e
  <2>1. Log2Floor(d) \in Nat
    BY Log2FloorIs
  <2> QED BY <2>1, MultiplierIs, Widths, WordsAre, WordAssumption
<1>2. p \in Nat \ {0} /\ e \in Nat \ {0}
  BY <1>1, Pow2Equations
<1>3. p = Half * e
  <2>1. W - 1 \in Nat /\ s + 1 \in Nat /\ (W - 1) + (s + 1) = W + s
    BY <1>1, WordAssumption
  <2> QED BY <2>1, Pow2Sum DEF Half
<1> HIDE DEF p, e
<1>4. ASSUME n < Half PROVE Quot(n * h, p) = Quot(n, d)
  <2>1. (n + 1) * e <= Half * e
    BY <1>2, <1>4, Widths, TimesMonotone
  <2>2. (n + 1) * e = n * e + e /\ n * e \in Int
    BY <1>2, Widths
  <2>3. n \in Nat /\ e \in Nat /\ n * e < p
    BY <1>2, <1>3, <2>1, <2>2, Widths
  <2>4. Above(h, d, p, e)
    BY <1>1 DEF Above
  <2> QED BY <1>1, <1>2, <2>3, <2>4, MultiplyNotNegative
<1>5. ASSUME n > 0 PROVE Quot(-(n * h), p) = -Quot(n, d) - 1
  <2>1. n * e <= Half * e
    BY <1>2, Widths, TimesMonotone
  <2>2. n \in Nat \ {0} /\ n * e <= p
    BY <1>3, <1>5, <2>1, Widths
  <2>3. Above(h, d, p, e)
    BY <1>1 DEF Above
  <2> QED BY <1>1, <1>2, <2>2, <2>3, MultiplyNegative
<1> QED BY <1>4, <1>5 DEF p

\* The multiplier fits an unsigned word.
LEMMA MultiplierFits ==
  ASSUME NEW d \in Divisors, ~IsPowerOf2(d),
         NEW h, NEW s, Multiplier(d) = [high |-> h, sh |-> s]
  PROVE  h < Pow2[W]
<1> DEFINE l == Log2Floor(d)
           m == Pow2[W]
           t == Pow2[s]
           u == Pow2[l]
<1>1. /\ d \in Nat \ {0} /\ l \in 0..(W - 2) /\ W \in Nat /\ h \in Nat /\ s \in 0..l
      /\ Pow2[W + s] < h * d /\ h * d <= Pow2[W + s] + Pow2[s + 1]
  <2>1. d \in Nat \ {0} /\ l \in 0..(W - 2) /\ W \in Nat
    BY Log2FloorIs, Widths, WordsAre, WordAssumption
  <2> QED BY <2>1, MultiplierIs
<1>2. u < d
  BY <1>1, Log2FloorIs, Pow2Equations DEF IsPowerOf2
<1>3. /\ Pow2[W + s] = m * t /\ Pow2[s + 1] = 2 * t /\ t <= u
      /\ m \in Nat \ {0} /\ t \in Nat \ {0} /\ u \in Nat \ {0}
  <2> HIDE DEF l
  <2>1. s \in Nat /\ l \in Nat /\ s <= l
    BY <1>1
  <2> QED BY <1>1, <2>1, Pow2Equations, Pow2Sum, Pow2Monotone
<1>4. 2 * u < m
  <2> HIDE DEF l
  <2>1. l + 1 \in Nat /\ l + 1 <= W - 1 /\ W - 1 \in Nat /\ l \in Nat
    BY <1>1
  <2>2. Pow2[l + 1] <= Half /\ Pow2[l + 1] = 2 * u
    BY <2>1, Pow2Monotone, Pow2Equations DEF Half
  <2> QED BY <1>3, <2>2, Widths
<1>5. h * d <= m * t + 2 * t
  BY <1>1, <1>3
<1> HIDE DEF l, m, t, u
<1>6. m * t <= m * u
  BY <1>3, TimesMonotone
<1>7. m * (u + 1) <= m * d
  BY <1>1, <1>2, <1>3, TimesMonotone
<1>8. m * (u + 1) = m * u + m
  BY <1>3
<1>9. h * d < m * d
  BY <1>1, <1>3, <1>4, <1>5, <1>6, <1>7, <1>8
<1>10. CASE m <= h
  <2>1. m * d <= h * d
    BY <1>1, <1>3, <1>10, TimesMonotone
  <2> QED BY <1>1, <1>3, <1>9, <2>1
<1> QED BY <1>1, <1>3, <1>10 DEF m

-----------------------------------------------------------------------------
(* What each instruction leaves in its register. *)

\* A number that a register of n bits has room for.
LEMMA WrapKeeps ==
  ASSUME NEW y \in Int
  PROVE  /\ -Half <= y /\ y < Half => Wrap(y, W) = y
         /\ -(2 * (Half * Half)) <= y /\ y < 2 * (Half * Half) => Wrap(y, 2 * W) = y
<1>1. W \in Nat \ {0} /\ 2 * W \in Nat \ {0}
  BY WordAssumption
<1>2. y = y + 0 * Pow2[W] /\ y = y + 0 * Pow2[2 * W]
  BY Widths
<1>3. ASSUME -Half <= y, y < Half PROVE Wrap(y, W) = y
  <2>1. 0 \in Int /\ y = y + 0 * Pow2[W] /\ -Pow2[W - 1] <= y /\ y < Pow2[W - 1]
    BY <1>2, <1>3 DEF Half
  <2> QED BY <1>1, <2>1, WrapIs
<1>4. ASSUME -(2 * (Half * Half)) <= y, y < 2 * (Half * Half) PROVE Wrap(y, 2 * W) = y
  <2>1. 0 \in Int /\ y = y + 0 * Pow2[2 * W] /\ -Pow2[2 * W - 1] <= y /\ y < Pow2[2 * W - 1]
    BY <1>2, <1>4, Widths
  <2> QED BY <1>1, <2>1, WrapIs
<1> QED BY <1>3, <1>4

\* A quotient is no larger than the dividend, and 0 below the divisor.
LEMMA QuotRange ==
  ASSUME NEW x \in Nat, NEW c \in Nat \ {0}
  PROVE  Quot(x, c) \in Nat /\ Quot(x, c) <= x /\ (x < c => Quot(x, c) = 0)
<1> DEFINE q == Quot(x, c)
<1>1. q \in Int /\ c * q <= x /\ x < c * q + c
  BY QuotBounds
<1> HIDE DEF q
<1>2. q >= 0
  <2>1. CASE q < 0
    <3>1. c * (q + 1) <= c * 0
      BY <1>1, <2>1, TimesMonotone
    <3> QED BY <1>1, <3>1
  <2> QED BY <1>1, <2>1
<1>3. 1 * q <= c * q
  BY <1>1, <1>2, TimesMonotone
<1>4. q <= x
  BY <1>1, <1>3
<1>5. ASSUME x < c PROVE q = 0
  <2>1. CASE q >= 1
    <3>1. c * 1 <= c * q
      BY <1>1, <2>1, TimesMonotone
    <3> QED BY <1>1, <1>5, <3>1
  <2> QED BY <1>1, <1>2, <2>1
<1> QED BY <1>1, <1>2, <1>4, <1>5 DEF q

\* The sign of a word, after a shift by k that leaves no more of it.
LEMMA SignOf ==
  ASSUME NEW x \in Word, NEW k \in (W - 1)..(2 * W)
  PROVE  ShiftRight(x, k) = IF x < 0 THEN Pow2[2 * W - k] - 1 ELSE 0
<1>1. x \in Int /\ -Half <= x /\ x < Half /\ Half <= Half * Half
  <2>1. Half * 1 <= Half * Half
    BY Widths, TimesMonotone
  <2> QED BY <2>1, Widths, WordsAre
<1>2. k \in Nat /\ k \in 1..(2 * W) /\ W - 1 \in Nat /\ W - 1 <= k
  BY WordAssumption
<1>3. Half <= Pow2[k] /\ Pow2[k] \in Nat \ {0}
  BY <1>2, Pow2Monotone, Pow2Equations DEF Half
<1>4. CASE x < 0
  <2>1. Quot(x, Pow2[k]) = -1
    <3> DEFINE c == Pow2[k]
    <3>1. c \in Nat \ {0} /\ c * (-1) = -c
      BY <1>3
    <3> HIDE DEF c
    <3>2. c * (-1) <= x /\ x < c * (-1) + c
      BY <1>1, <1>3, <1>4, <3>1, Widths DEF c
    <3>3. Quot(x, c) = -1
      BY <1>1, <3>1, <3>2, QuotIs
    <3> QED BY <3>3 DEF c
  <2>2. -Pow2[2 * W - 1] <= x
    BY <1>1, Widths
  <2>3. ShiftRight(x, k) = Quot(x, Pow2[k]) + Pow2[2 * W - k]
    BY <1>1, <1>2, <1>4, <2>2, ShiftRightNegative
  <2>4. Pow2[2 * W - k] \in Nat
    <3>1. 2 * W - k \in Nat
      BY WordAssumption
    <3> QED BY <3>1, Pow2Equations
  <2> QED BY <1>4, <2>1, <2>3, <2>4
<1>5. CASE x >= 0
  <2>1. x < Pow2[2 * W - 1]
    BY <1>1, Widths
  <2>2. ShiftRight(x, k) = Quot(x, Pow2[k])
    BY <1>1, <1>2, <1>5, <2>1, ShiftRightNotNegative
  <2>3. x \in Nat /\ x < Pow2[k]
    BY <1>1, <1>3, <1>5, Widths
  <2>4. Quot(x, Pow2[k]) = 0
    BY <1>3, <2>3, QuotRange
  <2> QED BY <1>1, <1>5, <2>2, <2>4
<1> QED BY <1>1, <1>4, <1>5

\* Division of the source language, by the sign of the dividend.
LEMMA QuotientIs ==
  ASSUME NEW n \in Word, NEW d \in Divisors
  PROVE  /\ n >= 0 => Quotient(n, d) = Quot(n, d) /\ Quot(n, d) \in Nat /\ Quot(n, d) <= n
         /\ n < 0 => Quotient(n, d) = -Quot(-n, d) /\ Quot(-n, d) \in Nat /\ Quot(-n, d) <= -n
<1>1. n \in Int /\ d \in Nat \ {0}
  BY Widths, WordsAre
<1>2. ASSUME n >= 0 PROVE Quotient(n, d) = Quot(n, d) /\ Quot(n, d) \in Nat /\ Quot(n, d) <= n
  BY <1>1, <1>2, QuotRange DEF Quotient, Quot
<1>3. ASSUME n < 0 PROVE Quotient(n, d) = -Quot(-n, d) /\ Quot(-n, d) \in Nat /\ Quot(-n, d) <= -n
  <2>1. -n \in Nat
    BY <1>1, <1>3
  <2>2. Quotient(n, d) = -Quot(-n, d)
    BY <1>3 DEF Quotient, Quot
  <2> QED BY <1>1, <2>1, <2>2, QuotRange
<1> QED BY <1>2, <1>3

-----------------------------------------------------------------------------
(* The code for a power of two. *)

\* After the addition the dividend is rounded up when it is negative.
Biased(n, k) == IF n < 0 THEN n + (Pow2[k] - 1) ELSE n

\* The bias of PowerOf2Code: the top bits of a sign-extended dividend are 2^k - 1 when it is
\* negative, 0 when it is not, and the sum is a word.
LEMMA PowerOf2Adds ==
  ASSUME NEW n \in Word, NEW k \in 1..(W - 2)
  PROVE  /\ Wrap(n + ShiftRight(n, 2 * W - k), W) = Biased(n, k)
         /\ Biased(n, k) \in Word
<1>1. 2 * W - k \in (W - 1)..(2 * W) /\ 2 * W - (2 * W - k) = k /\ k \in Nat /\ W - 1 \in Nat /\ k <= W - 1
  BY WordAssumption
<1>2. ShiftRight(n, 2 * W - k) = IF n < 0 THEN Pow2[k] - 1 ELSE 0
  BY <1>1, SignOf
<1>3. Pow2[k] \in Nat \ {0} /\ Pow2[k] <= Half
  BY <1>1, Pow2Equations, Pow2Monotone DEF Half
<1>4. n \in Int /\ -Half <= n /\ n < Half
  BY Widths, WordsAre
<1>5. n + ShiftRight(n, 2 * W - k) = Biased(n, k)
  BY <1>2, <1>4 DEF Biased
<1>6. Biased(n, k) \in Int /\ -Half <= Biased(n, k) /\ Biased(n, k) < Half
  BY <1>3, <1>4, Widths DEF Biased
<1> QED BY <1>5, <1>6, WrapKeeps, Widths, WordsAre

\* The shift after it: the low word is the quotient rounded toward zero, the whole register too
\* when the dividend is not negative.
LEMMA PowerOf2Shifts ==
  ASSUME NEW n \in Word, NEW k \in 1..(W - 2), Pow2[k] \in Divisors
  PROVE  /\ Wrap(ShiftRight(Biased(n, k), k), W) = Quotient(n, Pow2[k])
         /\ n >= 0 => ShiftRight(Biased(n, k), k) = Quotient(n, Pow2[k])
<1> DEFINE b == Biased(n, k)
           d == Pow2[k]
<1>1. /\ n \in Int /\ -Half <= n /\ n < Half /\ b \in Int /\ -Half <= b /\ b < Half
      /\ Half <= Half * Half /\ d \in Nat \ {0} /\ d <= Half
  <2>1. Half * 1 <= Half * Half
    BY Widths, TimesMonotone
  <2>2. b \in Word
    BY PowerOf2Adds
  <2> HIDE DEF b, d
  <2> QED BY <2>1, <2>2, Widths, WordsAre DEF d
<1>2. k \in Nat /\ k \in 1..(2 * W) /\ 2 * W - k \in Nat /\ W - k \in Nat /\ W \in Nat \ {0} /\ (W - k) + W = 2 * W - k
  BY WordAssumption
<1>3. CASE n >= 0
  <2>1. b = n
    BY <1>1, <1>3 DEF Biased
  <2>2. n < Pow2[2 * W - 1]
    BY <1>1, Widths
  <2>3. ShiftRight(n, k) = Quot(n, d)
    BY <1>1, <1>2, <1>3, <2>2, ShiftRightNotNegative
  <2>4. Quotient(n, d) = Quot(n, d) /\ Quot(n, d) \in Nat /\ Quot(n, d) <= n
    BY <1>3, QuotientIs
  <2> HIDE DEF b, d
  <2>5. Wrap(Quot(n, d), W) = Quot(n, d)
    <3> DEFINE q == Quot(n, d)
    <3> HIDE DEF q
    <3>1. q \in Int /\ -Half <= q /\ q < Half
      BY <1>1, <2>4, Widths DEF q
    <3>2. Wrap(q, W) = q
      BY <3>1, WrapKeeps
    <3> QED BY <3>2 DEF q
  <2> QED BY <2>1, <2>3, <2>4, <2>5 DEF b, d
<1>4. CASE n < 0
  <2> DEFINE q == Quot(-n, d)
  <2>1. Quotient(n, d) = -q /\ q \in Nat /\ q <= -n
    BY <1>4, QuotientIs
  <2>2. d * q <= -n /\ -n < d * q + d
    <3> HIDE DEF b, d
    <3>1. -n \in Int /\ d \in Nat \ {0}
      BY <1>1
    <3> QED BY <3>1, QuotBounds
  <2>3. b = n + (d - 1)
    BY <1>4 DEF Biased
  <2> HIDE DEF q
  <2>4. Quot(b, d) = -q
    <3> HIDE DEF b, d
    <3>1. d * (-q) = -(d * q)
      BY <1>1, <2>1
    <3>2. -q \in Int /\ d * (-q) <= b /\ b < d * (-q) + d
      BY <1>1, <2>1, <2>2, <2>3, <3>1
    <3> QED BY <1>1, <3>2, QuotIs
  <2>5. CASE b >= 0
    <3>1. b < Pow2[2 * W - 1]
      <4> HIDE DEF b
      <4> QED BY <1>1, Widths
    <3>2. ShiftRight(b, k) = Quot(b, d)
      <4> HIDE DEF b
      <4> QED BY <1>1, <1>2, <2>5, <3>1, ShiftRightNotNegative
    <3>3. Wrap(-q, W) = -q
      <4> HIDE DEF b, d
      <4>1. -q \in Int /\ -Half <= -q /\ -q < Half
        BY <1>1, <1>4, <2>1, Widths
      <4> QED BY <4>1, WrapKeeps
    <3> QED BY <1>1, <1>4, <2>1, <2>4, <3>2, <3>3
  <2>6. CASE b < 0
    <3>1. -Pow2[2 * W - 1] <= b
      <4> HIDE DEF b
      <4> QED BY <1>1, Widths
    <3>2. ShiftRight(b, k) = Quot(b, d) + Pow2[2 * W - k]
      <4> HIDE DEF b
      <4> QED BY <1>1, <1>2, <2>6, <3>1, ShiftRightNegative
    <3>3. Pow2[2 * W - k] = Pow2[W - k] * Pow2[W] /\ Pow2[W - k] \in Nat /\ Pow2[W] \in Nat
      <4>1. W - k \in Nat /\ W \in Nat /\ (W - k) + W = 2 * W - k
        BY <1>2
      <4>2. Pow2[(W - k) + W] = Pow2[W - k] * Pow2[W]
        BY <4>1, Pow2Sum
      <4> QED BY <4>1, <4>2, Pow2Equations
    <3> DEFINE x == -q + Pow2[2 * W - k]
               c == Pow2[W - k]
               y == -q
    <3>4. x \in Int /\ y \in Int /\ c \in Int /\ x = y + c * Pow2[W] /\ -Pow2[W - 1] <= y /\ y < Pow2[W - 1]
      <4> HIDE DEF b, d
      <4>1. -q \in Int /\ -Half <= -q /\ -q < Half
        BY <1>1, <1>4, <2>1, Widths
      <4> QED BY <2>1, <3>3, <4>1 DEF Half
    <3> HIDE DEF x, y, c
    <3>5. Wrap(x, W) = y
      BY <1>2, <3>4, WrapIs
    <3> QED BY <1>1, <1>4, <2>1, <2>4, <3>2, <3>5 DEF x, y
  <2> HIDE DEF b, d
  <2> QED BY <1>1, <2>5, <2>6
<1> HIDE DEF b, d
<1> QED BY <1>1, <1>3, <1>4

-----------------------------------------------------------------------------
(* The code for a small multiplier, with a dividend that is not negative. *)

\* The instructions of SmallMultiplierCode keep what they compute within a register and end
\* with the quotient.
LEMMA SmallProduct ==
  ASSUME NEW d \in Divisors, NEW h, NEW s, Multiplier(d) = [high |-> h, sh |-> s],
         h < Half, NEW n \in Word, n >= 0
  PROVE  /\ Wrap(h, W) = h
         /\ Wrap(n * h, 2 * W) = n * h
         /\ Wrap(ShiftRight(n * h, W + s) - ShiftRight(n, W - 1), W) = Quotient(n, d)
<1> DEFINE x == n * h
           q == Quot(n, d)
<1>1. /\ n \in Nat /\ n < Half /\ h \in Nat /\ s \in Nat /\ d \in Nat \ {0}
      /\ W + s \in Nat /\ W - 1 \in (W - 1)..(2 * W)
  <2>1. Log2Floor(d) \in Nat
    BY Log2FloorIs
  <2>2. h \in Nat /\ s \in 0..Log2Floor(d)
    BY MultiplierIs
  <2>3. Half \in Nat /\ n \in Int /\ n < Half /\ d \in Nat \ {0} /\ W \in Nat \ {0, 1}
    BY Widths, WordsAre, WordAssumption
  <2> QED BY <2>1, <2>2, <2>3
<1>2. x \in Nat /\ x < 2 * (Half * Half)
  <2>1. n * h <= n * Half /\ n * Half <= Half * Half
    BY <1>1, Widths, TimesMonotone
  <2>2. n * h \in Nat /\ n * Half \in Nat /\ Half * Half \in Nat \ {0}
    BY <1>1, Widths
  <2> QED BY <2>1, <2>2
<1>3. Quot(x, Pow2[W + s]) = q
  <2>1. n \in 0..Half /\ n < Half
    BY <1>1, Widths
  <2> QED BY <2>1, MultiplierDivides
<1>4. Quotient(n, d) = q /\ q \in Nat /\ q <= n
  BY <1>1, QuotientIs
<1>5. ShiftRight(n, W - 1) = 0
  BY <1>1, SignOf
<1> HIDE DEF x, q
<1>6. ShiftRight(x, W + s) = q
  <2>1. x < Pow2[2 * W - 1]
    BY <1>2, Widths
  <2> QED BY <1>1, <1>2, <1>3, <2>1, ShiftRightNotNegative
<1>7. Wrap(h, W) = h
  BY <1>1, WrapKeeps, Widths
<1>8. Wrap(x, 2 * W) = x
  <2>1. x \in Int /\ -(2 * (Half * Half)) <= x
    BY <1>2, Widths
  <2> QED BY <1>2, <2>1, WrapKeeps
<1>9. Wrap(q - 0, W) = q
  <2>1. q - 0 = q /\ q \in Int /\ -Half <= q /\ q < Half
    BY <1>1, <1>4, Widths
  <2> QED BY <2>1, WrapKeeps
<1> QED BY <1>4, <1>5, <1>6, <1>7, <1>8, <1>9 DEF x

-----------------------------------------------------------------------------
(* The code for a large multiplier. *)

\* The multiplier less 2^W is a word, and a register has room for its product.
LEMMA LargeProduct ==
  ASSUME NEW h \in Nat, Half <= h, h < 2 * Half, NEW n \in Word
  PROVE  /\ Wrap(h - Pow2[W], W) = h - Pow2[W]
         /\ Wrap(n * (h - Pow2[W]), 2 * W) = n * (h - Pow2[W])
         /\ -Pow2[2 * W - 1] <= n * (h - Pow2[W]) /\ n * (h - Pow2[W]) < Pow2[2 * W - 1]
<1> DEFINE g == h - Pow2[W]
           x == n * g
<1>1. g \in Int /\ -Half <= g /\ g < 0 /\ n \in Int /\ -Half <= n /\ n < Half
  BY Widths, WordsAre
<1> HIDE DEF g
<1>2. Wrap(g, W) = g
  BY <1>1, WrapKeeps, Widths
<1>3. x \in Int /\ -(2 * (Half * Half)) <= x /\ x < 2 * (Half * Half)
  <2>1. Half * Half \in Nat \ {0}
    BY Widths
  <2>2. CASE n >= 0
    <3>1. n * (-Half) <= n * g /\ n * g <= n * 0
      BY <1>1, <2>2, Widths, TimesMonotone
    <3>2. Half * (-Half) <= n * (-Half)
      BY <1>1, <2>2, Widths, TimesMonotone
    <3>3. Half * (-Half) = -(Half * Half) /\ n * 0 = 0 /\ n * (-Half) \in Int
      BY <1>1, Widths
    <3> QED BY <1>1, <2>1, <3>1, <3>2, <3>3
  <2>3. CASE n < 0
    <3>1. n * 0 <= n * g /\ n * g <= n * (-Half)
      BY <1>1, <2>3, Widths, TimesMonotone
    <3>2. n * (-Half) <= (-Half) * (-Half)
      BY <1>1, <2>3, Widths, TimesMonotone
    <3>3. (-Half) * (-Half) = Half * Half /\ n * 0 = 0 /\ n * (-Half) \in Int
      BY <1>1, Widths
    <3> QED BY <1>1, <2>1, <3>1, <3>2, <3>3
  <2> QED BY <1>1, <2>2, <2>3
<1> HIDE DEF x
<1>4. Wrap(x, 2 * W) = x
  BY <1>3, WrapKeeps
<1>5. -Pow2[2 * W - 1] <= x /\ x < Pow2[2 * W - 1]
  BY <1>3, Widths
<1> QED BY <1>2, <1>4, <1>5 DEF g, x

\* Adding the dividend to its high half gives the high half of the product by the
\* whole multiplier.
LEMMA LargeHigh ==
  ASSUME NEW h \in Nat, Half <= h, h < 2 * Half, NEW n \in Word
  PROVE  /\ Wrap(ShiftRight(n * (h - Pow2[W]), W) + n, W) = Quot(n * h, Pow2[W])
         /\ Quot(n * h, Pow2[W]) \in Word
         /\ Quot(n * h, Pow2[W]) < 0 <=> n < 0
<1> DEFINE m == Pow2[W]
           x == n * (h - m)
           y == n * h
           t == Quot(y, m)
<1>1. /\ m = 2 * Half /\ Half \in Nat \ {0, 1} /\ m \in Nat \ {0} /\ n \in Int /\ -Half <= n /\ n < Half
      /\ y \in Int /\ x \in Int /\ h > 0 /\ W \in 1..(2 * W) /\ W \in Nat \ {0} /\ 2 * W - W = W
  <2>1. m = 2 * Half /\ Half \in Nat \ {0, 1} /\ n \in Int /\ -Half <= n /\ n < Half
    BY Widths, WordsAre
  <2>2. W \in 1..(2 * W) /\ W \in Nat \ {0} /\ 2 * W - W = W
    BY WordAssumption
  <2> HIDE DEF m
  <2> QED BY <2>1, <2>2
<1>2. x = y - m * n
  <2> HIDE DEF m
  <2> QED BY <1>1
<1>3. -Pow2[2 * W - 1] <= x /\ x < Pow2[2 * W - 1]
  BY LargeProduct
<1>4. t \in Int /\ m * t <= y /\ y < m * t + m
  <2> HIDE DEF m, y
  <2> QED BY <1>1, QuotBounds
<1> HIDE DEF m, x, t
<1>5. Quot(x, m) = t - n
  <2>1. m * (t - n) = m * t - m * n
    BY <1>1, <1>4
  <2>2. t - n \in Int /\ m * (t - n) <= x /\ x < m * (t - n) + m
    BY <1>1, <1>2, <1>4, <2>1
  <2> QED BY <1>1, <2>2, QuotIs
<1>6. ASSUME n >= 0 PROVE 0 <= t /\ t <= n
  <2>1. 0 <= y /\ y <= m * n
    <3>1. 0 * h <= n * h /\ n * h <= n * m
      BY <1>1, <1>6, TimesMonotone
    <3> QED BY <1>1, <3>1
  <2>2. t >= 0
    <3>1. CASE t < 0
      <4>1. m * (t + 1) <= m * 0
        BY <1>1, <1>4, <3>1, TimesMonotone
      <4> QED BY <1>1, <1>4, <2>1, <4>1
    <3> QED BY <1>4, <3>1
  <2>3. t <= n
    <3>1. CASE t > n
      <4>1. m * (n + 1) <= m * t
        BY <1>1, <1>4, <3>1, TimesMonotone
      <4> QED BY <1>1, <1>4, <2>1, <4>1
    <3> QED BY <1>1, <1>4, <3>1
  <2> QED BY <2>2, <2>3
<1>7. ASSUME n < 0 PROVE n <= t /\ t < 0
  <2>1. y < 0 /\ m * n <= y
    <3>1. (n + 1) * h <= 0 * h /\ n * m <= n * h
      BY <1>1, <1>7, TimesMonotone
    <3> QED BY <1>1, <3>1
  <2>2. t < 0
    <3>1. CASE t >= 0
      <4>1. m * 0 <= m * t
        BY <1>1, <1>4, <3>1, TimesMonotone
      <4> QED BY <1>1, <1>4, <2>1, <4>1
    <3> QED BY <1>4, <3>1
  <2>3. n <= t
    <3>1. CASE t < n
      <4>1. m * (t + 1) <= m * n
        BY <1>1, <1>4, <3>1, TimesMonotone
      <4> QED BY <1>1, <1>4, <2>1, <4>1
    <3> QED BY <1>1, <1>4, <3>1
  <2> QED BY <2>2, <2>3
<1>8. -Half <= t /\ t < Half /\ (t < 0 <=> n < 0)
  BY <1>1, <1>4, <1>6, <1>7
<1>9. ASSUME x >= 0 PROVE Wrap(ShiftRight(x, W) + n, W) = t
  <2>1. ShiftRight(x, W) = t - n
    BY <1>1, <1>3, <1>5, <1>9, ShiftRightNotNegative DEF m
  <2>2. ShiftRight(x, W) + n = t
    BY <1>1, <1>4, <2>1
  <2>3. Wrap(t, W) = t
    BY <1>4, <1>8, WrapKeeps
  <2> QED BY <2>2, <2>3
<1>10. ASSUME x < 0 PROVE Wrap(ShiftRight(x, W) + n, W) = t
  <2>1. ShiftRight(x, W) = (t - n) + m
    BY <1>1, <1>3, <1>5, <1>10, ShiftRightNegative DEF m
  <2> DEFINE z == ShiftRight(x, W) + n
  <2>2. z \in Int /\ 1 \in Int /\ z = t + 1 * Pow2[W] /\ -Pow2[W - 1] <= t /\ t < Pow2[W - 1]
    BY <1>1, <1>4, <1>8, <2>1 DEF m, Half
  <2> HIDE DEF z
  <2>3. Wrap(z, W) = t
    BY <1>1, <1>4, <2>2, WrapIs
  <2> QED BY <2>3 DEF z
<1>11. Wrap(ShiftRight(x, W) + n, W) = t
  BY <1>1, <1>9, <1>10
<1> QED BY <1>1, <1>4, <1>8, <1>11, WordsAre DEF m, x, t

\* The last shift leaves the quotient, less one when the dividend is negative.
LEMMA LargeAnswer ==
  ASSUME NEW d \in Divisors, NEW h, NEW s, Multiplier(d) = [high |-> h, sh |-> s],
         ~IsPowerOf2(d), ~(h < Half), NEW n \in Word
  PROVE  Wrap(ShiftRight(Quot(n * h, Pow2[W]), s) - ShiftRight(n, W - 1), W) = Quotient(n, d)
<1> DEFINE m == Pow2[W]
           t == Quot(n * h, m)
           sign == ShiftRight(n, W - 1)
           high == ShiftRight(t, s)
<1>1. /\ m = 2 * Half /\ Half \in Nat \ {0, 1} /\ m \in Nat \ {0} /\ n \in Int /\ -Half <= n /\ n < Half
      /\ d \in Nat \ {0} /\ W \in Nat \ {0} /\ s \in 0..(W - 2) /\ s \in Nat
      /\ h \in Nat /\ Half <= h /\ h < 2 * Half
  <2>1. m = 2 * Half /\ Half \in Nat \ {0, 1} /\ n \in Int /\ -Half <= n /\ n < Half /\ d \in Nat \ {0}
    BY Widths, WordsAre
  <2>2. h < m /\ h \in Nat /\ s \in 0..Log2Floor(d) /\ Log2Floor(d) \in 0..(W - 2)
    BY MultiplierFits, MultiplierIs, Log2FloorIs
  <2> HIDE DEF m
  <2> QED BY <2>1, <2>2, WordAssumption
<1>2. t \in Word /\ t \in Int /\ -Half <= t /\ t < Half /\ (t < 0 <=> n < 0)
  <2>1. t \in Word /\ (t < 0 <=> n < 0)
    BY <1>1, LargeHigh
  <2> HIDE DEF t
  <2> QED BY <1>1, <2>1, WordsAre
<1>3. Quot(t, Pow2[s]) = Quot(n * h, Pow2[W + s])
  <2>1. Pow2[W + s] = m * Pow2[s] /\ Pow2[s] \in Nat \ {0}
    BY <1>1, Pow2Sum, Pow2Equations
  <2> DEFINE y == n * h
  <2>2. y \in Int
    BY <1>1
  <2> HIDE DEF y, m
  <2>3. Quot(Quot(y, m), Pow2[s]) = Quot(y, m * Pow2[s])
    BY <1>1, <2>1, <2>2, QuotOfQuot
  <2> QED BY <2>1, <2>3 DEF y
<1> HIDE DEF m, t
<1>4. W - 1 \in (W - 1)..(2 * W) /\ 2 * W - (W - 1) = W + 1 /\ Pow2[W + 1] = 2 * m
  BY <1>1, Pow2Equations, WordAssumption DEF m
<1>5. sign = IF n < 0 THEN 2 * m - 1 ELSE 0
  BY <1>4, SignOf
<1>6. -Pow2[2 * W - 1] <= t /\ t < Pow2[2 * W - 1]
  <2>1. Half * 1 <= Half * Half
    BY <1>1, TimesMonotone
  <2> QED BY <1>1, <1>2, <2>1, Widths
<1>7. CASE n >= 0
  <2> DEFINE q == Quot(n, d)
  <2>1. Quotient(n, d) = q /\ q \in Nat /\ q <= n
    BY <1>7, QuotientIs
  <2>2. Quot(t, Pow2[s]) = q
    <3>1. n \in 0..Half /\ n < Half
      BY <1>1, <1>7
    <3> QED BY <1>3, <3>1, MultiplierDivides
  <2>3. high = q
    BY <1>1, <1>2, <1>6, <1>7, <2>2, ShiftRightNotNegative
  <2> HIDE DEF q, high, sign
  <2>4. high - sign = q /\ q \in Int /\ -Half <= q /\ q < Half
    BY <1>1, <1>5, <1>7, <2>1, <2>3
  <2>5. Wrap(q, W) = q
    BY <2>4, WrapKeeps
  <2> QED BY <2>1, <2>4, <2>5 DEF high, sign, t, m
<1>8. CASE n < 0
  <2> DEFINE k == -n
             q == Quot(k, d)
  <2>1. Quotient(n, d) = -q /\ q \in Nat /\ q <= k
    BY <1>8, QuotientIs
  <2>2. k \in 0..Half /\ k > 0 /\ n * h = -(k * h)
    BY <1>1, <1>8
  <2> HIDE DEF k
  <2>3. Quot(t, Pow2[s]) = -q - 1
    BY <1>3, <2>2, MultiplierDivides
  <2> HIDE DEF q
  <2>4. \E c \in Int : high = (-q - 1) + c * m
    <3>1. CASE s = 0
      <4>1. Pow2[s] = 1 /\ Quot(t, 1) = t
        <5>1. t \in Int /\ 1 \in Nat \ {0} /\ 1 * t <= t /\ t < 1 * t + 1
          BY <1>2
        <5> QED BY <3>1, <5>1, QuotIs, Pow2Equations
      <4>2. high = t
        BY <1>2, <1>6, <3>1, ShiftRightByNothing
      <4>3. high = (-q - 1) + 0 * m
        BY <1>1, <2>1, <2>3, <4>1, <4>2
      <4> QED BY <4>3
    <3>2. CASE s # 0
      <4>1. s \in 1..(2 * W) /\ W - s \in Nat /\ (W - s) + W = 2 * W - s
        BY <1>1, <3>2
      <4>2. high = Quot(t, Pow2[s]) + Pow2[2 * W - s]
        BY <1>2, <1>6, <1>8, <4>1, ShiftRightNegative
      <4>3. Pow2[2 * W - s] = Pow2[W - s] * m /\ Pow2[W - s] \in Int
        <5>1. W \in Nat
          BY WordAssumption
        <5>2. Pow2[(W - s) + W] = Pow2[W - s] * Pow2[W] /\ Pow2[W - s] \in Nat
          BY <4>1, <5>1, Pow2Sum, Pow2Equations
        <5> QED BY <4>1, <5>2 DEF m
      <4>4. high = (-q - 1) + Pow2[W - s] * m
        BY <2>3, <4>2, <4>3
      <4> QED BY <4>3, <4>4
    <3> QED BY <3>1, <3>2
  <2>5. PICK c \in Int : high = (-q - 1) + c * m
    BY <2>4
  <2> HIDE DEF high, sign
  <2> DEFINE x == high - sign
             y == -q
             b == c - 2
  <2>6. x \in Int /\ y \in Int /\ b \in Int /\ x = y + b * Pow2[W] /\ -Pow2[W - 1] <= y /\ y < Pow2[W - 1]
    <3>1. b * m = c * m - 2 * m /\ b \in Int
      BY <1>1
    <3>2. c * m \in Int
      BY <1>1
    <3>3. sign = 2 * m - 1
      BY <1>5, <1>8
    <3>4. x = y + b * m /\ x \in Int /\ y \in Int
      BY <1>1, <2>1, <2>5, <3>1, <3>2, <3>3
    <3>5. -Half <= y /\ y < Half
      BY <1>1, <2>1, <2>2 DEF k
    <3> HIDE DEF x, y, b
    <3> QED BY <3>1, <3>4, <3>5 DEF m, Half
  <2> HIDE DEF x, y, b
  <2>7. Wrap(x, W) = y
    BY <1>1, <2>6, WrapIs
  <2> QED BY <2>1, <2>7 DEF x, y, high, sign, t, m
<1> QED BY <1>1, <1>7, <1>8

-----------------------------------------------------------------------------
(* The run of the code.  Every temporary holds its value once the          *)
(* instruction that writes it is behind; i is the one to run next.         *)

Registers == {"src", "ans", "tmp", "op1", "op2", "op3", "op4", "op5"}

PowerOf2Known(k, i) ==
  IF k = 0 THEN i > 1 => regs["ans"] = src
  ELSE /\ i > 1 => regs["op1"] = ShiftRight(src, 2 * W - k)
       /\ i > 2 => regs["op2"] = Biased(src, k)
       /\ i > 3 => regs["ans"] = ShiftRight(Biased(src, k), k)

SmallKnown(m, i) ==
  /\ i > 1 => regs["tmp"] = m.high
  /\ i > 2 => regs["op1"] = src * m.high
  /\ i > 3 => regs["op2"] = ShiftRight(src * m.high, W + m.sh)
  /\ i > 4 => regs["op3"] = ShiftRight(src, W - 1)
  /\ i > 5 => regs["ans"] = Quotient(src, C)

LargeKnown(m, i) ==
  /\ i > 1 => regs["tmp"] = m.high - Pow2[W]
  /\ i > 2 => regs["op1"] = src * (m.high - Pow2[W])
  /\ i > 3 => regs["op2"] = ShiftRight(src * (m.high - Pow2[W]), W)
  /\ i > 4 => regs["op3"] = Quot(src * m.high, Pow2[W])
  /\ i > 5 => regs["op4"] = ShiftRight(Quot(src * m.high, Pow2[W]), m.sh)
  /\ i > 6 => regs["op5"] = ShiftRight(src, W - 1)
  /\ i > 7 => regs["ans"] = Quotient(src, C)

Known(i) ==
  /\ IsPowerOf2(C) => PowerOf2Known(Log2Floor(C), i)
  /\ ~IsPowerOf2(C) /\ IsSmall(Multiplier(C)) /\ src >= 0 => SmallKnown(Multiplier(C), i)
  /\ ~IsPowerOf2(C) /\ ~IsSmall(Multiplier(C)) => LargeKnown(Multiplier(C), i)

\* The run has reached instruction i of the code.
At(i) ==
  /\ code = SubSeq(DivConstCode(C), i, Len(DivConstCode(C)))
  /\ Known(i)

DivInv ==
  work = "div" =>
    /\ C \in Divisors /\ src \in Word
    /\ DOMAIN regs = Registers /\ regs["src"] = src
    /\ \E i \in 1..(Len(DivConstCode(C)) + 1) : At(i)

\* What is left of a sequence after a step.
LEMMA RestOf ==
  ASSUME NEW S, NEW s \in Seq(S), NEW i \in 1..(Len(s) + 1)
  PROVE  /\ SubSeq(s, i, Len(s)) = <<>> <=> i = Len(s) + 1
         /\ i <= Len(s) => /\ Head(SubSeq(s, i, Len(s))) = s[i]
                           /\ Tail(SubSeq(s, i, Len(s))) = SubSeq(s, i + 1, Len(s))
<1> DEFINE n == Len(s)
           t == SubSeq(s, i, n)
           u == SubSeq(s, i + 1, n)
<1>1. n \in Nat /\ i \in 1..(n + 1) /\ i + 1 \in 1..(n + 2)
  OBVIOUS
<1>2. \A j \in i..n : s[j] \in S
  OBVIOUS
<1>3. \A j \in (i + 1)..n : s[j] \in S
  OBVIOUS
<1>4. t \in Seq(S) /\ Len(t) = n - i + 1 /\ \A j \in 1..(n - i + 1) : t[j] = s[i + j - 1]
  OBVIOUS
<1>5. ASSUME i <= n
      PROVE  u \in Seq(S) /\ Len(u) = n - i /\ \A j \in 1..(n - i) : u[j] = s[i + 1 + j - 1]
  BY <1>5
<1> HIDE DEF n, t, u
<1>6. t = <<>> <=> i = n + 1
  BY <1>1, <1>4
<1>7. ASSUME i <= n PROVE Head(t) = s[i] /\ Tail(t) = u
  <2>1. t # <<>> /\ Head(t) = t[1] /\ t[1] = s[i]
    BY <1>1, <1>4, <1>7
  <2>2. Tail(t) \in Seq(S) /\ Len(Tail(t)) = n - i /\ \A j \in 1..(n - i) : Tail(t)[j] = t[j + 1]
    BY <1>1, <1>4, <1>7, <2>1
  <2>3. \A j \in 1..(n - i) : Tail(t)[j] = u[j]
    <3>1. SUFFICES ASSUME NEW j \in 1..(n - i) PROVE Tail(t)[j] = u[j]
      OBVIOUS
    <3>2. j + 1 \in 1..(n - i + 1) /\ i + (j + 1) - 1 = i + 1 + j - 1
      BY <1>1
    <3> QED BY <1>4, <1>5, <1>7, <2>2, <3>2
  <2> QED BY <1>5, <1>7, <2>1, <2>2, <2>3
<1> QED BY <1>6, <1>7 DEF n, t, u

\* One step of each kind of code.
LEMMA PowerOf2Step ==
  ASSUME NEW k \in Nat, k = Log2Floor(C), IsPowerOf2(C), C \in Divisors, src \in Word,
         DOMAIN regs = Registers, regs["src"] = src,
         NEW i \in 1..Len(PowerOf2Code(k)), PowerOf2Known(k, i),
         UNCHANGED <<C, src>>,
         regs' = [regs EXCEPT ![PowerOf2Code(k)[i].to] = Result(PowerOf2Code(k)[i])]
  PROVE  PowerOf2Known(k, i + 1)' /\ DOMAIN regs' = Registers /\ regs'["src"] = src
<1> USE DEF Registers
<1>1. CASE k = 0
  <2> DEFINE a == Instr("move", "src", "", "ans")
  <2>1. PowerOf2Code(k) = <<a>>
    BY <1>1 DEF PowerOf2Code
  <2>2. \E b : a = Instr("move", "src", b, "ans")
    BY Zenon
  <2> HIDE DEF a
  <2>3. Len(PowerOf2Code(k)) = 1 /\ PowerOf2Code(k)[1] = a
    BY <2>1
  <2>4. i = 1
    BY <2>3
  <2>5. Result(a) = src /\ a.to = "ans"
    BY <2>2 DEF Result, Instr
  <2>6. regs' = [regs EXCEPT !["ans"] = src]
    BY <2>3, <2>4, <2>5
  <2> QED BY <1>1, <2>6 DEF PowerOf2Known
<1>2. CASE k # 0
  <2>1. k \in 1..(W - 2)
    BY <1>2, Log2FloorIs
  <2>2. /\ Len(PowerOf2Code(k)) = 3
        /\ PowerOf2Code(k)[1] = Instr("shift_right", "src", 2 * W - k, "op1")
        /\ PowerOf2Code(k)[2] = Instr("add", "src", "op1", "op2")
        /\ PowerOf2Code(k)[3] = Instr("shift_right", "op2", k, "ans")
    BY <1>2 DEF PowerOf2Code
  <2>3. i \in {1, 2, 3}
    BY <2>2
  <2>4. CASE i = 1
    <3>1. Result(PowerOf2Code(k)[1]) = ShiftRight(src, 2 * W - k)
      BY <2>2 DEF Result, Instr
    <3> QED BY <1>2, <2>2, <2>4, <3>1 DEF PowerOf2Known, Instr
  <2>5. CASE i = 2
    <3>1. Result(PowerOf2Code(k)[2]) = Wrap(src + ShiftRight(src, 2 * W - k), W)
      BY <1>2, <2>2, <2>5 DEF Result, Instr, PowerOf2Known
    <3>2. Result(PowerOf2Code(k)[2]) = Biased(src, k)
      BY <2>1, <3>1, PowerOf2Adds
    <3> QED BY <1>2, <2>2, <2>5, <3>2 DEF PowerOf2Known, Instr
  <2>6. CASE i = 3
    <3>1. Result(PowerOf2Code(k)[3]) = ShiftRight(Biased(src, k), k)
      BY <1>2, <2>2, <2>6 DEF Result, Instr, PowerOf2Known
    <3> QED BY <1>2, <2>2, <2>6, <3>1 DEF PowerOf2Known, Instr
  <2> QED BY <2>3, <2>4, <2>5, <2>6
<1> QED BY <1>1, <1>2

\* Every instruction of SmallMultiplierCode puts in its register the value SmallKnown says.
LEMMA SmallStep ==
  ASSUME NEW m, m = Multiplier(C), IsSmall(m), C \in Divisors, src \in Word, src >= 0,
         DOMAIN regs = Registers, regs["src"] = src,
         NEW i \in 1..Len(SmallMultiplierCode(m)), SmallKnown(m, i),
         UNCHANGED <<C, src>>,
         regs' = [regs EXCEPT ![SmallMultiplierCode(m)[i].to] = Result(SmallMultiplierCode(m)[i])]
  PROVE  SmallKnown(m, i + 1)'
<1> USE DEF Registers
<1>1. /\ Len(SmallMultiplierCode(m)) = 5
      /\ SmallMultiplierCode(m)[1] = Instr("load_imm", m.high, 0, "tmp")
      /\ SmallMultiplierCode(m)[2] = Instr("mulh_sup", "src", "tmp", "op1")
      /\ SmallMultiplierCode(m)[3] = Instr("shift_right", "op1", W + m.sh, "op2")
      /\ SmallMultiplierCode(m)[4] = Instr("shift_right", "src", W - 1, "op3")
      /\ SmallMultiplierCode(m)[5] = Instr("sub", "op2", "op3", "ans")
  BY DEF SmallMultiplierCode
<1>2. i \in {1, 2, 3, 4, 5}
  BY <1>1
<1>3. /\ Wrap(m.high, W) = m.high
      /\ Wrap(src * m.high, 2 * W) = src * m.high
      /\ Wrap(ShiftRight(src * m.high, W + m.sh) - ShiftRight(src, W - 1), W) = Quotient(src, C)
  <2>1. m = [high |-> m.high, sh |-> m.sh]
    BY DEF Multiplier
  <2>2. m.high < Half
    BY DEF IsSmall, Half
  <2> QED BY <2>1, <2>2, SmallProduct
<1>4. CASE i = 1
  <2>1. Result(SmallMultiplierCode(m)[1]) = m.high
    BY <1>1, <1>3 DEF Result, Instr
  <2> QED BY <1>1, <1>4, <2>1 DEF SmallKnown, Instr
<1>5. CASE i = 2
  <2>1. Result(SmallMultiplierCode(m)[2]) = src * m.high
    BY <1>1, <1>3, <1>5 DEF Result, Instr, SmallKnown
  <2> QED BY <1>1, <1>5, <2>1 DEF SmallKnown, Instr
<1>6. CASE i = 3
  <2>1. Result(SmallMultiplierCode(m)[3]) = ShiftRight(src * m.high, W + m.sh)
    BY <1>1, <1>6 DEF Result, Instr, SmallKnown
  <2> QED BY <1>1, <1>6, <2>1 DEF SmallKnown, Instr
<1>7. CASE i = 4
  <2>1. Result(SmallMultiplierCode(m)[4]) = ShiftRight(src, W - 1)
    BY <1>1 DEF Result, Instr
  <2> QED BY <1>1, <1>7, <2>1 DEF SmallKnown, Instr
<1>8. CASE i = 5
  <2>1. Result(SmallMultiplierCode(m)[5]) = Quotient(src, C)
    BY <1>1, <1>3, <1>8 DEF Result, Instr, SmallKnown
  <2> QED BY <1>1, <1>8, <2>1 DEF SmallKnown, Instr
<1> QED BY <1>2, <1>4, <1>5, <1>6, <1>7, <1>8

\* Every instruction of LargeMultiplierCode puts in its register the value LargeKnown says.
LEMMA LargeStep ==
  ASSUME NEW m, m = Multiplier(C), ~IsPowerOf2(C), ~IsSmall(m), C \in Divisors, src \in Word,
         DOMAIN regs = Registers, regs["src"] = src,
         NEW i \in 1..Len(LargeMultiplierCode(m)), LargeKnown(m, i),
         UNCHANGED <<C, src>>,
         regs' = [regs EXCEPT ![LargeMultiplierCode(m)[i].to] = Result(LargeMultiplierCode(m)[i])]
  PROVE  LargeKnown(m, i + 1)'
<1> USE DEF Registers
<1>1. /\ Len(LargeMultiplierCode(m)) = 7
      /\ LargeMultiplierCode(m)[1] = Instr("load_imm", m.high - Pow2[W], 0, "tmp")
      /\ LargeMultiplierCode(m)[2] = Instr("mulh_sup", "src", "tmp", "op1")
      /\ LargeMultiplierCode(m)[3] = Instr("shift_right", "op1", W, "op2")
      /\ LargeMultiplierCode(m)[4] = Instr("add", "op2", "src", "op3")
      /\ LargeMultiplierCode(m)[5] = Instr("shift_right", "op3", m.sh, "op4")
      /\ LargeMultiplierCode(m)[6] = Instr("shift_right", "src", W - 1, "op5")
      /\ LargeMultiplierCode(m)[7] = Instr("sub", "op4", "op5", "ans")
  BY DEF LargeMultiplierCode
<1>2. i \in {1, 2, 3, 4, 5, 6, 7}
  BY <1>1
<1>3. /\ Wrap(m.high - Pow2[W], W) = m.high - Pow2[W]
      /\ Wrap(src * (m.high - Pow2[W]), 2 * W) = src * (m.high - Pow2[W])
      /\ Wrap(ShiftRight(src * (m.high - Pow2[W]), W) + src, W) = Quot(src * m.high, Pow2[W])
      /\ Wrap(ShiftRight(Quot(src * m.high, Pow2[W]), m.sh) - ShiftRight(src, W - 1), W) = Quotient(src, C)
  <2>1. m = [high |-> m.high, sh |-> m.sh]
    BY DEF Multiplier
  <2>2. m.high \in Nat /\ m.high < Pow2[W]
    BY <2>1, MultiplierIs, MultiplierFits
  <2>3. ~(m.high < Half) /\ Half <= m.high /\ m.high < 2 * Half
    BY <2>2, Widths DEF IsSmall, Half
  <2> QED BY <2>1, <2>2, <2>3, LargeProduct, LargeHigh, LargeAnswer
<1>4. CASE i = 1
  <2>1. Result(LargeMultiplierCode(m)[1]) = m.high - Pow2[W]
    BY <1>1, <1>3 DEF Result, Instr
  <2> QED BY <1>1, <1>4, <2>1 DEF LargeKnown, Instr
<1>5. CASE i = 2
  <2>1. Result(LargeMultiplierCode(m)[2]) = src * (m.high - Pow2[W])
    BY <1>1, <1>3, <1>5 DEF Result, Instr, LargeKnown
  <2> QED BY <1>1, <1>5, <2>1 DEF LargeKnown, Instr
<1>6. CASE i = 3
  <2>1. Result(LargeMultiplierCode(m)[3]) = ShiftRight(src * (m.high - Pow2[W]), W)
    BY <1>1, <1>6 DEF Result, Instr, LargeKnown
  <2> QED BY <1>1, <1>6, <2>1 DEF LargeKnown, Instr
<1>7. CASE i = 4
  <2>1. Result(LargeMultiplierCode(m)[4]) = Quot(src * m.high, Pow2[W])
    BY <1>1, <1>3, <1>7 DEF Result, Instr, LargeKnown
  <2> QED BY <1>1, <1>7, <2>1 DEF LargeKnown, Instr
<1>8. CASE i = 5
  <2>1. Result(LargeMultiplierCode(m)[5]) = ShiftRight(Quot(src * m.high, Pow2[W]), m.sh)
    BY <1>1, <1>8 DEF Result, Instr, LargeKnown
  <2> QED BY <1>1, <1>8, <2>1 DEF LargeKnown, Instr
<1>9. CASE i = 6
  <2>1. Result(LargeMultiplierCode(m)[6]) = ShiftRight(src, W - 1)
    BY <1>1 DEF Result, Instr
  <2> QED BY <1>1, <1>9, <2>1 DEF LargeKnown, Instr
<1>10. CASE i = 7
  <2>1. Result(LargeMultiplierCode(m)[7]) = Quotient(src, C)
    BY <1>1, <1>3, <1>10 DEF Result, Instr, LargeKnown
  <2> QED BY <1>1, <1>10, <2>1 DEF LargeKnown, Instr
<1> QED BY <1>2, <1>4, <1>5, <1>6, <1>7, <1>8, <1>9, <1>10

-----------------------------------------------------------------------------
(* The invariant. *)

\* A sequence of instructions, none of which writes src.
Writes(P) ==
  /\ \E S : P \in Seq(S)
  /\ \A i \in 1..Len(P) : P[i].to \in Registers \ {"src"}

\* applyDivConst emits such code.
LEMMA CodeIs ==
  Writes(DivConstCode(C))
<1> DEFINE k == Log2Floor(C)
           m == Multiplier(C)
<1>1. /\ DivConstCode(C) \in {PowerOf2Code(k), SmallMultiplierCode(m), LargeMultiplierCode(m)}
  BY DEF DivConstCode
<1> HIDE DEF k, m
<1>2. ASSUME DivConstCode(C) = PowerOf2Code(k)
      PROVE  Writes(DivConstCode(C))
  <2>1. CASE k = 0
    <3> DEFINE a == Instr("move", "src", "", "ans")
    <3>1. DivConstCode(C) = <<a>>
      BY <1>2, <2>1 DEF PowerOf2Code
    <3>2. a.to = "ans"
      BY DEF Instr
    <3> HIDE DEF a
    <3>3. <<a>> \in Seq({a}) /\ Len(<<a>>) = 1
      OBVIOUS
    <3>4. \A i \in 1..1 : <<a>>[i].to \in Registers \ {"src"}
      BY <3>2 DEF Registers
    <3> QED BY <3>1, <3>3, <3>4 DEF Writes
  <2>2. CASE k # 0
    <3> DEFINE a == Instr("shift_right", "src", 2 * W - k, "op1")
               b == Instr("add", "src", "op1", "op2")
               c == Instr("shift_right", "op2", k, "ans")
    <3>1. DivConstCode(C) = <<a, b, c>>
      BY <1>2, <2>2 DEF PowerOf2Code
    <3>2. a.to = "op1" /\ b.to = "op2" /\ c.to = "ans"
      BY DEF Instr
    <3> HIDE DEF a, b, c
    <3>3. <<a, b, c>> \in Seq({a, b, c}) /\ Len(<<a, b, c>>) = 3
      OBVIOUS
    <3>4. \A i \in 1..3 : <<a, b, c>>[i].to \in Registers \ {"src"}
      <4>1. 1..3 = {1, 2, 3}
        OBVIOUS
      <4> QED BY <3>2, <4>1 DEF Registers
    <3> QED BY <3>1, <3>3, <3>4 DEF Writes
  <2> QED BY <2>1, <2>2
<1>3. ASSUME DivConstCode(C) = SmallMultiplierCode(m)
      PROVE  Writes(DivConstCode(C))
  <2> DEFINE a == Instr("load_imm", m.high, 0, "tmp")
             b == Instr("mulh_sup", "src", "tmp", "op1")
             c == Instr("shift_right", "op1", W + m.sh, "op2")
             d == Instr("shift_right", "src", W - 1, "op3")
             e == Instr("sub", "op2", "op3", "ans")
  <2>1. DivConstCode(C) = <<a, b, c, d, e>>
    BY <1>3 DEF SmallMultiplierCode
  <2>2. a.to = "tmp" /\ b.to = "op1" /\ c.to = "op2" /\ d.to = "op3" /\ e.to = "ans"
    BY DEF Instr
  <2> HIDE DEF a, b, c, d, e
  <2>3. <<a, b, c, d, e>> \in Seq({a, b, c, d, e}) /\ Len(<<a, b, c, d, e>>) = 5
    OBVIOUS
  <2>4. \A i \in 1..5 : <<a, b, c, d, e>>[i].to \in Registers \ {"src"}
    <3>1. 1..5 = {1, 2, 3, 4, 5}
      OBVIOUS
    <3> QED BY <2>2, <3>1 DEF Registers
  <2> QED BY <2>1, <2>3, <2>4 DEF Writes
<1>4. ASSUME DivConstCode(C) = LargeMultiplierCode(m)
      PROVE  Writes(DivConstCode(C))
  <2> DEFINE a == Instr("load_imm", m.high - Pow2[W], 0, "tmp")
             b == Instr("mulh_sup", "src", "tmp", "op1")
             c == Instr("shift_right", "op1", W, "op2")
             d == Instr("add", "op2", "src", "op3")
             e == Instr("shift_right", "op3", m.sh, "op4")
             f == Instr("shift_right", "src", W - 1, "op5")
             g == Instr("sub", "op4", "op5", "ans")
  <2>1. DivConstCode(C) = <<a, b, c, d, e, f, g>>
    BY <1>4 DEF LargeMultiplierCode
  <2>2. /\ a.to = "tmp" /\ b.to = "op1" /\ c.to = "op2" /\ d.to = "op3"
        /\ e.to = "op4" /\ f.to = "op5" /\ g.to = "ans"
    BY DEF Instr
  <2> HIDE DEF a, b, c, d, e, f, g
  <2>3. <<a, b, c, d, e, f, g>> \in Seq({a, b, c, d, e, f, g}) /\ Len(<<a, b, c, d, e, f, g>>) = 7
    OBVIOUS
  <2>4. \A i \in 1..7 : <<a, b, c, d, e, f, g>>[i].to \in Registers \ {"src"}
    <3>1. 1..7 = {1, 2, 3, 4, 5, 6, 7}
      OBVIOUS
    <3> QED BY <2>2, <3>1 DEF Registers
  <2> QED BY <2>1, <2>3, <2>4 DEF Writes
<1> QED BY <1>1, <1>2, <1>3, <1>4

\* The invariant holds when the code has been emitted and nothing has run.
LEMMA DivInit ==
  Init => DivInv
<1>1. SUFFICES ASSUME Init, work = "div" PROVE DivInv
  BY DEF DivInv
<1>2. C \in Divisors /\ src \in Word /\ DOMAIN regs = Registers /\ regs["src"] = src
  BY <1>1 DEF Init, Registers
<1>3. code = DivConstCode(C)
  BY <1>1 DEF Init
<1>4. PICK S : DivConstCode(C) \in Seq(S)
  BY CodeIs DEF Writes
<1> DEFINE P == DivConstCode(C)
<1> HIDE DEF P
<1>5. P \in Seq(S) /\ code = P
  BY <1>3, <1>4 DEF P
<1>6. SubSeq(P, 1, Len(P)) = P /\ 1 \in 1..(Len(P) + 1)
  BY <1>5
<1>7. Known(1)
  BY DEF Known, PowerOf2Known, SmallKnown, LargeKnown
<1> QED BY <1>2, <1>5, <1>6, <1>7 DEF DivInv, At, P

\* Running an instruction keeps the invariant, whichever of the three codes it belongs to.
LEMMA DivStep ==
  DivInv /\ [Next]_vars => DivInv'
<1>1. SUFFICES ASSUME DivInv, [Next]_vars, (work = "div")' PROVE DivInv'
  BY DEF DivInv
<1>2. CASE UNCHANGED vars
  BY <1>1, <1>2 DEF vars, DivInv, At, Known, PowerOf2Known, SmallKnown, LargeKnown, Result
<1>3. CASE Step
  <2>1. work = "div" /\ UNCHANGED <<C, src>> /\ code # <<>>
    BY <1>1, <1>3 DEF Step
  <2>2. C \in Divisors /\ src \in Word /\ DOMAIN regs = Registers /\ regs["src"] = src
    BY <1>1, <2>1 DEF DivInv
  <2> DEFINE P == DivConstCode(C)
  <2>3. PICK i \in 1..(Len(P) + 1) : At(i)
    BY <1>1, <2>1 DEF DivInv
  <2>4. PICK S : P \in Seq(S)
    BY CodeIs DEF Writes
  <2>5. code = SubSeq(P, i, Len(P)) /\ Known(i)
    BY <2>3 DEF At
  <2>6. P' = P
    BY <2>1 DEF DivConstCode, Multiplier
  <2>7. i \in 1..Len(P) /\ Head(code) = P[i] /\ Tail(code) = SubSeq(P, i + 1, Len(P))
    <3> HIDE DEF P
    <3>1. i \in 1..(Len(P) + 1) /\ Len(P) \in Nat
      BY <2>3, <2>4
    <3>2. i # Len(P) + 1
      BY <2>1, <2>4, <2>5, RestOf
    <3>3. i \in 1..Len(P) /\ i <= Len(P)
      BY <3>1, <3>2
    <3> QED BY <2>4, <2>5, <3>1, <3>3, RestOf
  <2>8. regs' = [regs EXCEPT ![P[i].to] = Result(P[i])] /\ code' = SubSeq(P, i + 1, Len(P))
    BY <1>3, <2>7 DEF Step
  <2>9. DOMAIN regs' = Registers /\ regs'["src"] = src
    BY <2>2, <2>7, <2>8, CodeIs DEF Writes
  <2>10. Known(i + 1)'
    <3>1. ASSUME IsPowerOf2(C) PROVE PowerOf2Known(Log2Floor(C), i + 1)'
      <4>1. P = PowerOf2Code(Log2Floor(C)) /\ Log2Floor(C) \in Nat
        BY <2>2, <3>1, Log2FloorIs DEF DivConstCode
      <4> QED BY <2>1, <2>2, <2>5, <2>7, <2>8, <3>1, <4>1, PowerOf2Step DEF Known
    <3>2. ASSUME ~IsPowerOf2(C), IsSmall(Multiplier(C)), src >= 0
          PROVE  SmallKnown(Multiplier(C), i + 1)'
      <4>1. P = SmallMultiplierCode(Multiplier(C))
        BY <3>2 DEF DivConstCode
      <4> QED BY <2>1, <2>2, <2>5, <2>7, <2>8, <3>2, <4>1, SmallStep DEF Known
    <3>3. ASSUME ~IsPowerOf2(C), ~IsSmall(Multiplier(C))
          PROVE  LargeKnown(Multiplier(C), i + 1)'
      <4>1. P = LargeMultiplierCode(Multiplier(C))
        BY <3>3 DEF DivConstCode
      <4> QED BY <2>1, <2>2, <2>5, <2>7, <2>8, <3>3, <4>1, LargeStep DEF Known
    <3> QED BY <2>1, <3>1, <3>2, <3>3 DEF Known
  <2>11. i + 1 \in 1..(Len(P) + 1)
    <3> HIDE DEF P
    <3> QED BY <2>4, <2>7
  <2>12. At(i + 1)'
    BY <2>6, <2>8, <2>10 DEF At
  <2> QED BY <2>1, <2>2, <2>6, <2>9, <2>11, <2>12 DEF DivInv
<1> QED BY <1>1, <1>2, <1>3 DEF Next

\* The invariant holds: whatever the divisor and the dividend, each instruction of
\* applyDivConst leaves in its register what the lemmas above say.
THEOREM DivisionInvariant == Spec => []DivInv
BY DivInit, DivStep, PTL DEF Spec

\* At the end every instruction is behind.
LEMMA Answers ==
  ASSUME DivInv, Divided
  PROVE  /\ C \in Divisors /\ src \in Word
         /\ IsPowerOf2(C) => PowerOf2Known(Log2Floor(C), 4)
         /\ IsPowerOf2(C) /\ Log2Floor(C) = 0 => regs["ans"] = src
         /\ ~IsPowerOf2(C) /\ IsSmall(Multiplier(C)) /\ src >= 0 => SmallKnown(Multiplier(C), 6)
         /\ ~IsPowerOf2(C) /\ ~IsSmall(Multiplier(C)) => LargeKnown(Multiplier(C), 8)
<1> DEFINE P == DivConstCode(C)
<1>1. C \in Divisors /\ src \in Word /\ code = <<>>
  BY DEF DivInv, Divided, Finished
<1>2. PICK i \in 1..(Len(P) + 1) : At(i)
  BY DEF DivInv, Divided
<1>3. i = Len(P) + 1 /\ Known(i)
  <2>1. PICK S : P \in Seq(S)
    BY CodeIs DEF Writes
  <2>2. SubSeq(P, i, Len(P)) = <<>> /\ Known(i)
    BY <1>1, <1>2 DEF At
  <2> HIDE DEF P
  <2> QED BY <2>1, <2>2, RestOf
<1>4. ASSUME IsPowerOf2(C)
      PROVE  PowerOf2Known(Log2Floor(C), 4) /\ (Log2Floor(C) = 0 => regs["ans"] = src)
  <2>1. P = PowerOf2Code(Log2Floor(C)) /\ Log2Floor(C) \in Nat
    BY <1>1, <1>4, Log2FloorIs DEF DivConstCode
  <2>2. CASE Log2Floor(C) = 0
    <3> DEFINE a == Instr("move", "src", "", "ans")
    <3>1. P = <<a>>
      BY <2>1, <2>2 DEF PowerOf2Code
    <3> HIDE DEF P, a
    <3>2. i = 2
      BY <1>3, <3>1
    <3> QED BY <1>3, <1>4, <2>2, <3>2 DEF Known, PowerOf2Known
  <2>3. CASE Log2Floor(C) # 0
    <3>1. Len(P) = 3
      BY <2>1, <2>3 DEF PowerOf2Code
    <3> HIDE DEF P
    <3>2. i = 4
      BY <1>3, <3>1
    <3> QED BY <1>3, <1>4, <2>3, <3>2 DEF Known
  <2> QED BY <2>2, <2>3
<1>5. ASSUME ~IsPowerOf2(C), IsSmall(Multiplier(C)), src >= 0 PROVE SmallKnown(Multiplier(C), 6)
  <2>1. Len(P) = 5
    BY <1>5 DEF DivConstCode, SmallMultiplierCode
  <2> HIDE DEF P
  <2> QED BY <1>3, <1>5, <2>1 DEF Known
<1>6. ASSUME ~IsPowerOf2(C), ~IsSmall(Multiplier(C)) PROVE LargeKnown(Multiplier(C), 8)
  <2>1. Len(P) = 7
    BY <1>6 DEF DivConstCode, LargeMultiplierCode
  <2> HIDE DEF P
  <2> QED BY <1>3, <1>6, <2>1 DEF Known
<1> QED BY <1>1, <1>4, <1>5, <1>6

\* The quotient by a power of two: the low word is right, and the whole register when
\* the dividend is not negative.
LEMMA PowerOf2Answer ==
  ASSUME DivInv, Divided, IsPowerOf2(C)
  PROVE  /\ Wrap(regs["ans"], W) = Quotient(src, C)
         /\ src >= 0 => regs["ans"] = Quotient(src, C)
<1> DEFINE k == Log2Floor(C)
<1>1. C \in Divisors /\ src \in Word /\ C = Pow2[k] /\ k \in 0..(W - 2)
  BY Answers, Log2FloorIs DEF IsPowerOf2
<1>2. CASE k = 0
  <2>1. regs["ans"] = src /\ C = 1
    BY <1>1, <1>2, Answers, Pow2Equations
  <2>2. src \in Int /\ -Half <= src /\ src < Half
    BY <1>1, Widths, WordsAre
  <2>3. Wrap(src, W) = src
    BY <2>2, WrapKeeps
  <2>4. src \div 1 = src /\ (-src) \div 1 = -src
    BY <2>2
  <2>5. Quotient(src, 1) = src
    BY <2>2, <2>4 DEF Quotient
  <2> QED BY <2>1, <2>3, <2>5
<1>3. CASE k # 0
  <2>1. regs["ans"] = ShiftRight(Biased(src, k), k)
    BY <1>3, Answers DEF PowerOf2Known
  <2>2. k \in 1..(W - 2) /\ Pow2[k] \in Divisors
    BY <1>1, <1>3
  <2> HIDE DEF k
  <2> QED BY <1>1, <2>1, <2>2, PowerOf2Shifts
<1> QED BY <1>2, <1>3

\* A dividend that is not negative is divided exactly by every divisor, on a machine of
\* every width: the multiplier and the shift of applyDivConst are precise enough.
THEOREM DividesNotNegative == Spec => []ExactWhenNotNegative
<1>1. ASSUME DivInv PROVE ExactWhenNotNegative
  <2>1. SUFFICES ASSUME Divided, src >= 0 PROVE regs["ans"] = Quotient(src, C)
    BY DEF ExactWhenNotNegative
  <2>2. CASE IsPowerOf2(C)
    BY <1>1, <2>1, <2>2, PowerOf2Answer
  <2>3. CASE ~IsPowerOf2(C) /\ IsSmall(Multiplier(C))
    BY <1>1, <2>1, <2>3, Answers DEF SmallKnown
  <2>4. CASE ~IsPowerOf2(C) /\ ~IsSmall(Multiplier(C))
    BY <1>1, <2>1, <2>4, Answers DEF LargeKnown
  <2> QED BY <2>2, <2>3, <2>4
<1> QED BY <1>1, DivisionInvariant, PTL

\* A divisor with a large multiplier divides every dividend exactly.
THEOREM DividesWithLargeMultiplier == Spec => []ExactWithLargeMultiplier
<1>1. ASSUME DivInv PROVE ExactWithLargeMultiplier
  BY <1>1, Answers DEF ExactWithLargeMultiplier, LargeKnown
<1> QED BY <1>1, DivisionInvariant, PTL

\* The low word of the answer is right for every power of two and every dividend.
THEOREM DividesByPowerOf2 == Spec => []LowWordWithPowerOf2
<1>1. ASSUME DivInv PROVE LowWordWithPowerOf2
  BY <1>1, PowerOf2Answer DEF LowWordWithPowerOf2
<1> QED BY <1>1, DivisionInvariant, PTL

-----------------------------------------------------------------------------
(***************************************************************************)
(* applyMulConst: each register of the code it emits holds the product of  *)
(* src by a factor that can be followed without src, and the plan filed    *)
(* under C ends with the factor C.                                         *)
(***************************************************************************)

(* Numbers with the same low word. *)

\* Numbers with the same low word.
Same(a, b) == \E q \in Int : a = b + q * Pow2[W]

\* The low word is kept by sums, differences and multiples.
LEMMA SameIsCongruence ==
  ASSUME NEW a \in Int, NEW b \in Int, NEW c \in Int, NEW d \in Int, Same(a, b), Same(c, d)
  PROVE  Same(a + c, b + d) /\ Same(a - c, b - d) /\ Same(b, a)
         /\ \A n \in Int : Same(n * a, n * b) /\ Same(a * n, b * n)
<1> DEFINE m == Pow2[W]
<1>1. m \in Int
  BY Widths
<1>2. PICK p \in Int, q \in Int : a = b + p * m /\ c = d + q * m
  BY DEF Same
<1> HIDE DEF m
<1>3. /\ a + c = (b + d) + (p + q) * m /\ a - c = (b - d) + (p - q) * m /\ b = a + (-p) * m
      /\ \A n \in Int : n * a = n * b + (n * p) * m /\ a * n = b * n + (n * p) * m
  <2>1. (p + q) * m = p * m + q * m /\ (p - q) * m = p * m - q * m /\ (-p) * m = -(p * m)
    BY <1>1
  <2>2. ASSUME NEW n \in Int PROVE n * a = n * b + (n * p) * m /\ a * n = b * n + (n * p) * m
    <3>1. n * (p * m) = (n * p) * m /\ p * m \in Int
      BY <1>1
    <3>2. n * (b + p * m) = n * b + n * (p * m) /\ (b + p * m) * n = b * n + n * (p * m)
      BY <3>1
    <3> QED BY <1>2, <3>1, <3>2
  <2> QED BY <1>1, <1>2, <2>1, <2>2
<1>4. /\ p + q \in Int /\ p - q \in Int /\ -p \in Int /\ \A n \in Int : n * p \in Int
  OBVIOUS
<1> QED BY <1>3, <1>4 DEF Same, m

\* Having the same low word goes from number to number.
LEMMA SameTransitive ==
  ASSUME NEW a \in Int, NEW b \in Int, NEW c \in Int, Same(a, b), Same(b, c)
  PROVE  Same(a, c)
<1> DEFINE m == Pow2[W]
<1>1. m \in Int
  BY Widths
<1>2. PICK p \in Int, q \in Int : a = b + p * m /\ b = c + q * m
  BY DEF Same
<1> HIDE DEF m
<1>3. a = c + (p + q) * m /\ p + q \in Int
  <2>1. (p + q) * m = p * m + q * m
    BY <1>1
  <2> QED BY <1>1, <1>2, <2>1
<1> QED BY <1>3 DEF Same, m

\* A number has its own low word.
LEMMA SameReflexive ==
  ASSUME NEW a \in Int
  PROVE  Same(a, a)
<1>1. a = a + 0 * Pow2[W]
  BY Widths
<1> QED BY <1>1 DEF Same

\* The low word of a multiple depends on the low word alone.
LEMMA SameTimes ==
  ASSUME NEW a \in Int, NEW b \in Int, NEW n \in Int, Same(a, b)
  PROVE  Same(n * a, n * b) /\ Same(a * n, b * n) /\ Same(b, a)
BY SameReflexive, SameIsCongruence

\* Words with the same low word are equal.
LEMMA SameWords ==
  ASSUME NEW a \in Word, NEW b \in Word, Same(a, b)
  PROVE  a = b
<1> DEFINE m == Pow2[W]
<1>1. m = 2 * Half /\ Half \in Nat \ {0} /\ a \in Int /\ b \in Int /\ -Half <= a /\ a < Half /\ -Half <= b /\ b < Half
  BY Widths, WordsAre
<1>2. PICK q \in Int : a = b + q * m
  BY DEF Same
<1> HIDE DEF m
<1>3. CASE q >= 1
  <2>1. 1 * m <= q * m
    BY <1>1, <1>3, TimesMonotone
  <2> QED BY <1>1, <1>2, <2>1
<1>4. CASE q <= -1
  <2>1. q * m <= (-1) * m
    BY <1>1, <1>4, TimesMonotone
  <2> QED BY <1>1, <1>2, <2>1
<1>5. CASE q = 0
  BY <1>1, <1>2, <1>5
<1> QED BY <1>3, <1>4, <1>5

\* A register keeps the low word of what is put into it.
LEMMA WrapSame ==
  ASSUME NEW x \in Int
  PROVE  /\ Wrap(x, W) \in Word /\ Wrap(x, W) \in Int /\ Same(Wrap(x, W), x)
         /\ Wrap(x, 2 * W) \in Int /\ Same(Wrap(x, 2 * W), x)
<1> DEFINE m == Pow2[W]
           h == Half
<1>1. m = 2 * h /\ h \in Nat \ {0} /\ m \in Nat \ {0} /\ Pow2[W - 1] = h
  BY Widths DEF Half
<1>2. Pow2[2 * W] = (2 * m) * h /\ Pow2[2 * W - 1] = m * h
  <2>1. 4 * (h * h) = (2 * (2 * h)) * h /\ 2 * (h * h) = (2 * h) * h
    BY <1>1
  <2> QED BY <1>1, <2>1, Widths
<1> DEFINE q == Quot(x + h, m)
           r == Quot(x + m * h, (2 * m) * h)
<1>3. Wrap(x, W) = x - m * q /\ q \in Int /\ m * q <= x + h /\ x + h < m * q + m
  <2>1. Wrap(x, W) = ((x + h) % m) - h
    BY <1>1 DEF Wrap
  <2> HIDE DEF h, m
  <2>2. x + h \in Int
    BY <1>1
  <2>3. (x + h) % m = (x + h) - m * q
    BY <1>1, <2>2, QuotRemainder
  <2>4. q \in Int /\ m * q <= x + h /\ x + h < m * q + m
    BY <1>1, <2>2, QuotBounds
  <2> QED BY <1>1, <2>1, <2>3, <2>4
<1>4. Wrap(x, 2 * W) = x - ((2 * m) * h) * r /\ r \in Int
  <2>1. Wrap(x, 2 * W) = ((x + m * h) % ((2 * m) * h)) - m * h
    BY <1>2 DEF Wrap
  <2> HIDE DEF h, m
  <2>2. x + m * h \in Int /\ m * h \in Int
    BY <1>1
  <2>5. (2 * m) * h \in Nat \ {0}
    BY <1>1
  <2>3. (x + m * h) % ((2 * m) * h) = (x + m * h) - ((2 * m) * h) * r
    BY <2>5, <2>2, QuotRemainder
  <2>4. r \in Int
    BY <2>5, <2>2, QuotBounds
  <2>6. ((2 * m) * h) * r \in Int
    BY <2>4, <2>5
  <2> HIDE DEF r
  <2> QED BY <1>1, <2>1, <2>2, <2>3, <2>4, <2>6
<1> HIDE DEF m, h, q, r
<1>5. Wrap(x, W) \in -h .. (h - 1)
  <2>1. m * q \in Int
    BY <1>1, <1>3
  <2> QED BY <1>1, <1>3, <2>1
<1>6. Wrap(x, W) = x + (-q) * m /\ -q \in Int
  BY <1>1, <1>3
<1>7. Wrap(x, 2 * W) = x + (-((2 * h) * r)) * m /\ -((2 * h) * r) \in Int /\ Wrap(x, 2 * W) \in Int
  <2>1. ((2 * m) * h) * r = ((2 * h) * r) * m /\ (2 * h) * r \in Int /\ ((2 * h) * r) * m \in Int
    BY <1>1, <1>4
  <2>2. (-((2 * h) * r)) * m = -(((2 * h) * r) * m)
    BY <1>1, <2>1
  <2> QED BY <1>4, <2>1, <2>2
<1>8. Word = -h .. (h - 1) /\ -h .. (h - 1) \subseteq Int
  BY <1>1, WordsAre DEF h
<1> QED BY <1>5, <1>6, <1>7, <1>8 DEF Same, m

\* What a register should hold for n times f: the low word, and the product itself when it
\* is a word.  A word with its sign bit set is left unextended by a shift, so nothing more is
\* said of a negative f.
Right(r, f, n) ==
  /\ r \in Int /\ Same(r, n * f)
  /\ f >= 0 /\ n * f \in Word => r = n * f

\* What the 32-bit instructions leave is sign-extended.
LEMMA RightOfWord ==
  ASSUME NEW x \in Int, NEW f \in Int, NEW n \in Int, Same(x, n * f)
  PROVE  Right(Wrap(x, W), f, n)
<1>1. Wrap(x, W) \in Word /\ Wrap(x, W) \in Int /\ Same(Wrap(x, W), x) /\ n * f \in Int
  BY WrapSame, WordsAre, Widths
<1>2. Same(Wrap(x, W), n * f)
  BY <1>1, SameTransitive
<1>3. n * f \in Word => Wrap(x, W) = n * f
  BY <1>1, <1>2, SameWords
<1> QED BY <1>1, <1>2, <1>3 DEF Right

\* Sums and differences of products, through overflows of the factor and of the register.
LEMMA RightSum ==
  ASSUME NEW r, NEW s, NEW f \in Int, NEW e \in Int, NEW n \in Int, Right(r, f, n), Right(s, e, n)
  PROVE  /\ Right(Wrap(r + s, W), Wrap(f + e, W), n)
         /\ Right(Wrap(r - s, W), Wrap(f - e, W), n)
<1>1. /\ r \in Int /\ s \in Int /\ Same(r, n * f) /\ Same(s, n * e)
      /\ n * f \in Int /\ n * e \in Int
  BY DEF Right
<1>2. ASSUME NEW x \in Int, NEW y \in Int, Same(x, n * y)
      PROVE  Right(Wrap(x, W), Wrap(y, W), n)
  <2>1. Wrap(y, W) \in Int /\ Same(Wrap(y, W), y)
    BY <1>2, WrapSame
  <2> DEFINE g == Wrap(y, W)
  <2> HIDE DEF g
  <2>2. Same(y, g) /\ g \in Int /\ n * g \in Int /\ n * y \in Int
    BY <2>1, SameTimes DEF g
  <2>3. Same(n * y, n * g)
    BY <2>2, SameTimes
  <2>4. Same(x, n * g)
    BY <1>2, <2>2, <2>3, SameTransitive
  <2>5. Right(Wrap(x, W), g, n)
    BY <1>2, <2>2, <2>4, RightOfWord
  <2> QED BY <2>5 DEF g
<1>3. Same(r + s, n * f + n * e) /\ Same(r - s, n * f - n * e)
  BY <1>1, SameIsCongruence
<1>4. n * f + n * e = n * (f + e) /\ n * f - n * e = n * (f - e)
  OBVIOUS
<1>5. r + s \in Int /\ r - s \in Int /\ f + e \in Int /\ f - e \in Int
  BY <1>1
<1> QED BY <1>2, <1>3, <1>4, <1>5

\* A shift of a positive factor that goes at most into the sign bit.
LEMMA RightShift ==
  ASSUME NEW r, NEW f \in Nat \ {0}, NEW n \in Int, Right(r, f, n),
         NEW k \in Nat, f * Pow2[k] < Pow2[W]
  PROVE  Right(Wrap(r * Pow2[k], 2 * W), Wrap(f * Pow2[k], W), n)
<1> DEFINE p == Pow2[k]
           g == Wrap(f * p, W)
           x == Wrap(r * p, 2 * W)
<1>1. /\ p \in Nat \ {0} /\ r \in Int /\ Same(r, n * f) /\ Half \in Nat \ {0}
      /\ f * p < 2 * Half
  BY Pow2Equations, Widths DEF Right
<1>2. f * p \in Int /\ r * p \in Int /\ n * f \in Int /\ n * (f * p) \in Int /\ f * p \in Nat \ {0}
  <2> HIDE DEF p
  <2> QED BY <1>1
<1>3. x \in Int /\ Same(x, r * p) /\ g \in Word /\ g \in Int /\ Same(g, f * p)
  <2> HIDE DEF p
  <2> QED BY <1>2, WrapSame
<1> HIDE DEF p, g, x
<1>4. Same(x, n * g)
  <2>1. Same(r * p, (n * f) * p)
    <3> DEFINE z == n * f
    <3>1. r \in Int /\ z \in Int /\ p \in Int /\ Same(r, z)
      BY <1>1, <1>2
    <3> HIDE DEF z
    <3>2. Same(r * p, z * p)
      BY <3>1, SameTimes
    <3> QED BY <3>2 DEF z
  <2>2. (n * f) * p = n * (f * p)
    BY <1>1
  <2>3. Same(f * p, g)
    BY <1>2, <1>3, SameTimes
  <2>4. Same(n * (f * p), n * g) /\ n * g \in Int
    BY <1>2, <1>3, <2>3, SameTimes
  <2>5. Same(x, n * (f * p))
    BY <1>2, <1>3, <2>1, <2>2, SameTransitive
  <2> QED BY <1>2, <1>3, <2>4, <2>5, SameTransitive
<1>5. ASSUME g >= 0, n * g \in Word PROVE x = n * g
  <2>1. g = f * p
    <3>1. CASE f * p < Half
      BY <1>1, <1>2, <3>1, WrapKeeps DEF g
    <3>2. CASE f * p >= Half
      <4>1. /\ f * p = (f * p - 2 * Half) + 1 * Pow2[W]
            /\ f * p - 2 * Half \in Int /\ -Pow2[W - 1] <= f * p - 2 * Half /\ f * p - 2 * Half < Pow2[W - 1]
        BY <1>1, <1>2, <3>2, Widths DEF Half
      <4>2. W \in Nat \ {0} /\ 1 \in Int
        BY WordAssumption
      <4>3. Wrap(f * p, W) = f * p - 2 * Half
        <5> DEFINE x0 == f * p
                   y0 == f * p - 2 * Half
        <5>1. x0 \in Int /\ y0 \in Int /\ x0 = y0 + 1 * Pow2[W]
          BY <1>2, <4>1
        <5>2. -Pow2[W - 1] <= y0 /\ y0 < Pow2[W - 1]
          BY <4>1
        <5> HIDE DEF x0, y0
        <5>3. Wrap(x0, W) = y0
          BY <4>2, <5>1, <5>2, WrapIs
        <5> QED BY <5>3 DEF x0, y0
      <4>4. g = f * p - 2 * Half
        BY <4>3 DEF g
      <4> QED BY <1>1, <1>2, <1>5, <4>4
    <3> QED BY <1>1, <1>2, <3>1, <3>2
  <2>2. n * f \in Word
    <3>1. (n * f) * p = n * g
      BY <1>1, <2>1
    <3>2. Word = -Half .. (Half - 1) /\ -Half <= n * g /\ n * g < Half
      BY <1>1, <1>5, WordsAre
    <3>3. CASE n * f >= 0
      <4>1. (n * f) * 1 <= (n * f) * p
        BY <1>1, <1>2, <3>3, TimesMonotone
      <4> QED BY <1>1, <1>2, <3>1, <3>2, <3>3, <4>1
    <3>4. CASE n * f < 0
      <4>1. (n * f) * p <= (n * f) * 1
        BY <1>1, <1>2, <3>4, TimesMonotone
      <4> QED BY <1>1, <1>2, <3>1, <3>2, <3>4, <4>1
    <3> QED BY <1>2, <3>3, <3>4
  <2>3. r = n * f
    BY <2>2 DEF Right
  <2>4. r * p = n * g
    BY <1>1, <2>1, <2>3
  <2>5. -Half <= n * g /\ n * g < Half /\ n * g \in Int /\ Half <= 2 * (Half * Half)
    <3>1. Half * 1 <= Half * Half
      BY <1>1, TimesMonotone
    <3> QED BY <1>1, <1>3, <1>5, <3>1, WordsAre
  <2> QED BY <1>1, <2>4, <2>5, WrapKeeps DEF x
<1> QED BY <1>3, <1>4, <1>5 DEF Right, g, x, p

-----------------------------------------------------------------------------
(* Code that multiplies: every register holds the product of src and a     *)
(* factor, and the factors can be followed without src.                    *)

\* A factor for each register.
Factors == [Registers -> Int]

\* The instructions of a plan.
Instructions ==
  [op : {"move", "load_imm", "shift_left", "add_imm", "add", "sub"},
   a : Registers \cup Int, b : Registers \cup Int \cup {""}, to : Registers \ {"src"}]

\* What an instruction of a plan does to the factors.
FactorOf(in, g) ==
  CASE in.op = "move"       -> g[in.a]
    [] in.op = "add_imm"    -> g[in.a]
    [] in.op = "load_imm"   -> 0
    [] in.op = "shift_left" -> Wrap(g[in.a] * Pow2[in.b], W)
    [] in.op = "add"        -> Wrap(g[in.a] + g[in.b], W)
    [] in.op = "sub"        -> Wrap(g[in.a] - g[in.b], W)

\* The instruction makes a product of src when its operands hold the products by g.
Multiplies(in, g) ==
  \/ in.op = "move" /\ in.a \in Registers
  \/ in.op = "add_imm" /\ in.a \in Registers /\ in.b = 0
  \/ in.op = "load_imm" /\ in.a = 0
  \/ in.op = "shift_left" /\ in.a \in Registers /\ in.b \in Nat /\ g[in.a] > 0 /\ g[in.a] * Pow2[in.b] < Pow2[W]
  \/ in.op \in {"add", "sub"} /\ in.a \in Registers /\ in.b \in Registers

\* It turns the factors g into h.
Carries(in, g, h) ==
  /\ in \in Instructions /\ Multiplies(in, g)
  /\ h = [g EXCEPT ![in.to] = FactorOf(in, g)]

\* The code turns the factors g into h.
Computes(s, g, h) ==
  /\ s \in Seq(Instructions)
  /\ \E G \in [0..Len(s) -> Factors] :
       G[0] = g /\ G[Len(s)] = h /\ \A i \in 1..Len(s) : Carries(s[i], G[i - 1], G[i])

\* Factors stay numbers.
LEMMA CarriesFactors ==
  ASSUME NEW in \in Instructions, NEW g \in Factors, Multiplies(in, g)
  PROVE  FactorOf(in, g) \in Int /\ [g EXCEPT ![in.to] = FactorOf(in, g)] \in Factors
<1> USE DEF Multiplies, FactorOf
<1>1. in.to \in Registers /\ \A r \in Registers : g[r] \in Int
  BY DEF Instructions, Factors
<1>2. \A x \in Int : Wrap(x, W) \in Int
  BY WrapSame
<1>3. FactorOf(in, g) \in Int
  <2>1. CASE in.op \in {"move", "add_imm"} /\ in.a \in Registers
    BY <1>1, <2>1
  <2>2. CASE in.op = "load_imm"
    BY <2>2
  <2>3. CASE in.op = "shift_left" /\ in.a \in Registers /\ in.b \in Nat
    <3>1. g[in.a] \in Int /\ Pow2[in.b] \in Int
      BY <1>1, <2>3, Pow2Equations
    <3>2. g[in.a] * Pow2[in.b] \in Int
      BY <3>1
    <3>3. FactorOf(in, g) = Wrap(g[in.a] * Pow2[in.b], W)
      BY <2>3
    <3> QED BY <1>2, <3>2, <3>3
  <2>4. CASE in.op \in {"add", "sub"} /\ in.a \in Registers /\ in.b \in Registers
    <3>1. g[in.a] + g[in.b] \in Int /\ g[in.a] - g[in.b] \in Int
      BY <1>1, <2>4
    <3>2. FactorOf(in, g) = Wrap(g[in.a] + g[in.b], W) \/ FactorOf(in, g) = Wrap(g[in.a] - g[in.b], W)
      BY <2>4
    <3> QED BY <1>2, <3>1, <3>2
  <2> QED BY <2>1, <2>2, <2>3, <2>4
<1> HIDE DEF FactorOf, Multiplies
<1> QED BY <1>1, <1>3 DEF Factors

\* An instruction that multiplies keeps every register right.
LEMMA CarriesRight ==
  ASSUME NEW in \in Instructions, NEW g \in Factors, Multiplies(in, g), NEW n \in Int,
         \A r \in Registers : Right(regs[r], g[r], n)
  PROVE  Right(Result(in), FactorOf(in, g), n)
<1>1. \A r \in Registers : g[r] \in Int /\ regs[r] \in Int /\ Same(regs[r], n * g[r])
  BY DEF Factors, Right
<1>2. CASE in.op = "move" /\ in.a \in Registers
  BY <1>2 DEF Result, FactorOf
<1>3. CASE in.op = "add_imm" /\ in.a \in Registers /\ in.b = 0
  <2>1. Result(in) = Wrap(regs[in.a], W)
    <3>1. regs[in.a] + in.b = regs[in.a]
      BY <1>1, <1>3
    <3> QED BY <1>3, <3>1 DEF Result
  <2>2. Right(Wrap(regs[in.a], W), g[in.a], n)
    BY <1>1, <1>3, RightOfWord
  <2> QED BY <1>3, <2>1, <2>2 DEF FactorOf
<1>4. CASE in.op = "load_imm" /\ in.a = 0
  <2>1. 0 \in Int /\ Same(0, n * 0)
    BY SameReflexive
  <2>2. Right(Wrap(0, W), 0, n)
    BY <2>1, RightOfWord
  <2> QED BY <1>4, <2>2 DEF Result, FactorOf
<1>5. CASE in.op = "shift_left" /\ in.a \in Registers /\ in.b \in Nat /\ g[in.a] > 0 /\ g[in.a] * Pow2[in.b] < Pow2[W]
  <2>1. g[in.a] \in Nat \ {0}
    BY <1>1, <1>5
  <2>2. Right(Wrap(regs[in.a] * Pow2[in.b], 2 * W), Wrap(g[in.a] * Pow2[in.b], W), n)
    BY <1>5, <2>1, RightShift
  <2> QED BY <1>5, <2>2 DEF Result, FactorOf
<1>6. CASE in.op \in {"add", "sub"} /\ in.a \in Registers /\ in.b \in Registers
  <2>1. /\ Right(Wrap(regs[in.a] + regs[in.b], W), Wrap(g[in.a] + g[in.b], W), n)
        /\ Right(Wrap(regs[in.a] - regs[in.b], W), Wrap(g[in.a] - g[in.b], W), n)
    BY <1>1, <1>6, RightSum
  <2> QED BY <1>6, <2>1 DEF Result, FactorOf
<1> QED BY <1>2, <1>3, <1>4, <1>5, <1>6 DEF Multiplies

\* Code that computes can be put together and taken apart.
LEMMA ComputesNothing ==
  ASSUME NEW g \in Factors
  PROVE  Computes(<<>>, g, g)
<1> DEFINE G == [i \in 0..0 |-> g]
<1>1. G \in [0..0 -> Factors] /\ G[0] = g /\ <<>> \in Seq(Instructions) /\ Len(<<>>) = 0
  OBVIOUS
<1>2. \A i \in 1..0 : FALSE
  OBVIOUS
<1> HIDE DEF G
<1>3. G \in [0..Len(<<>>) -> Factors] /\ G[0] = g /\ G[Len(<<>>)] = g /\ \A i \in 1..Len(<<>>) : Carries(<<>>[i], G[i - 1], G[i])
  BY <1>1, <1>2
<1> QED BY <1>1, <1>3 DEF Computes

\* One instruction.
LEMMA ComputesOne ==
  ASSUME NEW in \in Instructions, NEW g \in Factors, NEW h, Carries(in, g, h)
  PROVE  Computes(<<in>>, g, h)
<1>1. h \in Factors
  BY CarriesFactors DEF Carries
<1> DEFINE G == [i \in 0..1 |-> IF i = 0 THEN g ELSE h]
<1>2. G \in [0..1 -> Factors] /\ G[0] = g /\ G[1] = h
  BY <1>1
<1>3. <<in>> \in Seq(Instructions) /\ Len(<<in>>) = 1 /\ <<in>>[1] = in
  OBVIOUS
<1> HIDE DEF G
<1>4. \A i \in 1..1 : i = 1 /\ i - 1 = 0
  OBVIOUS
<1> QED BY <1>2, <1>3, <1>4 DEF Computes

\* One piece of code after another.
LEMMA ComputesBoth ==
  ASSUME NEW s, NEW t, NEW g, NEW h, NEW k, Computes(s, g, h), Computes(t, h, k)
  PROVE  Computes(s \o t, g, k)
<1>1. s \in Seq(Instructions) /\ t \in Seq(Instructions)
  BY DEF Computes
<1>2. PICK G \in [0..Len(s) -> Factors] :
        G[0] = g /\ G[Len(s)] = h /\ \A i \in 1..Len(s) : Carries(s[i], G[i - 1], G[i])
  BY DEF Computes
<1>3. PICK H \in [0..Len(t) -> Factors] :
        H[0] = h /\ H[Len(t)] = k /\ \A i \in 1..Len(t) : Carries(t[i], H[i - 1], H[i])
  BY DEF Computes
<1> DEFINE m == Len(s)
           n == Len(t)
           F == [i \in 0..(m + n) |-> IF i <= m THEN G[i] ELSE H[i - m]]
<1>4. m \in Nat /\ n \in Nat /\ s \o t \in Seq(Instructions) /\ Len(s \o t) = m + n
  BY <1>1
<1>5. /\ \A i \in 1..m : (s \o t)[i] = s[i]
      /\ \A i \in (m + 1)..(m + n) : (s \o t)[i] = t[i - m]
  BY <1>1
<1> HIDE DEF m, n
<1>6. /\ \A i \in 0..m : F[i] = G[i]
      /\ \A i \in m..(m + n) : F[i] = H[i - m]
  <2>1. ASSUME NEW i \in 0..m PROVE F[i] = G[i]
    BY <1>4, <2>1
  <2>2. ASSUME NEW i \in m..(m + n), i # m PROVE F[i] = H[i - m]
    BY <1>4, <2>2
  <2>3. F[m] = G[m] /\ G[m] = H[0] /\ m - m = 0
    BY <1>2, <1>3, <1>4, <2>1 DEF m
  <2> HIDE DEF F
  <2> QED BY <2>1, <2>2, <2>3
<1>7. F \in [0..(m + n) -> Factors]
  BY <1>2, <1>3, <1>4 DEF m, n
<1> HIDE DEF F
<1>8. ASSUME NEW i \in 1..(m + n) PROVE Carries((s \o t)[i], F[i - 1], F[i])
  <2>1. CASE i <= m
    <3>1. i \in 1..m /\ i - 1 \in 0..m /\ i \in 0..m
      BY <1>4, <2>1
    <3> QED BY <1>2, <1>5, <1>6, <3>1 DEF m
  <2>2. CASE i > m
    <3>1. i \in (m + 1)..(m + n) /\ i - 1 \in m..(m + n) /\ i \in m..(m + n) /\ i - m \in 1..n /\ (i - 1) - m = (i - m) - 1
      BY <1>4, <2>2
    <3> QED BY <1>3, <1>5, <1>6, <3>1 DEF n
  <2> QED BY <1>4, <2>1, <2>2
<1>9. F[0] = g /\ F[m + n] = k
  <2>1. 0 \in 0..m /\ m + n \in m..(m + n) /\ (m + n) - m = n
    BY <1>4
  <2> QED BY <1>2, <1>3, <1>6, <2>1 DEF n
<1> QED BY <1>4, <1>7, <1>8, <1>9 DEF Computes

\* The first instruction and the rest.
LEMMA ComputesRest ==
  ASSUME NEW s, s # <<>>, NEW g, NEW h, Computes(s, g, h)
  PROVE  /\ Head(s) \in Instructions /\ g \in Factors
         /\ Multiplies(Head(s), g)
         /\ Computes(Tail(s), [g EXCEPT ![Head(s).to] = FactorOf(Head(s), g)], h)
<1>1. s \in Seq(Instructions) /\ Len(s) \in Nat \ {0}
  BY DEF Computes
<1>2. PICK G \in [0..Len(s) -> Factors] :
        G[0] = g /\ G[Len(s)] = h /\ \A i \in 1..Len(s) : Carries(s[i], G[i - 1], G[i])
  BY DEF Computes
<1> DEFINE n == Len(s)
           t == Tail(s)
           H == [i \in 0..(n - 1) |-> G[i + 1]]
<1>3. Head(s) = s[1] /\ t \in Seq(Instructions) /\ Len(t) = n - 1 /\ \A i \in 1..(n - 1) : t[i] = s[i + 1]
  BY <1>1
<1> HIDE DEF n, t
<1>4. n \in Nat \ {0} /\ n - 1 \in Nat
  BY <1>1 DEF n
<1>5. Carries(s[1], g, G[1])
  <2>1. 1 \in 1..n /\ 1 - 1 = 0
    BY <1>4
  <2> QED BY <1>2, <2>1 DEF n
<1>6. g \in Factors
  <2>1. 0 \in 0..n
    BY <1>4
  <2> QED BY <1>2, <2>1 DEF n
<1>7. H \in [0..(n - 1) -> Factors] /\ H[0] = G[1] /\ H[n - 1] = G[n] /\ \A i \in 0..(n - 1) : H[i] = G[i + 1]
  BY <1>2, <1>4 DEF n
<1> HIDE DEF H
<1>8. ASSUME NEW i \in 1..(n - 1) PROVE Carries(t[i], H[i - 1], H[i])
  <2>1. i + 1 \in 1..n /\ (i + 1) - 1 = i /\ i - 1 \in 0..(n - 1) /\ i \in 0..(n - 1) /\ (i - 1) + 1 = i
    BY <1>4
  <2>2. Carries(s[i + 1], G[(i + 1) - 1], G[i + 1])
    BY <1>2, <2>1 DEF n
  <2>3. t[i] = s[i + 1] /\ H[i - 1] = G[i] /\ H[i] = G[i + 1]
    BY <1>3, <1>7, <2>1
  <2> QED BY <2>1, <2>2, <2>3
<1>9. Computes(t, G[1], h)
  BY <1>2, <1>3, <1>7, <1>8 DEF Computes, n
<1> QED BY <1>3, <1>5, <1>6, <1>9 DEF Carries, t

-----------------------------------------------------------------------------
(* The table of plans. *)

\* A plan that makes v of two words, or of a word and a shift.
PlanOf(p, v) ==
  /\ p.l \in Word /\ v = Factor(p)
  /\ \/ p.op = "shl" /\ p.r \in Shifts(p.l)
     \/ p.op \in {"add", "sub"} /\ p.r \in Word

\* A shift is of a positive word and stays below the next power of two.
LEMMA ShiftsAre ==
  ASSUME NEW v \in Word, NEW k \in Shifts(v)
  PROVE  v \in Nat \ {0} /\ k \in Nat /\ v * Pow2[k] < Pow2[W]
<1>1. v \in Int /\ v < Half /\ v > 0 /\ k \in 1..(W - 1 - Log2Floor(v))
  BY WordsAre, Widths DEF Shifts
<1>2. v \in Divisors
  BY <1>1, WordsAre, Widths
<1> DEFINE l == Log2Floor(v)
<1>3. l \in 0..(W - 2) /\ v < Pow2[l + 1]
  BY <1>2, Log2FloorIs
<1> HIDE DEF l
<1>4. k \in Nat /\ l + 1 \in Nat /\ (l + 1) + k \in Nat /\ (l + 1) + k <= W /\ W \in Nat
  BY <1>1, <1>3, WordAssumption DEF l
<1>5. Pow2[l + 1] * Pow2[k] = Pow2[(l + 1) + k] /\ Pow2[(l + 1) + k] <= Pow2[W]
  BY <1>4, Pow2Sum, Pow2Monotone
<1>6. v * Pow2[k] < Pow2[l + 1] * Pow2[k]
  <2> DEFINE a == Pow2[l + 1]
             b == Pow2[k]
  <2>1. a \in Int /\ b \in Nat \ {0} /\ v + 1 <= a
    BY <1>1, <1>3, <1>4, Pow2Equations
  <2> HIDE DEF a, b
  <2>2. (v + 1) * b <= a * b /\ (v + 1) * b = v * b + b
    BY <1>1, <2>1, TimesMonotone
  <2>3. v * b < a * b
    <3>1. v * b \in Int /\ a * b \in Int
      BY <1>1, <2>1
    <3> QED BY <2>1, <2>2, <3>1
  <2> QED BY <2>3 DEF a, b
<1>7. v * Pow2[k] \in Int /\ Pow2[l + 1] * Pow2[k] \in Int /\ Pow2[W] \in Int
  BY <1>1, <1>4, Pow2Equations
<1> QED BY <1>1, <1>4, <1>5, <1>6, <1>7

\* What a plan makes is a word.
LEMMA PlanMakesWord ==
  ASSUME NEW p, NEW v, PlanOf(p, v)
  PROVE  v \in Word
<1>1. p.l \in Int /\ p.l \in Word
  BY WordsAre, Widths DEF PlanOf
<1>2. CASE p.op = "shl" /\ p.r \in Shifts(p.l)
  <2>1. p.r \in Nat /\ Pow2[p.r] \in Int
    BY <1>1, <1>2, ShiftsAre, Pow2Equations
  <2>2. p.l * Pow2[p.r] \in Int
    BY <1>1, <2>1
  <2> QED BY <1>2, <2>2, WrapSame DEF PlanOf, Factor
<1>3. CASE p.op \in {"add", "sub"} /\ p.r \in Word
  <2>1. p.r \in Int
    BY <1>3, WordsAre, Widths
  <2>2. p.l + p.r \in Int /\ p.l - p.r \in Int
    BY <1>1, <2>1
  <2>3. v = Wrap(p.l + p.r, W) \/ v = Wrap(p.l - p.r, W)
    BY <1>3 DEF PlanOf, Factor
  <2> QED BY <2>2, <2>3, WrapSame
<1> QED BY <1>2, <1>3 DEF PlanOf

\* The tables up to cost d: a factor is in one table, and its plan uses cheaper ones.
TablesUpTo(T, d) ==
  /\ DOMAIN T[0] = {0, 1} /\ \A v \in {0, 1} : T[0][v] = Plan("given", v, v)
  /\ \A i \in 1..d : \A v \in DOMAIN T[i] :
       /\ PlanOf(T[i][v], v)
       /\ \A j \in 0..(i - 1) : v \notin DOMAIN T[j]
       /\ \/ /\ T[i][v].op = "shl"
             /\ \E j \in 0..(i - 1) : T[i][v].l \in DOMAIN T[j]
          \/ /\ T[i][v].op \in {"add", "sub"}
             /\ \E j \in 0..(i - 1), k \in 0..(i - 1) :
                  j + k < i /\ T[i][v].l \in DOMAIN T[j] /\ T[i][v].r \in DOMAIN T[k]

\* All factors in the tables are words.
LEMMA TablesHoldWords ==
  ASSUME NEW T, NEW d \in Nat, TablesUpTo(T, d), NEW i \in 0..d, NEW v \in DOMAIN T[i]
  PROVE  v \in Word
<1>1. CASE i = 0
  BY <1>1, WordsAre, Widths DEF TablesUpTo
<1>2. CASE i # 0
  BY <1>2, PlanMakesWord DEF TablesUpTo
<1> QED BY <1>1, <1>2

\* The candidates of cost d are plans over cheaper factors.
LEMMA CandidatesAre ==
  ASSUME NEW d \in Nat \ {0}, NEW T, TablesUpTo(T, d - 1), NEW p \in Candidates(T, d)
  PROVE  /\ PlanOf(p, Factor(p))
         /\ \/ /\ p.op = "shl"
               /\ \E j \in 0..(d - 1) : p.l \in DOMAIN T[j]
            \/ /\ p.op \in {"add", "sub"}
               /\ \E j \in 0..(d - 1), k \in 0..(d - 1) :
                    j + k < d /\ p.l \in DOMAIN T[j] /\ p.r \in DOMAIN T[k]
<1>1. \A i \in 0..(d - 1) : \A v \in DOMAIN T[i] : v \in Word
  <2>1. d - 1 \in Nat
    OBVIOUS
  <2> QED BY <2>1, TablesHoldWords
<1>2. CASE \E j \in 0..(d - 1) : \E v \in DOMAIN T[j] : \E k \in Shifts(v) : p = Plan("shl", v, k)
  <2>1. PICK j \in 0..(d - 1) : \E v \in DOMAIN T[j] : \E k \in Shifts(v) : p = Plan("shl", v, k)
    BY <1>2
  <2>2. PICK v \in DOMAIN T[j] : \E k \in Shifts(v) : p = Plan("shl", v, k)
    BY <2>1
  <2>3. PICK k \in Shifts(v) : p = Plan("shl", v, k)
    BY <2>2
  <2>4. p.op = "shl" /\ p.l = v /\ p.r = k
    BY <2>3 DEF Plan
  <2> QED BY <1>1, <2>1, <2>2, <2>3, <2>4 DEF PlanOf
<1>3. CASE \E op \in {"add", "sub"} : \E e \in Pairs(T, d) : p = Plan(op, e[1], e[2])
  <2>1. PICK op \in {"add", "sub"} : \E e \in Pairs(T, d) : p = Plan(op, e[1], e[2])
    BY <1>3
  <2>2. PICK e \in Pairs(T, d) : p = Plan(op, e[1], e[2])
    BY <2>1
  <2>3. PICK g \in (0..(d - 1)) \X (0..(d - 1)) : g[1] + g[2] < d /\ e \in (DOMAIN T[g[1]]) \X (DOMAIN T[g[2]])
    BY <2>2 DEF Pairs
  <2>4. g[1] \in 0..(d - 1) /\ g[2] \in 0..(d - 1) /\ e[1] \in DOMAIN T[g[1]] /\ e[2] \in DOMAIN T[g[2]]
    BY <2>3
  <2>5. p.op = op /\ p.l = e[1] /\ p.r = e[2]
    BY <2>2 DEF Plan
  <2>6. e[1] \in Word /\ e[2] \in Word
    BY <1>1, <2>4
  <2> QED BY <2>1, <2>3, <2>4, <2>5, <2>6 DEF PlanOf
<1> QED BY <1>2, <1>3 DEF Candidates, Shifted

\* The loop of initialize for one cost keeps the tables what they are.
LEMMA TablesExtend ==
  ASSUME NEW d \in Nat \ {0}, NEW T, TablesUpTo(T, d - 1)
  PROVE  TablesUpTo(Extended(T, d), d)
<1> DEFINE known == UNION {DOMAIN T[i] : i \in 0..(d - 1)}
           plans == Candidates(T, d)
           fresh == [v \in {Factor(p) : p \in plans} \ known |-> CHOOSE p \in plans : Factor(p) = v]
           E == Extended(T, d)
<1>1. E = [i \in 0..d |-> IF i < d THEN T[i] ELSE fresh]
  BY DEF Extended
<1>2. ASSUME NEW v \in DOMAIN fresh PROVE fresh[v] \in plans /\ Factor(fresh[v]) = v /\ v \notin known
  <2>1. \E p \in plans : Factor(p) = v
    OBVIOUS
  <2> HIDE DEF plans
  <2> QED BY <2>1
<1>3. (\A i \in 0..(d - 1) : E[i] = T[i]) /\ E[d] = fresh
  <2> HIDE DEF fresh
  <2> QED BY <1>1
<1>4. \A v \in DOMAIN fresh : \A j \in 0..(d - 1) : v \notin DOMAIN T[j]
  <2> HIDE DEF fresh
  <2> QED BY <1>2
<1> HIDE DEF E, fresh, known
<1>5. DOMAIN E[0] = {0, 1} /\ \A v \in {0, 1} : E[0][v] = Plan("given", v, v)
  <2>1. 0 \in 0..(d - 1)
    OBVIOUS
  <2> QED BY <1>3, <2>1 DEF TablesUpTo
<1>6. ASSUME NEW i \in 1..d, NEW v \in DOMAIN E[i]
      PROVE  /\ PlanOf(E[i][v], v)
             /\ \A j \in 0..(i - 1) : v \notin DOMAIN E[j]
             /\ \/ /\ E[i][v].op = "shl"
                   /\ \E j \in 0..(i - 1) : E[i][v].l \in DOMAIN E[j]
                \/ /\ E[i][v].op \in {"add", "sub"}
                   /\ \E j \in 0..(i - 1), k \in 0..(i - 1) :
                        j + k < i /\ E[i][v].l \in DOMAIN E[j] /\ E[i][v].r \in DOMAIN E[k]
  <2>1. \A j \in 0..(i - 1) : E[j] = T[j]
    BY <1>3
  <2>2. CASE i < d
    <3>1. i \in 0..(d - 1) /\ i \in 1..(d - 1) /\ E[i] = T[i]
      BY <1>3, <2>2
    <3> QED BY <2>1, <3>1 DEF TablesUpTo
  <2>3. CASE i = d
    <3>1. v \in DOMAIN fresh /\ E[i][v] = fresh[v]
      BY <1>3, <2>3
    <3>2. fresh[v] \in Candidates(T, d) /\ Factor(fresh[v]) = v
      BY <1>2, <3>1
    <3>3. PlanOf(E[i][v], v)
      BY <3>1, <3>2, CandidatesAre
    <3>4. \/ /\ fresh[v].op = "shl"
             /\ \E j \in 0..(i - 1) : fresh[v].l \in DOMAIN T[j]
          \/ /\ fresh[v].op \in {"add", "sub"}
             /\ \E j \in 0..(i - 1), k \in 0..(i - 1) :
                  j + k < i /\ fresh[v].l \in DOMAIN T[j] /\ fresh[v].r \in DOMAIN T[k]
      BY <2>3, <3>2, CandidatesAre
    <3>5. \A j \in 0..(i - 1) : v \notin DOMAIN E[j]
      BY <1>4, <2>1, <2>3, <3>1
    <3> QED BY <2>1, <3>1, <3>3, <3>4, <3>5
  <2> QED BY <2>2, <2>3
<1>7. TablesUpTo(E, d)
  BY <1>5, <1>6 DEF TablesUpTo
<1> QED BY <1>7 DEF E

\* The recursive function of the tables has values: there are four.
LEMMA LevelsAre ==
  /\ Levels[0] = [i \in {0} |-> [v \in {0, 1} |-> Plan("given", v, v)]]
  /\ \A d \in 1..MulCost : Levels[d] = Extended(Levels[d - 1], d)
<1> DEFINE L0 == [i \in {0} |-> [v \in {0, 1} |-> Plan("given", v, v)]]
           L1 == Extended(L0, 1)
           L2 == Extended(L1, 2)
           L3 == Extended(L2, 3)
           f == [d \in 0..MulCost |-> IF d = 0 THEN L0 ELSE IF d = 1 THEN L1 ELSE IF d = 2 THEN L2 ELSE L3]
           Equation(g) == g = [d \in 0..MulCost |-> IF d = 0 THEN L0 ELSE Extended(g[d - 1], d)]
<1>1. Levels = CHOOSE g : Equation(g)
  BY DEF Levels
<1> HIDE DEF L0
<1>2. f[0] = L0 /\ f[1] = L1 /\ f[2] = L2 /\ f[3] = L3
  <2> HIDE DEF L1, L2, L3
  <2> QED BY DEF MulCost
<1>3. ASSUME NEW d \in 0..MulCost
      PROVE  f[d] = IF d = 0 THEN L0 ELSE Extended(f[d - 1], d)
  <2>1. d \in {0, 1, 2, 3}
    BY DEF MulCost
  <2> HIDE DEF f
  <2>2. CASE d = 0
    BY <1>2, <2>2
  <2>3. CASE d = 1
    BY <1>2, <2>3
  <2>4. CASE d = 2
    BY <1>2, <2>4
  <2>5. CASE d = 3
    BY <1>2, <2>5
  <2> QED BY <2>1, <2>2, <2>3, <2>4, <2>5
<1>4. Equation(f)
  <2>1. f = [d \in 0..MulCost |-> f[d]]
    OBVIOUS
  <2> HIDE DEF f
  <2> QED BY <1>3, <2>1
<1> HIDE DEF Equation, f
<1>5. Equation(Levels)
  BY <1>1, <1>4
<1>6. \A d \in 0..MulCost : Levels[d] = IF d = 0 THEN L0 ELSE Extended(Levels[d - 1], d)
  BY <1>5 DEF Equation
<1>7. 0 \in 0..MulCost /\ \A d \in 1..MulCost : d \in 0..MulCost /\ d # 0
  BY DEF MulCost
<1>8. Levels[0] = L0 /\ \A d \in 1..MulCost : Levels[d] = Extended(Levels[d - 1], d)
  BY <1>6, <1>7
<1> QED BY <1>8 DEF L0

\* So are the tables up to MUL_COST.
LEMMA LevelsAreTables ==
  TablesUpTo(Levels[MulCost], MulCost)
<1> DEFINE S == {d \in 0..MulCost : TablesUpTo(Levels[d], d)}
<1>1. 0 \in S
  <2>1. 0 \in 0..MulCost /\ \A i \in 1..0 : FALSE
    BY DEF MulCost
  <2> QED BY <2>1, LevelsAre DEF TablesUpTo
<1>2. ASSUME NEW d \in 0..(MulCost - 1), d \in S PROVE d + 1 \in S
  <2>1. d + 1 \in Nat \ {0} /\ (d + 1) - 1 = d /\ d + 1 \in 1..MulCost /\ d + 1 \in 0..MulCost
    BY DEF MulCost
  <2>2. TablesUpTo(Levels[d], (d + 1) - 1)
    BY <1>2, <2>1
  <2>3. TablesUpTo(Extended(Levels[d], d + 1), d + 1)
    BY <2>1, <2>2, TablesExtend
  <2>4. Levels[d + 1] = Extended(Levels[d], d + 1)
    BY <2>1, LevelsAre
  <2> QED BY <2>1, <2>3, <2>4
<1>3. MulCost \in Nat
  BY DEF MulCost
<1> HIDE DEF S
<1>4. \A d \in 0..MulCost : d \in S
  BY <1>1, <1>2, <1>3, NumbersUpTo
<1>5. MulCost \in S
  BY <1>3, <1>4
<1> QED BY <1>5 DEF S

\* A factor with a plan has one cost, 0 if it needs no code; otherwise the plan makes it of
\* factors that cost less, two of them less together.
LEMMA PlansAre ==
  ASSUME NEW v \in DOMAIN OperandMap
  PROVE  /\ Cost(v) \in 0..MulCost /\ v \in Word
         /\ Cost(v) = 0 <=> v \in {0, 1}
         /\ v \in {0, 1} => OperandMap[v] = Plan("given", v, v)
         /\ v \notin {0, 1} =>
              /\ PlanOf(OperandMap[v], v)
              /\ OperandMap[v].l \in DOMAIN OperandMap
              /\ \/ OperandMap[v].op = "shl" /\ Cost(OperandMap[v].l) < Cost(v)
                 \/ /\ OperandMap[v].op \in {"add", "sub"}
                    /\ OperandMap[v].r \in DOMAIN OperandMap
                    /\ Cost(OperandMap[v].l) + Cost(OperandMap[v].r) < Cost(v)
<1> DEFINE T == Levels[MulCost]
           p == OperandMap[v]
           c == Cost(v)
<1>1. TablesUpTo(T, MulCost) /\ MulCost \in Nat
  BY LevelsAreTables DEF MulCost
<1>2. OperandMap = [w \in UNION {DOMAIN T[d] : d \in 0..MulCost} |-> T[Cost(w)][w]]
  BY DEF OperandMap
<1>3. \A w : Cost(w) = CHOOSE d \in 0..MulCost : w \in DOMAIN T[d]
  BY DEF Cost
<1> HIDE DEF T
<1>4. \A w : w \in DOMAIN OperandMap <=> \E d \in 0..MulCost : w \in DOMAIN T[d]
  BY <1>2
<1>5. \A w \in DOMAIN OperandMap : Cost(w) \in 0..MulCost /\ w \in DOMAIN T[Cost(w)] /\ OperandMap[w] = T[Cost(w)][w]
  BY <1>2, <1>3, <1>4
<1>6. ASSUME NEW w, NEW i \in 0..MulCost, NEW j \in 0..MulCost, w \in DOMAIN T[i], w \in DOMAIN T[j]
      PROVE  i = j
  <2>1. CASE i < j
    <3>1. j \in 1..MulCost /\ i \in 0..(j - 1)
      BY <1>1, <2>1
    <3> QED BY <1>1, <1>6, <3>1 DEF TablesUpTo
  <2>2. CASE j < i
    <3>1. i \in 1..MulCost /\ j \in 0..(i - 1)
      BY <1>1, <2>2
    <3> QED BY <1>1, <1>6, <3>1 DEF TablesUpTo
  <2> QED BY <2>1, <2>2
<1>7. \A w, d : d \in 0..MulCost /\ w \in DOMAIN T[d] => w \in DOMAIN OperandMap /\ Cost(w) = d
  BY <1>4, <1>5, <1>6
<1>8. c \in 0..MulCost /\ v \in DOMAIN T[c] /\ p = T[c][v]
  BY <1>5
<1>9. v \in Word
  BY <1>1, <1>8, TablesHoldWords
<1>10. 0 \in 0..MulCost /\ DOMAIN T[0] = {0, 1} /\ \A w \in {0, 1} : T[0][w] = Plan("given", w, w)
  BY <1>1 DEF TablesUpTo
<1>11. (c = 0 <=> v \in {0, 1}) /\ (v \in {0, 1} => p = Plan("given", v, v))
  BY <1>7, <1>8, <1>10
<1> HIDE DEF p, c
<1>12. ASSUME v \notin {0, 1}
       PROVE  /\ PlanOf(p, v)
              /\ p.l \in DOMAIN OperandMap
              /\ \/ p.op = "shl" /\ Cost(p.l) < c
                 \/ /\ p.op \in {"add", "sub"}
                    /\ p.r \in DOMAIN OperandMap
                    /\ Cost(p.l) + Cost(p.r) < c
  <2>1. c \in 1..MulCost
    BY <1>8, <1>11, <1>12
  <2>2. /\ PlanOf(p, v)
        /\ \/ /\ p.op = "shl"
              /\ \E j \in 0..(c - 1) : p.l \in DOMAIN T[j]
           \/ /\ p.op \in {"add", "sub"}
              /\ \E j \in 0..(c - 1), k \in 0..(c - 1) :
                   j + k < c /\ p.l \in DOMAIN T[j] /\ p.r \in DOMAIN T[k]
    BY <1>1, <1>8, <2>1 DEF TablesUpTo
  <2>3. CASE p.op = "shl" /\ \E j \in 0..(c - 1) : p.l \in DOMAIN T[j]
    <3>1. PICK j \in 0..(c - 1) : p.l \in DOMAIN T[j]
      BY <2>3
    <3>2. j \in 0..MulCost /\ j < c
      BY <1>1, <2>1
    <3>3. p.l \in DOMAIN OperandMap /\ Cost(p.l) = j
      BY <1>7, <3>1, <3>2
    <3> QED BY <2>2, <2>3, <3>2, <3>3
  <2>4. CASE p.op \in {"add", "sub"} /\ \E j \in 0..(c - 1), k \in 0..(c - 1) :
                   j + k < c /\ p.l \in DOMAIN T[j] /\ p.r \in DOMAIN T[k]
    <3>1. PICK j \in 0..(c - 1), k \in 0..(c - 1) : j + k < c /\ p.l \in DOMAIN T[j] /\ p.r \in DOMAIN T[k]
      BY <2>4
    <3>2. j \in 0..MulCost /\ k \in 0..MulCost
      BY <1>1, <2>1
    <3>3. p.l \in DOMAIN OperandMap /\ Cost(p.l) = j /\ p.r \in DOMAIN OperandMap /\ Cost(p.r) = k
      BY <1>7, <3>1, <3>2
    <3> QED BY <2>2, <2>4, <3>1, <3>3
  <2> QED BY <2>2, <2>3, <2>4
<1> QED BY <1>8, <1>9, <1>11, <1>12 DEF p, c

\* One step of readPlanRec, from the codes f of the other factors.
Codes(f, v) ==
  [n \in Nat |->
    LET p == OperandMap[v]
        left == IF p.l \in {0, 1} THEN <<>> ELSE f[p.l][n]
        right == IF p.op = "shl" \/ p.r \in {0, 1} THEN <<>> ELSE f[p.r][n + Len(left)]
    IN  PlanCode(p, left, right, n)]

\* It asks for the codes of cheaper factors only.
LEMMA CodesOfCheaper ==
  ASSUME NEW v \in DOMAIN OperandMap, NEW f, NEW g,
         \A w \in DOMAIN OperandMap : Cost(w) < Cost(v) => f[w] = g[w]
  PROVE  Codes(f, v) = Codes(g, v)
<1> DEFINE p == OperandMap[v]
<1>1. CASE v \in {0, 1}
  <2>1. p.l \in {0, 1} /\ p.r \in {0, 1}
    BY <1>1, PlansAre DEF Plan
  <2> HIDE DEF p
  <2>2. \A n \in Nat : Codes(f, v)[n] = Codes(g, v)[n]
    BY <2>1 DEF Codes, p
  <2> QED BY <2>1 DEF Codes, p
<1>2. CASE v \notin {0, 1}
  <2>1. /\ p.l \in DOMAIN OperandMap
        /\ \/ p.op = "shl" /\ Cost(p.l) < Cost(v)
           \/ /\ p.op \in {"add", "sub"}
              /\ p.r \in DOMAIN OperandMap
              /\ Cost(p.l) + Cost(p.r) < Cost(v)
    BY <1>2, PlansAre
  <2> HIDE DEF p
  <2>2. f[p.l] = g[p.l]
    <3>1. Cost(p.l) < Cost(v)
      <4>1. Cost(p.l) \in Nat /\ Cost(v) \in Nat /\ (p.r \in DOMAIN OperandMap => Cost(p.r) \in Nat)
        BY <2>1, PlansAre DEF MulCost
      <4> QED BY <2>1, <4>1
    <3> QED BY <2>1, <3>1
  <2>3. p.op # "shl" => f[p.r] = g[p.r]
    <3>1. p.op # "shl" => p.r \in DOMAIN OperandMap /\ Cost(p.r) < Cost(v)
      <4>1. Cost(p.l) \in Nat /\ Cost(v) \in Nat /\ (p.r \in DOMAIN OperandMap => Cost(p.r) \in Nat)
        BY <2>1, PlansAre DEF MulCost
      <4> QED BY <2>1, <4>1
    <3> QED BY <3>1
  <2> QED BY <2>2, <2>3 DEF Codes, p
<1> QED BY <1>1, <1>2

\* The recursion of readPlanRec has values, since plans are at most MUL_COST deep.
LEMMA ReadPlanIs ==
  \A v \in DOMAIN OperandMap : ReadPlan[v] = Codes(ReadPlan, v)
<1> DEFINE D == DOMAIN OperandMap
           Deeper(f) == [v \in D |-> Codes(f, v)]
           f0 == [v \in D |-> <<>>]
           f1 == Deeper(f0)
           f2 == Deeper(f1)
           f3 == Deeper(f2)
           f4 == Deeper(f3)
           f5 == Deeper(f4)
           Equation(g) == g = [v \in D |-> Codes(g, v)]
<1>1. ReadPlan = CHOOSE g : Equation(g)
  BY DEF ReadPlan, Codes
<1>2. ASSUME NEW k \in Nat, NEW f, NEW g, \A w \in D : Cost(w) < k => f[w] = g[w]
      PROVE  \A w \in D : Cost(w) < k + 1 => Deeper(f)[w] = Deeper(g)[w]
  <2>1. SUFFICES ASSUME NEW w \in D, Cost(w) < k + 1 PROVE Codes(f, w) = Codes(g, w)
    OBVIOUS
  <2>2. Cost(w) \in Nat /\ \A u \in D : Cost(u) \in Nat
    BY PlansAre DEF MulCost
  <2>3. \A u \in D : Cost(u) < Cost(w) => f[u] = g[u]
    BY <1>2, <2>1, <2>2
  <2> QED BY <2>3, CodesOfCheaper
<1>3. \A w \in D : Cost(w) \in Nat /\ Cost(w) < 4
  BY PlansAre DEF MulCost
<1> HIDE DEF D, Deeper
<1>4. \A w \in D : Cost(w) < 0 => f0[w] = f1[w]
  BY <1>3
<1>5. \A w \in D : Cost(w) < 0 + 1 => f1[w] = f2[w]
  <2> HIDE DEF f0
  <2> QED BY <1>2, <1>4
<1>6. \A w \in D : Cost(w) < 1 + 1 => f2[w] = f3[w]
  <2> HIDE DEF f1
  <2> QED BY <1>2, <1>5
<1>7. \A w \in D : Cost(w) < 2 + 1 => f3[w] = f4[w]
  <2> HIDE DEF f2
  <2> QED BY <1>2, <1>6
<1>8. \A w \in D : Cost(w) < 3 + 1 => f4[w] = f5[w]
  <2> HIDE DEF f3
  <2> QED BY <1>2, <1>7
<1>9. \A w \in D : f4[w] = f5[w]
  BY <1>3, <1>8
<1>10. Equation(f4)
  <2> HIDE DEF f3
  <2>1. f4 = [w \in D |-> f4[w]]
    BY DEF Deeper
  <2> HIDE DEF f4
  <2>2. \A w \in D : f5[w] = Codes(f4, w)
    BY DEF Deeper
  <2> HIDE DEF f5
  <2> QED BY <1>9, <2>1, <2>2
<1> HIDE DEF Equation, f4
<1>11. Equation(ReadPlan)
  BY <1>1, <1>10
<1> QED BY <1>11 DEF Equation, D

-----------------------------------------------------------------------------
(* The code of a plan. *)

\* The code s takes the factors from g to some where its last register holds v, and only
\* registers of U change.
Makes(s, v, U, g) ==
  \E h \in Factors : /\ Computes(s, g, h) /\ h[ResultOf(s)] = v
                     /\ \A x \in Registers \ U : h[x] = g[x]

\* Two instructions joined.
LEMMA TwoInstructions ==
  ASSUME NEW a, NEW b
  PROVE  <<a>> \o <<b>> = <<a, b>>
<1> DEFINE s == <<a>> \o <<b>>
           t == <<a, b>>
<1>1. s \in Seq({a, b}) /\ Len(s) = 2 /\ s[1] = a /\ s[2] = b
  OBVIOUS
<1>2. t \in Seq({a, b}) /\ Len(t) = 2 /\ t[1] = a /\ t[2] = b
  OBVIOUS
<1> HIDE DEF s, t
<1>3. \A i \in 1..2 : i = 1 \/ i = 2
  OBVIOUS
<1>4. \A i \in 1..Len(s) : s[i] = t[i]
  BY <1>1, <1>2, <1>3
<1>5. s = t
  BY <1>1, <1>2, <1>4
<1> QED BY <1>5 DEF s, t

\* One action: the parts are in l and r, if they are not 0.
LEMMA ActionMakes ==
  ASSUME NEW p, NEW v, PlanOf(p, v), NEW g \in Factors,
         NEW l \in Registers \ {"tmp"}, NEW r \in Registers \ {"tmp"}, NEW to \in Registers \ {"src"},
         p.l # 0 => g[l] = p.l, p.op # "shl" /\ p.r # 0 => g[r] = p.r
  PROVE  /\ ActionCode(p, l, r, to) \in Seq(Instructions)
         /\ Len(ActionCode(p, l, r, to)) \in {1, 2} /\ ResultOf(ActionCode(p, l, r, to)) = to
         /\ Makes(ActionCode(p, l, r, to), v, {"tmp", to}, g)
<1> DEFINE s == ActionCode(p, l, r, to)
<1>1. "tmp" \in Registers
  BY DEF Registers
<1>2. ASSUME NEW in \in Instructions, in.to = to, s = <<in>>, Multiplies(in, g), FactorOf(in, g) = v
      PROVE  s \in Seq(Instructions) /\ Len(s) \in {1, 2} /\ ResultOf(s) = to /\ Makes(s, v, {"tmp", to}, g)
  <2> DEFINE h == [g EXCEPT ![in.to] = FactorOf(in, g)]
  <2>1. h \in Factors
    BY <1>2, CarriesFactors
  <2>2. Carries(in, g, h)
    BY <1>2 DEF Carries
  <2>3. h[to] = v /\ \A x \in Registers \ {"tmp", to} : h[x] = g[x]
    BY <1>2 DEF Factors
  <2> HIDE DEF h, s
  <2>4. Computes(<<in>>, g, h)
    BY <2>2, ComputesOne
  <2>5. ResultOf(<<in>>) = to
    BY <1>2 DEF ResultOf
  <2>6. Makes(s, v, {"tmp", to}, g)
    BY <1>2, <2>1, <2>3, <2>4, <2>5 DEF Makes
  <2> QED BY <1>2, <2>5, <2>6
<1>3. p.l \in Int /\ p.l \in Word /\ \A x \in Word : x \in Int /\ Wrap(x, W) = x
  <2>1. \A x \in Word : x \in Int /\ -Half <= x /\ x < Half
    BY WordsAre, Widths
  <2> QED BY <2>1, WrapKeeps DEF PlanOf
<1>4. CASE p.op = "shl" /\ p.r \in Shifts(p.l)
  <2> DEFINE in == Instr("shift_left", l, p.r, to)
  <2>1. p.l \in Nat \ {0} /\ p.r \in Nat /\ p.l * Pow2[p.r] < Pow2[W]
    BY <1>3, <1>4, ShiftsAre
  <2>2. s = <<in>>
    BY <1>4 DEF ActionCode
  <2>3. in \in Instructions /\ in.to = to /\ in.op = "shift_left" /\ in.a = l /\ in.b = p.r
    <3>1. p.r \in Int
      BY <2>1
    <3>2. in = [op |-> "shift_left", a |-> l, b |-> p.r, to |-> to] /\ in \in Instructions
      BY <3>1 DEF Instr, Instructions
    <3> HIDE DEF in
    <3> QED BY <3>2
  <2>4. v = Wrap(p.l * Pow2[p.r], W)
    BY <1>4 DEF PlanOf, Factor
  <2> HIDE DEF in, s
  <2>5. Multiplies(in, g) /\ FactorOf(in, g) = v
    BY <2>1, <2>3, <2>4 DEF Multiplies, FactorOf
  <2>6. s \in Seq(Instructions) /\ Len(s) \in {1, 2} /\ ResultOf(s) = to /\ Makes(s, v, {"tmp", to}, g)
    BY <1>2, <2>2, <2>3, <2>5
  <2> QED BY <2>6 DEF s
<1>5. CASE p.op \in {"add", "sub"} /\ p.r \in Word
  <2>1. p.r \in Int /\ p.op # "shl"
    BY <1>3, <1>5
  <2>2. v = IF p.op = "add" THEN Wrap(p.l + p.r, W) ELSE Wrap(p.l - p.r, W)
    BY <1>5 DEF PlanOf, Factor
  <2>3. CASE p.l # 0 /\ p.r # 0
    <3> DEFINE in == Instr(p.op, l, r, to)
    <3>1. s = <<in>>
      BY <2>1, <2>3 DEF ActionCode
    <3>2. in \in Instructions /\ in.to = to /\ in.op = p.op /\ in.a = l /\ in.b = r
      BY <1>1, <1>5 DEF Instr, Instructions
    <3> HIDE DEF in, s
    <3>3. Multiplies(in, g)
      BY <1>5, <3>2 DEF Multiplies
    <3>4. FactorOf(in, g) = v
      <4>1. g[l] = p.l /\ g[r] = p.r
        BY <2>1, <2>3
      <4> QED BY <1>5, <2>2, <3>2, <4>1 DEF FactorOf
    <3>5. s \in Seq(Instructions) /\ Len(s) \in {1, 2} /\ ResultOf(s) = to /\ Makes(s, v, {"tmp", to}, g)
      BY <1>2, <3>1, <3>2, <3>3, <3>4
    <3> QED BY <3>5 DEF s
  <2>4. CASE p.l = 0 /\ p.r = 0
    <3> DEFINE in == Instr("load_imm", 0, 0, to)
    <3>1. s = <<in>>
      BY <2>1, <2>4 DEF ActionCode
    <3>2. in \in Instructions /\ in.to = to /\ in.op = "load_imm" /\ in.a = 0
      BY <1>1 DEF Instr, Instructions
    <3>3. v = 0
      BY <1>3, <2>2, <2>4
    <3> HIDE DEF in, s
    <3>4. Multiplies(in, g) /\ FactorOf(in, g) = v
      BY <3>2, <3>3 DEF Multiplies, FactorOf
    <3>5. s \in Seq(Instructions) /\ Len(s) \in {1, 2} /\ ResultOf(s) = to /\ Makes(s, v, {"tmp", to}, g)
      BY <1>2, <3>1, <3>2, <3>4
    <3> QED BY <3>5 DEF s
  <2>5. CASE p.op = "sub" /\ p.l = 0 /\ p.r # 0
    <3> DEFINE zero == Instr("load_imm", 0, 0, "tmp")
               sub == Instr("sub", "tmp", r, to)
               h == [g EXCEPT ![zero.to] = FactorOf(zero, g)]
               k == [h EXCEPT ![sub.to] = FactorOf(sub, h)]
    <3>1. s = <<zero, sub>>
      BY <2>1, <2>5 DEF ActionCode
    <3>2. /\ zero \in Instructions /\ zero.to = "tmp" /\ zero.op = "load_imm" /\ zero.a = 0
          /\ sub \in Instructions /\ sub.to = to /\ sub.op = "sub" /\ sub.a = "tmp" /\ sub.b = r
      <4>1. "tmp" \in Registers \ {"src"}
        BY DEF Registers
      <4>2. zero = [op |-> "load_imm", a |-> 0, b |-> 0, to |-> "tmp"] /\ zero \in Instructions
        BY <4>1 DEF Instr, Instructions
      <4>3. sub = [op |-> "sub", a |-> "tmp", b |-> r, to |-> to] /\ sub \in Instructions
        BY <4>1 DEF Instr, Instructions
      <4> HIDE DEF zero, sub
      <4> QED BY <4>2, <4>3
    <3> HIDE DEF zero, sub, s
    <3>3. Multiplies(zero, g) /\ FactorOf(zero, g) = 0
      BY <3>2 DEF Multiplies, FactorOf
    <3>4. h \in Factors /\ Carries(zero, g, h) /\ h = [g EXCEPT !["tmp"] = 0]
      BY <3>2, <3>3, CarriesFactors DEF Carries
    <3> HIDE DEF h
    <3>5. h["tmp"] = 0 /\ h[r] = p.r /\ \A x \in Registers \ {"tmp"} : h[x] = g[x]
      BY <1>1, <2>1, <2>5, <3>4 DEF Factors
    <3>6. Multiplies(sub, h) /\ FactorOf(sub, h) = v
      <4>1. 0 - p.r = p.l - p.r
        BY <2>1, <2>5
      <4> QED BY <1>1, <2>2, <2>5, <3>2, <3>5, <4>1 DEF Multiplies, FactorOf
    <3>7. k \in Factors /\ Carries(sub, h, k) /\ k = [h EXCEPT ![to] = v]
      BY <3>2, <3>4, <3>6, CarriesFactors DEF Carries
    <3> HIDE DEF k
    <3>8. k[to] = v /\ \A x \in Registers \ {"tmp", to} : k[x] = g[x]
      BY <3>4, <3>5, <3>7 DEF Factors
    <3>9. Computes(<<zero>>, g, h) /\ Computes(<<sub>>, h, k)
      BY <3>2, <3>4, <3>7, ComputesOne
    <3>10. Computes(<<zero>> \o <<sub>>, g, k)
      BY <3>9, ComputesBoth
    <3>11. s = <<zero>> \o <<sub>> /\ Len(s) = 2 /\ s[2] = sub /\ s # <<>>
      <4>1. <<zero>> \o <<sub>> = <<zero, sub>>
        BY TwoInstructions
      <4>2. Len(<<zero, sub>>) = 2 /\ <<zero, sub>>[2] = sub /\ <<zero, sub>> # <<>>
        OBVIOUS
      <4> QED BY <3>1, <4>1, <4>2
    <3>12. ResultOf(s) = to
      BY <3>2, <3>11 DEF ResultOf
    <3>13. Makes(s, v, {"tmp", to}, g) /\ s \in Seq(Instructions)
      <4>1. Computes(s, g, k)
        BY <3>10, <3>11
      <4>2. Makes(s, v, {"tmp", to}, g)
        BY <3>7, <3>8, <3>12, <4>1 DEF Makes
      <4> QED BY <4>1, <4>2 DEF Computes
    <3> QED BY <3>11, <3>12, <3>13 DEF s
  <2>6. CASE (p.op = "add" /\ p.l = 0 /\ p.r # 0) \/ (p.l # 0 /\ p.r = 0)
    <3> DEFINE a == IF p.l = 0 THEN r ELSE l
               in == Instr("add_imm", a, 0, to)
    <3>1. s = <<in>>
      BY <2>1, <2>6 DEF ActionCode
    <3>2. in \in Instructions /\ in.to = to /\ in.op = "add_imm" /\ in.a = a /\ in.b = 0
      BY <1>1 DEF Instr, Instructions
    <3>3. g[a] = v
      <4>1. CASE p.op = "add" /\ p.l = 0 /\ p.r # 0
        <5>1. g[a] = p.r /\ p.l + p.r = p.r
          BY <2>1, <4>1
        <5> QED BY <1>3, <1>5, <2>2, <4>1, <5>1
      <4>2. CASE p.l # 0 /\ p.r = 0
        <5>1. g[a] = p.l /\ p.l + p.r = p.l /\ p.l - p.r = p.l
          BY <1>3, <4>2
        <5> QED BY <1>3, <2>2, <4>2, <5>1
      <4> QED BY <2>6, <4>1, <4>2
    <3>4. a \in Registers
      OBVIOUS
    <3> HIDE DEF in, s, a
    <3>5. Multiplies(in, g) /\ FactorOf(in, g) = v
      BY <3>2, <3>3, <3>4 DEF Multiplies, FactorOf
    <3>6. s \in Seq(Instructions) /\ Len(s) \in {1, 2} /\ ResultOf(s) = to /\ Makes(s, v, {"tmp", to}, g)
      BY <1>2, <3>1, <3>2, <3>5
    <3> QED BY <3>6 DEF s
  <2> QED BY <1>5, <2>3, <2>4, <2>5, <2>6
<1> QED BY <1>4, <1>5 DEF PlanOf

\* The mulAssists are different registers, none of them src, ans or the zero.
LEMMA AssistIs ==
  /\ \A i \in 1..5 : Assist[i] \in Registers \ {"src", "tmp", "ans"}
  /\ \A i, j \in 1..5 : Assist[i] = Assist[j] => i = j
<1>1. /\ Assist[1] = "op1" /\ Assist[2] = "op2" /\ Assist[3] = "op3"
      /\ Assist[4] = "op4" /\ Assist[5] = "op5"
  BY DEF Assist
<1>2. \A i \in 1..5 : i = 1 \/ i = 2 \/ i = 3 \/ i = 4 \/ i = 5
  OBVIOUS
<1>3. \A i \in 1..5 : Assist[i] \in Registers \ {"src", "tmp", "ans"}
  BY <1>1, <1>2 DEF Registers
<1>4. ASSUME NEW i \in 1..5, NEW j \in 1..5, Assist[i] = Assist[j] PROVE i = j
  <2>1. i \in {1, 2, 3, 4, 5} /\ j \in {1, 2, 3, 4, 5}
    OBVIOUS
  <2> QED BY <1>1, <1>4, <2>1
<1> QED BY <1>3, <1>4

\* The registers of k instructions from the n-th mulAssist on.
Used(n, k) == {"tmp"} \cup {Assist[i] : i \in {j \in 1..5 : n <= j /\ j < n + k}}

\* What a stretch of mulAssists has and has not, and that shorter stretches are part of it.
LEMMA UsedIs ==
  ASSUME NEW n \in Nat, NEW k \in Nat
  PROVE  /\ "src" \notin Used(n, k) /\ "ans" \notin Used(n, k) /\ "tmp" \in Used(n, k)
         /\ \A m \in 1..5 : Assist[m] \in Used(n, k) <=> n <= m /\ m < n + k
         /\ \A i \in Nat, j \in Nat : n <= i /\ i + j <= n + k => Used(i, j) \subseteq Used(n, k)
<1> USE DEF Used
<1>1. \A m \in 1..5 : Assist[m] # "src" /\ Assist[m] # "ans" /\ Assist[m] # "tmp"
  BY AssistIs
<1>2. "src" \notin Used(n, k) /\ "ans" \notin Used(n, k) /\ "tmp" \in Used(n, k)
  BY <1>1
<1>3. ASSUME NEW m \in 1..5
      PROVE  Assist[m] \in Used(n, k) <=> n <= m /\ m < n + k
  BY <1>1, AssistIs
<1>4. ASSUME NEW i \in Nat, NEW j \in Nat, n <= i, i + j <= n + k
      PROVE  Used(i, j) \subseteq Used(n, k)
  <2>1. ASSUME NEW m \in 1..5, i <= m /\ m < i + j
        PROVE  n <= m /\ m < n + k
    BY <1>4, <2>1
  <2> QED BY <2>1
<1> QED BY <1>2, <1>3, <1>4

\* The code t of the product of src by v: how long it is, where it leaves the product and
\* which registers it needs.
Part(v, t, n) ==
  /\ t \in Seq(Instructions) /\ Len(t) <= 2 * Cost(v) /\ (v \notin {0, 1} => t # <<>>)
  /\ \/ ResultOf(t) = "src"
     \/ \E m \in 1..5 : n <= m /\ m < n + Len(t) /\ ResultOf(t) = Assist[m]
  /\ \A g \in Factors : g["src"] = 1 =>
       \E h \in Factors : /\ Computes(t, g, h)
                          /\ v # 0 => h[ResultOf(t)] = v
                          /\ \A x \in Registers \ Used(n, Len(t)) : h[x] = g[x]

\* The code of a part: src and nothing need none.
CodeOf(v, n) == IF v \in {0, 1} THEN <<>> ELSE ReadPlan[v][n]

\* src and nothing need no code.
LEMMA PartOfNothing ==
  ASSUME NEW v \in {0, 1}, v \in DOMAIN OperandMap, NEW n \in Nat
  PROVE  Part(v, <<>>, n)
<1>1. /\ <<>> \in Seq(Instructions) /\ Len(<<>>) = 0 /\ Len(<<>>) <= 2 * Cost(v)
      /\ ResultOf(<<>>) = "src"
  <2>1. Cost(v) = 0
    BY PlansAre
  <2>2. <<>> \in Seq(Instructions) /\ Len(<<>>) = 0
    OBVIOUS
  <2> QED BY <2>1, <2>2 DEF ResultOf
<1>2. \A g \in Factors : Computes(<<>>, g, g)
  BY ComputesNothing
<1> QED BY <1>1, <1>2 DEF Part

\* Nothing is a factor with a plan.
LEMMA NothingHasPlan ==
  0 \in DOMAIN OperandMap /\ Cost(0) = 0
<1> DEFINE T == Levels[MulCost]
<1>1. DOMAIN T[0] = {0, 1} /\ 0 \in 0..MulCost
  BY LevelsAreTables DEF TablesUpTo, MulCost
<1>2. OperandMap = [w \in UNION {DOMAIN T[d] : d \in 0..MulCost} |-> T[Cost(w)][w]]
  BY DEF OperandMap
<1> HIDE DEF T
<1>3. 0 \in DOMAIN OperandMap
  BY <1>1, <1>2
<1> QED BY <1>3, PlansAre

\* What an action has is an instruction or two.
LEMMA NotEmpty ==
  \A s : Len(s) \in {1, 2} => s # <<>> /\ Len(s) \in Nat \ {0} /\ Len(s) \in 1..2
<1>1. Len(<<>>) = 0
  OBVIOUS
<1>2. \A x : x \in {1, 2} => x \in Nat \ {0} /\ x \in 1..2
  OBVIOUS
<1>3. ASSUME NEW s, Len(s) \in {1, 2} PROVE s # <<>>
  BY <1>1, <1>3
<1> QED BY <1>2, <1>3

\* Two parts and an action of at most two instructions find five mulAssists enough.
LEMMA PartsFit ==
  ASSUME NEW n \in Nat \ {0}, NEW a \in Nat, NEW b \in Nat, NEW x \in Nat, NEW y \in Nat, NEW z \in Nat,
         a <= 2 * x, b <= 2 * y, x + y < z, n + 2 * z <= 7
  PROVE  /\ n + a + b \in 1..5 /\ a + b + 2 <= 2 * z
         /\ \A o \in 1..2 : a + b + o <= 2 * z /\ n <= n + a + b /\ n + a + b < n + (a + b + o)
OBVIOUS

\* The first part and the second lie before the end of the action.
LEMMA PartsBefore ==
  ASSUME NEW n \in Nat, NEW a \in Nat, NEW b \in Nat, NEW o \in Nat
  PROVE  n <= n /\ n + a <= n + (a + b + o) /\ n <= n + a /\ (n + a) + b <= n + (a + b + o)
OBVIOUS

\* What is left of the registers and of the cost for the second part.
LEMMA RestFits ==
  ASSUME NEW c \in Nat, NEW n \in Nat \ {0}, NEW k \in Nat, NEW x \in Nat, NEW y \in Nat, NEW z \in Nat,
         x + y < z, z <= c + 1, n + 2 * z <= 7, k <= 2 * x
  PROVE  y <= c /\ (n + k) + 2 * y <= 7 /\ n + k \in Nat \ {0}
OBVIOUS

\* The code of a part, then another one, then an action.
LEMMA PartOfAction ==
  ASSUME NEW p, NEW v, PlanOf(p, v), v \in DOMAIN OperandMap, NEW l, NEW r, NEW n \in Nat \ {0}, NEW left, NEW right,
         l \in DOMAIN OperandMap, r \in DOMAIN OperandMap,
         Part(l, left, n), Part(r, right, n + Len(left)),
         l = p.l, p.op # "shl" => r = p.r,
         Cost(l) + Cost(r) < Cost(v), n + 2 * Cost(v) <= 7
  PROVE  Part(v, PlanCode(p, left, right, n), n)
<1> DEFINE m == n + Len(left) + Len(right)
           to == Assist[m]
           a == ResultOf(left)
           b == ResultOf(right)
           own == ActionCode(p, a, b, to)
           s == PlanCode(p, left, right, n)
<1>1. /\ Cost(l) \in Nat /\ Cost(r) \in Nat /\ Cost(v) \in Nat
      /\ left \in Seq(Instructions) /\ right \in Seq(Instructions)
      /\ Len(left) \in Nat /\ Len(right) \in Nat
      /\ Len(left) <= 2 * Cost(l) /\ Len(right) <= 2 * Cost(r)
  <2>1. /\ left \in Seq(Instructions) /\ right \in Seq(Instructions)
        /\ Len(left) <= 2 * Cost(l) /\ Len(right) <= 2 * Cost(r)
    BY DEF Part
  <2>2. Cost(l) \in 0..MulCost /\ Cost(r) \in 0..MulCost /\ Cost(v) \in 0..MulCost
    BY PlansAre
  <2>3. Cost(l) \in Nat /\ Cost(r) \in Nat /\ Cost(v) \in Nat
    BY <2>2 DEF MulCost
  <2>4. Len(left) \in Nat /\ Len(right) \in Nat
    BY <2>1
  <2> QED BY <2>1, <2>3, <2>4
<1>2. s = left \o right \o own
  BY DEF PlanCode
<1>3. m \in 1..5 /\ Len(left) + Len(right) + 2 <= 2 * Cost(v)
  BY <1>1, PartsFit
<1>4. to \in Registers \ {"src", "tmp", "ans"}
  BY <1>3, AssistIs
<1>5. /\ a = "src" \/ \E i \in 1..5 : n <= i /\ i < n + Len(left) /\ a = Assist[i]
      /\ b = "src" \/ \E i \in 1..5 : n + Len(left) <= i /\ b = Assist[i]
  BY DEF Part
<1>6. a \in Registers \ {"tmp"} /\ b \in Registers \ {"tmp"}
  <2>1. "src" \in Registers \ {"tmp"}
    BY DEF Registers
  <2> HIDE DEF a, b
  <2> QED BY <1>5, <2>1, AssistIs
<1> HIDE DEF m, to, a, b, own, s
<1>7. ASSUME NEW g \in Factors, g["src"] = 1
      PROVE  /\ own \in Seq(Instructions) /\ Len(own) \in {1, 2} /\ ResultOf(own) = to
             /\ \E h \in Factors : /\ Computes(s, g, h) /\ h[to] = v
                                   /\ \A x \in Registers \ Used(n, Len(left) + Len(right) + Len(own)) : h[x] = g[x]
  <2> DEFINE U1 == Used(n, Len(left))
             U2 == Used(n + Len(left), Len(right))
             U == Used(n, Len(left) + Len(right) + Len(own))
  <2>1. n \in Nat /\ n + Len(left) \in Nat /\ "src" \in Registers
    BY <1>1 DEF Registers
  <2>2. "src" \notin U1 /\ "src" \notin U2
    BY <1>1, <2>1, UsedIs
  <2>3. PICK h1 \in Factors : Computes(left, g, h1) /\ (l # 0 => h1[a] = l) /\ \A x \in Registers \ U1 : h1[x] = g[x]
    BY <1>7 DEF Part, a
  <2>4. h1["src"] = 1
    BY <1>7, <2>1, <2>2, <2>3
  <2>5. PICK h2 \in Factors : Computes(right, h1, h2) /\ (r # 0 => h2[b] = r) /\ \A x \in Registers \ U2 : h2[x] = h1[x]
    BY <2>4 DEF Part, b
  <2>6. a \notin U2
    <3>1. CASE a = "src"
      BY <2>2, <3>1
    <3>2. CASE \E i \in 1..5 : n <= i /\ i < n + Len(left) /\ a = Assist[i]
      <4>1. PICK i \in 1..5 : n <= i /\ i < n + Len(left) /\ a = Assist[i]
        BY <3>2
      <4>2. Assist[i] \in U2 <=> n + Len(left) <= i /\ i < (n + Len(left)) + Len(right)
        BY <1>1, <2>1, UsedIs
      <4>3. ~(n + Len(left) <= i)
        <5>1. i \in Nat /\ n + Len(left) \in Nat
          BY <2>1
        <5> QED BY <4>1, <5>1
      <4> QED BY <4>1, <4>2, <4>3
    <3> QED BY <1>5, <3>1, <3>2
  <2>7. (p.l # 0 => h2[a] = p.l) /\ (p.op # "shl" /\ p.r # 0 => h2[b] = p.r)
    BY <1>6, <2>3, <2>5, <2>6
  <2>8. /\ own \in Seq(Instructions) /\ Len(own) \in {1, 2} /\ ResultOf(own) = to
        /\ Makes(own, v, {"tmp", to}, h2)
    BY <1>4, <1>6, <2>7, ActionMakes DEF own
  <2>9. PICK h \in Factors : Computes(own, h2, h) /\ h[to] = v /\ \A x \in Registers \ {"tmp", to} : h[x] = h2[x]
    BY <2>8 DEF Makes
  <2>10. Computes(s, g, h)
    <3>1. Computes(left \o right, g, h2)
      BY <2>3, <2>5, ComputesBoth
    <3> QED BY <1>2, <2>9, <3>1, ComputesBoth
  <2>11. U1 \subseteq U /\ U2 \subseteq U /\ {"tmp", to} \subseteq U
    <3> DEFINE k == Len(left) + Len(right) + Len(own)
    <3>1. k \in Nat /\ Len(left) \in Nat /\ Len(right) \in Nat /\ Len(own) \in Nat
      BY <1>1, <2>8
    <3>2. n <= n /\ n + Len(left) <= n + k /\ n <= n + Len(left) /\ (n + Len(left)) + Len(right) <= n + k
      BY <3>1, PartsBefore
    <3>3. n <= m /\ m < n + k
      <4>1. Len(own) \in 1..2
        BY <2>8, NotEmpty
      <4> QED BY <1>1, <4>1, PartsFit DEF m
    <3> HIDE DEF k
    <3>4. /\ \A i \in Nat, j \in Nat : n <= i /\ i + j <= n + k => Used(i, j) \subseteq Used(n, k)
          /\ "tmp" \in Used(n, k) /\ (Assist[m] \in Used(n, k) <=> n <= m /\ m < n + k)
      BY <1>3, <2>1, <3>1, UsedIs
    <3> QED BY <2>1, <3>1, <3>2, <3>3, <3>4 DEF k, to
  <2> HIDE DEF U1, U2, U
  <2>12. \A x \in Registers \ U : h[x] = g[x]
    BY <2>3, <2>5, <2>9, <2>11
  <2> QED BY <2>8, <2>9, <2>10, <2>12 DEF U
<1>8. \E g \in Factors : g["src"] = 1
  <2> DEFINE g == [x \in Registers |-> 1]
  <2>1. g \in Factors /\ g["src"] = 1
    BY DEF Factors, Registers
  <2> QED BY <2>1
<1>9. own \in Seq(Instructions) /\ Len(own) \in {1, 2} /\ ResultOf(own) = to
  BY <1>7, <1>8
<1>10. s \in Seq(Instructions) /\ Len(s) = Len(left) + Len(right) + Len(own) /\ s # <<>> /\ s[Len(s)] = own[Len(own)]
  <2>1. own # <<>> /\ Len(own) \in Nat \ {0}
    BY <1>9, NotEmpty
  <2>2. \A x, y \in Seq(Instructions) : x \o y \in Seq(Instructions) /\ Len(x \o y) = Len(x) + Len(y)
    OBVIOUS
  <2>3. \A x, y \in Seq(Instructions) : Len(y) # 0 => (x \o y)[Len(x) + Len(y)] = y[Len(y)]
    OBVIOUS
  <2>4. left \o right \in Seq(Instructions) /\ Len(left \o right) = Len(left) + Len(right)
    BY <1>1, <2>2
  <2>5. s \in Seq(Instructions) /\ Len(s) = (Len(left) + Len(right)) + Len(own)
    BY <1>2, <1>9, <2>2, <2>4
  <2>6. s[Len(s)] = own[Len(own)]
    BY <1>2, <1>9, <2>1, <2>3, <2>4, <2>5
  <2>7. s # <<>>
    BY <1>1, <2>1, <2>5
  <2> QED BY <2>5, <2>6, <2>7
<1>11. ResultOf(s) = to
  <2>1. own # <<>>
    BY <1>9, NotEmpty
  <2> QED BY <1>9, <1>10, <2>1 DEF ResultOf
<1>12. Len(s) <= 2 * Cost(v) /\ n <= m /\ m < n + Len(s)
  <2>1. Len(own) \in 1..2
    BY <1>9, NotEmpty
  <2> DEFINE x == Len(left)
             y == Len(right)
             o == Len(own)
  <2>2. x \in Nat /\ y \in Nat /\ o \in 1..2 /\ Len(s) = x + y + o /\ m = n + x + y
    BY <1>1, <1>10, <2>1 DEF m
  <2>3. x <= 2 * Cost(l) /\ y <= 2 * Cost(r)
    BY <1>1
  <2> HIDE DEF x, y, o
  <2>4. x + y + o <= 2 * Cost(v) /\ n <= n + x + y /\ n + x + y < n + (x + y + o)
    BY <1>1, <2>2, <2>3, PartsFit
  <2> QED BY <2>2, <2>4
<1>13. Part(v, s, n)
  <2>1. \A g \in Factors : g["src"] = 1 =>
          \E h \in Factors : /\ Computes(s, g, h)
                             /\ v # 0 => h[ResultOf(s)] = v
                             /\ \A x \in Registers \ Used(n, Len(s)) : h[x] = g[x]
    BY <1>7, <1>10, <1>11
  <2>2. \E i \in 1..5 : n <= i /\ i < n + Len(s) /\ ResultOf(s) = Assist[i]
    BY <1>3, <1>11, <1>12 DEF to
  <2> QED BY <1>10, <1>12, <2>1, <2>2 DEF Part
<1> QED BY <1>13 DEF s

\* The code of every factor in the table, while its instructions find mulAssists.
LEMMA PartOfFactor ==
  \A v \in DOMAIN OperandMap, n \in Nat \ {0} : n + 2 * Cost(v) <= 7 => Part(v, CodeOf(v, n), n)
<1> DEFINE S == {c \in 0..MulCost : \A v \in DOMAIN OperandMap, n \in Nat \ {0} :
                    Cost(v) <= c /\ n + 2 * Cost(v) <= 7 => Part(v, CodeOf(v, n), n)}
<1>1. MulCost \in Nat /\ \A v \in DOMAIN OperandMap : Cost(v) \in 0..MulCost /\ Cost(v) \in Nat
  BY PlansAre DEF MulCost
<1>2. 0 \in S
  <2>1. ASSUME NEW v \in DOMAIN OperandMap, NEW n \in Nat \ {0}, Cost(v) <= 0
        PROVE  Part(v, CodeOf(v, n), n)
    <3>1. Cost(v) = 0
      BY <1>1, <2>1
    <3>2. v \in {0, 1}
      BY <3>1, PlansAre
    <3> QED BY <3>2, PartOfNothing DEF CodeOf
  <2>2. 0 \in 0..MulCost
    BY <1>1
  <2> QED BY <2>1, <2>2
<1>3. ASSUME NEW c \in 0..(MulCost - 1), c \in S PROVE c + 1 \in S
  <2>1. ASSUME NEW v \in DOMAIN OperandMap, NEW n \in Nat \ {0}, Cost(v) <= c + 1, n + 2 * Cost(v) <= 7
        PROVE  Part(v, CodeOf(v, n), n)
    <3>1. CASE v \in {0, 1}
      BY <3>1, PartOfNothing DEF CodeOf
    <3>2. CASE v \notin {0, 1}
      <4> DEFINE p == OperandMap[v]
                 r == IF p.op = "shl" THEN 0 ELSE p.r
                 left == CodeOf(p.l, n)
                 right == CodeOf(r, n + Len(left))
      <4>1. /\ PlanOf(p, v) /\ p.l \in DOMAIN OperandMap
            /\ \/ p.op = "shl" /\ Cost(p.l) < Cost(v)
               \/ /\ p.op \in {"add", "sub"} /\ p.r \in DOMAIN OperandMap
                  /\ Cost(p.l) + Cost(p.r) < Cost(v)
        BY <3>2, PlansAre
      <4> HIDE DEF p
      <4>2. 0 \in DOMAIN OperandMap /\ Cost(0) = 0
        BY NothingHasPlan
      <4>3. r \in DOMAIN OperandMap /\ Cost(p.l) + Cost(r) < Cost(v) /\ (p.op # "shl" => r = p.r)
        BY <1>1, <4>1, <4>2
      <4>4. CodeOf(v, n) = PlanCode(p, left, right, n)
        <5>1. ReadPlan[v] = Codes(ReadPlan, v)
          BY ReadPlanIs
        <5>2. CodeOf(v, n) = Codes(ReadPlan, v)[n] /\ n \in Nat
          BY <3>2, <5>1 DEF CodeOf
        <5>3. left = IF p.l \in {0, 1} THEN <<>> ELSE ReadPlan[p.l][n]
          BY DEF CodeOf
        <5>4. right = IF p.op = "shl" \/ p.r \in {0, 1} THEN <<>> ELSE ReadPlan[p.r][n + Len(left)]
          <6> HIDE DEF left
          <6> QED BY DEF CodeOf
        <5> HIDE DEF left, right, r
        <5> QED BY <5>2, <5>3, <5>4 DEF Codes, p
      <4> HIDE DEF r
      <4>5. Cost(p.l) \in Nat /\ Cost(r) \in Nat /\ Cost(v) \in Nat
        BY <1>1, <4>1, <4>3
      <4>6. Part(p.l, left, n)
        <5>1. Cost(p.l) <= c /\ n + 2 * Cost(p.l) <= 7
          BY <2>1, <4>3, <4>5
        <5> HIDE DEF left
        <5> QED BY <1>3, <4>1, <5>1 DEF left
      <4> HIDE DEF left
      <4>7. Len(left) \in Nat /\ Len(left) <= 2 * Cost(p.l)
        BY <4>6 DEF Part
      <4>8. Part(r, right, n + Len(left))
        <5>1. Cost(r) <= c /\ (n + Len(left)) + 2 * Cost(r) <= 7 /\ n + Len(left) \in Nat \ {0}
          <6>1. c \in Nat /\ n \in Nat \ {0} /\ Cost(p.l) \in Nat /\ Cost(r) \in Nat /\ Cost(v) \in Nat
            BY <4>5
          <6>2. Cost(p.l) + Cost(r) < Cost(v) /\ Cost(v) <= c + 1 /\ n + 2 * Cost(v) <= 7
            BY <2>1, <4>3
          <6> QED BY <4>7, <6>1, <6>2, RestFits
        <5> QED BY <1>3, <4>3, <5>1
      <4> HIDE DEF right
      <4> QED BY <2>1, <4>1, <4>3, <4>4, <4>6, <4>8, PartOfAction
    <3> QED BY <3>1, <3>2
  <2>2. c + 1 \in 0..MulCost
    BY <1>1
  <2> QED BY <2>1, <2>2
<1> HIDE DEF S
<1>4. \A c \in 0..MulCost : c \in S
  BY <1>1, <1>2, <1>3, NumbersUpTo
<1>5. MulCost \in S
  BY <1>1, <1>4
<1> QED BY <1>1, <1>5 DEF S
-----------------------------------------------------------------------------
(* The code of applyMulConst, and the machine that runs it. *)

\* The factors before the first instruction.
Start == [x \in Registers |-> IF x = "src" THEN 1 ELSE 0]

\* A factor without a plan.
LoadFactor(c) == Instr("load_imm", c, 0, "tmp")
MulFactor == Instr("mul", "src", "tmp", "ans")

\* The answer of a plan is moved from where the plan left it.
LEMMA MoveAnswer ==
  ASSUME NEW c, NEW g \in Factors, NEW x \in Registers, g[x] = c
  PROVE  \E h \in Factors : Computes(<<Instr("move", x, "", "ans")>>, g, h) /\ h["ans"] = c
<1> DEFINE in == Instr("move", x, "", "ans")
<1>1. in \in Instructions /\ in.op = "move" /\ in.a = x /\ in.to = "ans"
  <2>1. "ans" \in Registers \ {"src"}
    BY DEF Registers
  <2>2. in = [op |-> "move", a |-> x, b |-> "", to |-> "ans"] /\ in \in Instructions
    BY <2>1 DEF Instr, Instructions
  <2> HIDE DEF in
  <2> QED BY <2>2
<1> HIDE DEF in
<1>2. Multiplies(in, g) /\ FactorOf(in, g) = c /\ "ans" \in Registers
  BY <1>1 DEF Multiplies, FactorOf, Registers
<1> DEFINE h == [g EXCEPT ![in.to] = FactorOf(in, g)]
<1>3. h \in Factors
  BY <1>1, <1>2, CarriesFactors
<1>4. Carries(in, g, h)
  BY <1>1, <1>2 DEF Carries
<1>5. h["ans"] = c
  BY <1>1, <1>2 DEF Factors
<1> HIDE DEF h
<1>6. Computes(<<in>>, g, h)
  BY <1>1, <1>4, ComputesOne
<1> QED BY <1>3, <1>5, <1>6 DEF in

\* An instruction appended is one joined.
LEMMA AppendIsJoin ==
  ASSUME NEW s \in Seq(Instructions), NEW in
  PROVE  Append(s, in) = s \o <<in>>
<1> DEFINE T == Instructions \cup {in}
           a == Append(s, in)
           b == s \o <<in>>
<1>1. s \in Seq(T) /\ in \in T /\ <<in>> \in Seq(T) /\ Len(<<in>>) = 1 /\ <<in>>[1] = in
  OBVIOUS
<1> HIDE DEF T
<1>2. a \in Seq(T) /\ Len(a) = Len(s) + 1 /\ a[Len(s) + 1] = in /\ \A i \in 1..Len(s) : a[i] = s[i]
  BY <1>1
<1>3. b \in Seq(T) /\ Len(b) = Len(s) + 1 /\ b[Len(s) + 1] = in /\ \A i \in 1..Len(s) : b[i] = s[i]
  BY <1>1
<1>4. Len(s) \in Nat
  OBVIOUS
<1> HIDE DEF a, b
<1>5. a = b
  BY <1>2, <1>3, <1>4
<1> QED BY <1>5 DEF a, b

\* A factor with a plan is computed by it; any other is loaded and multiplied.
LEMMA MulCodeIs ==
  ASSUME NEW c \in Divisors
  PROVE  \/ \E h \in Factors : Computes(MulConstCode(c), Start, h) /\ h["ans"] = c
         \/ MulConstCode(c) = <<LoadFactor(c), MulFactor>>
<1>1. Start \in Factors /\ Start["src"] = 1 /\ "src" \in Registers
  BY DEF Start, Factors, Registers
<1>2. CASE c \notin DOMAIN OperandMap
  BY <1>2 DEF MulConstCode, LoadFactor, MulFactor
<1>3. CASE c \in DOMAIN OperandMap /\ c = 1
  <2>1. MulConstCode(c) = <<Instr("move", "src", "", "ans")>>
    BY <1>3 DEF MulConstCode
  <2>2. Start["src"] = c
    BY <1>1, <1>3
  <2>3. \E h \in Factors : Computes(<<Instr("move", "src", "", "ans")>>, Start, h) /\ h["ans"] = c
    BY <1>1, <2>2, MoveAnswer
  <2> QED BY <2>1, <2>3
<1>4. CASE c \in DOMAIN OperandMap /\ c # 1
  <2> DEFINE steps == ReadPlan[c][1]
             in == Instr("move", ResultOf(steps), "", "ans")
  <2>1. c \notin {0, 1}
    BY <1>4, WordsAre, Widths
  <2>2. Part(c, steps, 1)
    <3>1. Cost(c) \in 0..3
      BY <1>4, PlansAre DEF MulCost
    <3>2. 1 \in Nat \ {0} /\ 1 + 2 * Cost(c) <= 7
      BY <3>1
    <3>3. Part(c, CodeOf(c, 1), 1)
      BY <1>4, <3>2, PartOfFactor
    <3> QED BY <2>1, <3>3 DEF CodeOf
  <2>3. MulConstCode(c) = Append(steps, Instr("move", steps[Len(steps)].to, "", "ans"))
    BY <1>4 DEF MulConstCode
  <2> HIDE DEF steps
  <2>4. steps \in Seq(Instructions) /\ steps # <<>>
    BY <2>1, <2>2 DEF Part
  <2>5. ResultOf(steps) = steps[Len(steps)].to /\ ResultOf(steps) \in Registers
    <3>1. steps[Len(steps)] \in Instructions
      BY <2>4
    <3> QED BY <2>4, <3>1 DEF ResultOf, Instructions
  <2>6. MulConstCode(c) = steps \o <<in>>
    <3>1. MulConstCode(c) = Append(steps, in)
      BY <2>3, <2>5
    <3> HIDE DEF in
    <3> QED BY <2>4, <3>1, AppendIsJoin
  <2>7. PICK h \in Factors : Computes(steps, Start, h) /\ h[ResultOf(steps)] = c
    BY <1>1, <2>1, <2>2 DEF Part
  <2>8. PICK k \in Factors : Computes(<<in>>, h, k) /\ k["ans"] = c
    BY <2>5, <2>7, MoveAnswer
  <2> HIDE DEF in
  <2>9. Computes(steps \o <<in>>, Start, k)
    BY <2>7, <2>8, ComputesBoth
  <2> QED BY <2>6, <2>8, <2>9
<1> QED BY <1>2, <1>3, <1>4

\* The registers hold the products by some factors that the rest of the code turns into C;
\* or the code without a plan is under way.
Multiplied ==
  \/ /\ \E g \in Factors, h \in Factors : /\ \A x \in Registers : Right(regs[x], g[x], src)
                                          /\ Computes(code, g, h) /\ h["ans"] = C
  \/ code = <<LoadFactor(C), MulFactor>> /\ regs["src"] = src
  \/ code = <<MulFactor>> /\ regs["src"] = src /\ regs["tmp"] = C
  \/ code = <<>> /\ Right(regs["ans"], C, src)

\* The invariant of multiplication.
MulInv ==
  /\ DOMAIN regs = Registers
  /\ work = "mul" => C \in Divisors /\ src \in Word /\ Multiplied

\* At the start the code is whole.
LEMMA MulInit ==
  ASSUME Init
  PROVE  MulInv
<1>1. DOMAIN regs = Registers /\ \A x \in Registers : regs[x] = IF x = "src" THEN src ELSE 0
  BY DEF Init, Registers
<1>2. ASSUME work = "mul" PROVE C \in Divisors /\ src \in Word /\ Multiplied
  <2>1. C \in Divisors /\ src \in Word /\ src \in Int /\ code = MulConstCode(C) /\ "src" \in Registers
    BY <1>2, WordsAre, Widths DEF Init, Registers
  <2>2. CASE code = <<LoadFactor(C), MulFactor>>
    BY <1>1, <2>1, <2>2 DEF Multiplied
  <2>3. CASE \E h \in Factors : Computes(code, Start, h) /\ h["ans"] = C
    <3>1. Right(src, 1, src) /\ Right(0, 0, src)
      <4>1. src * 1 = src /\ src * 0 = 0 /\ Same(src, src) /\ Same(0, 0)
        BY <2>1, SameReflexive
      <4> QED BY <2>1, <4>1 DEF Right
    <3>2. \A x \in Registers : Right(regs[x], Start[x], src)
      BY <1>1, <3>1 DEF Start
    <3>3. Start \in Factors
      BY DEF Start, Factors
    <3> QED BY <2>1, <2>3, <3>2, <3>3 DEF Multiplied
  <2> QED BY <2>1, <2>2, <2>3, MulCodeIs
<1> QED BY <1>1, <1>2 DEF MulInv

\* One instruction.
LEMMA MulStep ==
  ASSUME MulInv, [Next]_vars
  PROVE  MulInv'
<1>1. CASE UNCHANGED vars
  <2> USE <1>1 DEF vars
  <2>1. Multiplied => Multiplied'
    BY DEF Multiplied, Right
  <2> QED BY <2>1 DEF MulInv
<1>2. ASSUME Step PROVE MulInv'
  <2> DEFINE in == Head(code)
  <2>1. /\ regs' = [regs EXCEPT ![in.to] = Result(in)] /\ code' = Tail(code) /\ code # <<>>
        /\ work' = work /\ C' = C /\ src' = src /\ DOMAIN regs = Registers
    BY <1>2 DEF Step, MulInv
  <2> HIDE DEF in
  <2>2. DOMAIN regs' = Registers
    BY <2>1
  <2>3. ASSUME NEW x \in Registers PROVE regs'[x] = IF x = in.to THEN Result(in) ELSE regs[x]
    BY <2>1
  <2>4. ASSUME work = "mul" PROVE Multiplied'
    <3>1. C \in Divisors /\ src \in Word /\ C \in Int /\ src \in Int /\ C \in Word
      BY <2>4, WordsAre, Widths DEF MulInv
    <3>2. ASSUME NEW g \in Factors, NEW h \in Factors,
                 \A x \in Registers : Right(regs[x], g[x], src), Computes(code, g, h), h["ans"] = C
          PROVE  Multiplied'
      <4> DEFINE f == FactorOf(in, g)
                 k == [g EXCEPT ![in.to] = f]
      <4>1. in \in Instructions /\ Multiplies(in, g) /\ Computes(Tail(code), k, h)
        BY <2>1, <3>2, ComputesRest DEF in
      <4>2. k \in Factors
        BY <4>1, CarriesFactors
      <4>3. Right(Result(in), f, src)
        BY <3>1, <3>2, <4>1, CarriesRight
      <4>4. \A x \in Registers : k[x] = IF x = in.to THEN f ELSE g[x]
        BY DEF Factors
      <4> HIDE DEF f, k
      <4>5. \A x \in Registers : Right(regs'[x], k[x], src)
        BY <2>3, <3>2, <4>3, <4>4
      <4> QED BY <2>1, <3>2, <4>1, <4>2, <4>5 DEF Multiplied, Right
    <3>3. CASE code = <<LoadFactor(C), MulFactor>> /\ regs["src"] = src
      <4> DEFINE a == LoadFactor(C)
                 b == MulFactor
      <4>1. a.op = "load_imm" /\ a.a = C /\ a.to = "tmp"
        BY DEF LoadFactor, Instr
      <4> HIDE DEF a, b
      <4>2. in = a /\ Tail(code) = <<b>>
        BY <3>3 DEF in, a, b
      <4>3. Result(in) = Wrap(C, W) /\ Wrap(C, W) = C
        BY <3>1, <4>1, <4>2, WrapKeeps, WordsAre, Widths DEF Result
      <4>4. regs'["tmp"] = C /\ regs'["src"] = src
        BY <2>3, <3>3, <4>1, <4>2, <4>3 DEF Registers
      <4> QED BY <2>1, <4>2, <4>4 DEF Multiplied, b
    <3>4. CASE code = <<MulFactor>> /\ regs["src"] = src /\ regs["tmp"] = C
      <4> DEFINE b == MulFactor
      <4>1. b.op = "mul" /\ b.a = "src" /\ b.b = "tmp" /\ b.to = "ans"
        BY DEF MulFactor, Instr
      <4> HIDE DEF b
      <4>2. in = b /\ Tail(code) = <<>>
        BY <3>4 DEF in, b
      <4>3. Result(in) = Wrap(src * C, W)
        BY <3>4, <4>1, <4>2 DEF Result
      <4>4. Right(Wrap(src * C, W), C, src)
        <5>1. src * C \in Int /\ Same(src * C, src * C)
          BY <3>1, SameReflexive
        <5> QED BY <3>1, <5>1, RightOfWord
      <4>5. regs'["ans"] = Wrap(src * C, W)
        BY <2>3, <4>1, <4>2, <4>3 DEF Registers
      <4> QED BY <2>1, <4>2, <4>4, <4>5 DEF Multiplied, Right
    <3> QED BY <2>1, <2>4, <3>2, <3>3, <3>4 DEF MulInv, Multiplied
  <2> QED BY <2>1, <2>2, <2>4 DEF MulInv
<1> QED BY <1>1, <1>2 DEF Next

\* The invariant holds: whatever the factor and the other operand, the registers hold the
\* products by the factors that the plan says, through the overflows on the way.
THEOREM MultiplicationInvariant == Spec => []MulInv
BY MulInit, MulStep, PTL DEF Spec

\* Multiplication by a constant gives the product's low word, and the product itself,
\* sign-extended, when it is a word.
THEOREM MultipliesRight == Spec => []ProductsRight
<1>1. ASSUME MulInv PROVE ProductsRight
  <2>1. SUFFICES ASSUME code = <<>>, work = "mul"
                 PROVE  /\ Wrap(regs["ans"], W) = Wrap(src * C, W)
                        /\ src * C \in Word => regs["ans"] = src * C
    BY DEF ProductsRight, Finished
  <2>2. C \in Divisors /\ src \in Word /\ C \in Int /\ src \in Int /\ C >= 0 /\ Multiplied
    BY <1>1, <2>1, WordsAre, Widths DEF MulInv
  <2>3. Right(regs["ans"], C, src)
    <3>1. ASSUME NEW g \in Factors, NEW h \in Factors,
                 \A x \in Registers : Right(regs[x], g[x], src), Computes(code, g, h), h["ans"] = C
          PROVE  Right(regs["ans"], C, src)
      <4>1. g = h
        <5>1. Len(code) = 0
          BY <2>1
        <5> QED BY <3>1, <5>1 DEF Computes
      <4> QED BY <3>1, <4>1 DEF Registers
    <3>2. code # <<LoadFactor(C), MulFactor>> /\ code # <<MulFactor>>
      BY <2>1
    <3> QED BY <2>2, <3>1, <3>2 DEF Multiplied
  <2>4. src * C \in Int /\ regs["ans"] \in Int /\ Same(regs["ans"], src * C)
    BY <2>2, <2>3 DEF Right
  <2> DEFINE a == Wrap(regs["ans"], W)
             b == Wrap(src * C, W)
  <2>5. a \in Word /\ b \in Word /\ a \in Int /\ b \in Int /\ Same(a, regs["ans"]) /\ Same(b, src * C)
    BY <2>4, WrapSame
  <2> HIDE DEF a, b
  <2>6. Same(a, src * C) /\ Same(src * C, b)
    BY <2>4, <2>5, SameTransitive, SameTimes
  <2>7. a = b
    BY <2>4, <2>5, <2>6, SameTransitive, SameWords
  <2> QED BY <2>2, <2>3, <2>7 DEF Right, a, b
<1> QED BY <1>1, MultiplicationInvariant, PTL
=============================================================================
