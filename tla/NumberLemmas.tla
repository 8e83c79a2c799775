---------------------------- MODULE NumberLemmas ----------------------------
(***************************************************************************)
(* What the proofs of the other modules need of numbers: induction, stated *)
(* with sets in the place of predicates, recursive functions, powers of    *)
(* two and quotients.  A function                                          *)
(* f[i \in 0..n] == IF i = 0 THEN c ELSE ... f[i - 1] ... is a CHOOSE: it  *)
(* satisfies its equation as soon as some function does.                   *)
(***************************************************************************)
EXTENDS Powers, FiniteSets, FiniteSetTheorems, WellFoundedInduction, TLAPS

\* A set of natural numbers has a least one.
LEMMA LeastNumber ==
  ASSUME NEW T \in SUBSET Nat, T # {}
  PROVE  \E m \in T : \A n \in T : m <= n
<1> DEFINE R == OpToRel(<, Nat)
<1>1. IsWellFoundedOn(R, Nat)
  BY NatLessThanWellFounded
<1>2. \A x, y \in Nat : x < y => <<x, y>> \in R
  BY DEF OpToRel
<1> HIDE DEF R
<1>3. \E m \in T : \A n \in T : <<n, m>> \notin R
  BY <1>1, WFMin
<1>4. \A x \in T : x \in Nat
  OBVIOUS
<1>5. \A x, y \in T : ~(x < y) => y <= x
  BY <1>4
<1> QED BY <1>2, <1>3, <1>4, <1>5

\* A set that has 0 and with a number the next one has every number.
LEMMA NumbersByInduction ==
  ASSUME NEW S, 0 \in S, \A n \in Nat : n \in S => n + 1 \in S
  PROVE  \A n \in Nat : n \in S
<1> DEFINE T == Nat \ S
<1>1. SUFFICES ASSUME T # {} PROVE FALSE
  OBVIOUS
<1>2. PICK m \in T : \A n \in T : m <= n
  BY <1>1, LeastNumber
<1>3. m - 1 \in Nat /\ m - 1 \notin T
  BY <1>2
<1> QED BY <1>3

\* The same as far as n.
LEMMA NumbersUpTo ==
  ASSUME NEW n \in Nat, NEW S, 0 \in S, \A i \in 0..(n - 1) : i \in S => i + 1 \in S
  PROVE  \A i \in 0..n : i \in S
<1> DEFINE T == {i \in Nat : i <= n => i \in S}
<1>1. 0 \in T
  OBVIOUS
<1>2. \A i \in Nat : i \in T => i + 1 \in T
  OBVIOUS
<1> HIDE DEF T
<1>3. \A i \in Nat : i \in T
  BY <1>1, <1>2, NumbersByInduction
<1> QED BY <1>3 DEF T

\* The same from n down to 0.
LEMMA NumbersDownFrom ==
  ASSUME NEW n \in Nat, NEW S, n \in S, \A i \in 0..(n - 1) : i + 1 \in S => i \in S
  PROVE  \A i \in 0..n : i \in S
<1> DEFINE T == {i \in 0..n : n - i \in S}
<1>1. 0 \in T
  OBVIOUS
<1>2. ASSUME NEW i \in 0..(n - 1), i \in T PROVE i + 1 \in T
  <2>1. n - i - 1 \in 0..(n - 1) /\ (n - i - 1) + 1 = n - i
    OBVIOUS
  <2>2. n - i - 1 \in S
    BY <1>2, <2>1
  <2> QED BY <2>2
<1> HIDE DEF T
<1>3. \A i \in 0..n : i \in T
  BY <1>1, <1>2, NumbersUpTo
<1>4. ASSUME NEW i \in 0..n PROVE i \in S
  <2>1. n - i \in 0..n /\ n - (n - i) = i
    OBVIOUS
  <2> QED BY <1>3, <2>1 DEF T
<1> QED BY <1>4

-----------------------------------------------------------------------------
(* Recursive functions.  T is the table of the step. *)

Iterates(f, n, c, T) ==
  /\ f[0] = c
  /\ \A i \in 1..n : f[i] = T[<<f[i - 1], i>>]

IteratesDown(f, n, c, T) ==
  /\ f[n] = c
  /\ \A i \in 1..n : f[i - 1] = T[<<f[i], i>>]

IteratesForever(f, c, T) ==
  /\ f[0] = c
  /\ \A i \in Nat \ {0} : f[i] = T[<<f[i - 1], i>>]

\* There is a function for each table.
LEMMA IterationExists ==
  ASSUME NEW n \in Nat, NEW D, NEW c \in D, NEW T \in [D \X (1..n) -> D]
  PROVE  \E f \in [0..n -> D] : Iterates(f, n, c, T)
<1> DEFINE S == {k \in 0..n : \E f \in [0..k -> D] : Iterates(f, k, c, T)}
<1>1. 0 \in S
  <2>1. [i \in 0..0 |-> c] \in [0..0 -> D] /\ Iterates([i \in 0..0 |-> c], 0, c, T)
    BY DEF Iterates
  <2> QED BY <2>1
<1>2. ASSUME NEW k \in 0..(n - 1), k \in S PROVE k + 1 \in S
  <2>1. PICK f \in [0..k -> D] : Iterates(f, k, c, T)
    BY <1>2
  <2>2. k \in 0..k /\ k + 1 \in 1..n /\ k + 1 \in 0..n
    OBVIOUS
  <2>3. T[<<f[k], k + 1>>] \in D
    BY <2>2
  <2> DEFINE g == [i \in 0..(k + 1) |-> IF i = k + 1 THEN T[<<f[k], k + 1>>] ELSE f[i]]
  <2>4. g \in [0..(k + 1) -> D]
    BY <2>3
  <2>5. g[0] = c
    BY <2>1 DEF Iterates
  <2>6. ASSUME NEW i \in 1..(k + 1)
        PROVE  g[i] = T[<<g[i - 1], i>>]
    <3>1. CASE i = k + 1
      <4>1. g[i - 1] = f[k] /\ g[i] = T[<<f[k], k + 1>>]
        BY <3>1
      <4> HIDE DEF g
      <4> QED BY <3>1, <4>1
    <3>2. CASE i \in 1..k
      <4>1. g[i - 1] = f[i - 1] /\ g[i] = f[i]
        BY <3>2
      <4>2. f[i] = T[<<f[i - 1], i>>]
        BY <2>1, <3>2 DEF Iterates
      <4> HIDE DEF g
      <4> QED BY <4>1, <4>2
    <3> QED BY <3>1, <3>2
  <2> HIDE DEF g
  <2>7. Iterates(g, k + 1, c, T)
    BY <2>5, <2>6 DEF Iterates
  <2> QED BY <2>2, <2>4, <2>7
<1> HIDE DEF S
<1>3. n \in S
  BY <1>1, <1>2, NumbersUpTo
<1> QED BY <1>3 DEF S

\* The same downwards.
LEMMA DownIterationExists ==
  ASSUME NEW n \in Nat, NEW D, NEW c \in D, NEW T \in [D \X (1..n) -> D]
  PROVE  \E f \in [0..n -> D] : IteratesDown(f, n, c, T)
<1> DEFINE U == [p \in D \X (1..n) |-> T[<<p[1], n + 1 - p[2]>>]]
<1>1. U \in [D \X (1..n) -> D]
  OBVIOUS
<1>2. \A d \in D, j \in 1..n : U[<<d, j>>] = T[<<d, n + 1 - j>>]
  OBVIOUS
<1> HIDE DEF U
<1>3. PICK g \in [0..n -> D] : Iterates(g, n, c, U)
  BY <1>1, IterationExists
<1> DEFINE f == [i \in 0..n |-> g[n - i]]
<1>4. f \in [0..n -> D]
  OBVIOUS
<1>5. f[n] = c
  BY <1>3 DEF Iterates
<1>6. ASSUME NEW i \in 1..n
      PROVE  f[i - 1] = T[<<f[i], i>>]
  <2> DEFINE j == n + 1 - i
  <2>1. j \in 1..n /\ j - 1 \in 0..n /\ n + 1 - j = i /\ n - (i - 1) = j /\ n - i = j - 1
    OBVIOUS
  <2>2. f[i - 1] = g[j] /\ f[i] = g[j - 1]
    BY <2>1
  <2>3. g[j - 1] \in D
    BY <2>1
  <2> HIDE DEF f, j
  <2>4. g[j] = U[<<g[j - 1], j>>]
    BY <1>3, <2>1 DEF Iterates
  <2> QED BY <1>2, <2>1, <2>2, <2>3, <2>4
<1> HIDE DEF f
<1> QED BY <1>4, <1>5, <1>6 DEF IteratesDown

\* There is one such function only.
LEMMA IterationUnique ==
  ASSUME NEW n \in Nat, NEW c, NEW T, NEW f, NEW h, Iterates(f, n, c, T), Iterates(h, n, c, T)
  PROVE  \A i \in 0..n : f[i] = h[i]
<1> DEFINE S == {i \in 0..n : f[i] = h[i]}
<1>1. 0 \in S
  BY DEF Iterates
<1>2. ASSUME NEW i \in 0..(n - 1), i \in S PROVE i + 1 \in S
  <2>1. i + 1 \in 1..n /\ (i + 1) - 1 = i /\ i + 1 \in 0..n
    OBVIOUS
  <2>2. f[i + 1] = T[<<f[i], i + 1>>] /\ h[i + 1] = T[<<h[i], i + 1>>]
    BY <2>1 DEF Iterates
  <2> QED BY <1>2, <2>1, <2>2
<1> HIDE DEF S
<1>3. \A i \in 0..n : i \in S
  BY <1>1, <1>2, NumbersUpTo
<1> QED BY <1>3 DEF S

\* The same on all numbers.
LEMMA NatIterationExists ==
  ASSUME NEW D, NEW c \in D, NEW T \in [D \X (Nat \ {0}) -> D]
  PROVE  \E f \in [Nat -> D] : IteratesForever(f, c, T)
<1> DEFINE F(n) == CHOOSE f \in [0..n -> D] : Iterates(f, n, c, T)
<1>1. ASSUME NEW n \in Nat
      PROVE  F(n) \in [0..n -> D] /\ Iterates(F(n), n, c, T)
  <2> DEFINE U == [p \in D \X (1..n) |-> T[p]]
  <2>1. U \in [D \X (1..n) -> D]
    OBVIOUS
  <2>2. \A d \in D, j \in 1..n : U[<<d, j>>] = T[<<d, j>>]
    OBVIOUS
  <2> HIDE DEF U
  <2>3. PICK f \in [0..n -> D] : Iterates(f, n, c, U)
    BY <2>1, IterationExists
  <2>4. \A i \in 1..n : f[i - 1] \in D
    OBVIOUS
  <2>5. Iterates(f, n, c, T)
    BY <2>2, <2>3, <2>4 DEF Iterates
  <2> QED BY <2>5
<1> DEFINE g == [n \in Nat |-> F(n)[n]]
<1> HIDE DEF F
<1>2. g \in [Nat -> D]
  <2>1. \A n \in Nat : n \in 0..n
    OBVIOUS
  <2> QED BY <1>1, <2>1
<1>3. g[0] = c
  BY <1>1 DEF Iterates
<1>4. ASSUME NEW i \in Nat \ {0}
      PROVE  g[i] = T[<<g[i - 1], i>>]
  <2>1. i - 1 \in Nat /\ i \in 1..i /\ i - 1 \in 0..(i - 1) /\ 1..(i - 1) \subseteq 1..i
    OBVIOUS
  <2>2. Iterates(F(i), i - 1, c, T) /\ Iterates(F(i - 1), i - 1, c, T)
    BY <1>1, <2>1 DEF Iterates
  <2>3. F(i)[i - 1] = F(i - 1)[i - 1]
    BY <2>1, <2>2, IterationUnique
  <2>4. F(i)[i] = T[<<F(i)[i - 1], i>>]
    BY <1>1, <2>1 DEF Iterates
  <2> QED BY <2>1, <2>3, <2>4
<1> HIDE DEF g
<1> QED BY <1>2, <1>3, <1>4 DEF IteratesForever

-----------------------------------------------------------------------------
(* Powers of two. *)

\* The definition of Pow2 says what it seems to.
LEMMA Pow2Equations ==
  /\ Pow2[0] = 1
  /\ \A k \in Nat : Pow2[k] \in Nat \ {0} /\ Pow2[k + 1] = 2 * Pow2[k]
<1> DEFINE D == Nat \ {0}
           T == [p \in D \X (Nat \ {0}) |-> 2 * p[1]]
<1>1. T \in [D \X (Nat \ {0}) -> D] /\ 1 \in D
  OBVIOUS
<1>2. \A d \in D, i \in Nat \ {0} : T[<<d, i>>] = 2 * d
  OBVIOUS
<1> HIDE DEF T
<1>3. PICK f \in [Nat -> D] : IteratesForever(f, 1, T)
  <2> HIDE DEF D
  <2> QED BY <1>1, NatIterationExists
<1>4. f = [k \in Nat |-> IF k = 0 THEN 1 ELSE 2 * f[k - 1]]
  <2>1. ASSUME NEW k \in Nat PROVE f[k] = IF k = 0 THEN 1 ELSE 2 * f[k - 1]
    <3>1. CASE k = 0
      BY <1>3, <3>1 DEF IteratesForever
    <3>2. CASE k # 0
      <4>1. k \in Nat \ {0} /\ k - 1 \in Nat
        BY <3>2
      <4>2. f[k - 1] \in D
        BY <4>1
      <4> QED BY <1>2, <1>3, <3>2, <4>1, <4>2 DEF IteratesForever
    <3> QED BY <3>1, <3>2
  <2> QED BY <2>1
<1> DEFINE Equation(p) == p = [k \in Nat |-> IF k = 0 THEN 1 ELSE 2 * p[k - 1]]
<1>5. Pow2 = CHOOSE p : Equation(p)
  BY DEF Pow2
<1>6. Equation(f)
  BY <1>4
<1> HIDE DEF Equation
<1>7. Equation(Pow2)
  BY <1>5, <1>6
<1>8. \A k \in Nat : Pow2[k] = IF k = 0 THEN 1 ELSE 2 * Pow2[k - 1]
  BY <1>7 DEF Equation
<1>9. Pow2[0] = 1
  BY <1>8
<1>10. \A k \in Nat : Pow2[k + 1] = 2 * Pow2[k]
  <2>1. \A k \in Nat : k + 1 \in Nat /\ k + 1 # 0 /\ (k + 1) - 1 = k
    OBVIOUS
  <2> QED BY <1>8, <2>1
<1> DEFINE S == {k \in Nat : Pow2[k] \in Nat \ {0}}
<1>11. 0 \in S
  BY <1>9
<1>12. \A k \in Nat : k \in S => k + 1 \in S
  BY <1>10
<1>13. \A k \in Nat : k \in S
  <2> HIDE DEF S
  <2> QED BY <1>11, <1>12, NumbersByInduction
<1> QED BY <1>9, <1>10, <1>13

\* The law of exponents.
LEMMA Pow2Sum ==
  ASSUME NEW a \in Nat, NEW b \in Nat
  PROVE  Pow2[a + b] = Pow2[a] * Pow2[b]
<1> DEFINE S == {n \in Nat : Pow2[a + n] = Pow2[a] * Pow2[n]}
<1>1. 0 \in S
  BY Pow2Equations
<1>2. ASSUME NEW n \in Nat, n \in S PROVE n + 1 \in S
  <2>1. Pow2[a + (n + 1)] = 2 * Pow2[a + n]
    <3>1. a + n \in Nat /\ a + (n + 1) = (a + n) + 1
      OBVIOUS
    <3> QED BY <3>1, Pow2Equations
  <2>2. Pow2[n + 1] = 2 * Pow2[n] /\ Pow2[n] \in Nat /\ Pow2[a] \in Nat
    BY Pow2Equations
  <2>3. Pow2[a] * (2 * Pow2[n]) = 2 * (Pow2[a] * Pow2[n])
    BY <2>2
  <2> QED BY <1>2, <2>1, <2>2, <2>3
<1> HIDE DEF S
<1>3. b \in S
  BY <1>1, <1>2, NumbersByInduction
<1> QED BY <1>3 DEF S

\* A factor keeps or turns the order.
LEMMA TimesMonotone ==
  ASSUME NEW x \in Int, NEW y \in Int, NEW c \in Int, x <= y
  PROVE  /\ c >= 0 => c * x <= c * y /\ x * c <= y * c
         /\ c <= 0 => c * y <= c * x /\ y * c <= x * c
OBVIOUS

\* Powers grow with their exponents.
LEMMA Pow2Monotone ==
  ASSUME NEW a \in Nat, NEW b \in Nat, a <= b
  PROVE  Pow2[a] <= Pow2[b]
<1>1. b - a \in Nat /\ a + (b - a) = b
  OBVIOUS
<1>2. Pow2[b] = Pow2[a] * Pow2[b - a]
  BY <1>1, Pow2Sum
<1>3. Pow2[a] \in Nat /\ Pow2[b - a] \in Nat /\ 1 <= Pow2[b - a]
  BY <1>1, Pow2Equations
<1> HIDE <1>1
<1>4. Pow2[a] * 1 <= Pow2[a] * Pow2[b - a]
  BY <1>3, TimesMonotone
<1> QED BY <1>2, <1>3, <1>4

-----------------------------------------------------------------------------
(* Quotients.  The provers do better when they need not look into one. *)

Quot(n, d) == n \div d

\* A quotient is the one number that divides this well.
LEMMA QuotBounds ==
  ASSUME NEW x \in Int, NEW c \in Nat \ {0}
  PROVE  Quot(x, c) \in Int /\ c * Quot(x, c) <= x /\ x < c * Quot(x, c) + c
BY DEF Quot

\* The quotient is the only number with those inequalities.
LEMMA QuotIs ==
  ASSUME NEW x \in Int, NEW c \in Nat \ {0}, NEW q \in Int, c * q <= x, x < c * q + c
  PROVE  Quot(x, c) = q
<1> DEFINE p == Quot(x, c)
<1>1. p \in Int /\ c * p <= x /\ x < c * p + c
  BY QuotBounds
<1> HIDE DEF p
<1>2. CASE p >= q + 1
  <2>1. c * (q + 1) <= c * p
    BY <1>1, <1>2, TimesMonotone
  <2> QED BY <1>1, <2>1
<1>3. CASE q >= p + 1
  <2>1. c * (p + 1) <= c * q
    BY <1>1, <1>3, TimesMonotone
  <2> QED BY <1>1, <2>1
<1> QED BY <1>1, <1>2, <1>3 DEF p

\* Dividing twice is dividing by the product.
LEMMA QuotOfQuot ==
  ASSUME NEW x \in Int, NEW a \in Nat \ {0}, NEW b \in Nat \ {0}
  PROVE  Quot(Quot(x, a), b) = Quot(x, a * b)
<1> DEFINE p == Quot(x, a)
           q == Quot(p, b)
<1>1. p \in Int /\ a * p <= x /\ x < a * p + a
  BY QuotBounds
<1> HIDE DEF p
<1>2. q \in Int /\ b * q <= p /\ p < b * q + b
  BY <1>1, QuotBounds
<1> HIDE DEF q
<1>3. a * b \in Nat \ {0}
  OBVIOUS
<1>4. (a * b) * q <= x
  <2>1. a * (b * q) <= a * p
    BY <1>1, <1>2, TimesMonotone
  <2> QED BY <1>1, <1>2, <2>1
<1>5. x < (a * b) * q + a * b
  <2>1. a * (p + 1) <= a * (b * q + b)
    BY <1>1, <1>2, TimesMonotone
  <2>2. a * (b * q + b) = (a * b) * q + a * b
    BY <1>2
  <2> QED BY <1>1, <1>2, <2>1, <2>2
<1>6. Quot(x, a * b) = q
  <2> DEFINE c == a * b
  <2> HIDE DEF c
  <2>1. c \in Nat \ {0} /\ c * q <= x /\ x < c * q + c
    BY <1>3, <1>4, <1>5 DEF c
  <2>2. Quot(x, c) = q
    BY <1>2, <2>1, QuotIs
  <2> QED BY <2>2 DEF c
<1> QED BY <1>6 DEF q, p

\* A common factor cancels.
LEMMA QuotScaled ==
  ASSUME NEW x \in Int, NEW a \in Nat \ {0}, NEW b \in Nat \ {0}
  PROVE  Quot(x * b, a * b) = Quot(x, a)
<1> DEFINE q == Quot(x, a)
           c == a * b
           y == x * b
<1>1. q \in Int /\ a * q <= x /\ x < a * q + a
  BY QuotBounds
<1> HIDE DEF q
<1>2. c \in Nat \ {0} /\ y \in Int
  OBVIOUS
<1>3. c * q <= y
  <2>1. b * (a * q) <= b * x
    BY <1>1, TimesMonotone
  <2> QED BY <1>1, <2>1
<1>4. y < c * q + c
  <2>1. b * (x + 1) <= b * (a * q + a)
    BY <1>1, TimesMonotone
  <2>2. b * (a * q + a) = c * q + c /\ b * (x + 1) = y + b
    BY <1>1
  <2> QED BY <1>1, <1>2, <2>1, <2>2
<1> HIDE DEF c, y
<1>5. Quot(y, c) = q
  BY <1>1, <1>2, <1>3, <1>4, QuotIs
<1> QED BY <1>5 DEF q, c, y

\* The remainder is what the quotient leaves.
LEMMA QuotRemainder ==
  ASSUME NEW x \in Int, NEW c \in Nat \ {0}
  PROVE  x % c = x - c * Quot(x, c)
BY DEF Quot

\* The remainder is the one number in its range that leaves a multiple.
LEMMA RemainderIs ==
  ASSUME NEW x \in Int, NEW c \in Nat \ {0}, NEW q \in Int, NEW r \in Int,
         x = r + q * c, 0 <= r, r < c
  PROVE  x % c = r
<1>1. Quot(x, c) = q
  BY QuotIs
<1>2. x % c = x - c * q
  BY <1>1, QuotRemainder
<1> QED BY <1>2
=============================================================================
