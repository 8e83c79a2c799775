------------------------------- MODULE Words -------------------------------
(***************************************************************************)
(* Machine words and the arithmetic of C on them.                          *)
(***************************************************************************)
EXTENDS Powers

CONSTANT Bits  \* bits in a word (32 in the code)
ASSUME BitsAssumption == Bits \in Nat \ {0, 1}

MinWord == -Pow2[Bits - 1]
MaxWord == Pow2[Bits - 1] - 1
Words   == MinWord..MaxWord
Wrapped(n) == ((n - MinWord) % (MaxWord - MinWord + 1)) + MinWord

\* Division and remainder of C: toward zero, the remainder has the sign of a.
Sign(a) == IF a < 0 THEN -1 ELSE 1
Abs(a) == Sign(a) * a
Div(a, b) == Sign(a) * Sign(b) * (Abs(a) \div Abs(b))
Mod(a, b) == a - b * Div(a, b)
=============================================================================
