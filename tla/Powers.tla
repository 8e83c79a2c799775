------------------------------- MODULE Powers -------------------------------
(***************************************************************************)
(* The powers of two that word widths, shifts and multipliers are made of, *)
(* as a recursive function: the provers know no law of n^k.                *)
(***************************************************************************)
EXTENDS Integers

Pow2[k \in Nat] == IF k = 0 THEN 1 ELSE 2 * Pow2[k - 1]
=============================================================================
