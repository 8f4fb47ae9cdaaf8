------------------------------- MODULE Powers -------------------------------
(* What shifting 1 to the left computes, as a recursive function. *)
EXTENDS Naturals

Pow2[n \in Nat] == IF n = 0 THEN 1 ELSE 2 * Pow2[n - 1]
=============================================================================
