------------------------------- MODULE MCTsh -------------------------------
(* Instances of Tsh for TLC. *)
EXTENDS Tsh, TLC

CONSTANTS p1, p2, p3
TwoPids == {p1, p2}
ThreePids == {p1, p2, p3}

\* Process ids are interchangeable (safety only).
Symmetry == Permutations(Pids)
=============================================================================
