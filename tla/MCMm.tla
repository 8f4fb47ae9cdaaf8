------------------------------- MODULE MCMm -------------------------------
(* Instance of Mm for TLC. *)
EXTENDS Mm
=============================================================================
