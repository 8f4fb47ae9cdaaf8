------------------------------ MODULE MCProxy ------------------------------
(* Instances of Proxy for TLC. *)
EXTENDS Proxy

CONSTANTS w1, w2, x
TwoWorkers == {w1, w2}
OneTag == {x}
=============================================================================
