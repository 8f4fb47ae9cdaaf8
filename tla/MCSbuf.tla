------------------------------ MODULE MCSbuf ------------------------------
(* Instances of Sbuf for TLC. *)
EXTENDS Sbuf

CONSTANTS r1, r2, a, b
main == "main"
TwoInserters == {main, "other"}
Workers == {r1, r2}
Descriptors == {a, b}
=============================================================================
