---------------------------- MODULE MCRioReader ----------------------------
(* Instance of RioReader for TLC. *)
EXTENDS RioReader
=============================================================================
