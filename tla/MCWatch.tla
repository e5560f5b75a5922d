------------------------------- MODULE MCWatch -------------------------------
(* Small instances of Watch for TLC. *)
EXTENDS Watch
CONSTANTS w1, w2

MCTypes == {"create", "remove"}
=============================================================================
