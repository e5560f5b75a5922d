------------------------------ MODULE MCSandbox ------------------------------
(* Small instances of Sandbox for TLC. *)
EXTENDS Sandbox, TLC
CONSTANTS d1, d2, d3, c1, c2, p1, q1

CallSymmetry == Permutations(DestroyCalls) \cup Permutations(ConnectCalls)
=============================================================================
