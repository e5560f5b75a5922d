------------------------------ MODULE MCCommand ------------------------------
(* Small instances of Command for TLC. *)
EXTENDS Command, TLC
CONSTANTS h1, h2, w1, w2

MCKinds == {"stdout", "stderr"}
WaiterSymmetry == Permutations(Waiters)
=============================================================================
