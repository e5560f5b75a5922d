----------------------------- MODULE MCProvision -----------------------------
(* Instances of Provision for TLC. *)
EXTENDS Provision

MCFaults == {"network", "service"}

(* A second is four units, the width is six bits: timeouts around zero, around
   one second, and around the last one that can be rounded. *)
MCTimeouts == {-32, 0, 1, 4, 5, 28, 29, 31}
=============================================================================
