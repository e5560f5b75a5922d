----------------------------- MODULE MCRequests -----------------------------
(* Instances of Requests for TLC. *)
EXTENDS Requests, TLC

MCRequestTimeouts == {-1, 0, 7}
=============================================================================
