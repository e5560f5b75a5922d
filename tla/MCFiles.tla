------------------------------- MODULE MCFiles -------------------------------
(* Instances of Files for TLC. *)
EXTENDS Files, TLC

CONSTANTS a, z, v1, v2

MCPaths    == {a, z}
MCDeep     == {z}
MCContents == {v1, v2}
=============================================================================
