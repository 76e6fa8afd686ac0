---------------------------- MODULE MCCreateRun ----------------------------
(* Instances of CreateRun for TLC. *)
EXTENDS CreateRun, TLC

CONSTANTS a1, a2, a3
=============================================================================
