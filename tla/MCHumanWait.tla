---------------------------- MODULE MCHumanWait ----------------------------
(* The configurations of the human wait give each constant a value directly. *)
EXTENDS HumanWait
=============================================================================
