---------------------------- MODULE MCRunJournal ----------------------------
(* The configurations of the run journal give each constant a value directly. *)
EXTENDS RunJournal
=============================================================================
