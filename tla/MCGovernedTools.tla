--------------------------- MODULE MCGovernedTools ---------------------------
(* One tool for each way a call can go: run at once, approved by a standing   *)
(* authorization, approved for a run or a project, and asked about each time. *)
EXTENDS GovernedTools

MCTools   == {"edit", "check", "push"}
MCLevel   == [t \in MCTools |-> CASE t = "edit" -> 2 [] t = "check" -> 3 [] t = "push" -> 5]
MCWriting == {"edit", "push"}
MCWhat    == [kind: Kinds, call: Calls, yes: BOOLEAN]
=============================================================================
