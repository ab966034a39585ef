---------------------------- MODULE MCCycleStore ----------------------------
(* A root commit and a revision made directly on it; the revision can reach  *)
(* the cycle as a child of its active commit and as a named continuation.    *)
(* The cycle of the revision sorts before the cycle of the root.             *)
EXTENDS CycleStore, TLC
CONSTANTS root, rev

MCCommits  == {root, rev}
MCParent   == (root :> None) @@ (rev :> root)
MCDescends == {<<root, rev>>}
MCRank     == (root :> 2) @@ (rev :> 1)

Symmetry == Permutations(Audits) \cup Permutations(Verifiers) \cup Permutations(Rules)
=============================================================================
