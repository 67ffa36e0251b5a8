------------------------ MODULE MCLocalProjectApply ------------------------
(* LocalProjectApply with two commits, two sessions and two threads, each   *)
(* of which may be exchanged with the other.                                *)
EXTENDS LocalProjectApply, TLC

Symmetry == Permutations(Commits) \cup Permutations(Sessions) \cup Permutations(Threads)
=============================================================================
