---------------------------- MODULE MCCollection ----------------------------
(* Small instances of Collection for TLC. *)
EXTENDS CollectionInv, CollectionRefinement, TLC

\* Safety runs only: jobs and workers are interchangeable.
Symmetry == Permutations(Job) \cup Permutations(Worker)

=============================================================================
