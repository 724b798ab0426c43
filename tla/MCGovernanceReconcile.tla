------------------------ MODULE MCGovernanceReconcile ------------------------
(***************************************************************************)
(* Small instances of GovernanceReconcile.                                 *)
(***************************************************************************)
EXTENDS GovernanceReconcile, TLC

\* The threads are alike.
Interchangeable == Permutations(Syncers)

=============================================================================
