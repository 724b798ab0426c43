-------------------------- MODULE MCWorkerLifecycle --------------------------
(***************************************************************************)
(* Small instances of WorkerLifecycle.                                     *)
(***************************************************************************)
EXTENDS WorkerLifecycle, TLC

\* Every session is a wake of the one role.
SameRole == [s \in Sessions |-> CHOOSE r \in Roles : TRUE]

\* Sessions of one role, attempts and files are alike.
Interchangeable ==
    Permutations(Sessions) \cup Permutations(Attempts) \cup Permutations(Files)

=============================================================================
