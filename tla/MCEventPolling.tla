---------------------------- MODULE MCEventPolling ----------------------------
(***************************************************************************)
(* Small instances of EventPolling.                                        *)
(***************************************************************************)
EXTENDS EventPolling, TLC

\* The processes that poll are alike.
Interchangeable == Permutations(Pollers)

=============================================================================
