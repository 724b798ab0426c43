--------------------------- MODULE MCWakeLifecycle ---------------------------
(***************************************************************************)
(* Small instances of WakeLifecycle.  Every wake, delivery, role and       *)
(* supervisor process is a model value.                                    *)
(***************************************************************************)
EXTENDS WakeLifecycle, TLC

CONSTANTS r1, r2, d1, d2

\* One role for all deliveries: the wakes compete for it.
OneRole == [d \in Deliveries |-> r1]

\* Wakes and processes are interchangeable in every property.
Interchangeable == Permutations(Wakes) \cup Permutations(Procs)

=============================================================================
