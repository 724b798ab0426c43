------------------------------ MODULE AtMostOnce ------------------------------
(***************************************************************************)
(* What the delivery table promises the organization, without sessions,    *)
(* processes, leases or supervisors: a delivery waits, is committed to     *)
(* execution at most once, and is closed for good.  Work is done on it at  *)
(* most once, by one wake, and only after the commitment.                  *)
(***************************************************************************)
CONSTANTS Deliveries, Wakes

VARIABLES
    phase,   \* phase[d]: "waiting", "committed" or "closed"
    works    \* works[d]: the wakes that were prompted for d

vars == <<phase, works>>

Init ==
    /\ phase = [d \in Deliveries |-> "waiting"]
    /\ works = [d \in Deliveries |-> {}]

\* start_delivery: from here on the delivery can only be closed.
Commit(d) ==
    /\ phase[d] = "waiting"
    /\ phase' = [phase EXCEPT ![d] = "committed"]
    /\ UNCHANGED works

\* A provider receives the events of d.  A pause or a lapsed lease may already
\* have closed the delivery; the work is then unreported, never repeated.
Work(d, w) ==
    /\ phase[d] # "waiting" /\ works[d] = {}
    /\ works' = [works EXCEPT ![d] = {w}]
    /\ UNCHANGED phase

\* Deliveries reach an outcome, or are given up before any work; one sweep of
\* the table may close several.
Close(D) ==
    /\ \A d \in D : phase[d] # "closed"
    /\ phase' = [d \in Deliveries |-> IF d \in D THEN "closed" ELSE phase[d]]
    /\ UNCHANGED works

Next ==
    \/ \E d \in Deliveries : Commit(d)
    \/ \E d \in Deliveries, w \in Wakes : Work(d, w)
    \/ \E D \in SUBSET Deliveries : Close(D)

Spec == Init /\ [][Next]_vars

=============================================================================
