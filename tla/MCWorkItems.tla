----------------------------- MODULE MCWorkItems -----------------------------
(***************************************************************************)
(* Small instances of WorkItems.                                           *)
(***************************************************************************)
EXTENDS WorkItems, TLC

CONSTANTS i1, i2

\* An objective to break down, a feature to deliver.
OneOfTwo == {(i1 :> k) @@ (i2 :> "none") : k \in {"objective", "feature"}}

\* Requests in flight are alike.
Interchangeable == Permutations(Agents)

=============================================================================
