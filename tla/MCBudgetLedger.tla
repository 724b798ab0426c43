---------------------------- MODULE MCBudgetLedger ----------------------------
(***************************************************************************)
(* A small instance of BudgetLedger: two wakes of one role, one of another.*)
(***************************************************************************)
EXTENDS BudgetLedger, TLC

CONSTANTS w1, w2, w3, r1, r2

TwoAndOne == w1 :> r1 @@ w2 :> r1 @@ w3 :> r2

\* The wakes of the first role are interchangeable.
Interchangeable == Permutations({w1, w2})

=============================================================================
