--------------------------- MODULE MCDeliveryQueue ---------------------------
(***************************************************************************)
(* Small instances of DeliveryQueue: events of one role, routed by a rule  *)
(* of its own and by label, and events that no rule or two labels match.   *)
(***************************************************************************)
EXTENDS DeliveryQueue

CONSTANTS r1, r2

TheRules == <<[match |-> {<<"kind", "run">>}, wake |-> r1],
              [match |-> {<<"kind", "issue">>}, wake |-> "from-label"]>>

\* The first two are r1's, the third names two roles and is ignored.
MixedFacts == [e \in Events |->
    CASE e = 1 -> {<<"kind", "run">>}
      [] e = 2 -> {<<"kind", "issue">>, <<"label", r1>>}
      [] OTHER -> {<<"kind", "issue">>, <<"label", r1>>, <<"label", r2>>}]

=============================================================================
