---------------------------- MODULE MCPlanRunner ----------------------------
(***************************************************************************)
(* Instances of PlanRunner for TLC: plans of three tasks.                  *)
(***************************************************************************)
EXTENDS PlanRunner, TLC

MCNode == 1..3
\* 1 and 2 independent, 3 after both.
Join == (1 :> {}) @@ (2 :> {}) @@ (3 :> {1, 2})
\* 2 after 1, 3 after 2.
Chain == (1 :> {}) @@ (2 :> {1}) @@ (3 :> {2})
\* 2 and 3 after 1.
Fork == (1 :> {}) @@ (2 :> {1}) @@ (3 :> {1})

\* Task 1 has a retry, the others none.
OneRetry == [n \in MCNode |-> IF n = 1 THEN 2 ELSE 1]

\* Session ids are interchangeable.
Sessions == Permutations(Conv)
=============================================================================
