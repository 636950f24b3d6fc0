------------------------------ MODULE MCBudget ------------------------------
(* Instances of Budget for TLC. *)
EXTENDS Budget

LOCAL INSTANCE TLC

\* Task 1 has the longer deadline although it is registered first; task 2's own
\* timeout is shorter than the budget.
MCTimeouts == 2 :> 1
=============================================================================
