----------------------------- MODULE CallBudgetMC -----------------------------
(***************************************************************************)
(* The bank and the catalog of CoordinatorMC, for CallBudget.              *)
(***************************************************************************)
EXTENDS CallBudget, CoordinatorMC
=============================================================================
