--------------------------- MODULE MCCostingState ---------------------------
(* Small instances of CostingState for TLC. *)
EXTENDS CostingState, TLC

Threads == Permutations(Callers)
=============================================================================
