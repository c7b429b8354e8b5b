----------------------------- MODULE MCPlanner -----------------------------
(***************************************************************************)
(* Instances of Planner for TLC.                                           *)
(***************************************************************************)
EXTENDS Planner, TLC

Symmetry == Permutations(Asks)
ToolSymmetry == Permutations(Served)

=============================================================================
