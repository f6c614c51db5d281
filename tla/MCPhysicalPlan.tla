---------------------------- MODULE MCPhysicalPlan ----------------------------
(* Model-checking instance of PhysicalPlan: MCPhysicalPlan.cfg. *)
EXTENDS PhysicalPlan

MCAmount == {-2, 1, 3}
=============================================================================
