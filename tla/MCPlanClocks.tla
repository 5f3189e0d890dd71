---------------------------- MODULE MCPlanClocks ---------------------------
(* Instances of PlanClocks for TLC. *)
EXTENDS PlanClocks

TwoClocks == {"30m", "1d"}

=============================================================================
