------------------------- MODULE MCPlanAuthorization -------------------------
(* The sets are model values and strings of the configuration.               *)
EXTENDS PlanAuthorization
=============================================================================
