------------------------ MODULE MCPlannerRelations ------------------------
(* Instances of PlannerRelations for TLC: labels with capitals are stored  *)
(* in lower case.                                                          *)
EXTENDS PlannerRelations

CONSTANTS small, capital

MCConfigs == {small, capital}
MCLower(c) == IF c = capital THEN small ELSE c

=============================================================================
