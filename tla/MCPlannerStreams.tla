-------------------------- MODULE MCPlannerStreams --------------------------
(* Instances of PlannerStreams for TLC: jobs any flavor of the platform can *)
(* run.                                                                     *)
EXTENDS PlannerStreams

CONSTANT github

OnePlatform == [j \in Jobs |-> github]
NoLabel == [j \in Jobs |-> {}]

=============================================================================
