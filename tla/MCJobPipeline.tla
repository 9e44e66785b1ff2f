---------------------------- MODULE MCJobPipeline ----------------------------
(* Instances of JobPipeline for TLC: jobs of one platform, no flavors.     *)
EXTENDS JobPipeline

CONSTANT github

OnePlatform == [j \in Jobs |-> github]
NoLabel == [j \in Jobs |-> {}]

=============================================================================
