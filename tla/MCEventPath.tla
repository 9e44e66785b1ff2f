----------------------------- MODULE MCEventPath -----------------------------
(* Instances of EventPath for TLC: messages that do not parse, which are     *)
(* recorded in the dead-letter queue.                                        *)
EXTENDS EventPath

CONSTANT github

NoJob == [j \in Jobs |-> github]
NoLabel == [j \in Jobs |-> {}]

=============================================================================
