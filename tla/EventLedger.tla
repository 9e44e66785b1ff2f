---------------------------- MODULE EventLedger ----------------------------
(***************************************************************************)
(* What the planner's intake promises, seen from GitHub: every workflow    *)
(* job event that was sent is recorded, in whatever order, nothing that    *)
(* was recorded is taken back, and recording never stops before the end.   *)
(***************************************************************************)
CONSTANT Events

VARIABLE recorded

Init == recorded = {}

\* One message may settle several events: a completed payload names the start.
Record ==
  \E new \in SUBSET (Events \ recorded) :
    new # {} /\ recorded' = recorded \union new

Spec == Init /\ [][Record]_recorded /\ WF_recorded(Record)

=============================================================================
