--------------------------- MODULE PlannerStreams ---------------------------
(* The job table and a pressure stream on it: JobStore in place of the       *)
(* database that PressureStream abstracts.  The stream is for one flavor,    *)
(* and PostgreSQL hands the NOTIFY of a committed batch to the connections   *)
(* that listen at that time.                                                 *)
EXTENDS JobStore, PressureStream

CONSTANT Watched   \* the flavor of the stream

ASSUME WatchedAssumption ==
  /\ Watched \in Names
  /\ \A js \in SUBSET Jobs : Cardinality(js) \in Pressures
  /\ Minimums \subseteq Pressures

\* GetPressures of the flavor, on the server's platform.
Shown == IF Served(Watched) THEN Pressure(Watched) ELSE Missing

\* A batch commits, or a job grows too old to count, which alone leaves the stream
\* with an answer it cannot have heard of.  Batches that neither notify nor change
\* the answer are not bounded.
StoreStep ==
  /\ StoreNext
  /\ pressure' = Shown'
  /\ notices' = IF notified' /\ Connected THEN notices + 1 ELSE notices
  /\ unread' = IF expired' = expired \/ pressure' = pressure THEN unread ELSE Open
  /\ IF notified' \/ pressure' # pressure
     THEN changes < MaxChanges /\ changes' = changes + 1
     ELSE UNCHANGED changes
  /\ UNCHANGED <<phase, server, gone, forwarder, channel, broken>>

PlannerInit == StoreInit /\ StreamInit /\ pressure = Shown

PlannerNext ==
  /\ Running
  /\ \/ StoreStep
     \/ ProcessStep /\ UNCHANGED storeVars

PlannerSpec == PlannerInit /\ [][PlannerNext]_<<storeVars, streamVars>>

\* The fairness of the stream; nothing is assumed of jobs and flavors.
FairPlannerSpec == PlannerSpec /\ StreamFairness

-----------------------------------------------------------------------------
(* Properties.                                                             *)

\* The table is a database as the stream takes it to be: whatever batch adds the
\* flavor, removes it or changes its pressure comes with a notification, and only
\* a flavor that is there has its pressure change in silence.
ImplementsStream == StreamSpec

=============================================================================
