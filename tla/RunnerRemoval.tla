---------------------------- MODULE RunnerRemoval ----------------------------
(***************************************************************************)
(* The removal of the runners of a scale set that is being deleted: the    *)
(* orphan sweep's _delete_orphaned with _remove_runners, _is_running_job,  *)
(* _is_delete_stuck, _delete_runner and its bypass.  Each pass disables    *)
(* the scale set, lists its instances and, from that one listing, deletes  *)
(* them one call at a time while jobs start and end, their messages arrive *)
(* late or never, and GARM's own workers create and tear down instances.   *)
(* ScalesetReconciler abstracts all of this to "the scale set still lists  *)
(* an instance", and lets every removal leave instances behind.            *)
(*                                                                         *)
(* GARM and the cloud are external: their actions come from what the       *)
(* charm's code and comments rely on.                                      *)
(***************************************************************************)
EXTENDS Naturals

CONSTANTS Runners,
          MaxRaces   \* bound on the times GARM's worker hides a failed teardown from a pass

ASSUME RemovalAssumption == MaxRaces \in Nat

Statuses == {"none", "creating", "running", "error",
             "pending_delete", "deleting", "pending_force_delete"}

Deletable == {"running", "error", "pending_delete", "pending_force_delete"}

VARIABLES
  status,    \* GARM's status of each runner, "none" when it holds no record
  active,    \* its runner_status: "none", or "active" with GARM's last write to
             \* the runner less ("fresh") or more ("stale") than MAX_JOB_RUNTIME ago
  job,       \* its job record, holding the runner, with that record's own age
  fault,     \* runners with a recorded provider fault
  inflight,  \* creates accepted before the scale set was disabled
  cloud,     \* runners with an instance in the cloud
  working,   \* runners really executing a job
  served,    \* runners that were given their one job
  races,     \* failed teardowns hidden from the listings so far
  excused,   \* teardown failed at the provider, or an operator forced the delete
  healthy,   \* GARM's API answers
  authorized,\* GitHub accepts the deregistration of a runner
  pc,        \* the pass: "idle", "disabled", "empty" after an empty listing or
             \* "removing"; "gone" once the scale set is deleted
  listed,    \* the statuses the listing showed
  claimed,   \* runners the listing showed with a record, of any age, of a job
  force,     \* runners the pass deletes with force_remove
  todo,      \* runners the pass has still to delete
  retrying   \* the runner whose delete was answered unauthorized

recordVars == <<active, job>>
truthVars == <<cloud, working, served>>
garmVars == <<status, recordVars, fault, inflight, truthVars, races, excused>>
switchVars == <<healthy, authorized>>
passVars == <<pc, listed, claimed, force, todo, retrying>>
vars == <<garmVars, switchVars, passVars>>

Ages == {"none", "fresh", "stale"}

TypeOK ==
  /\ status \in [Runners -> Statuses]
  /\ active \in [Runners -> Ages]
  /\ job \in [Runners -> Ages]
  /\ fault \subseteq Runners
  /\ inflight \subseteq Runners
  /\ cloud \subseteq Runners
  /\ working \subseteq cloud \intersect served
  /\ served \subseteq Runners
  /\ races \in 0..MaxRaces
  /\ excused \subseteq Runners
  /\ healthy \in BOOLEAN /\ authorized \in BOOLEAN
  /\ pc \in {"idle", "disabled", "empty", "removing", "gone"}
  /\ listed \in [Runners -> Statuses]
  /\ claimed \subseteq Runners
  /\ force \subseteq Runners
  /\ todo \subseteq Runners
  /\ retrying \subseteq todo

Absent == [r \in Runners |-> "none"]

\* A scale set dropped from the desired set, with creates in flight.
Init ==
  /\ status \in [Runners -> {"none", "running"}]
  /\ inflight = {r \in Runners : status[r] = "none"}
  /\ cloud = Runners \ inflight
  /\ active = Absent /\ job = Absent
  /\ fault = {} /\ working = {} /\ served = {} /\ excused = {}
  /\ races = 0
  /\ healthy = TRUE /\ authorized = TRUE
  /\ pc = "idle"
  /\ listed = Absent
  /\ claimed = {} /\ force = {} /\ todo = {} /\ retrying = {}

-----------------------------------------------------------------------------
(* What the pass reads into the listing.                                   *)

\* Seeded fault: the job record is not consulted.
IsRunningJob_StatusOnly(r) == active[r] = "fresh"

\* Seeded fault: a record counts as a job however old it is.
IsRunningJob_Ageless(r) == active[r] # "none" \/ job[r] # "none"

\* _is_running_job
IsRunningJob(r) == active[r] = "fresh" \/ job[r] = "fresh"

\* Seeded fault: any recorded fault stands for a failed teardown.
IsDeleteStuck_AnyFault(r) == r \in fault \/ status[r] = "pending_force_delete"

\* Seeded fault: a parked forced delete needs a fault still readable.
IsDeleteStuck_FaultOnly(r) ==
  status[r] \in {"pending_delete", "pending_force_delete"} /\ r \in fault

\* _is_delete_stuck
IsDeleteStuck(r) ==
  \/ status[r] = "pending_force_delete"
  \/ status[r] = "pending_delete" /\ r \in fault

-----------------------------------------------------------------------------
(* The pass.                                                               *)

PassOver ==
  /\ pc' = "idle"
  /\ listed' = Absent
  /\ claimed' = {} /\ force' = {} /\ todo' = {} /\ retrying' = {}

\* _disable, on every pass.
Disable ==
  /\ pc = "idle"
  /\ healthy
  /\ pc' = "disabled"
  /\ UNCHANGED <<garmVars, switchVars, listed, claimed, force, todo, retrying>>

Present == {r \in Runners : status[r] # "none"}

\* The listing, and what _remove_runners decides about each runner in it.  An
\* empty one lets the pass go on to the delete of the scale set.
ListRunners ==
  /\ pc = "disabled"
  /\ healthy
  /\ pc' = IF Present = {} THEN "empty" ELSE "removing"
  /\ listed' = status
  /\ claimed' = {r \in Present : active[r] # "none" \/ job[r] # "none"}
  /\ todo' = {r \in Present : status[r] \in Deletable /\ ~IsRunningJob(r)}
  /\ force' = {r \in Present : IsDeleteStuck(r)}
  /\ UNCHANGED <<garmVars, switchVars, retrying>>

\* delete_scaleset, after an empty listing.
DeleteScaleset ==
  /\ pc = "empty"
  /\ healthy
  /\ Present = {}
  /\ pc' = "gone"
  /\ inflight' = {}
  /\ UNCHANGED <<status, recordVars, fault, truthVars, races, excused, switchVars,
                 listed, claimed, force, todo, retrying>>

\* GARM refuses it: a create in flight was recorded since the listing, or the
\* API fails.  The next pass starts over.
DeleteRefused ==
  /\ pc = "empty"
  /\ Present # {} \/ ~healthy
  /\ PassOver
  /\ UNCHANGED <<garmVars, switchVars>>

\* GARM writes the runner, whatever for: its updated_at starts over.
Touch(r) ==
  active' = [active EXCEPT ![r] = IF active[r] = "stale" THEN "fresh" ELSE active[r]]

\* GARM accepts the delete: the runner is deregistered, its record moves to one
\* of the delete-pending statuses and the recorded fault is cleared.  The job of
\* a runner that was working dies with it.
Accept(r) ==
  /\ status[r] \in Deletable
  /\ status' = [status EXCEPT ![r] = IF r \in force THEN "pending_force_delete"
                                     ELSE "pending_delete"]
  /\ fault' = fault \ {r}
  /\ working' = working \ {r}
  /\ Touch(r)
  /\ UNCHANGED <<job, inflight, cloud, served, races, excused>>

Done(r) ==
  /\ todo' = todo \ {r}
  /\ retrying' = {}
  /\ UNCHANGED <<pc, listed, claimed, force>>

\* _delete_runner, the first call.
DeleteRunner(r) ==
  /\ pc = "removing" /\ r \in todo /\ retrying = {}
  /\ healthy /\ authorized
  /\ Accept(r)
  /\ Done(r)
  /\ UNCHANGED switchVars

\* GitHub answers unauthorized: the bypass is tried next.
DeleteUnauthorized(r) ==
  /\ pc = "removing" /\ r \in todo /\ retrying = {}
  /\ healthy /\ ~authorized
  /\ status[r] \in Deletable
  /\ retrying' = {r}
  /\ UNCHANGED <<garmVars, switchVars, pc, listed, claimed, force, todo>>

\* _delete_runner_bypassing_github
DeleteBypassing(r) ==
  /\ pc = "removing" /\ r \in retrying
  /\ healthy
  /\ Accept(r)
  /\ Done(r)
  /\ UNCHANGED switchVars

\* Either call finds the runner gone (404), in a status GARM does not delete
\* from (400), or the API failing: the next pass tries again.
DeleteDeferred(r) ==
  /\ pc = "removing" /\ r \in todo
  /\ retrying \subseteq {r}
  /\ status[r] \notin Deletable \/ ~healthy
  /\ Done(r)
  /\ UNCHANGED <<garmVars, switchVars>>

EndPass ==
  /\ pc = "removing" /\ todo = {}
  /\ PassOver
  /\ UNCHANGED <<garmVars, switchVars>>

\* A call before the removals fails, GARM is unreachable or the hook dies.
Abort ==
  /\ pc \in {"disabled", "empty", "removing"}
  /\ ~healthy
  /\ PassOver
  /\ UNCHANGED <<garmVars, switchVars>>

Pass ==
  \/ Disable \/ ListRunners \/ DeleteScaleset \/ DeleteRefused \/ EndPass \/ Abort
  \/ \E r \in Runners :
       DeleteRunner(r) \/ DeleteUnauthorized(r) \/ DeleteBypassing(r) \/ DeleteDeferred(r)

-----------------------------------------------------------------------------
(* GARM's workers and the provider.                                        *)

\* A create in flight is recorded.
Appear(r) ==
  /\ r \in inflight
  /\ inflight' = inflight \ {r}
  /\ status' = [status EXCEPT ![r] = "creating"]
  /\ UNCHANGED <<recordVars, fault, truthVars, races, excused>>

CreateDone(r) ==
  /\ status[r] = "creating"
  /\ \/ /\ status' = [status EXCEPT ![r] = "running"]
        /\ cloud' = cloud \union {r}
        /\ UNCHANGED fault
     \/ /\ status' = [status EXCEPT ![r] = "error"]
        /\ cloud' \in {cloud, cloud \union {r}}
        /\ fault' = fault \union {r}
  /\ UNCHANGED <<recordVars, inflight, working, served, races, excused>>

\* GARM's own reaper requests the delete of a runner it believes idle.
Reap(r) ==
  /\ status[r] = "running"
  /\ active[r] = "none" /\ r \notin working
  /\ status' = [status EXCEPT ![r] = "pending_delete"]
  /\ UNCHANGED <<recordVars, fault, inflight, truthVars, races, excused>>

\* The delete worker picks the runner up, and clears the fault.  It backs off
\* after a failure, so it retries before a listing saw a fault to act on, or
\* fails between a listing and that pass's deletes, only so often (MaxRaces).
Race == races < MaxRaces /\ races' = races + 1

StartTeardown(r) ==
  /\ status[r] = "pending_delete"
  /\ status' = [status EXCEPT ![r] = "deleting"]
  /\ \/ (r \notin fault \/ IsRunningJob(r)) /\ UNCHANGED races
     \/ r \in fault /\ ~IsRunningJob(r) /\ Race
  /\ fault' = fault \ {r}
  /\ Touch(r)
  /\ UNCHANGED <<job, inflight, truthVars, excused>>

Forget(r) ==
  /\ status' = [status EXCEPT ![r] = "none"]
  /\ active' = [active EXCEPT ![r] = "none"]
  /\ job' = [job EXCEPT ![r] = "none"]
  /\ fault' = fault \ {r}
  /\ UNCHANGED <<inflight, served, races, excused>>

TeardownDone(r) ==
  /\ status[r] \in {"deleting", "pending_force_delete"}
  /\ cloud' = cloud \ {r}
  /\ working' = working \ {r}
  /\ Forget(r)

TeardownFails(r) ==
  /\ status[r] = "deleting"
  /\ status' = [status EXCEPT ![r] = "pending_delete"]
  /\ fault' = fault \union {r}
  /\ excused' = excused \union {r}
  /\ \/ (pc # "removing" \/ IsRunningJob(r)) /\ UNCHANGED races
     \/ pc = "removing" /\ ~IsRunningJob(r) /\ Race
  /\ Touch(r)
  /\ UNCHANGED <<job, inflight, truthVars>>

\* A forced delete drops the record even when the provider fails.
ForcedTeardownFails(r) ==
  /\ status[r] = "pending_force_delete"
  /\ Forget(r)
  /\ UNCHANGED <<cloud, working>>

OperatorForces(r) ==
  /\ status[r] \in Deletable \ {"pending_force_delete"}
  /\ r \notin working
  /\ status' = [status EXCEPT ![r] = "pending_force_delete"]
  /\ fault' = fault \ {r}
  /\ excused' = excused \union {r}
  /\ Touch(r)
  /\ UNCHANGED <<job, inflight, truthVars, races>>

-----------------------------------------------------------------------------
(* Jobs: a runner executes one; the messages about it arrive late or never. *)

JobStarts(r) ==
  /\ status[r] = "running" /\ r \in cloud \ served
  /\ working' = working \union {r}
  /\ served' = served \union {r}
  /\ UNCHANGED <<status, recordVars, fault, inflight, cloud, races, excused>>

RecordStart(r) ==
  /\ r \in working /\ status[r] # "none"
  /\ \/ active[r] = "none" /\ active' = [active EXCEPT ![r] = "fresh"] /\ UNCHANGED job
     \/ job[r] = "none" /\ job' = [job EXCEPT ![r] = "fresh"] /\ UNCHANGED active
  /\ UNCHANGED <<status, fault, inflight, truthVars, races, excused>>

JobEnds(r) ==
  /\ r \in working
  /\ working' = working \ {r}
  /\ UNCHANGED <<status, recordVars, fault, inflight, cloud, served, races, excused>>

RecordEnd(r) ==
  /\ r \in served \ working
  /\ active[r] # "none" \/ job[r] # "none"
  /\ active' = [active EXCEPT ![r] = "none"]
  /\ job' = [job EXCEPT ![r] = "none"]
  /\ UNCHANGED <<status, fault, inflight, truthVars, races, excused>>

\* MAX_JOB_RUNTIME elapses since GARM wrote the record.  GitHub ends a job
\* within that time, so a job still running has no record this old.  A runner
\* whose teardown GARM retries, with a backoff of minutes, is written each time.
GrowsStale(r) ==
  /\ r \notin working
  /\ \/ /\ active[r] = "fresh" /\ status[r] \notin {"pending_delete", "deleting"}
        /\ active' = [active EXCEPT ![r] = "stale"] /\ UNCHANGED job
     \/ job[r] = "fresh" /\ job' = [job EXCEPT ![r] = "stale"] /\ UNCHANGED active
  /\ UNCHANGED <<status, fault, inflight, truthVars, races, excused>>

-----------------------------------------------------------------------------
Runner(r) ==
  \/ Appear(r) \/ CreateDone(r) \/ Reap(r) \/ StartTeardown(r) \/ TeardownDone(r)
  \/ TeardownFails(r) \/ ForcedTeardownFails(r) \/ OperatorForces(r)
  \/ JobStarts(r) \/ RecordStart(r) \/ JobEnds(r) \/ RecordEnd(r) \/ GrowsStale(r)

Undisturbed == pc # "gone" /\ UNCHANGED <<switchVars, passVars>>

Garm == (\E r \in Runners : Runner(r)) /\ Undisturbed

Switch ==
  /\ pc # "gone"
  /\ \/ healthy' = ~healthy /\ UNCHANGED authorized
     \/ authorized' = ~authorized /\ UNCHANGED healthy
  /\ UNCHANGED <<garmVars, passVars>>

Next == Pass \/ Garm \/ Switch

Spec == Init /\ [][Next]_vars

\* Hooks keep running and run to their end; GARM finishes the creates and
\* teardowns it starts, one way or the other; GitHub ends every job; time
\* passes.  No message about a job is sure to arrive.
Workers(r) ==
  Appear(r) \/ CreateDone(r) \/ StartTeardown(r) \/ TeardownDone(r) \/ TeardownFails(r)
  \/ ForcedTeardownFails(r)

FairSpec ==
  /\ Spec
  /\ WF_vars(Pass)
  /\ \A r \in Runners :
       /\ WF_vars(Workers(r) /\ Undisturbed)
       /\ WF_vars(JobEnds(r) /\ Undisturbed)
       /\ WF_vars(GrowsStale(r) /\ Undisturbed)

-----------------------------------------------------------------------------
(* Properties.                                                             *)

\* No delete of the charm kills a job that the listing it acts on showed in any
\* record, however late or partial the messages: only a job of which GARM knew
\* nothing at that time is exposed (the residual race _remove_runners names).
KnownJobSpared ==
  [][Pass => \A r \in working \ working' : r \notin claimed]_vars

\* A cloud instance is left without a record in GARM only after the provider
\* failed to tear it down, or an operator forced it: no runner is force-removed
\* for a fault that is not a failed teardown.
NoSilentLeak == \A r \in cloud : status[r] = "none" => r \in excused

\* A forced delete that the listing showed in place is never turned back into a
\* plain one, which would leave the runner stuck for good.
EscalationKept ==
  [][Pass => \A r \in Runners :
       /\ listed[r] = "pending_force_delete"
       /\ status[r] = "pending_force_delete"
       => status'[r] = "pending_force_delete"]_vars

\* Once the API stays healthy the scale set is deleted, whatever the messages
\* lost, the provider's failures and GitHub's refusals, unless the provider goes
\* on failing for a runner whose record still says active.
ScalesetGoes ==
  /\ <>[]healthy
  /\ \A r \in Runners : ~[]<>(r \in fault /\ active[r] # "none")
  => <>(pc = "gone")

=============================================================================
