------------------------------ MODULE JobStore ------------------------------
(***************************************************************************)
(* The planner's job and flavor tables (internal/database/database.go) and *)
(* the flavor-assignment algorithm behind "pressure".  Each exported       *)
(* method sends one batch, which Postgres runs as one transaction: here    *)
(* one action, so batches are serial (what two batches may do to each      *)
(* other under READ COMMITTED is not modelled in this module).             *)
(*                                                                         *)
(* What GitHub says of a job never changes, so a job's platform and labels *)
(* are constants; a flavor's are chosen when it is created.  Labels are    *)
(* taken after stripDefaultLabels and lowercaseLabels.                     *)
(***************************************************************************)
EXTENDS FiniteSets, Naturals

CONSTANTS Jobs, Names, Platforms, Labels,
          NoFlavor,         \* SQL NULL in job.assigned_flavor
          Priorities,
          Minimums,         \* values of flavor.minimum_pressure
          JobPlatform,      \* the platform of each job
          JobLabels,        \* the labels of each job
          FlavorPlatform    \* the platform the server passes for flavors

ASSUME StoreAssumption ==
  /\ NoFlavor \notin Names
  /\ Priorities \subseteq Nat /\ Priorities # {}
  /\ Minimums \subseteq Nat /\ Minimums # {}
  /\ JobPlatform \in [Jobs -> Platforms]
  /\ JobLabels \in [Jobs -> SUBSET Labels]
  /\ FlavorPlatform \in Platforms

FlavorSpecs == [platform : Platforms, labels : SUBSET Labels,
                priority : Priorities, minimum : Minimums]

VARIABLES
  flavors,   \* names in the flavor table
  spec,      \* the row of each, as of its creation
  disabled,  \* flavors with is_disabled
  known,     \* jobs in the job table
  started,   \* jobs with started_at
  completed, \* jobs with completed_at
  assigned,  \* job.assigned_flavor
  expired,   \* jobs created more than 5 days ago
  notified   \* the last committed batch sent NOTIFY pressure_change

flavorVars == <<flavors, spec, disabled>>
jobVars == <<known, started, completed, assigned>>
storeVars == <<flavorVars, jobVars, expired, notified>>

\* No job, complete or not, refers to a flavor that is gone: the foreign key
\* would refuse the delete.
StoreTypeOK ==
  /\ flavors \subseteq Names
  /\ spec \in [Names -> FlavorSpecs]
  /\ disabled \subseteq flavors
  /\ known \subseteq Jobs
  /\ started \subseteq known
  /\ completed \subseteq known
  /\ assigned \in [Jobs -> flavors \union {NoFlavor}]
  /\ expired \subseteq Jobs
  /\ notified \in BOOLEAN

NoRow == CHOOSE row \in FlavorSpecs : TRUE

StoreInit ==
  /\ flavors = {} /\ spec = [f \in Names |-> NoRow]
  /\ disabled = {}
  /\ known = {} /\ started = {} /\ completed = {}
  /\ assigned = [j \in Jobs |-> NoFlavor]
  /\ expired = {}
  /\ notified = FALSE

-----------------------------------------------------------------------------
(* The assignment algorithm.                                               *)

Matches(row, j) == row.platform = JobPlatform[j] /\ JobLabels[j] \subseteq row.labels

\* The enabled flavors of the tables fs, off, sp that can run a job.
Candidates(fs, off, sp, j) == {f \in fs \ off : Matches(sp[f], j)}

\* Seeded fault: no ORDER BY.
Choices_Unordered(fs, off, sp, j) ==
  IF Candidates(fs, off, sp, j) = {} THEN {NoFlavor} ELSE Candidates(fs, off, sp, j)

\* ORDER BY priority DESC, random() LIMIT 1
Choices(fs, off, sp, j) ==
  LET c == Candidates(fs, off, sp, j) IN
  IF c = {} THEN {NoFlavor}
  ELSE {f \in c : \A g \in c : sp[g].priority <= sp[f].priority}

\* updateAssignedFlavorSql on the tables a batch has written so far: every
\* incomplete job without a flavor gets one, if any can run it.
Reassign(fs, off, sp, cleared) ==
  /\ assigned' \in [Jobs -> Names \union {NoFlavor}]
  /\ \A j \in Jobs :
       IF j \in known \ completed /\ cleared[j] = NoFlavor
       THEN assigned'[j] \in Choices(fs, off, sp, j)
       ELSE assigned'[j] = cleared[j]

\* UPDATE job SET assigned_flavor = NULL of one flavor's jobs
Cleared(f) ==
  [j \in Jobs |-> IF assigned[j] = f /\ JobPlatform[j] = FlavorPlatform
                  THEN NoFlavor ELSE assigned[j]]

-----------------------------------------------------------------------------
(* Jobs.                                                                   *)

\* AddJob of a new job; `done` when the payload already holds completed_at.
AddJob(j, begun, done) ==
  /\ j \notin known
  /\ known' = known \union {j}
  /\ started' = IF begun THEN started \union {j} ELSE started
  /\ completed' = IF done THEN completed \union {j} ELSE completed
  /\ \E f \in IF done THEN {NoFlavor} ELSE Choices(flavors, disabled, spec, j) :
       assigned' = [assigned EXCEPT ![j] = f]
  /\ notified' = TRUE
  /\ UNCHANGED <<flavorVars, expired>>

\* AddJob of a job already there: DO NOTHING, ErrExist, and still the NOTIFY.
AddJobExists(j) ==
  /\ j \in known
  /\ notified' = TRUE
  /\ UNCHANGED <<flavorVars, jobVars, expired>>

UpdateJobStarted(j) ==
  /\ j \in known
  /\ started' = started \union {j}
  /\ notified' = FALSE
  /\ UNCHANGED <<flavorVars, known, completed, assigned, expired>>

\* Seeded fault: like UpdateJobStarted, without a NOTIFY.
UpdateJobCompleted_Silent(j) ==
  /\ j \in known
  /\ completed' = completed \union {j}
  /\ notified' = FALSE
  /\ UNCHANGED <<flavorVars, known, started, assigned, expired>>

UpdateJobCompleted(j) ==
  /\ j \in known
  /\ completed' = completed \union {j}
  /\ notified' = TRUE
  /\ UNCHANGED <<flavorVars, known, started, assigned, expired>>

\* A job's created_at leaves the window of GetPressures.
Expire(j) ==
  /\ j \in known \ expired
  /\ expired' = expired \union {j}
  /\ notified' = FALSE
  /\ UNCHANGED <<flavorVars, jobVars>>

-----------------------------------------------------------------------------
(* Flavors.                                                                *)

\* Seeded fault: without a NOTIFY.
AddFlavor_Silent(f, row, off) ==
  /\ f \notin flavors
  /\ flavors' = flavors \union {f}
  /\ spec' = [spec EXCEPT ![f] = row]
  /\ disabled' = IF off THEN disabled \union {f} ELSE disabled
  /\ Reassign(flavors', disabled', spec', assigned)
  /\ notified' = FALSE
  /\ UNCHANGED <<known, started, completed, expired>>

AddFlavor(f, row, off) ==
  /\ f \notin flavors
  /\ flavors' = flavors \union {f}
  /\ spec' = [spec EXCEPT ![f] = row]
  /\ disabled' = IF off THEN disabled \union {f} ELSE disabled
  /\ Reassign(flavors', disabled', spec', assigned)
  /\ notified' = TRUE
  /\ UNCHANGED <<known, started, completed, expired>>

\* ErrExist: the rest of the batch runs all the same.
AddFlavorExists(f) ==
  /\ f \in flavors
  /\ Reassign(flavors, disabled, spec, assigned)
  /\ notified' = TRUE
  /\ UNCHANGED <<flavorVars, known, started, completed, expired>>

Served(f) == f \in flavors /\ spec[f].platform = FlavorPlatform

\* setFlavorIsDisabled(true); ErrNotExist for a flavor that is not there or not
\* of this platform, and the rest of the batch runs all the same.
DisableFlavor(f) ==
  /\ disabled' = IF Served(f) THEN disabled \union {f} ELSE disabled
  /\ Reassign(flavors, disabled', spec, Cleared(f))
  /\ notified' = TRUE
  /\ UNCHANGED <<flavors, spec, known, started, completed, expired>>

\* Seeded fault: no reassignment.
EnableFlavor_NoReassign(f) ==
  /\ disabled' = IF Served(f) THEN disabled \ {f} ELSE disabled
  /\ notified' = TRUE
  /\ UNCHANGED <<flavors, spec, jobVars, expired>>

\* setFlavorIsDisabled(false)
EnableFlavor(f) ==
  /\ disabled' = IF Served(f) THEN disabled \ {f} ELSE disabled
  /\ Reassign(flavors, disabled', spec, assigned)
  /\ notified' = TRUE
  /\ UNCHANGED <<flavors, spec, known, started, completed, expired>>

\* The row of f, if the server's platform owns it.
Row(f) == IF Served(f) THEN {f} ELSE {}

\* Seeded fault: only the incomplete jobs let go of the flavor.
DeleteFlavor_Incomplete(f) ==
  /\ flavors' = flavors \ Row(f)
  /\ disabled' = disabled \ Row(f)
  /\ spec' = [g \in Names |-> IF g \in Row(f) THEN NoRow ELSE spec[g]]
  /\ Reassign(flavors', disabled', spec',
              [j \in Jobs |-> IF j \in completed THEN assigned[j] ELSE Cleared(f)[j]])
  /\ notified' = TRUE
  /\ UNCHANGED <<known, started, completed, expired>>

\* DeleteFlavor; of a flavor that is not there, the rest of the batch.
DeleteFlavor(f) ==
  /\ flavors' = flavors \ Row(f)
  /\ disabled' = disabled \ Row(f)
  /\ spec' = [g \in Names |-> IF g \in Row(f) THEN NoRow ELSE spec[g]]
  /\ Reassign(flavors', disabled', spec', Cleared(f))
  /\ notified' = TRUE
  /\ UNCHANGED <<known, started, completed, expired>>

-----------------------------------------------------------------------------
JobNext ==
  \E j \in Jobs :
    \/ \E begun, done \in BOOLEAN : AddJob(j, begun, done)
    \/ AddJobExists(j) \/ UpdateJobStarted(j) \/ UpdateJobCompleted(j)

FlavorNext ==
  \E f \in Names :
    \/ \E row \in FlavorSpecs, off \in BOOLEAN : AddFlavor(f, row, off)
    \/ AddFlavorExists(f) \/ DisableFlavor(f) \/ EnableFlavor(f) \/ DeleteFlavor(f)

StoreNext == JobNext \/ FlavorNext \/ \E j \in Jobs : Expire(j)

StoreSpec == StoreInit /\ [][StoreNext]_storeVars

-----------------------------------------------------------------------------
(* Pressure, and the properties.                                           *)

Load(f) == Cardinality({j \in known \ (completed \union expired) : assigned[j] = f})

\* GetPressures of one flavor.
Pressure(f) ==
  IF Load(f) < spec[f].minimum THEN spec[f].minimum ELSE Load(f)

\* Whatever the order of job and flavor calls, an incomplete job is assigned to
\* an existing, enabled flavor that can run it, and is unassigned only if there
\* is none: no demand is lost and none is sent where no runner will come.
DemandPlaced ==
  \A j \in known \ completed :
    /\ assigned[j] # NoFlavor => assigned[j] \in Candidates(flavors, disabled, spec, j)
    /\ assigned[j] = NoFlavor => Candidates(flavors, disabled, spec, j) = {}

\* A job moves to another flavor only when its own is disabled or deleted, and
\* what it gets is then of the highest priority there is.
StickyAndBest ==
  [][\A j \in Jobs : assigned'[j] # assigned[j] =>
       /\ assigned[j] \notin flavors' \ disabled'
       /\ assigned'[j] # NoFlavor =>
            \A g \in Candidates(flavors', disabled', spec', j) :
              spec'[g].priority <= spec'[assigned'[j]].priority]_storeVars

\* Every batch that changes the pressure of a flavor notifies the streams; only
\* the passing of time changes it unannounced.
ChangesAnnounced ==
  [][expired' = expired =>
       \A f \in flavors \union flavors' :
         \/ notified'
         \/ (f \in flavors <=> f \in flavors') /\ Pressure(f)' = Pressure(f)]_storeVars

=============================================================================
