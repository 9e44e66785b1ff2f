---------------------------- MODULE PlannerProofs ----------------------------
(***************************************************************************)
(* What the planner's job table, its intake and its pressure streams       *)
(* guarantee for any number of jobs, flavors, malformed messages,          *)
(* consumers, duplicates, faults, changes and other streams.               *)
(*                                                                         *)
(* The table (StoreSpec): types, DemandPlaced, StickyAndBest and           *)
(* ChangesAnnounced.  DemandPlaced is not inductive alone: DeleteFlavor    *)
(* unassigns only the jobs of the server's platform, so that no job,       *)
(* complete or not, keeps a deleted flavor holds because an assigned       *)
(* flavor is always of the job's platform (PlatformKept).                  *)
(*                                                                         *)
(* The intake (Spec): types, NothingLost, that nothing recorded is taken   *)
(* back, and that it does to the table only what StoreSpec allows.         *)
(* NothingLost needs that an acknowledged message has been recorded, and   *)
(* that is not evident for an insert that finds the job there already:     *)
(* consumers that have lost their connection go on with what they had      *)
(* pulled and may have inserted it.  They hold nothing harmful because a   *)
(* message goes back to the head of the queue, so that whatever a detached *)
(* consumer holds unrecorded is what the attached one holds or pulls next  *)
(* (FrontInv); an insert then finds the job only if its own event has been *)
(* recorded (InsertInv).                                                   *)
(***************************************************************************)
EXTENDS JobPipeline, PlannerStreams, SequenceTheorems, TLAPS

-----------------------------------------------------------------------------
(* The tables.                                                             *)

PlatformKept ==
  \A j \in Jobs : assigned[j] # NoFlavor => spec[assigned[j]].platform = JobPlatform[j]

\* A job that is not in the table has no flavor.
Unknown == \A j \in Jobs \ known : assigned[j] = NoFlavor

StoreInv == StoreTypeOK /\ DemandPlaced /\ PlatformKept /\ Unknown

\* What the assignment f of the job j is in the tables fs, off, sp.
Placed(fs, off, sp, j, f) ==
  /\ f # NoFlavor => f \in Candidates(fs, off, sp, j)
  /\ f = NoFlavor => Candidates(fs, off, sp, j) = {}

Best(fs, off, sp, j, f) ==
  f # NoFlavor => \A g \in Candidates(fs, off, sp, j) : sp[g].priority <= sp[f].priority

\* The ORDER BY priority of the assignment query: its answer is a flavor that
\* can run the job, of the highest priority there is, or none if none can.
LEMMA ChoicesPlace ==
  ASSUME NEW fs \in SUBSET Names, NEW off, NEW sp, NEW j,
         NEW f \in Choices(fs, off, sp, j)
  PROVE  /\ f \in fs \union {NoFlavor}
         /\ Placed(fs, off, sp, j, f)
         /\ Best(fs, off, sp, j, f)
<1>1. CASE Candidates(fs, off, sp, j) = {}
  BY <1>1 DEF Choices, Placed, Best
<1>2. CASE Candidates(fs, off, sp, j) # {}
  <2>1. f \in Candidates(fs, off, sp, j)
    BY <1>2 DEF Choices
  <2>2. \A g \in Candidates(fs, off, sp, j) : sp[g].priority <= sp[f].priority
    BY <1>2 DEF Choices
  <2>3. f \in fs /\ f # NoFlavor
    BY <2>1, StoreAssumption DEF Candidates
  <2>. QED BY <2>1, <2>2, <2>3 DEF Placed, Best
<1>. QED BY <1>1, <1>2

\* updateAssignedFlavorSql: what a batch has not cleared stays, and every
\* incomplete job without a flavor is placed as well as it can be.
LEMMA ReassignPlaces ==
  ASSUME NEW fs \in SUBSET Names, NEW off, NEW sp,
         NEW cleared \in [Jobs -> fs \union {NoFlavor}],
         Reassign(fs, off, sp, cleared)
  PROVE  /\ assigned' \in [Jobs -> fs \union {NoFlavor}]
         /\ \A j \in Jobs : assigned'[j] # cleared[j] =>
              /\ j \in known \ completed
              /\ cleared[j] = NoFlavor
              /\ assigned'[j] \in Choices(fs, off, sp, j)
         /\ \A j \in Jobs : j \in known \ completed /\ cleared[j] = NoFlavor =>
              assigned'[j] \in Choices(fs, off, sp, j)
<1>1. /\ assigned' \in [Jobs -> Names \union {NoFlavor}]
      /\ \A j \in Jobs :
           IF j \in known \ completed /\ cleared[j] = NoFlavor
           THEN assigned'[j] \in Choices(fs, off, sp, j)
           ELSE assigned'[j] = cleared[j]
  BY DEF Reassign
<1>2. \A j \in Jobs : assigned'[j] \in fs \union {NoFlavor}
  BY <1>1, ChoicesPlace
<1>3. assigned' \in [Jobs -> fs \union {NoFlavor}]
  BY <1>1, <1>2
<1>. QED BY <1>1, <1>3

\* The same as the three facts a step of the invariant needs.
LEMMA ReassignKeeps ==
  ASSUME NEW fs \in SUBSET Names, NEW off, NEW sp,
         NEW cleared \in [Jobs -> fs \union {NoFlavor}],
         Reassign(fs, off, sp, cleared),
         \A j \in known \ completed :
           cleared[j] # NoFlavor => cleared[j] \in Candidates(fs, off, sp, j),
         \A j \in Jobs : cleared[j] # NoFlavor => sp[cleared[j]].platform = JobPlatform[j],
         known \subseteq Jobs
  PROVE  /\ assigned' \in [Jobs -> fs \union {NoFlavor}]
         /\ \A j \in known \ completed : Placed(fs, off, sp, j, assigned'[j])
         /\ \A j \in Jobs :
              assigned'[j] # NoFlavor => sp[assigned'[j]].platform = JobPlatform[j]
<1>1. \A j \in Jobs : \A f \in Choices(fs, off, sp, j) : Placed(fs, off, sp, j, f)
  BY ChoicesPlace
<1>2. \A j \in Jobs, f \in Names : f \in Candidates(fs, off, sp, j) => sp[f].platform = JobPlatform[j]
  BY DEF Candidates, Matches
<1>3. assigned' \in [Jobs -> fs \union {NoFlavor}]
  BY ReassignPlaces
<1>4. ASSUME NEW j \in known \ completed
      PROVE  Placed(fs, off, sp, j, assigned'[j])
  <2>1. CASE cleared[j] = NoFlavor
    BY <1>1, <2>1, ReassignPlaces
  <2>2. CASE cleared[j] # NoFlavor
    <3>1. \A i \in Jobs : assigned'[i] # cleared[i] => cleared[i] = NoFlavor
      BY ReassignPlaces
    <3>2. j \in Jobs /\ assigned'[j] = cleared[j]
      BY <2>2, <3>1
    <3>. QED BY <2>2, <3>2 DEF Placed
  <2>. QED BY <2>1, <2>2
<1>5. ASSUME NEW j \in Jobs, assigned'[j] # NoFlavor
      PROVE  sp[assigned'[j]].platform = JobPlatform[j]
  <2>1. CASE assigned'[j] = cleared[j]
    BY <1>5, <2>1
  <2>2. CASE assigned'[j] # cleared[j]
    <3>1. assigned'[j] \in Choices(fs, off, sp, j)
      BY <2>2, ReassignPlaces
    <3>2. assigned'[j] \in Candidates(fs, off, sp, j)
      BY <1>1, <1>5, <3>1 DEF Placed
    <3>. QED BY <1>2, <1>3, <1>5, <3>2
  <2>. QED BY <2>1, <2>2
<1>. QED BY <1>3, <1>4, <1>5

-----------------------------------------------------------------------------
(* The invariant.                                                          *)

LEMMA NoRowIsRow == NoRow \in FlavorSpecs
<1>1. PICK p \in Priorities, m \in Minimums : TRUE
  BY StoreAssumption
<1>2. [platform |-> FlavorPlatform, labels |-> {}, priority |-> p, minimum |-> m]
        \in FlavorSpecs
  BY StoreAssumption DEF FlavorSpecs
<1>. QED BY <1>2 DEF NoRow

LEMMA StoreInvInit == StoreInit => StoreInv
<1>. SUFFICES ASSUME StoreInit PROVE StoreInv
  OBVIOUS
<1>1. StoreTypeOK
  BY NoRowIsRow DEF StoreInit, StoreTypeOK
<1>2. DemandPlaced
  BY DEF StoreInit, DemandPlaced
<1>3. PlatformKept
  BY DEF StoreInit, PlatformKept
<1>4. Unknown
  BY DEF StoreInit, Unknown
<1>. QED BY <1>1, <1>2, <1>3, <1>4 DEF StoreInv

\* A batch that writes the flavor table and then reassigns.
LEMMA FlavorBatchKeeps ==
  ASSUME StoreInv, NEW cleared \in [Jobs -> flavors' \union {NoFlavor}],
         flavors' \subseteq Names, disabled' \subseteq flavors',
         spec' \in [Names -> FlavorSpecs], notified' \in BOOLEAN,
         UNCHANGED <<known, started, completed, expired>>,
         Reassign(flavors', disabled', spec', cleared),
         \A j \in known \ completed :
           cleared[j] # NoFlavor => cleared[j] \in Candidates(flavors', disabled', spec', j),
         \A j \in Jobs : cleared[j] # NoFlavor => spec'[cleared[j]].platform = JobPlatform[j],
         \A j \in Jobs : cleared[j] # NoFlavor => cleared[j] = assigned[j]
  PROVE  StoreInv'
<1>1. known \subseteq Jobs
  BY DEF StoreInv, StoreTypeOK
<1>2. /\ assigned' \in [Jobs -> flavors' \union {NoFlavor}]
      /\ \A j \in known \ completed : Placed(flavors', disabled', spec', j, assigned'[j])
      /\ \A j \in Jobs :
           assigned'[j] # NoFlavor => spec'[assigned'[j]].platform = JobPlatform[j]
  BY <1>1, ReassignKeeps
<1>3. StoreTypeOK'
  BY <1>2 DEF StoreInv, StoreTypeOK
<1>4. DemandPlaced'
  BY <1>2 DEF DemandPlaced, Placed
<1>5. PlatformKept'
  BY <1>2 DEF PlatformKept
<1>6. Unknown'
  <2>1. \A j \in Jobs : assigned'[j] # cleared[j] =>
          /\ j \in known \ completed
          /\ cleared[j] = NoFlavor
          /\ assigned'[j] \in Choices(flavors', disabled', spec', j)
    BY ReassignPlaces
  <2>. QED BY <2>1 DEF StoreInv, Unknown
<1>. QED BY <1>3, <1>4, <1>5, <1>6 DEF StoreInv

\* A step that leaves the flavors and the assignments alone, and adds no
\* incomplete job.
LEMMA JobUpdateKeeps ==
  ASSUME StoreInv, UNCHANGED <<flavorVars, assigned, known>>,
         started' \subseteq known, completed' \subseteq known, completed \subseteq completed',
         expired' \subseteq Jobs, notified' \in BOOLEAN
  PROVE  StoreInv'
<1>1. StoreTypeOK'
  BY DEF StoreInv, StoreTypeOK, flavorVars
<1>2. DemandPlaced'
  BY DEF StoreInv, DemandPlaced, flavorVars, Candidates
<1>3. PlatformKept'
  BY DEF StoreInv, PlatformKept, flavorVars
<1>4. Unknown'
  BY DEF StoreInv, Unknown
<1>. QED BY <1>1, <1>2, <1>3, <1>4 DEF StoreInv

LEMMA AddJobKeeps ==
  ASSUME StoreInv, NEW j \in Jobs, NEW begun \in BOOLEAN, NEW done \in BOOLEAN,
         AddJob(j, begun, done)
  PROVE  StoreInv'
<1>1. PICK f \in IF done THEN {NoFlavor} ELSE Choices(flavors, disabled, spec, j) :
        assigned' = [assigned EXCEPT ![j] = f]
  BY DEF AddJob
<1>2. /\ flavors \subseteq Names /\ known \subseteq Jobs
      /\ assigned \in [Jobs -> flavors \union {NoFlavor}]
  BY DEF StoreInv, StoreTypeOK
<1>3. /\ f \in flavors \union {NoFlavor}
      /\ f # NoFlavor => f \in Candidates(flavors, disabled, spec, j)
      /\ ~done => Placed(flavors, disabled, spec, j, f)
  BY <1>1, <1>2, ChoicesPlace DEF Placed
<1>4. StoreTypeOK'
  BY <1>1, <1>2, <1>3 DEF StoreInv, StoreTypeOK, AddJob, flavorVars
<1>5. DemandPlaced'
  <2>. SUFFICES ASSUME NEW i \in known' \ completed'
                PROVE  Placed(flavors, disabled, spec, i, assigned'[i])
    BY DEF DemandPlaced, Placed, AddJob, flavorVars, Candidates
  <2>1. CASE i = j
    BY <1>1, <1>2, <1>3, <2>1 DEF AddJob
  <2>2. CASE i # j
    BY <1>1, <1>2, <2>2 DEF AddJob, StoreInv, DemandPlaced, Placed
  <2>. QED BY <2>1, <2>2
<1>6. PlatformKept'
  <2>. SUFFICES ASSUME NEW i \in Jobs, assigned'[i] # NoFlavor
                PROVE  spec[assigned'[i]].platform = JobPlatform[i]
    BY DEF PlatformKept, AddJob, flavorVars
  <2>1. CASE i = j
    BY <1>1, <1>2, <1>3, <2>1 DEF Candidates, Matches
  <2>2. CASE i # j
    BY <1>1, <1>2, <2>2 DEF StoreInv, PlatformKept
  <2>. QED BY <2>1, <2>2
<1>7. Unknown'
  BY <1>1, <1>2 DEF StoreInv, Unknown, AddJob
<1>. QED BY <1>4, <1>5, <1>6, <1>7 DEF StoreInv

LEMMA AddFlavorKeeps ==
  ASSUME StoreInv, NEW f \in Names, NEW row \in FlavorSpecs, NEW off \in BOOLEAN,
         AddFlavor(f, row, off)
  PROVE  StoreInv'
<1>1. /\ flavors \subseteq Names /\ disabled \subseteq flavors /\ known \subseteq Jobs
      /\ assigned \in [Jobs -> flavors \union {NoFlavor}]
      /\ spec \in [Names -> FlavorSpecs]
  BY DEF StoreInv, StoreTypeOK
<1>2. /\ flavors' = flavors \union {f} /\ f \notin flavors
      /\ spec' = [spec EXCEPT ![f] = row]
      /\ disabled' = IF off THEN disabled \union {f} ELSE disabled
  BY DEF AddFlavor
<1>3. \A g \in flavors : spec'[g] = spec[g] /\ (g \in disabled' <=> g \in disabled)
  BY <1>1, <1>2
<1>4. \A i \in known \ completed :
        assigned[i] # NoFlavor => assigned[i] \in Candidates(flavors', disabled', spec', i)
  BY <1>1, <1>2, <1>3 DEF StoreInv, DemandPlaced, Candidates
<1>5. \A i \in Jobs : assigned[i] # NoFlavor => spec'[assigned[i]].platform = JobPlatform[i]
  BY <1>1, <1>3 DEF StoreInv, PlatformKept
<1>6. /\ assigned \in [Jobs -> flavors' \union {NoFlavor}]
      /\ flavors' \subseteq Names /\ disabled' \subseteq flavors'
      /\ spec' \in [Names -> FlavorSpecs]
  BY <1>1, <1>2
<1>7. /\ Reassign(flavors', disabled', spec', assigned)
      /\ notified' \in BOOLEAN
      /\ UNCHANGED <<known, started, completed, expired>>
  BY DEF AddFlavor
<1>. QED BY <1>4, <1>5, <1>6, <1>7, FlavorBatchKeeps

LEMMA AddFlavorExistsKeeps ==
  ASSUME StoreInv, NEW f \in Names, AddFlavorExists(f)
  PROVE  StoreInv'
<1>1. /\ UNCHANGED <<flavors, disabled, spec>>
      /\ Reassign(flavors', disabled', spec', assigned)
      /\ notified' \in BOOLEAN
      /\ UNCHANGED <<known, started, completed, expired>>
  BY DEF AddFlavorExists, flavorVars
<1>2. /\ assigned \in [Jobs -> flavors' \union {NoFlavor}]
      /\ flavors' \subseteq Names /\ disabled' \subseteq flavors'
      /\ spec' \in [Names -> FlavorSpecs] /\ known \subseteq Jobs
  BY <1>1 DEF StoreInv, StoreTypeOK
<1>3. \A i \in known \ completed :
        assigned[i] # NoFlavor => assigned[i] \in Candidates(flavors', disabled', spec', i)
  BY <1>1 DEF StoreInv, DemandPlaced
<1>4. \A i \in Jobs : assigned[i] # NoFlavor => spec'[assigned[i]].platform = JobPlatform[i]
  BY <1>1 DEF StoreInv, PlatformKept
<1>. QED BY <1>1, <1>2, <1>3, <1>4, FlavorBatchKeeps

\* Of a flavor the server's platform does not own, a job of that platform has
\* none: nothing is cleared that the batch then keeps.
LEMMA ClearedFacts ==
  ASSUME StoreInv, NEW f \in Names
  PROVE  /\ Cleared(f) \in [Jobs -> flavors \union {NoFlavor}]
         /\ \A j \in Jobs : Cleared(f)[j] # NoFlavor =>
              /\ Cleared(f)[j] = assigned[j]
              /\ assigned[j] = f => ~Served(f)
<1>1. /\ assigned \in [Jobs -> flavors \union {NoFlavor}]
      /\ \A j \in Jobs : assigned[j] # NoFlavor => spec[assigned[j]].platform = JobPlatform[j]
  BY DEF StoreInv, StoreTypeOK, PlatformKept
<1>. QED BY <1>1 DEF Cleared, Served

LEMMA DisableFlavorKeeps ==
  ASSUME StoreInv, NEW f \in Names, DisableFlavor(f)
  PROVE  StoreInv'
<1>1. /\ flavors \subseteq Names /\ disabled \subseteq flavors /\ known \subseteq Jobs
      /\ assigned \in [Jobs -> flavors \union {NoFlavor}]
      /\ spec \in [Names -> FlavorSpecs]
  BY DEF StoreInv, StoreTypeOK
<1>2. /\ flavors' = flavors /\ spec' = spec
      /\ disabled' = IF Served(f) THEN disabled \union {f} ELSE disabled
      /\ Reassign(flavors', disabled', spec', Cleared(f))
      /\ notified' \in BOOLEAN
      /\ UNCHANGED <<known, started, completed, expired>>
  BY DEF DisableFlavor
<1>3. \A i \in known \ completed :
        Cleared(f)[i] # NoFlavor => Cleared(f)[i] \in Candidates(flavors', disabled', spec', i)
  BY <1>1, <1>2, ClearedFacts DEF StoreInv, DemandPlaced, Candidates
<1>4. \A i \in Jobs : Cleared(f)[i] # NoFlavor => spec'[Cleared(f)[i]].platform = JobPlatform[i]
  BY <1>2, ClearedFacts DEF StoreInv, PlatformKept
<1>5. /\ Cleared(f) \in [Jobs -> flavors' \union {NoFlavor}]
      /\ flavors' \subseteq Names /\ disabled' \subseteq flavors'
      /\ spec' \in [Names -> FlavorSpecs]
  BY <1>1, <1>2, ClearedFacts DEF Served
<1>. QED BY <1>2, <1>3, <1>4, <1>5, ClearedFacts, FlavorBatchKeeps

LEMMA EnableFlavorKeeps ==
  ASSUME StoreInv, NEW f \in Names, EnableFlavor(f)
  PROVE  StoreInv'
<1>1. /\ flavors \subseteq Names /\ disabled \subseteq flavors /\ known \subseteq Jobs
      /\ assigned \in [Jobs -> flavors \union {NoFlavor}]
      /\ spec \in [Names -> FlavorSpecs]
  BY DEF StoreInv, StoreTypeOK
<1>2. /\ flavors' = flavors /\ spec' = spec /\ disabled' \subseteq disabled
      /\ Reassign(flavors', disabled', spec', assigned)
      /\ notified' \in BOOLEAN
      /\ UNCHANGED <<known, started, completed, expired>>
  BY DEF EnableFlavor
<1>3. \A i \in known \ completed :
        assigned[i] # NoFlavor => assigned[i] \in Candidates(flavors', disabled', spec', i)
  BY <1>1, <1>2 DEF StoreInv, DemandPlaced, Candidates
<1>4. \A i \in Jobs : assigned[i] # NoFlavor => spec'[assigned[i]].platform = JobPlatform[i]
  BY <1>2 DEF StoreInv, PlatformKept
<1>5. /\ assigned \in [Jobs -> flavors' \union {NoFlavor}]
      /\ flavors' \subseteq Names /\ disabled' \subseteq flavors'
      /\ spec' \in [Names -> FlavorSpecs]
  BY <1>1, <1>2
<1>. QED BY <1>2, <1>3, <1>4, <1>5, FlavorBatchKeeps

LEMMA DeleteFlavorKeeps ==
  ASSUME StoreInv, NEW f \in Names, DeleteFlavor(f)
  PROVE  StoreInv'
<1>1. /\ flavors \subseteq Names /\ disabled \subseteq flavors /\ known \subseteq Jobs
      /\ assigned \in [Jobs -> flavors \union {NoFlavor}]
      /\ spec \in [Names -> FlavorSpecs]
  BY DEF StoreInv, StoreTypeOK
<1>2. /\ flavors' = flavors \ Row(f) /\ disabled' = disabled \ Row(f)
      /\ spec' = [g \in Names |-> IF g \in Row(f) THEN NoRow ELSE spec[g]]
      /\ Reassign(flavors', disabled', spec', Cleared(f))
      /\ notified' \in BOOLEAN
      /\ UNCHANGED <<known, started, completed, expired>>
  BY DEF DeleteFlavor
<1>3. \A i \in Jobs : Cleared(f)[i] # NoFlavor =>
        /\ Cleared(f)[i] = assigned[i] /\ Cleared(f)[i] \in flavors'
        /\ spec'[Cleared(f)[i]] = spec[Cleared(f)[i]]
  <2>1. \A g \in Row(f) : g = f /\ Served(f)
    BY DEF Row
  <2>2. \A i \in Jobs : Cleared(f)[i] # NoFlavor =>
          /\ Cleared(f)[i] = assigned[i] /\ Cleared(f)[i] \in flavors
          /\ Cleared(f)[i] \notin Row(f)
    BY <1>1, <2>1, ClearedFacts
  <2>. QED BY <1>1, <1>2, <2>2
<1>4. \A i \in known \ completed :
        Cleared(f)[i] # NoFlavor => Cleared(f)[i] \in Candidates(flavors', disabled', spec', i)
  BY <1>1, <1>2, <1>3 DEF StoreInv, DemandPlaced, Candidates, Matches
<1>5. \A i \in Jobs : Cleared(f)[i] # NoFlavor => spec'[Cleared(f)[i]].platform = JobPlatform[i]
  BY <1>3 DEF StoreInv, PlatformKept
<1>6. Cleared(f) \in [Jobs -> flavors' \union {NoFlavor}]
  BY <1>3, ClearedFacts
<1>7. flavors' \subseteq Names /\ disabled' \subseteq flavors'
  BY <1>1, <1>2
<1>8. spec' \in [Names -> FlavorSpecs]
  BY <1>1, <1>2, NoRowIsRow
<1>. QED BY <1>2, <1>4, <1>5, <1>6, <1>7, <1>8, ClearedFacts, FlavorBatchKeeps

LEMMA StoreInvNext == StoreInv /\ [StoreNext]_storeVars => StoreInv'
<1>. SUFFICES ASSUME StoreInv, [StoreNext]_storeVars PROVE StoreInv'
  OBVIOUS
<1>. USE DEF StoreInv, StoreTypeOK
<1>1. ASSUME NEW j \in Jobs, NEW begun \in BOOLEAN, NEW done \in BOOLEAN,
             AddJob(j, begun, done)
      PROVE  StoreInv'
  BY <1>1, AddJobKeeps
<1>2. ASSUME NEW j \in Jobs, AddJobExists(j) \/ UpdateJobStarted(j) \/ UpdateJobCompleted(j)
      PROVE  StoreInv'
  BY <1>2, JobUpdateKeeps
     DEF AddJobExists, UpdateJobStarted, UpdateJobCompleted, flavorVars, jobVars
<1>3. ASSUME NEW j \in Jobs, Expire(j)
      PROVE  StoreInv'
  BY <1>3, JobUpdateKeeps DEF Expire, flavorVars, jobVars
<1>4. ASSUME NEW f \in Names, NEW row \in FlavorSpecs, NEW off \in BOOLEAN,
             AddFlavor(f, row, off)
      PROVE  StoreInv'
  BY <1>4, AddFlavorKeeps
<1>5. ASSUME NEW f \in Names, AddFlavorExists(f)
      PROVE  StoreInv'
  BY <1>5, AddFlavorExistsKeeps
<1>6. ASSUME NEW f \in Names, DisableFlavor(f)
      PROVE  StoreInv'
  BY <1>6, DisableFlavorKeeps
<1>7. ASSUME NEW f \in Names, EnableFlavor(f)
      PROVE  StoreInv'
  BY <1>7, EnableFlavorKeeps
<1>8. ASSUME NEW f \in Names, DeleteFlavor(f)
      PROVE  StoreInv'
  BY <1>8, DeleteFlavorKeeps
<1>9. CASE UNCHANGED storeVars
  BY <1>9, JobUpdateKeeps DEF storeVars, flavorVars, jobVars
<1>. QED
  BY <1>1, <1>2, <1>3, <1>4, <1>5, <1>6, <1>7, <1>8, <1>9
     DEF StoreNext, JobNext, FlavorNext

THEOREM StoreInvariantHolds == StoreSpec => []StoreInv
  BY StoreInvInit, StoreInvNext, PTL DEF StoreSpec

\* No job, complete or not, ever refers to a flavor that is gone.
THEOREM StoreTypeCorrect == StoreSpec => []StoreTypeOK
<1>1. StoreInv => StoreTypeOK
  BY DEF StoreInv
<1>. QED BY <1>1, StoreInvariantHolds, PTL

\* Every incomplete job is assigned to an enabled flavor that can run it, and to
\* none only when there is none, after any sequence of batches.
THEOREM DemandIsPlaced == StoreSpec => []DemandPlaced
<1>1. StoreInv => DemandPlaced
  BY DEF StoreInv
<1>. QED BY <1>1, StoreInvariantHolds, PTL

-----------------------------------------------------------------------------
(* The stability of an assignment.                                         *)

\* What the batches of flavors do to one job's assignment.
LEMMA BatchMoves ==
  ASSUME StoreInv, NEW cleared \in [Jobs -> flavors' \union {NoFlavor}],
         flavors' \subseteq Names,
         Reassign(flavors', disabled', spec', cleared),
         NEW j \in Jobs, assigned'[j] # assigned[j],
         \/ cleared[j] = assigned[j]
         \/ cleared[j] = NoFlavor /\ assigned[j] \notin flavors' \ disabled'
  PROVE  /\ assigned[j] \notin flavors' \ disabled'
         /\ Best(flavors', disabled', spec', j, assigned'[j])
<1>1. /\ assigned'[j] # cleared[j] =>
           cleared[j] = NoFlavor /\ assigned'[j] \in Choices(flavors', disabled', spec', j)
      /\ assigned' \in [Jobs -> flavors' \union {NoFlavor}]
  BY ReassignPlaces
<1>2. NoFlavor \notin flavors'
  BY StoreAssumption
<1>3. CASE assigned'[j] = cleared[j]
  BY <1>3 DEF Best
<1>4. CASE assigned'[j] # cleared[j]
  <2>1. \A f \in Choices(flavors', disabled', spec', j) : Best(flavors', disabled', spec', j, f)
    BY ChoicesPlace
  <2>. QED BY <1>1, <1>2, <1>4, <2>1
<1>. QED BY <1>3, <1>4

Moves(j) ==
  assigned'[j] # assigned[j] =>
    /\ assigned[j] \notin flavors' \ disabled'
    /\ Best(flavors', disabled', spec', j, assigned'[j])

LEMMA NextMoves ==
  ASSUME StoreInv, StoreInv', [StoreNext]_storeVars, NEW j \in Jobs
  PROVE  Moves(j)
<1>1. /\ assigned \in [Jobs -> flavors \union {NoFlavor}]
      /\ flavors \subseteq Names /\ flavors' \subseteq Names
      /\ NoFlavor \notin Names
  BY StoreAssumption DEF StoreInv, StoreTypeOK
<1>2. ASSUME NEW i \in Jobs, NEW begun \in BOOLEAN, NEW done \in BOOLEAN,
             AddJob(i, begun, done)
      PROVE  Moves(j)
  <2>1. PICK f \in IF done THEN {NoFlavor} ELSE Choices(flavors, disabled, spec, i) :
          assigned' = [assigned EXCEPT ![i] = f]
    BY <1>2 DEF AddJob
  <2>2. CASE j # i
    BY <1>1, <2>1, <2>2 DEF Moves
  <2>3. CASE j = i
    <3>1. UNCHANGED <<flavors, disabled, spec>> /\ j \notin known
      BY <1>2, <2>3 DEF AddJob, flavorVars
    <3>2. Best(flavors, disabled, spec, j, f)
      BY <1>1, <2>1, <2>3, ChoicesPlace DEF Best
    <3>3. assigned[j] = NoFlavor
      BY <3>1 DEF StoreInv, Unknown
    <3>. QED BY <1>1, <2>1, <2>3, <3>1, <3>2, <3>3 DEF Moves, Best, Candidates
  <2>. QED BY <2>2, <2>3
<1>3. ASSUME UNCHANGED assigned
      PROVE  Moves(j)
  BY <1>3 DEF Moves
<1>4. ASSUME NEW f \in Names,
             \/ \E row \in FlavorSpecs, off \in BOOLEAN : AddFlavor(f, row, off)
             \/ AddFlavorExists(f) \/ EnableFlavor(f)
      PROVE  Moves(j)
  <2>1. flavors \subseteq flavors' /\ Reassign(flavors', disabled', spec', assigned)
    BY <1>4 DEF AddFlavor, AddFlavorExists, EnableFlavor, flavorVars
  <2>. QED BY <1>1, <2>1, BatchMoves DEF Moves
<1>5. ASSUME NEW f \in Names, DisableFlavor(f)
      PROVE  Moves(j)
  <2>1. /\ flavors' = flavors
        /\ disabled' = IF Served(f) THEN disabled \union {f} ELSE disabled
        /\ Reassign(flavors', disabled', spec', Cleared(f))
    BY <1>5 DEF DisableFlavor
  <2>2. Cleared(f) \in [Jobs -> flavors' \union {NoFlavor}]
    BY <2>1, ClearedFacts
  <2>3. \/ Cleared(f)[j] = assigned[j]
        \/ Cleared(f)[j] = NoFlavor /\ assigned[j] \notin flavors' \ disabled'
    BY <1>1, <2>1 DEF Cleared, Served, StoreInv, PlatformKept
  <2>. QED BY <1>1, <2>1, <2>2, <2>3, BatchMoves DEF Moves
<1>6. ASSUME NEW f \in Names, DeleteFlavor(f)
      PROVE  Moves(j)
  <2>1. flavors' = flavors \ Row(f) /\ Reassign(flavors', disabled', spec', Cleared(f))
    BY <1>6 DEF DeleteFlavor
  <2>2. \A i \in Jobs : Cleared(f)[i] \in flavors' \union {NoFlavor}
    BY <2>1, ClearedFacts DEF Row
  <2>3. Cleared(f) \in [Jobs -> flavors' \union {NoFlavor}]
    BY <2>2, ClearedFacts
  <2>4. \/ Cleared(f)[j] = assigned[j]
        \/ Cleared(f)[j] = NoFlavor /\ assigned[j] \notin flavors' \ disabled'
    BY <1>1, <2>1 DEF Cleared, Row, Served, StoreInv, PlatformKept
  <2>. QED BY <1>1, <2>1, <2>3, <2>4, BatchMoves DEF Moves
<1>7. CASE JobNext
  BY <1>2, <1>3, <1>7
     DEF JobNext, AddJobExists, UpdateJobStarted, UpdateJobCompleted, jobVars
<1>8. CASE FlavorNext
  BY <1>4, <1>5, <1>6, <1>8 DEF FlavorNext
<1>9. CASE (\E i \in Jobs : Expire(i)) \/ UNCHANGED storeVars
  BY <1>3, <1>9 DEF Expire, storeVars, jobVars
<1>. QED BY <1>7, <1>8, <1>9 DEF StoreNext

\* A job changes flavor only when its own was disabled or deleted, and never for
\* a flavor of less than the highest priority there is.
THEOREM AssignmentSticks == StoreSpec => StickyAndBest
<1>1. StoreInv /\ StoreInv' /\ [StoreNext]_storeVars
        => [\A j \in Jobs : assigned'[j] # assigned[j] =>
              /\ assigned[j] \notin flavors' \ disabled'
              /\ assigned'[j] # NoFlavor =>
                   \A g \in Candidates(flavors', disabled', spec', j) :
                     spec'[g].priority <= spec'[assigned'[j]].priority]_storeVars
  BY NextMoves DEF Moves, Best
<1>. QED BY <1>1, StoreInvariantHolds, PTL DEF StoreSpec, StickyAndBest

-----------------------------------------------------------------------------
(* Announcements.                                                          *)

\* A step that announces nothing leaves the tables that pressures are read from.
LEMMA SilentSteps ==
  ASSUME StoreNext, expired' = expired, ~notified'
  PROVE  UNCHANGED <<flavors, spec, known, completed, assigned, expired>>
<1>1. CASE JobNext
  BY <1>1 DEF JobNext, AddJob, AddJobExists, UpdateJobStarted, UpdateJobCompleted, flavorVars
<1>2. CASE FlavorNext
  BY <1>2 DEF FlavorNext, AddFlavor, AddFlavorExists, DisableFlavor, EnableFlavor,
              DeleteFlavor
<1>3. ASSUME NEW j \in Jobs PROVE ~Expire(j)
  BY DEF Expire
<1>. QED BY <1>1, <1>2, <1>3 DEF StoreNext

\* Whatever batch changes the pressure of a flavor, or adds or removes it, ends in
\* a NOTIFY; only the five-day window changes a pressure in silence.
THEOREM ChangesAreAnnounced == StoreSpec => ChangesAnnounced
<1> DEFINE Announced ==
      expired' = expired =>
        \A f \in flavors \union flavors' :
          \/ notified'
          \/ (f \in flavors <=> f \in flavors') /\ Pressure(f)' = Pressure(f)
<1>1. [StoreNext]_storeVars => [Announced]_storeVars
  <2>. SUFFICES ASSUME StoreNext, expired' = expired, ~notified',
                       NEW f \in flavors \union flavors'
                PROVE  (f \in flavors <=> f \in flavors') /\ Pressure(f)' = Pressure(f)
    OBVIOUS
  <2>1. UNCHANGED <<flavors, spec, known, completed, assigned, expired>>
    BY SilentSteps
  <2>2. Load(f)' = Load(f)
    BY <2>1 DEF Load
  <2>. QED BY <2>1, <2>2 DEF Pressure
<1>. QED BY <1>1, PTL DEF StoreSpec, ChangesAnnounced

-----------------------------------------------------------------------------
(* The intake.                                                             *)

\* The event is in the sequence.
In(q, e) == \E i \in 1 .. Len(q) : q[i] = e

\* What a consumer does with a message fits it, and follows its recording.
StepInv ==
  \A c \in Consumers :
    /\ step[c] = "discard" => msg[c] \in Malformed
    /\ step[c] \in {"handle", "insert", "ack", "requeue"} => msg[c] \in JobEvents
    /\ step[c] = "ack" => Recorded(msg[c])

\* What a detached consumer holds is recorded, or the next to be settled.
FrontInv ==
  \A c \in Consumers \ attached : msg[c] # NoOne =>
    \/ Recorded(msg[c])
    \/ \E d \in attached : msg[d] = msg[c]
    \/ /\ \A d \in attached : msg[d] = NoOne
       /\ queue # <<>> /\ Head(queue) = msg[c]

\* A job that was not there when its update failed still is not, or the message
\* has been recorded by another consumer.
InsertInv ==
  \A c \in Consumers : step[c] = "insert" =>
    /\ Action(c) # "queued"
    /\ Job(c) \notin known \/ Recorded(msg[c])

IInv == TypeOK /\ NothingLost /\ StepInv /\ FrontInv /\ InsertInv

USE DEF flavorVars, jobVars, storeVars, brokerVars, consumerVars, countVars

-----------------------------------------------------------------------------
(* The queue.                                                              *)

LEMMA EventTypes ==
  /\ JobEvents \subseteq Events /\ Malformed \subseteq Events
  /\ \A e \in Events : e \in JobEvents <=> e \notin Malformed
  /\ \A e \in JobEvents : e[1] \in Jobs /\ e[2] \in {"queued", "in_progress", "completed"}
  /\ NoOne \notin Events
BY PipelineAssumption DEF Events, JobEvents

LEMMA AppendIn ==
  ASSUME NEW q \in Seq(Events), NEW x \in Events
  PROVE  /\ Append(q, x) \in Seq(Events) /\ Append(q, x) # <<>>
         /\ q # <<>> => Head(Append(q, x)) = Head(q)
         /\ In(Append(q, x), x)
         /\ \A e : In(q, e) => In(Append(q, x), e)
<1>1. /\ Append(q, x) \in Seq(Events) /\ Len(Append(q, x)) = Len(q) + 1 /\ Len(q) \in Nat
      /\ Append(q, x)[Len(q) + 1] = x
      /\ \A i \in 1 .. Len(q) : Append(q, x)[i] = q[i]
  OBVIOUS
<1>2. In(Append(q, x), x)
  <2>1. Len(q) + 1 \in 1 .. Len(Append(q, x))
    BY <1>1
  <2> QED BY <1>1, <2>1 DEF In
<1>3. \A e : In(q, e) => In(Append(q, x), e)
  <2> SUFFICES ASSUME NEW e, NEW i \in 1 .. Len(q), q[i] = e PROVE In(Append(q, x), e)
    BY DEF In
  <2>1. i \in 1 .. Len(Append(q, x))
    BY <1>1
  <2> QED BY <1>1, <2>1 DEF In
<1>4. Append(q, x) # <<>>
  BY <1>1
<1>5. q # <<>> => Head(Append(q, x)) = Head(q)
  <2> SUFFICES ASSUME q # <<>> PROVE Append(q, x)[1] = q[1]
    BY <1>1, <1>4
  <2>1. 1 \in 1 .. Len(q)
    BY <1>1, EmptySeq
  <2> QED BY <1>1, <2>1
<1> QED BY <1>1, <1>2, <1>3, <1>4, <1>5

LEMMA ConsIn ==
  ASSUME NEW q \in Seq(Events), NEW x \in Events
  PROVE  /\ <<x>> \o q \in Seq(Events) /\ <<x>> \o q # <<>>
         /\ Head(<<x>> \o q) = x
         /\ In(<<x>> \o q, x)
         /\ \A e : In(q, e) => In(<<x>> \o q, e)
<1>1. /\ <<x>> \o q \in Seq(Events) /\ Len(<<x>> \o q) = Len(q) + 1
      /\ (<<x>> \o q)[1] = x
      /\ \A i \in 1 .. Len(q) : (<<x>> \o q)[i + 1] = q[i]
  OBVIOUS
<1>2. \A e : In(q, e) => In(<<x>> \o q, e)
  <2> SUFFICES ASSUME NEW e, NEW i \in 1 .. Len(q), q[i] = e PROVE In(<<x>> \o q, e)
    BY DEF In
  <2>1. i + 1 \in 1 .. Len(q) + 1
    OBVIOUS
  <2> QED BY <1>1, <2>1 DEF In
<1>3. In(<<x>> \o q, x)
  <2>1. 1 \in 1 .. Len(<<x>> \o q)
    BY <1>1
  <2> QED BY <1>1, <2>1 DEF In
<1>4. <<x>> \o q # <<>> /\ Head(<<x>> \o q) = x
  BY <1>1
<1> QED BY <1>1, <1>2, <1>3, <1>4

LEMMA TailIn ==
  ASSUME NEW q \in Seq(Events), q # <<>>
  PROVE  /\ Tail(q) \in Seq(Events) /\ Head(q) \in Events
         /\ \A e : In(q, e) => e = Head(q) \/ In(Tail(q), e)
<1>1. /\ Tail(q) \in Seq(Events) /\ Head(q) \in Events /\ Len(Tail(q)) = Len(q) - 1
      /\ \A i \in 1 .. Len(Tail(q)) : Tail(q)[i] = q[i + 1]
  BY HeadTailProperties
<1>2. \A e : In(q, e) => e = Head(q) \/ In(Tail(q), e)
  <2> SUFFICES ASSUME NEW e, NEW i \in 1 .. Len(q), q[i] = e, i # 1 PROVE In(Tail(q), e)
    BY DEF In
  <2>1. i - 1 \in 1 .. Len(Tail(q)) /\ Tail(q)[i - 1] = e
    BY <1>1
  <2> QED BY <2>1 DEF In
<1> QED BY <1>1, <1>2

\* NothingLost with the queue as a set.
LEMMA NothingLostIs ==
  /\ NothingLost <=> \A e \in Events : \/ e \in unsent \/ In(queue, e)
                                       \/ \E c \in attached : msg[c] = e
                                       \/ Recorded(e)
  /\ NothingLost' <=> \A e \in Events : \/ e \in unsent' \/ In(queue', e)
                                        \/ \E c \in attached' : msg'[c] = e
                                        \/ Recorded(e)'
BY DEF NothingLost, In

\* What is recorded depends on three columns and the dead-letter queue.
LEMMA RecordedIs ==
  ASSUME NEW e \in Events
  PROVE  /\ e \in Malformed => (Recorded(e) <=> e \in dlq)
         /\ e \in JobEvents /\ e[2] = "queued" => (Recorded(e) <=> e[1] \in known)
         /\ e \in JobEvents /\ e[2] = "in_progress" => (Recorded(e) <=> e[1] \in started)
         /\ e \in JobEvents /\ e[2] = "completed" => (Recorded(e) <=> e[1] \in completed)
BY EventTypes DEF Recorded

LEMMA RecordedGrows ==
  ASSUME known \subseteq known', started \subseteq started', completed \subseteq completed',
         dlq \subseteq dlq', NEW e \in Events, Recorded(e)
  PROVE  Recorded(e)'
<1>1. e \in Malformed \/ (e \in JobEvents /\ e[2] \in {"queued", "in_progress", "completed"})
  BY EventTypes
<1> QED BY <1>1, EventTypes DEF Recorded

-----------------------------------------------------------------------------
(* The table.                                                              *)

\* What the three calls on the table change.
Written ==
  /\ known \subseteq known' /\ started \subseteq started' /\ completed \subseteq completed'
  /\ StoreTypeOK'

LEMMA AddJobWrites ==
  ASSUME StoreTypeOK, NEW j \in Jobs, NEW begun \in BOOLEAN, NEW done \in BOOLEAN,
         AddJob(j, begun, done)
  PROVE  Written /\ known' = known \union {j}
<1>1. PICK f \in IF done THEN {NoFlavor} ELSE Choices(flavors, disabled, spec, j) :
        assigned' = [assigned EXCEPT ![j] = f]
  BY DEF AddJob
<1>2. f \in flavors \union {NoFlavor}
  BY <1>1 DEF Choices, Candidates
<1>3. assigned' \in [Jobs -> flavors' \union {NoFlavor}]
  BY <1>1, <1>2 DEF AddJob, StoreTypeOK
<1> QED BY <1>3 DEF AddJob, StoreTypeOK, Written

LEMMA UpdateWrites ==
  ASSUME StoreTypeOK, NEW j \in Jobs,
         AddJobExists(j) \/ UpdateJobStarted(j) \/ UpdateJobCompleted(j)
  PROVE  Written /\ known' = known
<1>1. CASE AddJobExists(j)
  BY <1>1 DEF AddJobExists, StoreTypeOK, Written
<1>2. CASE UpdateJobStarted(j)
  BY <1>2 DEF UpdateJobStarted, StoreTypeOK, Written
<1>3. CASE UpdateJobCompleted(j)
  BY <1>3 DEF UpdateJobCompleted, StoreTypeOK, Written
<1> QED BY <1>1, <1>2, <1>3

\* insertJobToDB writes at most the row of its job, and its event is recorded
\* unless another event of the job had been.
LEMMA InsertRecords ==
  ASSUME StoreTypeOK, dlq' = dlq, NEW c \in Consumers, InsertJobToDB(c),
         NEW e \in JobEvents, e = msg[c]
  PROVE  /\ Written
         /\ known' = known \union {Job(c)}
         /\ step' = [step EXCEPT ![c] = "ack"]
         /\ Job(c) \notin known \/ Action(c) = "queued" => Recorded(e)'
<1>1. /\ Job(c) \in Jobs /\ Action(c) \in {"queued", "in_progress", "completed"}
      /\ Job(c) = e[1] /\ Action(c) = e[2] /\ e \notin Malformed
  BY EventTypes DEF Job, Action
<1>2. step' = [step EXCEPT ![c] = "ack"]
  BY DEF InsertJobToDB, Goes
<1>3. ASSUME NEW begun \in IF Action(c) = "queued" THEN BOOLEAN ELSE {TRUE},
             AddJob(Job(c), begun, Action(c) = "completed")
      PROVE  Written /\ known' = known \union {Job(c)} /\ Recorded(e)'
  <2>1. begun \in BOOLEAN /\ (Action(c) # "queued" => begun = TRUE)
    BY <1>3
  <2>2. Written /\ known' = known \union {Job(c)}
    BY <1>1, <1>3, <2>1, AddJobWrites
  <2>3. /\ Action(c) = "in_progress" => Job(c) \in started'
        /\ Action(c) = "completed" => Job(c) \in completed'
    BY <1>3, <2>1 DEF AddJob
  <2>4. Recorded(e)'
    BY <1>1, <2>2, <2>3 DEF Recorded
  <2> QED BY <2>2, <2>4
<1>4. CASE AddJobExists(Job(c))
  <2>1. Written /\ known' = known /\ Job(c) \in known
    BY <1>1, <1>4, UpdateWrites DEF AddJobExists
  <2>2. Action(c) = "queued" => Recorded(e)'
    BY <1>1, <2>1 DEF Recorded
  <2> QED BY <1>2, <2>1, <2>2
<1> QED BY <1>2, <1>3, <1>4 DEF InsertJobToDB

-----------------------------------------------------------------------------
(* The invariant.                                                          *)

LEMMA InitInv == Init => IInv
<1> SUFFICES ASSUME Init PROVE IInv
  OBVIOUS
<1>1. StoreTypeOK
  <2>1. NoRow \in FlavorSpecs
    <3>1. [platform |-> FlavorPlatform, labels |-> {}, priority |-> CHOOSE p \in Priorities : TRUE,
           minimum |-> CHOOSE m \in Minimums : TRUE] \in FlavorSpecs
      BY StoreAssumption DEF FlavorSpecs
    <3> QED BY <3>1 DEF NoRow
  <2> QED BY <2>1 DEF Init, StoreInit, StoreTypeOK
<1>2. TypeOK
  BY <1>1, PipelineAssumption DEF Init, TypeOK
<1>3. NothingLost /\ StepInv /\ FrontInv /\ InsertInv
  BY DEF Init, NothingLost, StepInv, FrontInv, InsertInv
<1> QED BY <1>2, <1>3 DEF IInv

LEMMA RecordedKnown ==
  ASSUME StoreTypeOK, NEW e \in JobEvents, Recorded(e)
  PROVE  e[1] \in known
BY EventTypes, RecordedIs DEF StoreTypeOK

\* Two consumers hold the same message, or one that is recorded.
LEMMA SameFront ==
  ASSUME TypeOK, FrontInv, NEW c \in Consumers, NEW d \in Consumers,
         msg[c] # NoOne, msg[d] # NoOne, ~Recorded(msg[c]), ~Recorded(msg[d])
  PROVE  msg[c] = msg[d]
BY DEF TypeOK, FrontInv

\* A step of a consumer on its message that leaves the broker alone.
LEMMA TableStep ==
  ASSUME IInv, NEW c \in Consumers, NEW e \in JobEvents, e = msg[c],
         NEW s \in {"insert", "ack", "requeue"}, step' = [step EXCEPT ![c] = s],
         step[c] \in {"handle", "insert"},
         UNCHANGED <<unsent, brokerVars, msg, duplicates>>, faults' \in 0..MaxFaults,
         Written, known' = known \/ (known' = known \union {e[1]} /\ Recorded(e)'),
         s = "ack" => Recorded(e)',
         s = "insert" => e[2] # "queued" /\ e[1] \notin known'
  PROVE  IInv'
<1> USE DEF IInv, TypeOK
<1>1. /\ \A x \in Events : Recorded(x) => Recorded(x)'
      /\ \A d \in Consumers : step[d] # "pull" => msg[d] \in Events /\ msg[d] # NoOne
  BY RecordedGrows, EventTypes DEF Written
<1>2. TypeOK'
  BY EventTypes DEF Written
<1>3. NothingLost'
  BY <1>1, NothingLostIs
<1>4. StepInv'
  BY <1>1, EventTypes DEF StepInv
<1>5. FrontInv'
  BY <1>1, EventTypes DEF FrontInv
<1>6. InsertInv'
  <2> SUFFICES ASSUME NEW d \in Consumers, step'[d] = "insert"
               PROVE  Action(d) # "queued" /\ (Job(d) \notin known' \/ Recorded(msg[d])')
    BY DEF InsertInv, Action, Job
  <2>1. CASE d = c
    BY <2>1 DEF Action, Job
  <2>2. CASE d # c
    <3>1. step[d] = "insert" /\ msg[d] \in JobEvents
      BY <2>2 DEF StepInv
    <3>2. Action(d) # "queued" /\ (Job(d) \notin known \/ Recorded(msg[d]))
      BY <3>1 DEF InsertInv
    <3>3. CASE Recorded(msg[d])
      BY <1>1, <3>1, <3>2, <3>3, EventTypes
    <3>4. CASE ~Recorded(msg[d]) /\ Job(d) \notin known /\ Job(d) \in known'
      <4>1. Job(d) = e[1] /\ Recorded(e)' /\ e[1] \notin known
        BY <3>4
      <4>2. ~Recorded(e)
        BY <4>1, RecordedKnown
      <4>3. msg[d] = e
        BY <1>1, <3>1, <3>4, <4>2, SameFront
      <4> QED BY <3>2, <4>1, <4>3
    <3> QED BY <3>2, <3>3, <3>4
  <2> QED BY <2>1, <2>2
<1> QED BY <1>2, <1>3, <1>4, <1>5, <1>6

LEMMA TableKeeps ==
  ASSUME IInv, NEW c \in Consumers, HandleMessage(c) \/ InsertMissing(c) \/ HandleFails(c)
  PROVE  IInv'
<1>1. /\ step[c] \in {"handle", "insert"} /\ UNCHANGED <<unsent, brokerVars, msg, duplicates>>
      /\ faults' \in 0..MaxFaults /\ dlq' = dlq
  BY PipelineAssumption DEF HandleMessage, InsertMissing, HandleFails, Fault, IInv,
         TypeOK
<1>2. StoreTypeOK /\ msg[c] \in JobEvents
  BY <1>1 DEF IInv, StepInv, TypeOK
<1>3. PICK e \in JobEvents : e = msg[c]
  BY <1>2
<1>4. Job(c) = e[1] /\ Action(c) = e[2] /\ e[1] \in Jobs /\ e \in Events /\ e \notin Malformed
  BY <1>3, EventTypes DEF Job, Action
<1>5. storeVars' = storeVars => Written /\ known' = known
  BY <1>2 DEF StoreTypeOK, Written
<1>6. CASE HandleFails(c)
  <2>1. step' = [step EXCEPT ![c] = "requeue"] /\ storeVars' = storeVars
    BY <1>6 DEF HandleFails, Goes
  <2> QED BY <1>1, <1>2, <1>5, <1>3, <2>1, TableStep
<1>7. CASE InsertMissing(c)
  <2>1. InsertJobToDB(c) /\ step[c] = "insert"
    BY <1>7 DEF InsertMissing
  <2>2. /\ Written /\ known' = known \union {e[1]} /\ step' = [step EXCEPT ![c] = "ack"]
        /\ e[1] \notin known => Recorded(e)'
    BY <1>1, <1>2, <1>4, <1>3, <2>1, InsertRecords
  <2>3. Recorded(e)'
    <3>1. e[1] \notin known \/ Recorded(e)
      BY <1>4, <1>3, <2>1 DEF IInv, InsertInv
    <3> QED BY <1>1, <1>4, <2>2, <3>1, RecordedGrows DEF Written
  <2> QED BY <1>1, <1>2, <1>3, <2>2, <2>3, TableStep
<1>8. CASE HandleMessage(c)
  <2>1. CASE Action(c) = "queued" /\ InsertJobToDB(c)
    <3>1. /\ Written /\ known' = known \union {e[1]} /\ step' = [step EXCEPT ![c] = "ack"]
          /\ Recorded(e)'
      BY <1>1, <1>2, <1>4, <1>3, <2>1, InsertRecords
    <3> QED BY <1>1, <1>2, <1>3, <3>1, TableStep
  <2>2. CASE Action(c) = "in_progress" /\ UpdateJobStarted(Job(c)) /\ Goes(c, "ack")
    <3>1. Written /\ known' = known /\ step' = [step EXCEPT ![c] = "ack"]
      BY <1>2, <1>4, <2>2, UpdateWrites DEF Goes
    <3>2. Recorded(e)'
      BY <1>4, <2>2 DEF UpdateJobStarted, Recorded
    <3> QED BY <1>1, <1>2, <1>3, <3>1, <3>2, TableStep
  <2>3. CASE Action(c) = "completed" /\ UpdateJobCompleted(Job(c)) /\ Goes(c, "ack")
    <3>1. Written /\ known' = known /\ step' = [step EXCEPT ![c] = "ack"]
      BY <1>2, <1>4, <2>3, UpdateWrites DEF Goes
    <3>2. Recorded(e)'
      BY <1>4, <2>3 DEF UpdateJobCompleted, Recorded
    <3> QED BY <1>1, <1>2, <1>3, <3>1, <3>2, TableStep
  <2>4. CASE /\ Action(c) # "queued" /\ Job(c) \notin known
             /\ Goes(c, "insert") /\ storeVars' = storeVars
    <3>1. Written /\ known' = known /\ step' = [step EXCEPT ![c] = "insert"]
      BY <1>5, <2>4 DEF Goes
    <3> QED BY <1>1, <1>2, <1>4, <1>3, <2>4, <3>1, TableStep
  <2> QED BY <1>8, <2>1, <2>2, <2>3, <2>4 DEF HandleMessage
<1> QED BY <1>6, <1>7, <1>8

LEMMA DeliverKeeps ==
  ASSUME IInv, NEW e \in Events, Deliver(e)
  PROVE  IInv'
<1> USE DEF IInv, TypeOK
<1>1. /\ queue' \in Seq(Events) /\ queue' # <<>> /\ In(queue', e)
      /\ queue # <<>> => Head(queue') = Head(queue)
      /\ \A x : In(queue, x) => In(queue', x)
  BY AppendIn DEF Deliver
<1>2. /\ unsent' = unsent \ {e} /\ duplicates' \in 0..MaxDuplicates
      /\ UNCHANGED <<storeVars, attached, dlq, consumerVars, faults>>
  BY PipelineAssumption DEF Deliver
<1>3. \A x \in Events : Recorded(x) => Recorded(x)'
  BY <1>2, RecordedGrows
<1>4. TypeOK'
  BY <1>1, <1>2 DEF StoreTypeOK
<1>5. NothingLost'
  BY <1>1, <1>2, <1>3, NothingLostIs
<1>6. StepInv'
  BY <1>2, <1>3, EventTypes DEF StepInv
<1>7. FrontInv'
  BY <1>1, <1>2, <1>3 DEF FrontInv
<1>8. InsertInv'
  BY <1>2, <1>3, EventTypes DEF StepInv, InsertInv, Action, Job
<1> QED BY <1>4, <1>5, <1>6, <1>7, <1>8

LEMMA ConnectKeeps ==
  ASSUME IInv, NEW c \in Consumers, Connect(c)
  PROVE  IInv'
<1> USE DEF IInv, TypeOK
<1>1. /\ attached = {} /\ attached' = {c} /\ msg[c] = NoOne
      /\ UNCHANGED <<storeVars, unsent, queue, dlq, consumerVars, countVars>>
  BY DEF Connect
<1>2. \A x \in Events : Recorded(x) => Recorded(x)'
  BY <1>1, RecordedGrows
<1>3. TypeOK'
  BY <1>1 DEF StoreTypeOK
<1>4. NothingLost'
  BY <1>1, <1>2, NothingLostIs
<1>5. StepInv'
  BY <1>1, <1>2, EventTypes DEF StepInv
<1>6. FrontInv'
  BY <1>1, <1>2 DEF FrontInv
<1>7. InsertInv'
  BY <1>1, <1>2, EventTypes DEF StepInv, InsertInv, Action, Job
<1> QED BY <1>3, <1>4, <1>5, <1>6, <1>7

LEMMA PullKeeps ==
  ASSUME IInv, NEW c \in Consumers, Pull(c)
  PROVE  IInv'
<1> USE DEF IInv, TypeOK
<1>1. /\ c \in attached /\ step[c] = "pull" /\ msg[c] = NoOne /\ queue # <<>>
      /\ queue' = Tail(queue) /\ msg' = [msg EXCEPT ![c] = Head(queue)]
      /\ step' = [step EXCEPT ![c] = IF Head(queue) \in Malformed THEN "discard" ELSE "handle"]
      /\ UNCHANGED <<storeVars, unsent, attached, dlq, countVars>>
  BY DEF Pull, Goes
<1>2. /\ Tail(queue) \in Seq(Events) /\ Head(queue) \in Events
      /\ \A x : In(queue, x) => x = Head(queue) \/ In(Tail(queue), x)
  BY <1>1, TailIn
<1>3. \A x \in Events : Recorded(x) => Recorded(x)'
  BY <1>1, RecordedGrows
<1>4. TypeOK'
  BY <1>1, <1>2, EventTypes DEF StoreTypeOK
<1>5. NothingLost'
  BY <1>1, <1>2, <1>3, NothingLostIs, EventTypes
<1>6. StepInv'
  BY <1>1, <1>2, <1>3, EventTypes DEF StepInv
<1>7. FrontInv'
  BY <1>1, <1>2, <1>3 DEF FrontInv
<1>8. InsertInv'
  BY <1>1, <1>2, <1>3, EventTypes DEF StepInv, InsertInv, Action, Job
<1> QED BY <1>4, <1>5, <1>6, <1>7, <1>8

\* The broker takes a message back at the head of the queue.
LEMMA DetachFacts ==
  ASSUME TypeOK, NEW c \in Consumers, Detach(c)
  PROVE  /\ queue' \in Seq(Events) /\ attached' = attached \ {c}
         /\ \A x : In(queue, x) => In(queue', x)
         /\ IF c \in attached /\ msg[c] # NoOne
            THEN queue' # <<>> /\ Head(queue') = msg[c] /\ In(queue', msg[c])
            ELSE queue' = queue
<1>1. CASE c \in attached /\ msg[c] # NoOne
  <2>1. msg[c] \in Events /\ queue' = <<msg[c]>> \o queue
    BY <1>1 DEF Detach, TypeOK
  <2> QED BY <1>1, <2>1, ConsIn DEF TypeOK, Detach
<1>2. CASE ~(c \in attached /\ msg[c] # NoOne)
  BY <1>2 DEF Detach, TypeOK
<1> QED BY <1>1, <1>2

LEMMA DetachKeeps ==
  ASSUME IInv, NEW c \in Consumers, Disconnect(c) \/ Crash(c)
  PROVE  IInv'
<1> USE DEF IInv, TypeOK
<1>1. /\ Detach(c) /\ faults' \in 0..MaxFaults
      /\ UNCHANGED <<storeVars, unsent, dlq, duplicates>>
      /\ \/ c \in attached /\ UNCHANGED consumerVars
         \/ step' = [step EXCEPT ![c] = "pull"] /\ msg' = [msg EXCEPT ![c] = NoOne]
  BY PipelineAssumption DEF Disconnect, Crash, Fault, Goes
<1>2. /\ queue' \in Seq(Events) /\ attached' = attached \ {c}
      /\ \A x : In(queue, x) => In(queue', x)
      /\ IF c \in attached /\ msg[c] # NoOne
         THEN queue' # <<>> /\ Head(queue') = msg[c] /\ In(queue', msg[c])
         ELSE queue' = queue
  BY <1>1, DetachFacts
<1>3. \A x \in Events : Recorded(x) => Recorded(x)'
  BY <1>1, RecordedGrows
<1>4. \A d \in Consumers : d # c => msg'[d] = msg[d] /\ step'[d] = step[d]
  BY <1>1
<1>5. msg'[c] = NoOne \/ (msg'[c] = msg[c] /\ step'[c] = step[c] /\ c \in attached)
  BY <1>1
<1>6. TypeOK'
  BY <1>1, <1>2 DEF StoreTypeOK
<1>7. NothingLost'
  BY <1>1, <1>2, <1>3, <1>4, NothingLostIs, EventTypes
<1>8. StepInv'
  BY <1>1, <1>3, EventTypes DEF StepInv
<1>9. FrontInv'
  <2>1. CASE c \in attached /\ msg[c] # NoOne
    <3>1. attached' = {} /\ attached = {c}
      BY <1>2, <2>1
    <3>2. ASSUME NEW d \in Consumers, msg'[d] # NoOne
          PROVE  msg'[d] = msg[c] \/ (Recorded(msg[d]) /\ msg'[d] = msg[d])
      <4>1. CASE d = c
        BY <1>5, <3>2, <4>1
      <4>2. CASE d # c
        <5>1. msg'[d] = msg[d] /\ d \in Consumers \ attached
          BY <1>4, <3>1, <4>2
        <5> QED BY <2>1, <3>1, <3>2, <5>1 DEF FrontInv
      <4> QED BY <4>1, <4>2
    <3> QED BY <1>2, <1>3, <2>1, <3>1, <3>2 DEF FrontInv
  <2>2. CASE ~(c \in attached /\ msg[c] # NoOne)
    <3>1. queue' = queue /\ \A d \in attached : d # c \/ msg[d] = NoOne
      BY <1>2, <2>2
    <3> QED BY <1>2, <1>3, <1>4, <1>5, <3>1 DEF FrontInv
  <2> QED BY <2>1, <2>2
<1>10. InsertInv'
  BY <1>1, <1>3, EventTypes DEF StepInv, InsertInv, Action, Job
<1> QED BY <1>6, <1>7, <1>8, <1>9, <1>10

\* Ack, Nack with requeue, Nack without; nothing reaches the broker from a
\* consumer that has lost its connection.
LEMMA SettleKeeps ==
  ASSUME IInv, NEW c \in Consumers, Ack(c) \/ Requeue(c) \/ Discard(c)
  PROVE  IInv'
<1> USE DEF IInv, TypeOK
<1>1. PICK e \in Events : e = msg[c] /\ e # NoOne
  BY EventTypes DEF Ack, Requeue, Discard
<1>2. /\ step' = [step EXCEPT ![c] = "pull"] /\ msg' = [msg EXCEPT ![c] = NoOne]
      /\ UNCHANGED <<storeVars, unsent, attached, countVars>>
  BY DEF Ack, Requeue, Discard, Settle, Goes
<1>3. /\ dlq \subseteq dlq' /\ dlq' \subseteq Malformed
      /\ \/ c \notin attached /\ queue' = queue
         \/ c \in attached /\ queue' = queue /\ Recorded(e)'
         \/ c \in attached /\ queue' = <<e>> \o queue
  <2>1. <<>> \o queue = queue
    BY ConcatEmptySeq
  <2>2. CASE Ack(c)
    <3>1. Recorded(e) /\ dlq' = dlq
      BY <1>1, <2>2 DEF Ack, StepInv
    <3>2. Recorded(e)'
      BY <1>2, <3>1, RecordedGrows
    <3> QED BY <2>1, <2>2, <3>1, <3>2 DEF Ack, Settle
  <2>3. CASE Requeue(c)
    BY <1>1, <2>3 DEF Requeue, Settle
  <2>4. CASE Discard(c)
    <3>1. e \in Malformed /\ dlq' = IF c \in attached THEN dlq \union {e} ELSE dlq
      BY <1>1, <2>4 DEF Discard, StepInv
    <3>2. c \in attached => Recorded(e)'
      BY <3>1 DEF Recorded
    <3> QED BY <2>1, <2>4, <3>1, <3>2 DEF Discard, Settle
  <2> QED BY <2>2, <2>3, <2>4
<1>4. \A x \in Events : Recorded(x) => Recorded(x)'
  BY <1>2, <1>3, RecordedGrows
<1>5. /\ queue' \in Seq(Events) /\ \A x : In(queue, x) => In(queue', x)
      /\ c \in attached /\ ~Recorded(e)' => In(queue', e) /\ queue' # <<>> /\ Head(queue') = e
  BY <1>3, ConsIn
<1>6. TypeOK'
  BY <1>2, <1>3, <1>5, EventTypes DEF StoreTypeOK
<1>7. NothingLost'
  BY <1>1, <1>2, <1>4, <1>5, NothingLostIs
<1>8. StepInv'
  BY <1>2, <1>4, EventTypes DEF StepInv
<1>9. FrontInv'
  <2>1. CASE c \in attached
    <3>1. attached' = {c} /\ attached = {c}
      BY <1>2, <2>1
    <3>2. \A d \in Consumers : d # c /\ msg[d] # NoOne => msg[d] = e \/ Recorded(msg[d])
      BY <1>1, <3>1 DEF FrontInv
    <3> QED BY <1>1, <1>2, <1>4, <1>5, <3>1, <3>2 DEF FrontInv
  <2>2. CASE c \notin attached
    BY <1>2, <1>3, <1>4, <2>2 DEF FrontInv
  <2> QED BY <2>1, <2>2
<1>10. InsertInv'
  BY <1>2, <1>4, EventTypes DEF StepInv, InsertInv, Action, Job
<1> QED BY <1>6, <1>7, <1>8, <1>9, <1>10

LEMMA NextInv == IInv /\ [Next]_vars => IInv'
<1> SUFFICES ASSUME IInv, [Next]_vars PROVE IInv'
  OBVIOUS
<1>1. CASE UNCHANGED vars
  BY <1>1 DEF vars, IInv, TypeOK, StoreTypeOK, NothingLost, StepInv, FrontInv,
         InsertInv,
              Recorded, Action, Job
<1>2. CASE Next
  BY <1>2, DeliverKeeps, ConnectKeeps, PullKeeps, DetachKeeps, SettleKeeps, TableKeeps
     DEF Next, Works
<1> QED BY <1>1, <1>2

\* The invariant holds of every state of the intake.
THEOREM InvariantHolds == Spec => []IInv
<1> QED BY InitInv, NextInv, PTL DEF Spec

\* The type invariant, with the exclusive consumer.
THEOREM TypeCorrect == Spec => []TypeOK
<1>1. IInv => TypeOK
  BY DEF IInv
<1> QED BY <1>1, InvariantHolds, PTL

\* No event is dropped on its way to the table, for any number of jobs, consumers,
\* duplicates, lost connections, failed calls and crashes.
THEOREM NothingIsLost == Spec => []NothingLost
<1>1. IInv => NothingLost
  BY DEF IInv
<1> QED BY <1>1, InvariantHolds, PTL

-----------------------------------------------------------------------------
(* The safety half of the refinement.                                      *)

LEMMA StepRecords ==
  ASSUME IInv, [Next]_vars
  PROVE  [Ledger!Record]_RecordedEvents
<1>1. known \subseteq known' /\ started \subseteq started' /\ completed \subseteq completed'
      /\ dlq \subseteq dlq'
  BY DEF Next, Works, Deliver, Connect, Pull, HandleMessage, InsertMissing,
         InsertJobToDB,
         HandleFails, Disconnect, Crash, Ack, Requeue, Discard, Settle, AddJob, AddJobExists,
         UpdateJobStarted, UpdateJobCompleted, vars
<1>2. RecordedEvents \subseteq RecordedEvents' /\ RecordedEvents' \subseteq Events
  BY <1>1, RecordedGrows DEF RecordedEvents
<1>3. CASE RecordedEvents' # RecordedEvents
  <2>1. PICK new \in SUBSET (Events \ RecordedEvents) : new = RecordedEvents' \ RecordedEvents
    BY <1>2
  <2>2. new # {} /\ RecordedEvents' = RecordedEvents \union new
    BY <1>2, <1>3, <2>1
  <2> QED BY <2>1, <2>2 DEF Ledger!Record
<1> QED BY <1>3

\* The intake is a ledger: it starts empty, and every step leaves the record as
\* it is or adds events to it, so nothing that was recorded is taken back.
THEOREM LedgerIsKept == Spec => Ledger!Init /\ [][Ledger!Record]_RecordedEvents
<1>1. Init => Ledger!Init
  <2> SUFFICES ASSUME Init, NEW e \in Events PROVE ~Recorded(e)
    BY DEF Ledger!Init, RecordedEvents
  <2> QED BY EventTypes DEF Init, StoreInit, Recorded
<1> QED BY <1>1, StepRecords, InvariantHolds, PTL DEF Spec

-----------------------------------------------------------------------------
(* The intake and the table.                                               *)

\* Whatever consumers fail, restart or race, the table sees single transactions of
\* its own specification, so that what is proved of StoreSpec holds here too.
THEOREM IntakeKeepsStore == Spec => StoreSpec
<1>1. IInv /\ [Next]_vars => [StoreNext]_storeVars
  <2>1. ASSUME IInv, NEW c \in Consumers, InsertJobToDB(c), step[c] \in {"handle", "insert"}
        PROVE  StoreNext
    BY <2>1, EventTypes DEF InsertJobToDB, Job, StoreNext, JobNext, IInv, StepInv
  <2>2. ASSUME IInv, NEW c \in Consumers, HandleMessage(c) \/ InsertMissing(c)
        PROVE  StoreNext \/ UNCHANGED storeVars
    BY <2>1, <2>2, EventTypes
       DEF HandleMessage, InsertMissing, Job, StoreNext, JobNext, IInv, StepInv
  <2> QED BY <2>2 DEF Next, Works, Deliver, Connect, Pull, HandleFails, Disconnect, Crash,
                      Ack, Requeue, Discard, Settle, vars
<1> QED BY <1>1, InvariantHolds, PTL DEF Spec, Init, StoreSpec

-----------------------------------------------------------------------------
(* A stream.                                                               *)

\* Something on its way makes the handler read again, or the stream end, or
\* nothing announced the change.
Underway ==
  unread \/ broken \/ forwarder \in {"sending", "exited"} \/ notices > 0 \/ channel > 0

\* What the handler last read is what the database answers, or a notice is underway;
\* what the client was last sent is what the handler last read.
ReadInv ==
  /\ handler = "off" => forwarder = "none"
  /\ forwarder \in {"none", "leaked"} => handler \in {"off", "ended"}
  /\ handler \in {"flush", "waiting"} => lastRead = pressure \/ Underway
  /\ handler \in {"waiting", "noticed", "ticked"} /\ ~gone => client = lastRead

StreamInv == StreamTypeOK /\ notices <= changes /\ ReadInv

USE DEF database, server, listener, streamVars

LEMMA StreamInvInit == StreamInit => StreamInv
<1> SUFFICES ASSUME StreamInit PROVE StreamInv
  OBVIOUS
<1>1. 0 \in 0 .. MaxChanges /\ 0 \in 0 .. Capacity /\ 0 \in 0 .. Others
  BY CapacityAssumption, BoundAssumption
<1>2. pressure \in Answers /\ lastRead \in Answers /\ client \in Answers
  BY DEF StreamInit, Answers
<1>3. gone \in BOOLEAN /\ broken \in BOOLEAN /\ unread \in BOOLEAN
  BY DEF StreamInit
<1>4. StreamTypeOK
  BY <1>1, <1>2, <1>3 DEF StreamInit, StreamTypeOK
<1>5. notices <= changes /\ ReadInv
  BY DEF StreamInit, ReadInv
<1> QED BY <1>4, <1>5 DEF StreamInv

\* Where a handler goes, it waits for a tick in its select only.
LEMMA GoesToTypes ==
  ASSUME NEW s \in {"first", "flush", "waiting", "noticed", "ticked", "ended"}, GoesTo(s)
  PROVE  handler' = s /\ ahead' \in 0 .. Others /\ (ahead' > 0 => handler' = "waiting")
<1>1. 0 \in 0 .. Others
  BY CapacityAssumption
<1> QED BY <1>1, CapacityAssumption DEF GoesTo

LEMMA DatabaseKeeps ==
  ASSUME StreamInv, Change \/ GrowOld
  PROVE  StreamInv'
<1> USE BoundAssumption DEF StreamInv, StreamTypeOK
<1>1. CASE Change
  BY <1>1 DEF Change, Connected, ReadInv, Underway
<1>2. CASE GrowOld
  <2>1. unread' = Open
    BY <1>2 DEF GrowOld
  <2>2. unread' \in BOOLEAN
    BY <2>1, Zenon DEF Open
  <2>3. unread' = TRUE \/ handler \in {"off", "ended"}
    BY <2>1, <2>2 DEF Open
  <2>4. pressure' \in Answers
    BY <1>2 DEF GrowOld, Answers
  <2>5. StreamTypeOK' /\ notices' <= changes'
    BY <1>2, <2>2, <2>4 DEF GrowOld
  <2>6. ReadInv'
    BY <1>2, <2>3 DEF GrowOld, ReadInv, Underway
  <2> QED BY <2>5, <2>6
<1> QED BY <1>1, <1>2

LEMMA ForwarderKeeps ==
  ASSUME StreamInv, Forwarder \/ ConnectionLost
  PROVE  StreamInv'
<1> USE CapacityAssumption, BoundAssumption DEF StreamInv, StreamTypeOK, ReadInv, Underway
<1>1. CASE Receive
  BY <1>1 DEF Receive
<1>2. CASE Send
  BY <1>2 DEF Send
<1>3. CASE Exit
  <2>1. broken' = FALSE /\ notices' = 0
    BY <1>3, Zenon DEF Exit
  <2>2. broken' \in BOOLEAN
    BY <2>1, Zenon
  <2>3. notices' \in 0 .. MaxChanges
    BY <2>1
  <2>4. forwarder' = "exited" /\ handler # "off"
    BY <1>3 DEF Exit
  <2> QED BY <1>3, <2>2, <2>3, <2>4 DEF Exit
<1>4. CASE ConnectionLost
  BY <1>4 DEF ConnectionLost
<1> QED BY <1>1, <1>2, <1>3, <1>4 DEF Forwarder

\* The handler returns, and its channels stay as they are.
LEMMA ReturnKeeps ==
  ASSUME StreamInv, handler # "off", Returns, UNCHANGED <<phase, database, listener, broken>>
  PROVE  StreamInv'
<1>1. handler' = "ended" /\ ahead' \in 0 .. Others /\ (ahead' > 0 => handler' = "waiting")
  BY GoesToTypes DEF Returns
<1>2. lastRead' \in Answers /\ client' \in Answers /\ gone' \in BOOLEAN /\ unread' \in BOOLEAN
  BY DEF Returns, Answers
<1>3. StreamTypeOK'
  BY <1>1, <1>2 DEF StreamInv, StreamTypeOK
<1>4. ReadInv' /\ notices' <= changes'
  BY <1>1 DEF StreamInv, StreamTypeOK, ReadInv
<1> QED BY <1>3, <1>4 DEF StreamInv

\* A read brings what the handler knows up to date.
LEMMA ReadKeeps ==
  ASSUME StreamInv, NEW s \in {"flush", "waiting"}, ReadsTo(s),
         handler \in {"first", "noticed", "ticked"},
         s = "waiting" => handler # "first" /\ pressure = lastRead,
         UNCHANGED <<phase, database, listener, broken>>
  PROVE  StreamInv'
<1>1. handler' = s /\ ahead' \in 0 .. Others /\ (ahead' > 0 => handler' = "waiting")
  BY GoesToTypes DEF ReadsTo
<1>2. lastRead' = pressure /\ unread' \in BOOLEAN /\ UNCHANGED <<client, gone>>
  BY DEF ReadsTo
<1>3. StreamTypeOK'
  BY <1>1, <1>2 DEF StreamInv, StreamTypeOK
<1>4. ReadInv' /\ notices' <= changes'
  BY <1>1, <1>2 DEF StreamInv, StreamTypeOK, ReadInv
<1> QED BY <1>3, <1>4 DEF StreamInv

LEMMA HandlerKeeps ==
  ASSUME StreamInv, Subscribe \/ SubscribeFails \/ Flush \/ TakeTick \/ OtherServed \/ Handler \/ HangUp
  PROVE  StreamInv'
<1> USE CapacityAssumption, BoundAssumption
    DEF StreamInv, StreamTypeOK, ReadInv, Underway
<1>1. CASE Subscribe
  BY <1>1, GoesToTypes DEF Subscribe
<1>10. CASE SubscribeFails
  <2>1. handler' = "ended" /\ ahead' \in 0 .. Others /\ (ahead' > 0 => handler' = "waiting")
    BY <1>10, GoesToTypes DEF SubscribeFails, Returns
  <2>2. lastRead' \in Answers /\ client' \in Answers /\ gone' \in BOOLEAN /\ unread' \in BOOLEAN
    BY <1>10 DEF SubscribeFails, Returns, Answers
  <2> QED BY <1>10, <2>1, <2>2 DEF SubscribeFails
<1>2. CASE Flush
  BY <1>2, GoesToTypes DEF Flush
<1>3. CASE TakeTick
  BY <1>3, GoesToTypes DEF TakeTick
<1>4. CASE OtherServed
  BY <1>4 DEF OtherServed
<1>5. CASE HangUp
  BY <1>5 DEF HangUp
<1>6. CASE FirstRead
  BY <1>6, ReturnKeeps, ReadKeeps DEF FirstRead
<1>7. CASE TakeNotice
  BY <1>7, GoesToTypes DEF TakeNotice
<1>8. CASE Leave
  BY <1>8, ReturnKeeps DEF Leave
<1>9. CASE Reread
  <2>1. CASE Returns
    BY <1>9, <2>1, ReturnKeeps DEF Reread
  <2>2. CASE handler = "ticked" \/ pressure # lastRead
    BY <1>9, <2>1, <2>2, ReadKeeps DEF Reread
  <2>3. CASE handler = "noticed" /\ pressure = lastRead
    BY <1>9, <2>1, <2>3, ReadKeeps DEF Reread
  <2> QED BY <1>9, <2>2, <2>3 DEF Reread
<1> QED BY <1>1, <1>2, <1>3, <1>4, <1>5, <1>6, <1>7, <1>8, <1>9, <1>10 DEF Handler

LEMMA StreamInvNext == StreamInv /\ [StreamNext]_streamVars => StreamInv'
<1> SUFFICES ASSUME StreamInv, [StreamNext]_streamVars PROVE StreamInv'
  OBVIOUS
<1>1. CASE Shutdown
  BY <1>1 DEF Shutdown, Signal, Drained, Stop, Still, StreamInv, StreamTypeOK, ReadInv, Underway
<1>2. CASE UNCHANGED streamVars
  BY <1>2 DEF StreamInv, StreamTypeOK, ReadInv, Underway
<1> QED BY <1>1, <1>2, DatabaseKeeps, ForwarderKeeps, HandlerKeeps DEF StreamNext, ProcessStep

THEOREM StreamInvariantHolds == StreamSpec => []StreamInv
<1> QED BY StreamInvInit, StreamInvNext, PTL DEF StreamSpec

THEOREM StreamTypeCorrect == StreamSpec => []StreamTypeOK
<1>1. StreamInv => StreamTypeOK
  BY DEF StreamInv
<1> QED BY <1>1, StreamInvariantHolds, PTL

THEOREM NoChangeIsMissed == StreamSpec => []NoChangeMissed
<1>1. StreamInv => NoChangeMissed
  BY DEF StreamInv, StreamTypeOK, ReadInv, Underway, NoChangeMissed
<1> QED BY <1>1, StreamInvariantHolds, PTL

-----------------------------------------------------------------------------
(* The table and a stream on it.                                           *)

\* What is shown of the watched flavor is an answer the stream knows.
LEMMA ShownIsAnswer ==
  StoreTypeOK => Shown \in Answers /\ (Served(Watched) => Shown \in Pressures)
<1> SUFFICES ASSUME StoreTypeOK
             PROVE  Shown \in Answers /\ (Served(Watched) => Shown \in Pressures)
  OBVIOUS
<1>1. Load(Watched) \in Pressures
  <2>1. {j \in known \ (completed \union expired) : assigned[j] = Watched} \in SUBSET Jobs
    BY DEF StoreTypeOK
  <2> QED BY <2>1, WatchedAssumption DEF Load
<1>2. spec[Watched].minimum \in Pressures
  BY WatchedAssumption DEF StoreTypeOK, FlavorSpecs
<1> QED BY <1>1, <1>2 DEF Shown, Pressure, Answers

\* No batch lets time pass, and what is silent and changes what is shown is time
\* alone, which leaves the flavors as they are.
LEMMA TimeIsSilent ==
  ASSUME StoreNext
  PROVE  /\ notified' => expired' = expired
         /\ ~notified' /\ expired' = expired => Shown' = Shown
         /\ expired' # expired => UNCHANGED <<flavors, spec>>
<1>1. CASE \E j \in Jobs : Expire(j)
  BY <1>1 DEF Expire, flavorVars
<1>2. CASE JobNext \/ FlavorNext
  <2>1. expired' = expired
    BY <1>2 DEF JobNext, AddJob, AddJobExists, UpdateJobStarted, UpdateJobCompleted, FlavorNext,
                AddFlavor, AddFlavorExists, DisableFlavor, EnableFlavor, DeleteFlavor
  <2>2. ASSUME ~notified' PROVE Shown' = Shown
    <3>1. UNCHANGED <<flavors, spec, known, completed, assigned, expired>>
      BY <2>1, <2>2, SilentSteps
    <3> QED BY <3>1 DEF Shown, Served, Pressure, Load
  <2> QED BY <2>1, <2>2
<1> QED BY <1>1, <1>2 DEF StoreNext

\* To the stream a batch is a change with its notification, a job's passing out of
\* the window a silent change, and a batch that says nothing no step at all.
LEMMA StoreStepStreams ==
  ASSUME StoreTypeOK, StoreTypeOK', pressure = Shown, StoreStep
  PROVE  Change \/ GrowOld \/ UNCHANGED streamVars
<1>1. Shown' \in Answers /\ (Served(Watched)' => Shown' \in Pressures)
  <2>1. (StoreTypeOK => Shown \in Answers /\ (Served(Watched) => Shown \in Pressures))'
    BY ShownIsAnswer, PTL
  <2> QED BY <2>1
<1>2. StoreNext /\ pressure' = Shown' /\ pressure \in Answers
  BY ShownIsAnswer DEF StoreStep
<1>3. CASE notified'
  <2>1. expired' = expired
    BY <1>2, <1>3, TimeIsSilent
  <2> QED BY <1>1, <1>2, <1>3, <2>1 DEF StoreStep, Change
<1>4. CASE ~notified' /\ pressure' = pressure
  BY <1>4 DEF StoreStep
<1>5. CASE ~notified' /\ pressure' # pressure
  <2>1. expired' # expired /\ UNCHANGED <<flavors, spec>>
    BY <1>2, <1>5, TimeIsSilent
  <2>2. Served(Watched) /\ Served(Watched)'
    BY <1>2, <1>5, <2>1 DEF Shown, Served
  <2>3. pressure \in Pressures /\ pressure' \in Pressures
    BY <1>1, <1>2, <2>2, ShownIsAnswer
  <2>4. unread' = Open
    BY <1>5, <2>1 DEF StoreStep
  <2> QED BY <1>5, <2>3, <2>4 DEF StoreStep, GrowOld
<1> QED BY <1>3, <1>4, <1>5

\* What the process does by itself reads the database and never writes it.
LEMMA ProcessReads ==
  ASSUME ProcessStep
  PROVE  pressure' = pressure
BY DEF ProcessStep, Forwarder, Receive, Send, Exit, ConnectionLost, Subscribe, SubscribeFails,
       Returns, Flush, TakeTick,
       OtherServed, Handler, FirstRead, TakeNotice, Leave, Reread, HangUp, Shutdown, Signal,
       Drained, Stop, Still

PlannerInv == StoreInv /\ pressure = Shown

LEMMA PlannerStep ==
  ASSUME PlannerInv, [PlannerNext]_<<storeVars, streamVars>>
  PROVE  PlannerInv' /\ [StoreNext]_storeVars /\ [StreamNext]_streamVars
<1>1. [StoreNext]_storeVars
  BY DEF PlannerNext, StoreStep
<1>2. StoreInv'
  BY <1>1, StoreInvNext DEF PlannerInv
<1>3. CASE PlannerNext /\ StoreStep
  <2>1. pressure' = Shown'
    BY <1>3 DEF StoreStep
  <2>2. StoreTypeOK /\ StoreTypeOK'
    BY <1>2 DEF PlannerInv, StoreInv
  <2>3. Change \/ GrowOld \/ UNCHANGED streamVars
    BY <1>3, <2>2, StoreStepStreams DEF PlannerInv
  <2> QED BY <1>1, <1>2, <1>3, <2>1, <2>3 DEF PlannerInv, PlannerNext, StreamNext
<1>4. CASE PlannerNext /\ ProcessStep /\ UNCHANGED storeVars
  <2>1. pressure' = pressure /\ Shown' = Shown
    BY <1>4, ProcessReads DEF Shown, Served, Pressure, Load
  <2> QED BY <1>1, <1>2, <1>4, <2>1 DEF PlannerInv, PlannerNext, StreamNext
<1>5. CASE UNCHANGED <<storeVars, streamVars>>
  <2>1. pressure' = pressure /\ Shown' = Shown
    BY <1>5 DEF Shown, Served, Pressure, Load
  <2> QED BY <1>1, <1>2, <1>5, <2>1 DEF PlannerInv
<1> QED BY <1>3, <1>4, <1>5 DEF PlannerNext

LEMMA PlannerInvariantHolds == PlannerSpec => []PlannerInv
<1>1. PlannerInit => PlannerInv
  BY StoreInvInit DEF PlannerInit, PlannerInv
<1>2. PlannerInv /\ [PlannerNext]_<<storeVars, streamVars>> => PlannerInv'
  BY PlannerStep
<1> QED BY <1>1, <1>2, PTL DEF PlannerSpec

\* The database that PressureStream abstracts is the table: every batch that changes
\* what is shown of the flavor comes with the notification the stream relies on.
THEOREM StoreDrivesStream == PlannerSpec => ImplementsStream
<1>1. PlannerInv /\ [PlannerNext]_<<storeVars, streamVars>> => [StreamNext]_streamVars
  BY PlannerStep
<1> QED BY <1>1, PlannerInvariantHolds, PTL
       DEF ImplementsStream, PlannerSpec, PlannerInit, StreamSpec

\* So whatever fairness gives a stream on the abstract database, it gives it on the table.
THEOREM StoreDrivesFairStream == FairPlannerSpec => FairStreamSpec
BY StoreDrivesStream DEF ImplementsStream, FairPlannerSpec, FairStreamSpec

=============================================================================
