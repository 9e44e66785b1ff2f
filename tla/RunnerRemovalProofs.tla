------------------------- MODULE RunnerRemovalProofs -------------------------
(***************************************************************************)
(* What the removal of runners guarantees for any set of runners and any   *)
(* number of races: types, NoSilentLeak, KnownJobSpared, EscalationKept.   *)
(*                                                                         *)
(* None of the three is inductive.  NoSilentLeak rests on what a recorded  *)
(* fault means (LeakInv): on a record that waits for its delete it is the  *)
(* trace of a failed teardown, so what IsDeleteStuck escalates has failed  *)
(* before.  KnownJobSpared rests on what an old record means (RecordInv):  *)
(* a job that is still running has none, and a runner is given one job     *)
(* only, so what the listing showed as ended cannot run again (PassInv).   *)
(***************************************************************************)
EXTENDS RunnerRemoval, TLAPS

\* A fault is that of a create, or of a teardown that failed; a forced delete is
\* pending only after a failed teardown or an operator's request.
LeakInv ==
  /\ NoSilentLeak
  /\ \A r \in fault : status[r] = "error" \/ (status[r] = "pending_delete" /\ r \in excused)
  /\ \A r \in Runners : status[r] = "pending_force_delete" => r \in excused
  /\ force \subseteq excused
  /\ \A r \in inflight : status[r] = "none" /\ r \notin cloud

\* Records are of the one job of a runner, and an old one is of a job that ended.
RecordInv ==
  \A r \in Runners :
    /\ active[r] # "none" \/ job[r] # "none" => r \in served
    /\ active[r] = "stale" \/ job[r] = "stale" => r \notin working

\* What the pass concluded from its listing still holds of the runners it has
\* left to delete.
PassInv ==
  /\ \A r \in todo \intersect claimed : r \in served /\ r \notin working
  /\ \A r \in todo : listed[r] = "pending_force_delete" => r \in force
  /\ pc # "removing" => retrying = {}

IInv == TypeOK /\ LeakInv /\ RecordInv /\ PassInv

USE DEF recordVars, truthVars, garmVars, switchVars, passVars, Statuses, Ages, Deletable

-----------------------------------------------------------------------------
(* The invariant.                                                          *)

LEMMA InitInv == Init => IInv
<1> SUFFICES ASSUME Init PROVE IInv
  OBVIOUS
<1>1. TypeOK
  <2>1. status \in [Runners -> Statuses] /\ listed \in [Runners -> Statuses]
    BY DEF Init, Absent
  <2>2. races \in 0..MaxRaces
    BY RemovalAssumption DEF Init
  <2> QED BY <2>1, <2>2 DEF Init, TypeOK, Absent
<1>2. LeakInv
  BY DEF Init, LeakInv, NoSilentLeak
<1>3. RecordInv /\ PassInv
  BY DEF Init, RecordInv, PassInv, Absent
<1> QED BY <1>1, <1>2, <1>3 DEF IInv

\* Each step of the pass keeps the invariant.
LEMMA PassKeeps == IInv /\ Pass => IInv'
<1> SUFFICES ASSUME IInv PROVE Pass => IInv'
  OBVIOUS
<1> USE DEF IInv, TypeOK, LeakInv, NoSilentLeak, RecordInv, PassInv
<1>1. ASSUME Disable PROVE IInv'
  <2>1. TypeOK'
    BY <1>1, RemovalAssumption DEF Disable
  <2>2. LeakInv'
    BY <1>1 DEF Disable
  <2>3. RecordInv'
    BY <1>1 DEF Disable
  <2>4. PassInv'
    BY <1>1 DEF Disable
  <2> QED BY <2>1, <2>2, <2>3, <2>4
<1>2. ASSUME ListRunners PROVE IInv'
  <2>1. TypeOK'
    BY <1>2, RemovalAssumption DEF ListRunners, Present
  <2>2. LeakInv'
    BY <1>2 DEF ListRunners, Present, IsDeleteStuck
  <2>3. RecordInv'
    BY <1>2 DEF ListRunners
  <2>4. PassInv'
    BY <1>2 DEF ListRunners, Present, IsRunningJob, IsDeleteStuck
  <2> QED BY <2>1, <2>2, <2>3, <2>4
<1>3. ASSUME DeleteScaleset PROVE IInv'
  <2>1. TypeOK'
    BY <1>3, RemovalAssumption DEF DeleteScaleset
  <2>2. LeakInv'
    BY <1>3 DEF DeleteScaleset
  <2>3. RecordInv'
    BY <1>3 DEF DeleteScaleset
  <2>4. PassInv'
    BY <1>3 DEF DeleteScaleset
  <2> QED BY <2>1, <2>2, <2>3, <2>4
<1>4. ASSUME EndPass \/ DeleteRefused PROVE IInv'
  <2>1. TypeOK'
    BY <1>4, RemovalAssumption DEF EndPass, DeleteRefused, PassOver, Absent
  <2>2. LeakInv'
    BY <1>4 DEF EndPass, DeleteRefused, PassOver, Absent
  <2>3. RecordInv'
    BY <1>4 DEF EndPass, DeleteRefused, PassOver, Absent
  <2>4. PassInv'
    BY <1>4 DEF EndPass, DeleteRefused, PassOver, Absent
  <2> QED BY <2>1, <2>2, <2>3, <2>4
<1>5. ASSUME Abort PROVE IInv'
  <2>1. TypeOK'
    BY <1>5, RemovalAssumption DEF Abort, PassOver, Absent
  <2>2. LeakInv'
    BY <1>5 DEF Abort, PassOver, Absent
  <2>3. RecordInv'
    BY <1>5 DEF Abort, PassOver, Absent
  <2>4. PassInv'
    BY <1>5 DEF Abort, PassOver, Absent
  <2> QED BY <2>1, <2>2, <2>3, <2>4
<1>6. ASSUME NEW r \in Runners, DeleteRunner(r) PROVE IInv'
  <2>1. TypeOK'
    BY <1>6, RemovalAssumption DEF DeleteRunner, Accept, Done, Touch
  <2>2. LeakInv'
    BY <1>6 DEF DeleteRunner, Accept, Done, Touch
  <2>3. RecordInv'
    BY <1>6 DEF DeleteRunner, Accept, Done, Touch
  <2>4. PassInv'
    BY <1>6 DEF DeleteRunner, Accept, Done, Touch
  <2> QED BY <2>1, <2>2, <2>3, <2>4
<1>7. ASSUME NEW r \in Runners, DeleteUnauthorized(r) PROVE IInv'
  <2>1. TypeOK'
    BY <1>7, RemovalAssumption DEF DeleteUnauthorized
  <2>2. LeakInv'
    BY <1>7 DEF DeleteUnauthorized
  <2>3. RecordInv'
    BY <1>7 DEF DeleteUnauthorized
  <2>4. PassInv'
    BY <1>7 DEF DeleteUnauthorized
  <2> QED BY <2>1, <2>2, <2>3, <2>4
<1>8. ASSUME NEW r \in Runners, DeleteBypassing(r) PROVE IInv'
  <2>1. TypeOK'
    BY <1>8, RemovalAssumption DEF DeleteBypassing, Accept, Done, Touch
  <2>2. LeakInv'
    BY <1>8 DEF DeleteBypassing, Accept, Done, Touch
  <2>3. RecordInv'
    BY <1>8 DEF DeleteBypassing, Accept, Done, Touch
  <2>4. PassInv'
    BY <1>8 DEF DeleteBypassing, Accept, Done, Touch
  <2> QED BY <2>1, <2>2, <2>3, <2>4
<1>9. ASSUME NEW r \in Runners, DeleteDeferred(r) PROVE IInv'
  <2>1. TypeOK'
    BY <1>9, RemovalAssumption DEF DeleteDeferred, Done
  <2>2. LeakInv'
    BY <1>9 DEF DeleteDeferred, Done
  <2>3. RecordInv'
    BY <1>9 DEF DeleteDeferred, Done
  <2>4. PassInv'
    BY <1>9 DEF DeleteDeferred, Done
  <2> QED BY <2>1, <2>2, <2>3, <2>4
<1> QED
  BY <1>1, <1>2, <1>3, <1>4, <1>5, <1>6, <1>7, <1>8, <1>9 DEF Pass

\* So does every step of GARM's workers, of the provider and of a job.
LEMMA GarmKeeps == IInv /\ Garm => IInv'
<1> SUFFICES ASSUME IInv, UNCHANGED <<switchVars, passVars>>,
                    NEW r \in Runners, Runner(r)
             PROVE  IInv'
  BY DEF Garm, Undisturbed
<1> USE DEF IInv, TypeOK, LeakInv, NoSilentLeak, RecordInv, PassInv
<1>1. ASSUME Appear(r) PROVE IInv'
  <2>1. TypeOK'
    BY <1>1, RemovalAssumption DEF Appear
  <2>2. LeakInv'
    BY <1>1 DEF Appear
  <2>3. RecordInv'
    BY <1>1 DEF Appear
  <2>4. PassInv'
    BY <1>1 DEF Appear
  <2> QED BY <2>1, <2>2, <2>3, <2>4
<1>2. ASSUME CreateDone(r) PROVE IInv'
  <2>1. TypeOK'
    BY <1>2, RemovalAssumption DEF CreateDone
  <2>2. LeakInv'
    BY <1>2 DEF CreateDone
  <2>3. RecordInv'
    BY <1>2 DEF CreateDone
  <2>4. PassInv'
    BY <1>2 DEF CreateDone
  <2> QED BY <2>1, <2>2, <2>3, <2>4
<1>3. ASSUME Reap(r) PROVE IInv'
  <2>1. TypeOK'
    BY <1>3, RemovalAssumption DEF Reap
  <2>2. LeakInv'
    BY <1>3 DEF Reap
  <2>3. RecordInv'
    BY <1>3 DEF Reap
  <2>4. PassInv'
    BY <1>3 DEF Reap
  <2> QED BY <2>1, <2>2, <2>3, <2>4
<1>4. ASSUME StartTeardown(r) PROVE IInv'
  <2>1. TypeOK'
    BY <1>4, RemovalAssumption DEF StartTeardown, Race, Touch, IsRunningJob
  <2>2. LeakInv'
    BY <1>4 DEF StartTeardown, Race, Touch
  <2>3. RecordInv'
    BY <1>4 DEF StartTeardown, Race, Touch
  <2>4. PassInv'
    BY <1>4 DEF StartTeardown, Race, Touch
  <2> QED BY <2>1, <2>2, <2>3, <2>4
<1>5. ASSUME TeardownDone(r) PROVE IInv'
  <2>1. TypeOK'
    BY <1>5, RemovalAssumption DEF TeardownDone, Forget
  <2>2. LeakInv'
    BY <1>5 DEF TeardownDone, Forget
  <2>3. RecordInv'
    BY <1>5 DEF TeardownDone, Forget
  <2>4. PassInv'
    BY <1>5 DEF TeardownDone, Forget
  <2> QED BY <2>1, <2>2, <2>3, <2>4
<1>6. ASSUME TeardownFails(r) PROVE IInv'
  <2>1. TypeOK'
    BY <1>6, RemovalAssumption DEF TeardownFails, Race, Touch, IsRunningJob
  <2>2. LeakInv'
    BY <1>6 DEF TeardownFails, Race, Touch
  <2>3. RecordInv'
    BY <1>6 DEF TeardownFails, Race, Touch
  <2>4. PassInv'
    BY <1>6 DEF TeardownFails, Race, Touch
  <2> QED BY <2>1, <2>2, <2>3, <2>4
<1>7. ASSUME ForcedTeardownFails(r) PROVE IInv'
  <2>1. TypeOK'
    BY <1>7, RemovalAssumption DEF ForcedTeardownFails, Forget
  <2>2. LeakInv'
    BY <1>7 DEF ForcedTeardownFails, Forget
  <2>3. RecordInv'
    BY <1>7 DEF ForcedTeardownFails, Forget
  <2>4. PassInv'
    BY <1>7 DEF ForcedTeardownFails, Forget
  <2> QED BY <2>1, <2>2, <2>3, <2>4
<1>8. ASSUME OperatorForces(r) PROVE IInv'
  <2>1. TypeOK'
    BY <1>8, RemovalAssumption DEF OperatorForces, Touch
  <2>2. LeakInv'
    BY <1>8 DEF OperatorForces, Touch
  <2>3. RecordInv'
    BY <1>8 DEF OperatorForces, Touch
  <2>4. PassInv'
    BY <1>8 DEF OperatorForces, Touch
  <2> QED BY <2>1, <2>2, <2>3, <2>4
<1>9. ASSUME JobStarts(r) PROVE IInv'
  <2>1. TypeOK'
    BY <1>9, RemovalAssumption DEF JobStarts
  <2>2. LeakInv'
    BY <1>9 DEF JobStarts
  <2>3. RecordInv'
    BY <1>9 DEF JobStarts
  <2>4. PassInv'
    BY <1>9 DEF JobStarts
  <2> QED BY <2>1, <2>2, <2>3, <2>4
<1>10. ASSUME RecordStart(r) PROVE IInv'
  <2>1. TypeOK'
    BY <1>10, RemovalAssumption DEF RecordStart
  <2>2. LeakInv'
    BY <1>10 DEF RecordStart
  <2>3. RecordInv'
    BY <1>10 DEF RecordStart
  <2>4. PassInv'
    BY <1>10 DEF RecordStart
  <2> QED BY <2>1, <2>2, <2>3, <2>4
<1>11. ASSUME JobEnds(r) PROVE IInv'
  <2>1. TypeOK'
    BY <1>11, RemovalAssumption DEF JobEnds
  <2>2. LeakInv'
    BY <1>11 DEF JobEnds
  <2>3. RecordInv'
    BY <1>11 DEF JobEnds
  <2>4. PassInv'
    BY <1>11 DEF JobEnds
  <2> QED BY <2>1, <2>2, <2>3, <2>4
<1>12. ASSUME RecordEnd(r) PROVE IInv'
  <2>1. TypeOK'
    BY <1>12, RemovalAssumption DEF RecordEnd
  <2>2. LeakInv'
    BY <1>12 DEF RecordEnd
  <2>3. RecordInv'
    BY <1>12 DEF RecordEnd
  <2>4. PassInv'
    BY <1>12 DEF RecordEnd
  <2> QED BY <2>1, <2>2, <2>3, <2>4
<1>13. ASSUME GrowsStale(r) PROVE IInv'
  <2>1. TypeOK'
    BY <1>13, RemovalAssumption DEF GrowsStale
  <2>2. LeakInv'
    BY <1>13 DEF GrowsStale
  <2>3. RecordInv'
    BY <1>13 DEF GrowsStale
  <2>4. PassInv'
    BY <1>13 DEF GrowsStale
  <2> QED BY <2>1, <2>2, <2>3, <2>4
<1> QED
  BY <1>1, <1>2, <1>3, <1>4, <1>5, <1>6, <1>7, <1>8, <1>9, <1>10, <1>11, <1>12, <1>13 DEF Runner

LEMMA NextInv == IInv /\ [Next]_vars => IInv'
<1> SUFFICES ASSUME IInv, [Next]_vars PROVE IInv'
  OBVIOUS
<1>1. CASE Switch
  BY <1>1 DEF Switch, IInv, TypeOK, LeakInv, NoSilentLeak, RecordInv, PassInv
<1>2. CASE UNCHANGED vars
  BY <1>2 DEF vars, IInv, TypeOK, LeakInv, NoSilentLeak, RecordInv, PassInv
<1> QED BY <1>1, <1>2, PassKeeps, GarmKeeps DEF Next

THEOREM InvariantHolds == Spec => []IInv
BY InitInv, NextInv, PTL DEF Spec

\* Types, and that a job runs on an instance and is its runner's only one.
THEOREM TypeCorrect == Spec => []TypeOK
BY InvariantHolds, PTL DEF IInv

\* The force_remove of _delete_runner leaves no cloud instance behind that the
\* provider had not failed to tear down, whatever faults GARM records.
THEOREM NoLeak == Spec => []NoSilentLeak
BY InvariantHolds, PTL DEF IInv, LeakInv

-----------------------------------------------------------------------------
(* What a delete may do.                                                   *)

\* Only an accepted delete ends a job, or changes a status, during a pass.
LEMMA OnlyAcceptedDeletes ==
  ASSUME IInv, Pass
  PROVE  \/ UNCHANGED <<status, working>>
         \/ \E r \in todo : Accept(r)
<1> USE DEF IInv, TypeOK
<1>1. ASSUME NEW r \in Runners, DeleteRunner(r) \/ DeleteBypassing(r)
      PROVE  r \in todo /\ Accept(r)
  BY <1>1 DEF DeleteRunner, DeleteBypassing
<1>2. ASSUME NEW r \in Runners, DeleteUnauthorized(r) \/ DeleteDeferred(r)
      PROVE  UNCHANGED <<status, working>>
  BY <1>2 DEF DeleteUnauthorized, DeleteDeferred
<1>3. ASSUME Disable \/ ListRunners \/ DeleteScaleset \/ DeleteRefused \/ EndPass \/ Abort
      PROVE  UNCHANGED <<status, working>>
  BY <1>3 DEF Disable, ListRunners, DeleteScaleset, DeleteRefused, EndPass, Abort
<1> QED BY <1>1, <1>2, <1>3 DEF Pass

\* _is_running_job: whatever the order of jobs, messages and deletes, a delete
\* ends no job that the listing showed in any record.
THEOREM KnownJobsAreSpared == Spec => KnownJobSpared
<1>1. ASSUME IInv, [Next]_vars
      PROVE  [Pass => \A r \in working \ working' : r \notin claimed]_vars
  <2> SUFFICES ASSUME Pass, NEW r \in working \ working' PROVE r \notin claimed
    OBVIOUS
  <2>1. PICK q \in todo : Accept(q)
    BY <1>1, OnlyAcceptedDeletes
  <2>2. r = q
    BY <2>1 DEF Accept
  <2> QED BY <1>1, <2>2 DEF IInv, PassInv
<1> QED BY <1>1, InvariantHolds, PTL DEF Spec, KnownJobSpared

\* _is_delete_stuck: a later pass never turns a forced delete into a plain one.
THEOREM EscalationIsKept == Spec => EscalationKept
<1>1. ASSUME IInv, [Next]_vars
      PROVE  [Pass => \A r \in Runners :
                /\ listed[r] = "pending_force_delete"
                /\ status[r] = "pending_force_delete"
                => status'[r] = "pending_force_delete"]_vars
  <2> SUFFICES ASSUME Pass, NEW r \in Runners,
                      listed[r] = "pending_force_delete",
                      status[r] = "pending_force_delete"
               PROVE  status'[r] = "pending_force_delete"
    OBVIOUS
  <2>1. CASE UNCHANGED <<status, working>>
    BY <2>1
  <2>2. CASE \E q \in todo : Accept(q)
    <3>1. PICK q \in todo : Accept(q)
      BY <2>2
    <3>2. CASE q = r
      BY <1>1, <3>1, <3>2 DEF Accept, IInv, TypeOK, PassInv
    <3>3. CASE q # r
      BY <1>1, <3>1, <3>3 DEF Accept, IInv, TypeOK
    <3> QED BY <3>2, <3>3
  <2> QED BY <1>1, <2>1, <2>2, OnlyAcceptedDeletes
<1> QED BY <1>1, InvariantHolds, PTL DEF Spec, EscalationKept

=============================================================================
