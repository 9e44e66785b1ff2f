--------------------------- MODULE GarmHooksProofs ---------------------------
(***************************************************************************)
(* What the hooks of the GARM charm guarantee for any number of units,     *)
(* providers, mintings, changes of the relations and cleanup passes:       *)
(* types, AdminKnown, ProviderHeld and RemovedClean.                       *)
(*                                                                         *)
(* ProviderHeld is about what a leader writes long after it has read:      *)
(* KnowsInv says that a hook during which nobody wrote the record has all  *)
(* of it in its GARM, and SurvivalInv that a provider a completed pass saw *)
(* unused is used now only if a hook that is still to record it, or has    *)
(* failed to, has created the scale set since.                             *)
(***************************************************************************)
EXTENDS GarmHooks, TLAPS

Serving(u) == pc[u] \in {"replanned", "ready", "reconciled"}

\* A hook that has yet to record the provider, or failed to, or another one.
Held(p) == p \in record \union unrecorded
           \/ \E u \in Units : pc[u] = "reconciled" /\ p \in seen[u]

\* Secrets are generated in a hook, and stored or lost at its end.
SecretInv ==
  /\ \A u \in Units : ~InHook(u) => minted[u] = 0
  /\ \A u \in Units : Serving(u) => Visible(u) # 0
  /\ initialised = 0 => InUse = {}

\* A unit that is gone runs nothing.
GoneInv == \A u \in gone : pc[u] = "idle"

\* GARM runs what the hook has read, of the relations and of the record.
KnowsInv ==
  \A u \in Units : Serving(u) =>
    /\ seen[u] \subseteq running[u]
    /\ u \notin overtaken => record \subseteq running[u]

\* What a completed pass knows of the providers in use is true of all but those
\* another hook has created a scale set on since.
SurvivalInv ==
  \A u \in Units : pc[u] = "reconciled" /\ known[u] /\ u \notin overtaken =>
    \A p \in InUse :
      \/ p \in seen[u] \union surviving[u] \union unrecorded
      \/ \E v \in Units \ {u} : pc[v] = "reconciled" /\ p \in seen[v]

HeldInv == \A p \in InUse : Held(p)

IInv ==
  /\ TypeOK /\ AdminKnown /\ RemovedClean
  /\ SecretInv /\ GoneInv /\ KnowsInv /\ SurvivalInv /\ HeldInv

USE DEF modelVars, storeVars, garmVars, hookVars, historyVars, vars

-----------------------------------------------------------------------------
(* Types.                                                                  *)

LEMMA InitInv == Init => IInv
<1> SUFFICES ASSUME Init PROVE IInv
  OBVIOUS
<1>1. TypeOK
  <2>1. edits \in 0..MaxEdits /\ mints \in 0..MaxMints /\ passes \in 0..MaxPasses
    BY HooksAssumption DEF Init
  <2>2. secret \in 0..mints /\ initialised \in 0..mints /\ minted \in [Units -> 0..mints]
    BY DEF Init
  <2> QED BY <2>1, <2>2 DEF Init, TypeOK
<1>2. InUse = {} /\ \A u \in Units : pc[u] = "idle"
  BY DEF Init, InUse
<1>3. AdminKnown /\ SecretInv
  BY <1>2 DEF Init, AdminKnown, SecretInv, Serving
<1>4. RemovedClean /\ GoneInv /\ KnowsInv /\ SurvivalInv /\ HeldInv
  BY <1>2 DEF Init, RemovedClean, GoneInv, KnowsInv, SurvivalInv, HeldInv, Serving
<1> QED BY <1>1, <1>3, <1>4 DEF IInv

\* Generated secrets keep their numbers, the stored or the generated one is visible.
LEMMA VisibleType ==
  ASSUME TypeOK, NEW u \in Units
  PROVE  Visible(u) \in 0..mints
BY DEF TypeOK, Visible

LEMMA TypeUnitStep ==
  ASSUME TypeOK, NEW u \in Units, UnitStep(u)
  PROVE  TypeOK'
<1> USE HooksAssumption, VisibleType DEF TypeOK, GoTo
<1>1. CASE Dispatch(u)
  BY <1>1 DEF Dispatch, Mints, Related
<1>2. CASE NotReady(u) \/ Wait(u)
  <2>1. Succeed(u) /\ UNCHANGED <<record, unrecorded>> /\ overtaken' = overtaken \ {u}
    BY <1>2 DEF NotReady, Wait
  <2> QED BY <2>1 DEF Succeed, Forget
<1>3. CASE Replan(u)
  BY <1>3 DEF Replan, Published
<1>4. CASE FirstRun(u)
  BY <1>4 DEF FirstRun
<1>5. CASE Reconcile(u)
  BY <1>5 DEF Reconcile, Reconciled
<1>6. CASE Save(u)
  BY <1>6 DEF Save, Succeed, Forget, Trimmed
<1>7. CASE Rollback(u)
  BY <1>7 DEF Rollback, Forget
<1>8. CASE LeaveAtOnce(u) \/ LeaveUnreached(u)
  <2>1. Leave(u) /\ passes' = passes /\ skipped' \in BOOLEAN
    BY <1>8 DEF LeaveAtOnce, LeaveUnreached
  <2> QED BY <2>1 DEF Leave
<1>10. CASE StartCleanup(u)
  BY <1>10 DEF StartCleanup
<1>9. CASE CleanupPass(u)
  BY <1>9 DEF CleanupPass, Expired, Swept
<1> QED BY <1>1, <1>2, <1>3, <1>4, <1>5, <1>6, <1>7, <1>8, <1>9, <1>10
       DEF UnitStep

\* What Juju, the operator and GARM do leaves the hooks alone.
WorldStep ==
  \/ \E u \in Units : PodReplaced(u)
  \/ \E u \in Units \union {NoOne} : Elect(u)
  \/ \E p \in Providers :
       \/ Drained(p)
       \/ \E phase \in {"none", "joined", "published"} : ChangeRelation(p, phase)
  \/ ChangePostgres \/ RemoveApplication

LEMMA WorldFacts ==
  ASSUME TypeOK, WorldStep
  PROVE  /\ TypeOK'
         /\ UNCHANGED <<storeVars, initialised, pc, hookVars, gone, historyVars>>
         /\ InUse' = InUse
         /\ \A u \in Units : pc[u] # "idle" => running'[u] = running[u]
<1> USE DEF TypeOK, InUse
<1>1. ASSUME NEW u \in Units, PodReplaced(u)
      PROVE  running' \in [Units -> SUBSET Providers]
             /\ \A v \in Units : pc[v] # "idle" => running'[v] = running[v]
  BY <1>1 DEF PodReplaced
<1>2. ASSUME NEW p \in Providers, Drained(p)
      PROVE  scaleset' \in [Providers -> {"none", "live", "draining", "empty"}]
             /\ InUse' = InUse
  BY <1>2 DEF Drained
<1>3. ASSUME NEW p \in Providers, NEW phase \in {"none", "joined", "published"},
             ChangeRelation(p, phase)
      PROVE  relation' \in [Providers -> {"none", "joined", "published"}]
             /\ edits' \in 0..MaxEdits
  BY <1>3, HooksAssumption DEF ChangeRelation
<1>4. CASE \E u \in Units : PodReplaced(u)
  BY <1>1, <1>4 DEF PodReplaced
<1>5. CASE \E u \in Units \union {NoOne} : Elect(u)
  BY <1>5 DEF Elect
<1>6. CASE \E p \in Providers : Drained(p)
  BY <1>2, <1>6 DEF Drained
<1>7. CASE \E p \in Providers, phase \in {"none", "joined", "published"} :
             ChangeRelation(p, phase)
  <2>1. /\ relation' \in [Providers -> {"none", "joined", "published"}]
        /\ edits' \in 0..MaxEdits
    BY <1>3, <1>7
  <2>2. UNCHANGED <<leader, postgres, removing, storeVars, garmVars, pc, hookVars, passes,
                    gone, historyVars>>
    BY <1>7 DEF ChangeRelation
  <2> QED BY <2>1, <2>2
<1>8. CASE ChangePostgres \/ RemoveApplication
  <2>1. postgres' \in BOOLEAN /\ removing' \in BOOLEAN
    BY <1>8 DEF ChangePostgres, RemoveApplication
  <2> QED BY <1>8, <2>1 DEF ChangePostgres, RemoveApplication
<1> QED BY <1>4, <1>5, <1>6, <1>7, <1>8 DEF WorldStep

LEMMA WorldKeeps ==
  ASSUME IInv, WorldStep
  PROVE  IInv'
<1>1. /\ TypeOK'
      /\ UNCHANGED <<storeVars, initialised, pc, hookVars, gone, historyVars>>
      /\ InUse' = InUse
      /\ \A u \in Units : pc[u] # "idle" => running'[u] = running[u]
  BY WorldFacts DEF IInv
<1>2. AdminKnown' /\ RemovedClean' /\ SecretInv' /\ GoneInv'
  BY <1>1 DEF IInv, AdminKnown, RemovedClean, SecretInv, GoneInv, InHook, Serving, Visible
<1>3. KnowsInv' /\ SurvivalInv' /\ HeldInv'
  BY <1>1 DEF IInv, KnowsInv, SurvivalInv, HeldInv, Held, Serving
<1> QED BY <1>1, <1>2, <1>3 DEF IInv

-----------------------------------------------------------------------------
(* The secrets, and the removal.                                           *)

LEMMA SecretStep ==
  ASSUME IInv, NEW u \in Units, UnitStep(u)
  PROVE  AdminKnown' /\ SecretInv'
<1> USE DEF IInv, TypeOK, AdminKnown, SecretInv, InHook, Serving, Visible, GoTo, InUse
<1>1. CASE Dispatch(u)
  BY <1>1 DEF Dispatch, Mints
<1>2. CASE NotReady(u) \/ Wait(u)
  BY <1>2 DEF NotReady, Wait, Succeed, Forget
<1>3. CASE Replan(u)
  BY <1>3 DEF Replan
<1>4. CASE FirstRun(u)
  BY <1>4 DEF FirstRun
<1>5. CASE Reconcile(u)
  BY <1>5 DEF Reconcile
<1>6. CASE Save(u)
  BY <1>6 DEF Save, Succeed, Forget
<1>7. CASE Rollback(u)
  BY <1>7 DEF Rollback, Forget
<1>8. CASE LeaveAtOnce(u) \/ LeaveUnreached(u) \/ StartCleanup(u)
  BY <1>8 DEF LeaveAtOnce, LeaveUnreached, StartCleanup, Leave, RemovalDue
<1>9. CASE CleanupPass(u)
  BY <1>9 DEF CleanupPass, Swept
<1> QED BY <1>1, <1>2, <1>3, <1>4, <1>5, <1>6, <1>7, <1>8, <1>9 DEF UnitStep

\* The last unit to go leads and leaves nothing, or had nothing to clean up.
LEMMA RemovalStep ==
  ASSUME IInv, NEW u \in Units, UnitStep(u)
  PROVE  GoneInv' /\ RemovedClean'
<1> USE DEF IInv, TypeOK, GoneInv, RemovedClean, SecretInv, GoTo
<1>1. u \notin gone
  BY DEF UnitStep, Dispatch, NotReady, Wait, Replan, FirstRun, Reconcile, Save, Rollback,
         InHook, LeaveAtOnce, LeaveUnreached, StartCleanup, RemovalDue, CleanupPass
<1>2. CASE gone' = gone
  <2>1. GoneInv'
    BY <1>1, <1>2 DEF UnitStep, Dispatch, NotReady, Wait, Replan, FirstRun, Reconcile, Save,
         Rollback, Succeed, Forget, LeaveAtOnce, LeaveUnreached, Leave, StartCleanup,
         RemovalDue, CleanupPass
  <2> QED BY <1>1, <1>2, <2>1
<1>3. CASE LeaveAtOnce(u) \/ LeaveUnreached(u)
  BY <1>3 DEF LeaveAtOnce, LeaveUnreached, Leave, RemovalDue, InUse
<1>4. CASE CleanupPass(u)
  BY <1>4 DEF CleanupPass, Pending, InUse
<1> QED BY <1>2, <1>3, <1>4
        DEF UnitStep, Dispatch, NotReady, Wait, Replan, FirstRun, Reconcile, Save,
            Rollback, Succeed, StartCleanup

-----------------------------------------------------------------------------
(* The provider record.                                                    *)

LEMMA KnowsStep ==
  ASSUME IInv, NEW u \in Units, UnitStep(u)
  PROVE  KnowsInv'
<1> USE DEF IInv, TypeOK, KnowsInv, Serving, GoTo
<1>1. CASE Dispatch(u)
  BY <1>1 DEF Dispatch
<1>2. CASE NotReady(u) \/ Wait(u)
  BY <1>2 DEF NotReady, Wait, Succeed, Forget
<1>3. CASE Replan(u)
  BY <1>3 DEF Replan, Published
<1>4. CASE FirstRun(u)
  BY <1>4 DEF FirstRun
<1>5. CASE Reconcile(u)
  BY <1>5 DEF Reconcile
<1>6. CASE Save(u)
  BY <1>6 DEF Save, Succeed, Forget, InHook
<1>7. CASE Rollback(u)
  BY <1>7 DEF Rollback, Forget
<1>8. CASE LeaveAtOnce(u) \/ LeaveUnreached(u) \/ StartCleanup(u) \/ CleanupPass(u)
  BY <1>8 DEF LeaveAtOnce, LeaveUnreached, StartCleanup, Leave, CleanupPass
<1> QED BY <1>1, <1>2, <1>3, <1>4, <1>5, <1>6, <1>7, <1>8 DEF UnitStep

\* What a completed pass trims from the record, nobody uses, or another hook that
\* has still to record it, or failed to.
LEMMA TrimmedIsUnused ==
  ASSUME IInv, NEW u \in Units, pc[u] = "reconciled", u \notin overtaken,
         NEW p \in InUse \ Trimmed(u), p \in record \union seen[u]
  PROVE  \/ p \in unrecorded
         \/ \E v \in Units \ {u} : pc[v] = "reconciled" /\ p \in seen[v]
<1>1. p \in running[u]
  BY DEF IInv, KnowsInv, Serving
<1>2. known[u] = TRUE /\ p \notin seen[u] \union surviving[u]
  BY <1>1 DEF Trimmed, IInv, TypeOK
<1> QED BY <1>2 DEF IInv, SurvivalInv

LEMMA HeldStep ==
  ASSUME IInv, NEW u \in Units, UnitStep(u)
  PROVE  SurvivalInv' /\ HeldInv'
<1> USE DEF IInv, TypeOK, SurvivalInv, HeldInv, Held, GoTo, InUse
<1>1. CASE Dispatch(u)
  BY <1>1 DEF Dispatch
<1>2. CASE NotReady(u) \/ Wait(u)
  BY <1>2 DEF NotReady, Wait, Succeed, Forget
<1>3. CASE Replan(u) \/ FirstRun(u)
  BY <1>3 DEF Replan, FirstRun
<1>5. CASE Reconcile(u)
  <2>1. \A p \in InUse' \ InUse : p \in seen[u]
    BY <1>5 DEF Reconcile, Reconciled
  <2>2. pc'[u] = "reconciled" /\ \A v \in Units \ {u} : pc'[v] = pc[v]
    BY <1>5 DEF Reconcile
  <2>3. UNCHANGED <<record, unrecorded, overtaken, seen>>
    BY <1>5 DEF Reconcile
  <2>4. HeldInv'
    BY <1>5, <2>1, <2>2, <2>3 DEF Reconcile
  <2>5. known'[u] => InUse' \subseteq surviving'[u]
    BY <1>5 DEF Reconcile
  <2>6. \A v \in Units \ {u} : known'[v] = known[v] /\ surviving'[v] = surviving[v]
    BY <1>5 DEF Reconcile
  <2>7. SurvivalInv'
    BY <1>5, <2>1, <2>2, <2>3, <2>5, <2>6 DEF Reconcile
  <2> QED BY <2>4, <2>7
<1>6. CASE Save(u)
  <2>1. /\ \A v \in Units \ {u} : /\ pc'[v] = pc[v] /\ seen'[v] = seen[v]
                                 /\ known'[v] = known[v] /\ surviving'[v] = surviving[v]
        /\ pc[u] = "reconciled" /\ pc'[u] = "idle" /\ scaleset' = scaleset
    BY <1>6 DEF Save, Succeed, Forget
  <2>2. CASE leader = u
    <3>1. record' = Trimmed(u) /\ \A v \in Units \ {u} : pc[v] = "reconciled" => v \in overtaken'
      BY <1>6, <2>2 DEF Save, InHook
    <3>2. SurvivalInv'
      BY <2>1, <3>1
    <3>3. ASSUME NEW p \in InUse, p \notin Trimmed(u), p \in record \union seen[u]
          PROVE  \/ p \in unrecorded'
                 \/ \E v \in Units \ {u} : pc[v] = "reconciled" /\ p \in seen[v]
      <4>1. CASE u \notin overtaken
        BY <1>6, <2>1, <2>2, <3>1, <3>3, <4>1, TrimmedIsUnused DEF Save
      <4>2. CASE u \in overtaken /\ p \in record
        BY <1>6, <2>2, <3>1, <3>3, <4>2 DEF Save
      <4>3. CASE p \in seen[u]
        BY <2>1, <3>3, <4>3 DEF KnowsInv, Serving, Trimmed
      <4> QED BY <3>3, <4>1, <4>2, <4>3
    <3>4. ASSUME NEW p \in unrecorded
          PROVE  p \in record' \union unrecorded'
      BY <1>6, <2>2, <3>1, <3>4 DEF Save
    <3>5. HeldInv'
      BY <2>1, <3>1, <3>3, <3>4
    <3> QED BY <3>2, <3>5
  <2>3. CASE leader # u
    <3>1. /\ record' = record /\ unrecorded' = unrecorded \union seen[u]
          /\ overtaken' = overtaken \ {u}
      BY <1>6, <2>3 DEF Save
    <3> QED BY <2>1, <3>1
  <2> QED BY <2>2, <2>3
<1>7. CASE Rollback(u)
  BY <1>7 DEF Rollback, Forget
<1>8. CASE LeaveAtOnce(u) \/ LeaveUnreached(u) \/ StartCleanup(u)
  BY <1>8 DEF LeaveAtOnce, LeaveUnreached, StartCleanup, Leave, RemovalDue
<1>9. CASE CleanupPass(u)
  BY <1>9 DEF CleanupPass, Swept
<1> QED BY <1>1, <1>2, <1>3, <1>5, <1>6, <1>7, <1>8, <1>9 DEF UnitStep

-----------------------------------------------------------------------------
(* The theorems.                                                           *)

LEMMA NextInv == IInv /\ [Next]_vars => IInv'
<1> SUFFICES ASSUME IInv, [Next]_vars PROVE IInv'
  OBVIOUS
<1>1. CASE UNCHANGED vars
  BY <1>1 DEF IInv, TypeOK, AdminKnown, RemovedClean, SecretInv, GoneInv, KnowsInv,
              SurvivalInv, HeldInv, Held, InUse, InHook, Serving, Visible
<1>2. ASSUME NEW u \in Units, UnitStep(u) PROVE IInv'
  BY <1>2, TypeUnitStep, SecretStep, RemovalStep, KnowsStep, HeldStep DEF IInv
<1>3. CASE WorldStep
  BY <1>3, WorldKeeps
<1> QED BY <1>1, <1>2, <1>3 DEF Next, WorldStep

THEOREM InvariantHolds == Spec => []IInv
<1> QED BY InitInv, NextInv, PTL DEF Spec

\* Types, with secrets numbered as they are generated.
THEOREM TypeCorrect == Spec => []TypeOK
<1>1. IInv => TypeOK
  BY DEF IInv
<1> QED BY <1>1, InvariantHolds, PTL

\* GARM's administrator is the stored one, or a running hook's, unless that hook
\* failed after GARM had taken its first run.
THEOREM AdminIsKnown == Spec => []AdminKnown
<1>1. IInv => AdminKnown
  BY DEF IInv
<1> QED BY <1>1, InvariantHolds, PTL

\* Each provider with a scale set is recorded, or about to be, but for hooks that
\* failed, non-leaders' and those overtaken by another record.
THEOREM ProvidersAreHeld == Spec => []ProviderHeld
<1>1. IInv => ProviderHeld
  BY DEF IInv, HeldInv, Held, ProviderHeld, KnowsInv, Serving
<1> QED BY <1>1, InvariantHolds, PTL

\* A removal that was not skipped leaves no scale set.
THEOREM RemovalIsClean == Spec => []RemovedClean
<1>1. IInv => RemovedClean
  BY DEF IInv
<1> QED BY <1>1, InvariantHolds, PTL

=============================================================================
