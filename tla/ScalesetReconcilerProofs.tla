---------------------- MODULE ScalesetReconcilerProofs ----------------------
(***************************************************************************)
(* What ScalesetReconciler guarantees for every set of specs, every set of *)
(* label sets and every bound: types, TemplatesBacked, TargetKept, and -   *)
(* when GARM opens its sessions between two passes - NoQueueGap.           *)
(***************************************************************************)
EXTENDS ScalesetReconciler, TLAPS

Draining == pc \in {"remove", "delete", "untemplate"}
RetireSide == pc = "retire" \/ (Draining /\ gen \in Claimed)
SweepSide == pc = "sweep" \/ (Draining /\ gen \notin Claimed)

Generations(s) == {g \in snap.seen : g[1] = s}

\* What a pass may rely on: the generations it has still to visit are the ones
\* its snapshot showed, GARM still holds them, and none of them is a target.
PassInv ==
  /\ pc = "prune" \/ RetireSide => cur \in Desired
  /\ pc = "apply" \/ pc = "prune" \/ RetireSide => cur \notin todo
  /\ SweepSide => todo = {}
  /\ pc # "idle" /\ ~SweepSide => snap.seen \ Claimed \subseteq held
  /\ \A s \in todo : Generations(s) \subseteq held
  /\ pc = "apply" => Generations(cur) \subseteq held
  /\ pc = "prune" \/ RetireSide =>
       /\ queue \subseteq held \intersect Generations(cur)
       /\ Target(cur) \notin queue
  /\ SweepSide => queue \subseteq held \intersect (snap.seen \ Claimed)
  /\ Draining => gen \notin queue
  /\ pc \in {"remove", "delete"} => gen \in held
  /\ pc = "untemplate" => gen \notin held
  /\ Draining /\ gen \in Claimed => gen[1] = cur /\ gen # Target(cur)

\* What the snapshot says of a target's template stays true until the pass
\* reaches its spec.
TemplateInv ==
  /\ TemplatesBacked
  /\ \A s \in todo : /\ Target(s) \in snap.templates => Target(s) \in templates
                     /\ Target(s) \in custom => Target(s) \in snap.custom
  /\ pc = "apply" => /\ Target(cur) \in custom => Target(cur) \in snap.custom
                     /\ ownTemplate => Target(cur) \in templates
                     /\ cur \notin snap.opts => ~ownTemplate
  /\ pc = "prune" => Target(cur) \notin custom

\* A target seen enabled holds its session for the whole pass.
SessionInv ==
  /\ PromptListener /\ pc # "idle" =>
       \A s \in Desired : Target(s) \in snap.enabled => Target(s) \in session
  /\ (pc = "prune" \/ RetireSide) /\ queue # {} => Target(cur) \in snap.enabled

IInv == TypeOK /\ PassInv /\ TemplateInv /\ SessionInv

-----------------------------------------------------------------------------
(* Each step preserves the invariant: one step per action, and under it one  *)
(* per conjunct.                                                           *)

USE DEF scalesetVars, runnerVars, garmVars, operatorVars, localVars, passVars

LEMMA NoSpecIsSpec == NoSpec \in Specs
BY GarmAssumption DEF NoSpec

LEMMA InitInv == Init => IInv
<1> SUFFICES ASSUME Init PROVE IInv
  OBVIOUS
<1>1. GarmTypeOK /\ snap \in Snapshot
  BY DEF Init, GarmInit, GarmTypeOK, NoSnap, Snapshot
<1>2. TypeOK
  <2>1. relabels \in 0..MaxRelabels /\ edits \in 0..MaxEdits
    BY ReconcilerAssumption DEF Init
  <2>2. /\ want \in Wanted /\ opts \subseteq Specs /\ edited \subseteq Specs
        /\ target \in Wanted /\ todo \subseteq Desired /\ queue \subseteq Gen
    BY DEF Init, Wanted
  <2>3. /\ pc \in Steps /\ cur \in Specs /\ gen \in Gen \union {NoGen}
        /\ ownTemplate \in BOOLEAN
        /\ pc \in {"apply", "prune", "retire"} => cur \in Desired
        /\ pc \in {"remove", "delete", "untemplate"} => gen \in Gen
    BY NoSpecIsSpec DEF Init, Steps
  <2>4. QED
    BY <1>1, <2>1, <2>2, <2>3 DEF TypeOK
<1>3. PassInv /\ TemplateInv /\ SessionInv
  BY DEF Init, GarmInit, NoSnap, PassInv, TemplateInv, TemplatesBacked, SessionInv,
         Draining, RetireSide, SweepSide, Generations
<1>4. QED
  BY <1>2, <1>3 DEF IInv

LEMMA OwnTemplateTyped ==
  ASSUME NEW s \in Specs, EnsureTemplate(s)
  PROVE  ownTemplate' \in BOOLEAN
<1>1. (Target(s) \in snap.templates) \in BOOLEAN
  BY SMT
<1>2. \/ ownTemplate' = FALSE
      \/ ownTemplate' = TRUE
      \/ ownTemplate' = (Target(s) \in snap.templates)
  BY Zenon DEF EnsureTemplate
<1>3. QED
  BY <1>1, <1>2, Zenon

LEMMA SpecStepInv == IInv /\ SpecStep => IInv'
<1> SUFFICES ASSUME IInv PROVE SpecStep => IInv'
  OBVIOUS
<1> USE DEF IInv, TypeOK, GarmTypeOK, Wanted, Snapshot, Gen, Steps, Desired, Target,
            PassInv, Draining, RetireSide, SweepSide, Generations, Claimed, Family,
            TemplateInv, TemplatesBacked, SessionInv
<1>1. ASSUME NEW s \in Specs, EnsureTemplate(s) PROVE IInv'
  <2>1. TypeOK'
    <3>1. Target(s) \in Gen
      BY <1>1 DEF EnsureTemplate, TakeSpec
    <3>2. templates' \subseteq Gen /\ cur' \in Desired
      BY <1>1, <3>1 DEF EnsureTemplate, TakeSpec
    <3>3. ownTemplate' \in BOOLEAN
      BY <1>1, OwnTemplateTyped
    <3>4. /\ UNCHANGED <<scalesetVars, session, runnerVars, healthy, operatorVars, target, snap>>
          /\ todo' \subseteq todo /\ pc' = "apply" /\ UNCHANGED <<queue, gen>>
      BY <1>1 DEF EnsureTemplate, TakeSpec
    <3>5. GarmTypeOK'
      BY <3>2, <3>4
    <3>6. QED
      BY <3>2, <3>3, <3>4, <3>5
  <2>2. PassInv'
    BY <1>1 DEF EnsureTemplate, TakeSpec
  <2>3. TemplateInv'
    BY <1>1 DEF EnsureTemplate, TakeSpec
  <2>4. SessionInv'
    BY <1>1 DEF EnsureTemplate, TakeSpec
  <2>5. QED
    BY <2>1, <2>2, <2>3, <2>4
<1>2. ASSUME NEW s \in Specs, SkipSpec(s) PROVE IInv'
  <2>1. TypeOK'
    BY <1>2 DEF SkipSpec, TakeSpec
  <2>2. PassInv'
    BY <1>2 DEF SkipSpec, TakeSpec
  <2>3. TemplateInv'
    BY <1>2 DEF SkipSpec, TakeSpec
  <2>4. SessionInv'
    BY <1>2 DEF SkipSpec, TakeSpec
  <2>5. QED
    BY <2>1, <2>2, <2>3, <2>4
<1>3. ASSUME Apply PROVE IInv'
  <2>1. TypeOK'
    BY <1>3 DEF Apply, PutScaleset, Replaced, NeedsUpdate
  <2>2. PassInv'
    BY <1>3 DEF Apply, PutScaleset, Replaced, NeedsUpdate
  <2>3. TemplateInv'
    BY <1>3 DEF Apply, PutScaleset, Replaced, NeedsUpdate
  <2>4. SessionInv'
    BY <1>3 DEF Apply, PutScaleset, Replaced, NeedsUpdate
  <2>5. QED
    BY <2>1, <2>2, <2>3, <2>4
<1>4. ASSUME ApplyRefused PROVE IInv'
  <2>1. TypeOK'
    BY <1>4 DEF ApplyRefused
  <2>2. PassInv'
    BY <1>4 DEF ApplyRefused
  <2>3. TemplateInv'
    BY <1>4 DEF ApplyRefused
  <2>4. SessionInv'
    BY <1>4 DEF ApplyRefused
  <2>5. QED
    BY <2>1, <2>2, <2>3, <2>4
<1>5. ASSUME Prune PROVE IInv'
  <2>1. TypeOK'
    BY <1>5 DEF Prune
  <2>2. PassInv'
    BY <1>5 DEF Prune
  <2>3. TemplateInv'
    BY <1>5 DEF Prune
  <2>4. SessionInv'
    BY <1>5 DEF Prune
  <2>5. QED
    BY <2>1, <2>2, <2>3, <2>4
<1>6. QED
  BY <1>1, <1>2, <1>3, <1>4, <1>5 DEF SpecStep

LEMMA RetireStepInv == IInv /\ RetireStep => IInv'
<1> SUFFICES ASSUME IInv PROVE RetireStep => IInv'
  OBVIOUS
<1> USE DEF IInv, TypeOK, GarmTypeOK, Wanted, Snapshot, Gen, Steps, Desired, Target,
            PassInv, Draining, RetireSide, SweepSide, Generations, Claimed, Family,
            TemplateInv, TemplatesBacked, SessionInv
<1>1. ASSUME NEW g \in Gen, Retire(g) PROVE IInv'
  <2>1. TypeOK'
    BY <1>1 DEF Retire, Visit, DisableScaleset
  <2>2. PassInv'
    BY <1>1 DEF Retire, Visit, DisableScaleset
  <2>3. TemplateInv'
    BY <1>1 DEF Retire, Visit, DisableScaleset
  <2>4. SessionInv'
    BY <1>1 DEF Retire, Visit, DisableScaleset
  <2>5. QED
    BY <2>1, <2>2, <2>3, <2>4
<1>2. ASSUME NEW g \in Gen, RetireRefused(g) PROVE IInv'
  <2>1. TypeOK'
    BY <1>2 DEF RetireRefused, Visit
  <2>2. PassInv'
    BY <1>2 DEF RetireRefused, Visit
  <2>3. TemplateInv'
    BY <1>2 DEF RetireRefused, Visit
  <2>4. SessionInv'
    BY <1>2 DEF RetireRefused, Visit
  <2>5. QED
    BY <2>1, <2>2, <2>3, <2>4
<1>3. ASSUME NEW g \in Gen, Drain(g) PROVE IInv'
  <2>1. TypeOK'
    BY <1>3 DEF Drain, Visit, Remaining
  <2>2. PassInv'
    BY <1>3 DEF Drain, Visit, Remaining
  <2>3. TemplateInv'
    BY <1>3 DEF Drain, Visit, Remaining
  <2>4. SessionInv'
    BY <1>3 DEF Drain, Visit, Remaining
  <2>5. QED
    BY <2>1, <2>2, <2>3, <2>4
<1>4. ASSUME RetireDone PROVE IInv'
  <2>1. TypeOK'
    BY <1>4 DEF RetireDone
  <2>2. PassInv'
    BY <1>4 DEF RetireDone
  <2>3. TemplateInv'
    BY <1>4 DEF RetireDone
  <2>4. SessionInv'
    BY <1>4 DEF RetireDone
  <2>5. QED
    BY <2>1, <2>2, <2>3, <2>4
<1>5. QED
  BY <1>1, <1>2, <1>3, <1>4 DEF RetireStep

LEMMA SweepStepInv == IInv /\ SweepStep => IInv'
<1> SUFFICES ASSUME IInv PROVE SweepStep => IInv'
  OBVIOUS
<1> USE DEF IInv, TypeOK, GarmTypeOK, Wanted, Snapshot, Gen, Steps, Desired, Target,
            PassInv, Draining, RetireSide, SweepSide, Generations, Claimed, Family,
            TemplateInv, TemplatesBacked, SessionInv
<1>1. ASSUME StartSweep PROVE IInv'
  <2>1. TypeOK'
    BY <1>1 DEF StartSweep
  <2>2. PassInv'
    BY <1>1 DEF StartSweep
  <2>3. TemplateInv'
    BY <1>1 DEF StartSweep
  <2>4. SessionInv'
    BY <1>1 DEF StartSweep
  <2>5. QED
    BY <2>1, <2>2, <2>3, <2>4
<1>2. ASSUME NEW g \in Gen, SweepDisable(g) PROVE IInv'
  <2>1. TypeOK'
    BY <1>2 DEF SweepDisable, Visit, DisableScaleset
  <2>2. PassInv'
    BY <1>2 DEF SweepDisable, Visit, DisableScaleset
  <2>3. TemplateInv'
    BY <1>2 DEF SweepDisable, Visit, DisableScaleset
  <2>4. SessionInv'
    BY <1>2 DEF SweepDisable, Visit, DisableScaleset
  <2>5. QED
    BY <2>1, <2>2, <2>3, <2>4
<1>3. ASSUME NEW g \in Gen, SweepRefused(g) PROVE IInv'
  <2>1. TypeOK'
    BY <1>3 DEF SweepRefused, Visit
  <2>2. PassInv'
    BY <1>3 DEF SweepRefused, Visit
  <2>3. TemplateInv'
    BY <1>3 DEF SweepRefused, Visit
  <2>4. SessionInv'
    BY <1>3 DEF SweepRefused, Visit
  <2>5. QED
    BY <2>1, <2>2, <2>3, <2>4
<1>4. ASSUME EndPass PROVE IInv'
  <2>1. TypeOK'
    BY <1>4, NoSpecIsSpec DEF EndPass, PassEnds, NoSnap
  <2>2. PassInv'
    BY <1>4, NoSpecIsSpec DEF EndPass, PassEnds, NoSnap
  <2>3. TemplateInv'
    BY <1>4, NoSpecIsSpec DEF EndPass, PassEnds, NoSnap
  <2>4. SessionInv'
    BY <1>4, NoSpecIsSpec DEF EndPass, PassEnds, NoSnap
  <2>5. QED
    BY <2>1, <2>2, <2>3, <2>4
<1>5. QED
  BY <1>1, <1>2, <1>3, <1>4 DEF SweepStep

LEMMA DeleteStepInv == IInv /\ DeleteStep => IInv'
<1> SUFFICES ASSUME IInv PROVE DeleteStep => IInv'
  OBVIOUS
<1> USE DEF IInv, TypeOK, GarmTypeOK, Wanted, Snapshot, Gen, Steps, Desired, Target,
            PassInv, Draining, RetireSide, SweepSide, Generations, Claimed, Family,
            TemplateInv, TemplatesBacked, SessionInv
<1>1. ASSUME RemoveRunners PROVE IInv'
  <2>1. TypeOK'
    BY <1>1 DEF RemoveRunners, Loop
  <2>2. PassInv'
    BY <1>1 DEF RemoveRunners, Loop
  <2>3. TemplateInv'
    BY <1>1 DEF RemoveRunners, Loop
  <2>4. SessionInv'
    BY <1>1 DEF RemoveRunners, Loop
  <2>5. QED
    BY <2>1, <2>2, <2>3, <2>4
<1>2. ASSUME RemoveRefused PROVE IInv'
  <2>1. TypeOK'
    BY <1>2 DEF RemoveRefused, Loop
  <2>2. PassInv'
    BY <1>2 DEF RemoveRefused, Loop
  <2>3. TemplateInv'
    BY <1>2 DEF RemoveRefused, Loop
  <2>4. SessionInv'
    BY <1>2 DEF RemoveRefused, Loop
  <2>5. QED
    BY <2>1, <2>2, <2>3, <2>4
<1>3. ASSUME Delete PROVE IInv'
  <2>1. TypeOK'
    BY <1>3 DEF Delete, DeleteAccepted, DeleteScaleset
  <2>2. PassInv'
    BY <1>3 DEF Delete, DeleteAccepted, DeleteScaleset
  <2>3. TemplateInv'
    BY <1>3 DEF Delete, DeleteAccepted, DeleteScaleset
  <2>4. SessionInv'
    BY <1>3 DEF Delete, DeleteAccepted, DeleteScaleset
  <2>5. QED
    BY <2>1, <2>2, <2>3, <2>4
<1>4. ASSUME DeleteRefused PROVE IInv'
  <2>1. TypeOK'
    BY <1>4 DEF DeleteRefused, Loop, DeleteAccepted
  <2>2. PassInv'
    BY <1>4 DEF DeleteRefused, Loop, DeleteAccepted
  <2>3. TemplateInv'
    BY <1>4 DEF DeleteRefused, Loop, DeleteAccepted
  <2>4. SessionInv'
    BY <1>4 DEF DeleteRefused, Loop, DeleteAccepted
  <2>5. QED
    BY <2>1, <2>2, <2>3, <2>4
<1>5. ASSUME Untemplate PROVE IInv'
  <2>1. TypeOK'
    BY <1>5 DEF Untemplate, Loop
  <2>2. PassInv'
    BY <1>5 DEF Untemplate, Loop
  <2>3. TemplateInv'
    BY <1>5 DEF Untemplate, Loop
  <2>4. SessionInv'
    BY <1>5 DEF Untemplate, Loop
  <2>5. QED
    BY <2>1, <2>2, <2>3, <2>4
<1>6. QED
  BY <1>1, <1>2, <1>3, <1>4, <1>5 DEF DeleteStep

LEMMA StartPassInv == IInv /\ StartPass => IInv'
<1> SUFFICES ASSUME IInv, StartPass PROVE IInv'
  OBVIOUS
<1> USE DEF IInv, TypeOK, GarmTypeOK, Wanted, Snapshot, Gen, Steps, Desired, Target,
            PassInv, Draining, RetireSide, SweepSide, Generations, Claimed, Family,
            TemplateInv, TemplatesBacked, SessionInv
<1>1. TypeOK'
  BY DEF StartPass
<1>2. PassInv'
  BY DEF StartPass
<1>3. TemplateInv'
  BY DEF StartPass
<1>4. SessionInv'
  BY DEF StartPass
<1>5. QED
  BY <1>1, <1>2, <1>3, <1>4

LEMMA AbortInv == IInv /\ Abort => IInv'
<1> SUFFICES ASSUME IInv, Abort PROVE IInv'
  OBVIOUS
<1> USE DEF IInv, TypeOK, GarmTypeOK, Wanted, Snapshot, Gen, Steps, Desired, Target,
            PassInv, Draining, RetireSide, SweepSide, Generations, Claimed, Family,
            TemplateInv, TemplatesBacked, SessionInv
<1>1. TypeOK'
  BY NoSpecIsSpec DEF Abort, PassEnds, NoSnap
<1>2. PassInv'
  BY NoSpecIsSpec DEF Abort, PassEnds, NoSnap
<1>3. TemplateInv'
  BY NoSpecIsSpec DEF Abort, PassEnds, NoSnap
<1>4. SessionInv'
  BY NoSpecIsSpec DEF Abort, PassEnds, NoSnap
<1>5. QED
  BY <1>1, <1>2, <1>3, <1>4

\* The operator writes only its own variables and marks fields as drifted.
LEMMA OperatorInv == IInv /\ Operator => IInv'
<1> SUFFICES ASSUME IInv, Operator PROVE IInv'
  OBVIOUS
<1>1. /\ UNCHANGED <<held, enabled, custom, aged, templates, session, runnerVars,
                     healthy, pc, passVars>>
      /\ drifted \subseteq held => drifted' \subseteq held
      /\ want \in Wanted => want' \in Wanted
      /\ opts \subseteq Specs => opts' \subseteq Specs
      /\ edited \subseteq Specs => edited' \subseteq Specs
      /\ relabels \in 0..MaxRelabels => relabels' \in 0..MaxRelabels
      /\ edits \in 0..MaxEdits => edits' \in 0..MaxEdits
  BY ReconcilerAssumption DEF Operator, ChangeLabels, ChangeFields, ChangeOptions, Wanted
<1> USE DEF IInv, Desired, Target, Draining, RetireSide, SweepSide, Generations,
            Claimed, Family
<1>2. TypeOK'
  BY <1>1 DEF TypeOK, GarmTypeOK
<1>3. PassInv'
  BY <1>1 DEF PassInv
<1>4. TemplateInv' /\ SessionInv'
  BY <1>1 DEF TemplateInv, TemplatesBacked, SessionInv
<1>5. QED
  BY <1>2, <1>3, <1>4

\* GARM, the runners and time write nothing the pass has read for good.
LEMMA EnvironmentInv == IInv /\ Environment => IInv'
<1> SUFFICES ASSUME IInv, Environment PROVE IInv'
  OBVIOUS
<1>1. /\ UNCHANGED <<held, enabled, drifted, custom, templates, operatorVars, pc, passVars>>
      /\ session \subseteq session'
      /\ GarmTypeOK => GarmTypeOK'
  <2>1. CASE Degrade \/ Recover
    BY <2>1 DEF Environment, CharmIdle, Degrade, Recover, GarmTypeOK
  <2>2. ASSUME NEW g \in Gen,
               \/ ListenerOpens(g) \/ LaunchRunner(g) \/ ListRunner(g)
               \/ RunnerSticks(g) \/ RunnersGone(g) \/ DeadlinePasses(g)
        PROVE  /\ UNCHANGED <<held, enabled, drifted, custom, templates, operatorVars, pc,
                              passVars>>
               /\ session \subseteq session'
               /\ GarmTypeOK => GarmTypeOK'
    BY <2>2 DEF Environment, CharmIdle, ListenerOpens, LaunchRunner, ListRunner, RunnerSticks,
                RunnersGone, DeadlinePasses, GarmTypeOK
  <2>3. QED
    BY <2>1, <2>2 DEF Environment, CharmIdle, GarmNext
<1> USE DEF IInv, Desired, Target, Draining, RetireSide, SweepSide, Generations,
            Claimed, Family
<1>2. TypeOK'
  BY <1>1 DEF TypeOK
<1>3. PassInv'
  BY <1>1 DEF PassInv
<1>4. TemplateInv' /\ SessionInv'
  BY <1>1 DEF TemplateInv, TemplatesBacked, SessionInv
<1>5. QED
  BY <1>2, <1>3, <1>4

LEMMA NextInv == IInv /\ [Next]_vars => IInv'
<1> SUFFICES ASSUME IInv, [Next]_vars PROVE IInv'
  OBVIOUS
<1>1. CASE Pass
  BY <1>1, StartPassInv, SpecStepInv, RetireStepInv, SweepStepInv, DeleteStepInv,
     AbortInv DEF Pass
<1>2. CASE UNCHANGED vars
  BY <1>2 DEF vars, IInv, TypeOK, GarmTypeOK, PassInv, TemplateInv, TemplatesBacked,
              SessionInv, Desired, Target, Draining, RetireSide, SweepSide,
              Generations, Claimed, Family
<1>3. QED
  BY <1>1, <1>2, OperatorInv, EnvironmentInv DEF Next

\* The invariant holds in every reachable state.
THEOREM InvariantHolds == Spec => []IInv
<1>1. QED
  BY InitInv, NextInv, PTL DEF Spec

-----------------------------------------------------------------------------
(* The theorems.                                                           *)

\* Every variable keeps its type: enabled, drifted, custom and aged generations
\* are held ones, sessions belong to enabled ones.
THEOREM TypeCorrect == Spec => []TypeOK
<1>1. IInv => TypeOK
  BY DEF IInv
<1>2. QED
  BY <1>1, InvariantHolds, PTL

\* No call of a pass, refused or not, leaves a scale set referencing a runner
\* template that does not exist.
THEOREM TemplatesAlwaysBacked == Spec => []TemplatesBacked
<1>1. IInv => TemplatesBacked
  BY DEF IInv, TemplateInv
<1>2. QED
  BY <1>1, InvariantHolds, PTL

\* Only the two disabling calls shrink the enabled or the serving generations.
LEMMA OnlyDisablingCloses ==
  ASSUME Next
  PROVE  \/ enabled \subseteq enabled' /\ session \subseteq session'
         \/ \E g \in Gen : Retire(g) \/ SweepDisable(g)
<1>1. CASE \E g \in Gen : Retire(g) \/ SweepDisable(g)
  BY <1>1
<1>2. CASE StartPass \/ Abort
  BY <1>2 DEF StartPass, Abort
<1>3. CASE SpecStep
  BY <1>3 DEF SpecStep, EnsureTemplate, SkipSpec, Apply, ApplyRefused, Prune,
              PutScaleset
<1>4. CASE DeleteStep
  BY <1>4 DEF DeleteStep, RemoveRunners, RemoveRefused, Delete, DeleteRefused,
              Untemplate, DeleteScaleset
<1>5. CASE RetireStep /\ ~\E g \in Gen : Retire(g)
  BY <1>5 DEF RetireStep, RetireRefused, Drain, RetireDone
<1>6. CASE SweepStep /\ ~\E g \in Gen : SweepDisable(g)
  BY <1>6 DEF SweepStep, StartSweep, SweepRefused, EndPass
<1>7. CASE Operator
  BY <1>7 DEF Operator, ChangeLabels, ChangeFields, ChangeOptions
<1>8. CASE Environment
  BY <1>8 DEF Environment, CharmIdle, GarmNext, ListenerOpens, LaunchRunner, ListRunner,
              RunnerSticks, RunnersGone, DeadlinePasses, Degrade, Recover
<1>9. QED
  BY <1>1, <1>2, <1>3, <1>4, <1>5, <1>6, <1>7, <1>8 DEF Next, Pass

\* A generation retired is a predecessor of the current spec, whose target was
\* seen enabled.
LEMMA RetiredIsReplaced ==
  ASSUME IInv, NEW g \in Gen, Retire(g)
  PROVE  /\ cur \in Desired
         /\ g[1] = cur
         /\ g # Target(cur)
         /\ Target(cur) \in snap.enabled
BY DEF IInv, PassInv, SessionInv, Retire, Visit, RetireSide, Generations

\* A generation the sweep disables belongs to no desired spec.
LEMMA SweptIsOrphan ==
  ASSUME IInv, NEW g \in Gen, SweepDisable(g)
  PROVE  g[1] \notin Desired
<1>1. g \in snap.seen \ Claimed
  BY DEF IInv, PassInv, SweepDisable, Visit, SweepSide
<1>2. QED
  BY <1>1 DEF Claimed, Family

\* While a pass runs, the target of every desired spec stays enabled once it is:
\* no call made for another spec or for an orphan, in whatever order, undoes it.
THEOREM TargetIsKept == Spec => TargetKept
<1> DEFINE Kept == pc # "idle" =>
                     \A s \in Desired : Target(s) \in enabled => Target(s) \in enabled'
<1>1. IInv /\ [Next]_vars => [Kept]_vars
  <2> SUFFICES ASSUME IInv, Next, NEW s \in Desired, Target(s) \in enabled
               PROVE  Target(s) \in enabled'
    OBVIOUS
  <2>1. CASE enabled \subseteq enabled'
    BY <2>1
  <2>2. ASSUME NEW g \in Gen, Retire(g) PROVE Target(s) \in enabled'
    <3>1. Target(s) # g
      BY <2>2, RetiredIsReplaced DEF Target
    <3>2. QED
      BY <2>2, <3>1 DEF Retire, DisableScaleset
  <2>3. ASSUME NEW g \in Gen, SweepDisable(g) PROVE Target(s) \in enabled'
    <3>1. Target(s) # g
      BY <2>3, SweptIsOrphan DEF Target
    <3>2. QED
      BY <2>3, <3>1 DEF SweepDisable, DisableScaleset
  <2>4. QED
    BY <2>1, <2>2, <2>3, OnlyDisablingCloses
<1>2. QED
  BY <1>1, InvariantHolds, PTL DEF Spec, TargetKept

\* With GARM's listener workers keeping up with the hooks, no label change, in
\* whatever order with refused calls and aborted passes, takes away the last
\* session that serves a label the operator wants and the pass was asked for.
THEOREM NoGap == PromptListener => (Spec => NoQueueGap)
<1> SUFFICES ASSUME PromptListener PROVE Spec => NoQueueGap
  OBVIOUS
<1> DEFINE Covered(s, l) == /\ target[s] # NoLabels /\ want[s] # NoLabels
                            /\ l \in target[s] \intersect want[s]
                            /\ Serving(s, l)
           NoGapStep == \A s \in Specs : \A l \in UNION LabelSets :
                          Covered(s, l) => Serving(s, l)'
<1>1. IInv /\ [Next]_vars => [NoGapStep]_vars
  <2> SUFFICES ASSUME IInv, Next, NEW s \in Specs, NEW l, Covered(s, l)
               PROVE  \E h \in session' : h[1] = s /\ l \in h[2]
    BY DEF Serving
  <2>1. PICK h \in session : h[1] = s /\ l \in h[2]
    BY DEF Serving
  <2>2. s \in Desired
    BY DEF Desired
  <2>3. CASE session \subseteq session'
    BY <2>1, <2>3
  <2>4. ASSUME NEW g \in Gen, Retire(g)
        PROVE  \E k \in session' : k[1] = s /\ l \in k[2]
    <3>1. session' = session \ {g}
      BY <2>4 DEF Retire, DisableScaleset
    <3>2. CASE s # cur
      BY <2>1, <2>4, <3>1, <3>2, RetiredIsReplaced
    <3>3. CASE s = cur
      <4>1. Target(s) \in session'
        BY <2>4, <3>1, <3>3, RetiredIsReplaced DEF IInv, SessionInv, Retire, Visit
      <4>2. QED
        BY <4>1 DEF Target
    <3>4. QED
      BY <3>2, <3>3
  <2>5. ASSUME NEW g \in Gen, SweepDisable(g)
        PROVE  \E k \in session' : k[1] = s /\ l \in k[2]
    <3>1. session' = session \ {g} /\ h # g
      BY <2>1, <2>2, <2>5, SweptIsOrphan DEF SweepDisable, DisableScaleset
    <3>2. QED
      BY <2>1, <3>1
  <2>6. QED
    BY <2>3, <2>4, <2>5, OnlyDisablingCloses
<1>2. QED
  BY <1>1, InvariantHolds, PTL DEF Spec, NoQueueGap

-----------------------------------------------------------------------------
(* Patience.                                                               *)

\* What the snapshot says of a row's age and of the disabling still holds.
StillDrains(g) ==
  /\ g \in snap.aged => g \in aged
  /\ g \notin snap.enabled => g \notin enabled

\* A predecessor the pass has still to visit drains as the snapshot showed it, as
\* only its own turn writes its row; what the sweep removes was seen an orphan.
DrainInv ==
  /\ \A s \in todo : \A g \in Generations(s) \ {Target(s)} : StillDrains(g)
  /\ pc = "apply" => \A g \in Generations(cur) \ {Target(cur)} : StillDrains(g)
  /\ pc = "prune" \/ RetireSide => \A g \in queue : StillDrains(g)
  /\ pc = "remove" /\ gen \in Claimed => gen \in aged /\ gen \notin enabled
  /\ pc = "remove" /\ gen \notin Claimed => gen \in snap.seen

LEMMA DrainInit == Init => DrainInv
BY DEF Init, NoSnap, DrainInv, Draining, RetireSide, SweepSide

LEMMA DrainSpecStep ==
  ASSUME IInv, DrainInv, StartPass \/ SpecStep
  PROVE  DrainInv'
<1> USE DEF DrainInv, StillDrains, Generations, Draining, RetireSide, SweepSide,
            Target, Claimed, Family, Desired
<1>1. CASE StartPass
  BY <1>1 DEF StartPass, IInv, TypeOK, GarmTypeOK
<1>2. ASSUME NEW s \in Specs, EnsureTemplate(s) PROVE DrainInv'
  BY <1>2 DEF EnsureTemplate, TakeSpec
<1>3. ASSUME NEW s \in Specs, SkipSpec(s) PROVE DrainInv'
  BY <1>3 DEF SkipSpec, TakeSpec
<1>4. CASE Apply
  <2>1. /\ aged \subseteq aged' \union {Target(cur)}
        /\ enabled' \subseteq enabled \union {Target(cur)}
        /\ UNCHANGED <<target, snap, todo, cur, gen>>
        /\ pc = "apply" /\ pc' \in {"retire", "prune"}
        /\ queue' = Replaced(cur)
    BY <1>4 DEF Apply, PutScaleset
  <2>2. cur \notin todo /\ todo \subseteq Specs
    BY <2>1 DEF IInv, TypeOK, PassInv
  <2>3. \A s \in todo : \A g \in Generations(s) : g # Target(cur)
    BY <2>2
  <2>4. \A g \in queue' : g \in Generations(cur) \ {Target(cur)}
    BY <2>1 DEF Replaced
  <2>5. /\ \A s \in todo : \A g \in Generations(s) \ {Target(s)} : StillDrains(g)'
        /\ \A g \in queue' : StillDrains(g)'
    BY <2>1, <2>3, <2>4
  <2> QED BY <2>1, <2>5
<1>5. CASE ApplyRefused \/ Prune
  BY <1>5 DEF ApplyRefused, Prune, IInv, PassInv
<1> QED BY <1>1, <1>2, <1>3, <1>4, <1>5 DEF SpecStep

LEMMA DrainRetireStep ==
  ASSUME IInv, DrainInv, RetireStep
  PROVE  DrainInv'
<1> USE DEF DrainInv, StillDrains, Generations, Draining, RetireSide, SweepSide,
            Target, Claimed, Family, Desired
<1>1. ASSUME NEW g \in Gen, Retire(g) PROVE DrainInv'
  <2>1. g[1] = cur /\ cur \notin todo
    BY <1>1 DEF IInv, PassInv, Retire, Visit
  <2> QED BY <1>1, <2>1 DEF Retire, Visit, DisableScaleset
<1>2. ASSUME NEW g \in Gen, RetireRefused(g) PROVE DrainInv'
  BY <1>2 DEF RetireRefused, Visit
<1>3. ASSUME NEW g \in Gen, Drain(g) PROVE DrainInv'
  <2>1. g \in Claimed /\ g \in queue
    BY <1>3 DEF IInv, PassInv, Drain, Visit
  <2> QED BY <1>3, <2>1 DEF Drain, Visit
<1>4. CASE RetireDone
  BY <1>4 DEF RetireDone
<1> QED BY <1>1, <1>2, <1>3, <1>4 DEF RetireStep

LEMMA DrainSweepStep ==
  ASSUME IInv, DrainInv, SweepStep
  PROVE  DrainInv'
<1> USE DEF DrainInv, StillDrains, Generations, Draining, RetireSide, SweepSide,
            Target, Claimed, Family, Desired
<1>1. CASE StartSweep
  BY <1>1 DEF StartSweep
<1>2. ASSUME NEW g \in Gen, SweepDisable(g) PROVE DrainInv'
  <2>1. g \in snap.seen \ Claimed /\ todo = {}
    BY <1>2 DEF IInv, PassInv, SweepDisable, Visit
  <2> QED BY <1>2, <2>1 DEF SweepDisable, Visit, DisableScaleset
<1>3. ASSUME NEW g \in Gen, SweepRefused(g) PROVE DrainInv'
  BY <1>3 DEF SweepRefused, Visit
<1>4. CASE EndPass
  BY <1>4 DEF EndPass, PassEnds, NoSnap
<1> QED BY <1>1, <1>2, <1>3, <1>4 DEF SweepStep

LEMMA DrainDeleteStep ==
  ASSUME IInv, DrainInv, DeleteStep
  PROVE  DrainInv'
<1> USE DEF DrainInv, StillDrains, Generations, Draining, RetireSide, SweepSide,
            Target, Claimed, Family, Desired
<1>1. CASE RemoveRunners
  BY <1>1 DEF RemoveRunners, Loop
<1>2. CASE RemoveRefused \/ DeleteRefused
  BY <1>2 DEF RemoveRefused, DeleteRefused, Loop
<1>3. CASE Delete
  <2>1. /\ aged' = aged \ {gen} /\ enabled' = enabled
        /\ pc = "delete" /\ pc' = "untemplate" /\ UNCHANGED <<target, snap, todo, cur, gen, queue>>
    BY <1>3 DEF Delete, DeleteScaleset
  <2>2. gen \notin queue
    BY <2>1 DEF IInv, PassInv
  <2>3. gen \in Claimed => gen[1] = cur /\ cur \notin todo
    BY <2>1 DEF IInv, PassInv
  <2>4. gen \notin Claimed => todo = {}
    BY <2>1 DEF IInv, PassInv
  <2> QED BY <2>1, <2>2, <2>3, <2>4
<1>4. CASE Untemplate
  BY <1>4 DEF Untemplate, Loop
<1> QED BY <1>1, <1>2, <1>3, <1>4 DEF DeleteStep

LEMMA DrainWorldStep ==
  ASSUME IInv, DrainInv, Abort \/ Operator \/ Environment
  PROVE  DrainInv'
<1> USE DEF DrainInv, StillDrains, Generations, Draining, RetireSide, SweepSide,
            Target, Claimed, Family, Desired
<1>1. CASE Abort
  BY <1>1 DEF Abort, PassEnds, NoSnap
<1>2. CASE Operator
  BY <1>2 DEF Operator, ChangeLabels, ChangeFields, ChangeOptions
<1>3. CASE Environment
  <2>1. /\ aged \subseteq aged' /\ enabled' = enabled /\ UNCHANGED <<pc, passVars>>
    BY <1>3 DEF Environment, CharmIdle, GarmNext, ListenerOpens, LaunchRunner, ListRunner,
                RunnerSticks, RunnersGone, DeadlinePasses, Degrade, Recover
  <2> QED BY <2>1
<1> QED BY <1>1, <1>2, <1>3

\* While a spec is desired, the instances of a generation it replaced are removed
\* directly only if its row is still older than the deadline at that call, and the
\* scale set still disabled: nothing wrote it since the snapshot.
THEOREM DrainIsPatient == Spec => PatientDrain
<1> DEFINE Patient ==
      \A g \in reaping' \ reaping : g[1] \in Desired => g \in aged /\ g \notin enabled
<1>1. IInv /\ DrainInv /\ [Next]_vars => DrainInv'
  <2> SUFFICES ASSUME IInv, DrainInv, [Next]_vars PROVE DrainInv'
    OBVIOUS
  <2>1. CASE UNCHANGED vars
    BY <2>1 DEF vars, DrainInv, StillDrains, Generations, Draining, RetireSide, SweepSide,
                Target, Claimed, Family, Desired
  <2> QED BY <2>1, DrainSpecStep, DrainRetireStep, DrainSweepStep, DrainDeleteStep,
             DrainWorldStep DEF Next, Pass
<1>2. IInv /\ DrainInv /\ [Next]_vars => [Patient]_vars
  <2> SUFFICES ASSUME IInv, DrainInv, Next, NEW g \in reaping' \ reaping, g[1] \in Desired
               PROVE  g \in aged /\ g \notin enabled
    OBVIOUS
  <2>1. RemoveRunners
    <3>1. CASE StartPass \/ SpecStep \/ RetireStep \/ SweepStep \/ Abort
      BY <3>1 DEF StartPass, SpecStep, EnsureTemplate, SkipSpec, Apply, ApplyRefused, Prune,
                  RetireStep, Retire, RetireRefused, Drain, RetireDone, SweepStep,
                  StartSweep, SweepDisable, SweepRefused, EndPass, Abort
    <3>2. CASE RemoveRefused \/ Delete \/ DeleteRefused \/ Untemplate
      BY <3>2 DEF RemoveRefused, Delete, DeleteRefused, Untemplate, DeleteScaleset
    <3>3. CASE Operator \/ Environment
      BY <3>3 DEF Operator, ChangeLabels, ChangeFields, ChangeOptions, Environment, GarmNext,
                  ListenerOpens, LaunchRunner, ListRunner, RunnerSticks, RunnersGone,
                  DeadlinePasses, Degrade, Recover
    <3> QED BY <3>1, <3>2, <3>3 DEF Next, Pass, DeleteStep
  <2>2. g = gen /\ pc = "remove"
    BY <2>1 DEF RemoveRunners
  <2>3. CASE gen \in Claimed
    BY <2>2, <2>3 DEF DrainInv
  <2>4. CASE gen \notin Claimed
    BY <2>2, <2>4 DEF DrainInv, Claimed, Family
  <2> QED BY <2>3, <2>4
<1> QED BY <1>1, <1>2, DrainInit, InvariantHolds, PTL DEF Spec, PatientDrain

=============================================================================
