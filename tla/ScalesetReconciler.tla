------------------------- MODULE ScalesetReconciler -------------------------
(***************************************************************************)
(* The GARM charm's scale set reconciler (scaleset_reconciler.py): a pass  *)
(* takes one snapshot of the desired specs and of GARM, then issues one    *)
(* API call at a time - per spec, then for the orphans - while GARM, the   *)
(* runners and the operator move on.  A label change is a changeover: a    *)
(* replacement generation is created, the predecessor is disabled once the *)
(* replacement was seen enabled, drained, and deleted.                     *)
(*                                                                         *)
(* One action is one API call with the code up to the next call.  The call *)
(* is refused, the read fails, or the hook dies only while `healthy` is    *)
(* FALSE; refusals that are GARM's contract (deleting a scale set that     *)
(* still lists instances) happen at any time.                              *)
(***************************************************************************)
EXTENDS GarmScalesets

CONSTANTS NoLabels,        \* want[s] = NoLabels: the spec is not configured
          MaxRelabels,     \* bound on the operator's changes of label sets
          MaxEdits,        \* bound on the operator's other changes
          PromptListener,  \* GARM opens the sessions it owes between two passes
          MayAbort         \* a pass may be cut short

ASSUME ReconcilerAssumption ==
  /\ NoLabels \notin LabelSets
  /\ MaxRelabels \in Nat /\ MaxEdits \in Nat
  /\ PromptListener \in BOOLEAN
  /\ MayAbort \in BOOLEAN

VARIABLES
  want,     \* the configured label set of each spec (relation data)
  opts,     \* specs with runner options, hence a custom template
  edited,   \* specs whose fields changed since the last pass read them
  relabels, \* changes of label sets so far
  edits,    \* other changes so far
  pc,       \* where the pass is
  target,   \* the label sets the last pass was asked for
  snap,     \* what the pass read from GARM when it started
  todo,     \* specs still to reconcile
  cur,      \* the spec being reconciled
  ownTemplate, \* the template the current spec's scale set should reference
  queue,    \* generations the current loop has still to visit
  gen       \* the generation being drained or swept

localVars == <<snap, todo, cur, ownTemplate, queue, gen>>
passVars == <<target, localVars>>
operatorVars == <<want, opts, edited, relabels, edits>>
vars == <<garmVars, operatorVars, pc, passVars>>

Steps == {"idle", "specs", "apply", "prune", "retire",
          "sweep", "remove", "delete", "untemplate"}

Wanted == [Specs -> LabelSets \union {NoLabels}]

Snapshot == [opts : SUBSET Specs, seen : SUBSET Gen, enabled : SUBSET Gen,
             drifted : SUBSET Gen, custom : SUBSET Gen, aged : SUBSET Gen,
             templates : SUBSET Gen]

\* The locals cur and gen when no pass runs.
NoSpec == CHOOSE s \in Specs : TRUE
NoGen == <<NoSpec, NoLabels>>

Desired == {s \in Specs : target[s] # NoLabels}

TypeOK ==
  /\ GarmTypeOK
  /\ want \in Wanted
  /\ opts \subseteq Specs
  /\ edited \subseteq Specs
  /\ relabels \in 0..MaxRelabels
  /\ edits \in 0..MaxEdits
  /\ pc \in Steps
  /\ target \in Wanted
  /\ snap \in Snapshot
  /\ todo \subseteq Desired
  /\ cur \in Specs
  /\ ownTemplate \in BOOLEAN
  /\ queue \subseteq Gen
  /\ gen \in Gen \union {NoGen}
  /\ pc \in {"remove", "delete", "untemplate"} => gen \in Gen
  /\ pc \in {"apply", "prune", "retire"} => cur \in Desired

-----------------------------------------------------------------------------
\* target_scaleset_name: the generation that should serve a spec.
Target(s) == <<s, target[s]>>

\* _resolve_families and the claimed set: every live generation of a desired
\* spec and its target name.
Family(s) == {g \in snap.seen : g[1] = s} \union {Target(s)}

\* Seeded fault: only the observed predecessors are claimed.
Claimed_NoTarget == UNION {Family(s) \ {Target(s)} : s \in Desired}

Claimed == UNION {Family(s) : s \in Desired}

\* Seeded fault: the replacement need not have been seen enabled.
Replaced_NotSeen(s) == (Family(s) \intersect snap.seen) \ {Target(s)}

\* The generations _retire_replaced acts on: none, until the snapshot shows
\* the replacement enabled.
Replaced(s) ==
  IF Target(s) \in snap.enabled
  THEN (Family(s) \intersect snap.seen) \ {Target(s)}
  ELSE {}

\* _needs_update
NeedsUpdate(g) ==
  \/ g \in snap.drifted
  \/ g \notin snap.enabled
  \/ (g \in snap.custom) # ownTemplate

\* _delete_drained runs inside the retire loop, _delete_orphaned inside the
\* sweep; both share the removal of runners and the deletion of the template.
Loop == IF gen \in Claimed THEN "retire" ELSE "sweep"

\* The values of a pass's locals when no pass runs.
NoSnap == [opts |-> {}, seen |-> {}, enabled |-> {}, drifted |-> {}, custom |-> {},
           aged |-> {}, templates |-> {}]

Init ==
  /\ GarmInit
  /\ want \in Wanted
  /\ opts \in SUBSET Specs
  /\ edited = {}
  /\ relabels = 0 /\ edits = 0
  /\ pc = "idle"
  /\ target = [s \in Specs |-> NoLabels]
  /\ snap = NoSnap
  /\ todo = {}
  /\ cur = NoSpec
  /\ ownTemplate = FALSE
  /\ queue = {}
  /\ gen = NoGen

-----------------------------------------------------------------------------
(* The operator edits the configurator's relation data.                    *)

\* A new label set, a first one, or the removal of the spec.
ChangeLabels(s, ls) ==
  /\ relabels < MaxRelabels
  /\ ls # want[s]
  /\ want' = [want EXCEPT ![s] = ls]
  /\ relabels' = relabels + 1
  /\ UNCHANGED <<garmVars, opts, edited, edits, pc, passVars>>

\* Any field that is updated in place.
ChangeFields(s) ==
  /\ edits < MaxEdits
  /\ drifted' = drifted \union {g \in held : g[1] = s}
  /\ edited' = edited \union {s}
  /\ edits' = edits + 1
  /\ UNCHANGED <<held, enabled, custom, aged, templates, session, runnerVars,
                 healthy, want, opts, relabels, pc, passVars>>

\* Runner options set or cleared.
ChangeOptions(s) ==
  /\ edits < MaxEdits
  /\ opts' = IF s \in opts THEN opts \ {s} ELSE opts \union {s}
  /\ edits' = edits + 1
  /\ UNCHANGED <<garmVars, want, edited, relabels, pc, passVars>>

-----------------------------------------------------------------------------
(* The pass: the snapshot, then one spec after another.                    *)

\* list_scalesets and _load_templates.  Every scale set references a template,
\* so the templates are loaded when any scale set is seen or any desired spec
\* has runner options.
StartPass ==
  /\ pc = "idle"
  /\ PromptListener => enabled \subseteq session
  /\ target' = want
  /\ edited' = {}
  /\ snap' = [opts |-> opts, seen |-> held, enabled |-> enabled,
              drifted |-> drifted, custom |-> custom, aged |-> aged,
              templates |-> IF \/ held # {}
                               \/ \E s \in opts : want[s] # NoLabels
                            THEN templates ELSE {}]
  /\ todo' = {s \in Specs : want[s] # NoLabels}
  /\ pc' = "specs"
  /\ UNCHANGED <<garmVars, want, opts, relabels, edits, cur, ownTemplate, queue, gen>>

TakeSpec(s) ==
  /\ pc = "specs"
  /\ s \in todo
  /\ todo' = todo \ {s}

\* The spec is malformed, its provider or entity is missing, or a call made
\* before the scale set is written is refused: contained, next spec.
SkipSpec(s) ==
  /\ TakeSpec(s)
  /\ ~healthy
  /\ pc' = "specs"
  /\ UNCHANGED <<garmVars, operatorVars, target, snap, cur, ownTemplate, queue, gen>>

\* _ensure_template
EnsureTemplate(s) ==
  /\ TakeSpec(s)
  /\ cur' = s
  /\ \/ /\ s \notin snap.opts
        /\ ownTemplate' = FALSE
        /\ UNCHANGED templates
     \/ /\ s \in snap.opts
        /\ ownTemplate' = TRUE
        /\ templates' = templates \union {Target(s)}
     \/ \* the template to copy is not listed: keep what exists
        /\ s \in snap.opts
        /\ ~healthy
        /\ ownTemplate' = (Target(s) \in snap.templates)
        /\ UNCHANGED templates
  /\ pc' = "apply"
  /\ UNCHANGED <<scalesetVars, session, runnerVars, healthy, operatorVars,
                 target, snap, queue, gen>>

\* Seeded fault: an update leaves the scale set disabled if it was.
Apply_NotReenabled ==
  LET g == Target(cur) IN
  /\ pc = "apply"
  /\ IF g \notin snap.seen
     THEN PutScaleset(g, ownTemplate, cur \notin edited)
     ELSE /\ drifted' = drifted \ {g} /\ aged' = aged \ {g}
          /\ UNCHANGED <<held, enabled, custom>>
  /\ pc' = "retire"
  /\ queue' = Replaced(cur)
  /\ UNCHANGED <<templates, session, runnerVars, healthy, operatorVars,
                 target, snap, todo, cur, ownTemplate, gen>>

\* _create or _maybe_update, then the loop of _retire_replaced is set up.
Apply ==
  LET g == Target(cur) IN
  /\ pc = "apply"
  /\ IF g \notin snap.seen \/ NeedsUpdate(g)
     THEN PutScaleset(g, ownTemplate, cur \notin edited)
     ELSE UNCHANGED scalesetVars
  /\ pc' = IF cur \in snap.opts THEN "retire" ELSE "prune"
  /\ queue' = Replaced(cur)
  /\ UNCHANGED <<templates, session, runnerVars, healthy, operatorVars,
                 target, snap, todo, cur, ownTemplate, gen>>

\* Seeded fault: a refused update is logged and the template pruned anyway.
ApplyRefused_Ignored ==
  /\ pc = "apply"
  /\ ~healthy
  /\ pc' = "prune"
  /\ UNCHANGED <<garmVars, operatorVars, passVars>>

ApplyRefused ==
  /\ pc = "apply"
  /\ ~healthy
  /\ pc' = "specs"
  /\ UNCHANGED <<garmVars, operatorVars, passVars>>

\* _delete_custom_template of a scale set whose runner options were cleared.
Prune ==
  /\ pc = "prune"
  /\ \/ templates' = templates \ ({Target(cur)} \intersect snap.templates)
     \/ ~healthy /\ UNCHANGED templates
  /\ pc' = "retire"
  /\ UNCHANGED <<scalesetVars, session, runnerVars, healthy, operatorVars, passVars>>

-----------------------------------------------------------------------------
(* _advance_retirement, once per replaced generation.                      *)

Visit(step, g) ==
  /\ pc = step
  /\ g \in queue
  /\ queue' = queue \ {g}

\* _retire, with its fallback.
Retire(g) ==
  /\ Visit("retire", g)
  /\ g \in snap.enabled
  /\ DisableScaleset(g)
  /\ UNCHANGED <<templates, runnerVars, healthy, operatorVars, pc,
                 target, snap, todo, cur, ownTemplate, gen>>

\* Handover.FAILED: the predecessor stays enabled.
RetireRefused(g) ==
  /\ Visit("retire", g)
  /\ g \in snap.enabled
  /\ ~healthy
  /\ UNCHANGED <<garmVars, operatorVars, pc, target, snap, todo, cur, ownTemplate, gen>>

\* _remaining_runners: an unreadable count stands for a runner still there.
Remaining(g) == g \in busy \/ ~healthy

\* Seeded fault: no waiting for GARM's reaper.
Drain_Impatient(g) ==
  /\ Visit("retire", g)
  /\ g \notin snap.enabled
  /\ gen' = g
  /\ \/ Remaining(g) /\ pc' = "remove"
     \/ g \notin busy /\ pc' = "delete"
  /\ UNCHANGED <<garmVars, operatorVars, target, snap, todo, cur, ownTemplate>>

\* Seeded fault: no deadline, the reaper is waited for without end.
Drain_NoDeadline(g) ==
  /\ Visit("retire", g)
  /\ g \notin snap.enabled
  /\ gen' = g
  /\ \/ Remaining(g) /\ pc' = "retire"
     \/ g \notin busy /\ pc' = "delete"
  /\ UNCHANGED <<garmVars, operatorVars, target, snap, todo, cur, ownTemplate>>

Drain(g) ==
  /\ Visit("retire", g)
  /\ g \notin snap.enabled
  /\ gen' = g
  /\ \/ Remaining(g) /\ g \notin snap.aged /\ pc' = "retire"
     \/ Remaining(g) /\ g \in snap.aged /\ pc' = "remove"
     \/ g \notin busy /\ pc' = "delete"
  /\ UNCHANGED <<garmVars, operatorVars, target, snap, todo, cur, ownTemplate>>

RetireDone ==
  /\ pc = "retire"
  /\ queue = {}
  /\ pc' = "specs"
  /\ UNCHANGED <<garmVars, operatorVars, passVars>>

-----------------------------------------------------------------------------
(* The orphan sweep: every observed scale set no desired spec claims.      *)

StartSweep ==
  /\ pc = "specs"
  /\ todo = {}
  /\ pc' = "sweep"
  /\ queue' = snap.seen \ Claimed
  /\ UNCHANGED <<garmVars, operatorVars, target, snap, todo, cur, ownTemplate, gen>>

\* _disable, on every pass.
SweepDisable(g) ==
  /\ Visit("sweep", g)
  /\ DisableScaleset(g)
  /\ gen' = g
  /\ pc' = "remove"
  /\ UNCHANGED <<templates, runnerVars, healthy, operatorVars,
                 target, snap, todo, cur, ownTemplate>>

SweepRefused(g) ==
  /\ Visit("sweep", g)
  /\ ~healthy
  /\ UNCHANGED <<garmVars, operatorVars, pc, target, snap, todo, cur, ownTemplate, gen>>

PassEnds ==
  /\ pc' = "idle"
  /\ snap' = NoSnap
  /\ todo' = {}
  /\ cur' = NoSpec
  /\ ownTemplate' = FALSE
  /\ queue' = {}
  /\ gen' = NoGen

EndPass ==
  /\ pc = "sweep"
  /\ queue = {}
  /\ PassEnds
  /\ UNCHANGED <<garmVars, operatorVars, target>>

-----------------------------------------------------------------------------
(* Shared by the retire loop and the sweep.                                *)

\* _remove_runners: it lists the instances and deletes those it may, one by one.
\* It leaves a runner with a job, or in a status GARM does not delete from, and
\* a delete may be deferred, so any number of instances may stay behind; only an
\* empty listing lets this pass go on to delete the scale set.
RemoveRunners ==
  /\ pc = "remove"
  /\ IF gen \in busy
     THEN reaping' \in {reaping, reaping \union {gen}} /\ pc' = Loop
     ELSE UNCHANGED reaping /\ pc' = "delete"
  /\ UNCHANGED <<scalesetVars, templates, session, launching, busy, stuck, healthy,
                 operatorVars, passVars>>

RemoveRefused ==
  /\ pc = "remove"
  /\ ~healthy
  /\ pc' = Loop
  /\ UNCHANGED <<garmVars, operatorVars, passVars>>

\* _delete_drained and the end of _delete_orphaned.
Delete ==
  /\ pc = "delete"
  /\ DeleteAccepted(gen)
  /\ DeleteScaleset(gen)
  /\ pc' = "untemplate"
  /\ UNCHANGED <<operatorVars, passVars>>

DeleteRefused ==
  /\ pc = "delete"
  /\ ~DeleteAccepted(gen) \/ ~healthy
  /\ pc' = Loop
  /\ UNCHANGED <<garmVars, operatorVars, passVars>>

\* _delete_custom_template, after the scale set that referenced it.
Untemplate ==
  /\ pc = "untemplate"
  /\ \/ templates' = templates \ ({gen} \intersect snap.templates)
     \/ ~healthy /\ UNCHANGED templates
  /\ pc' = Loop
  /\ UNCHANGED <<scalesetVars, session, runnerVars, healthy, operatorVars, passVars>>

\* The hook dies, GARM is unreachable or rejects the charm's credentials:
\* the rest of the pass does not run.
Abort ==
  /\ MayAbort
  /\ pc # "idle"
  /\ ~healthy
  /\ PassEnds
  /\ UNCHANGED <<garmVars, operatorVars, target>>

-----------------------------------------------------------------------------
SpecStep ==
  \/ \E s \in Specs : EnsureTemplate(s) \/ SkipSpec(s)
  \/ Apply \/ ApplyRefused \/ Prune

RetireStep ==
  \/ \E g \in Gen : Retire(g) \/ RetireRefused(g) \/ Drain(g)
  \/ RetireDone

SweepStep ==
  \/ StartSweep
  \/ \E g \in Gen : SweepDisable(g) \/ SweepRefused(g)
  \/ EndPass

DeleteStep ==
  RemoveRunners \/ RemoveRefused \/ Delete \/ DeleteRefused \/ Untemplate

Pass == StartPass \/ SpecStep \/ RetireStep \/ SweepStep \/ DeleteStep \/ Abort

Operator ==
  \E s \in Specs :
    \/ \E ls \in LabelSets \union {NoLabels} : ChangeLabels(s, ls)
    \/ ChangeFields(s)
    \/ ChangeOptions(s)

CharmIdle == UNCHANGED <<operatorVars, pc, passVars>>

Environment == GarmNext /\ CharmIdle

Next == Pass \/ Operator \/ Environment

Spec == Init /\ [][Next]_vars

\* Juju keeps dispatching hooks (update-status at the latest), a hook runs to
\* its end, GARM's workers run, time passes, and the runners of a disabled
\* scale set that GARM can clear are cleared.  The operator and the API's
\* health are not fair; a refusal or a crash needs ~healthy.
Fairness ==
  /\ WF_vars(Pass)
  /\ \A g \in Gen :
       /\ WF_vars(ListenerOpens(g) /\ CharmIdle)
       /\ WF_vars(ListRunner(g) /\ g \notin launching' /\ CharmIdle)
       /\ WF_vars(DeadlinePasses(g) /\ CharmIdle)
       /\ WF_vars(g \notin enabled /\ RunnersGone(g) /\ CharmIdle)

FairSpec == Spec /\ Fairness

-----------------------------------------------------------------------------
(* Properties.                                                             *)

Serving(s, l) == \E g \in session : g[1] = s /\ l \in g[2]

\* A label that the operator wants, that the last pass was asked for and that
\* some generation serves never stops being served: the predecessor's session
\* closes only when the replacement holds one (_retire_replaced, "served
\* throughout ... the changeover has no queue gap").
NoQueueGap ==
  [][\A s \in Specs : \A l \in UNION LabelSets :
       /\ target[s] # NoLabels /\ want[s] # NoLabels
       /\ l \in target[s] \intersect want[s]
       /\ Serving(s, l)
       => Serving(s, l)']_vars

\* No scale set is left referencing a runner template that does not exist:
\* templates are created before the scale set that references them and deleted
\* after it is gone or detached, whatever call fails or wherever the hook dies.
TemplatesBacked == custom \subseteq templates

\* A pass never disables or deletes the generation it was asked for, neither
\* as a predecessor nor as an orphan.
TargetKept ==
  [][pc # "idle" =>
       \A s \in Desired : Target(s) \in enabled => Target(s) \in enabled']_vars

\* While a spec is desired, the instances of a generation it replaced are left
\* to GARM's reaper until DRAIN_DEADLINE has elapsed since the last write.
PatientDrain ==
  [][\A g \in reaping' \ reaping : g[1] \in Desired => g \in aged /\ g \notin enabled]_vars

Converged(s) ==
  IF want[s] = NoLabels
  THEN ~\E g \in held : g[1] = s
  ELSE LET g == <<s, want[s]>> IN
       /\ {h \in held : h[1] = s} = {g}
       /\ g \in enabled \ drifted
       /\ g \in custom <=> s \in opts

\* No instance is left behind by every removal of its generation: it goes, or
\* one of the passes that try finds it deletable.  RunnerRemoval says when that
\* is so (ScalesetGoes), and when an instance is out of the charm's reach.
NoneOutOfReach ==
  \A g \in Gen :
    []<>(pc = "remove" /\ gen = g /\ g \in busy) => []<>(g \in reaping \/ g \notin busy)

\* Once the API stays healthy the passes converge: each configured spec has one
\* scale set, enabled and up to date, and nothing else is left in GARM, even
\* when an instance of a predecessor is never cleared by GARM's own reaper, so
\* long as a pass that comes back to it again and again can delete it at last.
Converges ==
  <>[]healthy /\ NoneOutOfReach => <>[](\A s \in Specs : Converged(s))

=============================================================================
