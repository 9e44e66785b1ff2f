---------------------------- MODULE GarmScalesets ----------------------------
(***************************************************************************)
(* GARM as the charm sees it through its API: the scale sets it holds,     *)
(* their GitHub listener sessions, the runner templates and whether a      *)
(* scale set still lists instances.  GARM itself is not in the repository; *)
(* every definition here is taken from what the charm relies on            *)
(* (scaleset_reconciler.py and docs/adr/003) and is marked external.       *)
(*                                                                         *)
(* A live scale set is a generation <<name, label set>>: the name carries  *)
(* a hash of the labels, taken here to be injective.  The state is kept as *)
(* sets of generations, one set per fact the reconciler reads or writes.   *)
(***************************************************************************)
EXTENDS FiniteSets, Naturals

CONSTANTS Specs,      \* the logical scale set names an operator may configure
          LabelSets,  \* the label sets a spec may ask for
  MayStick    \* an instance may be one that GARM's reaper never clears

ASSUME GarmAssumption == Specs # {} /\ LabelSets # {} /\ MayStick \in BOOLEAN

Gen == Specs \X LabelSets

VARIABLES
  held,       \* generations GARM holds
  enabled,    \* those whose `enabled` flag is set
  drifted,    \* those with a field that differs from the spec (image, sizes, ...)
  custom,     \* those that reference their own custom runner template
  aged,       \* those whose updated_at is older than DRAIN_DEADLINE
  templates,  \* generations whose custom template exists in GARM
  session,    \* those whose listener holds a GitHub message session
  launching,  \* those with an instance launched and not yet listed
  busy,       \* those that list at least one instance
  stuck,      \* of those, the ones GARM's scale-down reaper does not clear
  reaping,    \* of those, the ones whose every instance GARM has agreed to delete
  healthy     \* every API call is answered, providers and entities are registered

scalesetVars == <<held, enabled, drifted, custom, aged>>
runnerVars == <<launching, busy, stuck, reaping>>
garmVars == <<scalesetVars, templates, session, runnerVars, healthy>>

GarmTypeOK ==
  /\ held \subseteq Gen
  /\ enabled \subseteq held
  /\ drifted \subseteq held
  /\ custom \subseteq held
  /\ aged \subseteq held
  /\ templates \subseteq Gen
  /\ session \subseteq enabled
  /\ launching \subseteq held
  /\ busy \subseteq held
  /\ stuck \subseteq busy
  /\ reaping \subseteq busy
  /\ healthy \in BOOLEAN

GarmInit ==
  /\ held = {} /\ enabled = {} /\ drifted = {} /\ custom = {} /\ aged = {}
  /\ templates = {} /\ session = {}
  /\ launching = {} /\ busy = {} /\ stuck = {} /\ reaping = {}
  /\ healthy = TRUE

-----------------------------------------------------------------------------
(* API calls that write a scale set.  Each writes the row, so it also      *)
(* refreshes updated_at.                                                   *)

\* create_org_scaleset / create_repo_scaleset, and the full update of
\* _maybe_update: the scale set ends up enabled and with the fields sent.
PutScaleset(g, ownTemplate, current) ==
  /\ held' = held \union {g}
  /\ enabled' = enabled \union {g}
  /\ drifted' = IF current THEN drifted \ {g} ELSE drifted \union {g}
  /\ custom' = IF ownTemplate THEN custom \union {g} ELSE custom \ {g}
  /\ aged' = aged \ {g}

\* update_scaleset(enabled=False, min_idle_runners=0[, max_runners=0]): the
\* listener stops and deletes its session, and the zeroed sizes no longer match
\* the spec.
DisableScaleset(g) ==
  /\ enabled' = enabled \ {g}
  /\ session' = session \ {g}
  /\ drifted' = drifted \union {g}
  /\ aged' = aged \ {g}
  /\ UNCHANGED <<held, custom>>

\* GARM answers 400 to the delete of a scale set that is enabled or that
\* still lists an instance.
DeleteAccepted(g) == g \notin enabled \union busy

DeleteScaleset(g) ==
  /\ held' = held \ {g}
  /\ drifted' = drifted \ {g}
  /\ custom' = custom \ {g}
  /\ aged' = aged \ {g}
  /\ launching' = launching \ {g}
  /\ UNCHANGED <<enabled, templates, session, busy, stuck, reaping, healthy>>

-----------------------------------------------------------------------------
(* What GARM, the cloud and time do on their own.                          *)

\* keepListenerAlive opens the session of an enabled scale set some time
\* after it is enabled.
ListenerOpens(g) ==
  /\ g \in enabled \ session
  /\ session' = session \union {g}
  /\ UNCHANGED <<scalesetVars, templates, runnerVars, healthy>>

\* handleScaleUp: returns at once when the scale set is disabled.
LaunchRunner(g) ==
  /\ g \in enabled \ launching
  /\ launching' = launching \union {g}
  /\ UNCHANGED <<scalesetVars, templates, session, busy, stuck, reaping, healthy>>

\* A create in flight, one of several or the last, is recorded, whatever happened
\* to the scale set since.  Nobody has asked for the delete of this instance yet.
ListRunner(g) ==
  /\ g \in launching
  /\ launching' \in {launching, launching \ {g}}
  /\ busy' = busy \union {g}
  /\ reaping' = reaping \ {g}
  /\ UNCHANGED <<scalesetVars, templates, session, stuck, healthy>>

\* An instance GARM's own reaper never clears.
RunnerSticks(g) ==
  /\ MayStick
  /\ g \in busy \ (stuck \union reaping)
  /\ stuck' = stuck \union {g}
  /\ UNCHANGED <<scalesetVars, templates, session, launching, busy, reaping, healthy>>

\* The last instance is torn down: it finished its job and was reaped, or the
\* deletes the charm asked for have completed.
RunnersGone(g) ==
  /\ g \in busy
  /\ g \in stuck => g \in reaping
  /\ busy' = busy \ {g}
  /\ stuck' = stuck \ {g}
  /\ reaping' = reaping \ {g}
  /\ UNCHANGED <<scalesetVars, templates, session, launching, healthy>>

\* DRAIN_DEADLINE elapses with no write to the row of a disabled scale set.
DeadlinePasses(g) ==
  /\ g \in held \ (enabled \union aged)
  /\ aged' = aged \union {g}
  /\ UNCHANGED <<held, enabled, drifted, custom, templates, session, runnerVars, healthy>>

\* API calls start to be refused, a provider or an entity is missing, ...
Degrade == healthy /\ healthy' = FALSE
           /\ UNCHANGED <<scalesetVars, templates, session, runnerVars>>

Recover == ~healthy /\ healthy' = TRUE
           /\ UNCHANGED <<scalesetVars, templates, session, runnerVars>>

GarmNext ==
  \/ \E g \in Gen :
       \/ ListenerOpens(g) \/ LaunchRunner(g) \/ ListRunner(g)
       \/ RunnerSticks(g) \/ RunnersGone(g) \/ DeadlinePasses(g)
  \/ Degrade
  \/ Recover

=============================================================================
