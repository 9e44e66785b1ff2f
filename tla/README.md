# TLA+ models of github-runner-operators

The repository holds the charms and services that run self-hosted GitHub runners
with [GARM](https://github.com/cloudbase/garm). Most of its correctness is not in
any single function but in what happens between two calls: the charms change GARM
and the planner one API request at a time, with no transaction and almost no state of
their own, while workers, running jobs, other units and the operator go on; the planner
counts jobs from events that arrive late, twice or in the wrong order.

This directory holds TLA+ modules for those parts, TLC configurations that check
them on small instances and TLAPS proofs that hold for every instance. Paths below
are relative to the repository's root.

1. [The system](#1-the-system): components, state, operations, interactions, hazards
2. [The modules](#2-the-modules): what each one models and how it maps to the code
3. [The runs](#3-the-runs): what is checked, bounds, fairness
4. [The proofs](#4-the-proofs)
5. [What the code does against its documentation](#5-what-the-code-does-against-its-documentation)
6. [What is not modelled](#6-what-is-not-modelled)
7. [Plan](#7-plan)
8. [How to run it](#8-how-to-run-it)

## 1. The system

```
                 relations (specs, labels, images)
 garm-configurator charm ---------------> GARM charm --- HTTP API ---> GARM
                                              |                          |  listener sessions,
                                              |                          |  instances
                                              v                          v
                                   Juju secrets, relation data     GitHub, clouds

 GitHub --webhook--> webhook gateway --AMQP--> planner consumer --SQL--> Postgres
   ^                      |                                                ^  | NOTIFY
   +---- redelivery daemon                 HTTP server (flavors, tokens) --+  v
                                              ^                        pressure streams
 related applications --relation--> planner charm
```

The two halves share no state: the GARM charm drives scale sets, the planner
computes *pressure*, the number of jobs waiting on each flavor.

### Components

| Component (source) | State it keeps | Operations | Talks to | What makes it correct |
|---|---|---|---|---|
| Scale set reconciler (`charms/garm/src/scaleset_reconciler.py`) | none of its own: everything is read from GARM at the start of a pass | `reconcile`: per spec ensure template, create or update, prune the template, retire replaced generations; then sweep orphans | GARM API | labels stay served through a changeover; no pass undoes its own target; no scale set without its template; runners left to finish; passes converge |
| Runner removal (`_delete_orphaned`, `_remove_runners`, `_delete_runner`) | the listing of one pass | disable, list, delete each runner (plain, forced, bypassing GitHub), delete the scale set | GARM API | no known job killed, no cloud instance leaked, a stuck delete escalated, the scale set gone in the end |
| Drain deadline (`_drain_deadline_passed`) | GARM's `updated_at` used as a clock | compared on each pass | GARM API | expires only after the time it stands for |
| Entity and credential reconcilers, agent tools (`entity_reconciler.py`, `github_reconciler.py`, `agent_tools.py`) | none: what the charm owns is told from a credential's description | upload binaries; create, adopt, update, delete credentials; register, rebind, remove organizations and repositories | GARM API | never touch what an administrator owns; agent mode only with its binaries; tear down in order; units do not undo each other |
| GARM client (`garm_api.py`) | token | one method per endpoint, errors mapped to exception types | GARM | callers can tell refused from unreachable |
| GARM charm (`charms/garm/src/charm.py`) | Juju secrets, provider record | hooks: secrets, replan, first run, pass, record; removal | all reconcilers, Juju | GARM's secrets are the stored ones; a scale set's provider stays published; cleanup before removal |
| Resource cleanup (`resource_cleanup.py`) | deadline | repeated drain passes on removal | GARM API | ends; leaves nothing behind |
| Configurator charm (`charms/garm-configurator`) | relation data | validates and publishes a spec | GARM charm | publishes what was validated |
| Planner database (`internal/database`) | tables job, flavor, auth; LISTEN connections | one SQL batch per method; NOTIFY on change | Postgres | demand placed if it can be; assignment stable; every change announced |
| Webhook consumer (`internal/planner/consumer.go`) | the message in hand | pull, parse, insert or update, ack, requeue, discard | queue, database | no event lost, none counted twice |
| AMQP (`internal/queue`) | connection, channel | exclusive consume with prefetch 1; confirmed publish; reconnect | RabbitMQ | what was confirmed is stored |
| Webhook gateway (`internal/webhook`) | none | check the signature, publish, answer | queue | 200 only after a confirmation |
| Redelivery (`internal/redelivery`) | a ticker | list the deliveries of the last interval, redeliver failed ones | GitHub | no failed delivery falls between two windows |
| Planner HTTP server (`internal/planner/server.go`, `cmd/planner/main.go`) | open streams, one shared ticker | flavors, tokens, job update, pressure (also streamed), shutdown | database | no change is missed; a stream ends on the current value; nothing is held after it |
| Planner charm (`charms/planner-operator/src/charm.py`) | secrets, relation data | reconcile tokens and flavors; enable/disable actions | planner | a token per relation, delivered once and revoked; the table follows the declarations and the operator |
| Gateway charm | relation data | passes configuration to the workload | - | - |

### Behaviours that are hard to test

* **Everything in GARM happens later.** A listener session opens some time after
  `enabled` is set, a runner's delete is only requested, a create in flight shows up
  after an empty listing. The reconciler must act on state that is about to change.
* **A hook can stop anywhere, and only half of it is undone.** Juju discards the secrets
  and relation data of a hook that fails; what the hook asked of GARM or of the planner
  stays. The next hook knows only what these hold.
* **One snapshot, many writes.** A pass decides from what it listed before other units,
  administrators, actions and its own calls changed it.
* **Several units, one GARM.** Every unit reconciles, with the relation data its own hook
  sees, and leadership may pass to another unit in the middle of a hook.
* **Late and lost job messages.** GARM believes a runner idle while it works, or busy
  when its job has long ended.
* **At-least-once delivery, best-effort redelivery.** A webhook is redelivered when its
  confirmation is lost, a message when its acknowledgement is; `completed` overtakes
  `queued`; a failed delivery is looked at in one window only.
* **Bounded channels and shared tickers.** A stream's goroutine outlives its handler, and
  one ticker serves every stream.
* **A long legal history.** Labels changed and changed back while a generation drains;
  flavors added, disabled and deleted around jobs at every stage.

`PROJECT.json` lists each hazard at its line with the properties that watch it.

## 2. The modules

| Module | Models | Kind |
|---|---|---|
| `GarmScalesets` | GARM as the scale set reconciler sees it (external) | environment |
| `ScalesetReconciler` | a whole pass of `scaleset_reconciler.py`, extends `GarmScalesets` | component |
| `RunnerRemoval` | the removal of the runners of one orphaned scale set | component |
| `DrainDeadline` | the clock behind `_drain_deadline_passed` | component |
| `EntityOwnership` | agent tools, credentials and entities, with several units and an administrator | component |
| `GarmHooks` | hooks of the GARM charm: secrets, first run, provider record, removal cleanup | component |
| `JobStore` | job and flavor tables, assignment, pressure, NOTIFY | component |
| `EventLedger` | what the intake of events promises | abstract specification |
| `JobPipeline` | GitHub, gateway, queue, consumer; extends `JobStore`, implements `EventLedger` | composition |
| `WebhookDelivery` | gateway, confirmed publish and redelivery daemon | component |
| `EventPath` | the whole way of an event: `WebhookDelivery` in front of `JobPipeline` | composition |
| `PressureStream` | a pressure stream, its goroutine, the shared ticker, shutdown | component |
| `PlannerStreams` | a stream on the job table: `JobStore` as the database of `PressureStream` | composition |
| `PlannerRelations` | the planner charm's reconciliation of tokens and flavors | component |
| `MC...` | values for TLC | instances |
| `...Proofs` | theorems about the module named; `PlannerProofs` has those of `JobStore`, `JobPipeline`, `PressureStream` and `PlannerStreams`, `EventPathProofs` those of `WebhookDelivery` and `EventPath` | proofs |

Modules that describe the same code at two depths are tied to each other:

* `JobPipeline` has the broker take a message from nowhere (`Deliver`); `EventPath` puts the
  gateway of `WebhookDelivery` there. It is put together from the actions of the two, so what
  is proved of either holds there by construction; `AnsweredIsKept` and `EventsRecorded` are
  about both.
* `PressureStream` stands on an abstract database; `PlannerStreams` puts the job table there
  (`ImplementsStream`).
* `JobPipeline` implements `EventLedger` (`ImplementsLedger`), and changes the table only as
  `JobStore` allows (`IntakeKeepsStore`).

Others look at the same code from different distances, and no mapping ties them:

* `ScalesetReconciler` knows only whether a scale set lists *some* instance, and the age of
  its row only as old or not. `RunnerRemoval` has the instances one by one, and `DrainDeadline`
  the age in units of time. What one of them finds of its part is assumed of no other: the
  coarse module takes what the fine one shows may go wrong as a choice (`RemoveRunners`,
  `DeleteRefused`).
* `GarmHooks` and `EntityOwnership` take the pass over the scale sets as one step
  (`Reconcile`, `SyncScalesets`) that `ScalesetReconciler` unfolds.

### ScalesetReconciler and GarmScalesets

A *generation* is a pair of a spec's name and a label set: the code's live name is
`<name>-<hash of the labels>`, so a label change asks for another generation of the
same name. GARM's state is a collection of sets of generations: `held`, `enabled`,
`drifted` (a field differs from the spec), `custom` (references its own runner
template), `aged` (`updated_at` older than `DRAIN_DEADLINE`), `session` (the listener
holds a GitHub session), `busy` (lists instances), and so on.

One action is one API call with the code up to the next call.

| Code | Actions |
|---|---|
| `reconcile`: snapshot, `_resolve_families`, claimed names | `StartPass`, `Family`, `Claimed`, `StartSweep`, `EndPass` |
| `_reconcile_spec`, `_ensure_template` | `EnsureTemplate`, `SkipSpec` |
| `_create`, `_maybe_update`, `_needs_update` | `Apply`, `ApplyRefused`, `NeedsUpdate` |
| `_delete_custom_template` of a spec without options | `Prune` |
| `_retire_replaced`, `_advance_retirement`, `_retire` | `Replaced`, `Retire`, `RetireRefused`, `Drain`, `RetireDone` |
| `_delete_orphaned`, `_disable` | `SweepDisable`, `SweepRefused` |
| `_remove_runners`, `_delete_drained` | `RemoveRunners`, `RemoveRefused`, `Delete`, `DeleteRefused`, `Untemplate` |
| an exception that ends the pass, a killed hook | `Abort` |

Calls are refused, unreadable, or cut short while `healthy` is FALSE, which changes at
any time. Refusals that are GARM's contract - deleting a scale set that is enabled or
still lists an instance - happen at any time. `ChangeLabels`, `ChangeFields` and
`ChangeOptions` are the operator's edits of the configurator's relation data; what is
edited during a pass reaches the next one.

`LaunchRunner` and `ListRunner` are a create in flight and its instance in the listing. A
scale set may have several, so that a listed instance may leave others in flight. Where
`MayStick` is TRUE an instance may be one that GARM's reaper never clears (`stuck`).

`RemoveRunners` is the listing of `_remove_runners` and its deletes together. The code leaves
behind what GARM does not delete from, runners with a job and deletes that GARM defers, so
GARM may have agreed to delete the instances afterwards (`reaping`) or not, and the pass that
saw one never deletes the scale set. An instance launched later is not among them (`ListRunner`).

Abstractions: which field drifted is not told apart (any difference leads to the same
full update); the hash of the labels is taken to be injective.

### RunnerRemoval

Per runner: GARM's status, its `runner_status`, the job record that names it, the ages of
both, the recorded provider fault, whether an instance exists in the cloud and whether a
job really runs on it. A pass disables, lists, decides (`todo`, `force`), and then deletes
one runner after another, or the scale set when the listing was empty (`DeleteScaleset`). GARM
refuses that when a create in flight has been recorded since (`DeleteRefused`), and the next
pass starts over. Between any two calls jobs start and end, their messages
arrive or not, GARM's delete worker succeeds or fails, an operator forces a delete and
GitHub's authorization comes and goes.

Every write of GARM to a runner renews its `updated_at` (`Touch`); a record is *stale*
once `MAX_JOB_RUNTIME` has passed. The delete worker's retries are bounded by backoff
in GARM; `MaxRaces` bounds how often a retry hides the fault from a pass.

### DrainDeadline

One generation, real time in units, and the only clock the code has: the age of GARM's
row. The generation changes between target, replaced predecessor and orphan and back;
each kind of pass writes the row or does not, as `_maybe_update`,
`_advance_retirement` and `_delete_orphaned` do. `offAge` is the truth the code cannot
read: how long the scale set has been disabled.

### EntityOwnership

Several units run passes against one GARM in which an administrator works too. Nothing
records what the charm created: a credential is the charm's when its `description` says
so, an entity when the credential it is bound to is. The module follows a pass through
its four stages (`pc`), each of which lists and then makes the calls it planned from the
listing (`plan`), one call per action.

| Code | Actions |
|---|---|
| `CharmState.from_charm`, `_build_desired_credentials` | `StartPass` |
| `ensure_agent_tools`, `_upload_agent_tool`, `_ensure_agent_tools` | `Upload`, `BinaryUnreadable` |
| `_reconcile_credentials` | `ListCredentials`, `CredentialCalls`, `WriteCredential`, `CredentialRefused`, `DeleteCredential` |
| `EntityReconciler.reconcile`, `_needs_credential_update`, `_is_managed` | `ListOwners`, `ListEntities`, `Rebinds`, `Owned`, `EntityCalls` |
| `_reconcile_orgs`, `_reconcile_repos`, `_safe_delete` | `WriteEntity`, `RemoveEntity` |
| the pass over the scale sets | `SyncScalesets`, `Drained` |

The history variable `theirs` remembers what was an administrator's when a pass began and
has been ever since. `SwitchesAgentOn` is the one write to an administrator's entity that the
code makes. Abstractions: organizations and repositories go through the same code
one after the other and are not told apart; a record's id is its name.

### GarmHooks

A hook is a transaction for Juju and not for GARM. `Dispatch` starts one with the relation
data of that moment (`seen`) and, on a leader without secrets, generates them (`minted`);
`NotReady`, `Wait` and `Save` end it well and store what it generated; `Rollback`, possible
anywhere, discards it.

| Code | Actions |
|---|---|
| `_ensure_secrets`, the start of a hook | `Mints`, `Dispatch` |
| early returns of `restart` | `NotReady`, `Wait` |
| `_published_providers`, `replan` | `Published`, `Replan` |
| `_maybe_first_run` | `FirstRun` |
| `_reconcile_garm_state` | `Reconcile` |
| `_trimmed_providers`, `_save_provider_record` | `Trimmed`, `Save` |
| `_on_remove` | `LeaveAtOnce`, `LeaveUnreached`, `StartCleanup` |
| `GarmResourceCleanup.run`, `_drain_pass`, `_drain_scaleset` | `CleanupPass`, `Swept`, `Pending`, `Expired` |

Leadership moves at any time (`Elect`), relations come and go, a pod is replaced, and
runners drain only while some unit's GARM process was started with their provider.
History variables name the ways in which the code is known to lose a secret or a provider
(`orphaned`, `unrecorded`, `overtaken`, `skipped`), so that the properties show there is
no other.

### JobStore

One action per exported method of `internal/database/database.go` that touches jobs and
flavors. Each sends one batch, which Postgres runs as one transaction. `Reassign` is
`updateAssignedFlavorSql`: every incomplete job without a flavor gets an enabled flavor
that matches, of the highest priority; ties are random in SQL and nondeterministic here.
`notified` records whether the last batch ended in `NOTIFY pressure_change`. A batch whose
first statement finds nothing (`ErrExist`, `ErrNotExist`) still runs the rest, as in the
code. `Expire` is the passing of the five-day window of `GetPressures`. Batches are serial.

### JobPipeline and EventLedger

The path of an event from the broker on: `Deliver` (the broker takes a message, again when
GitHub delivers again what it was not told has arrived), the broker's queue,
`Connect` (exclusive consume), `Pull`, `HandleMessage` (one transaction of `JobStore`),
`InsertMissing` (the second transaction, after an update that found no job), `Ack`,
`Requeue`, `Discard`. `Disconnect` and `Crash` happen between any two steps: a consumer
that lost its connection goes on with its message while the broker has already given it
to another one.

`EventLedger` says what this amounts to: the set of recorded events grows, and never
stops growing before it holds them all. The refinement mapping reads the recorded
events from the job table and the dead-letter queue (`RecordedEvents`).

Messages the consumer ignores (other events and actions, jobs that are not
self-hosted) are left out: they are acknowledged without a change of state.

### WebhookDelivery

Of each event the module keeps the last attempt and its age, in ticks of a clock of which
`Interval` make the daemon's interval. `Publish`, `Take`, `Answer` and `Refuse` are a
request through the handler and `Push`: the message is written, the broker takes or drops
it (`mandatory` is false: what no queue is bound for is confirmed and dropped), the
confirmation arrives or not. `Cycle`, `CycleFails` and `Redeliver` are the daemon's; the
ticker (`next`, `tick`) keeps one tick for a daemon that is still busy, as Go's does.
`Restart` ends both. `unseen` collects the attempts that a failure of the daemon, a slow
answer or a restart kept from ever being looked at.

### EventPath

The gateway and the consumers meet at the broker. `Route` is `Take` and `Deliver` in one step:
the broker has a message for the queue. `Drop` is `Take` while no queue is bound. A consumer
binds the queue (`Binds`, `ensureQueueTopology`) before it asks for it (`Joins`), and
`BrokerFails` takes its connection and returns what it had not settled to the queue. Every
other step is one side's own. `Routable` are the events GitHub lists as `queued` or
`completed`, whether their messages parse or not.

### PressureStream

One stream: the handler of a request with `stream=true` (`FirstRead`, `Flush`,
`TakeNotice`, `TakeTick`, `Reread`, `Leave`), the goroutine of `SubscribeToPressureUpdate`
that forwards notifications over a bounded channel (`Receive`, `Send`, `Exit`), a subscription
that fails before there is one (`SubscribeFails`), which may leave a connection behind (`leaked`),
the client
(`HangUp`, and a `Flush` that never returns), the database (`Change` with its NOTIFY,
`GrowOld` without one), a lost listening connection, and the shutdown of `main`
(`Signal`, `Drained`, `Stop`). Streams share only the heartbeat ticker, whose ticks go to
the handler that has waited longest: `ahead` counts the others before this one.

### PlannerStreams

`StoreStep` is a batch of `JobStore` as the stream meets it: what the flavor shows changes
with it, and its NOTIFY reaches the connection if that listens (`pg_notify` in the batch's own
transaction). Only `Expire`, the passing of the five-day window, leaves the client with a
number nothing told it of (`unread`). The stream's process takes its other steps on the table
as it stands; nothing writes to the table but batches.

### PlannerRelations

The hook of the planner charm's leader, one API call per action: `Begin` (list the tokens,
read the relations, or return at once because the workload is not ready or there is no admin
token: `setup`), `ReconcileRelation`, `RejectDeclaration` (a priority that does not
parse, an error nobody catches), `ListFlavors`, `SyncFlavor` (delete, create, or delete and
create), `FindOrphans`, `DeleteOrphan`, `Commit`. What the hook wrote to secrets and
relation data exists only after `Commit`; `Undo` discards it and Juju runs the hook again,
while the planner keeps what its API was told. Relations are made, filled in, changed and
broken, and the operator's `enable-flavor` and `disable-flavor` run on any unit, between any
two calls. One hook runs at a time on the leader. `lost` marks relations whose credentials
the code is known to lose: created by a hook that failed later, or refused halfway. `held` are
the flavors that were as declared when the operator last disabled them.

## 3. The runs

| Run | Module | Checks | Instance | Distinct states |
|---|---|---|---|---|
| `Changeover` | `MCScalesetReconciler` | `TemplatesBacked`, `NoQueueGap`, `TargetKept`, `PatientDrain` | 1 spec, 2 overlapping label sets (symmetric), 2 relabels, 1 edit, no stuck instance | 1.8 million |
| `Convergence` | same | `Converges` | 2 relabels (1 with runner options), no edits, stuck instances | 175 thousand |
| `Removal` | `RunnerRemoval` | `NoSilentLeak`, `KnownJobSpared`, `EscalationKept`, `ScalesetGoes` | 1 runner, 1 race | 4 thousand |
| `Deadline` | `DrainDeadline` | `RemovedInTime` | deadline 4, interval 2 | 292 |
| `Ownership` | `EntityOwnership` | `AgentsServed`, `AdminsKept`, `SettlesForGood` | 2 units, 2 credentials (1 contested), 1 entity, 1 architecture, 1 edit | 854 thousand |
| `Hooks` | `MCGarmHooks` | `AdminKnown`, `ProviderHeld`, `RemovedClean` | 2 units (symmetric), 1 provider, 2 mints, 3 edits, 2 cleanup passes | 2.8 million |
| `Silence` | same | `SilenceSpares`, violated | 1 unit, 2 providers, 3 edits | - |
| `Assignment` | `MCJobStore` | `StoreTypeOK`, `DemandPlaced`, `StickyAndBest`, `ChangesAnnounced` | 2 jobs, 2 flavors (symmetric), 2 platforms, 2 priorities | 33 thousand |
| `Intake` | `MCJobPipeline` | `TypeOK`, `NothingLost`, `ImplementsLedger` | 1 job, 1 malformed message, 2 consumers, 2 faults, 1 duplicate | 204 thousand |
| `Path` | `MCEventPath` | `AnsweredIsKept`, `NoneForgotten`, `EventsRecorded` | 1 redelivered and 1 other event, neither of which parses, interval 2, 1 consumer, 2 failures before and 1 fault behind the broker, 2 duplicates | 720 thousand |
| `Streams` | `MCPlannerStreams` | `NoChangeMissed`, `ImplementsStream`, `CatchesUp`, `DeafStreamEnds`, `ListenerReleased` | 1 job, 1 flavor, channel of 2, 2 other streams, 3 changes | 326 thousand |
| `Relations` | `MCPlannerRelations` | `TokenKept`, `DisableKept`, `Delivered`, `Revoked`, `FlavorsFollow` | 2 relations, 2 flavors, 2 configurations (one with capitals), 5 edits, 1 fault | 550 thousand |

### What the properties say

Scale sets and runners:

* `NoQueueGap` - a label the operator wants, that the pass was asked for and that some
  generation serves never loses its last listener session. Several actors must line up
  to break it: an operator's relabel, a pass, GARM's listener, another relabel.
* `TargetKept` - no call of a pass, made for another spec, a predecessor or an orphan,
  disables or deletes a generation this pass was asked for.
* `TemplatesBacked` - no scale set references a runner template that does not exist,
  whatever call was refused and wherever the hook died.
* `PatientDrain` - a predecessor's instances are removed directly only after the row
  has been left alone for `DRAIN_DEADLINE`. `RemovedInTime` adds that this age is also a
  sound measure of how long the scale set has been draining.
* `Converges` - once the API stays healthy, each configured spec ends up with exactly
  one scale set, enabled and current, and nothing else remains, provided no instance is left
  behind by every removal of its scale set (`NoneOutOfReach`). `RunnerRemoval` tells when an
  instance is: `ScalesetGoes`.
* `KnownJobSpared` - a pass kills no job that its own listing showed in any record. A
  job of which GARM knew nothing at the time of the listing remains exposed, which is
  the race `_remove_runners` documents.
* `NoSilentLeak` - a cloud instance without a record in GARM exists only after the
  provider failed to tear it down, or an operator forced the delete.
* `EscalationKept` - a forced delete in place is not turned back into a plain one.
* `ScalesetGoes` - the scale set is deleted in the end, also when a create in flight has its
  delete refused, unless the provider goes on failing for a runner whose record still says
  active.

The GARM charm:

* `AgentsServed` - an entity in agent mode has every binary of the manifest published,
  whichever unit uploaded and whatever failed on the way.
* `AdminsKept` - no step of a pass rewrites or removes what has been an administrator's
  since the pass began, though it works from older listings than that. One field is excepted
  and named: agent mode of an entity the relations ask for, from off to on (section 5).
* `SettlesForGood` - once calls are answered, the passes of all units settle: what is wanted
  is registered and hosts, the rest is torn down link by link, and nobody undoes it.
* `AdminKnown` - the secrets of GARM's first run are the stored ones or those of a hook
  still running, unless that very hook failed afterwards.
* `ProviderHeld` - the provider of a scale set stays in the record, or in the hook that has
  yet to record it; the ways to lose it are a hook that ends without recording it and a
  leader that was overtaken by another one.
* `RemovedClean` - once every unit is removed no scale set is left, unless the leader took
  an unreachable GARM for one never initialised, or the last unit did not lead.

The planner:

* `DemandPlaced` - every incomplete job is on an enabled flavor that can run it, if there
  is one. `StickyAndBest` - a job leaves its flavor only when that is disabled or deleted,
  and then for one of the highest priority. `ChangesAnnounced` - a batch that changes a
  pressure ends in a NOTIFY.
* `NothingLost` - an event the broker has had is with it or recorded.
  `ImplementsLedger` - the pipeline refines `EventLedger`, liveness included.
* `AnsweredIsKept` - what GitHub was told is delivered is queued, with the consumer that has the
  queue, or recorded, unless it came before any queue was bound. `NoneForgotten` - no
  failed attempt leaves the daemon's window unseen while the daemon runs on time.
  `EventsRecorded` - every event that is redelivered at all is recorded, however often its
  attempts, the broker and the consumer fail.
* `NoChangeMissed` - an announced change has reached the client or is on its way: nothing
  falls between subscription and first read, nothing is dropped behind a slow client.
  `ImplementsStream` - the table announces what the stream relies on.
  `CatchesUp` - heartbeats come round to each stream, so that silent changes are repaired.
  `DeafStreamEnds` - a stream that lost its listening connection ends. `ListenerReleased` -
  a request that has ended, however far it came, holds no connection; the two leaks of the
  code (section 5) are named, and there is no third.
* `TokenKept` - a relation that was given a token keeps it and its secret. `Delivered` - one
  that lasts gets it, except where the code is known to lose it. `Revoked` - the token of
  an ended relation goes. `DisableKept` - a flavor that was as declared when the operator
  disabled it is enabled or removed by nobody else while its declaration lasts, but for a hook
  that is still running on an older declaration of it. `FlavorsFollow` - the table ends up as declared.

`StoreTypeOK` and `JobPipeline`'s `TypeOK` are the type invariants that say more than types: no
job refers to a flavor that is gone, and one consumer at most has the queue. The other modules'
are proved (section 4), which covers any instance, and no run repeats them.

Each property of a passing run has a seeded fault: a definition commented `Seeded
fault:` replaces the one after it (a guard dropped, a job record not consulted, an
acknowledgement in place of a requeue), and TLC finds the property violated.

### Bounds, and why they are enough

* `MaxRelabels = 2`: the hard case is a change that is reverted while the predecessor
  drains, and the removal and return of a spec. Both take two. The proofs of section 4
  bound neither relabels nor edits.
* `MaxEdits = 1` in `Changeover`: one change of runner options or fields, at any point of a
  changeover. `Convergence` uses no edits, starts from one of the two label sets and, with runner
  options, changes labels once, all to keep the liveness check small (`ConvergenceSpec`). Without
  runner options it has the change that is reverted while the predecessor drains.
* Two label sets that share `x` and differ in `a`/`b`: a shared label shows a gap, the
  others show what happens to labels that come and go.
* Nothing tells the two label sets apart, so that `Changeover` checks one of each symmetric
  pair of states; its four properties are about safety. Both its symmetry and `MayStick =
  FALSE` keep its size down. A stuck instance is one `RunnersGone` does not clear, so it only
  takes steps away; the proofs cover both values, and `Convergence`, where it matters, has it TRUE.
* One spec: specs interact only through `Claimed`, as the sweep and each retirement act
  on generations of no desired spec or of one spec. TLC checks one; the proofs cover
  every set of specs.
* `Removal` has one runner, so that its liveness can be checked with its safety. What a
  second runner adds is time between the listing and its delete, which a single runner
  has too; the proofs cover any set of runners. `MaxRaces = 1`: a race hides one fault;
  without a bound a worker could always win against the hook, which GARM's backoff excludes.
* `Deadline = 4, Interval = 2`: a deadline of two intervals gives passes before, at and
  after it. The proof covers every value.
* `Ownership`: two units give stale listings and duplicate calls, a contested credential an
  administrator who creates or claims it, and one edit a relation that changes during or
  between the passes (or the administrator's act). All initial contents of GARM by an
  administrator's hand are included. The proofs cover all sets and bounds.
* `Hooks`: two units for a change of leader in the middle of a hook, two mints for secrets
  generated twice, three edits for a configurator that joins, publishes and leaves; an
  expired and a retried removal fit in two cleanup passes.
* `Intake`: `MaxFaults = 2` is a fault during the recovery from a fault, `MaxDuplicates = 1` an
  event redelivered around either. `Assignment`: ties, a better flavor appearing, a flavor
  that matches only one of the jobs.
* `Path`: an interval of two ticks has instants before, inside and after a window; two failures
  are a failed attempt and a failed redelivery or a failure of the daemon, and a fault more
  lets the broker take a consumer with it. Events of jobs would come in threes and are left to
  `Intake`; here events are recorded in the dead-letter queue, by the same consumer and the same
  broker. The theorems of `EventPathProofs` cover any events.
* `Streams`: a channel of two fills up and empties (16 in the code); two other streams put
  ticks out of reach; three changes fill the channel and the goroutine's hand. One flavor and
  one job make the pressure come, go, change and grow old; other flavors' batches are notices
  that change nothing, which disabling and enabling an idle flavor gives.
* `Relations`: two relations that declare the same flavor, differently; five edits make,
  fill in, change and break one and begin another. A fault is a refused call or a killed
  hook, at any call.

### Assumptions

* `PromptListener` - GARM opens the sessions it owes between two passes. The comment at
  `scaleset_reconciler.py:458-462` relies on it; without it `NoQueueGap` fails.
* `MayAbort` - whether a pass may be cut short; TRUE in both runs.
* GARM refuses to delete a scale set that is enabled or lists an instance, an entity with
  scale sets and a credential with entities; a create in flight is not stopped by a
  disable, and a `force_remove` drops the record even when the provider fails: the
  reconcilers' comments state each of these. GARM accepts one first run.
* GitHub ends a job within `MAX_JOB_RUNTIME`, so a running job has no stale record.
* The broker keeps what it confirmed for a bound queue, and requeues unacknowledged messages
  at the head. GitHub lists the attempts of a delivery from the newest back.
* Juju stores what a hook wrote when it ends well and discards it when it fails, keeps
  the first of two secrets created for one label, and takes the relations away before the
  units when an application is removed.

### Fairness, and what justifies it

* Passes of the scale set reconciler, and of each unit in `EntityOwnership`: Juju
  dispatches `update-status` periodically and a hook runs to its end. In
  `PlannerRelations` only a hook an event calls for is fair (`due`): the planner charm
  reconciles on events, and nothing is assumed of the hooks without one.
* `ListenerOpens`, `ListRunner`, `RunnersGone` of disabled scale sets, `DeadlinePasses`,
  `Drained`: GARM's workers run in loops; time passes. An instance GARM's reaper
  never clears (`stuck`) is exempt until the charm asked for its delete.
* In `RunnerRemoval`, GARM finishes creates and teardowns *one way or the other*, jobs
  end and records age. No message about a job is assumed to arrive, and nothing is
  assumed of GitHub's authorization.
* In `JobPipeline`, the broker gets every event once, consumers run and reconnect; in
  `EventPath`, requests and cycles end, time passes, the broker comes back and consumers
  run, and that the broker gets the events that are redelivered is part of `EventsRecorded`.
  Faults are bounded instead of unfair.
* In `PressureStream`, also on the job table, goroutines run and ticks come. `TakeNotice` and `Leave` are strongly
  fair because Go's `select` chooses at random among the ready cases: a case that is ready
  again and again is taken. No client is sure to read, to stay or to leave.
* The operator's and the administrator's actions and the health of the APIs are never
  fair. Liveness is stated for the behaviours in which the API is healthy, or the
  declarations valid, from some point on.

`CHECK_DEADLOCK FALSE` is set where the system really stops: a deleted scale set has
nothing left to remove, a pipeline whose events are all recorded is idle, an
application whose units are gone has no hooks, an exited planner no streams.

## 4. The proofs

TLAPS checks these for every value of the constants under the modules' assumptions.

| Theorem | Module | States |
|---|---|---|
| `TypeCorrect` | `ScalesetReconcilerProofs` | `Spec => []TypeOK` |
| `TemplatesAlwaysBacked` | | `Spec => []TemplatesBacked` |
| `TargetIsKept` | | `Spec => TargetKept` |
| `NoGap` | | `PromptListener => (Spec => NoQueueGap)` |
| `DrainIsPatient` | | `Spec => PatientDrain` |
| `TypeCorrect` | `RunnerRemovalProofs` | `Spec => []TypeOK` |
| `NoLeak` | | `Spec => []NoSilentLeak` |
| `KnownJobsAreSpared` | | `Spec => KnownJobSpared` |
| `EscalationIsKept` | | `Spec => EscalationKept` |
| `DeadlineIsSound` | `DrainDeadlineProofs` | `Spec => []RemovedInTime` |
| `TypeCorrect` | `EntityOwnershipProofs` | `Spec => []TypeOK` |
| `AgentsAreServed` | | `Spec => []AgentsServed` |
| `AdminsAreKept` | | `Spec => AdminsKept` |
| `TypeCorrect` | `GarmHooksProofs` | `Spec => []TypeOK` |
| `AdminIsKnown` | | `Spec => []AdminKnown` |
| `ProvidersAreHeld` | | `Spec => []ProviderHeld` |
| `RemovalIsClean` | | `Spec => []RemovedClean` |
| `StoreTypeCorrect` | `PlannerProofs` | `StoreSpec => []StoreTypeOK` |
| `DemandIsPlaced` | | `StoreSpec => []DemandPlaced` |
| `AssignmentSticks` | | `StoreSpec => StickyAndBest` |
| `ChangesAreAnnounced` | | `StoreSpec => ChangesAnnounced` |
| `TypeCorrect` | | `Spec => []TypeOK` |
| `NothingIsLost` | | `Spec => []NothingLost` |
| `LedgerIsKept` | | every behaviour of the pipeline is, step by step, one of the ledger |
| `IntakeKeepsStore` | | `Spec => StoreSpec`: the intake does to the table only what the table's specification allows |
| `StreamTypeCorrect` | | `StreamSpec => []StreamTypeOK` |
| `NoChangeIsMissed` | | `StreamSpec => []NoChangeMissed` |
| `StoreDrivesStream` | | `PlannerSpec => StreamSpec`: the job table is the database `PressureStream` abstracts |
| `StoreDrivesFairStream` | | `FairPlannerSpec => FairStreamSpec` |
| `GatewayTypeCorrect` | `EventPathProofs` | `GatewaySpec => []GatewayTypeOK` |
| `NothingOkIsMissing` | | `GatewaySpec => []OkIsStored` |
| `NoAttemptForgotten` | | `GatewaySpec => []NoneForgotten` |
| `PathKeepsStore` | | `PathSpec => StoreSpec /\ []NothingLost` |
| `PathForgetsNone` | | `PathSpec => []NoneForgotten` |
| `AnsweredEventsAreKept` | | `PathSpec => []AnsweredIsKept` |
| `TypeCorrect` | `PlannerRelationsProofs` | `Spec => []TypeOK` |
| `TokensAreKept` | | `Spec => []TokenKept` |
| `DisablesAreKept` | | `Spec => DisableKept` |

None of the safety properties is inductive: each depends on what a pass, a hook or a consumer
read long before it acts. Each proof module defines an `IInv` that carries what was read
forward, shows that `Init` establishes it and that every action keeps it, and derives the
properties from it.

**ScalesetReconciler.** `TypeOK /\ PassInv /\ TemplateInv /\ SessionInv`. `PassInv` says that
the generations a loop has still to visit are ones the snapshot showed, that GARM still
holds them (only the charm deletes, and each is visited once) and that none is a target -
which is where claiming the target *name*, observed or not, matters. `TemplateInv` says that
what the snapshot says of a target's template is still true when its spec's turn comes, so
`Prune` never deletes a referenced template. `SessionInv` says that a target seen enabled
holds its session for the whole pass, which needs `PromptListener` at `StartPass` and
`TargetKept` after it. `NoGap` then follows: a session is closed by `Retire`, when a seen
replacement of the same spec holds one, or by a sweep, when the spec is not desired or the
generation is of no desired spec. `PatientDrain` needs `DrainInv`: a predecessor the pass has
still to visit drains as the snapshot showed, because only its own turn writes its row, and
what the sweep removes was seen an orphan of no desired spec.

**RunnerRemoval.** `LeakInv`: every runner a pass has decided to force is excused - its teardown
failed at the provider before, or an operator forced the delete - because GARM's recorded
fault means just that, except while the status is `error`, which `_is_delete_stuck` does not
force. `RecordInv`: a stale record is of a job that has ended. `PassInv`: a runner still to be
deleted that the listing showed with a job of any age has had its one job and is not working,
and one listed under a forced delete is deleted by force again.

**DrainDeadline.** While a scale set is disabled its row is never older than the
disabling (`RowIsYounger`), because the write that disables is a write like any other.
So an expired row implies an expired drain.

**EntityOwnership.** `PlanInv` types the plan of each stage. `AgentInv`: a pass that may
switch agent mode on has every binary published or still in its plan. `AdminInv`: what has
been an administrator's since the pass began is described so *now*, was shown so by the
second listing, and no call in the plan is about it. The order of the listings carries the
proof: credentials are listed before entities, so an entity bound to a credential created in
between looks unclaimed - but that credential then is not one that has been there since the
pass began. What is left of the update of an administrator's entity is its agent mode, which a
plan holds only if the pass found it off (`StepSwitchesOn`).

**GarmHooks.** `SecretInv`: generated secrets belong to a hook, and GARM holds nothing before
its first run. For `ProviderHeld`, `KnowsInv` says that a hook during which no other wrote the
record has all of it in its GARM, and `SurvivalInv` that what its completed pass saw unused
is used now only if another hook that is still to record it, or failed to, has created the
scale set since; so what the leader trims nobody needs (`TrimmedIsUnused`).

**JobStore.** `DemandPlaced` needs `PlatformKept`: a delete unassigns only jobs of the
server's platform, so that no job keeps a deleted flavor holds because a flavor is only
ever assigned to jobs of its own platform. `Unknown` (a job not in the table has no
flavor) lets an insert start from nothing. Two lemmas state what the assignment query
returns (`ChoicesPlace`) and what a batch's reassignment leaves (`ReassignPlaces`).
`ChangesAnnounced` rests on `SilentSteps`: a batch without a NOTIFY leaves every table that
pressures are read from.

**JobPipeline.** The hard point is an insert that conflicts and is acknowledged all the same.
`InsertInv`: the job was not there when the update failed and still is not, or this very
message has been recorded by another consumer. That needs `FrontInv`: what a consumer that
lost its connection still holds is recorded, or with the attached consumer, or at the head of
the queue - the broker requeues in place, and there is at most one attached consumer. The
refinement's safety half (`LedgerIsKept`) follows from `StepRecords`: no step takes back a
recorded event.

**PressureStream.** What the handler last read is what the database answers, or something is
underway that will make it read again: a notice in the connection, the goroutine's hand or the
channel, a broken connection that will end the stream, or a silent change no notice announces
(`ReadInv`, `Underway`). The subscription comes before the first read, so a change between them
leaves a notice. What the client was sent is what the handler last read while it waits, whatever
the ticks do.

**PlannerStreams.** The invariant is `JobStore`'s, with `pressure = Shown`. A batch whose NOTIFY
is in place is a `Change` or a stutter of the stream (`StoreStepStreams`), by the same
`SilentSteps` that gives `ChangesAnnounced`; the passing of time never makes a flavor come or
go, so it is a `GrowOld` (`TimeIsSilent`). Since the composition implements `StreamSpec`, what is
proved of the stream holds on the table.

**WebhookDelivery.** `TakenIsStored`: an attempt the broker has taken is stored or was dropped
as unroutable. `InTime`: an attempt not yet looked at is at most as old as the time since the
last tick, unless it is in `unseen`.

**EventPath.** Each step of the path is a step of the intake or nothing to it
(`PathStepIntake`), and a step of the gateway or nothing to it (`PathStepGateway`). So both
invariants hold. What ties them is `BrokerInv`: the gateway's `stored` is what is not in the
intake's `unsent`. An answered event is therefore stored, so the broker has had it, so by
`NothingLost` it is queued, with the attached consumer, or recorded (`AnsweredEventsAreKept`).

**PlannerRelations.** `TokenInv` says what a hook's old view still means: a served relation
that the view leaves out has ended, so what the hook takes for an orphan is one; and
credentials not yet committed are of relations in the view, so the hook does not delete its
own. `Orphans` subtracts the relations seen, not the ones served, and that is what makes it
hold. For `DisableKept`, `PlanInv` says what a plan still means: a flavor to be replaced does
not match what the hook saw declared, one to be dropped was not declared, one to be created is
not there. A held flavor that is disabled matches what is declared now (`HeldInv`), so a hook
that has it in its plan saw something else. `Max` and `Min`
of the community modules are defined by `CHOOSE`; that they exist for a non-empty set of
relations is proved from the theorems about finite sets.

**Only model-checked.** Liveness (`Converges`, `ScalesetGoes`, `SettlesForGood`, `EventsRecorded`,
`CatchesUp`, `DeafStreamEnds`, `ListenerReleased`, `Delivered`, `Revoked`, `FlavorsFollow` and the
liveness half of `ImplementsLedger`) is out of this prover's reach: it needs fairness and
`ENABLED`. `StoreDrivesFairStream` carries what TLC finds of the abstract stream's liveness to
the job table. Every safety property of every passing run is proved.

## 5. What the code does against its documentation

Shown by a run:

| Run | What it shows |
|---|---|
| `Silence` | "A configurator that is related but has not published yet must not be reconciled", says the comment at `charm.py:423-426`. The guard only holds while *no* configurator publishes: with one silent and one published, the pass retires the scale sets of the silent one. |

Met while modelling, each of them a behaviour of the models above (the properties are stated
around it, and name it):

*Scale sets.* `_retire_replaced` promises a changeover with "no queue gap"
(`scaleset_reconciler.py:442-443`) but waits only for the replacement's `enabled` flag (`:465`):
two hooks back to back may close the only session that serves a shared label
(`PromptListener`). A refused template delete logs "will retry on next reconcile" (`:1067`); once
the scale set is gone no pass looks at the template again. A runner recorded active is skipped
before its stuck delete is looked at (`:847`): when the completion message was lost and the
teardown keeps failing, every retry renews the record and it is never escalated
(`ScalesetGoes` excepts it). The sweep disables an orphan on every pass, which restarts the
only clock of its drain: an overdue orphan is never reported (`:756`), while a scale set that
was a target, with an old row, is taken for overdue by the very pass that starts its drain
(`:694` reads the age before the write). During a changeover both generations hold their
`max_runners`.

*Entities.* "Only owned entities are updated or deleted", says the docstring of
`entity_reconciler.py` (`:10-11`), but `_entity_update` compares agent mode without asking who owns
the entity (`:181-182`): a pass switches it on in an administrator's entity that the relations
ask for, next to a credential it leaves alone (`AdminsKept` names it).

*The GARM charm.* A hook that creates scale sets on a new provider and fails before it saves the
record, or a non-leader's, leaves them with a provider that only the relation publishes
(`unrecorded`). Secrets generated by a hook that fails after GARM's first run are lost with
it, and GARM has no other way in (`orphaned`). The removal takes an unreachable GARM without a
database for one never initialised, although Juju takes the relations away first
(`skipped`). A credential without description is adopted, and with it every entity bound to
it; an entity under an administrator's credential is never torn down by the charm, also when
the charm registered it.

*The planner.* Pressure is documented as the number of incomplete jobs assigned to a flavor
(`database.go:10`); the query leaves out jobs older than five days (`:552`), and nothing announces
that they are. Two listening connections are never closed: the one of a `LISTEN` that fails,
which has been taken from the pool at `database.go:595` and is dropped at `:599` (`leaked`), and
that of a goroutine whose channel was full as its handler went away, blocked at `:614` for ever.

*The gateway.* Messages are published with `mandatory` false (`producer.go:61-65`): until a planner
has declared its queue, events are confirmed and dropped, and GitHub is told 200. The daemon
redelivers `queued` and `completed` deliveries; an `in_progress` one that fails is gone. Attempts
from before a restart, of a cycle whose listing failed, or that fall out of the window of a
late one, are never looked at.

*The planner charm.* A token whose secret could not be created, or whose hook fails later, exists
in the planner and not in Juju: the relation counts as served and its token can never be read
(`lost`; `planner-operator/src/charm.py:192` also adds to `reconciled` what was skipped, against the
comment at `:203`). One priority that does not parse raises outside the `try` and fails the hook for all
relations. Labels with capitals are stored in lower case, never match what is declared, and
every hook deletes and creates their flavor again, which also enables what the operator had
disabled. So does a hook still running on an older declaration: it deletes the flavor, and
creates what it saw enabled (`:246-264`), which the next hook replaces, enabled again.

## 6. What is not modelled

Of the implementation's 113 thousand lines about 67 thousand are the generated GARM client
(`charms/garm/src/garm_client`) and 43 thousand vendored charm libraries (`lib/`). The logic of this
repository's own is some twelve thousand lines, docstrings and comments included; the models
map some four thousand of these lines, of which 2900 are code.

* **Overlapping transactions** under READ COMMITTED: batches of `JobStore` are serial. The
  remarks at `database.go:467` are about what two of them may do. `updateJob` of the HTTP
  server reads and writes in two calls, each of which `JobStore` allows at any time.
* **Two units' passes over the scale sets at the same time**: one pass at a time is modelled in
  `ScalesetReconciler`; `EntityOwnership` and `GarmHooks` interleave the passes with the
  scale sets as one step.
* **Cloud quota**: runners are counted as some or none.
* **A message the database refuses for ever**: faults are bounded in `JobPipeline`. The tight loop
  of `Pull` on a queue another unit holds is a performance matter.
* **The configurator charm and the validation in `charm_state.py`**: sequential functions of one
  relation's data, tested value by value; what the GARM charm does with missing and changed
  data is in the models.
* **Rendering** (`runner_template.py`, `garm_template.py`, `garm_entrypoint.py`), the gateway charm,
  metrics, the security log, dashboards, build files, one-shot tools: no protocol.
* **Webhook signatures and payload parsing**: pure. A payload is well-formed or not.
* **Time**: intervals are counted in ticks; a request's own timeouts are among the failures that
  may happen at any time.

## 7. Plan

| What | Question |
|---|---|
| `ConcurrentBatches` | What do two batches do to `DemandPlaced` under READ COMMITTED? |
| Several streams at once | One stream with `Others` stands for all; does a set of streams on one ticker implement it? |
| Composition of `ScalesetReconciler` with `EntityOwnership` | Missing entities in place of `healthy`. |

## 8. How to run it

```
tlasany M.tla                              # parse
tlc -workers 2 -config Changeover.cfg MCScalesetReconciler
tlapm ScalesetReconcilerProofs.tla         # check the proofs
```

`PROJECT.json` lists the components, the runs, the seeded faults, the lines each
definition models, the hazards and the theorems. With two workers `Ownership`, `Path` and
`Streams` take two to two and a half minutes, `Changeover`, `Convergence` and `Hooks` about one
and a half; each of the others less than one.
