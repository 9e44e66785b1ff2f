------------------------------ MODULE GarmHooks ------------------------------
(***************************************************************************)
(* The hooks of the GARM charm (charm.py: restart, _maybe_first_run,       *)
(* _on_remove) with the removal cleanup (resource_cleanup.py): the secrets *)
(* the leader creates, the provider record that outlives a pod, the first  *)
(* run of GARM, and the draining of what is left when the application goes.*)
(*                                                                         *)
(* A hook is a transaction for Juju and not for GARM: secrets it created   *)
(* or changed are kept only if it ends well, what it asked of GARM stays.  *)
(* GARM fixes its providers when its process starts, so a scale set whose  *)
(* provider is neither related nor recorded can never be torn down.        *)
(***************************************************************************)
EXTENDS Naturals, FiniteSets

CONSTANTS Units, Providers,
          NoOne,      \* no unit: leadership has lapsed
          MaxMints,   \* bound on the times secrets are generated
          MaxEdits,   \* bound on the changes of a configurator relation
          MaxPasses   \* cleanup passes that fit before the deadline of a removal

ASSUME HooksAssumption ==
  /\ NoOne \notin Units
  /\ MaxMints \in Nat /\ MaxEdits \in Nat /\ MaxPasses \in Nat \ {0}

VARIABLES
  leader,
  relation,    \* each configurator: "none", "joined" (says nothing), "published"
  edits,
  postgres,    \* the database is related and the container is up
  secret,      \* the stored secrets, numbered as they are generated; 0: none
  mints,
  record,      \* the stored provider record
  initialised, \* the secret GARM went through its first run with; 0: not yet
  running,     \* the providers each unit's GARM process was started with
  scaleset,    \* of each provider: "none", "live", "draining", "empty"
  pc,          \* the hook of each unit
  minted,      \* secrets the hook has generated, not stored yet; 0: none
  seen,        \* providers its relation data publish
  silent,      \* a configurator is related
  surviving,   \* the providers the scale sets named after the pass ...
  known,       \* ... which may also have failed
  passes,      \* cleanup passes of a removal so far
  removing,    \* the application is being removed
  gone,        \* units that are removed
  orphaned,    \* history: first run with secrets that were never stored
  unrecorded,  \* history: providers a hook ended without recording, or dropped from a
               \* record another leader wrote while it ran
  overtaken,   \* history: units in a hook during which another one wrote the record
  skipped      \* history: a leader took GARM for never initialised when it was removed,
               \* or the last unit was removed while it did not lead

modelVars == <<leader, relation, edits, postgres, removing>>
storeVars == <<secret, mints, record>>
garmVars == <<initialised, running, scaleset>>
hookVars == <<minted, seen, silent, surviving, known>>
historyVars == <<orphaned, unrecorded, overtaken, skipped>>
vars == <<modelVars, storeVars, garmVars, pc, hookVars, passes, gone, historyVars>>

InUse == {p \in Providers : scaleset[p] # "none"}
Related == {p \in Providers : relation[p] = "published"}
Visible(u) == IF minted[u] # 0 THEN minted[u] ELSE secret

TypeOK ==
  /\ leader \in Units \union {NoOne}
  /\ relation \in [Providers -> {"none", "joined", "published"}]
  /\ edits \in 0..MaxEdits
  /\ postgres \in BOOLEAN /\ removing \in BOOLEAN
  /\ mints \in 0..MaxMints /\ secret \in 0..mints /\ initialised \in 0..mints
  /\ record \subseteq Providers
  /\ running \in [Units -> SUBSET Providers]
  /\ scaleset \in [Providers -> {"none", "live", "draining", "empty"}]
  /\ pc \in [Units -> {"idle", "started", "replanned", "ready", "reconciled", "cleaning"}]
  /\ minted \in [Units -> 0..mints]
  /\ seen \in [Units -> SUBSET Providers]
  /\ silent \in [Units -> BOOLEAN]
  /\ surviving \in [Units -> SUBSET Providers]
  /\ known \in [Units -> BOOLEAN]
  /\ passes \in 0..MaxPasses
  /\ gone \subseteq Units
  /\ orphaned \in BOOLEAN /\ skipped \in BOOLEAN
  /\ unrecorded \subseteq Providers /\ overtaken \subseteq Units

Init ==
  /\ leader = NoOne
  /\ relation = [p \in Providers |-> "none"] /\ edits = 0
  /\ postgres = FALSE /\ removing = FALSE
  /\ secret = 0 /\ mints = 0 /\ record = {}
  /\ initialised = 0 /\ running = [u \in Units |-> {}]
  /\ scaleset = [p \in Providers |-> "none"]
  /\ pc = [u \in Units |-> "idle"] /\ minted = [u \in Units |-> 0]
  /\ seen = [u \in Units |-> {}] /\ silent = [u \in Units |-> FALSE]
  /\ surviving = [u \in Units |-> {}] /\ known = [u \in Units |-> FALSE]
  /\ passes = 0 /\ gone = {}
  /\ orphaned = FALSE /\ unrecorded = {} /\ overtaken = {} /\ skipped = FALSE

-----------------------------------------------------------------------------
(* How a hook starts and ends.                                             *)

GoTo(u, step) == pc' = [pc EXCEPT ![u] = step]

Forget(u) ==
  /\ GoTo(u, "idle")
  /\ minted' = [minted EXCEPT ![u] = 0]
  /\ seen' = [seen EXCEPT ![u] = {}]
  /\ silent' = [silent EXCEPT ![u] = FALSE]
  /\ surviving' = [surviving EXCEPT ![u] = {}]
  /\ known' = [known EXCEPT ![u] = FALSE]

\* _ensure_secrets: both secrets are created by the leader when missing.
Mints(u) == leader = u /\ secret = 0 /\ mints < MaxMints

\* A hook that reads the record, and may write it.
InHook(u) == pc[u] \notin {"idle", "cleaning"}

\* A hook begins: the relation data it sees are those of this moment.
Dispatch(u) ==
  /\ pc[u] = "idle" /\ u \notin gone
  /\ leader = u /\ secret = 0 => Mints(u)
  /\ GoTo(u, "started")
  /\ mints' = IF Mints(u) THEN mints + 1 ELSE mints
  /\ minted' = [minted EXCEPT ![u] = IF Mints(u) THEN mints + 1 ELSE 0]
  /\ seen' = [seen EXCEPT ![u] = Related]
  /\ silent' = [silent EXCEPT ![u] = \E p \in Providers : relation[p] # "none"]
  /\ UNCHANGED <<modelVars, secret, record, garmVars, surviving, known, passes, gone,
                 historyVars>>

\* Seeded fault: secrets generated in the meantime replace the stored ones.
SucceedReplacing(u) ==
  /\ secret' = Visible(u)
  /\ Forget(u)
  /\ UNCHANGED <<modelVars, mints, garmVars, passes, gone, orphaned, skipped>>

\* The hook ends well and Juju stores the secrets it generated, unless another
\* unit's were stored first.
Succeed(u) ==
  /\ minted[u] = 0 \/ secret = 0
  /\ secret' = Visible(u)
  /\ Forget(u)
  /\ UNCHANGED <<modelVars, mints, garmVars, passes, gone, orphaned, skipped>>

\* An exception, a killed hook: nothing is stored.
Rollback(u) ==
  /\ InHook(u)
  /\ orphaned' = (orphaned \/ (minted[u] # 0 /\ initialised = minted[u]))
  /\ unrecorded' = unrecorded \union seen[u]
  /\ overtaken' = overtaken \ {u}
  /\ Forget(u)
  /\ UNCHANGED <<modelVars, storeVars, garmVars, passes, gone, skipped>>

-----------------------------------------------------------------------------
(* restart                                                                 *)

\* The early returns: no container, no database, no secrets.
NotReady(u) ==
  /\ pc[u] = "started"
  /\ ~postgres \/ Visible(u) = 0
  /\ Succeed(u)
  /\ overtaken' = overtaken \ {u}
  /\ UNCHANGED <<record, unrecorded>>

\* _published_providers: the record with the relations on top.
Published(u) == record \union seen[u]

\* replan: GARM restarts with them.
Replan(u) ==
  /\ pc[u] = "started" /\ postgres /\ Visible(u) # 0
  /\ running' = [running EXCEPT ![u] = Published(u)]
  /\ GoTo(u, "replanned")
  /\ UNCHANGED <<modelVars, storeVars, initialised, scaleset, hookVars, passes, gone,
                 historyVars>>

\* _maybe_first_run, on the leader.  GARM accepts one first run; finding it
\* initialised, now or by a conflict, is no error.  A hook whose call was carried
\* out and whose answer was lost fails next (Rollback).
FirstRun(u) ==
  /\ pc[u] = "replanned"
  /\ initialised' = IF leader = u /\ initialised = 0 THEN Visible(u) ELSE initialised
  /\ GoTo(u, "ready")
  /\ UNCHANGED <<modelVars, storeVars, running, scaleset, hookVars, passes, gone, historyVars>>

\* A configurator is related and none has published: no pass.
Wait(u) ==
  /\ pc[u] = "ready" /\ seen[u] = {} /\ silent[u]
  /\ Succeed(u)
  /\ overtaken' = overtaken \ {u}
  /\ UNCHANGED <<record, unrecorded>>

\* What a pass does to the scale sets of a provider.
Reconciled(u, p) ==
  CASE p \in seen[u] -> "live"
    [] p \notin seen[u] /\ scaleset[p] = "live" -> "draining"
    [] p \notin seen[u] /\ scaleset[p] = "empty" -> "none"
    [] OTHER -> scaleset[p]

\* _reconcile_garm_state: a login with other credentials than those of the first
\* run fails, and a pass that fails on the way does not know what survives.
Reconcile(u) ==
  /\ pc[u] = "ready" /\ ~(seen[u] = {} /\ silent[u])
  /\ \E reached \in SUBSET Providers, complete \in BOOLEAN :
       /\ complete => reached = Providers
       /\ Visible(u) # initialised => reached = {}
       /\ scaleset' = [p \in Providers |-> IF p \in reached THEN Reconciled(u, p)
                                           ELSE scaleset[p]]
       /\ known' = [known EXCEPT ![u] = complete]
       /\ surviving' = [surviving EXCEPT ![u] =
            IF complete THEN {p \in Providers : Reconciled(u, p) # "none"} ELSE {}]
  /\ GoTo(u, "reconciled")
  /\ UNCHANGED <<modelVars, storeVars, initialised, running, minted, seen, silent, passes,
                 gone, historyVars>>

\* Seeded fault: an unknown outcome is read as "no scale set names a provider".
TrimmedWhenUnknown(u) == running[u] \intersect (seen[u] \union surviving[u])

\* _trimmed_providers
Trimmed(u) ==
  IF known[u] THEN running[u] \intersect (seen[u] \union surviving[u]) ELSE running[u]

\* _save_provider_record, which only the leader does; then the hook ends.
Save(u) ==
  /\ pc[u] = "reconciled"
  /\ record' = IF leader = u THEN Trimmed(u) ELSE record
  /\ unrecorded' = CASE leader # u -> unrecorded \union seen[u]
                      [] leader = u /\ u \in overtaken -> (unrecorded \union record) \ record'
                      [] OTHER -> unrecorded \ record'
  /\ overtaken' = (overtaken \union {v \in Units : leader = u /\ InHook(v)}) \ {u}
  /\ Succeed(u)

-----------------------------------------------------------------------------
(* _on_remove, with no unit planned any more.  Juju has taken the relations *)
(* away before it removes a unit.                                          *)

Leave(u) == /\ gone' = gone \union {u} /\ GoTo(u, "idle")
            /\ UNCHANGED <<modelVars, storeVars, garmVars, hookVars, orphaned, unrecorded, overtaken>>

RemovalDue(u) ==
  /\ removing /\ pc[u] = "idle" /\ u \notin gone
  /\ ~postgres /\ \A p \in Providers : relation[p] = "none"

\* Another unit leads, or GARM answers that it was never initialised.
LeaveAtOnce(u) ==
  /\ RemovalDue(u)
  /\ leader # u \/ initialised = 0
  /\ skipped' = (skipped \/ (leader # u /\ Units \subseteq gone \union {u}))
  /\ Leave(u)
  /\ UNCHANGED passes

\* GARM does not answer and no database is configured.
LeaveUnreached(u) ==
  /\ RemovalDue(u) /\ leader = u
  /\ skipped' = TRUE
  /\ Leave(u)
  /\ UNCHANGED passes

\* GARM answers, and the stored credentials are those it knows.
StartCleanup(u) ==
  /\ RemovalDue(u) /\ leader = u
  /\ initialised # 0 /\ secret = initialised
  /\ GoTo(u, "cleaning") /\ passes' = 0
  /\ UNCHANGED <<modelVars, storeVars, garmVars, hookVars, gone, historyVars>>

\* _drain_scaleset: disable, ask for the deletion of the instances, delete when empty.
Swept(p) == CASE scaleset[p] = "live" -> "draining"
              [] scaleset[p] = "empty" -> "none"
              [] OTHER -> scaleset[p]

\* Seeded fault: a scale set whose instances are still going does not count as pending.
PendingIfRefused(reached) == \E p \in InUse : p \notin reached

\* A scale set is pending unless this pass has deleted it.
Pending(reached) == \E p \in InUse : ~(p \in reached /\ Swept(p) = "none")

Expired == passes = MaxPasses

\* run and _drain_pass: until nothing is pending, the deadline raises an error.
CleanupPass(u) ==
  /\ pc[u] = "cleaning"
  /\ \E reached \in SUBSET InUse :
       /\ scaleset' = [p \in Providers |-> IF p \in reached THEN Swept(p) ELSE scaleset[p]]
       /\ IF Pending(reached)
          THEN /\ passes' = IF Expired THEN 0 ELSE passes + 1
               /\ GoTo(u, IF Expired THEN "idle" ELSE "cleaning")
               /\ UNCHANGED gone
          ELSE gone' = gone \union {u} /\ GoTo(u, "idle") /\ passes' = 0
  /\ UNCHANGED <<modelVars, storeVars, initialised, running, hookVars, historyVars>>

UnitStep(u) ==
  \/ Dispatch(u) \/ NotReady(u) \/ Replan(u) \/ FirstRun(u) \/ Wait(u) \/ Reconcile(u)
  \/ Save(u) \/ Rollback(u)
  \/ LeaveAtOnce(u) \/ LeaveUnreached(u) \/ StartCleanup(u) \/ CleanupPass(u)

-----------------------------------------------------------------------------
(* Juju, the operator and GARM.                                            *)

Elect(u) ==
  /\ u \notin gone \union {leader}
  /\ leader' = u
  /\ UNCHANGED <<relation, edits, postgres, removing, storeVars, garmVars, pc, hookVars,
                 passes, gone, historyVars>>

\* A configurator joins, publishes, loses its unit, or its relation is removed.
ChangeRelation(p, phase) ==
  /\ IF removing THEN phase = "none" /\ edits' = edits
                 ELSE edits < MaxEdits /\ edits' = edits + 1
  /\ relation[p] # phase
  /\ relation' = [relation EXCEPT ![p] = phase]
  /\ UNCHANGED <<leader, postgres, removing, storeVars, garmVars, pc, hookVars, passes, gone,
                 historyVars>>

ChangePostgres ==
  /\ removing => postgres
  /\ postgres' = ~postgres
  /\ UNCHANGED <<leader, relation, edits, removing, storeVars, garmVars, pc, hookVars, passes,
                 gone, historyVars>>

RemoveApplication ==
  /\ ~removing /\ removing' = TRUE
  /\ UNCHANGED <<leader, relation, edits, postgres, storeVars, garmVars, pc, hookVars, passes,
                 gone, historyVars>>

\* The pod is replaced: its GARM process is gone until the next hook starts one.
PodReplaced(u) ==
  /\ pc[u] = "idle" /\ running[u] # {}
  /\ running' = [running EXCEPT ![u] = {}]
  /\ UNCHANGED <<modelVars, storeVars, initialised, scaleset, pc, hookVars, passes, gone,
                 historyVars>>

\* The runners of a disabled scale set are torn down by a GARM that has the provider.
Drained(p) ==
  /\ scaleset[p] = "draining" /\ \E u \in Units : p \in running[u]
  /\ scaleset' = [scaleset EXCEPT ![p] = "empty"]
  /\ UNCHANGED <<modelVars, storeVars, initialised, running, pc, hookVars, passes, gone,
                 historyVars>>

Next ==
  \/ \E u \in Units : UnitStep(u) \/ PodReplaced(u)
  \/ \E u \in Units \union {NoOne} : Elect(u)
  \/ \E p \in Providers :
       \/ Drained(p)
       \/ \E phase \in {"none", "joined", "published"} : ChangeRelation(p, phase)
  \/ ChangePostgres \/ RemoveApplication

Spec == Init /\ [][Next]_vars

-----------------------------------------------------------------------------
(* GARM is never left with credentials nobody has: the secrets of its      *)
(* first run are the stored ones, or those of a hook still running, unless *)
(* that very hook failed after GARM had taken them (_ensure_secrets,       *)
(* _maybe_first_run).                                                      *)
AdminKnown ==
  \/ initialised \in {0, secret}
  \/ \E u \in Units : initialised = minted[u]
  \/ orphaned

(* The provider of a scale set stays published: it is in the record, or in *)
(* the hook that has yet to record it, in whose GARM it runs.  What breaks *)
(* this is only a hook that ends without recording - one that fails, or a  *)
(* non-leader's - and one that became leader after it had read the record  *)
(* (_published_providers, _trimmed_providers, _save_provider_record).      *)
ProviderHeld ==
  \A p \in InUse :
    \/ p \in record \union unrecorded
    \/ \E u \in Units : pc[u] = "reconciled" /\ p \in seen[u] \intersect running[u]

(* Once every unit is removed, no scale set is left in GARM, unless the    *)
(* leader took an unreachable GARM for one that was never initialised, or  *)
(* the last unit did not lead (_on_remove, GarmResourceCleanup.run).       *)
RemovedClean ==
  (gone = Units /\ ~skipped) => InUse = {}

(* A configurator that is related and says nothing costs it no scale set   *)
(* (the comment in restart).                                               *)
SilenceSpares ==
  [][\A u \in Units, p \in Providers :
       (Reconcile(u) /\ relation[p] = "joined" /\ scaleset[p] = "live")
         => scaleset'[p] = "live"]_vars

=============================================================================
