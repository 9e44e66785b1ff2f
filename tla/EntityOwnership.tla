--------------------------- MODULE EntityOwnership ---------------------------
(***************************************************************************)
(* What a pass of the GARM charm does before and around the scale sets:    *)
(* the garm-agent binaries it publishes (agent_tools.py), the GitHub       *)
(* credentials (github_reconciler.py) and the organizations and            *)
(* repositories registered with them (entity_reconciler.py).  Every unit   *)
(* runs passes, all of them against one GARM database, and whoever         *)
(* administers GARM creates credentials and entities of their own there.   *)
(*                                                                         *)
(* Nothing records what the charm created.  A credential is the charm's    *)
(* when its description says so; an entity when the credential it is bound *)
(* to is.  A pass plans from listings that other units and the             *)
(* administrator may have made stale when its calls arrive.                *)
(*                                                                         *)
(* Organizations and repositories go through the same code one after the   *)
(* other and are not told apart; the id of a record is taken to be its     *)
(* name.  The reconciliation of the scale sets is one step, detailed by    *)
(* ScalesetReconciler.                                                     *)
(***************************************************************************)
EXTENDS Naturals

CONSTANTS Units,       \* units of the charm
          Creds,       \* credential names, app-<app_id>-<installation_id>
          Contested,   \* those of these names an administrator may use as well
          Ents,        \* organizations and repositories
          Arches,      \* architectures named by the manifest of the rock
          Nothing,     \* no credential: the entity is not wanted, or not registered
          MaxEdits     \* bound on the edits of relation data and of GARM by hand

ASSUME OwnershipAssumption ==
  /\ Nothing \notin Creds /\ Contested \subseteq Creds
  /\ Creds \intersect Ents = {}
  /\ MaxEdits \in Nat

VARIABLES
  wants,       \* the credential the relations ask for, per entity
  edits,       \* edits so far
  description, \* of each credential in GARM: "managed" (the charm's marker),
               \* "blank", "foreign" (an administrator's text), or "absent"
  binding,     \* the credential each registered entity is bound to
  agent,       \* entities in agent mode
  hosted,      \* the scale sets under each entity: "none", "live", "draining", "empty"
  published,   \* architectures whose agent binary GARM stores
  healthy,     \* every call is answered, every secret and binary is readable
  pc,          \* where each unit's pass is
  spec,        \* desired_entities of the pass
  keys,        \* the desired credentials of the pass: those whose key was readable
  agentMode,   \* the pass may switch agent mode on
  plan,        \* calls the pass has decided on and not made yet
  seen,        \* creds_by_id: the descriptions _is_managed looks at
  theirs       \* history: what was an administrator's when the pass began

relationVars == <<wants, edits>>
recordVars == <<description, binding, agent>>
garmVars == <<recordVars, hosted, published, healthy>>
passVars == <<pc, spec, keys, agentMode, plan, seen>>
vars == <<relationVars, garmVars, passVars, theirs>>

Nowhere == [e \in Ents |-> Nothing]
Unseen == [c \in Creds |-> "absent"]
Known(c) == description[c] # "absent"
Registered(e) == binding[e] # Nothing
WantedBy(w) == {w[e] : e \in Ents} \ {Nothing}

Calls == ({"upload"} \X Arches) \union ({"create", "update", "delete"} \X Creds)
         \union ({"register", "rebind", "agent", "remove"} \X Ents)

\* GARM holds no dangling reference: deletes and binds that would leave one are
\* refused.
RecordsOK ==
  /\ wants \in [Ents -> Creds \union {Nothing}]
  /\ edits \in 0..MaxEdits
  /\ description \in [Creds -> {"absent", "managed", "blank", "foreign"}]
  /\ binding \in [Ents -> Creds \union {Nothing}]
  /\ \A e \in Ents : Registered(e) => Known(binding[e])
  /\ agent \subseteq {e \in Ents : Registered(e)}
  /\ hosted \in [Ents -> {"none", "live", "draining", "empty"}]
  /\ \A e \in Ents : hosted[e] # "none" => Registered(e)
  /\ published \subseteq Arches
  /\ healthy \in BOOLEAN

PassesOK ==
  /\ pc \in [Units -> {"idle", "tools", "credentials", "owners", "entities"}]
  /\ spec \in [Units -> [Ents -> Creds \union {Nothing}]]
  /\ keys \in [Units -> SUBSET Creds]
  /\ \A u \in Units : keys[u] \subseteq WantedBy(spec[u])
  /\ agentMode \in [Units -> BOOLEAN]
  /\ plan \in [Units -> SUBSET Calls]
  /\ seen \in [Units -> [Creds -> {"absent", "managed", "blank", "foreign"}]]
  /\ theirs \in [Units -> SUBSET (Creds \union Ents)]

\* The types of the state, and what refers to what.
TypeOK == RecordsOK /\ PassesOK

\* Before the first pass: relations may be there already, and GARM may hold what
\* an administrator put there.
Init ==
  /\ wants \in [Ents -> Creds \union {Nothing}] /\ edits = 0
  /\ description \in [Creds -> {"absent", "blank", "foreign"}]
  /\ \A c \in Creds : Known(c) => c \in Contested
  /\ binding \in [Ents -> Creds \union {Nothing}]
  /\ \A e \in Ents : Registered(e) => Known(binding[e])
  /\ agent = {}
  /\ hosted = [e \in Ents |-> "none"] /\ published = {} /\ healthy = TRUE
  /\ pc = [u \in Units |-> "idle"] /\ spec = [u \in Units |-> Nowhere]
  /\ keys = [u \in Units |-> {}] /\ agentMode = [u \in Units |-> FALSE]
  /\ plan = [u \in Units |-> {}] /\ seen = [u \in Units |-> Unseen]
  /\ theirs = [u \in Units |-> {}]

-----------------------------------------------------------------------------
(* The history: what carries an administrator's description, directly or   *)
(* through its credential, as long as nobody else changes that.            *)

Foreign == {c \in Creds : description[c] = "foreign"}
           \union {e \in Ents : Registered(e) /\ description[binding[e]] = "foreign"}

Untouched ==
  {c \in Creds : description'[c] = description[c]}
  \union {e \in Ents : binding'[e] = binding[e]
                       /\ (Registered(e) => description'[binding[e]] = description[binding[e]])}

Watch == theirs' = [u \in Units |-> theirs[u] \intersect Untouched]
Rewatch(u) == theirs' = [theirs EXCEPT ![u] = Foreign]

-----------------------------------------------------------------------------
(* The pass of a unit.                                                     *)

GoTo(u, step, calls) == pc' = [pc EXCEPT ![u] = step] /\ plan' = [plan EXCEPT ![u] = calls]

\* The hook ends, and with it all the pass knew.
Leave(u) ==
  /\ GoTo(u, "idle", {})
  /\ spec' = [spec EXCEPT ![u] = Nowhere]
  /\ keys' = [keys EXCEPT ![u] = {}]
  /\ agentMode' = [agentMode EXCEPT ![u] = FALSE]
  /\ seen' = [seen EXCEPT ![u] = Unseen]
  /\ theirs' = [theirs EXCEPT ![u] = {}]

\* CharmState.from_charm and _build_desired_credentials, which skips a unit
\* whose private key cannot be read; then the manifest and the listing of the
\* published binaries.  Without the manifest agent mode is left alone.
StartPass(u) ==
  /\ pc[u] = "idle"
  /\ spec' = [spec EXCEPT ![u] = wants]
  /\ \E read \in SUBSET WantedBy(wants), manifest \in BOOLEAN :
       /\ healthy => read = WantedBy(wants) /\ manifest
       /\ keys' = [keys EXCEPT ![u] = read]
       /\ agentMode' = [agentMode EXCEPT ![u] = manifest]
       /\ GoTo(u, "tools", IF manifest THEN {"upload"} \X (Arches \ published) ELSE {})
  /\ Rewatch(u)
  /\ UNCHANGED <<relationVars, garmVars, seen>>

\* A call of the plan has been made.
Done(u, call) ==
  /\ plan' = [plan EXCEPT ![u] = @ \ {call}]
  /\ UNCHANGED <<pc, spec, keys, agentMode, seen>>

Upload(u, a) ==
  /\ <<"upload", a>> \in plan[u] /\ healthy
  /\ published' = published \union {a}
  /\ Done(u, <<"upload", a>>)
  /\ UNCHANGED <<relationVars, recordVars, hosted, healthy, theirs>>

\* Seeded fault: a missing binary is skipped and agent mode switched on.
BinaryUnreadableModeKept(u) ==
  /\ pc[u] = "tools" /\ plan[u] # {} /\ ~healthy
  /\ plan' = [plan EXCEPT ![u] = {}]
  /\ UNCHANGED <<relationVars, garmVars, pc, spec, keys, agentMode, seen, theirs>>

\* AgentToolsError: the binary is not in the workload container.
BinaryUnreadable(u) ==
  /\ pc[u] = "tools" /\ plan[u] # {} /\ ~healthy
  /\ agentMode' = [agentMode EXCEPT ![u] = FALSE]
  /\ plan' = [plan EXCEPT ![u] = {}]
  /\ UNCHANGED <<relationVars, garmVars, pc, spec, keys, seen, theirs>>

\* _reconcile_credentials: what to create, to adopt (a blank description is
\* unclaimed; the update writes the marker) and to delete.
CredentialCalls(u) ==
  ({"create"} \X {c \in keys[u] : ~Known(c)})
  \union ({"update"} \X {c \in keys[u] : description[c] = "blank"})
  \union ({"delete"} \X {c \in Creds \ keys[u] : description[c] = "managed"})

ListCredentials(u) ==
  /\ pc[u] = "tools" /\ plan[u] = {} /\ healthy
  /\ GoTo(u, "credentials", CredentialCalls(u))
  /\ keys' = [keys EXCEPT ![u] = {}]
  /\ UNCHANGED <<relationVars, garmVars, spec, agentMode, seen, theirs>>

\* Deletes come after every create and update.
Turn(u, call, deletes) ==
  /\ call \in plan[u]
  /\ call[1] \in deletes => \A other \in plan[u] : other[1] \in deletes

\* GARM rejects a second credential of one name, and an update of none.
Accepted(op, c) == IF op = "create" THEN ~Known(c) ELSE Known(c)

WriteCredential(u, c) ==
  \E op \in {"create", "update"} :
    /\ <<op, c>> \in plan[u] /\ healthy /\ Accepted(op, c)
    /\ description' = [description EXCEPT ![c] = "managed"]
    /\ Done(u, <<op, c>>)
    /\ UNCHANGED <<relationVars, binding, agent, hosted, published, healthy>>
    /\ Watch

\* A refused create or update is not caught: the pass ends.
CredentialRefused(u, c) ==
  \E op \in {"create", "update"} :
    /\ <<op, c>> \in plan[u] /\ healthy /\ ~Accepted(op, c)
    /\ Leave(u)
    /\ UNCHANGED <<relationVars, garmVars>>

\* GARM rejects the delete of a credential an entity is bound to; a rejected
\* delete is caught and left to a later pass.
DeleteCredential(u, c) ==
  /\ Turn(u, <<"delete", c>>, {"delete"})
  /\ IF healthy /\ Known(c) /\ \A e \in Ents : binding[e] # c
     THEN description' = [description EXCEPT ![c] = "absent"]
     ELSE UNCHANGED description
  /\ Done(u, <<"delete", c>>)
  /\ UNCHANGED <<relationVars, binding, agent, hosted, published, healthy>>
  /\ Watch

\* EntityReconciler.reconcile lists the credentials again, ...
ListOwners(u) ==
  /\ pc[u] = "credentials" /\ plan[u] = {} /\ healthy
  /\ seen' = [seen EXCEPT ![u] = description]
  /\ GoTo(u, "owners", {})
  /\ UNCHANGED <<relationVars, garmVars, spec, keys, agentMode, theirs>>

\* Seeded fault: an entity bound to an administrator's credential is rebound too.
RebindsAny(u, e) == binding[e] # spec[u][e]

\* _needs_credential_update: a credential the listing does not have, or the
\* charm's own, may be replaced.
Rebinds(u, e) ==
  /\ binding[e] # spec[u][e] \/ seen[u][binding[e]] = "absent"
  /\ seen[u][binding[e]] \in {"absent", "managed"}

\* Seeded fault: ownership needs the credential to be desired still.
OwnedIfDesired(u, e) ==
  seen[u][binding[e]] = "managed" /\ binding[e] \in WantedBy(spec[u])

\* _is_managed
Owned(u, e) == seen[u][binding[e]] = "managed"

\* _reconcile_orgs and _reconcile_repos, with _entity_update.
EntityCalls(u) ==
  LET desired == {e \in Ents : spec[u][e] # Nothing}
      known == {e \in Ents : Registered(e)}
  IN ({"register"} \X (desired \ known))
     \union ({"rebind"} \X {e \in desired \intersect known : Rebinds(u, e)})
     \union ({"agent"} \X {e \in desired \intersect known :
                             ~Rebinds(u, e) /\ agentMode[u] /\ e \notin agent})
     \union ({"remove"} \X {e \in known \ desired : Owned(u, e)})

\* ... and then the entities.
ListEntities(u) ==
  /\ pc[u] = "owners" /\ healthy
  /\ GoTo(u, "entities", EntityCalls(u))
  /\ seen' = [seen EXCEPT ![u] = Unseen]
  /\ UNCHANGED <<relationVars, garmVars, spec, keys, agentMode, theirs>>

\* GARM wants the name to be free or taken, and the credential to exist.
EntityAccepted(u, op, e) ==
  /\ healthy
  /\ Registered(e) = (op # "register")
  /\ op # "agent" => Known(spec[u][e])

\* create_org, update_org and their twins.  An error is logged and deferred.
WriteEntity(u, e) ==
  \E op \in {"register", "rebind", "agent"} :
    /\ <<op, e>> \in plan[u]
    /\ IF EntityAccepted(u, op, e)
       THEN /\ binding' = IF op = "agent" THEN binding
                          ELSE [binding EXCEPT ![e] = spec[u][e]]
            /\ agent' = IF agentMode[u] THEN agent \union {e} ELSE agent
       ELSE UNCHANGED <<binding, agent>>
    /\ Done(u, <<op, e>>)
    /\ UNCHANGED <<relationVars, description, hosted, published, healthy>>
    /\ Watch

\* _safe_delete: rejected while a scale set is left under the entity.
RemoveEntity(u, e) ==
  /\ Turn(u, <<"remove", e>>, {"remove"})
  /\ IF healthy /\ Registered(e) /\ hosted[e] = "none"
     THEN binding' = [binding EXCEPT ![e] = Nothing] /\ agent' = agent \ {e}
     ELSE UNCHANGED <<binding, agent>>
  /\ Done(u, <<"remove", e>>)
  /\ UNCHANGED <<relationVars, description, hosted, published, healthy>>
  /\ Watch

\* What the pass leaves under each entity: a wanted scale set live, another one
\* draining, and gone once it is empty.
Reconciled(u, e) ==
  CASE spec[u][e] # Nothing /\ Registered(e) -> "live"
    [] spec[u][e] = Nothing /\ hosted[e] = "live" -> "draining"
    [] spec[u][e] = Nothing /\ hosted[e] = "empty" -> "none"
    [] OTHER -> hosted[e]

SyncScalesets(u) ==
  /\ pc[u] = "entities" /\ plan[u] = {}
  /\ \E reached \in SUBSET Ents :
       /\ healthy => reached = Ents
       /\ hosted' = [e \in Ents |-> IF e \in reached THEN Reconciled(u, e) ELSE hosted[e]]
  /\ Leave(u)
  /\ UNCHANGED <<relationVars, recordVars, published, healthy>>

\* A listing fails, a call that is not contained is refused, the hook is killed.
Abort(u) ==
  /\ pc[u] # "idle" /\ ~healthy
  /\ Leave(u)
  /\ UNCHANGED <<relationVars, garmVars>>

UnitStep(u) ==
  \/ StartPass(u) \/ BinaryUnreadable(u) \/ ListCredentials(u) \/ ListOwners(u)
  \/ ListEntities(u) \/ SyncScalesets(u)
  \/ \E a \in Arches : Upload(u, a)
  \/ \E c \in Creds : WriteCredential(u, c) \/ CredentialRefused(u, c) \/ DeleteCredential(u, c)
  \/ \E e \in Ents : WriteEntity(u, e) \/ RemoveEntity(u, e)

-----------------------------------------------------------------------------
(* Everybody else.                                                         *)

\* The configurators' relation data change.
ChangeWants(e, c) ==
  /\ edits < MaxEdits /\ wants[e] # c
  /\ edits' = edits + 1
  /\ wants' = [wants EXCEPT ![e] = c]
  /\ UNCHANGED <<garmVars, passVars, theirs>>

Edit == edits < MaxEdits /\ edits' = edits + 1

\* An administrator creates a credential, or claims one by describing it.
AdminDescribes(c, text) ==
  /\ Edit /\ description[c] # text
  /\ description' = [description EXCEPT ![c] = text]
  /\ UNCHANGED <<wants, binding, agent, hosted, published, healthy, passVars>>
  /\ Watch

\* An administrator registers an entity.
AdminRegisters(e, c) ==
  /\ Edit /\ ~Registered(e) /\ Known(c)
  /\ binding' = [binding EXCEPT ![e] = c]
  /\ UNCHANGED <<wants, description, agent, hosted, published, healthy, passVars>>
  /\ Watch

\* The last runner of a disabled scale set is gone.
Drained(e) ==
  /\ hosted[e] = "draining"
  /\ hosted' = [hosted EXCEPT ![e] = "empty"]
  /\ UNCHANGED <<relationVars, recordVars, published, healthy, passVars, theirs>>

Degrade == /\ healthy /\ healthy' = FALSE
           /\ UNCHANGED <<relationVars, recordVars, hosted, published, passVars, theirs>>

Recover == /\ ~healthy /\ healthy' = TRUE
           /\ UNCHANGED <<relationVars, recordVars, hosted, published, passVars, theirs>>

Next ==
  \/ \E u \in Units : UnitStep(u) \/ Abort(u)
  \/ \E e \in Ents : Drained(e) \/ \E c \in Creds \union {Nothing} : ChangeWants(e, c)
  \/ \E c \in Contested :
       \/ \E text \in {"blank", "foreign"} : AdminDescribes(c, text)
       \/ \E e \in Ents : AdminRegisters(e, c)
  \/ Degrade \/ Recover

Spec == Init /\ [][Next]_vars

\* Juju goes on dispatching hooks to every unit, which run to their end; a
\* disabled scale set drains.
FairSpec ==
  /\ Spec
  /\ \A u \in Units : WF_vars(UnitStep(u))
  /\ \A e \in Ents : WF_vars(Drained(e))

-----------------------------------------------------------------------------
(* Agents download from GARM: an entity in agent mode has every binary of  *)
(* the manifest published, else GARM hands its runners a github.com URL.   *)
(* An upload may be refused, a binary unreadable, the other unit ahead     *)
(* (agent_tools.py, charm._ensure_agent_tools).                            *)
AgentsServed == agent # {} => published = Arches

\* Agent mode is switched on in every entity the relations ask for, whoever it
\* belongs to: _entity_update compares it without _is_managed.
SwitchesAgentOn(u, e) == agentMode[u] /\ spec[u][e] # Nothing /\ e \notin agent

AdminStep(u) ==
  /\ theirs[u] \subseteq Untouched
  /\ \A e \in theirs[u] \intersect Ents :
       SwitchesAgentOn(u, e) \/ (e \in agent' <=> e \in agent)

(* A pass neither rewrites nor removes a credential that carried an        *)
(* administrator's description when it began, nor an entity bound to one,  *)
(* whatever was created, rebound or deleted between its listings and its   *)
(* calls (_is_charm_managed, _needs_credential_update, _is_managed).  The  *)
(* one field it ever writes there is agent mode, from off to on, of an     *)
(* entity the relations ask for; the docstring of entity_reconciler.py     *)
(* allows the charm no update of such an entity.                           *)
AdminsKept ==
  [][\A u \in Units : (UnitStep(u) /\ pc[u] # "idle") => AdminStep(u)]_vars

\* What the passes work towards: every wanted entity registered with its
\* credential and hosting, unless an administrator's credential holds it, and
\* nothing of the charm's left besides.
Settled ==
  /\ \A e \in Ents :
       IF wants[e] = Nothing
       THEN Registered(e) => description[binding[e]] # "managed"
       ELSE /\ binding[e] = wants[e] \/ (Registered(e) /\ description[binding[e]] # "managed")
            /\ e \in agent
            /\ hosted[e] = "live"
  /\ \A c \in Creds : description[c] = "managed" => c \in WantedBy(wants)

(* Once calls are answered and keys readable for good, the units' passes   *)
(* settle and stay settled: the chain scale set, entity, credential is     *)
(* torn down over several passes, each link waiting for GARM to accept the *)
(* delete, and two units with different views stop undoing each other.     *)
SettlesForGood == <>[]healthy => <>[]Settled

=============================================================================
