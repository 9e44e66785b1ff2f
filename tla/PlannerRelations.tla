-------------------------- MODULE PlannerRelations --------------------------
(* The planner charm reconciles, on every hook of its leader, what the      *)
(* planner's database holds for the applications related to it: one auth    *)
(* token per relation, delivered through a secret, and the flavors the      *)
(* relations declare.  The planner keeps what each API call did; a secret   *)
(* or a relation's data written by a hook exists only when the hook ends    *)
(* without an error.                                                        *)
EXTENDS Naturals, FiniteSets, FiniteSetsExt

CONSTANTS
  MaxRel,      \* relations 1 .. MaxRel, in the order Juju lists them
  Flavors,     \* flavor names
  Configs,     \* platform, labels, priority, minimum_pressure of a flavor
  Lower(_),    \* the configuration the database stores for one it is sent
  Absent, Nothing, Invalid,
  MaxEdits,    \* changes of the declarations
  MaxFaults    \* API calls and secret operations that fail, hooks killed

Relations == 1 .. MaxRel
Declarations == [flavor : Flavors, cfg : Configs] \union {Nothing, Invalid}

ASSUME RelationsAssumption == MaxRel \in Nat
ASSUME ConfigAssumption ==
  /\ \A c \in Configs : Lower(c) \in Configs /\ Lower(Lower(c)) = Lower(c)
  /\ Absent \notin [cfg : Configs, disabled : BOOLEAN] \union Declarations
  /\ Nothing \notin Configs
  /\ {Nothing, Invalid} \intersect [flavor : Flavors, cfg : Configs] = {}
  /\ Nothing # Invalid
ASSUME BoundsAssumption == MaxEdits \in Nat /\ MaxFaults \in Nat

VARIABLES
  rel,         \* "none", "empty" (no remote data yet), "ready" or "gone"
  decl,        \* what the remote application declares
  setup,       \* "ready", "waiting" (is_ready() is false) or "blocked" (no admin token)
  due,         \* an event the charm observes has not been handled
  token,       \* relations with a row "relation-<id>" in the auth table
  secret,      \* relations with a secret that holds their token
  sent,        \* relations whose data names their secret
  flavors,     \* the flavor table
  pc,          \* "idle" or the part of the hook that runs
  view,        \* the declarations of the relations with data, as the hook sees them
  known,       \* existing_tokens
  todo,        \* relations or orphans still to be gone through
  fresh,       \* credentials the hook has created, not yet committed
  plan,        \* what is left to do with each flavor
  edits, faults,
  lost,        \* relations whose creation of credentials failed or was undone
  held         \* flavors that were as declared when the operator last disabled them

worldVars == <<rel, decl, setup>>
juju      == <<secret, sent>>
planner   == <<token, flavors>>
hookVars  == <<pc, view, known, todo, fresh, plan>>
vars == <<worldVars, due, juju, planner, hookVars, edits, faults, lost, held>>

-----------------------------------------------------------------------------
(* What the relations declare.                                             *)

\* Relations without remote data are left out: "none", "empty" and "gone".
Seen == [r \in Relations |-> IF rel[r] = "ready" THEN decl[r] ELSE Absent]
Listed(v) == {r \in Relations : v[r] # Absent}

\* wanted_flavors: of two relations that declare a name, the later one counts.
Declaring(v, f) == {r \in Relations : v[r] \in [flavor : {f}, cfg : Configs]}
Wanted(v, f) == IF Declaring(v, f) = {} THEN Nothing ELSE v[Max(Declaring(v, f))].cfg

\* Seeded fault: a disabled flavor does not match the declared one.
Matches_Enabled(f, c) ==
  flavors[f] # Absent /\ flavors[f].cfg = c /\ ~flavors[f].disabled

\* _flavor_matches: everything but is_disabled.
Matches(f, c) == flavors[f] # Absent /\ flavors[f].cfg = c

\* Seeded fault: flavors no relation declares any more are left in place.
FlavorPlan_KeepsStale(v) ==
  [f \in Flavors |->
     IF Wanted(v, f) = Nothing \/ Matches(f, Wanted(v, f)) THEN "keep"
     ELSE IF flavors[f] = Absent THEN "create" ELSE "replace"]

\* _sync_managed_flavors, from one listing of the table.
FlavorPlan(v) ==
  [f \in Flavors |->
     IF Wanted(v, f) = Nothing THEN IF flavors[f] = Absent THEN "keep" ELSE "drop"
     ELSE CASE Matches(f, Wanted(v, f)) -> "keep"
            [] flavors[f] = Absent      -> "create"
            [] OTHER                    -> "replace"]

\* Seeded fault: only the credentials created by this hook count.
Orphans_FreshOnly(names, v) == names \ fresh

\* Seeded fault: a relation that has lost its data still counts.
Orphans_AnyRelation(names, v) == names \ {r \in Relations : rel[r] # "none"}

\* existing_tokens - reconciled: every listed relation counts as reconciled,
\* also one whose credentials could not be created.
Orphans(names, v) == names \ Listed(v)

-----------------------------------------------------------------------------
Init ==
  /\ rel = [r \in Relations |-> "none"]
  /\ decl = [r \in Relations |-> Nothing]
  /\ setup \in {"ready", "waiting", "blocked"}
  /\ due = TRUE
  /\ token = {} /\ secret = {} /\ sent = {}
  /\ flavors = [f \in Flavors |-> Absent]
  /\ pc = "idle" /\ view = [r \in Relations |-> Absent]
  /\ known = {} /\ todo = {} /\ fresh = {}
  /\ plan = [f \in Flavors |-> "keep"]
  /\ edits = 0 /\ faults = 0
  /\ lost = {} /\ held = {}

-----------------------------------------------------------------------------
(* The planner's API as the charm uses it.                                 *)

CreateAuthToken(r) == token' = token \union {r}

DeleteAuthToken(r) == token' = token \ {r}

\* Labels are stored in lower case; an existing flavor stays as it is, and the
\* charm takes the conflict for success.
CreateFlavor(f, c) ==
  flavors' = IF flavors[f] # Absent THEN flavors
             ELSE [flavors EXCEPT ![f] = [cfg |-> Lower(c), disabled |-> FALSE]]

DeleteFlavor(f) == flavors' = [flavors EXCEPT ![f] = Absent]

UpdateFlavor(f, off) == flavors' = [flavors EXCEPT ![f].disabled = off]

-----------------------------------------------------------------------------
(* The world: relations, their data, the operator.                         *)

\* A flavor is no longer held once what is declared for it changes.
Redeclare(newRel, newDecl) ==
  LET now == [r \in Relations |-> IF newRel[r] = "ready" THEN newDecl[r] ELSE Absent]
  IN /\ rel' = newRel
     /\ decl' = newDecl
     /\ held' = {f \in held : Wanted(now, f) = Wanted(Seen, f)}
     /\ due' = TRUE
     /\ edits < MaxEdits /\ edits' = edits + 1
     /\ UNCHANGED <<setup, juju, planner, hookVars, faults, lost>>

Relate(r) ==
  /\ rel[r] = "none"
  /\ \A q \in Relations : q < r => rel[q] # "none"
  /\ Redeclare([rel EXCEPT ![r] = "empty"], decl)

\* Seeded fault: the charm does not observe relation_changed.
Declare_Unobserved(r) ==
  /\ rel[r] \in {"empty", "ready"} /\ edits < MaxEdits
  /\ \E d \in Declarations :
       /\ rel' = [rel EXCEPT ![r] = "ready"]
       /\ decl' = [decl EXCEPT ![r] = d]
  /\ edits' = edits + 1
  /\ held' = {}
  /\ UNCHANGED <<setup, due, juju, planner, hookVars, faults, lost>>

\* The remote application fills in its data, or changes what it declares.
Declare(r) ==
  /\ rel[r] \in {"empty", "ready"}
  /\ \E d \in Declarations :
       Redeclare([rel EXCEPT ![r] = "ready"], [decl EXCEPT ![r] = d])

Break(r) ==
  /\ rel[r] \in {"empty", "ready"}
  /\ Redeclare([rel EXCEPT ![r] = "gone"], decl)

\* The workload's own conditions and the configuration change with an event
\* that restarts it.
SetUp ==
  /\ edits < MaxEdits /\ edits' = edits + 1
  /\ setup' \in {"ready", "waiting", "blocked"} \ {setup}
  /\ due' = TRUE
  /\ UNCHANGED <<rel, decl, juju, planner, hookVars, faults, lost, held>>

\* The actions run on any unit, between any two calls of the leader's hook.
DisableFlavor(f) ==
  /\ setup # "blocked" /\ flavors[f] # Absent /\ ~flavors[f].disabled
  /\ UpdateFlavor(f, TRUE)
  /\ held' = IF Matches(f, Wanted(Seen, f)) THEN held \union {f} ELSE held \ {f}
  /\ UNCHANGED <<worldVars, due, juju, token, hookVars, edits, faults, lost>>

EnableFlavor(f) ==
  /\ setup # "blocked" /\ flavors[f] # Absent /\ flavors[f].disabled
  /\ UpdateFlavor(f, FALSE)
  /\ held' = held \ {f}
  /\ UNCHANGED <<worldVars, due, juju, token, hookVars, edits, faults, lost>>

World ==
  \/ \E r \in Relations : Relate(r) \/ Declare(r) \/ Break(r)
  \/ SetUp
  \/ \E f \in Flavors : DisableFlavor(f) \/ EnableFlavor(f)

-----------------------------------------------------------------------------
(* The hook, one API call per step.                                        *)

Quiet == UNCHANGED <<worldVars, edits, held>>

\* A failure spends one of the bounded faults.
Fault == faults < MaxFaults /\ faults' = faults + 1

\* Juju discards what the hook wrote, and runs the hook again.
Undo(created) ==
  /\ pc' = "idle" /\ due' = TRUE
  /\ lost' = lost \union created
  /\ fresh' = {}
  /\ UNCHANGED <<juju, flavors, view, known, todo, plan>>

\* A hook for an event; other hooks (ingress, configuration) may run at any time.
Begin ==
  /\ pc = "idle"
  /\ due' = FALSE
  /\ IF setup = "ready"
       THEN /\ pc' = "relations"
            /\ view' = Seen
            /\ known' = token
            /\ todo' = Listed(Seen)
            /\ fresh' = {}
            /\ plan' = [f \in Flavors |-> "keep"]
       ELSE UNCHANGED hookVars   \* nothing is reconciled
  /\ Quiet /\ UNCHANGED <<juju, planner, faults, lost>>

Current == Min(todo)

\* The relation has a token, or gets one together with its secret.
ReconcileRelation ==
  /\ pc = "relations" /\ todo # {}
  /\ view[Current] # Invalid
  /\ todo' = todo \ {Current}
  /\ IF Current \in known
       THEN UNCHANGED <<token, fresh, lost, faults>>
       ELSE \/ /\ CreateAuthToken(Current)
               /\ fresh' = fresh \union {Current}
               /\ UNCHANGED <<lost, faults>>
            \* The call or the secret fails; the relation is skipped.
            \/ /\ Fault
               /\ token' \in {token, token \union {Current}}
               /\ lost' = lost \union {Current}
               /\ UNCHANGED fresh
  /\ Quiet /\ UNCHANGED <<due, juju, flavors, pc, view, known, plan>>

\* An integer that does not parse is an error no one catches; it is found after
\* the relation's credentials have been created.
RejectDeclaration ==
  /\ pc = "relations" /\ todo # {}
  /\ view[Current] = Invalid
  /\ CreateAuthToken(Current)
  /\ Undo(fresh \union ({Current} \ known)) /\ Quiet /\ UNCHANGED faults

ListFlavors ==
  /\ pc = "relations" /\ todo = {}
  /\ pc' = "flavors"
  /\ plan' = FlavorPlan(view)
  /\ Quiet /\ UNCHANGED <<due, juju, planner, view, known, todo, fresh, faults, lost>>

\* What the relations declare comes first, the flavors of no relation last.
SyncFlavor(f) ==
  /\ pc = "flavors"
  /\ \/ /\ plan[f] = "replace"
        /\ DeleteFlavor(f)
        /\ plan' = [plan EXCEPT ![f] = "create"]
     \/ /\ plan[f] = "create"
        /\ CreateFlavor(f, Wanted(view, f))
        /\ plan' = [plan EXCEPT ![f] = "keep"]
     \/ /\ plan[f] = "drop"
        /\ \A g \in Flavors : plan[g] \in {"keep", "drop"}
        /\ DeleteFlavor(f)
        /\ plan' = [plan EXCEPT ![f] = "keep"]
  /\ Quiet /\ UNCHANGED <<due, juju, token, pc, view, known, todo, fresh, faults, lost>>

FindOrphans ==
  /\ pc = "flavors" /\ \A f \in Flavors : plan[f] = "keep"
  /\ pc' = "orphans"
  /\ todo' = Orphans(known, view)
  /\ Quiet /\ UNCHANGED <<due, juju, planner, view, known, fresh, plan, faults, lost>>

\* The secret goes when the hook ends, the token at once.
DeleteOrphan(r) ==
  /\ pc = "orphans" /\ r \in todo
  /\ DeleteAuthToken(r)
  /\ todo' = todo \ {r}
  /\ Quiet /\ UNCHANGED <<due, juju, flavors, pc, view, known, fresh, plan, faults, lost>>

\* Juju takes over what the hook wrote.
Commit ==
  /\ pc = "orphans" /\ todo = {}
  /\ pc' = "idle"
  /\ secret' = (secret \union fresh) \ Orphans(known, view)
  /\ sent' = sent \union fresh
  /\ fresh' = {}
  /\ Quiet /\ UNCHANGED <<due, planner, view, known, todo, plan, faults, lost>>

\* A refused call outside the relation's own try, or a killed hook.
Crash ==
  /\ pc # "idle"
  /\ Fault /\ Undo(fresh) /\ Quiet /\ UNCHANGED token

Hook ==
  \/ ReconcileRelation \/ RejectDeclaration
  \/ ListFlavors \/ (\E f \in Flavors : SyncFlavor(f))
  \/ FindOrphans \/ (\E r \in Relations : DeleteOrphan(r)) \/ Commit

Next == World \/ Begin \/ Hook \/ Crash

Spec == Init /\ [][Next]_vars

\* An event is handled, and a hook that runs comes to its end.  Nothing is
\* assumed of the hooks that no event calls for.
FairSpec == Spec /\ WF_vars(due /\ Begin) /\ WF_vars(Hook)

-----------------------------------------------------------------------------
(* Properties.                                                             *)

\* The types of the state, and what a hook holds only while it runs.
TypeOK ==
  /\ rel \in [Relations -> {"none", "empty", "ready", "gone"}]
  /\ decl \in [Relations -> Declarations]
  /\ setup \in {"ready", "waiting", "blocked"} /\ due \in BOOLEAN
  /\ token \subseteq Relations /\ secret \subseteq Relations /\ sent \subseteq Relations
  /\ flavors \in [Flavors -> [cfg : Configs, disabled : BOOLEAN] \union {Absent}]
  /\ pc \in {"idle", "relations", "flavors", "orphans"}
  /\ view \in [Relations -> Declarations \union {Absent}]
  /\ known \subseteq Relations /\ todo \subseteq Relations /\ fresh \subseteq Relations
  /\ plan \in [Flavors -> {"keep", "create", "replace", "drop"}]
  /\ edits \in 0 .. MaxEdits /\ faults \in 0 .. MaxFaults
  /\ lost \subseteq Relations /\ held \subseteq Flavors
  /\ pc = "idle" => fresh = {}

\* A relation that was given a token keeps it: no cleanup, failed hook or hook
\* that saw an older state removes the token or its secret while it is related.
TokenKept ==
  \A r \in sent : rel[r] # "gone" => r \in token /\ r \in secret

Off(f) == flavors[f] # Absent /\ flavors[f].disabled

\* A flavor that was as declared when the operator disabled it stays disabled
\* until the operator enables it or its declaration changes, through hooks that
\* fail and hooks that started before.  One hook alone may undo the disabling:
\* the one still running on an older declaration of the flavor, which deletes
\* it, or creates it again enabled.
DisableKept ==
  [][\A f \in held \intersect held' :
       Off(f) /\ ~Off(f)' => pc = "flavors" /\ Wanted(view, f) # Wanted(Seen, f)]_vars

Valid == setup = "ready" /\ \A r \in Relations : Seen[r] # Invalid

\* A relation that stays gets its token, unless a call or a secret failed when
\* its credentials were created, or the hook that created them failed later.
Delivered ==
  <>[]Valid => \A r \in Relations : <>[](rel[r] = "ready" => r \in sent \union lost)

\* The token of a relation that ended is revoked, also when the relation ended
\* during the hook that created it or when hooks failed in between.
Revoked ==
  <>[]Valid => \A r \in Relations : <>[](rel[r] = "gone" => r \notin token)

\* The table ends up with what the relations declare and nothing else, whichever
\* of its calls failed; labels with capitals are rewritten by every hook.
FlavorsFollow ==
  <>[]Valid => \A f \in Flavors :
    LET want == Wanted(Seen, f)
    IN <>[](\/ want # Nothing /\ Lower(want) # want
            \/ IF want = Nothing THEN flavors[f] = Absent ELSE Matches(f, want))

=============================================================================
