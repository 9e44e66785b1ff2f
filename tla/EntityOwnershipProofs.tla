------------------------ MODULE EntityOwnershipProofs ------------------------
(***************************************************************************)
(* What the passes guarantee for any number of units, credentials and      *)
(* entities: types, AgentsServed, AdminsKept.                              *)
(*                                                                         *)
(* AgentsServed rests on AgentInv: a pass that may still switch agent mode *)
(* on has every binary published or still to upload.  AdminsKept is about  *)
(* single steps, and rests on what a pass knows between its listings and   *)
(* its calls (AdminInv): what it planned to rewrite or to remove was the   *)
(* charm's or nobody's when it was listed, so it is not among what has     *)
(* been an administrator's since the pass began.                           *)
(***************************************************************************)
EXTENDS EntityOwnership, TLAPS

\* What each part of a pass may have left to call.
PlanInv ==
  \A u \in Units :
    /\ pc[u] \in {"idle", "owners"} => plan[u] = {}
    /\ pc[u] = "tools" => plan[u] \subseteq {"upload"} \X Arches
    /\ pc[u] = "credentials" => plan[u] \subseteq {"create", "update", "delete"} \X Creds
    /\ pc[u] = "entities" =>
         plan[u] \subseteq {"register", "rebind", "agent", "remove"} \X Ents
    /\ \A e \in Ents :
         \/ <<"register", e>> \in plan[u]
         \/ <<"rebind", e>> \in plan[u]
         \/ <<"agent", e>> \in plan[u]
         => spec[u][e] # Nothing

\* A pass that may switch agent mode on has every binary published or to upload.
AgentInv ==
  /\ AgentsServed
  /\ \A u \in Units : \A a \in Arches :
       agentMode[u] => a \in published \/ (pc[u] = "tools" /\ <<"upload", a>> \in plan[u])

\* What has been an administrator's since the pass began is described as such,
\* the second listing shows it, and no call of the plan is about it.
AdminInv ==
  \A u \in Units :
    /\ \A c \in Creds : c \in theirs[u] => description[c] = "foreign"
    /\ \A e \in Ents : e \in theirs[u] => Registered(e) /\ description[binding[e]] = "foreign"
    /\ \A c \in Creds : <<"update", c>> \in plan[u] \/ <<"delete", c>> \in plan[u] =>
         c \notin theirs[u] /\ \A e \in Ents : e \in theirs[u] => binding[e] # c
    /\ pc[u] = "owners" => \A e \in Ents : e \in theirs[u] => seen[u][binding[e]] = "foreign"
    /\ \A e \in Ents : <<"rebind", e>> \in plan[u] \/ <<"remove", e>> \in plan[u] =>
         e \notin theirs[u]

IInv == TypeOK /\ PlanInv /\ AgentInv /\ AdminInv

USE DEF relationVars, recordVars, garmVars, passVars

-----------------------------------------------------------------------------
(* The invariant.                                                          *)

LEMMA InitInv == Init => IInv
<1> SUFFICES ASSUME Init PROVE IInv
  OBVIOUS
<1>1. TypeOK
  BY OwnershipAssumption DEF Init, TypeOK, RecordsOK, PassesOK, Nowhere, Unseen,
         WantedBy, Known, Registered
<1>2. PlanInv /\ AgentInv /\ AdminInv
  BY DEF Init, PlanInv, AgentInv, AgentsServed, AdminInv
<1> QED BY <1>1, <1>2 DEF IInv

\* Each step of a pass keeps the invariant.
LEMMA PassKeeps == \A u \in Units : IInv /\ (UnitStep(u) \/ Abort(u)) => IInv'
<1>1. ASSUME NEW u \in Units, StartPass(u), TypeOK, PlanInv, AgentInv, AdminInv
      PROVE  IInv'
  <2>1. RecordsOK'
    BY <1>1, OwnershipAssumption DEF StartPass, GoTo, Rewatch, Foreign, TypeOK,
           RecordsOK, PlanInv, PassesOK, Known, Registered
  <2>2. PassesOK'
    <3>1. PICK read \in SUBSET WantedBy(wants), manifest \in BOOLEAN :
            /\ keys' = [keys EXCEPT ![u] = read]
            /\ agentMode' = [agentMode EXCEPT ![u] = manifest]
            /\ GoTo(u, "tools", IF manifest THEN {"upload"} \X (Arches \ published) ELSE {})
      BY <1>1 DEF StartPass
    <3>2. read \subseteq Creds /\ wants \in [Ents -> Creds \union {Nothing}]
      BY <1>1 DEF WantedBy, TypeOK, RecordsOK
    <3>3. spec' \in [Units -> [Ents -> Creds \union {Nothing}]] /\ keys' \in [Units -> SUBSET Creds]
      BY <1>1, <3>1, <3>2 DEF StartPass, TypeOK, PassesOK
    <3>4. \A v \in Units : keys'[v] \subseteq WantedBy(spec'[v])
      BY <1>1, <3>1, <3>2 DEF StartPass, TypeOK, PassesOK
    <3>5. plan' \in [Units -> SUBSET Calls]
      BY <1>1, <3>1 DEF GoTo, Calls, TypeOK, PassesOK
    <3>6. agentMode' \in [Units -> BOOLEAN]
      BY <1>1, <3>1 DEF TypeOK, PassesOK
    <3>7. pc' \in [Units -> {"idle", "tools", "credentials", "owners", "entities"}]
      BY <1>1, <3>1 DEF GoTo, TypeOK, PassesOK
    <3>8. seen' = seen /\ theirs' \in [Units -> SUBSET (Creds \union Ents)]
      BY <1>1 DEF StartPass, Rewatch, Foreign, TypeOK, PassesOK
    <3> QED BY <1>1, <3>3, <3>4, <3>5, <3>6, <3>7, <3>8 DEF TypeOK, PassesOK
  <2>3. PlanInv'
    BY <1>1, OwnershipAssumption DEF StartPass, GoTo, Rewatch, Foreign, TypeOK,
           PassesOK, PlanInv
  <2>4. AgentInv'
    BY <1>1, OwnershipAssumption DEF StartPass, GoTo, Rewatch, Foreign, TypeOK,
           PassesOK, PlanInv, AgentInv, AgentsServed
  <2>5. AdminInv'
    BY <1>1, OwnershipAssumption DEF StartPass, GoTo, Rewatch, Foreign, TypeOK,
           RecordsOK, PassesOK, PlanInv, AdminInv, Known, Registered
  <2> QED BY <2>1, <2>2, <2>3, <2>4, <2>5 DEF IInv, TypeOK
<1>2. ASSUME NEW u \in Units, BinaryUnreadable(u), TypeOK, PlanInv, AgentInv, AdminInv
      PROVE  IInv'
  <2>1. RecordsOK'
    BY <1>2, OwnershipAssumption DEF BinaryUnreadable, TypeOK, RecordsOK, PlanInv,
           PassesOK, Known, Registered
  <2>2. PassesOK'
    BY <1>2, OwnershipAssumption DEF BinaryUnreadable, TypeOK, RecordsOK, PassesOK,
           WantedBy
  <2>3. PlanInv'
    BY <1>2, OwnershipAssumption DEF BinaryUnreadable, TypeOK, PassesOK, PlanInv
  <2>4. AgentInv'
    BY <1>2, OwnershipAssumption DEF BinaryUnreadable, TypeOK, PassesOK, PlanInv,
           AgentInv, AgentsServed
  <2>5. AdminInv'
    BY <1>2, OwnershipAssumption DEF BinaryUnreadable, TypeOK, RecordsOK, PassesOK,
           PlanInv, AdminInv, Known, Registered
  <2> QED BY <2>1, <2>2, <2>3, <2>4, <2>5 DEF IInv, TypeOK
<1>3. ASSUME NEW u \in Units, ListCredentials(u), TypeOK, PlanInv, AgentInv, AdminInv
      PROVE  IInv'
  <2>1. RecordsOK'
    BY <1>3, OwnershipAssumption DEF ListCredentials, GoTo, CredentialCalls, Calls,
           TypeOK, RecordsOK, PlanInv, PassesOK, Known, Registered
  <2>2. PassesOK'
    BY <1>3, OwnershipAssumption DEF ListCredentials, GoTo, CredentialCalls, Calls,
           TypeOK, RecordsOK, PassesOK, WantedBy
  <2>3. PlanInv'
    BY <1>3, OwnershipAssumption DEF ListCredentials, GoTo, CredentialCalls, Calls,
           TypeOK, PassesOK, PlanInv
  <2>4. AgentInv'
    BY <1>3, OwnershipAssumption DEF ListCredentials, GoTo, CredentialCalls, Calls,
           TypeOK, PassesOK, PlanInv, AgentInv, AgentsServed
  <2>5. AdminInv'
    <3>1. /\ pc' = [pc EXCEPT ![u] = "credentials"]
          /\ plan' = [plan EXCEPT ![u] = CredentialCalls(u)]
          /\ UNCHANGED <<description, binding, theirs, seen>>
      BY <1>3 DEF ListCredentials, GoTo
    <3>2. \A e \in Ents : <<"rebind", e>> \notin CredentialCalls(u)
                          /\ <<"remove", e>> \notin CredentialCalls(u)
      BY DEF CredentialCalls
    <3>3. ASSUME NEW c \in Creds,
                 <<"update", c>> \in CredentialCalls(u) \/ <<"delete", c>> \in CredentialCalls(u)
          PROVE  description[c] # "foreign"
      BY <3>3 DEF CredentialCalls
    <3>4. \A c \in Creds : description[c] # "foreign" =>
            c \notin theirs[u] /\ \A e \in Ents : e \in theirs[u] => binding[e] # c
      BY <1>3 DEF AdminInv
    <3> QED BY <1>3, <3>1, <3>2, <3>3, <3>4
            DEF TypeOK, RecordsOK, PassesOK, AdminInv, Registered
  <2> QED BY <2>1, <2>2, <2>3, <2>4, <2>5 DEF IInv, TypeOK
<1>4. ASSUME NEW u \in Units, ListOwners(u), TypeOK, PlanInv, AgentInv, AdminInv
      PROVE  IInv'
  <2>1. RecordsOK'
    BY <1>4, OwnershipAssumption DEF ListOwners, GoTo, TypeOK, RecordsOK, PlanInv,
           PassesOK, Known, Registered
  <2>2. PassesOK'
    BY <1>4, OwnershipAssumption DEF ListOwners, GoTo, TypeOK, RecordsOK, PassesOK,
           WantedBy
  <2>3. PlanInv'
    BY <1>4, OwnershipAssumption DEF ListOwners, GoTo, TypeOK, PassesOK, PlanInv
  <2>4. AgentInv'
    BY <1>4, OwnershipAssumption DEF ListOwners, GoTo, TypeOK, PassesOK, PlanInv,
           AgentInv, AgentsServed
  <2>5. AdminInv'
    BY <1>4, OwnershipAssumption DEF ListOwners, GoTo, TypeOK, RecordsOK, PassesOK,
           PlanInv, AdminInv, Known, Registered
  <2> QED BY <2>1, <2>2, <2>3, <2>4, <2>5 DEF IInv, TypeOK
<1>5. ASSUME NEW u \in Units, ListEntities(u), TypeOK, PlanInv, AgentInv, AdminInv
      PROVE  IInv'
  <2>1. RecordsOK'
    BY <1>5, OwnershipAssumption DEF ListEntities, GoTo, EntityCalls, Rebinds, Owned,
           Unseen, TypeOK, RecordsOK, PlanInv, PassesOK, Known, Registered
  <2>2. PassesOK'
    <3>1. EntityCalls(u) \subseteq Calls
      BY <1>5 DEF EntityCalls, Calls
    <3>2. seen' \in [Units -> [Creds -> {"absent", "managed", "blank", "foreign"}]]
      BY <1>5 DEF ListEntities, Unseen, TypeOK, PassesOK
    <3> QED BY <1>5, <3>1, <3>2 DEF ListEntities, GoTo, TypeOK, PassesOK, WantedBy
  <2>3. PlanInv'
    BY <1>5, OwnershipAssumption DEF ListEntities, GoTo, EntityCalls, Rebinds, Owned,
           Unseen, TypeOK, PassesOK, PlanInv
  <2>4. AgentInv'
    BY <1>5, OwnershipAssumption DEF ListEntities, GoTo, EntityCalls, Rebinds, Owned,
           Unseen, TypeOK, PassesOK, PlanInv, AgentInv, AgentsServed
  <2>5. AdminInv'
    <3>1. /\ pc' = [pc EXCEPT ![u] = "entities"] /\ plan' = [plan EXCEPT ![u] = EntityCalls(u)]
          /\ pc[u] = "owners" /\ theirs' = theirs
          /\ description' = description /\ binding' = binding
      BY <1>5 DEF ListEntities, GoTo
    <3>2. seen' = [seen EXCEPT ![u] = Unseen]
      BY <1>5 DEF ListEntities
    <3>3. \A c \in Creds : <<"update", c>> \notin EntityCalls(u) /\ <<"delete", c>> \notin EntityCalls(u)
      BY <1>5 DEF EntityCalls
    <3>4. ASSUME NEW e \in Ents,
                 <<"rebind", e>> \in EntityCalls(u) \/ <<"remove", e>> \in EntityCalls(u)
          PROVE  Rebinds(u, e) \/ Owned(u, e)
      BY <1>5, <3>4 DEF EntityCalls
    <3>5. \A e \in Ents : e \in theirs[u] => ~Rebinds(u, e) /\ ~Owned(u, e)
      BY <1>5, <3>1 DEF AdminInv, Rebinds, Owned
    <3> QED BY <1>5, <3>1, <3>2, <3>3, <3>4, <3>5
            DEF TypeOK, RecordsOK, PassesOK, AdminInv, Known, Registered
  <2> QED BY <2>1, <2>2, <2>3, <2>4, <2>5 DEF IInv, TypeOK
<1>6. ASSUME NEW u \in Units, SyncScalesets(u), TypeOK, PlanInv, AgentInv, AdminInv
      PROVE  IInv'
  <2>1. RecordsOK'
    BY <1>6, OwnershipAssumption DEF SyncScalesets, Leave, GoTo, Nowhere, Unseen,
           Reconciled, TypeOK, RecordsOK, PlanInv, PassesOK, Known, Registered
  <2>2. PassesOK'
    BY <1>6, OwnershipAssumption DEF SyncScalesets, Leave, GoTo, Nowhere, Unseen,
           Reconciled, TypeOK, RecordsOK, PassesOK, WantedBy
  <2>3. PlanInv'
    BY <1>6, OwnershipAssumption DEF SyncScalesets, Leave, GoTo, Nowhere, Unseen,
           Reconciled, TypeOK, PassesOK, PlanInv
  <2>4. AgentInv'
    BY <1>6, OwnershipAssumption DEF SyncScalesets, Leave, GoTo, Nowhere, Unseen,
           Reconciled, TypeOK, PassesOK, PlanInv, AgentInv, AgentsServed
  <2>5. AdminInv'
    BY <1>6, OwnershipAssumption DEF SyncScalesets, Leave, GoTo, Nowhere, Unseen,
           Reconciled, TypeOK, RecordsOK, PassesOK, PlanInv, AdminInv, Known, Registered
  <2> QED BY <2>1, <2>2, <2>3, <2>4, <2>5 DEF IInv, TypeOK
<1>7. ASSUME NEW u \in Units, Abort(u), TypeOK, PlanInv, AgentInv, AdminInv
      PROVE  IInv'
  <2>1. RecordsOK'
    BY <1>7, OwnershipAssumption DEF Abort, Leave, GoTo, Nowhere, Unseen, TypeOK,
           RecordsOK, PlanInv, PassesOK, Known, Registered
  <2>2. PassesOK'
    BY <1>7, OwnershipAssumption DEF Abort, Leave, GoTo, Nowhere, Unseen, TypeOK,
           RecordsOK, PassesOK, WantedBy
  <2>3. PlanInv'
    BY <1>7, OwnershipAssumption DEF Abort, Leave, GoTo, Nowhere, Unseen, TypeOK,
           PassesOK, PlanInv
  <2>4. AgentInv'
    BY <1>7, OwnershipAssumption DEF Abort, Leave, GoTo, Nowhere, Unseen, TypeOK,
           PassesOK, PlanInv, AgentInv, AgentsServed
  <2>5. AdminInv'
    BY <1>7, OwnershipAssumption DEF Abort, Leave, GoTo, Nowhere, Unseen, TypeOK,
           RecordsOK, PassesOK, PlanInv, AdminInv, Known, Registered
  <2> QED BY <2>1, <2>2, <2>3, <2>4, <2>5 DEF IInv, TypeOK
<1>8. ASSUME NEW u \in Units, NEW a \in Arches, Upload(u, a), TypeOK, PlanInv, AgentInv, AdminInv
      PROVE  IInv'
  <2>1. RecordsOK'
    BY <1>8, OwnershipAssumption DEF Upload, Done, TypeOK, RecordsOK, PlanInv, PassesOK,
           Known, Registered
  <2>2. PassesOK'
    BY <1>8, OwnershipAssumption DEF Upload, Done, TypeOK, RecordsOK, PassesOK, WantedBy
  <2>3. PlanInv'
    BY <1>8, OwnershipAssumption DEF Upload, Done, TypeOK, PassesOK, PlanInv
  <2>4. AgentInv'
    BY <1>8, OwnershipAssumption DEF Upload, Done, TypeOK, PassesOK, PlanInv, AgentInv,
           AgentsServed
  <2>5. AdminInv'
    BY <1>8, OwnershipAssumption DEF Upload, Done, TypeOK, RecordsOK, PassesOK, PlanInv,
           AdminInv, Known, Registered
  <2> QED BY <2>1, <2>2, <2>3, <2>4, <2>5 DEF IInv, TypeOK
<1>9. ASSUME NEW u \in Units, NEW c \in Creds, WriteCredential(u, c), TypeOK, PlanInv, AgentInv, AdminInv
      PROVE  IInv'
  <2>1. RecordsOK'
    BY <1>9, OwnershipAssumption DEF WriteCredential, Done, Accepted, Watch, Untouched,
           TypeOK, RecordsOK, PlanInv, PassesOK, Known, Registered
  <2>2. PassesOK'
    BY <1>9, OwnershipAssumption DEF WriteCredential, Done, Accepted, Watch, Untouched,
           TypeOK, RecordsOK, PassesOK, WantedBy
  <2>3. PlanInv'
    BY <1>9, OwnershipAssumption DEF WriteCredential, Done, Accepted, Watch, Untouched,
           TypeOK, PassesOK, PlanInv
  <2>4. AgentInv'
    BY <1>9, OwnershipAssumption DEF WriteCredential, Done, Accepted, Watch, Untouched,
           TypeOK, PassesOK, PlanInv, AgentInv, AgentsServed
  <2>5. AdminInv'
    BY <1>9, OwnershipAssumption DEF WriteCredential, Done, Accepted, Watch, Untouched,
           TypeOK, RecordsOK, PassesOK, PlanInv, AdminInv, Known, Registered
  <2> QED BY <2>1, <2>2, <2>3, <2>4, <2>5 DEF IInv, TypeOK
<1>10. ASSUME NEW u \in Units, NEW c \in Creds, CredentialRefused(u, c), TypeOK, PlanInv, AgentInv, AdminInv
       PROVE  IInv'
  <2>1. RecordsOK'
    BY <1>10, OwnershipAssumption DEF CredentialRefused, Leave, GoTo, Nowhere, Unseen,
           TypeOK, RecordsOK, PlanInv, PassesOK, Known, Registered
  <2>2. PassesOK'
    BY <1>10, OwnershipAssumption DEF CredentialRefused, Leave, GoTo, Nowhere, Unseen,
           TypeOK, RecordsOK, PassesOK, WantedBy
  <2>3. PlanInv'
    BY <1>10, OwnershipAssumption DEF CredentialRefused, Leave, GoTo, Nowhere, Unseen,
           TypeOK, PassesOK, PlanInv
  <2>4. AgentInv'
    BY <1>10, OwnershipAssumption DEF CredentialRefused, Leave, GoTo, Nowhere, Unseen,
           TypeOK, PassesOK, PlanInv, AgentInv, AgentsServed
  <2>5. AdminInv'
    BY <1>10, OwnershipAssumption DEF CredentialRefused, Leave, GoTo, Nowhere, Unseen,
           TypeOK, RecordsOK, PassesOK, PlanInv, AdminInv, Known, Registered
  <2> QED BY <2>1, <2>2, <2>3, <2>4, <2>5 DEF IInv, TypeOK
<1>11. ASSUME NEW u \in Units, NEW c \in Creds, DeleteCredential(u, c), TypeOK, PlanInv, AgentInv, AdminInv
       PROVE  IInv'
  <2>1. RecordsOK'
    <3>1. /\ wants' = wants /\ edits' = edits /\ binding' = binding /\ agent' = agent
          /\ hosted' = hosted /\ published' = published /\ healthy' = healthy
      BY <1>11 DEF DeleteCredential
    <3>2. description' \in [Creds -> {"absent", "managed", "blank", "foreign"}]
      BY <1>11 DEF DeleteCredential, TypeOK, RecordsOK
    <3>3. \A e \in Ents : Registered(e) => description'[binding[e]] # "absent"
      BY <1>11, OwnershipAssumption DEF DeleteCredential, TypeOK, RecordsOK, Known,
             Registered
    <3> QED BY <1>11, <3>1, <3>2, <3>3 DEF TypeOK, RecordsOK, Known, Registered
  <2>2. PassesOK'
    BY <1>11, OwnershipAssumption DEF DeleteCredential, Turn, Done, Watch, Untouched,
           TypeOK, RecordsOK, PassesOK, WantedBy
  <2>3. PlanInv'
    BY <1>11, OwnershipAssumption DEF DeleteCredential, Turn, Done, Watch, Untouched,
           TypeOK, PassesOK, PlanInv
  <2>4. AgentInv'
    BY <1>11, OwnershipAssumption DEF DeleteCredential, Turn, Done, Watch, Untouched,
           TypeOK, PassesOK, PlanInv, AgentInv, AgentsServed
  <2>5. AdminInv'
    BY <1>11, OwnershipAssumption DEF DeleteCredential, Turn, Done, Watch, Untouched,
           TypeOK, RecordsOK, PassesOK, PlanInv, AdminInv, Known, Registered
  <2> QED BY <2>1, <2>2, <2>3, <2>4, <2>5 DEF IInv, TypeOK
<1>12. ASSUME NEW u \in Units, NEW e \in Ents, WriteEntity(u, e), TypeOK, PlanInv, AgentInv, AdminInv
       PROVE  IInv'
  <2>1. RecordsOK'
    <3>1. /\ wants' = wants /\ edits' = edits /\ description' = description
          /\ hosted' = hosted /\ published' = published /\ healthy' = healthy
      BY <1>12 DEF WriteEntity
    <3>2. CASE binding' = binding /\ agent' = agent
      BY <1>12, <3>1, <3>2 DEF TypeOK, RecordsOK, Known, Registered
    <3>3. ASSUME NEW op \in {"register", "rebind", "agent"}, <<op, e>> \in plan[u],
                 EntityAccepted(u, op, e),
                 binding' = IF op = "agent" THEN binding ELSE [binding EXCEPT ![e] = spec[u][e]],
                 agent' = IF agentMode[u] THEN agent \union {e} ELSE agent
          PROVE  RecordsOK'
      <4>0. op # "agent" => spec[u][e] # Nothing
        BY <1>12, <3>3 DEF PlanInv
      <4>1. op # "agent" => spec[u][e] \in Creds /\ Known(spec[u][e])
        BY <1>12, <3>3, <4>0 DEF EntityAccepted, TypeOK, PassesOK
      <4>2. binding' \in [Ents -> Creds \union {Nothing}] /\ binding'[e] # Nothing
        BY <1>12, <3>3, <4>1, OwnershipAssumption DEF EntityAccepted, Registered,
               TypeOK, RecordsOK
      <4>3. \A d \in Ents : Registered(d) => binding'[d] # Nothing
        BY <1>12, <3>3, <4>2 DEF Registered, TypeOK, RecordsOK
      <4>4. \A d \in Ents : binding'[d] # Nothing => description[binding'[d]] # "absent"
        BY <1>12, <3>3, <4>1 DEF Registered, Known, TypeOK, RecordsOK
      <4>5. agent' \subseteq {d \in Ents : binding'[d] # Nothing}
        BY <1>12, <3>3, <4>2, <4>3 DEF Registered, TypeOK, RecordsOK
      <4> QED BY <1>12, <3>1, <4>2, <4>3, <4>4, <4>5 DEF TypeOK, RecordsOK, Known,
                     Registered
    <3> QED BY <1>12, <3>2, <3>3 DEF WriteEntity
  <2>2. PassesOK'
    BY <1>12, OwnershipAssumption DEF WriteEntity, EntityAccepted, Done, Watch,
           Untouched, TypeOK, RecordsOK, PassesOK, WantedBy
  <2>3. PlanInv'
    BY <1>12, OwnershipAssumption DEF WriteEntity, EntityAccepted, Done, Watch,
           Untouched, TypeOK, PassesOK, PlanInv
  <2>4. AgentInv'
    <3>1. pc[u] = "entities"
      BY <1>12 DEF WriteEntity, PlanInv, TypeOK, PassesOK
    <3>2. agentMode[u] => published = Arches
      BY <1>12, <3>1 DEF AgentInv, TypeOK, RecordsOK
    <3>3. agent' # {} => published = Arches
      BY <1>12, <3>2 DEF WriteEntity, AgentInv, AgentsServed
    <3>4. /\ pc' = pc /\ agentMode' = agentMode /\ published' = published
          /\ \A v \in Units : v # u => plan'[v] = plan[v]
      BY <1>12 DEF WriteEntity, Done, TypeOK, PassesOK
    <3> QED BY <1>12, <3>1, <3>3, <3>4 DEF AgentInv, AgentsServed
  <2>5. AdminInv'
    BY <1>12, OwnershipAssumption DEF WriteEntity, EntityAccepted, Done, Watch,
           Untouched, TypeOK, RecordsOK, PassesOK, PlanInv, AdminInv, Known, Registered
  <2> QED BY <2>1, <2>2, <2>3, <2>4, <2>5 DEF IInv, TypeOK
<1>13. ASSUME NEW u \in Units, NEW e \in Ents, RemoveEntity(u, e), TypeOK, PlanInv, AgentInv, AdminInv
       PROVE  IInv'
  <2>1. RecordsOK'
    <3>1. /\ wants' = wants /\ edits' = edits /\ description' = description
          /\ hosted' = hosted /\ published' = published /\ healthy' = healthy
      BY <1>13 DEF RemoveEntity
    <3>2. CASE binding' = binding /\ agent' = agent
      BY <1>13, <3>1, <3>2 DEF TypeOK, RecordsOK, Known, Registered
    <3>3. CASE hosted[e] = "none" /\ binding' = [binding EXCEPT ![e] = Nothing] /\ agent' = agent \ {e}
      BY <1>13, <3>1, <3>3 DEF TypeOK, RecordsOK, Known, Registered
    <3> QED BY <1>13, <3>2, <3>3 DEF RemoveEntity
  <2>2. PassesOK'
    BY <1>13, OwnershipAssumption DEF RemoveEntity, Turn, Done, Watch, Untouched,
           TypeOK, RecordsOK, PassesOK, WantedBy
  <2>3. PlanInv'
    BY <1>13, OwnershipAssumption DEF RemoveEntity, Turn, Done, Watch, Untouched,
           TypeOK, PassesOK, PlanInv
  <2>4. AgentInv'
    BY <1>13, OwnershipAssumption DEF RemoveEntity, Turn, Done, Watch, Untouched,
           TypeOK, PassesOK, PlanInv, AgentInv, AgentsServed
  <2>5. AdminInv'
    BY <1>13, OwnershipAssumption DEF RemoveEntity, Turn, Done, Watch, Untouched,
           TypeOK, RecordsOK, PassesOK, PlanInv, AdminInv, Known, Registered
  <2> QED BY <2>1, <2>2, <2>3, <2>4, <2>5 DEF IInv, TypeOK
<1> QED BY <1>1, <1>2, <1>3, <1>4, <1>5, <1>6, <1>7, <1>8, <1>9, <1>10, <1>11, <1>12,
               <1>13 DEF IInv, UnitStep

\* So does what everybody else does.
LEMMA WorldKeeps ==
  IInv /\ (\/ \E e \in Ents : Drained(e) \/ \E c \in Creds \union {Nothing} : ChangeWants(e, c)
           \/ \E c \in Contested :
                \/ \E text \in {"blank", "foreign"} : AdminDescribes(c, text)
                \/ \E e \in Ents : AdminRegisters(e, c)
           \/ Degrade \/ Recover) => IInv'
<1>1. ASSUME NEW e \in Ents, NEW c \in Creds \union {Nothing}, ChangeWants(e, c), TypeOK, PlanInv, AgentInv, AdminInv
      PROVE  IInv'
  <2>1. RecordsOK'
    BY <1>1, OwnershipAssumption DEF ChangeWants, TypeOK, RecordsOK, PlanInv, PassesOK,
           Known, Registered
  <2>2. PassesOK'
    BY <1>1, OwnershipAssumption DEF ChangeWants, TypeOK, RecordsOK, PassesOK, WantedBy
  <2>3. PlanInv'
    BY <1>1, OwnershipAssumption DEF ChangeWants, TypeOK, PassesOK, PlanInv
  <2>4. AgentInv'
    BY <1>1, OwnershipAssumption DEF ChangeWants, TypeOK, PassesOK, PlanInv, AgentInv,
           AgentsServed
  <2>5. AdminInv'
    BY <1>1, OwnershipAssumption DEF ChangeWants, TypeOK, RecordsOK, PassesOK, PlanInv,
           AdminInv, Known, Registered
  <2> QED BY <2>1, <2>2, <2>3, <2>4, <2>5 DEF IInv, TypeOK
<1>2. ASSUME NEW c \in Contested, NEW text \in {"blank", "foreign"}, AdminDescribes(c, text), TypeOK, PlanInv, AgentInv, AdminInv
      PROVE  IInv'
  <2>1. RecordsOK'
    BY <1>2, OwnershipAssumption DEF AdminDescribes, Edit, Watch, Untouched, TypeOK,
           RecordsOK, PlanInv, PassesOK, Known, Registered
  <2>2. PassesOK'
    BY <1>2, OwnershipAssumption DEF AdminDescribes, Edit, Watch, Untouched, TypeOK,
           RecordsOK, PassesOK, WantedBy
  <2>3. PlanInv'
    BY <1>2, OwnershipAssumption DEF AdminDescribes, Edit, Watch, Untouched, TypeOK,
           PassesOK, PlanInv
  <2>4. AgentInv'
    BY <1>2, OwnershipAssumption DEF AdminDescribes, Edit, Watch, Untouched, TypeOK,
           PassesOK, PlanInv, AgentInv, AgentsServed
  <2>5. AdminInv'
    BY <1>2, OwnershipAssumption DEF AdminDescribes, Edit, Watch, Untouched, TypeOK,
           RecordsOK, PassesOK, PlanInv, AdminInv, Known, Registered
  <2> QED BY <2>1, <2>2, <2>3, <2>4, <2>5 DEF IInv, TypeOK
<1>3. ASSUME NEW e \in Ents, NEW c \in Contested, AdminRegisters(e, c), TypeOK, PlanInv, AgentInv, AdminInv
      PROVE  IInv'
  <2>1. RecordsOK'
    BY <1>3, OwnershipAssumption DEF AdminRegisters, Edit, Watch, Untouched, TypeOK,
           RecordsOK, PlanInv, PassesOK, Known, Registered
  <2>2. PassesOK'
    BY <1>3, OwnershipAssumption DEF AdminRegisters, Edit, Watch, Untouched, TypeOK,
           RecordsOK, PassesOK, WantedBy
  <2>3. PlanInv'
    BY <1>3, OwnershipAssumption DEF AdminRegisters, Edit, Watch, Untouched, TypeOK,
           PassesOK, PlanInv
  <2>4. AgentInv'
    BY <1>3, OwnershipAssumption DEF AdminRegisters, Edit, Watch, Untouched, TypeOK,
           PassesOK, PlanInv, AgentInv, AgentsServed
  <2>5. AdminInv'
    BY <1>3, OwnershipAssumption DEF AdminRegisters, Edit, Watch, Untouched, TypeOK,
           RecordsOK, PassesOK, PlanInv, AdminInv, Known, Registered
  <2> QED BY <2>1, <2>2, <2>3, <2>4, <2>5 DEF IInv, TypeOK
<1>4. ASSUME NEW e \in Ents, Drained(e), TypeOK, PlanInv, AgentInv, AdminInv
      PROVE  IInv'
  <2>1. RecordsOK'
    BY <1>4, OwnershipAssumption DEF Drained, TypeOK, RecordsOK, PlanInv, PassesOK,
           Known, Registered
  <2>2. PassesOK'
    BY <1>4, OwnershipAssumption DEF Drained, TypeOK, RecordsOK, PassesOK, WantedBy
  <2>3. PlanInv'
    BY <1>4, OwnershipAssumption DEF Drained, TypeOK, PassesOK, PlanInv
  <2>4. AgentInv'
    BY <1>4, OwnershipAssumption DEF Drained, TypeOK, PassesOK, PlanInv, AgentInv,
           AgentsServed
  <2>5. AdminInv'
    BY <1>4, OwnershipAssumption DEF Drained, TypeOK, RecordsOK, PassesOK, PlanInv,
           AdminInv, Known, Registered
  <2> QED BY <2>1, <2>2, <2>3, <2>4, <2>5 DEF IInv, TypeOK
<1>5. ASSUME Degrade, TypeOK, PlanInv, AgentInv, AdminInv
      PROVE  IInv'
  <2>1. RecordsOK'
    BY <1>5, OwnershipAssumption DEF Degrade, TypeOK, RecordsOK, PlanInv, PassesOK,
           Known, Registered
  <2>2. PassesOK'
    BY <1>5, OwnershipAssumption DEF Degrade, TypeOK, RecordsOK, PassesOK, WantedBy
  <2>3. PlanInv'
    BY <1>5, OwnershipAssumption DEF Degrade, TypeOK, PassesOK, PlanInv
  <2>4. AgentInv'
    BY <1>5, OwnershipAssumption DEF Degrade, TypeOK, PassesOK, PlanInv, AgentInv,
           AgentsServed
  <2>5. AdminInv'
    BY <1>5, OwnershipAssumption DEF Degrade, TypeOK, RecordsOK, PassesOK, PlanInv,
           AdminInv, Known, Registered
  <2> QED BY <2>1, <2>2, <2>3, <2>4, <2>5 DEF IInv, TypeOK
<1>6. ASSUME Recover, TypeOK, PlanInv, AgentInv, AdminInv
      PROVE  IInv'
  <2>1. RecordsOK'
    BY <1>6, OwnershipAssumption DEF Recover, TypeOK, RecordsOK, PlanInv, PassesOK,
           Known, Registered
  <2>2. PassesOK'
    BY <1>6, OwnershipAssumption DEF Recover, TypeOK, RecordsOK, PassesOK, WantedBy
  <2>3. PlanInv'
    BY <1>6, OwnershipAssumption DEF Recover, TypeOK, PassesOK, PlanInv
  <2>4. AgentInv'
    BY <1>6, OwnershipAssumption DEF Recover, TypeOK, PassesOK, PlanInv, AgentInv,
           AgentsServed
  <2>5. AdminInv'
    BY <1>6, OwnershipAssumption DEF Recover, TypeOK, RecordsOK, PassesOK, PlanInv,
           AdminInv, Known, Registered
  <2> QED BY <2>1, <2>2, <2>3, <2>4, <2>5 DEF IInv, TypeOK
<1> QED BY <1>1, <1>2, <1>3, <1>4, <1>5, <1>6 DEF IInv

LEMMA NextInv == IInv /\ [Next]_vars => IInv'
<1> SUFFICES ASSUME IInv, [Next]_vars PROVE IInv'
  OBVIOUS
<1>1. CASE UNCHANGED vars
  BY <1>1 DEF vars, IInv, TypeOK, RecordsOK, PassesOK, PlanInv, AgentInv, AgentsServed,
         AdminInv, Known, Registered,
              WantedBy
<1>2. CASE Next
  BY <1>2, PassKeeps, WorldKeeps DEF Next
<1> QED BY <1>1, <1>2

\* The invariant holds of every state the units, GARM and its administrator reach.
THEOREM InvariantHolds == Spec => []IInv
<1> QED BY InitInv, NextInv, PTL DEF Spec

\* The type invariant, with what GARM keeps true of its records.
THEOREM TypeCorrect == Spec => []TypeOK
<1>1. IInv => TypeOK
  BY DEF IInv
<1> QED BY <1>1, InvariantHolds, PTL

\* No entity is in agent mode while a binary of the manifest is missing, however
\* many units upload, fail to read a binary or are refused.
THEOREM AgentsAreServed == Spec => []AgentsServed
<1>1. IInv => AgentsServed
  BY DEF IInv, AgentInv
<1> QED BY <1>1, InvariantHolds, PTL

-----------------------------------------------------------------------------
(* The administrators' records.                                            *)

\* From the invariant: each call of a pass that writes a description or a binding
\* is about what was not an administrator's.
LEMMA StepKeeps ==
  ASSUME IInv, NEW u \in Units, UnitStep(u), pc[u] # "idle"
  PROVE  theirs[u] \subseteq Untouched
<1> USE DEF IInv, TypeOK, RecordsOK, PassesOK
<1>0. theirs[u] \subseteq Creds \union Ents
  OBVIOUS
<1>1. ASSUME \A c \in Creds : c \in theirs[u] => description'[c] = description[c],
             \A e \in Ents : e \in theirs[u] =>
               binding'[e] = binding[e] /\ description'[binding[e]] = description[binding[e]]
      PROVE  theirs[u] \subseteq Untouched
  BY <1>0, <1>1 DEF Untouched
<1>2. ASSUME NEW c \in Creds, WriteCredential(u, c) PROVE theirs[u] \subseteq Untouched
  <2>1. description' = [description EXCEPT ![c] = "managed"] /\ binding' = binding
    BY <1>2 DEF WriteCredential
  <2>2. c \notin theirs[u] /\ \A e \in Ents : e \in theirs[u] => binding[e] # c
    BY <1>2 DEF WriteCredential, Accepted, AdminInv, Known, Registered
  <2> QED BY <1>1, <2>1, <2>2
<1>3. ASSUME NEW c \in Creds, DeleteCredential(u, c) PROVE theirs[u] \subseteq Untouched
  <2>1. /\ binding' = binding
        /\ description' \in {description, [description EXCEPT ![c] = "absent"]}
    BY <1>3 DEF DeleteCredential
  <2>2. <<"delete", c>> \in plan[u]
    BY <1>3 DEF DeleteCredential, Turn
  <2>3. c \notin theirs[u] /\ \A e \in Ents : e \in theirs[u] => binding[e] # c
    BY <2>2, AdminInv DEF AdminInv
  <2>4. CASE description' = description
    BY <1>1, <2>1, <2>4
  <2>5. CASE description' = [description EXCEPT ![c] = "absent"]
    BY <1>1, <2>1, <2>3, <2>5
  <2> QED BY <2>1, <2>4, <2>5
<1>4. ASSUME NEW e \in Ents, WriteEntity(u, e) PROVE theirs[u] \subseteq Untouched
  <2>1. /\ description' = description
        /\ binding' \in {binding, [binding EXCEPT ![e] = spec[u][e]]}
    BY <1>4 DEF WriteEntity
  <2>2. binding' = binding \/ e \notin theirs[u]
    BY <1>4 DEF WriteEntity, EntityAccepted, AdminInv, Registered
  <2> QED BY <1>1, <2>1, <2>2
<1>5. ASSUME NEW e \in Ents, RemoveEntity(u, e) PROVE theirs[u] \subseteq Untouched
  <2>1. /\ description' = description
        /\ binding' \in {binding, [binding EXCEPT ![e] = Nothing]}
    BY <1>5 DEF RemoveEntity
  <2>2. e \notin theirs[u]
    BY <1>5 DEF RemoveEntity, Turn, AdminInv
  <2> QED BY <1>1, <2>1, <2>2
<1>6. CASE \/ StartPass(u) \/ BinaryUnreadable(u) \/ ListCredentials(u) \/ ListOwners(u)
           \/ ListEntities(u) \/ SyncScalesets(u)
           \/ \E a \in Arches : Upload(u, a)
           \/ \E c \in Creds : CredentialRefused(u, c)
  BY <1>1, <1>6 DEF StartPass, BinaryUnreadable, ListCredentials, ListOwners,
         ListEntities,
                    SyncScalesets, Upload, CredentialRefused
<1> QED BY <1>2, <1>3, <1>4, <1>5, <1>6 DEF UnitStep

\* Agent mode is set by the write of an entity the plan names, hence a wanted one,
\* and cleared only with the entity itself.
LEMMA StepSwitchesOn ==
  ASSUME IInv, NEW u \in Units, UnitStep(u), NEW e \in theirs[u] \intersect Ents
  PROVE  SwitchesAgentOn(u, e) \/ (e \in agent' <=> e \in agent)
<1> USE DEF IInv, TypeOK, RecordsOK, PassesOK
<1>1. ASSUME NEW d \in Ents, WriteEntity(u, d)
      PROVE  SwitchesAgentOn(u, e) \/ (e \in agent' <=> e \in agent)
  <2>1. PICK op \in {"register", "rebind", "agent"} :
          /\ <<op, d>> \in plan[u]
          /\ agent' \in {agent, IF agentMode[u] THEN agent \union {d} ELSE agent}
    BY <1>1 DEF WriteEntity
  <2>2. spec[u][d] # Nothing
    BY <2>1 DEF PlanInv
  <2> QED BY <2>1, <2>2 DEF SwitchesAgentOn
<1>2. ASSUME NEW d \in Ents, RemoveEntity(u, d) PROVE e \in agent' <=> e \in agent
  <2>1. d # e
    BY <1>2 DEF RemoveEntity, Turn, AdminInv
  <2> QED BY <1>2, <2>1 DEF RemoveEntity
<1>3. CASE \/ StartPass(u) \/ BinaryUnreadable(u) \/ ListCredentials(u) \/ ListOwners(u)
           \/ ListEntities(u) \/ SyncScalesets(u)
           \/ \E a \in Arches : Upload(u, a)
           \/ \E c \in Creds :
                WriteCredential(u, c) \/ CredentialRefused(u, c) \/ DeleteCredential(u, c)
  BY <1>3 DEF StartPass, BinaryUnreadable, ListCredentials, ListOwners, ListEntities,
              SyncScalesets, Upload, WriteCredential, CredentialRefused, DeleteCredential
<1> QED BY <1>1, <1>2, <1>3 DEF UnitStep

\* What has been an administrator's since the pass began is neither rewritten nor
\* removed, save for agent mode switched on in an entity that is asked for; for
\* any number of units that list and call at any time.
THEOREM AdminsAreKept == Spec => AdminsKept
<1>1. IInv /\ [Next]_vars =>
        [\A u \in Units : (UnitStep(u) /\ pc[u] # "idle") => AdminStep(u)]_vars
  BY StepKeeps, StepSwitchesOn DEF AdminStep
<1> QED BY <1>1, InvariantHolds, PTL DEF Spec, AdminsKept

=============================================================================
