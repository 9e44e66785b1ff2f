------------------------ MODULE PlannerRelationsProofs ------------------------
(***************************************************************************)
(* What the planner charm guarantees for any number of relations, flavors, *)
(* changes and faults: types, TokenKept, DisableKept.                      *)
(*                                                                         *)
(* TokenKept rests on what the hook's old view still means (TokenInv): a   *)
(* relation that is served and that the view leaves out has ended, so what *)
(* the hook takes for an orphan is one; and credentials not yet committed  *)
(* are of relations in the view, so the hook does not delete its own.      *)
(* DisableKept rests on what the plan of a hook still means (PlanInv): a   *)
(* flavor it replaces does not match what the hook saw declared, and one it *)
(* drops was not declared; and on a held flavor, while it is disabled,     *)
(* matching its declaration (HeldInv).  So only a hook that saw another    *)
(* declaration has such a flavor in its plan.                              *)
(***************************************************************************)
EXTENDS PlannerRelations, FiniteSetTheorems, TLAPS

\* What a hook still has to do with a flavor agrees with the table, and with
\* what the hook saw declared.
PlanInv ==
  pc = "flavors" => \A f \in Flavors :
    /\ plan[f] = "create" => Wanted(view, f) # Nothing /\ flavors[f] = Absent
    /\ plan[f] = "replace" => Wanted(view, f) # Nothing /\ ~Matches(f, Wanted(view, f))
    /\ plan[f] = "drop" => Wanted(view, f) = Nothing

TokenInv ==
  /\ \A r \in sent : /\ rel[r] \in {"ready", "gone"}
                     /\ rel[r] # "gone" => r \in token /\ r \in secret
  /\ fresh \subseteq token \intersect Listed(view)
  /\ pc # "idle" => /\ \A r \in Listed(view) : rel[r] \in {"ready", "gone"}
                    /\ \A r \in sent \ Listed(view) : rel[r] = "gone"
  /\ pc = "relations" => todo \subseteq Listed(view)
  /\ pc = "orphans" => todo \subseteq Orphans(known, view)

HeldInv == \A f \in held : Off(f) => Matches(f, Wanted(Seen, f))

IInv == TypeOK /\ PlanInv /\ TokenInv /\ HeldInv

USE DEF worldVars, juju, planner, hookVars

-----------------------------------------------------------------------------
(* Minimum and maximum of the relations.  A set of numbers up to n with no *)
(* largest member would make the numbers below its members a finite set    *)
(* that the successor maps into itself without reaching 1.                 *)

LEMMA MaxIn ==
  ASSUME NEW n \in Nat, NEW S \in SUBSET (1 .. n), S # {}
  PROVE  Max(S) \in S
<1> SUFFICES ASSUME ~ \E x \in S : \A y \in S : x >= y PROVE FALSE
  BY DEF Max
<1> DEFINE D == {d \in 1 .. n : \E y \in S : y >= d}
<1> DEFINE up == [d \in D |-> d + 1]
<1>1. \A d \in D : d + 1 \in D
  OBVIOUS
<1>2. 1 \in D
  <2>1. PICK s \in S : s \in 1 .. n
    OBVIOUS
  <2> QED BY <2>1
<1>3. IsFiniteSet(D) /\ Cardinality(D) \in Nat
  <2>1. D \in SUBSET (1 .. n) /\ 1 \in Int /\ n \in Int
    OBVIOUS
  <2> HIDE DEF D
  <2>2. IsFiniteSet(1 .. n)
    BY <2>1, FS_Interval
  <2>3. IsFiniteSet(D)
    BY <2>1, <2>2, FS_Subset
  <2> QED BY <2>3, FS_CardinalityType
<1>4. IsFiniteSet(D \ {1}) /\ Cardinality(D \ {1}) = Cardinality(D) - 1
  BY <1>2, <1>3, FS_RemoveElement
<1>5. up \in [D -> D \ {1}]
  BY <1>1
<1>6. \E c, d \in D : c # d /\ up[c] = up[d]
  <2> HIDE DEF D, up
  <2>1. Cardinality(D \ {1}) < Cardinality(D)
    BY <1>3, <1>4
  <2> QED BY <1>3, <1>4, <1>5, <2>1, FS_PigeonHole
<1> QED BY <1>6

LEMMA MinIn ==
  ASSUME NEW n \in Nat, NEW S \in SUBSET (1 .. n), S # {}
  PROVE  Min(S) \in S
<1> SUFFICES ASSUME ~ \E x \in S : \A y \in S : x =< y PROVE FALSE
  BY DEF Min
<1> DEFINE D == {d \in 1 .. n : \E y \in S : y =< d}
<1> DEFINE down == [d \in D |-> d - 1]
<1>1. \A d \in D : d - 1 \in D
  OBVIOUS
<1>2. n \in D
  <2>1. PICK s \in S : s \in 1 .. n
    OBVIOUS
  <2> QED BY <2>1
<1>3. IsFiniteSet(D) /\ Cardinality(D) \in Nat
  <2>1. D \in SUBSET (1 .. n) /\ 1 \in Int /\ n \in Int
    OBVIOUS
  <2> HIDE DEF D
  <2>2. IsFiniteSet(1 .. n)
    BY <2>1, FS_Interval
  <2>3. IsFiniteSet(D)
    BY <2>1, <2>2, FS_Subset
  <2> QED BY <2>3, FS_CardinalityType
<1>4. IsFiniteSet(D \ {n}) /\ Cardinality(D \ {n}) = Cardinality(D) - 1
  BY <1>2, <1>3, FS_RemoveElement
<1>5. down \in [D -> D \ {n}]
  BY <1>1
<1>6. \E c, d \in D : c # d /\ down[c] = down[d]
  <2> HIDE DEF D, down
  <2>1. Cardinality(D \ {n}) < Cardinality(D)
    BY <1>3, <1>4
  <2> QED BY <1>3, <1>4, <1>5, <2>1, FS_PigeonHole
<1> QED BY <1>6

\* What a view declares for a flavor is a configuration.
LEMMA WantedType ==
  ASSUME NEW v, NEW f \in Flavors, Wanted(v, f) # Nothing
  PROVE  Wanted(v, f) \in Configs
<1>1. Declaring(v, f) # {} /\ Declaring(v, f) \in SUBSET (1 .. MaxRel)
  BY DEF Wanted, Declaring, Relations
<1>2. Max(Declaring(v, f)) \in Declaring(v, f)
  BY <1>1, MaxIn, RelationsAssumption
<1> QED BY <1>1, <1>2 DEF Wanted, Declaring

LEMMA CurrentType == TypeOK /\ todo # {} => Current \in todo
BY MinIn, RelationsAssumption DEF TypeOK, Relations, Current

\* The hook's view has declarations in it.
LEMMA SeenType == TypeOK => Seen \in [Relations -> Declarations \union {Absent}]
BY DEF TypeOK, Seen

LEMMA SeenListed == TypeOK => Listed(Seen) = {r \in Relations : rel[r] = "ready"}
BY ConfigAssumption DEF TypeOK, Listed, Seen

-----------------------------------------------------------------------------
(* The invariant.                                                          *)

LEMMA InitInv == Init => IInv
<1> SUFFICES ASSUME Init PROVE IInv
  OBVIOUS
<1>1. TypeOK
  BY BoundsAssumption DEF Init, TypeOK, Declarations
<1>2. PlanInv /\ TokenInv /\ HeldInv
  BY DEF Init, PlanInv, TokenInv, HeldInv, Listed
<1> QED BY <1>1, <1>2 DEF IInv

\* What happens around the hook keeps the invariant.
LEMMA WorldKeeps == IInv /\ World => IInv'
<1>1. ASSUME NEW r \in Relations, Relate(r), TypeOK, PlanInv, TokenInv, HeldInv PROVE IInv'
  <2>1. TypeOK'
    BY <1>1, BoundsAssumption DEF Relate, Redeclare, Listed, Orphans, TypeOK
  <2>2. PlanInv'
    BY <1>1 DEF Relate, Redeclare, PlanInv, Matches
  <2>3. TokenInv'
    BY <1>1, ConfigAssumption DEF Relate, Redeclare, Listed, Orphans, TypeOK, TokenInv
  <2>4. HeldInv'
    <3>1. \A f \in held' : f \in held /\ Wanted(Seen', f) = Wanted(Seen, f)
      BY <1>1 DEF Relate, Redeclare, Seen
    <3> QED BY <1>1, <3>1 DEF Relate, Redeclare, HeldInv, Matches, Off
  <2> QED BY <2>1, <2>2, <2>3, <2>4 DEF IInv
<1>2. ASSUME NEW r \in Relations, Declare(r), TypeOK, PlanInv, TokenInv, HeldInv PROVE IInv'
  <2>1. TypeOK'
    BY <1>2, BoundsAssumption DEF Declare, Redeclare, Listed, Orphans, TypeOK
  <2>2. PlanInv'
    BY <1>2 DEF Declare, Redeclare, PlanInv, Matches
  <2>3. TokenInv'
    BY <1>2, ConfigAssumption DEF Declare, Redeclare, Listed, Orphans, TypeOK, TokenInv
  <2>4. HeldInv'
    <3>1. \A f \in held' : f \in held /\ Wanted(Seen', f) = Wanted(Seen, f)
      BY <1>2 DEF Declare, Redeclare, Seen
    <3> QED BY <1>2, <3>1 DEF Declare, Redeclare, HeldInv, Matches, Off
  <2> QED BY <2>1, <2>2, <2>3, <2>4 DEF IInv
<1>3. ASSUME NEW r \in Relations, Break(r), TypeOK, PlanInv, TokenInv, HeldInv PROVE IInv'
  <2>1. TypeOK'
    BY <1>3, BoundsAssumption DEF Break, Redeclare, Listed, Orphans, TypeOK
  <2>2. PlanInv'
    BY <1>3 DEF Break, Redeclare, PlanInv, Matches
  <2>3. TokenInv'
    BY <1>3, ConfigAssumption DEF Break, Redeclare, Listed, Orphans, TypeOK, TokenInv
  <2>4. HeldInv'
    <3>1. \A f \in held' : f \in held /\ Wanted(Seen', f) = Wanted(Seen, f)
      BY <1>3 DEF Break, Redeclare, Seen
    <3> QED BY <1>3, <3>1 DEF Break, Redeclare, HeldInv, Matches, Off
  <2> QED BY <2>1, <2>2, <2>3, <2>4 DEF IInv
<1>4. ASSUME SetUp, TypeOK, PlanInv, TokenInv, HeldInv PROVE IInv'
  <2>1. TypeOK'
    BY <1>4, BoundsAssumption DEF SetUp, Listed, Orphans, TypeOK
  <2>2. PlanInv'
    BY <1>4 DEF SetUp, PlanInv, Matches
  <2>3. TokenInv'
    BY <1>4, ConfigAssumption DEF SetUp, Listed, Orphans, TypeOK, TokenInv
  <2>4. HeldInv'
    <3>1. Seen' = Seen
      BY <1>4 DEF SetUp, Quiet, Undo, Seen
    <3> QED BY <1>4, <3>1 DEF SetUp, Quiet, Undo, HeldInv, Matches, Off
  <2> QED BY <2>1, <2>2, <2>3, <2>4 DEF IInv
<1>5. ASSUME NEW f \in Flavors, DisableFlavor(f), TypeOK, PlanInv, TokenInv, HeldInv PROVE IInv'
  <2>1. TypeOK'
    BY <1>5, BoundsAssumption DEF DisableFlavor, UpdateFlavor, Listed, Orphans, TypeOK
  <2>2. Seen' = Seen /\ pc' = pc /\ view' = view /\ plan' = plan
    BY <1>5 DEF DisableFlavor, Seen
  <2>3. \A g \in Flavors : /\ flavors[g] = Absent <=> flavors'[g] = Absent
                           /\ flavors[g] # Absent => flavors'[g].cfg = flavors[g].cfg
                           /\ g # f => flavors'[g] = flavors[g]
    BY <1>5, ConfigAssumption DEF DisableFlavor, UpdateFlavor, TypeOK
  <2>4. \A g \in Flavors : /\ Matches(g, Wanted(view, g))' <=> Matches(g, Wanted(view, g))
                           /\ Matches(g, Wanted(Seen, g))' <=> Matches(g, Wanted(Seen, g))
    BY <2>2, <2>3 DEF Matches
  <2>5. PlanInv'
    BY <1>5, <2>2, <2>3, <2>4 DEF PlanInv
  <2>6. TokenInv'
    BY <1>5, ConfigAssumption DEF DisableFlavor, UpdateFlavor, Listed, Orphans, TypeOK,
           TokenInv
  <2>7. HeldInv'
    <3>1. \A g \in held' : \/ g = f /\ Matches(f, Wanted(Seen, f))
                           \/ g # f /\ g \in held /\ g \in Flavors
      BY <1>5 DEF DisableFlavor, TypeOK
    <3> QED BY <1>5, <2>2, <2>3, <2>4, <3>1 DEF HeldInv, Off
  <2> QED BY <2>1, <2>5, <2>6, <2>7 DEF IInv
<1>6. ASSUME NEW f \in Flavors, EnableFlavor(f), TypeOK, PlanInv, TokenInv, HeldInv PROVE IInv'
  <2>1. TypeOK'
    BY <1>6, BoundsAssumption DEF EnableFlavor, UpdateFlavor, Listed, Orphans, TypeOK
  <2>2. Seen' = Seen /\ pc' = pc /\ view' = view /\ plan' = plan
    BY <1>6 DEF EnableFlavor, Seen
  <2>3. \A g \in Flavors : /\ flavors[g] = Absent <=> flavors'[g] = Absent
                           /\ flavors[g] # Absent => flavors'[g].cfg = flavors[g].cfg
                           /\ g # f => flavors'[g] = flavors[g]
    BY <1>6, ConfigAssumption DEF EnableFlavor, UpdateFlavor, TypeOK
  <2>4. \A g \in Flavors : /\ Matches(g, Wanted(view, g))' <=> Matches(g, Wanted(view, g))
                           /\ Matches(g, Wanted(Seen, g))' <=> Matches(g, Wanted(Seen, g))
    BY <2>2, <2>3 DEF Matches
  <2>5. PlanInv'
    BY <1>6, <2>2, <2>3, <2>4 DEF PlanInv
  <2>6. TokenInv'
    BY <1>6, ConfigAssumption DEF EnableFlavor, UpdateFlavor, Listed, Orphans, TypeOK,
           TokenInv
  <2>7. HeldInv'
    <3>1. \A g \in held' : g # f /\ g \in held /\ g \in Flavors
      BY <1>6 DEF EnableFlavor, TypeOK
    <3> QED BY <1>6, <2>2, <2>3, <2>4, <3>1 DEF HeldInv, Off
  <2> QED BY <2>1, <2>5, <2>6, <2>7 DEF IInv
<1> QED BY <1>1, <1>2, <1>3, <1>4, <1>5, <1>6 DEF IInv, World

\* So does each step of the hook, and the failure of one.
LEMMA HookKeeps == IInv /\ (Begin \/ Hook \/ Crash) => IInv'
<1>1. ASSUME Begin, TypeOK, PlanInv, TokenInv, HeldInv PROVE IInv'
  <2>1. TypeOK'
    BY <1>1, BoundsAssumption, SeenType, SeenListed DEF Begin, Quiet, TypeOK
  <2>2. PlanInv'
    BY <1>1, SeenType, SeenListed DEF Begin, Quiet, PlanInv
  <2>3. TokenInv'
    BY <1>1, ConfigAssumption, SeenType, SeenListed DEF Begin, Quiet, TypeOK, TokenInv
  <2>4. HeldInv'
    <3>1. Seen' = Seen
      BY <1>1 DEF Begin, Quiet, Undo, Seen
    <3> QED BY <1>1, <3>1 DEF Begin, Quiet, Undo, HeldInv, Matches, Off
  <2> QED BY <2>1, <2>2, <2>3, <2>4 DEF IInv
<1>2. ASSUME ReconcileRelation, TypeOK, PlanInv, TokenInv, HeldInv PROVE IInv'
  <2>1. TypeOK'
    BY <1>2, BoundsAssumption, CurrentType DEF ReconcileRelation, Quiet, Fault,
           CreateAuthToken, Listed, Orphans, TypeOK
  <2>2. PlanInv'
    BY <1>2, CurrentType DEF ReconcileRelation, Quiet, Fault, CreateAuthToken, Listed,
           Orphans, PlanInv
  <2>3. TokenInv'
    BY <1>2, ConfigAssumption, CurrentType DEF ReconcileRelation, Quiet, Fault,
           CreateAuthToken, Listed, Orphans, TypeOK, TokenInv
  <2>4. HeldInv'
    <3>1. Seen' = Seen
      BY <1>2 DEF ReconcileRelation, Quiet, Undo, Seen
    <3> QED BY <1>2, <3>1 DEF ReconcileRelation, Quiet, Undo, HeldInv, Matches,
                   Off
  <2> QED BY <2>1, <2>2, <2>3, <2>4 DEF IInv
<1>3. ASSUME RejectDeclaration, TypeOK, PlanInv, TokenInv, HeldInv PROVE IInv'
  <2>1. TypeOK'
    BY <1>3, BoundsAssumption, CurrentType DEF RejectDeclaration, Quiet, Undo,
           CreateAuthToken, Listed, Orphans, TypeOK
  <2>2. PlanInv'
    BY <1>3, CurrentType DEF RejectDeclaration, Quiet, Undo, CreateAuthToken, Listed,
           Orphans, PlanInv
  <2>3. TokenInv'
    BY <1>3, ConfigAssumption, CurrentType DEF RejectDeclaration, Quiet, Undo,
           CreateAuthToken, Listed, Orphans, TypeOK, TokenInv
  <2>4. HeldInv'
    <3>1. Seen' = Seen
      BY <1>3 DEF RejectDeclaration, Quiet, Undo, Seen
    <3> QED BY <1>3, <3>1 DEF RejectDeclaration, Quiet, Undo, HeldInv, Matches,
                   Off
  <2> QED BY <2>1, <2>2, <2>3, <2>4 DEF IInv
<1>4. ASSUME ListFlavors, TypeOK, PlanInv, TokenInv, HeldInv PROVE IInv'
  <2>1. TypeOK'
    BY <1>4, BoundsAssumption DEF ListFlavors, Quiet, FlavorPlan, Listed, TypeOK
  <2>2. PlanInv'
    <3>1. view' = view /\ plan' = FlavorPlan(view)
      BY <1>4 DEF ListFlavors
    <3>2. flavors' = flavors
      BY <1>4 DEF ListFlavors
    <3>3. ASSUME NEW f \in Flavors, Wanted(view, f) = Nothing PROVE plan'[f] \in {"keep", "drop"}
      BY <3>1, <3>3 DEF FlavorPlan
    <3>4. ASSUME NEW f \in Flavors, Wanted(view, f) # Nothing
          PROVE  /\ plan'[f] # "drop"
                 /\ plan'[f] = "create" => flavors[f] = Absent
                 /\ plan'[f] = "replace" => ~Matches(f, Wanted(view, f))
      BY <3>1, <3>4 DEF FlavorPlan
    <3> QED BY <3>1, <3>2, <3>3, <3>4 DEF PlanInv, Matches
  <2>3. TokenInv'
    BY <1>4, ConfigAssumption DEF ListFlavors, Quiet, FlavorPlan, Listed, TypeOK,
           TokenInv
  <2>4. HeldInv'
    <3>1. Seen' = Seen
      BY <1>4 DEF ListFlavors, Quiet, Seen
    <3> QED BY <1>4, <3>1 DEF ListFlavors, Quiet, HeldInv, Matches, Off
  <2> QED BY <2>1, <2>2, <2>3, <2>4 DEF IInv
<1>5. ASSUME NEW f \in Flavors, SyncFlavor(f), TypeOK, PlanInv, TokenInv, HeldInv PROVE IInv'
  <2>1. TypeOK'
    <3>1. flavors' \in [Flavors -> [cfg : Configs, disabled : BOOLEAN] \union {Absent}]
      <4>1. CASE DeleteFlavor(f)
        BY <1>5, <4>1 DEF DeleteFlavor, TypeOK
      <4>2. CASE plan[f] = "create" /\ CreateFlavor(f, Wanted(view, f))
        <5>1. Lower(Wanted(view, f)) \in Configs
          BY <1>5, <4>2, WantedType, ConfigAssumption DEF SyncFlavor, PlanInv
        <5> QED BY <1>5, <4>2, <5>1 DEF CreateFlavor, TypeOK
      <4> QED BY <1>5, <4>1, <4>2 DEF SyncFlavor
    <3>2. plan' \in [Flavors -> {"keep", "create", "replace", "drop"}]
      BY <1>5 DEF SyncFlavor, TypeOK
    <3>3. UNCHANGED <<rel, decl, setup, due, token, secret, sent, pc, view, known, todo, fresh,
                      edits, faults, lost, held>>
      BY <1>5 DEF SyncFlavor, Quiet
    <3> QED BY <1>5, <3>1, <3>2, <3>3 DEF TypeOK
  <2>2. PlanInv'
    <3>1. view' = view /\ pc = "flavors"
      BY <1>5 DEF SyncFlavor
    <3>2. \A g \in Flavors : g # f => plan'[g] = plan[g] /\ flavors'[g] = flavors[g]
      BY <1>5 DEF SyncFlavor, DeleteFlavor, CreateFlavor, TypeOK
    <3>3. \/ plan'[f] = "keep"
          \/ plan'[f] = "create" /\ plan[f] = "replace" /\ flavors'[f] = Absent
      BY <1>5 DEF SyncFlavor, DeleteFlavor, TypeOK
    <3> QED BY <1>5, <3>1, <3>2, <3>3 DEF PlanInv, Matches
  <2>3. TokenInv'
    BY <1>5, ConfigAssumption DEF SyncFlavor, Quiet, DeleteFlavor, CreateFlavor, Listed,
           TypeOK, TokenInv
  <2>4. HeldInv'
    <3>1. Seen' = Seen /\ held' = held /\ held \subseteq Flavors
      BY <1>5 DEF SyncFlavor, Quiet, Seen, TypeOK
    <3>2. \A g \in Flavors : g # f => flavors'[g] = flavors[g]
      BY <1>5 DEF SyncFlavor, DeleteFlavor, CreateFlavor, TypeOK
    <3>3. ~Off(f)'
      <4>1. CASE DeleteFlavor(f)
        BY <1>5, <4>1 DEF DeleteFlavor, TypeOK, Off
      <4>2. CASE plan[f] = "create" /\ CreateFlavor(f, Wanted(view, f))
        BY <1>5, <4>2 DEF SyncFlavor, CreateFlavor, PlanInv, TypeOK, Off
      <4> QED BY <1>5, <4>1, <4>2 DEF SyncFlavor
    <3> QED BY <1>5, <3>1, <3>2, <3>3 DEF HeldInv, Matches, Off
  <2> QED BY <2>1, <2>2, <2>3, <2>4 DEF IInv
<1>6. ASSUME FindOrphans, TypeOK, PlanInv, TokenInv, HeldInv PROVE IInv'
  <2>1. TypeOK'
    BY <1>6, BoundsAssumption DEF FindOrphans, Quiet, Orphans, Listed, TypeOK
  <2>2. PlanInv'
    BY <1>6 DEF FindOrphans, Quiet, Orphans, Listed, PlanInv
  <2>3. TokenInv'
    BY <1>6, ConfigAssumption DEF FindOrphans, Quiet, Orphans, Listed, TypeOK, TokenInv
  <2>4. HeldInv'
    <3>1. Seen' = Seen
      BY <1>6 DEF FindOrphans, Quiet, Undo, Seen
    <3> QED BY <1>6, <3>1 DEF FindOrphans, Quiet, Undo, HeldInv, Matches, Off
  <2> QED BY <2>1, <2>2, <2>3, <2>4 DEF IInv
<1>7. ASSUME NEW r \in Relations, DeleteOrphan(r), TypeOK, PlanInv, TokenInv, HeldInv PROVE IInv'
  <2>1. TypeOK'
    BY <1>7, BoundsAssumption DEF DeleteOrphan, Quiet, DeleteAuthToken, Orphans, Listed,
           TypeOK
  <2>2. PlanInv'
    BY <1>7 DEF DeleteOrphan, Quiet, DeleteAuthToken, Orphans, Listed, PlanInv
  <2>3. TokenInv'
    BY <1>7, ConfigAssumption DEF DeleteOrphan, Quiet, DeleteAuthToken, Orphans, Listed,
           TypeOK, TokenInv
  <2>4. HeldInv'
    <3>1. Seen' = Seen
      BY <1>7 DEF DeleteOrphan, Quiet, Undo, Seen
    <3> QED BY <1>7, <3>1 DEF DeleteOrphan, Quiet, Undo, HeldInv, Matches, Off
  <2> QED BY <2>1, <2>2, <2>3, <2>4 DEF IInv
<1>8. ASSUME Commit, TypeOK, PlanInv, TokenInv, HeldInv PROVE IInv'
  <2>1. TypeOK'
    BY <1>8, BoundsAssumption DEF Commit, Quiet, Orphans, Listed, TypeOK
  <2>2. PlanInv'
    BY <1>8 DEF Commit, Quiet, Orphans, Listed, PlanInv
  <2>3. TokenInv'
    BY <1>8, ConfigAssumption DEF Commit, Quiet, Orphans, Listed, TypeOK, TokenInv
  <2>4. HeldInv'
    <3>1. Seen' = Seen
      BY <1>8 DEF Commit, Quiet, Undo, Seen
    <3> QED BY <1>8, <3>1 DEF Commit, Quiet, Undo, HeldInv, Matches, Off
  <2> QED BY <2>1, <2>2, <2>3, <2>4 DEF IInv
<1>9. ASSUME Crash, TypeOK, PlanInv, TokenInv, HeldInv PROVE IInv'
  <2>1. TypeOK'
    BY <1>9, BoundsAssumption DEF Crash, Fault, Undo, Quiet, Listed, TypeOK
  <2>2. PlanInv'
    BY <1>9 DEF Crash, Fault, Undo, Quiet, Listed, PlanInv
  <2>3. TokenInv'
    BY <1>9, ConfigAssumption DEF Crash, Fault, Undo, Quiet, Listed, TypeOK, TokenInv
  <2>4. HeldInv'
    <3>1. Seen' = Seen
      BY <1>9 DEF Crash, Quiet, Undo, Seen
    <3> QED BY <1>9, <3>1 DEF Crash, Quiet, Undo, HeldInv, Matches, Off
  <2> QED BY <2>1, <2>2, <2>3, <2>4 DEF IInv
<1> QED BY <1>1, <1>2, <1>3, <1>4, <1>5, <1>6, <1>7, <1>8, <1>9 DEF IInv, Hook

LEMMA NextInv == IInv /\ [Next]_vars => IInv'
<1> SUFFICES ASSUME IInv, [Next]_vars PROVE IInv'
  OBVIOUS
<1>1. CASE UNCHANGED vars
  <2>1. Seen' = Seen
    BY <1>1 DEF vars, Seen
  <2> QED BY <1>1, <2>1 DEF vars, IInv, TypeOK, PlanInv, TokenInv, HeldInv, Matches,
                 Off,
                            Listed, Orphans
<1>2. CASE Next
  BY <1>2, WorldKeeps, HookKeeps DEF Next
<1> QED BY <1>1, <1>2

\* The invariant holds of every state the charm and its relations reach.
THEOREM InvariantHolds == Spec => []IInv
<1> QED BY InitInv, NextInv, PTL DEF Spec

\* The type invariant, with what a hook leaves behind when it ends or fails.
THEOREM TypeCorrect == Spec => []TypeOK
<1>1. IInv => TypeOK
  BY DEF IInv
<1> QED BY <1>1, InvariantHolds, PTL

\* A relation that was given a token keeps it while it lasts, for any number of
\* relations made or broken and of hooks that fail in between.
THEOREM TokensAreKept == Spec => []TokenKept
<1>1. IInv => TokenKept
  BY DEF IInv, TokenInv, TokenKept
<1> QED BY <1>1, InvariantHolds, PTL

\* A flavor that was as declared when the operator disabled it stays disabled,
\* for any number of hooks and changes, unless the running hook goes through it
\* with an older declaration; a hook that saw the same one has nothing to do
\* with it.
THEOREM DisablesAreKept == Spec => DisableKept
<1>1. IInv /\ [Next]_vars =>
        [\A f \in held \intersect held' :
           Off(f) /\ ~Off(f)' => pc = "flavors" /\ Wanted(view, f) # Wanted(Seen, f)]_vars
  <2> SUFFICES ASSUME IInv, Next, NEW f \in held, f \in held', Off(f), ~Off(f)'
               PROVE  pc = "flavors" /\ Wanted(view, f) # Wanted(Seen, f)
    OBVIOUS
  <2>1. f \in Flavors /\ Matches(f, Wanted(Seen, f)) /\ flavors[f] # Absent
    BY DEF IInv, TypeOK, HeldInv, Off
  <2>2. flavors' # flavors
    BY DEF Off
  <2>3. ASSUME NEW g \in Flavors, SyncFlavor(g) PROVE pc = "flavors" /\ Wanted(view, f) # Wanted(Seen, f)
    <3>1. pc = "flavors" /\ f = g
      BY <2>1, <2>3 DEF SyncFlavor, DeleteFlavor, CreateFlavor, IInv, TypeOK, Off
    <3>2. plan[f] \in {"replace", "drop"}
      BY <2>1, <2>3, <3>1 DEF SyncFlavor, IInv, PlanInv
    <3>3. Wanted(Seen, f) # Nothing
      BY <2>1, ConfigAssumption DEF IInv, TypeOK, Matches
    <3> QED BY <2>1, <3>1, <3>2, <3>3 DEF IInv, PlanInv
  <2>4. ~ \E g \in Flavors : DisableFlavor(g)
    BY <2>1, ConfigAssumption DEF DisableFlavor, UpdateFlavor, IInv, TypeOK, Off
  <2>5. ~ \E g \in Flavors : EnableFlavor(g)
    BY <2>1, ConfigAssumption DEF EnableFlavor, UpdateFlavor, IInv, TypeOK, Off
  <2>6. \E g \in Flavors : SyncFlavor(g)
    BY <2>2, <2>4, <2>5 DEF Next, World, Relate, Declare, Break, Redeclare, SetUp, Begin, Hook,
         ReconcileRelation, RejectDeclaration, ListFlavors, FindOrphans, DeleteOrphan, Commit,
         Crash, Undo
  <2> QED BY <2>3, <2>6
<1> QED BY <1>1, InvariantHolds, PTL DEF Spec, DisableKept

=============================================================================
