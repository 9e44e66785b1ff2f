---------------------------- MODULE DrainDeadline ----------------------------
(***************************************************************************)
(* How long a scale set has been draining, as the reconciler can tell: the *)
(* only clock it has is updated_at, the time of GARM's last write to the   *)
(* row (_drain_deadline_passed).  One generation that still lists an       *)
(* instance in a status GARM accepts no delete for, as operators turn it   *)
(* into a target, a replaced predecessor or an orphan and back, with a     *)
(* pass at least every Interval units of time.                             *)
(***************************************************************************)
EXTENDS Naturals

CONSTANTS Deadline,   \* DRAIN_DEADLINE
          Interval    \* the longest time between two passes (update-status)

ASSUME DeadlineAssumption ==
  Deadline \in Nat \ {0} /\ Interval \in Nat \ {0}

VARIABLES
  role,     \* what the last relation data make of the generation
  seen,     \* the replacement of a replaced generation is up
  enabled,  \* GARM's flag
  rowAge,   \* time since GARM last wrote the row (updated_at)
  offAge,   \* time since the scale set was last disabled, 0 while enabled
  hookAge,  \* time since the last pass
  past,     \* what the last pass took for an expired drain: "no", "removed" the
            \* instances directly, or "reported" the undeletable one
  since     \* offAge when it did so

vars == <<role, seen, enabled, rowAge, offAge, hookAge, past, since>>

Ages == 0..Deadline + 1

TypeOK ==
  /\ role \in {"target", "replaced", "orphan"}
  /\ seen \in BOOLEAN /\ enabled \in BOOLEAN
  /\ rowAge \in Ages /\ offAge \in Ages /\ since \in Ages
  /\ hookAge \in 0..Interval
  /\ past \in {"no", "removed", "reported"}

Init ==
  /\ role = "target" /\ seen = FALSE /\ enabled = TRUE
  /\ rowAge = 0 /\ offAge = 0 /\ hookAge = 0
  /\ past = "no" /\ since = 0

\* _drain_deadline_passed
PastDeadline == rowAge > Deadline

-----------------------------------------------------------------------------
(* Time, the operator, and GARM's own writes.                              *)

Older(age) == IF age > Deadline THEN age ELSE age + 1

Tick ==
  /\ hookAge < Interval
  /\ hookAge' = hookAge + 1
  /\ rowAge' = Older(rowAge)
  /\ offAge' = IF enabled THEN 0 ELSE Older(offAge)
  /\ UNCHANGED <<role, seen, enabled, past, since>>

\* The labels change (the replacement comes up later), the spec is removed, or
\* either is reverted.
Reconfigure ==
  /\ role' \in {"target", "replaced", "orphan"} \ {role}
  /\ seen' = FALSE
  /\ UNCHANGED <<enabled, rowAge, offAge, hookAge, past, since>>

ReplacementUp ==
  /\ role = "replaced" /\ ~seen
  /\ seen' = TRUE
  /\ UNCHANGED <<role, enabled, rowAge, offAge, hookAge, past, since>>

\* SetScaleSetLastMessageID, SetScaleSetDesiredRunnerCount: the listener's
\* message handler, stopped once the scale set is disabled.
ListenerWrites ==
  /\ enabled
  /\ rowAge' = 0
  /\ UNCHANGED <<role, seen, enabled, offAge, hookAge, past, since>>

-----------------------------------------------------------------------------
(* A pass, by what the generation is.  A refused write changes nothing.    *)

Write(flag) ==
  /\ enabled' = flag
  /\ rowAge' = 0
  /\ offAge' = IF flag \/ enabled THEN 0 ELSE offAge

Expire(effect, expired) ==
  /\ past' = IF expired THEN effect ELSE "no"
  /\ since' = IF expired THEN offAge ELSE 0

NothingWritten ==
  /\ UNCHANGED <<enabled, rowAge, offAge>>
  /\ Expire("no", FALSE)

\* _maybe_update: a disabled target is enabled again.
PassTarget ==
  /\ role = "target"
  /\ \/ NothingWritten
     \/ ~enabled /\ Write(TRUE) /\ Expire("no", FALSE)

\* Seeded fault: the deadline is looked at before the enabled flag.
PassReplaced_DeadlineFirst ==
  /\ role = "replaced"
  /\ \/ NothingWritten
     \/ seen /\ enabled /\ ~PastDeadline /\ Write(FALSE) /\ Expire("no", FALSE)
     \/ seen /\ PastDeadline /\ UNCHANGED <<enabled, rowAge, offAge>>
        /\ Expire("removed", TRUE)

\* _advance_retirement: the predecessor is disabled once, and from then on its
\* row is left alone until the deadline.
PassReplaced ==
  /\ role = "replaced"
  /\ \/ ~seen /\ NothingWritten
     \/ seen /\ enabled /\ NothingWritten
     \/ seen /\ enabled /\ Write(FALSE) /\ Expire("no", FALSE)
     \/ seen /\ ~enabled /\ UNCHANGED <<enabled, rowAge, offAge>>
        /\ Expire("removed", PastDeadline)

\* _delete_orphaned: _disable writes the row on every pass; past_deadline comes
\* from the row as the pass had read it.
PassOrphan ==
  /\ role = "orphan"
  /\ \/ NothingWritten
     \/ Write(FALSE) /\ Expire("reported", PastDeadline)

Pass ==
  /\ PassTarget \/ PassReplaced \/ PassOrphan
  /\ hookAge' = 0
  /\ UNCHANGED <<role, seen>>

Next == Tick \/ Reconfigure \/ ReplacementUp \/ ListenerWrites \/ Pass

Spec == Init /\ [][Next]_vars

-----------------------------------------------------------------------------
(* Properties.                                                             *)

\* A predecessor's instances are removed directly only when the scale set has
\* been disabled for all of DRAIN_DEADLINE, through any sequence of changeovers,
\* reverts and removals of the spec: updated_at is a sound clock for it.
RemovedInTime == past = "removed" => since > Deadline

=============================================================================
