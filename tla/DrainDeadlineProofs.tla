------------------------- MODULE DrainDeadlineProofs -------------------------
(***************************************************************************)
(* updated_at is a sound clock for a replaced predecessor, for any         *)
(* deadline and any time between two passes: while a generation is         *)
(* disabled, the row is never older than the disabling (RowIsYounger),     *)
(* because the write that disables it is a write like any other.           *)
(***************************************************************************)
EXTENDS DrainDeadline, TLAPS

RowIsYounger == ~enabled => rowAge <= offAge

IInv == TypeOK /\ RowIsYounger /\ RemovedInTime

LEMMA InvInit == Init => IInv
<1>. SUFFICES ASSUME Init PROVE IInv
  OBVIOUS
<1>1. TypeOK
  <2>1. 0 \in Ages /\ 0 \in 0..Interval
    BY DeadlineAssumption DEF Ages
  <2>2. rowAge \in Ages /\ offAge \in Ages /\ since \in Ages /\ hookAge \in 0..Interval
    BY <2>1 DEF Init
  <2>3. seen \in BOOLEAN /\ enabled \in BOOLEAN
    BY DEF Init
  <2>. QED BY <2>2, <2>3 DEF Init, TypeOK
<1>2. RowIsYounger /\ RemovedInTime
  BY DEF Init, RowIsYounger, RemovedInTime
<1>. QED BY <1>1, <1>2 DEF IInv

LEMMA InvTick == IInv /\ Tick => IInv'
<1>. SUFFICES ASSUME IInv, Tick PROVE IInv'
  OBVIOUS
<1>. USE DeadlineAssumption DEF IInv, Tick, Older, Ages
<1>1. TypeOK'
  BY DEF TypeOK
<1>2. RowIsYounger'
  BY DEF TypeOK, RowIsYounger
<1>3. RemovedInTime'
  BY DEF RemovedInTime
<1>. QED BY <1>1, <1>2, <1>3

\* What a write does, whichever flag it sets: the row starts over, and so does
\* the time since the disabling, unless the scale set was disabled already.
LEMMA WriteKeeps ==
  ASSUME IInv, NEW flag \in BOOLEAN, Write(flag)
  PROVE  /\ enabled' \in BOOLEAN /\ rowAge' \in Ages /\ offAge' \in Ages
         /\ RowIsYounger'
  BY DeadlineAssumption DEF IInv, Write, TypeOK, Ages, RowIsYounger

LEMMA PassKeeps ==
  ASSUME IInv, Pass
  PROVE  IInv'
<1>1. /\ hookAge' \in 0..Interval /\ UNCHANGED <<role, seen>>
      /\ role \in {"target", "replaced", "orphan"} /\ seen \in BOOLEAN
      /\ enabled \in BOOLEAN /\ rowAge \in Ages /\ offAge \in Ages
  BY DeadlineAssumption DEF Pass, IInv, TypeOK
<1>2. /\ enabled' \in BOOLEAN /\ rowAge' \in Ages /\ offAge' \in Ages
      /\ RowIsYounger'
  <2>1. CASE UNCHANGED <<enabled, rowAge, offAge>>
    BY <1>1, <2>1 DEF IInv, RowIsYounger
  <2>2. CASE Write(TRUE) \/ Write(FALSE)
    BY <2>2, WriteKeeps
  <2>. QED
    BY <2>1, <2>2 DEF Pass, PassTarget, PassReplaced, PassOrphan, NothingWritten
<1>3. /\ past' \in {"no", "removed", "reported"} /\ since' \in Ages
      /\ RemovedInTime'
  <2>1. CASE \E effect \in {"no", "reported"}, expired \in BOOLEAN : Expire(effect, expired)
    BY <1>1, <2>1, DeadlineAssumption DEF Expire, Ages, RemovedInTime
  <2>2. CASE ~enabled /\ Expire("removed", PastDeadline)
    BY <1>1, <2>2, DeadlineAssumption
       DEF Expire, PastDeadline, Ages, RemovedInTime, IInv, RowIsYounger
  <2>3. PastDeadline \in BOOLEAN
    BY DEF PastDeadline
  <2>4. CASE PassReplaced
    BY <2>1, <2>2, <2>4 DEF PassReplaced, NothingWritten
  <2>5. CASE PassTarget \/ PassOrphan
    BY <2>1, <2>3, <2>5 DEF PassTarget, PassOrphan, NothingWritten
  <2>. QED BY <2>4, <2>5 DEF Pass
<1>. QED BY <1>1, <1>2, <1>3 DEF IInv, TypeOK

LEMMA InvNext == IInv /\ [Next]_vars => IInv'
<1>. SUFFICES ASSUME IInv, [Next]_vars PROVE IInv'
  OBVIOUS
<1>1. CASE Tick
  BY <1>1, InvTick
<1>2. CASE Reconfigure
  BY <1>2 DEF Reconfigure, IInv, TypeOK, Ages, RowIsYounger, RemovedInTime
<1>3. CASE ReplacementUp
  BY <1>3 DEF ReplacementUp, IInv, TypeOK, Ages, RowIsYounger, RemovedInTime
<1>4. CASE ListenerWrites
  BY <1>4, DeadlineAssumption
     DEF ListenerWrites, IInv, TypeOK, Ages, RowIsYounger, RemovedInTime
<1>5. CASE Pass
  BY <1>5, PassKeeps
<1>6. CASE UNCHANGED vars
  BY <1>6 DEF vars, IInv, TypeOK, Ages, RowIsYounger, RemovedInTime
<1>. QED BY <1>1, <1>2, <1>3, <1>4, <1>5, <1>6 DEF Next

THEOREM InvariantHolds == Spec => []IInv
  BY InvInit, InvNext, PTL DEF Spec

\* A predecessor's instances are removed directly only after a full
\* DRAIN_DEADLINE of draining, whatever the operator does and whatever GARM
\* writes while the scale set is enabled.
THEOREM DeadlineIsSound == Spec => []RemovedInTime
<1>1. IInv => RemovedInTime
  BY DEF IInv
<1>. QED BY <1>1, InvariantHolds, PTL

=============================================================================
