---------------------------- MODULE EventPathProofs ----------------------------
(* The gateway and the redelivery daemon, for any events, any interval and any *)
(* number of failures: types, OkIsStored, NoneForgotten.  And the whole path:  *)
(* AnsweredIsKept, which needs the invariants of the gateway and of the intake *)
(* and what the two agree on about the broker (BrokerInv).                     *)
(*                                                                             *)
(* The windows of the daemon overlap just enough because an attempt that no    *)
(* cycle has looked at is not older than the time since the last tick, or, if  *)
(* the tick still waits, than the interval (InTime).                           *)
EXTENDS EventPath, PlannerProofs

\* The broker answers for what it took.
TakenIsStored ==
  \A e \in Deliveries : attempt[e] \in {"taken", "ok"} => e \in stored \union unrouted

InTime ==
  \A e \in Routable :
    Unsettled(e) /\ e \notin todo \union unseen
      => age[e] <= IF tick THEN Interval ELSE Interval - next

GatewayInv == GatewayTypeOK /\ TakenIsStored /\ InTime

USE DEF gateway, world, daemon

LEMMA RoutableEvents == Routable \subseteq Deliveries
BY DEF Deliveries

LEMMA GatewayInvInit == GatewayInit => GatewayInv
<1> SUFFICES ASSUME GatewayInit PROVE GatewayInv
  OBVIOUS
<1>1. GatewayTypeOK
  <2>1. bound \in BOOLEAN /\ broker \in BOOLEAN /\ tick \in BOOLEAN
    BY DEF GatewayInit
  <2>2. /\ age \in [Deliveries -> 0 .. Interval + 1]
        /\ next \in 1 .. Interval /\ failures \in 0 .. MaxFailures
    BY IntervalAssumption, FailureAssumption DEF GatewayInit
  <2> QED BY <2>1, <2>2 DEF GatewayInit, GatewayTypeOK
<1>2. TakenIsStored /\ InTime
  BY RoutableEvents DEF GatewayInit, TakenIsStored, InTime, Unsettled
<1> QED BY <1>1, <1>2 DEF GatewayInv

LEMMA GatewayInvNext == GatewayInv /\ [GatewayNext]_gatewayVars => GatewayInv'
<1> SUFFICES ASSUME GatewayInv, [GatewayNext]_gatewayVars PROVE GatewayInv'
  OBVIOUS
<1> USE IntervalAssumption, RoutableEvents, FailureAssumption
        DEF GatewayInv, GatewayTypeOK, TakenIsStored, InTime, Unsettled
<1>1. ASSUME NEW e \in Deliveries, FirstAttempt(e) PROVE GatewayInv'
  <2>1. GatewayTypeOK'
    BY <1>1 DEF FirstAttempt, Begins, Opened
  <2>2. TakenIsStored'
    BY <1>1 DEF FirstAttempt, Begins, Opened
  <2>3. InTime'
    BY <1>1 DEF FirstAttempt, Begins, Opened
  <2> QED BY <2>1, <2>2, <2>3
<1>2. ASSUME NEW e \in Deliveries, Publish(e) PROVE GatewayInv'
  <2>1. GatewayTypeOK'
    BY <1>2 DEF Publish, Becomes, Opened
  <2>2. TakenIsStored'
    BY <1>2 DEF Publish, Becomes, Opened
  <2>3. InTime'
    BY <1>2 DEF Publish, Becomes, Opened
  <2> QED BY <2>1, <2>2, <2>3
<1>3. ASSUME NEW e \in Deliveries, Take(e) PROVE GatewayInv'
  <2>1. GatewayTypeOK'
    BY <1>3 DEF Take, Becomes, Opened
  <2>2. TakenIsStored'
    BY <1>3 DEF Take, Becomes, Opened
  <2>3. InTime'
    BY <1>3 DEF Take, Becomes, Opened
  <2> QED BY <2>1, <2>2, <2>3
<1>4. ASSUME NEW e \in Deliveries, Answer(e) PROVE GatewayInv'
  <2>1. GatewayTypeOK'
    BY <1>4 DEF Answer, Becomes, Opened
  <2>2. TakenIsStored'
    BY <1>4 DEF Answer, Becomes, Opened
  <2>3. InTime'
    BY <1>4 DEF Answer, Becomes, Opened
  <2> QED BY <2>1, <2>2, <2>3
<1>5. ASSUME NEW e \in Deliveries, Refuse(e) PROVE GatewayInv'
  <2>1. GatewayTypeOK'
    BY <1>5 DEF Refuse, Becomes, Opened, Failure
  <2>2. TakenIsStored'
    BY <1>5 DEF Refuse, Becomes, Opened, Failure
  <2>3. InTime'
    BY <1>5 DEF Refuse, Becomes, Opened, Failure
  <2> QED BY <2>1, <2>2, <2>3
<1>6. ASSUME NEW e \in Deliveries, Redeliver(e) PROVE GatewayInv'
  <2>1. GatewayTypeOK'
    BY <1>6 DEF Redeliver, Begins, Failure, Opened
  <2>2. TakenIsStored'
    BY <1>6 DEF Redeliver, Begins, Failure, Opened
  <2>3. InTime'
    BY <1>6 DEF Redeliver, Begins, Failure, Opened
  <2> QED BY <2>1, <2>2, <2>3
<1>7. ASSUME Cycle PROVE GatewayInv'
  <2>1. GatewayTypeOK'
    BY <1>7 DEF Cycle, InWindow, Redeliverable, Opened
  <2>2. TakenIsStored'
    BY <1>7 DEF Cycle, InWindow, Redeliverable, Opened
  <2>3. InTime'
    BY <1>7 DEF Cycle, InWindow, Redeliverable, Opened
  <2> QED BY <2>1, <2>2, <2>3
<1>8. ASSUME CycleFails PROVE GatewayInv'
  <2>1. GatewayTypeOK'
    <3>1. bound' \in BOOLEAN /\ broker' \in BOOLEAN /\ tick' \in BOOLEAN
      BY <1>8 DEF CycleFails, Failure, Opened
    <3>2. attempt' \in [Deliveries -> {"none", "arrived", "published", "taken", "ok", "failed"}]
      BY <1>8 DEF CycleFails, Failure, Opened
    <3>3. /\ age' \in [Deliveries -> 0 .. Interval + 1]
          /\ next' \in 1 .. Interval /\ failures' \in 0 .. MaxFailures
      BY <1>8 DEF CycleFails, Failure, Opened
    <3>4. /\ stored' \subseteq Deliveries /\ unrouted' \subseteq Deliveries
          /\ unseen' \subseteq Deliveries
          /\ todo' \subseteq Routable /\ \A e \in todo' : attempt'[e] = "failed"
      BY <1>8 DEF CycleFails, Failure, Opened
    <3> QED BY <3>1, <3>2, <3>3, <3>4
  <2>2. TakenIsStored'
    BY <1>8 DEF CycleFails, Failure, Opened
  <2>3. InTime'
    BY <1>8 DEF CycleFails, Failure, Opened
  <2> QED BY <2>1, <2>2, <2>3
<1>9. ASSUME Elapse PROVE GatewayInv'
  <2>1. GatewayTypeOK'
    <3>1. bound' \in BOOLEAN /\ broker' \in BOOLEAN /\ tick' \in BOOLEAN
      BY <1>9 DEF Elapse, Failure
    <3>2. attempt' \in [Deliveries -> {"none", "arrived", "published", "taken", "ok", "failed"}]
      BY <1>9 DEF Elapse, Failure
    <3>3. /\ age' \in [Deliveries -> 0 .. Interval + 1]
          /\ next' \in 1 .. Interval /\ failures' \in 0 .. MaxFailures
      BY <1>9 DEF Elapse, Failure
    <3>4. /\ stored' \subseteq Deliveries /\ unrouted' \subseteq Deliveries
          /\ unseen' \subseteq Deliveries
          /\ todo' \subseteq Routable /\ \A e \in todo' : attempt'[e] = "failed"
      BY <1>9 DEF Elapse, Failure
    <3> QED BY <3>1, <3>2, <3>3, <3>4
  <2>2. TakenIsStored'
    BY <1>9 DEF Elapse, Failure
  <2>3. InTime'
    BY <1>9 DEF Elapse, Failure
  <2> QED BY <2>1, <2>2, <2>3
<1>10. ASSUME Restart PROVE GatewayInv'
  <2>1. GatewayTypeOK'
    <3>1. bound' \in BOOLEAN /\ broker' \in BOOLEAN /\ tick' \in BOOLEAN
      BY <1>10 DEF Restart, Failure, Opened
    <3>2. attempt' \in [Deliveries -> {"none", "arrived", "published", "taken", "ok", "failed"}]
      BY <1>10 DEF Restart, Failure, Opened
    <3>3. /\ age' \in [Deliveries -> 0 .. Interval + 1]
          /\ next' \in 1 .. Interval /\ failures' \in 0 .. MaxFailures
      BY <1>10 DEF Restart, Failure, Opened
    <3>4. /\ stored' \subseteq Deliveries /\ unrouted' \subseteq Deliveries
          /\ unseen' \subseteq Deliveries
          /\ todo' \subseteq Routable /\ \A e \in todo' : attempt'[e] = "failed"
      BY <1>10 DEF Restart, Failure, Opened
    <3> QED BY <3>1, <3>2, <3>3, <3>4
  <2>2. TakenIsStored'
    BY <1>10 DEF Restart, Failure, Opened
  <2>3. InTime'
    BY <1>10 DEF Restart, Failure, Opened
  <2> QED BY <2>1, <2>2, <2>3
<1>11. ASSUME BrokerDown PROVE GatewayInv'
  <2>1. GatewayTypeOK'
    <3>1. bound' \in BOOLEAN /\ broker' \in BOOLEAN /\ tick' \in BOOLEAN
      BY <1>11 DEF BrokerDown, Failure
    <3>2. attempt' \in [Deliveries -> {"none", "arrived", "published", "taken", "ok", "failed"}]
      BY <1>11 DEF BrokerDown, Failure
    <3>3. /\ age' \in [Deliveries -> 0 .. Interval + 1]
          /\ next' \in 1 .. Interval /\ failures' \in 0 .. MaxFailures
      BY <1>11 DEF BrokerDown, Failure
    <3>4. /\ stored' \subseteq Deliveries /\ unrouted' \subseteq Deliveries
          /\ unseen' \subseteq Deliveries
          /\ todo' \subseteq Routable /\ \A e \in todo' : attempt'[e] = "failed"
      BY <1>11 DEF BrokerDown, Failure
    <3> QED BY <3>1, <3>2, <3>3, <3>4
  <2>2. TakenIsStored'
    BY <1>11 DEF BrokerDown, Failure
  <2>3. InTime'
    BY <1>11 DEF BrokerDown, Failure
  <2> QED BY <2>1, <2>2, <2>3
<1>12. ASSUME BrokerUp PROVE GatewayInv'
  <2>1. GatewayTypeOK'
    BY <1>12 DEF BrokerUp
  <2>2. TakenIsStored'
    BY <1>12 DEF BrokerUp
  <2>3. InTime'
    BY <1>12 DEF BrokerUp
  <2> QED BY <2>1, <2>2, <2>3
<1>13. ASSUME Bind PROVE GatewayInv'
  <2>1. GatewayTypeOK'
    BY <1>13 DEF Bind
  <2>2. TakenIsStored'
    BY <1>13 DEF Bind
  <2>3. InTime'
    BY <1>13 DEF Bind
  <2> QED BY <2>1, <2>2, <2>3
<1>14. ASSUME UNCHANGED gatewayVars PROVE GatewayInv'
  <2>1. GatewayTypeOK'
    BY <1>14 DEF gatewayVars
  <2>2. TakenIsStored'
    BY <1>14 DEF gatewayVars
  <2>3. InTime'
    BY <1>14 DEF gatewayVars
  <2> QED BY <2>1, <2>2, <2>3
<1> QED
  BY <1>1, <1>2, <1>3, <1>4, <1>5, <1>6, <1>7, <1>8, <1>9, <1>10, <1>11, <1>12, <1>13, <1>14
     DEF GatewayNext, Gateway, Daemon

THEOREM GatewayInvariantHolds == GatewaySpec => []GatewayInv
BY GatewayInvInit, GatewayInvNext, PTL DEF GatewaySpec

\* Types, and that the daemon has only failed attempts of routable events delivered
\* again.
THEOREM GatewayTypeCorrect == GatewaySpec => []GatewayTypeOK
BY GatewayInvariantHolds, PTL DEF GatewayInv

\* Whatever fails, and however often: what GitHub takes for delivered is in the
\* queue, or was dropped by a broker that had none bound.
THEOREM NothingOkIsMissing == GatewaySpec => []OkIsStored
<1>1. GatewayInv => OkIsStored
  BY DEF GatewayInv, TakenIsStored, OkIsStored
<1> QED BY <1>1, GatewayInvariantHolds, PTL

\* One interval is the right length of the daemon's window: no attempt falls
\* between two cycles, for any interval and any phase of attempt and ticker.
THEOREM NoAttemptForgotten == GatewaySpec => []NoneForgotten
<1>1. GatewayInv => NoneForgotten
  BY IntervalAssumption, RoutableEvents
     DEF GatewayInv, GatewayTypeOK, InTime, NoneForgotten, Unsettled
<1> QED BY <1>1, GatewayInvariantHolds, PTL

-----------------------------------------------------------------------------
(* The path.                                                               *)

\* The gateway's side and the consumer's side agree on what the broker has had, and
\* a broker that is down has no consumer.
BrokerInv ==
  /\ stored = Events \ unsent
  /\ ~broker => attached = {}

PathInv == IInv /\ GatewayInv /\ BrokerInv

USE DEF storeVars, brokerVars, consumerVars, countVars

\* To the intake, what happens around it is a delivery, a lost connection or nothing.
LEMMA PathStepIntake ==
  ASSUME IInv, [PathNext]_pathVars
  PROVE  [Next]_vars
<1>1. CASE BrokerFails
  <2>1. attached \subseteq Consumers
    BY DEF IInv, TypeOK
  <2> QED BY <1>1, <2>1 DEF BrokerFails, Next
<1>2. CASE PathNext /\ ~BrokerFails
  BY <1>2 DEF PathNext, Request, Route, Drop, Watch, Time, Recover, Binds, Joins, Handles,
              Suffers, Next
<1>3. CASE UNCHANGED pathVars
  BY <1>3 DEF pathVars
<1> QED BY <1>1, <1>2, <1>3

\* To the gateway, consumers do nothing but bind the queue.
LEMMA PathStepGateway ==
  ASSUME [PathNext]_pathVars
  PROVE  [GatewayNext]_gatewayVars
BY PathAssumption
   DEF PathNext, Request, Route, Drop, Watch, Time, Recover, BrokerFails, Binds, Joins, Handles,
       Suffers, GatewayNext, Gateway, pathVars

LEMMA PathInvInit == PathInit => PathInv
<1> SUFFICES ASSUME PathInit PROVE PathInv
  OBVIOUS
<1>1. BrokerInv
  BY DEF PathInit, Init, GatewayInit, BrokerInv
<1> QED BY <1>1, InitInv, GatewayInvInit DEF PathInit, PathInv

LEMMA PathInvNext == PathInv /\ [PathNext]_pathVars => PathInv'
<1> SUFFICES ASSUME PathInv, [PathNext]_pathVars PROVE PathInv'
  OBVIOUS
<1>1. IInv' /\ GatewayInv'
  BY PathStepIntake, PathStepGateway, NextInv, GatewayInvNext DEF PathInv
<1>2. BrokerInv'
  <2> USE DEF PathInv, BrokerInv
  <2>1. CASE \E e \in Events : Route(e)
    BY <2>1 DEF Route, Take, Deliver, Becomes
  <2>2. CASE \E e \in Events : Drop(e)
    BY <2>2 DEF Drop, Take, Becomes, vars
  <2>3. CASE /\ \E e \in Events : FirstAttempt(e) \/ Publish(e) \/ Answer(e) \/ Refuse(e)
             /\ UNCHANGED vars
    BY <2>3 DEF FirstAttempt, Publish, Answer, Refuse, Becomes, vars
  <2>4. CASE (Daemon \/ Elapse \/ BrokerUp \/ Restart \/ Bind) /\ UNCHANGED vars
    BY <2>4 DEF Daemon, Cycle, CycleFails, Redeliver, Elapse, BrokerUp, Restart, Bind, vars
  <2>5. CASE BrokerFails
    <3>1. \A c, d \in attached : c = d
      BY DEF IInv, TypeOK
    <3> QED BY <2>5, <3>1 DEF BrokerFails, BrokerDown, Disconnect, Detach, vars
  <2>6. CASE \E c \in Consumers : Joins(c)
    BY <2>6 DEF Joins, Connect, gatewayVars
  <2>7. CASE \E c \in Consumers : Handles(c)
    BY <2>7 DEF Handles, Works, Pull, HandleMessage, InsertMissing, Ack, Requeue, Discard, Settle,
                gatewayVars
  <2>8. CASE \E c \in Consumers : Suffers(c)
    BY <2>8 DEF Suffers, HandleFails, Disconnect, Crash, Detach, gatewayVars
  <2>9. CASE UNCHANGED pathVars
    BY <2>9 DEF pathVars, vars, gatewayVars
  <2> QED BY <2>1, <2>2, <2>3, <2>4, <2>5, <2>6, <2>7, <2>8, <2>9
          DEF PathNext, Request, Watch, Time, Recover, Binds
<1> QED BY <1>1, <1>2 DEF PathInv

\* The invariants of both sides and of the broker between them hold on the path.
THEOREM PathInvariantHolds == PathSpec => []PathInv
BY PathInvInit, PathInvNext, PTL DEF PathSpec

\* The path is composed of an intake and a gateway: what is proved of either holds here.
LEMMA PathFeedsIntake == PathSpec => Spec
<1>1. PathInv /\ [PathNext]_pathVars => [Next]_vars
  BY PathStepIntake DEF PathInv
<1> QED BY <1>1, PathInvariantHolds, PTL DEF PathSpec, PathInit, Spec

LEMMA PathIsGateway == PathSpec => GatewaySpec
BY PathStepGateway, PTL DEF PathSpec, PathInit, GatewaySpec

\* From the gateway to the table: the path leaves the table to single transactions of
\* its own specification, and drops no event the broker has had.
THEOREM PathKeepsStore == PathSpec => StoreSpec /\ []NothingLost
BY PathFeedsIntake, IntakeKeepsStore, NothingIsLost, PTL

\* No attempt falls between two cycles of the daemon.
THEOREM PathForgetsNone == PathSpec => []NoneForgotten
BY PathIsGateway, NoAttemptForgotten, PTL

\* What a 200 has promised is kept: an answered event was dropped for want of a queue,
\* or it is queued, with the consumer that has the queue, or recorded.
THEOREM AnsweredEventsAreKept == PathSpec => []AnsweredIsKept
<1>1. PathInv => AnsweredIsKept
  <2> SUFFICES ASSUME PathInv, NEW e \in Events, attempt[e] = "ok", e \notin unrouted
               PROVE  \/ \E i \in 1..Len(queue) : queue[i] = e
                      \/ \E c \in attached : msg[c] = e
                      \/ Recorded(e)
    BY DEF AnsweredIsKept
  <2>1. e \in stored
    BY PathAssumption DEF PathInv, GatewayInv, TakenIsStored
  <2>2. e \notin unsent
    BY <2>1 DEF PathInv, BrokerInv
  <2> QED BY <2>2 DEF PathInv, IInv, NothingLost
<1> QED BY <1>1, PathInvariantHolds, PTL

=============================================================================
