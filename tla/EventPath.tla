----------------------------- MODULE EventPath -----------------------------
(* The whole way of an event, from GitHub's first attempt to the job table: *)
(* the gateway and its redelivery daemon (WebhookDelivery) in front of the  *)
(* queue and the planner's consumers (JobPipeline).  They meet at the       *)
(* broker: what it takes from the gateway is what consumers pull, a         *)
(* consumer binds the queue before it asks for it, and a broker that goes   *)
(* down takes the consumer's connection with it.                            *)
EXTENDS JobPipeline, WebhookDelivery

ASSUME PathAssumption ==
  /\ Deliveries = Events
  /\ \A e \in JobEvents : e \in Routable <=> e[2] # "in_progress"

pathVars == <<vars, gatewayVars>>

PathInit == Init /\ GatewayInit

-----------------------------------------------------------------------------
\* The broker takes a message for the queue, or drops it for want of one.
Route(e) == bound /\ Take(e) /\ Deliver(e)
Drop(e) == ~bound /\ Take(e) /\ UNCHANGED vars

\* What the gateway does for a request.
Request(e) ==
  \/ Route(e) \/ Drop(e)
  \/ (Publish(e) \/ Answer(e) \/ Refuse(e)) /\ UNCHANGED vars

Watch == Daemon /\ UNCHANGED vars
Time == Elapse /\ UNCHANGED vars
Recover == BrokerUp /\ UNCHANGED vars

\* The queue and its messages are durable; the consumer's connection is not.
BrokerFails ==
  /\ BrokerDown
  /\ IF attached = {} THEN UNCHANGED vars ELSE \E c \in attached : Disconnect(c)

\* ensureQueueTopology, then Consume.
Binds == broker /\ Bind /\ UNCHANGED vars
Joins(c) == broker /\ bound /\ Connect(c) /\ UNCHANGED gatewayVars

Handles(c) == Works(c) /\ UNCHANGED gatewayVars
Suffers(c) == (HandleFails(c) \/ Disconnect(c) \/ Crash(c)) /\ UNCHANGED gatewayVars

PathNext ==
  \/ \E e \in Events : (FirstAttempt(e) /\ UNCHANGED vars) \/ Request(e)
  \/ Watch \/ Time \/ Recover
  \/ Restart /\ UNCHANGED vars
  \/ BrokerFails \/ Binds
  \/ \E c \in Consumers : Joins(c) \/ Handles(c) \/ Suffers(c)

PathSpec == PathInit /\ [][PathNext]_pathVars

\* What WebhookDelivery and JobPipeline assume of their own parts.
FairPathSpec ==
  /\ PathSpec
  /\ \A e \in Events : WF_pathVars(Request(e))
  /\ WF_pathVars(Watch) /\ WF_pathVars(Time) /\ WF_pathVars(Recover)
  /\ \A c \in Consumers : WF_pathVars(Joins(c)) /\ WF_pathVars(Handles(c))

-----------------------------------------------------------------------------
(* Properties.                                                             *)

\* What GitHub was told is delivered is in the queue, with the consumer that has
\* the queue, or recorded, unless it came before any queue was bound: no failure on
\* either side of the broker takes back what the 200 has promised.
AnsweredIsKept ==
  \A e \in Events :
    attempt[e] = "ok" =>
      \/ e \in unrouted
      \/ \E i \in 1..Len(queue) : queue[i] = e
      \/ \E c \in attached : msg[c] = e
      \/ Recorded(e)

\* Every event that is redelivered at all is recorded once GitHub has tried it,
\* however many attempts, consumers and connections fail, unless it came before any
\* queue was bound or the daemon was kept from seeing an attempt.
EventsRecorded ==
  \A e \in Routable :
    (attempt[e] # "none") ~> (Recorded(e) \/ e \in unrouted \union unseen)

=============================================================================
