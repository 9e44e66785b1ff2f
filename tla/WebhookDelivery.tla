--------------------------- MODULE WebhookDelivery ---------------------------
(* The way of a webhook into the queue.  GitHub attempts a delivery once; the *)
(* gateway answers it from the broker's confirmation; the redelivery daemon,  *)
(* a goroutine of the gateway, asks GitHub once per interval for the attempts *)
(* of the last interval and has the failed ones delivered again.  Of an event *)
(* the model keeps the last attempt, and of times how many ticks of a clock   *)
(* ago the attempt began: the interval is Interval of them.                   *)
EXTENDS Naturals

CONSTANTS
  Routable,    \* events whose action is redelivered: "queued", "completed"
  InProgress,  \* events whose action is not
  Interval,    \* config.interval()
  MaxFailures  \* failures of any part

ASSUME IntervalAssumption == Interval \in Nat \ {0}
ASSUME EventAssumption == Routable \intersect InProgress = {}
ASSUME FailureAssumption == MaxFailures \in Nat

Deliveries == Routable \union InProgress

VARIABLES
  attempt,   \* "none", "arrived", "published", "taken", then "ok" or "failed"
  age,       \* time since the attempt began, up to Interval + 1
  bound,     \* a planner has declared the queue and bound it
  broker,    \* the broker can be reached
  stored,    \* events in the queue or beyond
  unrouted,  \* events the broker confirmed and dropped
  next,      \* time to the ticker's next tick
  tick,      \* a tick waits in the ticker's channel
  todo,      \* failed attempts of the listing the daemon works through
  failures,
  unseen     \* events whose attempt a failure kept from being seen or redelivered

gateway == <<attempt, stored, unrouted>>
world   == <<bound, broker>>
daemon  == <<next, tick, todo>>
gatewayVars == <<gateway, age, world, daemon, failures, unseen>>

Opened(e) == attempt[e] \in {"arrived", "published", "taken"}
Failure == failures < MaxFailures /\ failures' = failures + 1

-----------------------------------------------------------------------------
GatewayInit ==
  /\ attempt = [e \in Deliveries |-> "none"]
  /\ age = [e \in Deliveries |-> 0]
  /\ bound \in BOOLEAN /\ broker = TRUE
  /\ stored = {} /\ unrouted = {}
  /\ next = Interval /\ tick = FALSE /\ todo = {}
  /\ failures = 0 /\ unseen = {}

-----------------------------------------------------------------------------
(* A delivery through the gateway.                                         *)

Begins(e) ==
  /\ attempt' = [attempt EXCEPT ![e] = "arrived"]
  /\ age' = [age EXCEPT ![e] = 0]

FirstAttempt(e) ==
  /\ attempt[e] = "none"
  /\ Begins(e)
  /\ UNCHANGED <<stored, unrouted, world, daemon, failures, unseen>>

Becomes(e, outcome) ==
  /\ attempt' = [attempt EXCEPT ![e] = outcome]
  /\ UNCHANGED <<age, world, daemon>>

\* The request is read and its signature checked; Push gets a connection and a
\* channel and writes the message.
Publish(e) ==
  /\ attempt[e] = "arrived" /\ broker
  /\ Becomes(e, "published")
  /\ UNCHANGED <<stored, unrouted, failures, unseen>>

\* mandatory is false: the broker confirms what no queue is bound for.
Take(e) ==
  /\ attempt[e] = "published" /\ broker
  /\ Becomes(e, "taken")
  /\ IF bound THEN stored' = stored \union {e} /\ UNCHANGED unrouted
              ELSE unrouted' = unrouted \union {e} /\ UNCHANGED stored
  /\ UNCHANGED <<failures, unseen>>

\* Seeded fault: the gateway answers when the message is written.
Answer_Published(e) ==
  /\ attempt[e] \in {"published", "taken"}
  /\ Becomes(e, "ok")
  /\ UNCHANGED <<stored, unrouted, failures, unseen>>

Answer(e) ==
  /\ attempt[e] = "taken"
  /\ Becomes(e, "ok")
  /\ UNCHANGED <<stored, unrouted, failures, unseen>>

\* No connection, no confirmation, GitHub stops waiting, or the confirmation of a
\* message the broker has is lost.
Refuse(e) ==
  /\ Opened(e)
  /\ IF broker THEN Failure ELSE UNCHANGED failures
  /\ Becomes(e, "failed")
  /\ UNCHANGED <<stored, unrouted, unseen>>

-----------------------------------------------------------------------------
(* The daemon.                                                             *)

\* Seeded fault: the window leaves out the instant it begins at.
InWindow_Exclusive(e) == attempt[e] # "none" /\ age[e] < Interval

\* ListDeliveries stops at the first attempt from before since.
InWindow(e) == attempt[e] # "none" /\ age[e] <= Interval

\* isFailedRoutableDelivery.
Redeliverable(e) == attempt[e] = "failed" /\ e \in Routable

Unsettled(e) == attempt[e] \notin {"none", "ok"}

\* One tick: the listing succeeds.  An attempt not answered yet is before the
\* window of the next cycle.
Cycle ==
  /\ tick /\ todo = {}
  /\ tick' = FALSE
  /\ todo' = {e \in Deliveries : InWindow(e) /\ Redeliverable(e)}
  /\ unseen' = unseen \union {e \in Deliveries : Opened(e) /\ age[e] > 0}
  /\ UNCHANGED <<gateway, age, world, next, failures>>

\* The listing fails: the cycle is over, the next one looks at its own interval.
CycleFails ==
  /\ tick /\ todo = {}
  /\ Failure
  /\ tick' = FALSE
  /\ unseen' = unseen \union {e \in Deliveries : Unsettled(e)}
  /\ UNCHANGED <<gateway, age, world, next, todo>>

\* Seeded fault: the answer that GitHub has accepted the call is taken for an error.
Redeliver_NeverBegins(e) ==
  /\ e \in todo
  /\ todo' = todo \ {e}
  /\ UNCHANGED <<gateway, age, world, next, tick, failures, unseen>>

\* A call that GitHub has accepted or refused; a refused one is not repeated.
Redeliver(e) ==
  /\ e \in todo
  /\ todo' = todo \ {e}
  /\ \/ Begins(e) /\ unseen' = unseen \ {e} /\ UNCHANGED failures
     \/ Failure /\ unseen' = unseen \union {e} /\ UNCHANGED <<attempt, age>>
  /\ UNCHANGED <<stored, unrouted, world, next, tick>>

\* The ticker keeps one tick for a daemon that is still busy and drops others; the
\* window of a late cycle begins late.
Elapse ==
  /\ IF tick
       THEN /\ Failure
            /\ unseen' = unseen \union {e \in Deliveries : Unsettled(e) /\ age[e] = Interval}
       ELSE UNCHANGED <<failures, unseen>>
  /\ age' = [e \in Deliveries |->
               IF age[e] > Interval \/ attempt[e] = "none" THEN age[e] ELSE age[e] + 1]
  /\ IF next = 1 THEN next' = Interval /\ tick' = TRUE
                 ELSE next' = next - 1 /\ UNCHANGED tick
  /\ UNCHANGED <<gateway, world, todo>>

-----------------------------------------------------------------------------
(* The gateway's process, the broker and the planner.                      *)

\* A new process waits a whole interval and looks back one: what failed before
\* it started is not seen.
Restart ==
  /\ Failure
  /\ attempt' = [e \in Deliveries |-> IF Opened(e) THEN "failed" ELSE attempt[e]]
  /\ next' = Interval /\ tick' = FALSE /\ todo' = {}
  /\ unseen' = unseen \union {e \in Deliveries : Unsettled(e)}
  /\ UNCHANGED <<stored, unrouted, age, world>>

BrokerDown ==
  /\ broker /\ broker' = FALSE /\ Failure
  /\ UNCHANGED <<gateway, age, bound, daemon, unseen>>
BrokerUp == ~broker /\ broker' = TRUE /\ UNCHANGED <<gateway, age, bound, daemon, failures, unseen>>

\* The planner's consumer declares the queue when it first connects.
Bind == ~bound /\ bound' = TRUE /\ UNCHANGED <<gateway, age, broker, daemon, failures, unseen>>

Gateway(e) == Publish(e) \/ Take(e) \/ Answer(e) \/ Refuse(e)
Daemon == Cycle \/ CycleFails \/ (\E e \in Deliveries : Redeliver(e))

GatewayNext ==
  \/ \E e \in Deliveries : FirstAttempt(e) \/ Gateway(e)
  \/ Daemon \/ Elapse \/ Restart \/ BrokerDown \/ BrokerUp \/ Bind

GatewaySpec == GatewayInit /\ [][GatewayNext]_gatewayVars

-----------------------------------------------------------------------------
(* Properties.                                                             *)

\* The types of the state; the daemon redelivers only what has failed.
GatewayTypeOK ==
  /\ attempt \in [Deliveries -> {"none", "arrived", "published", "taken", "ok", "failed"}]
  /\ age \in [Deliveries -> 0 .. Interval + 1]
  /\ bound \in BOOLEAN /\ broker \in BOOLEAN
  /\ stored \subseteq Deliveries /\ unrouted \subseteq Deliveries /\ unseen \subseteq Deliveries
  /\ next \in 1 .. Interval /\ tick \in BOOLEAN
  /\ todo \subseteq Routable /\ \A e \in todo : attempt[e] = "failed"
  /\ failures \in 0 .. MaxFailures

\* What GitHub was told is delivered is in the queue, through lost connections,
\* restarts and repeated attempts, unless no queue was bound at the time.
OkIsStored == \A e \in Deliveries : attempt[e] = "ok" => e \in stored \union unrouted

\* No failed attempt falls between two cycles: one that is older than the next
\* cycle's window has been redelivered or will be by the current cycle, unless a
\* failure of the daemon or a slow answer kept it from being seen.
NoneForgotten ==
  \A e \in Routable :
    attempt[e] = "failed" /\ age[e] > Interval => e \in todo \union unseen

=============================================================================
