--------------------------- MODULE PressureStream ---------------------------
(* A pressure stream of the planner: a request with stream=true has a        *)
(* handler that reads pressures and writes them to its client, and a         *)
(* goroutine that forwards PostgreSQL's notifications to it over a bounded   *)
(* channel.  All handlers receive their heartbeats from one ticker, which is *)
(* all that streams share: of the others the model keeps how many wait for   *)
(* it ahead of this one.  One flavor's pressure stands for what is shown.    *)
EXTENDS Naturals

CONSTANTS
  Pressures,   \* pressures of the flavor
  Missing,    \* the flavor is not there: the answer is empty
  Capacity,    \* channelBufferSize
  Others,      \* other streams open
  MaxChanges   \* changes of the database, and notifications

ASSUME CapacityAssumption == Capacity \in Nat /\ Others \in Nat
ASSUME PressureAssumption == Missing \notin Pressures
ASSUME BoundAssumption == MaxChanges \in Nat

Answers == Pressures \union {Missing}

VARIABLES
  phase,     \* of the process: "up", "draining", "closed", "exited"
  pressure,  \* what the database answers
  changes,   \* changes made so far
  handler,   \* "off", "first", "flush", "waiting", "noticed", "ticked", "ended"
  lastRead,     \* the pressures the handler last read
  client,    \* what the client was last sent
  gone,      \* the client has closed the connection
  forwarder, \* "none", "waiting" for a notification, "sending", "exited", or
             \* "leaked": the connection was taken, the goroutine never started
  notices,   \* notifications that wait on the connection
  channel,   \* signals in the channel
  broken,    \* the listening connection is lost
  ahead,     \* other handlers the ticker serves before this one
  unread     \* the pressure changed unannounced since the handler last read

database == <<pressure, changes>>
server   == <<handler, lastRead, client, ahead>>
listener == <<forwarder, notices, channel>>
streamVars == <<phase, database, server, gone, listener, broken, unread>>

Open    == handler \notin {"off", "ended"}
Running    == phase # "exited"
\* The request's context: ends with the connection or with the handler.
Done    == gone \/ handler = "ended"
Closed  == forwarder = "exited"
Connected == forwarder \in {"waiting", "sending"} /\ ~broken

-----------------------------------------------------------------------------
StreamInit ==
  /\ phase = "up"
  /\ pressure \in Answers /\ changes = 0
  /\ handler = "off"
  /\ lastRead = Missing
  /\ client = Missing
  /\ gone = FALSE
  /\ forwarder = "none"
  /\ notices = 0
  /\ channel = 0
  /\ broken = FALSE
  /\ ahead = 0
  /\ unread = FALSE

-----------------------------------------------------------------------------
(* The database.                                                           *)

\* A transaction that may change the pressure, with its NOTIFY; the pressure of
\* another flavor is announced on the same channel.
Change ==
  /\ changes < MaxChanges /\ changes' = changes + 1
  /\ pressure' \in Answers
  /\ notices' = IF Connected THEN notices + 1 ELSE notices
  /\ UNCHANGED <<phase, server, gone, forwarder, channel, broken, unread>>

\* Time takes a job out of the window that pressures count: nothing is announced.
GrowOld ==
  /\ changes < MaxChanges /\ changes' = changes + 1
  /\ pressure' \in Pressures \ {pressure} /\ pressure \in Pressures
  /\ unread' = Open
  /\ UNCHANGED <<phase, server, gone, listener, broken>>

ConnectionLost ==
  /\ Connected
  /\ broken' = TRUE
  /\ UNCHANGED <<phase, database, server, gone, listener, unread>>

-----------------------------------------------------------------------------
(* The forwarding goroutine.                                               *)

\* Seeded fault: the goroutine waits with a context of its own.
EndsWait_OwnContext == broken /\ notices = 0

\* WaitForNotification returns an error.
EndsWait == Done \/ broken

Receive ==
  /\ forwarder = "waiting" /\ notices > 0
  /\ notices' = notices - 1
  /\ forwarder' = "sending"
  /\ UNCHANGED <<phase, database, server, gone, channel, broken, unread>>

\* Seeded fault: a signal the handler is not waiting for is dropped.
Send_OnlyToWaiting ==
  /\ forwarder = "sending" /\ channel < Capacity
  /\ channel' = IF handler = "waiting" THEN channel + 1 ELSE channel
  /\ forwarder' = "waiting"
  /\ UNCHANGED <<phase, database, server, gone, notices, broken, unread>>

\* The send blocks while the channel is full, whatever becomes of the handler.
Send ==
  /\ forwarder = "sending" /\ channel < Capacity
  /\ channel' = channel + 1
  /\ forwarder' = "waiting"
  /\ UNCHANGED <<phase, database, server, gone, notices, broken, unread>>

\* Closes the connection and the channel.
Exit ==
  /\ forwarder = "waiting" /\ EndsWait
  /\ forwarder' = "exited"
  /\ notices' = 0
  /\ broken' = FALSE
  /\ UNCHANGED <<phase, database, server, gone, channel, unread>>

Forwarder == Receive \/ Send \/ Exit

-----------------------------------------------------------------------------
(* The handler.                                                            *)

GoesTo(step) ==
  /\ handler' = step
  /\ ahead' \in IF step = "waiting" THEN 0 .. Others ELSE {0}

\* LISTEN comes before the first read.
Subscribe ==
  /\ handler = "off" /\ phase = "up"
  /\ GoesTo("first")
  /\ forwarder' = "waiting"
  /\ UNCHANGED <<phase, database, lastRead, client, gone, notices, channel, broken, unread>>

\* The handler returns: its variables are gone, its context is done.
Returns ==
  /\ GoesTo("ended")
  /\ lastRead' = Missing
  /\ client' = Missing
  /\ gone' = FALSE
  /\ unread' = FALSE

\* No connection is to be had from the pool, or the LISTEN fails on one the pool
\* has already given away: the answer is a 500, and in the second case nobody
\* closes the connection, unless the driver did.
SubscribeFails ==
  /\ handler = "off" /\ phase = "up"
  /\ Returns
  /\ forwarder' \in {"none", "leaked"}
  /\ UNCHANGED <<phase, database, notices, channel, broken>>

ReadsTo(step) ==
  /\ lastRead' = pressure
  /\ unread' = FALSE
  /\ GoesTo(step)
  /\ UNCHANGED <<client, gone>>

\* An empty first answer is a 404, a failed read a 500.
FirstRead ==
  /\ handler = "first"
  /\ \/ phase # "closed" /\ pressure # Missing /\ ReadsTo("flush")
     \/ Returns
  /\ UNCHANGED <<phase, database, listener, broken>>

\* The write returns when the client takes it, or with an error nobody looks at
\* when the client is gone.
Flush ==
  /\ handler = "flush"
  /\ client' = IF gone THEN client ELSE lastRead
  /\ GoesTo("waiting")
  /\ UNCHANGED <<phase, database, lastRead, gone, listener, broken, unread>>

\* The select of streamFlavorPressureUpdates.
TakeNotice ==
  /\ handler = "waiting" /\ channel > 0
  /\ channel' = channel - 1
  /\ GoesTo("noticed")
  /\ UNCHANGED <<phase, database, lastRead, client, gone, forwarder, notices, broken, unread>>

\* A tick goes to the handler that has waited longest.
TakeTick ==
  /\ handler = "waiting" /\ ahead = 0
  /\ GoesTo("ticked")
  /\ UNCHANGED <<phase, database, lastRead, client, gone, listener, broken, unread>>

\* Another handler gets a tick, or leaves its select; it comes back behind.
OtherServed ==
  /\ handler = "waiting" /\ ahead > 0
  /\ ahead' = ahead - 1
  /\ UNCHANGED <<phase, database, handler, lastRead, client, gone, listener, broken, unread>>

\* Seeded fault: a closed channel does not end the stream.
Leaves_IgnoresClose == gone

Leaves == gone \/ (Closed /\ channel = 0)

Leave ==
  /\ handler = "waiting" /\ Leaves
  /\ Returns
  /\ UNCHANGED <<phase, database, listener, broken>>

\* Seeded fault: a heartbeat repeats what was read before.
Reread_KnownOnTick ==
  /\ handler \in {"noticed", "ticked"}
  /\ \/ phase # "closed" /\ handler = "ticked" /\ GoesTo("flush")
        /\ UNCHANGED <<lastRead, client, gone, unread>>
     \/ phase # "closed" /\ handler = "noticed"
        /\ ReadsTo(IF pressure # lastRead THEN "flush" ELSE "waiting")
     \/ Returns
  /\ UNCHANGED <<phase, database, listener, broken>>

\* A heartbeat is always written, after a notice only a pressure that differs
\* from the last one read; a read that fails ends the stream.
Reread ==
  /\ handler \in {"noticed", "ticked"}
  /\ \/ /\ phase # "closed"
        /\ ReadsTo(IF handler = "ticked" \/ pressure # lastRead THEN "flush" ELSE "waiting")
     \/ Returns
  /\ UNCHANGED <<phase, database, listener, broken>>

HangUp ==
  /\ Open /\ ~gone
  /\ gone' = TRUE
  /\ UNCHANGED <<phase, database, server, listener, broken, unread>>

\* What the handler does without its client.
Handler == FirstRead \/ TakeNotice \/ Leave \/ Reread \/ (gone /\ Flush)

-----------------------------------------------------------------------------
(* The shutdown sequence of main.                                          *)

Still == UNCHANGED <<database, server, gone, listener, broken, unread>>

Signal   == phase = "up" /\ phase' = "draining" /\ Still

\* server.Shutdown returns when no stream is open, or at shutdownTimeout; then the
\* pool is closed, which does not wait for the listeners, whose connections are not
\* its own any more.
Drained == phase = "draining" /\ phase' = "closed" /\ Still

Stop == phase = "closed" /\ phase' = "exited" /\ Still

Shutdown == Signal \/ Drained \/ Stop

-----------------------------------------------------------------------------
\* A step of the planner's process, its clients or its connections.
ProcessStep ==
  \/ Forwarder \/ ConnectionLost
  \/ Subscribe \/ SubscribeFails \/ Flush \/ TakeTick \/ OtherServed \/ Handler \/ HangUp
  \/ Shutdown

StreamNext == Running /\ (Change \/ GrowOld \/ ProcessStep)

StreamSpec == StreamInit /\ [][StreamNext]_streamVars

\* Goroutines run, ticks come, and a shutdown goes on.  A select chooses at random
\* among the cases that are ready, so that none is passed over for ever.  No
\* client is sure to read what it is sent, to stay or to leave.
StreamFairness ==
  /\ WF_streamVars(Running /\ (TakeTick \/ OtherServed))
  /\ WF_streamVars(Running /\ (Drained \/ Stop))
  /\ WF_streamVars(Running /\ Forwarder)
  /\ WF_streamVars(Running /\ Handler)
  /\ SF_streamVars(Running /\ TakeNotice)
  /\ SF_streamVars(Running /\ Leave)

FairStreamSpec == StreamSpec /\ StreamFairness

-----------------------------------------------------------------------------
(* Properties.                                                             *)

\* The types of the state; only a handler in its select waits for a tick.
StreamTypeOK ==
  /\ phase \in {"up", "draining", "closed", "exited"}
  /\ pressure \in Answers /\ changes \in 0 .. MaxChanges
  /\ handler \in {"off", "first", "flush", "waiting", "noticed", "ticked", "ended"}
  /\ lastRead \in Answers /\ client \in Answers
  /\ gone \in BOOLEAN /\ broken \in BOOLEAN /\ unread \in BOOLEAN
  /\ forwarder \in {"none", "waiting", "sending", "exited", "leaked"}
  /\ notices \in 0 .. MaxChanges /\ channel \in 0 .. Capacity
  /\ ahead \in 0 .. Others /\ (ahead > 0 => handler = "waiting")

\* A change that was announced has reached the client or is still on its way to
\* the handler: none falls between the subscription and the first read, and none
\* is dropped on the way, however slow the client.
NoChangeMissed ==
  /\ handler = "waiting" /\ ~gone /\ ~unread
  /\ ~broken /\ forwarder = "waiting" /\ notices = 0 /\ channel = 0
  => client = pressure

\* Heartbeats come round to every open stream, so that it shows in the end also a
\* change that nothing announces, unless its client does not read.
CatchesUp ==
  []<>(handler = "waiting")
  => \/ <>(phase = "exited")
     \/ <>[](handler = "waiting" /\ ~gone => client = pressure)

\* A stream whose listening connection is lost ends, so that its client connects
\* again, instead of going on with heartbeats only, unless its client does not read.
DeafStreamEnds ==
  <>[](Open /\ (broken \/ Closed))
  => <>[](handler = "flush") \/ <>(phase = "exited")

\* When a request has ended, however far it came, the connection it listened on is
\* closed and the goroutine gone.  Two leaks are named, and there is no other: the
\* connection of a failed LISTEN, and the goroutine that has one more notice to
\* send to a channel that nobody empties any more.
ListenerReleased ==
  (handler = "ended")
  ~> \/ forwarder \in {"none", "exited"} \/ phase = "exited"
     \/ forwarder = "leaked"
     \/ forwarder = "sending" /\ channel = Capacity

=============================================================================
