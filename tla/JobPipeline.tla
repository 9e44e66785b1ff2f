---------------------------- MODULE JobPipeline ----------------------------
(***************************************************************************)
(* The path of a workflow job event: GitHub, the webhook gateway, the AMQP *)
(* queue, the planner's JobConsumer (internal/planner/consumer.go on       *)
(* internal/queue/consumer.go) and the job table of JobStore.  Deliveries  *)
(* come in any order and more than once; consumers (the planner's units)   *)
(* lose their connection, their database or their process between any two  *)
(* steps, and one that has lost its connection goes on handling what it    *)
(* had pulled while the broker hands the message to another.               *)
(*                                                                         *)
(* The broker is external: durable queue, prefetch 1, exclusive consumer,  *)
(* unacknowledged messages requeued at their place.  The table of flavors  *)
(* does not change here, and messages the consumer ignores (other events,  *)
(* other actions, jobs that are not self-hosted) are left out.             *)
(***************************************************************************)
EXTENDS JobStore, Sequences

CONSTANTS Consumers,
          Malformed,   \* messages that do not parse
          NoOne,       \* no message
          MaxFaults,   \* bound on lost connections, failed calls and crashes
          MaxDuplicates \* bound on events GitHub delivers again

JobEvents == Jobs \X {"queued", "in_progress", "completed"}
Events == JobEvents \union Malformed

ASSUME PipelineAssumption ==
  /\ Malformed \intersect JobEvents = {} /\ NoOne \notin Events
  /\ MaxFaults \in Nat /\ MaxDuplicates \in Nat

VARIABLES
  unsent,    \* events the broker has not had
  queue,     \* the broker's ready messages
  attached,  \* consumers the broker delivers to
  dlq,       \* dead-lettered messages
  step,      \* where each consumer is
  msg,       \* the message each consumer is handling; the broker holds it as
             \* unacknowledged while the consumer stays attached
  faults, duplicates

brokerVars == <<queue, attached, dlq>>
consumerVars == <<step, msg>>
countVars == <<faults, duplicates>>
vars == <<storeVars, unsent, brokerVars, consumerVars, countVars>>

\* The queue is exclusive, and a consumer waits in Pull with no message.
TypeOK ==
  /\ StoreTypeOK
  /\ unsent \subseteq Events
  /\ queue \in Seq(Events)
  /\ attached \subseteq Consumers /\ \A c, d \in attached : c = d
  /\ dlq \subseteq Malformed
  /\ step \in [Consumers -> {"pull", "handle", "insert", "ack", "requeue", "discard"}]
  /\ msg \in [Consumers -> Events \union {NoOne}]
  /\ \A c \in Consumers : step[c] = "pull" <=> msg[c] = NoOne
  /\ faults \in 0..MaxFaults
  /\ duplicates \in 0..MaxDuplicates

Init ==
  /\ StoreInit
  /\ unsent = Events
  /\ queue = <<>> /\ attached = {} /\ dlq = {}
  /\ step = [c \in Consumers |-> "pull"]
  /\ msg = [c \in Consumers |-> NoOne]
  /\ faults = 0 /\ duplicates = 0

Fault == faults < MaxFaults /\ faults' = faults + 1

-----------------------------------------------------------------------------
(* GitHub and the gateway: a webhook is answered 200 once the broker has   *)
(* confirmed it, and delivered again otherwise (serveHTTP, sendWebhook,    *)
(* Push, the redelivery tool).                                             *)

\* Again, when the confirmation of a first attempt was lost or came late.
Deliver(e) ==
  /\ queue' = Append(queue, e)
  /\ unsent' = unsent \ {e}
  /\ IF e \in unsent THEN UNCHANGED duplicates
                     ELSE duplicates < MaxDuplicates /\ duplicates' = duplicates + 1
  /\ UNCHANGED <<storeVars, attached, dlq, consumerVars, faults>>

-----------------------------------------------------------------------------
(* The AMQP consumer.                                                      *)

\* Seeded fault: Consume is not exclusive.
Connect_Shared(c) ==
  /\ step[c] = "pull" /\ c \notin attached
  /\ attached' = attached \union {c}
  /\ UNCHANGED <<storeVars, unsent, queue, dlq, consumerVars, countVars>>

\* ensureChannel: an exclusive Consume, refused while another one has the queue.
Connect(c) ==
  /\ step[c] = "pull" /\ attached = {}
  /\ attached' = {c}
  /\ UNCHANGED <<storeVars, unsent, queue, dlq, consumerVars, countVars>>

Goes(c, where) == step' = [step EXCEPT ![c] = where]

\* Pull, and getWorkflowJob of what it returns.
Pull(c) ==
  /\ step[c] = "pull" /\ c \in attached /\ queue # <<>>
  /\ queue' = Tail(queue)
  /\ msg' = [msg EXCEPT ![c] = Head(queue)]
  /\ Goes(c, IF Head(queue) \in Malformed THEN "discard" ELSE "handle")
  /\ UNCHANGED <<storeVars, unsent, attached, dlq, countVars>>

\* The broker takes back, at its place, what the consumer has not settled.
Detach(c) ==
  /\ attached' = attached \ {c}
  /\ queue' = IF c \in attached /\ msg[c] # NoOne THEN <<msg[c]>> \o queue ELSE queue

\* The connection is lost; the consumer goes on with its message.
Disconnect(c) ==
  /\ c \in attached
  /\ Fault
  /\ Detach(c)
  /\ UNCHANGED <<storeVars, unsent, dlq, consumerVars, duplicates>>

\* The process stops, and a new one starts.
Crash(c) ==
  /\ step[c] # "pull"
  /\ Fault
  /\ Detach(c)
  /\ Goes(c, "pull")
  /\ msg' = [msg EXCEPT ![c] = NoOne]
  /\ UNCHANGED <<storeVars, unsent, dlq, duplicates>>

\* Ack or Nack, which reaches the broker only on the connection that delivered
\* the message; the error is logged otherwise.  Then the next Pull.
Settle(c, back) ==
  /\ Goes(c, "pull")
  /\ msg' = [msg EXCEPT ![c] = NoOne]
  /\ queue' = IF c \in attached THEN back \o queue ELSE queue
  /\ UNCHANGED <<storeVars, unsent, attached, countVars>>

\* consumedMessage
Ack(c) == step[c] = "ack" /\ Settle(c, <<>>) /\ UNCHANGED dlq

\* requeueMessage; the backoff that follows takes time only.
Requeue(c) == step[c] = "requeue" /\ Settle(c, <<msg[c]>>) /\ UNCHANGED dlq

\* discardMessage
Discard(c) ==
  /\ step[c] = "discard"
  /\ Settle(c, <<>>)
  /\ dlq' = IF c \in attached THEN dlq \union {msg[c]} ELSE dlq

-----------------------------------------------------------------------------
(* handleMessage: one transaction, or an update and then an insert.        *)

Job(c) == msg[c][1]
Action(c) == msg[c][2]

\* insertJobToDB: ErrExist counts as done.
InsertJobToDB(c) ==
  /\ \/ \E begun \in IF Action(c) = "queued" THEN BOOLEAN ELSE {TRUE} :
          AddJob(Job(c), begun, Action(c) = "completed")
     \/ AddJobExists(Job(c))
  /\ Goes(c, "ack")

\* Seeded fault: a job that is not in the table yet is left to its queued event.
HandleMessage_NoInsert(c) ==
  /\ step[c] = "handle"
  /\ \/ Action(c) = "queued" /\ InsertJobToDB(c)
     \/ Action(c) = "in_progress" /\ UpdateJobStarted(Job(c)) /\ Goes(c, "ack")
     \/ Action(c) = "completed" /\ UpdateJobCompleted(Job(c)) /\ Goes(c, "ack")
     \/ /\ Action(c) # "queued" /\ Job(c) \notin known
        /\ Goes(c, "ack")
        /\ UNCHANGED storeVars
  /\ UNCHANGED <<unsent, brokerVars, msg, countVars>>

\* insertJobToDB, updateJobStartedInDB, updateJobCompletedInDB; an update that
\* finds no job (ErrNotExist) is followed by an insert of its own.
HandleMessage(c) ==
  /\ step[c] = "handle"
  /\ \/ Action(c) = "queued" /\ InsertJobToDB(c)
     \/ Action(c) = "in_progress" /\ UpdateJobStarted(Job(c)) /\ Goes(c, "ack")
     \/ Action(c) = "completed" /\ UpdateJobCompleted(Job(c)) /\ Goes(c, "ack")
     \/ /\ Action(c) # "queued" /\ Job(c) \notin known
        /\ Goes(c, "insert")
        /\ UNCHANGED storeVars
  /\ UNCHANGED <<unsent, brokerVars, msg, countVars>>

InsertMissing(c) ==
  /\ step[c] = "insert"
  /\ InsertJobToDB(c)
  /\ UNCHANGED <<unsent, brokerVars, msg, countVars>>

\* Seeded fault: a message is not requeued when the database fails.
HandleFails_Acks(c) ==
  /\ step[c] \in {"handle", "insert"}
  /\ Fault
  /\ Goes(c, "ack")
  /\ UNCHANGED <<storeVars, unsent, brokerVars, msg, duplicates>>

\* The database answers with an error, and nothing was committed.
HandleFails(c) ==
  /\ step[c] \in {"handle", "insert"}
  /\ Fault
  /\ Goes(c, "requeue")
  /\ UNCHANGED <<storeVars, unsent, brokerVars, msg, duplicates>>

-----------------------------------------------------------------------------
Works(c) ==
  \/ Pull(c) \/ HandleMessage(c) \/ InsertMissing(c)
  \/ Ack(c) \/ Requeue(c) \/ Discard(c)

Next ==
  \/ \E e \in Events : Deliver(e)
  \/ \E c \in Consumers :
       Connect(c) \/ Works(c) \/ HandleFails(c) \/ Disconnect(c) \/ Crash(c)

Spec == Init /\ [][Next]_vars

\* GitHub's failed deliveries are redelivered, consumers run and reconnect.
FairSpec ==
  /\ Spec
  /\ \A e \in Events : WF_vars(e \in unsent /\ Deliver(e))
  /\ \A c \in Consumers : WF_vars(Connect(c)) /\ WF_vars(Works(c))

-----------------------------------------------------------------------------
(* Properties.                                                             *)

Recorded(e) ==
  IF e \in Malformed THEN e \in dlq
  ELSE CASE e[2] = "queued" -> e[1] \in known
         [] e[2] = "in_progress" -> e[1] \in started
         [] e[2] = "completed" -> e[1] \in completed

\* What the broker has had it still has, or it is in the table (the dead-letter
\* queue for one that does not parse): no crash, lost connection, failed call or
\* overtaking of one event by another drops it, although an update that finds no
\* job and the insert after it are two transactions.
NothingLost ==
  \A e \in Events :
    \/ e \in unsent
    \/ \E i \in 1..Len(queue) : queue[i] = e
    \/ \E c \in attached : msg[c] = e
    \/ Recorded(e)

RecordedEvents == {e \in Events : Recorded(e)}

Ledger == INSTANCE EventLedger WITH recorded <- RecordedEvents

\* The pipeline implements the ledger: with bounded faults every event is
\* recorded in the end and none is taken back.
ImplementsLedger == Ledger!Spec

=============================================================================
