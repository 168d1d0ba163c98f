-------------------------- MODULE ProjectionStream --------------------------
(***************************************************************************)
(* The projection stream (src/admin/projection.py and                      *)
(* projection_consumer.py): hermes-travel publishes the events of its      *)
(* outbox and heartbeats to a quorum queue with a single active consumer,  *)
(* the consumers of the BFF processes apply them gap-free, retry poison a  *)
(* bounded number of times, then pause the stream and dead-letter it, and  *)
(* an operator repairs the event the stream waits for.                     *)
(*                                                                         *)
(* A transaction that reads admin_projection_consumer_state FOR UPDATE is  *)
(* one step; the duplicate check before that lock is a step of its own.    *)
(* Every answer to the broker is a step, and the connection may be lost    *)
(* before it: the message is then delivered again while its first handler  *)
(* still runs.                                                             *)
(***************************************************************************)
EXTENDS Integers, Sequences, SequencesExt

CONSTANTS
  Jobs, Steps, JobOf,
  Consumers,     \* BFF processes with projection_consumer_enabled
  Nobody,        \* no consumer
  MaxAttempts,   \* projection_max_delivery_attempts
  Poisons,       \* what the source may send malformed, of the origins below
  Repairs,       \* how an operator may write a repaired event
  MaxSequence,   \* bound of the model on the events committed
  MaxQueue,      \* bound of the model on the messages queued
  MaxLosses      \* bound of the model on lost connections and crashes

Origins == {"FIRST", "AGAIN", "HEARTBEAT"}

ASSUME StreamAssumption ==
  /\ Jobs \cap Steps = {} /\ JobOf \in [Steps -> Jobs]
  /\ Nobody \notin Consumers
  /\ MaxAttempts \in Nat \ {0}
  /\ Poisons \subseteq Origins
  /\ Repairs \subseteq {"SENT", "REPAIRED"}
  /\ MaxSequence \in Nat /\ MaxQueue \in Nat /\ MaxLosses \in Nat

VARIABLES
  log,        \* log[n]: the job and steps event n of the source changes
  version,    \* version[e]: source_version of the row of e, 0 without a row
  events,     \* events[n]: payload hash of admin_projection_event n
  applied,    \* applied_high_watermark
  expected,   \* next_expected_sequence
  stream,     \* stream_state
  confirmed,  \* latest_heartbeat_watermark, -1 until INITIALIZED
  queue,      \* the messages of projection_queue_name
  dead,       \* the sequences of the events that were dead-lettered
  active,     \* the single active consumer
  task,       \* task[c]: what consumer c is doing
  repair,     \* the event of the operator's repair_projection_event call, or 0
  losses      \* lost connections and crashes so far

rows == <<version, events, applied, expected, stream, confirmed>>
broker == <<queue, dead, active>>
vars == <<log, rows, broker, task, repair, losses>>

-----------------------------------------------------------------------------
(* Events, messages, tasks.                                                *)

View == INSTANCE ProjectionView
Entities == View!Entities

\* SENT: as the source means it.  INVALID: refused by json.loads or the
\* schemas.  REPAIRED: rewritten by hand, valid and with another hash.
Payloads == {"SENT", "INVALID", "REPAIRED"}
Kinds == {"EVENT", "HEARTBEAT"}

\* acquired and lost are x-acquired-count and x-delivery-count.
Messages == [kind : Kinds, seq : 0..MaxSequence, payload : Payloads,
             holder : Consumers \cup {Nobody},
             acquired : 0..(MaxAttempts - 1), lost : 0..(MaxAttempts - 1)]

Fresh(kind, n, payload) ==
  [kind |-> kind, seq |-> n, payload |-> payload, holder |-> Nobody,
   acquired |-> 0, lost |-> 0]

Points == {"STOPPED", "IDLE", "READ", "APPLY", "POISON",
           "REJECT", "ACK", "RETRY", "BLOCKED"}
Tasks == [at : Points, kind : Kinds, seq : 0..MaxSequence, payload : Payloads,
          attempt : 0..MaxAttempts]
Waiting == [at |-> "IDLE", kind |-> "EVENT", seq |-> 0, payload |-> "SENT",
            attempt |-> 0]

TypeOK ==
  /\ log \in Seq(View!Changes) /\ Len(log) <= MaxSequence
  /\ version \in [Entities -> 0..MaxSequence]
  /\ events \in [1..MaxSequence -> Payloads \cup {"NONE"}]
  /\ applied \in 0..MaxSequence /\ expected \in 1..(MaxSequence + 1)
  /\ stream \in {"ACTIVE", "PAUSED_POISON"}
  /\ confirmed \in -1..MaxSequence
  /\ queue \in Seq(Messages)
  /\ dead \subseteq 1..MaxSequence
  /\ active \in Consumers \cup {Nobody}
  /\ task \in [Consumers -> Tasks]
  /\ repair \in 0..MaxSequence
  /\ losses \in 0..MaxLosses

Init ==
  /\ log = <<>>
  /\ version = [e \in Entities |-> 0]
  /\ events = [n \in 1..MaxSequence |-> "NONE"]
  /\ applied = 0 /\ expected = 1 /\ stream = "ACTIVE" /\ confirmed = -1
  /\ queue = <<>> /\ dead = {} /\ active = Nobody
  /\ task = [c \in Consumers |-> Waiting]
  /\ repair = 0
  /\ losses = 0

-----------------------------------------------------------------------------
(* hermes-travel: an outbox publishes in order and at least once.          *)

Shapes(origin) == IF origin \in Poisons THEN {"SENT", "INVALID"} ELSE {"SENT"}

Publish(msg) ==
  /\ Len(queue) < MaxQueue
  /\ queue' = Append(queue, msg)
  /\ UNCHANGED <<rows, dead, active, task, repair, losses>>

Commit(chg, payload) ==
  /\ Len(log) < MaxSequence
  /\ log' = Append(log, chg)
  /\ Publish(Fresh("EVENT", Len(log) + 1, payload))

PublishAgain(n, payload) ==
  /\ Publish(Fresh("EVENT", n, payload))
  /\ UNCHANGED log

Heartbeat(payload) ==
  /\ Publish(Fresh("HEARTBEAT", Len(log), payload))
  /\ UNCHANGED log

\* Backfill and reconciliation store a newer snapshot of one row; the foreign
\* key of a step needs the row of its job.
StoreSnapshot(e, n) ==
  /\ n \in DOMAIN log /\ e \in log[n] /\ n > version[e]
  /\ e \in Steps => version[JobOf[e]] > 0
  /\ version' = [version EXCEPT ![e] = n]
  /\ UNCHANGED <<log, events, applied, expected, stream, confirmed, broker,
                 task, repair, losses>>

-----------------------------------------------------------------------------
(* The broker.                                                             *)

Subscribed(c) == task[c].at # "STOPPED"

Held(c) == {i \in DOMAIN queue : queue[i].holder = c}
Holds(c) == Held(c) # {}

\* A message that is returned keeps its place.  Counts saturate where DeliveryAttempt reaches MaxAttempts.
Counted(n) == IF n + 1 < MaxAttempts THEN n + 1 ELSE n
Returned(c, connectionLost) ==
  [i \in DOMAIN queue |->
     IF queue[i].holder = c
     THEN [queue[i] EXCEPT !.holder = Nobody, !.acquired = Counted(@),
                           !.lost = IF connectionLost THEN Counted(@) ELSE @]
     ELSE queue[i]]

\* A handler that is done with its event forgets it, the attempt counts only
\* for poison.
Done == {"STOPPED", "ACK", "RETRY", "BLOCKED"}
Moved(t, point) ==
  IF point \in Done THEN [Waiting EXCEPT !.at = point]
  ELSE [t EXCEPT !.at = point, !.attempt = IF point = "POISON" THEN t.attempt ELSE 0]
Step(c, point) == task' = [task EXCEPT ![c] = Moved(task[c], point)]
StopConsuming(c) == active' = IF active = c THEN Nobody ELSE active

\* The connection of c is lost and restored: its handler runs on.
Disconnect(c) ==
  /\ losses < MaxLosses /\ Holds(c)
  /\ losses' = losses + 1
  /\ queue' = Returned(c, TRUE)
  /\ StopConsuming(c)
  /\ UNCHANGED <<log, rows, dead, task, repair>>

Crash(c) ==
  /\ losses < MaxLosses /\ Subscribed(c)
  /\ losses' = losses + 1
  /\ queue' = Returned(c, TRUE)
  /\ StopConsuming(c)
  /\ task' = [task EXCEPT ![c] = [Waiting EXCEPT !.at = "STOPPED"]]
  /\ UNCHANGED <<log, rows, dead, repair>>

\* The process is started again; a consumer that had only stopped still held
\* its unanswered message.
Restart(c) ==
  /\ ~Subscribed(c)
  /\ queue' = Returned(c, TRUE)
  /\ task' = [task EXCEPT ![c] = Waiting]
  /\ UNCHANGED <<log, rows, dead, active, repair, losses>>

-----------------------------------------------------------------------------
(* ProjectionConsumer._handle_message.                                     *)

\* Faults: redeliveries are counted by x-delivery-count alone; the headers are
\* added up.
DeliveryAttemptByLoss(msg) == msg.lost + 1
DeliveryAttemptSum(msg) == msg.acquired + msg.lost + 1
DeliveryAttempt(msg) == (IF msg.acquired > msg.lost THEN msg.acquired ELSE msg.lost) + 1

\* The oldest message nobody holds goes to the active consumer, or to a new
\* one, which decodes and validates it before the first await.
Deliver(c, i) ==
  /\ active \in {c, Nobody} /\ active' = c
  /\ task[c].at = "IDLE" /\ ~Holds(c)
  /\ i \in DOMAIN queue /\ queue[i].holder = Nobody
  /\ \A k \in 1..(i - 1) : queue[k].holder # Nobody
  /\ queue' = [queue EXCEPT ![i].holder = c]
  /\ task' = [task EXCEPT ![c] =
       [at |-> CASE queue[i].payload = "INVALID" -> "POISON"
                 [] queue[i].payload # "INVALID" /\ queue[i].kind = "EVENT" -> "READ"
                 [] OTHER -> "APPLY",
        kind |-> queue[i].kind, seq |-> queue[i].seq, payload |-> queue[i].payload,
        attempt |-> DeliveryAttempt(queue[i])]]
  /\ UNCHANGED <<log, rows, dead, repair, losses>>

\* apply_projection_event: the look-up by event id, before the state is locked.
ReadEvent(c) ==
  /\ task[c].at = "READ"
  /\ Step(c, CASE events[task[c].seq] = "NONE" -> "APPLY"
               [] events[task[c].seq] = task[c].payload -> "ACK"
               [] OTHER -> "POISON")
  /\ UNCHANGED <<log, rows, broker, repair, losses>>

\* _apply_job_snapshot and _apply_step_snapshot: an older row is replaced.
\* Faults: the snapshot of the event replaces any row, or newer rows only.
AbsorbSwapped(n) == [e \in Entities |-> IF e \in log[n] /\ n < version[e] THEN n ELSE version[e]]
AbsorbAlways(n) == [e \in Entities |-> IF e \in log[n] THEN n ELSE version[e]]
Absorb(n) == [e \in Entities |-> IF e \in log[n] /\ n > version[e] THEN n ELSE version[e]]

\* Faults: the state of the stream is not looked at; a gap is let through; the
\* sequence is compared with the watermark.
AppliesPaused(n) == n = expected
AppliesAcrossGap(n) == stream = "ACTIVE" /\ n >= expected
AppliesWatermark(n) == stream = "ACTIVE" /\ n = applied
Applies(n) == stream = "ACTIVE" /\ n = expected

Record(n, payload) ==
  /\ version' = Absorb(n)
  /\ events' = [events EXCEPT ![n] = payload]
  /\ applied' = n
  /\ expected' = n + 1
  /\ UNCHANGED confirmed

\* The answer to the commit may be lost: the event is applied, its message
\* goes back to the queue.
ApplyEvent(c, answered) ==
  /\ task[c].at = "APPLY" /\ task[c].kind = "EVENT"
  /\ Applies(task[c].seq)
  /\ Record(task[c].seq, task[c].payload)
  /\ Step(c, IF answered THEN "ACK" ELSE "RETRY")
  /\ UNCHANGED <<log, stream, broker, repair, losses>>

\* Fault: an event that is not the next one is acknowledged.
AfterBlockedAck == "ACK"
AfterBlocked == "BLOCKED"

BlockEvent(c) ==
  /\ task[c].at = "APPLY" /\ task[c].kind = "EVENT"
  /\ ~Applies(task[c].seq)
  /\ Step(c, AfterBlocked)
  /\ UNCHANGED <<log, rows, broker, repair, losses>>

\* apply_projection_heartbeat.  Fault: a heartbeat from the past is confirmed.
ConfirmsOld(n) == stream = "ACTIVE" /\ n <= applied
Confirms(n) == stream = "ACTIVE" /\ n = applied

ApplyHeartbeat(c) ==
  /\ task[c].at = "APPLY" /\ task[c].kind = "HEARTBEAT"
  /\ Confirms(task[c].seq)
  /\ confirmed' = task[c].seq
  /\ Step(c, "ACK")
  /\ UNCHANGED <<log, version, events, applied, expected, stream, broker, repair,
                 losses>>

BlockHeartbeat(c) ==
  /\ task[c].at = "APPLY" /\ task[c].kind = "HEARTBEAT"
  /\ ~Confirms(task[c].seq)
  /\ Step(c, "BLOCKED")
  /\ UNCHANGED <<log, rows, broker, repair, losses>>

\* Any other exception, before anything was committed.
HandlerFails(c) ==
  /\ task[c].at \in {"READ", "APPLY"}
  /\ Step(c, "RETRY")
  /\ UNCHANGED <<log, rows, broker, repair, losses>>

\* Poison: retried by nack, then the stream is paused, or the pause fails and
\* with it the consumer.
PoisonRetry(c) ==
  /\ task[c].at = "POISON" /\ task[c].attempt < MaxAttempts
  /\ Step(c, "RETRY")
  /\ UNCHANGED <<log, rows, broker, repair, losses>>

\* pause_projection_stream.
Pause(c) ==
  /\ task[c].at = "POISON" /\ task[c].attempt >= MaxAttempts
  /\ stream' = "PAUSED_POISON"
  /\ Step(c, "REJECT")
  /\ UNCHANGED <<log, version, events, applied, expected, confirmed, broker,
                 repair, losses>>

PauseFails(c) ==
  /\ task[c].at = "POISON" /\ task[c].attempt >= MaxAttempts
  /\ Step(c, "STOPPED")
  /\ StopConsuming(c)
  /\ UNCHANGED <<log, rows, queue, dead, repair, losses>>

Without(c) == RemoveAt(queue, CHOOSE i \in Held(c) : TRUE)

Ack(c) ==
  /\ task[c].at = "ACK" /\ Holds(c)
  /\ queue' = Without(c)
  /\ task' = [task EXCEPT ![c] = Waiting]
  /\ UNCHANGED <<log, rows, dead, active, repair, losses>>

Nack(c) ==
  /\ task[c].at \in {"RETRY", "BLOCKED"} /\ Holds(c)
  /\ queue' = Returned(c, FALSE)
  /\ task' = [task EXCEPT ![c] = Waiting]
  /\ UNCHANGED <<log, rows, dead, active, repair, losses>>

\* reject(requeue=False): the message is dead-lettered and run() returns.
Reject(c) ==
  /\ task[c].at = "REJECT" /\ Holds(c)
  /\ queue' = Without(c)
  /\ dead' = IF task[c].kind = "EVENT" THEN dead \cup {task[c].seq} ELSE dead
  /\ task' = [task EXCEPT ![c] = [Waiting EXCEPT !.at = "STOPPED"]]
  /\ StopConsuming(c)
  /\ UNCHANGED <<log, rows, repair, losses>>

\* The delivery is gone with its connection: answering it raises, and run()
\* ends, or the client library lets it pass.
AnswerLost(c, point) ==
  /\ task[c].at \in {"ACK", "RETRY", "BLOCKED", "REJECT"} /\ ~Holds(c)
  /\ point \in {"STOPPED", "IDLE"}
  /\ task[c].at = "REJECT" => point = "STOPPED"
  /\ task' = [task EXCEPT ![c] = [Waiting EXCEPT !.at = point]]
  /\ active' = IF active = c /\ point = "STOPPED" THEN Nobody ELSE active
  /\ UNCHANGED <<log, rows, queue, dead, repair, losses>>

-----------------------------------------------------------------------------
(* repair_projection_event, called by an operator while the stream is      *)
(* paused or for an event that was dead-lettered.                          *)

\* The look-up by event id again: an event already applied is a DUPLICATE, or
\* refused for its other hash, and the call is over without resuming the stream.
RepairRead(n) ==
  /\ repair = 0
  /\ stream = "PAUSED_POISON" \/ n \in dead
  /\ repair' = IF events[n] = "NONE" THEN n ELSE 0
  /\ UNCHANGED <<log, rows, broker, task, losses>>

RepairApply(payload) ==
  /\ repair # 0
  /\ repair' = 0
  /\ \/ repair = expected /\ Record(repair, payload) /\ stream' = "ACTIVE"
     \/ repair # expected /\ UNCHANGED rows
  /\ UNCHANGED <<log, broker, task, losses>>

-----------------------------------------------------------------------------
Source ==
  \/ \E chg \in View!Changes, payload \in Shapes("FIRST") : Commit(chg, payload)
  \/ \E n \in DOMAIN log, payload \in Shapes("AGAIN") : PublishAgain(n, payload)
  \/ \E payload \in Shapes("HEARTBEAT") : Heartbeat(payload)
  \/ \E e \in Entities, n \in DOMAIN log : StoreSnapshot(e, n)

Handler(c) ==
  \/ ReadEvent(c) \/ BlockEvent(c) \/ ApplyHeartbeat(c) \/ BlockHeartbeat(c)
  \/ \E answered \in BOOLEAN : ApplyEvent(c, answered)
  \/ HandlerFails(c) \/ PoisonRetry(c) \/ Pause(c) \/ PauseFails(c)
  \/ Ack(c) \/ Nack(c) \/ Reject(c)
  \/ \E point \in {"STOPPED", "IDLE"} : AnswerLost(c, point)

Broker(c) ==
  \/ Disconnect(c) \/ Crash(c) \/ Restart(c)
  \/ \E i \in DOMAIN queue : Deliver(c, i)

Operator ==
  \/ \E n \in DOMAIN log : RepairRead(n)
  \/ \E payload \in Repairs : RepairApply(payload)

Next == Source \/ (\E c \in Consumers : Handler(c) \/ Broker(c)) \/ Operator

Spec == Init /\ [][Next]_vars
-----------------------------------------------------------------------------
(* Safety.                                                                 *)

\* The recorded events are exactly those up to the watermark, and the stream
\* waits for the one after it: no event is skipped, recorded twice or recorded
\* without the watermark, whoever delivers or repairs it.
RecordedPrefix ==
  /\ expected = applied + 1
  /\ \A n \in 1..MaxSequence : events[n] # "NONE" <=> n <= applied

\* Every row shows its job or step at least as of the newest applied event
\* that changed it, and never as of an event that did not.
ViewCoversPrefix ==
  \A e \in Entities :
    /\ \A n \in 1..applied : e \in log[n] => version[e] >= n
    /\ version[e] # 0 => version[e] \in DOMAIN log /\ e \in log[version[e]]

\* An event that is not applied yet can still be: it is queued, or the
\* operator finds it in the dead-letter queue.
NoEventLost ==
  \A n \in (applied + 1)..Len(log) :
    \/ n \in dead
    \/ \E i \in DOMAIN queue : queue[i].kind = "EVENT" /\ queue[i].seq = n

\* A pause of the stream holds: nothing is applied and no heartbeat confirmed
\* by a handler that started before it, and only a repair ends it, "in that same
\* transaction" as it applies the next event (projection.py:318).  The repair of
\* an event that was applied already does not, nor that of a later one.
PausedStandsStill ==
  [][stream = "PAUSED_POISON" /\ <<stream, applied, confirmed>>' # <<stream, applied, confirmed>> =>
       stream' = "ACTIVE" /\ applied' = applied + 1 /\ confirmed' = confirmed]_vars

\* The source watermark the admin pages show never falls and never runs ahead
\* of what is applied, although heartbeats are redelivered and handled late.
HeartbeatsInStep ==
  [][confirmed <= confirmed' /\ confirmed' <= applied']_vars

\* The stream is the gap-free, monotone projection of ProjectionView.
ImplementsView == View!Spec

\* "heartbeat is ahead of the contiguous watermark"
\* (projection_consumer.py:109): what an active stream says of a heartbeat it
\* refuses.
RefusedHeartbeatIsAhead ==
  [][\A c \in Consumers :
       BlockHeartbeat(c) /\ stream = "ACTIVE" => task[c].seq > applied]_vars

-----------------------------------------------------------------------------
(* Liveness.                                                               *)

\* What may be relied on: the broker delivers, a handler goes on, its
\* transactions do not fail every time, a stopped process is started again,
\* and the operator repairs the event a paused stream waits for.
FairSpec ==
  /\ Spec
  /\ \A c \in Consumers :
       /\ WF_vars(\E i \in DOMAIN queue : Deliver(c, i))
       /\ WF_vars(Handler(c))
       /\ SF_vars(ReadEvent(c))
       /\ SF_vars(\E answered \in BOOLEAN : ApplyEvent(c, answered))
       /\ SF_vars(ApplyHeartbeat(c))
       /\ SF_vars(Pause(c))
       /\ WF_vars(Restart(c))
  /\ SF_vars(\E n \in {expected} \cap DOMAIN log : RepairRead(n))
  /\ WF_vars(\E payload \in Repairs : RepairApply(payload))

\* Every event the source commits is applied, poisoned ones by repair.
EverythingApplied == \A n \in 1..MaxSequence : Len(log) >= n ~> applied >= n

\* "so bounded poison retry actually terminates" (projection_consumer.py:88):
\* a malformed message does not stay at the head of the queue for ever.
PoisonAtHead == queue # <<>> /\ queue[1].payload = "INVALID"
PoisonLeaves == PoisonAtHead ~> ~PoisonAtHead

=============================================================================
