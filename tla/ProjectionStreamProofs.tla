----------------------- MODULE ProjectionStreamProofs -----------------------
(***************************************************************************)
(* What TLAPS proves of ProjectionStream, for any jobs, steps, consumers,  *)
(* attempts and bounds: its types, that the recorded events are a gap-free *)
(* prefix of the source, that the rows cover it, that pauses and           *)
(* heartbeats keep in step with it, and that the stream implements         *)
(* ProjectionView.                                                         *)
(***************************************************************************)
EXTENDS ProjectionStream, SequenceTheorems, TLAPS

\* The events that messages, handlers and the operator speak of were
\* committed, whatever became of them since.
Committed ==
  /\ \A i \in DOMAIN queue :
       queue[i].kind = "EVENT" => queue[i].seq \in 1..Len(log)
  /\ \A c \in Consumers :
       task[c].at \in {"READ", "APPLY", "POISON", "REJECT"} /\ task[c].kind = "EVENT" =>
         task[c].seq \in 1..Len(log)
  /\ repair <= Len(log)

Types == TypeOK /\ Committed

\* The inductive invariant.
IInv ==
  /\ Types
  /\ RecordedPrefix
  /\ ViewCoversPrefix
  /\ applied <= Len(log)
  /\ confirmed <= applied

-----------------------------------------------------------------------------
(* Sequences.                                                              *)

\* Removing an element leaves a sequence of elements that were there.
LEMMA RemoveAtElements ==
  ASSUME NEW S, NEW q \in Seq(S), NEW i \in DOMAIN q
  PROVE  /\ RemoveAt(q, i) \in Seq(S)
         /\ \A k \in DOMAIN RemoveAt(q, i) : \E m \in DOMAIN q : RemoveAt(q, i)[k] = q[m]
         /\ \A m \in DOMAIN q \ {i} : \E k \in DOMAIN RemoveAt(q, i) : RemoveAt(q, i)[k] = q[m]
<1>. DEFINE s == SubSeq(q, 1, i - 1)
            t == SubSeq(q, i + 1, Len(q))
<1>1. i \in 1..Len(q) /\ Len(q) \in Nat /\ DOMAIN q = 1..Len(q)
  OBVIOUS
<1>2. /\ s \in Seq(S)
      /\ Len(s) = i - 1
      /\ \A k \in 1..(i - 1) : s[k] = q[k]
  BY <1>1
<1>3. /\ t \in Seq(S)
      /\ Len(t) = Len(q) - i
      /\ \A k \in 1..(Len(q) - i) : t[k] = q[i + k]
  BY <1>1
<1>4. RemoveAt(q, i) = s \o t
  BY DEF RemoveAt
<1>. HIDE DEF s, t
<1>5. /\ s \o t \in Seq(S)
      /\ Len(s \o t) = Len(q) - 1
      /\ \A k \in 1..(Len(q) - 1) : (s \o t)[k] = IF k <= i - 1 THEN s[k] ELSE t[k - (i - 1)]
  <2>1. /\ s \o t \in Seq(S)
        /\ Len(s \o t) = Len(s) + Len(t)
        /\ \A k \in 1..(Len(s) + Len(t)) : (s \o t)[k] = IF k <= Len(s) THEN s[k] ELSE t[k - Len(s)]
    BY <1>2, <1>3, ConcatProperties
  <2>2. Len(s) + Len(t) = Len(q) - 1
    BY <1>1, <1>2, <1>3
  <2>3. QED
    BY <1>2, <2>1, <2>2
<1>6. ASSUME NEW k \in 1..(Len(q) - 1)
      PROVE  \E m \in DOMAIN q : (s \o t)[k] = q[m]
  <2>1. CASE k <= i - 1
    <3>1. (s \o t)[k] = q[k]
      BY <1>1, <1>2, <1>5, <2>1
    <3>2. k \in DOMAIN q
      BY <1>1
    <3>3. QED
      BY <3>1, <3>2
  <2>2. CASE k > i - 1
    <3>1. (s \o t)[k] = t[k - (i - 1)]
      BY <1>1, <1>5, <2>2
    <3>2. t[k - (i - 1)] = q[k + 1]
      BY <1>1, <1>3, <2>2, SMTT(30)
    <3>3. k + 1 \in DOMAIN q
      BY <1>1
    <3>4. QED
      BY <3>1, <3>2, <3>3
  <2>3. k <= i - 1 \/ k > i - 1
    BY <1>1
  <2>4. QED
    BY <2>1, <2>2, <2>3, Zenon
<1>7. DOMAIN (s \o t) = 1..(Len(q) - 1)
  BY <1>5
<1>8. ASSUME NEW m \in DOMAIN q \ {i}
      PROVE  \E k \in DOMAIN (s \o t) : (s \o t)[k] = q[m]
  <2>1. CASE m < i
    <3>1. m \in 1..(Len(q) - 1) /\ m <= i - 1 /\ m \in 1..(i - 1)
      BY <1>1, <2>1
    <3>2. (s \o t)[m] = q[m]
      BY <1>2, <1>5, <3>1
    <3>3. QED
      BY <1>7, <3>1, <3>2
  <2>2. CASE m > i
    <3>1. m - 1 \in 1..(Len(q) - 1) /\ ~(m - 1 <= i - 1) /\ m - i \in 1..(Len(q) - i)
      BY <1>1, <2>2
    <3>2. (s \o t)[m - 1] = t[(m - 1) - (i - 1)]
      BY <1>5, <3>1
    <3>3. (s \o t)[m - 1] = q[m]
      <4>1. (m - 1) - (i - 1) = m - i /\ i + (m - i) = m
        BY <1>1
      <4>2. t[m - i] = q[i + (m - i)]
        BY <1>3, <3>1
      <4>3. QED
        BY <3>2, <4>1, <4>2
    <3>4. QED
      BY <1>7, <3>1, <3>3
  <2>3. m < i \/ m > i
    BY <1>1
  <2>4. QED
    BY <2>1, <2>2, <2>3, Zenon
<1>9. QED
  BY <1>4, <1>5, <1>6, <1>7, <1>8

\* A queue whose messages keep their kind and sequence, or were there before,
\* speaks of the same events.
LEMMA SameMessages ==
  ASSUME Committed, log' = log,
         \A k \in DOMAIN queue' : \E m \in DOMAIN queue :
           queue'[k].kind = queue[m].kind /\ queue'[k].seq = queue[m].seq
  PROVE  \A k \in DOMAIN queue' :
           queue'[k].kind = "EVENT" => queue'[k].seq \in 1..Len(log')
  BY DEF Committed

LEMMA ReturnedMessages ==
  ASSUME Types, NEW c, NEW b \in BOOLEAN, queue' = Returned(c, b)
  PROVE  /\ queue' \in Seq(Messages)
         /\ \A k \in DOMAIN queue' : \E m \in DOMAIN queue :
              queue'[k].kind = queue[m].kind /\ queue'[k].seq = queue[m].seq
<1>1. queue \in Seq(Messages) /\ MaxAttempts \in Nat \ {0}
  BY StreamAssumption DEF Types, TypeOK
<1>2. \A n \in 0..(MaxAttempts - 1) : Counted(n) \in 0..(MaxAttempts - 1)
  BY <1>1 DEF Counted
<1>3. DEFINE m(i) == IF queue[i].holder = c
                     THEN [queue[i] EXCEPT !.holder = Nobody, !.acquired = Counted(@),
                                           !.lost = IF b THEN Counted(@) ELSE @]
                     ELSE queue[i]
<1>4. ASSUME NEW i \in DOMAIN queue
      PROVE  m(i) \in Messages /\ m(i).kind = queue[i].kind /\ m(i).seq = queue[i].seq
  <2>1. queue[i] \in Messages
    BY <1>1
  <2>2. QED
    BY <1>2, <2>1 DEF Messages
<1>5. queue' = [i \in DOMAIN queue |-> m(i)]
  BY Zenon DEF Returned
<1>. HIDE DEF m
<1>6. queue' \in Seq(Messages) /\ DOMAIN queue' = DOMAIN queue
  <2>1. Len(queue) \in Nat /\ DOMAIN queue = 1..Len(queue)
    BY <1>1
  <2>2. QED
    BY <1>4, <1>5, <2>1
<1>7. \A k \in DOMAIN queue' : queue'[k].kind = queue[k].kind /\ queue'[k].seq = queue[k].seq
  BY <1>4, <1>5
<1>8. QED
  BY <1>6, <1>7

LEMMA WithoutMessages ==
  ASSUME Types, NEW c \in Consumers, Holds(c), queue' = Without(c)
  PROVE  /\ queue' \in Seq(Messages)
         /\ \A k \in DOMAIN queue' : \E m \in DOMAIN queue :
              queue'[k].kind = queue[m].kind /\ queue'[k].seq = queue[m].seq
<1>1. queue \in Seq(Messages)
  BY DEF Types, TypeOK
<1>2. PICK i \in DOMAIN queue : queue' = RemoveAt(queue, i)
  BY DEF Without, Holds, Held
<1>3. /\ RemoveAt(queue, i) \in Seq(Messages)
      /\ \A k \in DOMAIN RemoveAt(queue, i) : \E m \in DOMAIN queue : RemoveAt(queue, i)[k] = queue[m]
  BY <1>1, RemoveAtElements, Zenon
<1>4. QED
  BY <1>2, <1>3, Zenon

-----------------------------------------------------------------------------
(* Tasks.                                                                  *)

LEMMA WaitingIsTask ==
  /\ Waiting \in Tasks
  /\ \A point \in Points : [Waiting EXCEPT !.at = point] \in Tasks
  BY StreamAssumption DEF Waiting, Tasks, Points, Kinds, Payloads

\* A handler that moves on speaks of the event it had, or of none.
LEMMA StepTasks ==
  ASSUME Types, NEW c \in Consumers, NEW point \in Points, Step(c, point), log' = log,
         point \in {"READ", "APPLY", "POISON", "REJECT"} =>
           task[c].at \in {"READ", "APPLY", "POISON", "REJECT"}
  PROVE  /\ task' \in [Consumers -> Tasks]
         /\ \A d \in Consumers :
              task'[d].at \in {"READ", "APPLY", "POISON", "REJECT"} /\ task'[d].kind = "EVENT" =>
                task'[d].seq \in 1..Len(log')
<1>. DEFINE t == Moved(task[c], point)
<1>1. task \in [Consumers -> Tasks] /\ MaxAttempts \in Nat \ {0}
  BY StreamAssumption DEF Types, TypeOK
<1>2. task' = [task EXCEPT ![c] = t]
  BY DEF Step
<1>3. t \in Tasks
  <2>1. CASE point \in Done
    BY <2>1, WaitingIsTask DEF Moved
  <2>2. CASE point \notin Done
    <3>1. task[c] \in Tasks
      BY <1>1
    <3>. DEFINE a == IF point = "POISON" THEN task[c].attempt ELSE 0
    <3>2. t = [task[c] EXCEPT !.at = point, !.attempt = a]
      BY <2>2, Zenon DEF Moved
    <3>3. a \in 0..MaxAttempts
      BY <1>1, <3>1 DEF Tasks
    <3>. HIDE DEF a, t
    <3>4. QED
      BY <3>1, <3>2, <3>3 DEF Tasks
  <2>3. QED
    BY <2>1, <2>2
<1>4. t.at \in {"READ", "APPLY", "POISON", "REJECT"} =>
        /\ task[c].at \in {"READ", "APPLY", "POISON", "REJECT"}
        /\ t.kind = task[c].kind /\ t.seq = task[c].seq
  BY <1>1 DEF Moved, Tasks, Done, Waiting
<1>. HIDE DEF t
<1>5. QED
  BY <1>1, <1>2, <1>3, <1>4 DEF Types, Committed

\* A handler that forgets its message speaks of no event.
LEMMA RestTasks ==
  ASSUME Types, NEW c \in Consumers, NEW point \in {"IDLE", "STOPPED"}, log' = log,
         task' = [task EXCEPT ![c] = [Waiting EXCEPT !.at = point]]
  PROVE  /\ task' \in [Consumers -> Tasks]
         /\ \A d \in Consumers :
              task'[d].at \in {"READ", "APPLY", "POISON", "REJECT"} /\ task'[d].kind = "EVENT" =>
                task'[d].seq \in 1..Len(log')
<1>1. task \in [Consumers -> Tasks] /\ [Waiting EXCEPT !.at = point] \in Tasks
  BY WaitingIsTask DEF Types, TypeOK, Points
<1>2. [Waiting EXCEPT !.at = point].at \notin {"READ", "APPLY", "POISON", "REJECT"}
  BY DEF Waiting
<1>3. QED
  BY <1>1, <1>2 DEF Types, Committed

LEMMA WaitingRests == Waiting = [Waiting EXCEPT !.at = "IDLE"]
  BY DEF Waiting

-----------------------------------------------------------------------------
(* Types.                                                                  *)

\* What the source publishes keeps the types.
LEMMA PublishTypes ==
  ASSUME Types, NEW msg \in Messages, Publish(msg),
         log' \in Seq(View!Changes), Len(log') <= MaxSequence, Len(log) <= Len(log'),
         msg.kind = "EVENT" => msg.seq \in 1..Len(log')
  PROVE  Types'
<1>1. queue \in Seq(Messages) /\ Len(log) \in Nat /\ Len(log') \in Nat /\ Len(queue) \in Nat
  BY DEF Types, TypeOK
<1>2. /\ queue' \in Seq(Messages)
      /\ DOMAIN queue' = 1..(Len(queue) + 1)
      /\ \A i \in 1..Len(queue) : queue'[i] = queue[i]
      /\ queue'[Len(queue) + 1] = msg
  <2>1. queue' = Append(queue, msg)
    BY DEF Publish
  <2>2. QED
    BY <1>1, <2>1
<1>3. UNCHANGED <<version, events, applied, expected, stream, confirmed, dead, active, task,
                  repair, losses>>
  BY DEF Publish, rows
<1>4. TypeOK'
  BY <1>2, <1>3 DEF Types, TypeOK
<1>5. Committed'
  <2>1. ASSUME NEW i \in DOMAIN queue', queue'[i].kind = "EVENT"
        PROVE  queue'[i].seq \in 1..Len(log')
    <3>1. CASE i \in 1..Len(queue)
      <4>1. queue'[i] = queue[i] /\ i \in DOMAIN queue
        BY <1>1, <1>2, <3>1
      <4>2. queue[i].seq \in 1..Len(log)
        BY <2>1, <4>1 DEF Types, Committed
      <4>3. QED
        BY <1>1, <4>1, <4>2
    <3>2. CASE i = Len(queue) + 1
      BY <1>2, <2>1, <3>2
    <3>3. i \in 1..Len(queue) \/ i = Len(queue) + 1
      BY <1>1, <1>2
    <3>4. QED
      BY <3>1, <3>2, <3>3
  <2>2. \A c \in Consumers :
          task'[c].at \in {"READ", "APPLY", "POISON", "REJECT"} /\ task'[c].kind = "EVENT" =>
            task'[c].seq \in 1..Len(log')
    BY <1>1, <1>3 DEF Types, Committed
  <2>3. repair' <= Len(log')
    BY <1>1, <1>3 DEF Types, Committed, TypeOK
  <2>4. QED
    BY <2>1, <2>2, <2>3 DEF Committed
<1>6. QED
  BY <1>4, <1>5 DEF Types

\* A message that was never delivered.
LEMMA FreshIsMessage ==
  ASSUME NEW kind \in Kinds, NEW n \in 0..MaxSequence, NEW payload \in Payloads
  PROVE  /\ Fresh(kind, n, payload) \in Messages
         /\ Fresh(kind, n, payload).kind = kind
         /\ Fresh(kind, n, payload).seq = n
  BY StreamAssumption DEF Fresh, Messages

\* What hermes-travel, backfill and reconciliation do keeps the types.
LEMMA SourceTypes ==
  ASSUME Types, Source
  PROVE  Types'
<1>1. /\ log \in Seq(View!Changes) /\ Len(log) \in Nat /\ Len(log) <= MaxSequence
      /\ MaxSequence \in Nat /\ DOMAIN log = 1..Len(log)
  BY StreamAssumption DEF Types, TypeOK
<1>2. \A origin : Shapes(origin) \subseteq Payloads
  BY DEF Shapes, Payloads
<1>3. ASSUME NEW chg \in View!Changes, NEW payload \in Payloads, Commit(chg, payload)
      PROVE  Types'
  <2>. DEFINE msg == Fresh("EVENT", Len(log) + 1, payload)
  <2>1. Len(log) < MaxSequence /\ log' = Append(log, chg) /\ Publish(msg)
    BY <1>3 DEF Commit
  <2>2. log' \in Seq(View!Changes) /\ Len(log') = Len(log) + 1
    BY <1>1, <2>1
  <2>3. msg \in Messages /\ msg.kind = "EVENT" /\ msg.seq = Len(log) + 1
    <3>1. Len(log) + 1 \in 0..MaxSequence
      BY <1>1, <2>1
    <3>2. QED
      BY <3>1, FreshIsMessage DEF Kinds
  <2>. HIDE DEF msg
  <2>4. Len(log') <= MaxSequence /\ Len(log) <= Len(log') /\ msg.seq \in 1..Len(log')
    BY <1>1, <2>1, <2>2, <2>3
  <2>5. QED
    BY <2>1, <2>2, <2>3, <2>4, PublishTypes
<1>4. ASSUME NEW n \in DOMAIN log, NEW payload \in Payloads, PublishAgain(n, payload)
      PROVE  Types'
  <2>. DEFINE msg == Fresh("EVENT", n, payload)
  <2>1. log' = log /\ Publish(msg)
    BY <1>4 DEF PublishAgain
  <2>2. msg \in Messages /\ msg.kind = "EVENT" /\ msg.seq = n
    <3>1. n \in 0..MaxSequence
      BY <1>1
    <3>2. QED
      BY <3>1, FreshIsMessage DEF Kinds
  <2>. HIDE DEF msg
  <2>3. QED
    BY <1>1, <2>1, <2>2, PublishTypes
<1>5. ASSUME NEW payload \in Payloads, Heartbeat(payload)
      PROVE  Types'
  <2>. DEFINE msg == Fresh("HEARTBEAT", Len(log), payload)
  <2>1. log' = log /\ Publish(msg)
    BY <1>5 DEF Heartbeat
  <2>2. msg \in Messages /\ msg.kind = "HEARTBEAT"
    <3>1. Len(log) \in 0..MaxSequence
      BY <1>1
    <3>2. QED
      BY <3>1, FreshIsMessage DEF Kinds
  <2>. HIDE DEF msg
  <2>3. QED
    BY <1>1, <2>1, <2>2, PublishTypes
<1>6. ASSUME NEW e \in Entities, NEW n \in DOMAIN log, StoreSnapshot(e, n)
      PROVE  Types'
  <2>1. UNCHANGED <<log, events, applied, expected, stream, confirmed, queue, dead, active,
                    task, repair, losses>>
    BY <1>6 DEF StoreSnapshot, broker
  <2>2. version' \in [Entities -> 0..MaxSequence]
    BY <1>1, <1>6 DEF StoreSnapshot, Types, TypeOK
  <2>3. QED
    BY <2>1, <2>2 DEF Types, TypeOK, Committed
<1>7. QED
  BY <1>2, <1>3, <1>4, <1>5, <1>6 DEF Source

\* So does what the broker does with messages and processes.
LEMMA BrokerTypes ==
  ASSUME Types, NEW c \in Consumers, Broker(c)
  PROVE  Types'
<1>1. queue \in Seq(Messages) /\ task \in [Consumers -> Tasks] /\ active \in Consumers \cup {Nobody}
  BY DEF Types, TypeOK
<1>2. StopConsuming(c) => active' \in Consumers \cup {Nobody}
  BY <1>1 DEF StopConsuming
<1>3. losses \in 0..MaxLosses /\ MaxLosses \in Nat
  BY StreamAssumption DEF Types, TypeOK
<1>4. CASE Disconnect(c)
  <2>1. /\ log' = log /\ UNCHANGED <<version, events, applied, expected, stream, confirmed, dead, task, repair>>
        /\ queue' = Returned(c, TRUE) /\ losses' \in 0..MaxLosses
        /\ active' \in Consumers \cup {Nobody}
    BY <1>2, <1>3, <1>4 DEF Disconnect, rows
  <2>2. /\ queue' \in Seq(Messages)
        /\ \A k \in DOMAIN queue' : queue'[k].kind = "EVENT" => queue'[k].seq \in 1..Len(log')
    BY <2>1, ReturnedMessages, SameMessages DEF Types
  <2>3. QED
    BY <2>1, <2>2 DEF Types, TypeOK, Committed
<1>5. CASE Crash(c)
  <2>1. /\ log' = log /\ UNCHANGED <<version, events, applied, expected, stream, confirmed, dead, repair>>
        /\ queue' = Returned(c, TRUE) /\ losses' \in 0..MaxLosses
        /\ task' = [task EXCEPT ![c] = [Waiting EXCEPT !.at = "STOPPED"]]
        /\ active' \in Consumers \cup {Nobody}
    BY <1>2, <1>3, <1>5 DEF Crash, rows
  <2>2. /\ queue' \in Seq(Messages)
        /\ \A k \in DOMAIN queue' : queue'[k].kind = "EVENT" => queue'[k].seq \in 1..Len(log')
    BY <2>1, ReturnedMessages, SameMessages DEF Types
  <2>3. /\ task' \in [Consumers -> Tasks]
        /\ \A d \in Consumers :
             task'[d].at \in {"READ", "APPLY", "POISON", "REJECT"} /\ task'[d].kind = "EVENT" =>
               task'[d].seq \in 1..Len(log')
    BY <2>1, RestTasks
  <2>4. QED
    BY <2>1, <2>2, <2>3 DEF Types, TypeOK, Committed
<1>6. CASE Restart(c)
  <2>1. /\ log' = log
        /\ UNCHANGED <<version, events, applied, expected, stream, confirmed, dead, active, repair, losses>>
        /\ queue' = Returned(c, TRUE)
        /\ task' = [task EXCEPT ![c] = [Waiting EXCEPT !.at = "IDLE"]]
    BY <1>6, WaitingRests DEF Restart, rows
  <2>2. /\ queue' \in Seq(Messages)
        /\ \A k \in DOMAIN queue' : queue'[k].kind = "EVENT" => queue'[k].seq \in 1..Len(log')
    BY <2>1, ReturnedMessages, SameMessages DEF Types
  <2>3. /\ task' \in [Consumers -> Tasks]
        /\ \A d \in Consumers :
             task'[d].at \in {"READ", "APPLY", "POISON", "REJECT"} /\ task'[d].kind = "EVENT" =>
               task'[d].seq \in 1..Len(log')
    BY <2>1, RestTasks
  <2>4. QED
    BY <2>1, <2>2, <2>3 DEF Types, TypeOK, Committed
<1>7. ASSUME NEW i \in DOMAIN queue, Deliver(c, i)
      PROVE  Types'
  <2>. DEFINE t == task'[c]
  <2>1. queue[i] \in Messages /\ MaxAttempts \in Nat \ {0} /\ MaxSequence \in Nat
    BY <1>1, StreamAssumption
  <2>2. DeliveryAttempt(queue[i]) \in 0..MaxAttempts
    BY <2>1 DEF DeliveryAttempt, Messages
  <2>3. /\ task' = [task EXCEPT ![c] = t] /\ t \in Tasks
        /\ t.kind = queue[i].kind /\ t.seq = queue[i].seq
    <3>1. PICK at \in {"POISON", "READ", "APPLY"} :
            task' = [task EXCEPT ![c] = [at |-> at, kind |-> queue[i].kind, seq |-> queue[i].seq,
                                         payload |-> queue[i].payload,
                                         attempt |-> DeliveryAttempt(queue[i])]]
      BY <1>7 DEF Deliver
    <3>2. QED
      BY <1>1, <2>1, <2>2, <3>1 DEF Messages, Tasks, Points
  <2>4. /\ queue' = [queue EXCEPT ![i].holder = c] /\ active' = c
        /\ UNCHANGED <<log, version, events, applied, expected, stream, confirmed, dead, repair, losses>>
    BY <1>7 DEF Deliver, rows
  <2>5. /\ queue' \in Seq(Messages)
        /\ \A k \in DOMAIN queue' : \E m \in DOMAIN queue :
             queue'[k].kind = queue[m].kind /\ queue'[k].seq = queue[m].seq
    <3>. DEFINE u == [queue[i] EXCEPT !.holder = c]
    <3>1. u \in Messages /\ u.kind = queue[i].kind /\ u.seq = queue[i].seq
      BY <2>1 DEF Messages
    <3>2. queue' = [queue EXCEPT ![i] = u]
      BY <2>4
    <3>. HIDE DEF u
    <3>3. QED
      BY <1>1, <3>1, <3>2
  <2>6. \A k \in DOMAIN queue' : queue'[k].kind = "EVENT" => queue'[k].seq \in 1..Len(log')
    BY <2>4, <2>5, SameMessages DEF Types
  <2>7. queue[i].kind = "EVENT" => queue[i].seq \in 1..Len(log)
    BY DEF Types, Committed
  <2>. HIDE DEF t
  <2>8. \A d \in Consumers :
          task'[d].at \in {"READ", "APPLY", "POISON", "REJECT"} /\ task'[d].kind = "EVENT" =>
            task'[d].seq \in 1..Len(log')
    BY <1>1, <2>3, <2>4, <2>7 DEF Types, Committed
  <2>9. task' \in [Consumers -> Tasks]
    BY <1>1, <2>3
  <2>10. QED
    BY <2>4, <2>5, <2>6, <2>8, <2>9 DEF Types, TypeOK, Committed
<1>8. QED
  BY <1>4, <1>5, <1>6, <1>7 DEF Broker

\* So does recording an event that was committed.
LEMMA RecordTypes ==
  ASSUME Types, NEW n \in 1..Len(log), NEW payload \in Payloads, Record(n, payload)
  PROVE  /\ version' \in [Entities -> 0..MaxSequence]
         /\ events' \in [1..MaxSequence -> Payloads \cup {"NONE"}]
         /\ applied' \in 0..MaxSequence /\ expected' \in 1..(MaxSequence + 1)
         /\ confirmed' = confirmed
<1>1. /\ n \in 1..MaxSequence /\ MaxSequence \in Nat
      /\ version \in [Entities -> 0..MaxSequence]
      /\ events \in [1..MaxSequence -> Payloads \cup {"NONE"}]
  BY StreamAssumption DEF Types, TypeOK
<1>2. version' \in [Entities -> 0..MaxSequence]
  BY <1>1 DEF Record, Absorb
<1>3. events' \in [1..MaxSequence -> Payloads \cup {"NONE"}]
  BY <1>1 DEF Record
<1>4. QED
  BY <1>1, <1>2, <1>3 DEF Record

\* So does every step of a handler.
LEMMA HandlerTypes ==
  ASSUME Types, NEW c \in Consumers, Handler(c)
  PROVE  Types'
<1>. DEFINE TasksOK ==
       /\ task' \in [Consumers -> Tasks]
       /\ \A d \in Consumers :
            task'[d].at \in {"READ", "APPLY", "POISON", "REJECT"} /\ task'[d].kind = "EVENT" =>
              task'[d].seq \in 1..Len(log')
<1>1. queue \in Seq(Messages) /\ active \in Consumers \cup {Nobody} /\ task[c] \in Tasks
  BY DEF Types, TypeOK
<1>2. StopConsuming(c) => active' \in Consumers \cup {Nobody}
  BY <1>1 DEF StopConsuming
<1>3. ASSUME NEW point \in Points, Step(c, point), log' = log,
             point \in {"READ", "APPLY", "POISON", "REJECT"} =>
               task[c].at \in {"READ", "APPLY", "POISON", "REJECT"}
      PROVE  TasksOK
  BY <1>3, StepTasks
<1>4. ASSUME NEW point \in {"IDLE", "STOPPED"}, log' = log,
             task' = [task EXCEPT ![c] = [Waiting EXCEPT !.at = point]]
      PROVE  TasksOK
  BY <1>4, RestTasks
<1>. HIDE DEF TasksOK
<1>5. ASSUME TasksOK, UNCHANGED <<log, rows, queue, dead, repair, losses>>,
             active' \in Consumers \cup {Nobody}
      PROVE  Types'
  BY <1>5 DEF TasksOK, Types, TypeOK, Committed, rows
<1>6. CASE ReadEvent(c)
  <2>1. PICK point \in {"APPLY", "ACK", "POISON"} :
          /\ task[c].at = "READ" /\ Step(c, point)
          /\ UNCHANGED <<log, rows, broker, repair, losses>>
    BY <1>6 DEF ReadEvent
  <2>2. TasksOK
    BY <1>3, <2>1 DEF Points
  <2>3. QED
    BY <1>1, <1>5, <2>1, <2>2 DEF broker
<1>7. CASE BlockEvent(c) \/ BlockHeartbeat(c) \/ HandlerFails(c) \/ PoisonRetry(c)
  <2>1. PICK point \in {"RETRY", "BLOCKED"} :
          Step(c, point) /\ UNCHANGED <<log, rows, broker, repair, losses>>
    BY <1>7 DEF BlockEvent, AfterBlocked, BlockHeartbeat, HandlerFails, PoisonRetry
  <2>2. TasksOK
    BY <1>3, <2>1 DEF Points
  <2>3. QED
    BY <1>1, <1>5, <2>1, <2>2 DEF broker
<1>8. CASE PauseFails(c)
  <2>1. /\ Step(c, "STOPPED") /\ StopConsuming(c)
        /\ UNCHANGED <<log, rows, queue, dead, repair, losses>>
    BY <1>8 DEF PauseFails
  <2>2. TasksOK
    BY <1>3, <2>1 DEF Points
  <2>3. QED
    BY <1>2, <1>5, <2>1, <2>2
<1>9. ASSUME NEW point \in {"STOPPED", "IDLE"}, AnswerLost(c, point)
      PROVE  Types'
  <2>1. /\ task' = [task EXCEPT ![c] = [Waiting EXCEPT !.at = point]]
        /\ UNCHANGED <<log, rows, queue, dead, repair, losses>>
        /\ active' \in Consumers \cup {Nobody}
    BY <1>1, <1>9 DEF AnswerLost
  <2>2. QED
    BY <1>4, <1>5, <2>1
<1>10. ASSUME NEW answered \in BOOLEAN, ApplyEvent(c, answered)
       PROVE  Types'
  <2>1. /\ task[c].at = "APPLY" /\ task[c].kind = "EVENT" /\ Record(task[c].seq, task[c].payload)
        /\ UNCHANGED <<log, stream, broker, repair, losses>>
    BY <1>10 DEF ApplyEvent
  <2>2. PICK point \in {"ACK", "RETRY"} : Step(c, point)
    BY <1>10 DEF ApplyEvent
  <2>3. TasksOK
    BY <1>3, <2>1, <2>2 DEF Points
  <2>4. task[c].seq \in 1..Len(log) /\ task[c].payload \in Payloads
    BY <1>1, <2>1 DEF Types, Committed, Tasks
  <2>5. /\ version' \in [Entities -> 0..MaxSequence]
        /\ events' \in [1..MaxSequence -> Payloads \cup {"NONE"}]
        /\ applied' \in 0..MaxSequence /\ expected' \in 1..(MaxSequence + 1)
        /\ confirmed' = confirmed
    BY <2>1, <2>4, RecordTypes
  <2>6. QED
    BY <2>1, <2>3, <2>5 DEF TasksOK, Types, TypeOK, Committed, broker
<1>11. CASE ApplyHeartbeat(c)
  <2>1. /\ confirmed' = task[c].seq /\ Step(c, "ACK")
        /\ UNCHANGED <<log, version, events, applied, expected, stream, queue, dead, active,
                       repair, losses>>
    BY <1>11 DEF ApplyHeartbeat, broker
  <2>2. TasksOK
    BY <1>3, <2>1 DEF Points
  <2>3. confirmed' \in -1..MaxSequence
    BY <1>1, <2>1, StreamAssumption DEF Tasks
  <2>4. QED
    BY <2>1, <2>2, <2>3 DEF TasksOK, Types, TypeOK, Committed
<1>12. CASE Pause(c)
  <2>1. /\ task[c].at = "POISON" /\ stream' = "PAUSED_POISON" /\ Step(c, "REJECT")
        /\ UNCHANGED <<log, version, events, applied, expected, confirmed, queue, dead, active,
                       repair, losses>>
    BY <1>12 DEF Pause, broker
  <2>2. TasksOK
    BY <1>3, <2>1 DEF Points
  <2>3. QED
    BY <2>1, <2>2 DEF TasksOK, Types, TypeOK, Committed
<1>13. CASE Ack(c) \/ Nack(c)
  <2>1. /\ Holds(c) /\ (queue' = Without(c) \/ queue' = Returned(c, FALSE))
        /\ task' = [task EXCEPT ![c] = [Waiting EXCEPT !.at = "IDLE"]]
        /\ UNCHANGED <<log, version, events, applied, expected, stream, confirmed, dead, active,
                       repair, losses>>
    BY <1>13, WaitingRests DEF Ack, Nack, rows
  <2>2. TasksOK
    BY <1>4, <2>1
  <2>3. /\ queue' \in Seq(Messages)
        /\ \A k \in DOMAIN queue' : queue'[k].kind = "EVENT" => queue'[k].seq \in 1..Len(log')
    BY <2>1, WithoutMessages, ReturnedMessages, SameMessages DEF Types
  <2>4. QED
    BY <2>1, <2>2, <2>3 DEF TasksOK, Types, TypeOK, Committed
<1>14. CASE Reject(c)
  <2>1. /\ task[c].at = "REJECT" /\ Holds(c) /\ queue' = Without(c)
        /\ dead' = IF task[c].kind = "EVENT" THEN dead \cup {task[c].seq} ELSE dead
        /\ task' = [task EXCEPT ![c] = [Waiting EXCEPT !.at = "STOPPED"]]
        /\ active' \in Consumers \cup {Nobody}
        /\ UNCHANGED <<log, version, events, applied, expected, stream, confirmed, repair, losses>>
    BY <1>2, <1>14 DEF Reject, rows
  <2>2. TasksOK
    BY <1>4, <2>1
  <2>3. /\ queue' \in Seq(Messages)
        /\ \A k \in DOMAIN queue' : queue'[k].kind = "EVENT" => queue'[k].seq \in 1..Len(log')
    BY <2>1, WithoutMessages, SameMessages DEF Types
  <2>4. dead' \subseteq 1..MaxSequence
    <3>1. task[c].kind = "EVENT" => task[c].seq \in 1..MaxSequence
      BY <2>1, StreamAssumption DEF Types, TypeOK, Committed
    <3>2. QED
      BY <2>1, <3>1 DEF Types, TypeOK
  <2>5. QED
    BY <2>1, <2>2, <2>3, <2>4 DEF TasksOK, Types, TypeOK, Committed
<1>15. QED
  BY <1>6, <1>7, <1>8, <1>9, <1>10, <1>11, <1>12, <1>13, <1>14 DEF Handler

\* So does an operator.
LEMMA OperatorTypes ==
  ASSUME Types, Operator
  PROVE  Types'
<1>1. Len(log) \in Nat /\ DOMAIN log = 1..Len(log) /\ Len(log) <= MaxSequence /\ MaxSequence \in Nat
  BY StreamAssumption DEF Types, TypeOK
<1>2. ASSUME NEW n \in DOMAIN log, RepairRead(n)
      PROVE  Types'
  <2>1. /\ repair' \in {0, n}
        /\ UNCHANGED <<log, version, events, applied, expected, stream, confirmed, queue, dead,
                       active, task, losses>>
    BY <1>2 DEF RepairRead, rows, broker
  <2>2. repair' \in 0..MaxSequence /\ repair' <= Len(log')
    BY <1>1, <2>1
  <2>3. QED
    BY <2>1, <2>2 DEF Types, TypeOK, Committed
<1>3. ASSUME NEW payload \in Repairs, RepairApply(payload)
      PROVE  Types'
  <2>1. /\ repair # 0 /\ repair' = 0 /\ UNCHANGED <<log, queue, dead, active, task, losses>>
    BY <1>3 DEF RepairApply, broker
  <2>2. repair' \in 0..MaxSequence /\ repair' <= Len(log')
    BY <1>1, <2>1
  <2>3. CASE UNCHANGED rows
    BY <2>1, <2>2, <2>3 DEF rows, Types, TypeOK, Committed
  <2>4. CASE Record(repair, payload) /\ stream' = "ACTIVE"
    <3>1. repair \in 1..Len(log) /\ payload \in Payloads
      BY <1>1, <2>1, StreamAssumption DEF Types, TypeOK, Committed, Payloads
    <3>2. /\ version' \in [Entities -> 0..MaxSequence]
          /\ events' \in [1..MaxSequence -> Payloads \cup {"NONE"}]
          /\ applied' \in 0..MaxSequence /\ expected' \in 1..(MaxSequence + 1)
          /\ confirmed' = confirmed
      BY <2>4, <3>1, RecordTypes
    <3>3. QED
      BY <2>1, <2>2, <2>4, <3>2 DEF Types, TypeOK, Committed
  <2>5. QED
    BY <1>3, <2>3, <2>4 DEF RepairApply
<1>4. QED
  BY <1>2, <1>3 DEF Operator

\* Every step keeps the types.
LEMMA StepTypes ==
  ASSUME Types, [Next]_vars
  PROVE  Types'
<1>1. CASE UNCHANGED vars
  BY <1>1 DEF vars, rows, broker, Types, TypeOK, Committed
<1>2. QED
  BY <1>1, SourceTypes, BrokerTypes, HandlerTypes, OperatorTypes DEF Next

\* They hold before the first event.
LEMMA InitTypes == Init => Types
<1>. SUFFICES ASSUME Init PROVE Types
  OBVIOUS
<1>1. Waiting \in Tasks /\ Waiting.at = "IDLE"
  BY WaitingIsTask DEF Waiting
<1>2. TypeOK
  BY <1>1, StreamAssumption DEF Init, TypeOK
<1>3. Committed
  BY <1>1 DEF Init, Committed
<1>4. QED
  BY <1>2, <1>3 DEF Types

-----------------------------------------------------------------------------
(* What a step does to the rows.                                           *)

\* Nothing; at most the source commits an event or the stream is paused.
Quiet ==
  /\ log' = log \/ \E chg \in View!Changes : log' = Append(log, chg)
  /\ UNCHANGED <<version, events, applied, expected, confirmed>>
  /\ stream' \in {stream, "PAUSED_POISON"}

\* A snapshot read from the source replaces an older row.
Stored ==
  /\ \E e \in Entities, n \in DOMAIN log : StoreSnapshot(e, n)
  /\ UNCHANGED <<log, events, applied, expected, stream, confirmed>>

\* The event the stream waits for is recorded.
Recorded ==
  /\ expected \in 1..Len(log)
  /\ \E payload \in Payloads : Record(expected, payload)
  /\ stream' = "ACTIVE"
  /\ UNCHANGED log

\* A heartbeat is confirmed.
Confirmed ==
  /\ stream = "ACTIVE"
  /\ confirmed' = applied
  /\ UNCHANGED <<log, version, events, applied, expected, stream>>

\* Every step is one of these.
LEMMA RowsStep ==
  ASSUME Types, [Next]_vars
  PROVE  Quiet \/ Stored \/ Recorded \/ Confirmed
<1>1. CASE UNCHANGED vars
  BY <1>1 DEF vars, rows, Quiet
<1>2. CASE Source
  <2>1. ASSUME NEW chg \in View!Changes, NEW payload, Commit(chg, payload)
        PROVE  Quiet
    BY <2>1 DEF Commit, Publish, rows, Quiet
  <2>2. ASSUME NEW n, NEW payload, PublishAgain(n, payload)
        PROVE  Quiet
    BY <2>2 DEF PublishAgain, Publish, rows, Quiet
  <2>3. ASSUME NEW payload, Heartbeat(payload)
        PROVE  Quiet
    BY <2>3 DEF Heartbeat, Publish, rows, Quiet
  <2>4. ASSUME NEW e \in Entities, NEW n \in DOMAIN log, StoreSnapshot(e, n)
        PROVE  Stored
    <3>1. UNCHANGED <<log, events, applied, expected, stream, confirmed>>
      BY <2>4 DEF StoreSnapshot
    <3>2. QED
      BY <2>4, <3>1 DEF Stored
  <2>5. QED
    BY <1>2, <2>1, <2>2, <2>3, <2>4 DEF Source
<1>3. ASSUME NEW c \in Consumers, Handler(c)
      PROVE  Quiet \/ Recorded \/ Confirmed
  <2>1. ASSUME NEW answered, ApplyEvent(c, answered)
        PROVE  Recorded
    <3>1. /\ task[c].at = "APPLY" /\ task[c].kind = "EVENT"
          /\ stream = "ACTIVE" /\ task[c].seq = expected
          /\ Record(task[c].seq, task[c].payload)
          /\ UNCHANGED <<log, stream>>
      BY <2>1 DEF ApplyEvent, Applies
    <3>2. task[c].seq \in 1..Len(log) /\ task[c].payload \in Payloads
      BY <3>1 DEF Types, TypeOK, Committed, Tasks
    <3>3. QED
      BY <3>1, <3>2 DEF Recorded
  <2>2. ASSUME ApplyHeartbeat(c)
        PROVE  Confirmed
    BY <2>2 DEF ApplyHeartbeat, Confirms, Confirmed
  <2>3. CASE \/ ReadEvent(c) \/ BlockEvent(c) \/ BlockHeartbeat(c) \/ HandlerFails(c)
             \/ PoisonRetry(c) \/ Pause(c) \/ PauseFails(c) \/ Ack(c) \/ Nack(c) \/ Reject(c)
             \/ \E point \in {"STOPPED", "IDLE"} : AnswerLost(c, point)
    BY <2>3 DEF ReadEvent, BlockEvent, BlockHeartbeat, HandlerFails, PoisonRetry, Pause,
                PauseFails, Ack, Nack, Reject, AnswerLost, rows, Quiet
  <2>4. QED
    BY <1>3, <2>1, <2>2, <2>3 DEF Handler
<1>4. ASSUME NEW c \in Consumers, Broker(c)
      PROVE  Quiet
  BY <1>4 DEF Broker, Disconnect, Crash, Restart, Deliver, rows, Quiet
<1>5. CASE Operator
  <2>1. ASSUME NEW n, RepairRead(n)
        PROVE  Quiet
    BY <2>1 DEF RepairRead, rows, Quiet
  <2>2. ASSUME NEW payload \in Repairs, RepairApply(payload)
        PROVE  Quiet \/ Recorded
    <3>1. log' = log /\ repair # 0
      BY <2>2 DEF RepairApply
    <3>2. CASE UNCHANGED rows
      BY <3>1, <3>2 DEF rows, Quiet
    <3>3. CASE repair = expected /\ Record(repair, payload) /\ stream' = "ACTIVE"
      <4>1. repair \in 1..Len(log)
        BY <3>1 DEF Types, TypeOK, Committed
      <4>2. payload \in Payloads
        BY StreamAssumption DEF Payloads
      <4>3. QED
        BY <3>1, <3>3, <4>1, <4>2 DEF Recorded
    <3>4. QED
      BY <2>2, <3>2, <3>3 DEF RepairApply
  <2>3. QED
    BY <1>5, <2>1, <2>2 DEF Operator
<1>6. QED
  BY <1>1, <1>2, <1>3, <1>4, <1>5 DEF Next

\* The rows keep to the events: one step of the invariant.
LEMMA RowsInvariant ==
  ASSUME IInv, [Next]_vars
  PROVE  IInv'
<1>1. /\ log \in Seq(View!Changes) /\ Len(log) \in Nat /\ DOMAIN log = 1..Len(log)
      /\ version \in [Entities -> 0..MaxSequence]
      /\ events \in [1..MaxSequence -> Payloads \cup {"NONE"}]
      /\ applied \in Nat /\ expected \in Nat /\ confirmed \in Int /\ MaxSequence \in Nat
      /\ Len(log) <= MaxSequence
  BY StreamAssumption DEF IInv, Types, TypeOK
<1>2. Types /\ Types'
  BY StepTypes DEF IInv
<1>3. CASE Quiet
  <2>1. UNCHANGED <<version, events, applied, expected, confirmed>>
    BY <1>3 DEF Quiet
  <2>2. /\ Len(log') \in Nat /\ Len(log) <= Len(log') /\ DOMAIN log' = 1..Len(log')
        /\ \A n \in 1..Len(log) : log'[n] = log[n]
    <3>1. CASE log' = log
      BY <1>1, <3>1
    <3>2. ASSUME NEW chg \in View!Changes, log' = Append(log, chg)
          PROVE  /\ Len(log') \in Nat /\ Len(log) <= Len(log') /\ DOMAIN log' = 1..Len(log')
                 /\ \A n \in 1..Len(log) : log'[n] = log[n]
      BY <1>1, <3>2
    <3>3. QED
      BY <1>3, <3>1, <3>2 DEF Quiet
  <2>3. RecordedPrefix' /\ applied' <= Len(log') /\ confirmed' <= applied'
    BY <1>1, <2>1, <2>2 DEF IInv, RecordedPrefix
  <2>4. ViewCoversPrefix'
    <3>1. ASSUME NEW e \in Entities, NEW n \in 1..applied', e \in log'[n]
          PROVE  version'[e] >= n
      BY <1>1, <2>1, <2>2, <3>1 DEF IInv, ViewCoversPrefix
    <3>2. ASSUME NEW e \in Entities, version'[e] # 0
          PROVE  version'[e] \in DOMAIN log' /\ e \in log'[version'[e]]
      BY <1>1, <2>1, <2>2, <3>2 DEF IInv, ViewCoversPrefix
    <3>3. QED
      BY <3>1, <3>2 DEF ViewCoversPrefix
  <2>5. QED
    BY <1>2, <2>3, <2>4 DEF IInv
<1>4. CASE Stored
  <2>1. UNCHANGED <<log, events, applied, expected, confirmed>>
    BY <1>4 DEF Stored
  <2>2. PICK e \in Entities, n \in DOMAIN log :
          /\ e \in log[n] /\ n > version[e]
          /\ version' = [version EXCEPT ![e] = n]
    BY <1>4 DEF Stored, StoreSnapshot
  <2>3. RecordedPrefix' /\ applied' <= Len(log') /\ confirmed' <= applied'
    BY <1>1, <2>1 DEF IInv, RecordedPrefix
  <2>4. ViewCoversPrefix'
    <3>1. ASSUME NEW f \in Entities
          PROVE  /\ \A m \in 1..applied : f \in log[m] => version'[f] >= m
                 /\ version'[f] # 0 => version'[f] \in DOMAIN log /\ f \in log[version'[f]]
      <4>1. /\ \A m \in 1..applied : f \in log[m] => version[f] >= m
            /\ version[f] # 0 => version[f] \in DOMAIN log /\ f \in log[version[f]]
        BY DEF IInv, ViewCoversPrefix
      <4>2. CASE f = e
        BY <1>1, <2>2, <4>1, <4>2
      <4>3. CASE f # e
        BY <1>1, <2>2, <4>1, <4>3
      <4>4. QED
        BY <4>2, <4>3
    <3>2. QED
      BY <2>1, <3>1 DEF ViewCoversPrefix
  <2>5. QED
    BY <1>2, <2>3, <2>4 DEF IInv
<1>5. CASE Recorded
  <2>. DEFINE n == applied + 1
  <2>1. expected = n /\ n \in 1..Len(log) /\ log' = log
    BY <1>1, <1>5 DEF Recorded, IInv, RecordedPrefix
  <2>2. PICK payload \in Payloads : Record(n, payload)
    BY <1>5, <2>1 DEF Recorded
  <2>3. applied' = n /\ expected' = n + 1 /\ confirmed' = confirmed
    BY <2>2 DEF Record
  <2>4. RecordedPrefix'
    <3>1. events' = [events EXCEPT ![n] = payload] /\ payload # "NONE"
      BY <2>2 DEF Record, Payloads
    <3>2. \A m \in 1..MaxSequence : events[m] # "NONE" <=> m <= applied
      BY DEF IInv, RecordedPrefix
    <3>3. \A m \in 1..MaxSequence : events'[m] # "NONE" <=> m <= applied + 1
      BY <1>1, <3>1, <3>2
    <3>4. QED
      BY <1>1, <2>3, <3>3 DEF RecordedPrefix
  <2>5. ViewCoversPrefix'
    <3>1. version' = Absorb(n)
      BY <2>2 DEF Record
    <3>2. ASSUME NEW e \in Entities
          PROVE  /\ \A m \in 1..n : e \in log[m] => version'[e] >= m
                 /\ version'[e] # 0 => version'[e] \in DOMAIN log /\ e \in log[version'[e]]
      <4>1. version'[e] = IF e \in log[n] /\ n > version[e] THEN n ELSE version[e]
        BY <3>1 DEF Absorb
      <4>2. /\ \A m \in 1..applied : e \in log[m] => version[e] >= m
            /\ version[e] # 0 => version[e] \in DOMAIN log /\ e \in log[version[e]]
            /\ version[e] \in Nat
        BY <1>1 DEF IInv, ViewCoversPrefix
      <4>3. CASE e \in log[n] /\ n > version[e]
        BY <1>1, <2>1, <4>1, <4>2, <4>3
      <4>4. CASE ~(e \in log[n] /\ n > version[e])
        <5>1. version'[e] = version[e]
          BY <4>1, <4>4
        <5>2. ASSUME NEW m \in 1..n, e \in log[m]
              PROVE  version[e] >= m
          BY <1>1, <2>1, <4>2, <4>4, <5>2
        <5>3. QED
          BY <4>2, <5>1, <5>2
      <4>5. QED
        BY <4>3, <4>4
    <3>3. QED
      BY <2>1, <2>3, <3>2 DEF ViewCoversPrefix
  <2>6. applied' <= Len(log') /\ confirmed' <= applied'
    BY <1>1, <2>1, <2>3 DEF IInv
  <2>7. QED
    BY <1>2, <2>4, <2>5, <2>6 DEF IInv
<1>6. CASE Confirmed
  <2>1. UNCHANGED <<log, version, events, applied, expected>> /\ confirmed' = applied
    BY <1>6 DEF Confirmed
  <2>2. QED
    BY <1>1, <1>2, <2>1 DEF IInv, RecordedPrefix, ViewCoversPrefix
<1>7. QED
  BY <1>2, <1>3, <1>4, <1>5, <1>6, RowsStep

-----------------------------------------------------------------------------
(* No event is lost.                                                       *)

\* A handler holds the message it works on, and when it acknowledges an event,
\* the event is applied.
HeldIsHandled ==
  \A c \in Consumers, i \in DOMAIN queue :
    queue[i].holder = c =>
      /\ task[c].at \in {"READ", "APPLY", "POISON", "REJECT"} =>
           queue[i].kind = task[c].kind /\ queue[i].seq = task[c].seq
      /\ task[c].at = "ACK" /\ queue[i].kind = "EVENT" => queue[i].seq <= applied

\* The inductive invariant with it.
LossInv == IInv /\ HeldIsHandled /\ NoEventLost

\* Every message queued is queued still, with its holder or with none.
Kept ==
  /\ \A m \in DOMAIN queue : \E k \in DOMAIN queue' :
       queue'[k].kind = queue[m].kind /\ queue'[k].seq = queue[m].seq
  /\ \A k \in DOMAIN queue' : queue'[k].holder # Nobody =>
       \E m \in DOMAIN queue :
         /\ queue'[k].kind = queue[m].kind /\ queue'[k].seq = queue[m].seq
         /\ queue'[k].holder = queue[m].holder

\* A step that keeps the messages, and a handler's hold of its event, loses
\* no event.
LEMMA KeptIsNoLoss ==
  ASSUME LossInv, IInv', Kept, NEW c \in Consumers, Len(log') = Len(log), applied <= applied',
         dead \subseteq dead', \A d \in Consumers \ {c} : task'[d] = task[d],
         \/ task'[c].at \notin {"READ", "APPLY", "POISON", "REJECT", "ACK"}
         \/ task'[c] = task[c]
         \/ /\ task[c].at \in {"READ", "APPLY", "POISON", "REJECT"}
            /\ task'[c].at # "ACK"
            /\ task'[c].kind = task[c].kind /\ task'[c].seq = task[c].seq
         \/ /\ task[c].at \in {"READ", "APPLY", "POISON", "REJECT"}
            /\ task'[c].at = "ACK"
            /\ task[c].kind = "EVENT" => task[c].seq <= applied'
  PROVE  HeldIsHandled' /\ NoEventLost'
<1>1. /\ applied \in Nat /\ applied' \in Nat /\ Len(log) \in Nat
      /\ \A i \in DOMAIN queue : queue[i].seq \in Nat
      /\ Nobody \notin Consumers
  <2>1. queue \in Seq(Messages) /\ log \in Seq(View!Changes) /\ MaxSequence \in Nat
    BY StreamAssumption DEF LossInv, IInv, Types, TypeOK
  <2>2. \A i \in DOMAIN queue : queue[i] \in Messages
    BY <2>1
  <2>3. applied \in Nat /\ applied' \in Nat
    BY <2>1 DEF LossInv, IInv, Types, TypeOK
  <2>4. QED
    BY <2>1, <2>2, <2>3, StreamAssumption DEF Messages
<1>2. NoEventLost'
  <2>1. ASSUME NEW n \in (applied' + 1)..Len(log')
        PROVE  n \in dead' \/ \E i \in DOMAIN queue' : queue'[i].kind = "EVENT" /\ queue'[i].seq = n
    <3>1. n \in (applied + 1)..Len(log)
      BY <1>1
    <3>2. n \in dead \/ \E i \in DOMAIN queue : queue[i].kind = "EVENT" /\ queue[i].seq = n
      BY <3>1 DEF LossInv, NoEventLost
    <3>3. QED
      BY <3>2 DEF Kept
  <2>2. QED
    BY <2>1 DEF NoEventLost
<1>3. HeldIsHandled'
  <2>1. ASSUME NEW d \in Consumers, NEW k \in DOMAIN queue', queue'[k].holder = d
        PROVE  /\ task'[d].at \in {"READ", "APPLY", "POISON", "REJECT"} =>
                    queue'[k].kind = task'[d].kind /\ queue'[k].seq = task'[d].seq
               /\ task'[d].at = "ACK" /\ queue'[k].kind = "EVENT" => queue'[k].seq <= applied'
    <3>1. PICK m \in DOMAIN queue :
            /\ queue'[k].kind = queue[m].kind /\ queue'[k].seq = queue[m].seq
            /\ queue[m].holder = d
      BY <1>1, <2>1 DEF Kept
    <3>2. /\ task[d].at \in {"READ", "APPLY", "POISON", "REJECT"} =>
               queue[m].kind = task[d].kind /\ queue[m].seq = task[d].seq
          /\ task[d].at = "ACK" /\ queue[m].kind = "EVENT" => queue[m].seq <= applied
      BY <3>1 DEF LossInv, HeldIsHandled
    <3>3. queue[m].seq <= applied => queue[m].seq <= applied'
      BY <1>1
    <3>4. CASE task'[d] = task[d]
      BY <3>1, <3>2, <3>3, <3>4
    <3>5. CASE d = c /\ task'[c] # task[c]
      BY <3>1, <3>2, <3>5
    <3>6. QED
      BY <3>4, <3>5
  <2>2. QED
    BY <2>1 DEF HeldIsHandled
<1>4. QED
  BY <1>2, <1>3

\* Messages that are returned are kept, and messages that are left alone.
LEMMA ReturnedIsKept ==
  ASSUME Types, NEW c \in Consumers, NEW b \in BOOLEAN, queue' = queue \/ queue' = Returned(c, b)
  PROVE  Kept
<1>1. queue \in Seq(Messages) /\ Nobody \notin Consumers
  BY StreamAssumption DEF Types, TypeOK
<1>2. CASE queue' = queue
  BY <1>1, <1>2 DEF Kept
<1>3. CASE queue' = Returned(c, b)
  <2>. DEFINE m(i) == IF queue[i].holder = c
                      THEN [queue[i] EXCEPT !.holder = Nobody, !.acquired = Counted(@),
                                            !.lost = IF b THEN Counted(@) ELSE @]
                      ELSE queue[i]
  <2>1. ASSUME NEW i \in DOMAIN queue
        PROVE  /\ m(i).kind = queue[i].kind /\ m(i).seq = queue[i].seq
               /\ m(i).holder # Nobody => m(i).holder = queue[i].holder
    <3>1. queue[i] \in Messages
      BY <1>1
    <3>2. QED
      BY <3>1 DEF Messages
  <2>2. queue' = [i \in DOMAIN queue |-> m(i)]
    BY <1>3, Zenon DEF Returned
  <2>. HIDE DEF m
  <2>3. QED
    BY <2>1, <2>2 DEF Kept
<1>4. QED
  BY <1>2, <1>3

\* The source loses nothing: a new event is queued with its commit.
LEMMA SourceLosesNothing ==
  ASSUME LossInv, IInv', Source
  PROVE  HeldIsHandled' /\ NoEventLost'
<1>1. /\ log \in Seq(View!Changes) /\ Len(log) \in Nat /\ queue \in Seq(Messages)
      /\ Len(queue) \in Nat /\ applied \in Nat /\ Nobody \notin Consumers
  BY StreamAssumption DEF LossInv, IInv, Types, TypeOK
<1>2. ASSUME NEW msg, Publish(msg), msg.holder = Nobody,
             \/ log' = log
             \/ \E chg : log' = Append(log, chg) /\ msg.kind = "EVENT" /\ msg.seq = Len(log) + 1
      PROVE  HeldIsHandled' /\ NoEventLost'
  <2>1. /\ DOMAIN queue' = 1..(Len(queue) + 1) /\ DOMAIN queue = 1..Len(queue)
        /\ \A i \in 1..Len(queue) : queue'[i] = queue[i]
        /\ queue'[Len(queue) + 1] = msg
    <3>1. queue' = Append(queue, msg)
      BY <1>2 DEF Publish
    <3>2. QED
      BY <1>1, <3>1
  <2>2. UNCHANGED <<applied, dead, task>>
    BY <1>2 DEF Publish, rows
  <2>3. HeldIsHandled'
    <3>1. ASSUME NEW d \in Consumers, NEW k \in DOMAIN queue', queue'[k].holder = d
          PROVE  k \in DOMAIN queue /\ queue'[k] = queue[k]
      BY <1>1, <1>2, <2>1, <3>1
    <3>2. QED
      BY <2>2, <3>1 DEF LossInv, HeldIsHandled
  <2>4. NoEventLost'
    <3>1. ASSUME NEW n \in (applied + 1)..Len(log')
          PROVE  n \in dead \/ \E i \in DOMAIN queue' : queue'[i].kind = "EVENT" /\ queue'[i].seq = n
      <4>1. CASE n \in (applied + 1)..Len(log)
        <5>1. n \in dead \/ \E i \in DOMAIN queue : queue[i].kind = "EVENT" /\ queue[i].seq = n
          BY <4>1 DEF LossInv, NoEventLost
        <5>2. QED
          BY <1>1, <2>1, <5>1
      <4>2. CASE n \notin (applied + 1)..Len(log)
        <5>1. n = Len(log) + 1 /\ msg.kind = "EVENT" /\ msg.seq = Len(log) + 1
          BY <1>1, <1>2, <4>2
        <5>2. Len(queue) + 1 \in DOMAIN queue'
          BY <1>1, <2>1
        <5>3. QED
          BY <2>1, <5>1, <5>2
      <4>3. QED
        BY <4>1, <4>2
    <3>2. QED
      BY <2>2, <3>1 DEF NoEventLost
  <2>5. QED
    BY <2>3, <2>4
<1>3. ASSUME NEW chg, NEW payload, Commit(chg, payload)
      PROVE  HeldIsHandled' /\ NoEventLost'
  <2>1. /\ log' = Append(log, chg) /\ Publish(Fresh("EVENT", Len(log) + 1, payload))
        /\ Fresh("EVENT", Len(log) + 1, payload).kind = "EVENT"
        /\ Fresh("EVENT", Len(log) + 1, payload).seq = Len(log) + 1
        /\ Fresh("EVENT", Len(log) + 1, payload).holder = Nobody
    BY <1>3 DEF Commit, Fresh
  <2>2. QED
    BY <1>2, <2>1
<1>4. ASSUME NEW n, NEW payload, PublishAgain(n, payload)
      PROVE  HeldIsHandled' /\ NoEventLost'
  <2>1. /\ log' = log /\ Publish(Fresh("EVENT", n, payload))
        /\ Fresh("EVENT", n, payload).holder = Nobody
    BY <1>4 DEF PublishAgain, Fresh
  <2>2. QED
    BY <1>2, <2>1
<1>5. ASSUME NEW payload, Heartbeat(payload)
      PROVE  HeldIsHandled' /\ NoEventLost'
  <2>1. /\ log' = log /\ Publish(Fresh("HEARTBEAT", Len(log), payload))
        /\ Fresh("HEARTBEAT", Len(log), payload).holder = Nobody
    BY <1>5 DEF Heartbeat, Fresh
  <2>2. QED
    BY <1>2, <2>1
<1>6. ASSUME NEW e, NEW n, StoreSnapshot(e, n)
      PROVE  HeldIsHandled' /\ NoEventLost'
  BY <1>6 DEF StoreSnapshot, broker, LossInv, HeldIsHandled, NoEventLost
<1>7. QED
  BY <1>3, <1>4, <1>5, <1>6 DEF Source

\* The broker loses nothing.
LEMMA BrokerLosesNothing ==
  ASSUME LossInv, IInv', NEW c \in Consumers, Broker(c)
  PROVE  HeldIsHandled' /\ NoEventLost'
<1>1. /\ Types /\ queue \in Seq(Messages) /\ task \in [Consumers -> Tasks] /\ applied \in Nat
  BY SMTT(30) DEF LossInv, IInv, Types, TypeOK
<1>2. UNCHANGED <<log, applied, dead>>
  BY DEF Broker, Disconnect, Crash, Restart, Deliver, rows
<1>3. CASE Disconnect(c) \/ Crash(c) \/ Restart(c)
  <2>1. /\ queue' = Returned(c, TRUE)
        /\ task' = task \/ \E point \in {"STOPPED", "IDLE"} :
                             task' = [task EXCEPT ![c] = [Waiting EXCEPT !.at = point]]
    BY <1>3, WaitingRests DEF Disconnect, Crash, Restart
  <2>2. Kept
    BY <1>1, <2>1, ReturnedIsKept
  <2>3. /\ \A d \in Consumers \ {c} : task'[d] = task[d]
        /\ task'[c] = task[c] \/ task'[c].at \in {"STOPPED", "IDLE"}
    BY <1>1, <2>1 DEF Waiting
  <2>4. QED
    BY <1>1, <1>2, <2>2, <2>3, KeptIsNoLoss
<1>4. ASSUME NEW i \in DOMAIN queue, Deliver(c, i)
      PROVE  HeldIsHandled' /\ NoEventLost'
  <2>. DEFINE u == [queue[i] EXCEPT !.holder = c]
  <2>1. queue[i] \in Messages
    BY <1>1
  <2>2. u.kind = queue[i].kind /\ u.seq = queue[i].seq /\ u.holder = c
    BY <2>1 DEF Messages
  <2>3. queue' = [queue EXCEPT ![i] = u] /\ ~Holds(c)
    BY <1>4 DEF Deliver
  <2>4. /\ task'[c].at # "ACK" /\ task'[c].kind = queue[i].kind /\ task'[c].seq = queue[i].seq
        /\ \A d \in Consumers \ {c} : task'[d] = task[d]
    BY <1>1, <1>4 DEF Deliver
  <2>. HIDE DEF u
  <2>5. /\ DOMAIN queue' = DOMAIN queue /\ queue'[i] = u
        /\ \A k \in DOMAIN queue \ {i} : queue'[k] = queue[k]
    BY <2>3
  <2>6. NoEventLost'
    BY <1>2, <2>2, <2>5 DEF LossInv, NoEventLost
  <2>7. HeldIsHandled'
    <3>1. ASSUME NEW d \in Consumers, NEW k \in DOMAIN queue', queue'[k].holder = d
          PROVE  /\ task'[d].at \in {"READ", "APPLY", "POISON", "REJECT"} =>
                      queue'[k].kind = task'[d].kind /\ queue'[k].seq = task'[d].seq
                 /\ task'[d].at = "ACK" /\ queue'[k].kind = "EVENT" => queue'[k].seq <= applied'
      <4>1. CASE k = i
        BY <2>2, <2>4, <2>5, <3>1, <4>1
      <4>2. CASE k # i
        <5>1. d # c
          BY <2>3, <2>5, <3>1, <4>2 DEF Holds, Held
        <5>2. QED
          BY <1>2, <2>4, <2>5, <3>1, <4>2, <5>1 DEF LossInv, HeldIsHandled
      <4>3. QED
        BY <4>1, <4>2
    <3>2. QED
      BY <3>1 DEF HeldIsHandled
  <2>8. QED
    BY <2>6, <2>7
<1>5. QED
  BY <1>3, <1>4 DEF Broker

\* What a step of a handler makes of the tasks.
LEMMA StepMoves ==
  ASSUME Types, NEW c \in Consumers, NEW point \in Points, Step(c, point)
  PROVE  /\ \A d \in Consumers \ {c} : task'[d] = task[d]
         /\ task'[c].at = point
         /\ point \notin Done => task'[c].kind = task[c].kind /\ task'[c].seq = task[c].seq
<1>1. task \in [Consumers -> Tasks] /\ task[c] \in Tasks
  BY DEF Types, TypeOK
<1>2. /\ Moved(task[c], point).at = point
      /\ point \notin Done => /\ Moved(task[c], point).kind = task[c].kind
                              /\ Moved(task[c], point).seq = task[c].seq
  BY <1>1 DEF Moved, Waiting, Tasks
<1>3. QED
  BY <1>1, <1>2 DEF Step

\* A handler removes its message only when the event is applied or dead.
LEMMA RemovalLosesNothing ==
  ASSUME LossInv, IInv', NEW c \in Consumers, Holds(c), queue' = Without(c),
         task' = [task EXCEPT ![c] = [Waiting EXCEPT !.at = "IDLE"]] \/
           task' = [task EXCEPT ![c] = [Waiting EXCEPT !.at = "STOPPED"]],
         UNCHANGED <<log, applied>>, dead \subseteq dead',
         \A i \in Held(c) : queue[i].kind = "EVENT" =>
           queue[i].seq <= applied \/ queue[i].seq \in dead'
  PROVE  HeldIsHandled' /\ NoEventLost'
<1>1. queue \in Seq(Messages) /\ task \in [Consumers -> Tasks] /\ applied \in Nat /\ Len(log) \in Nat
  BY DEF LossInv, IInv, Types, TypeOK
<1>2. PICK i \in Held(c) : queue' = RemoveAt(queue, i)
  BY DEF Without, Holds
<1>3. i \in DOMAIN queue /\ queue[i] \in Messages
  BY <1>1 DEF Held
<1>4. /\ \A k \in DOMAIN queue' : \E m \in DOMAIN queue : queue'[k] = queue[m]
      /\ \A m \in DOMAIN queue \ {i} : \E k \in DOMAIN queue' : queue'[k] = queue[m]
  <2>1. i \in DOMAIN queue
    BY <1>3
  <2>. DEFINE r == RemoveAt(queue, i)
  <2>2. \A k \in DOMAIN r : \E m \in DOMAIN queue : r[k] = queue[m]
    BY <1>1, <2>1, RemoveAtElements
  <2>3. \A m \in DOMAIN queue \ {i} : \E k \in DOMAIN r : r[k] = queue[m]
    BY <1>1, <2>1, RemoveAtElements
  <2>. HIDE DEF r
  <2>4. queue' = r
    BY <1>2 DEF r
  <2>5. QED
    BY <2>2, <2>3, <2>4
<1>5. /\ \A d \in Consumers \ {c} : task'[d] = task[d]
      /\ task'[c].at \in {"IDLE", "STOPPED"}
  BY <1>1 DEF Waiting
<1>6. HeldIsHandled'
  BY <1>4, <1>5 DEF LossInv, HeldIsHandled
<1>7. NoEventLost'
  <2>1. ASSUME NEW n \in (applied + 1)..Len(log), n \notin dead'
        PROVE  \E k \in DOMAIN queue' : queue'[k].kind = "EVENT" /\ queue'[k].seq = n
    <3>1. PICK m \in DOMAIN queue : queue[m].kind = "EVENT" /\ queue[m].seq = n
      BY <2>1 DEF LossInv, NoEventLost
    <3>2. m # i
      <4>1. ~(n <= applied)
        BY <1>1
      <4>2. QED
        BY <1>2, <2>1, <3>1, <4>1
    <3>3. QED
      BY <1>4, <3>1, <3>2
  <2>2. QED
    BY <2>1 DEF NoEventLost
<1>8. QED
  BY <1>6, <1>7

\* A handler loses nothing.
LEMMA HandlerLosesNothing ==
  ASSUME LossInv, IInv', NEW c \in Consumers, Handler(c)
  PROVE  HeldIsHandled' /\ NoEventLost'
<1>1. /\ Types /\ RecordedPrefix /\ queue \in Seq(Messages) /\ task \in [Consumers -> Tasks]
      /\ task[c] \in Tasks /\ applied \in Nat
  BY SMTT(30) DEF LossInv, IInv, Types, TypeOK
<1>2. ASSUME NEW point \in Points, Step(c, point), queue' = queue,
             log' = log, applied <= applied', dead' = dead,
             \/ point \in {"RETRY", "BLOCKED", "STOPPED"}
             \/ /\ point \in {"APPLY", "POISON", "REJECT"}
                /\ task[c].at \in {"READ", "APPLY", "POISON", "REJECT"}
             \/ /\ point = "ACK"
                /\ task[c].at \in {"READ", "APPLY", "POISON", "REJECT"}
                /\ task[c].kind = "EVENT" => task[c].seq <= applied'
      PROVE  HeldIsHandled' /\ NoEventLost'
  <2>1. /\ \A d \in Consumers \ {c} : task'[d] = task[d]
        /\ task'[c].at = point
        /\ point \notin Done => task'[c].kind = task[c].kind /\ task'[c].seq = task[c].seq
    BY <1>1, <1>2, StepMoves
  <2>2. Kept
    BY <1>1, <1>2, ReturnedIsKept
  <2>3. QED
    BY <1>1, <1>2, <2>1, <2>2, KeptIsNoLoss DEF Done
<1>3. CASE ReadEvent(c)
  <2>1. /\ task[c].at = "READ" /\ UNCHANGED <<log, applied, queue, dead>>
        /\ Step(c, CASE events[task[c].seq] = "NONE" -> "APPLY"
                     [] events[task[c].seq] = task[c].payload -> "ACK"
                     [] OTHER -> "POISON")
    BY <1>3 DEF ReadEvent, rows, broker
  <2>2. CASE Step(c, "APPLY") \/ Step(c, "POISON")
    BY <1>1, <1>2, <2>1, <2>2 DEF Points
  <2>3. CASE Step(c, "ACK") /\ events[task[c].seq] = task[c].payload
    <3>1. ASSUME task[c].kind = "EVENT"
          PROVE  task[c].seq <= applied
      <4>1. task[c].seq \in 1..MaxSequence
        BY <2>1, <3>1, StreamAssumption, SMTT(30) DEF LossInv, IInv, Types, TypeOK, Committed
      <4>2. task[c].payload # "NONE"
        BY <1>1 DEF Tasks, Payloads
      <4>3. QED
        BY <1>1, <2>3, <4>1, <4>2 DEF RecordedPrefix
    <3>2. QED
      BY <1>1, <1>2, <2>1, <2>3, <3>1 DEF Points
  <2>4. QED
    BY <2>1, <2>2, <2>3
<1>4. CASE BlockEvent(c) \/ BlockHeartbeat(c) \/ HandlerFails(c) \/ PoisonRetry(c) \/ PauseFails(c)
  <2>1. PICK point \in {"RETRY", "BLOCKED", "STOPPED"} : Step(c, point)
    BY <1>4 DEF BlockEvent, AfterBlocked, BlockHeartbeat, HandlerFails, PoisonRetry, PauseFails
  <2>2. UNCHANGED <<log, applied, queue, dead>>
    BY <1>4 DEF BlockEvent, BlockHeartbeat, HandlerFails, PoisonRetry, PauseFails, rows, broker
  <2>3. QED
    BY <1>1, <1>2, <2>1, <2>2 DEF Points
<1>5. ASSUME NEW answered \in BOOLEAN, ApplyEvent(c, answered)
      PROVE  HeldIsHandled' /\ NoEventLost'
  <2>1. /\ task[c].at = "APPLY" /\ UNCHANGED <<log, queue, dead>>
        /\ task[c].seq = expected /\ applied' = task[c].seq
    BY <1>5 DEF ApplyEvent, Applies, Record, broker
  <2>2. Step(c, "ACK") \/ Step(c, "RETRY")
    BY <1>5 DEF ApplyEvent
  <2>3. applied <= applied' /\ task[c].seq <= applied'
    BY <1>1, <2>1 DEF RecordedPrefix
  <2>4. QED
    BY <1>2, <2>1, <2>2, <2>3 DEF Points
<1>6. CASE ApplyHeartbeat(c)
  <2>1. /\ task[c].at = "APPLY" /\ task[c].kind = "HEARTBEAT" /\ Step(c, "ACK")
        /\ UNCHANGED <<log, applied, queue, dead>>
    BY <1>6 DEF ApplyHeartbeat, broker
  <2>2. QED
    BY <1>1, <1>2, <2>1 DEF Points
<1>7. CASE Pause(c)
  <2>1. /\ task[c].at = "POISON" /\ Step(c, "REJECT")
        /\ UNCHANGED <<log, applied, queue, dead>>
    BY <1>7 DEF Pause, broker
  <2>2. QED
    BY <1>1, <1>2, <2>1 DEF Points
<1>8. CASE Nack(c) \/ \E point \in {"STOPPED", "IDLE"} : AnswerLost(c, point)
  <2>1. /\ queue' = queue \/ queue' = Returned(c, FALSE)
        /\ UNCHANGED <<log, applied, dead>>
        /\ \E point \in {"STOPPED", "IDLE"} : task' = [task EXCEPT ![c] = [Waiting EXCEPT !.at = point]]
    BY <1>8, WaitingRests DEF Nack, AnswerLost, rows
  <2>2. Kept
    BY <1>1, <2>1, ReturnedIsKept
  <2>3. /\ \A d \in Consumers \ {c} : task'[d] = task[d]
        /\ task'[c].at \in {"STOPPED", "IDLE"}
    BY <1>1, <2>1 DEF Waiting
  <2>4. QED
    BY <1>1, <2>1, <2>2, <2>3, KeptIsNoLoss
<1>9. CASE Ack(c)
  <2>1. /\ task[c].at = "ACK" /\ Holds(c) /\ queue' = Without(c)
        /\ task' = [task EXCEPT ![c] = [Waiting EXCEPT !.at = "IDLE"]]
        /\ UNCHANGED <<log, applied, dead>>
    BY <1>9, WaitingRests DEF Ack, rows
  <2>2. \A i \in Held(c) : queue[i].kind = "EVENT" => queue[i].seq <= applied
    BY <2>1 DEF Held, LossInv, HeldIsHandled
  <2>3. QED
    BY <2>1, <2>2, RemovalLosesNothing
<1>10. CASE Reject(c)
  <2>1. /\ task[c].at = "REJECT" /\ Holds(c) /\ queue' = Without(c)
        /\ dead' = IF task[c].kind = "EVENT" THEN dead \cup {task[c].seq} ELSE dead
        /\ task' = [task EXCEPT ![c] = [Waiting EXCEPT !.at = "STOPPED"]]
        /\ UNCHANGED <<log, applied>>
    BY <1>10 DEF Reject, rows
  <2>2. \A i \in Held(c) : queue[i].kind = "EVENT" => queue[i].seq \in dead'
    BY <2>1 DEF Held, LossInv, HeldIsHandled
  <2>3. dead \subseteq dead'
    BY <2>1
  <2>4. QED
    BY <2>1, <2>2, <2>3, RemovalLosesNothing
<1>11. QED
  BY <1>3, <1>4, <1>5, <1>6, <1>7, <1>8, <1>9, <1>10 DEF Handler

\* No step loses an event.
LEMMA StepLosesNothing ==
  ASSUME LossInv, [Next]_vars
  PROVE  LossInv'
<1>1. IInv'
  BY RowsInvariant DEF LossInv
<1>2. CASE UNCHANGED vars
  BY <1>1, <1>2 DEF vars, rows, broker, LossInv, HeldIsHandled, NoEventLost
<1>3. CASE Operator
  <2>1. UNCHANGED <<log, queue, dead, task>>
    BY <1>3 DEF Operator, RepairRead, RepairApply, broker
  <2>2. applied <= applied' /\ applied \in Nat /\ applied' \in Nat
    <3>1. applied' = applied \/ (applied' = expected /\ expected = applied + 1)
      BY <1>3 DEF Operator, RepairRead, RepairApply, Record, rows, LossInv, IInv, RecordedPrefix
    <3>2. applied \in Nat /\ applied' \in Nat
      BY <1>1, StreamAssumption DEF LossInv, IInv, Types, TypeOK
    <3>3. QED
      BY <3>1, <3>2
  <2>3. queue \in Seq(Messages)
    BY DEF LossInv, IInv, Types, TypeOK
  <2>4. Kept
    BY <2>1, <2>3 DEF Kept
  <2>5. HeldIsHandled'
    <3>1. \A i \in DOMAIN queue : queue[i].seq \in Nat
      <4>1. \A i \in DOMAIN queue : queue[i] \in Messages
        BY <2>3
      <4>2. QED
        BY <4>1, StreamAssumption DEF Messages
    <3>2. QED
      BY <2>1, <2>2, <3>1 DEF LossInv, HeldIsHandled
  <2>6. NoEventLost'
    <3>1. Len(log) \in Nat
      BY DEF LossInv, IInv, Types, TypeOK
    <3>2. (applied' + 1)..Len(log) \subseteq (applied + 1)..Len(log)
      BY <2>2, <3>1
    <3>3. QED
      BY <2>1, <3>2 DEF LossInv, NoEventLost
  <2>7. QED
    BY <1>1, <2>5, <2>6 DEF LossInv
<1>4. QED
  BY <1>1, <1>2, <1>3, SourceLosesNothing, BrokerLosesNothing, HandlerLosesNothing
     DEF Next, LossInv

-----------------------------------------------------------------------------
(* Theorems.                                                               *)

\* Nothing is recorded, shown or lost before the first event.
LEMMA InitInvariant == Init => LossInv
<1>. SUFFICES ASSUME Init PROVE LossInv
  OBVIOUS
<1>1. Types
  BY InitTypes
<1>2. RecordedPrefix /\ applied <= Len(log) /\ confirmed <= applied
  BY StreamAssumption DEF Init, RecordedPrefix
<1>3. ViewCoversPrefix
  BY DEF Init, ViewCoversPrefix
<1>4. HeldIsHandled
  BY DEF Init, HeldIsHandled
<1>5. NoEventLost
  BY DEF Init, NoEventLost
<1>6. QED
  BY <1>1, <1>2, <1>3, <1>4, <1>5 DEF LossInv, IInv

\* The inductive invariant holds in every reachable state.
THEOREM StreamInvariant == Spec => []LossInv
<1>1. Init => LossInv
  BY InitInvariant
<1>2. LossInv /\ [Next]_vars => LossInv'
  BY StepLosesNothing
<1>3. QED
  BY <1>1, <1>2, PTL DEF Spec

\* Types are preserved: in particular no watermark, count or sequence leaves
\* its bounds.
THEOREM StreamTypes == Spec => []TypeOK
<1>1. LossInv => TypeOK
  BY DEF LossInv, IInv, Types
<1>2. QED
  BY <1>1, StreamInvariant, PTL

\* apply_projection_event and repair_projection_event record a gap-free prefix
\* of the source, each event once.
THEOREM RecordsPrefix == Spec => []RecordedPrefix
<1>1. LossInv => RecordedPrefix
  BY DEF LossInv, IInv
<1>2. QED
  BY <1>1, StreamInvariant, PTL

\* Rows show at least the applied prefix, whatever snapshots raced with it.
THEOREM CoversPrefix == Spec => []ViewCoversPrefix
<1>1. LossInv => ViewCoversPrefix
  BY DEF LossInv, IInv
<1>2. QED
  BY <1>1, StreamInvariant, PTL

\* An event leaves the queue only when it is applied or dead-lettered.
THEOREM LosesNoEvent == Spec => []NoEventLost
<1>1. LossInv => NoEventLost
  BY DEF LossInv
<1>2. QED
  BY <1>1, StreamInvariant, PTL

\* A paused stream stands still until a repair resumes it.
THEOREM StandsStillWhilePaused == Spec => PausedStandsStill
<1>1. LossInv /\ [Next]_vars =>
        [stream = "PAUSED_POISON" /\ <<stream, applied, confirmed>>' # <<stream, applied, confirmed>> =>
           stream' = "ACTIVE" /\ applied' = applied + 1 /\ confirmed' = confirmed]_vars
  <2>. SUFFICES ASSUME LossInv, [Next]_vars, stream = "PAUSED_POISON",
                       <<stream, applied, confirmed>>' # <<stream, applied, confirmed>>
                PROVE  stream' = "ACTIVE" /\ applied' = applied + 1 /\ confirmed' = confirmed
    OBVIOUS
  <2>1. Types /\ RecordedPrefix
    BY DEF LossInv, IInv
  <2>2. Recorded
    BY <2>1, RowsStep DEF Quiet, Stored, Confirmed
  <2>3. QED
    BY <2>1, <2>2 DEF Recorded, Record, RecordedPrefix
<1>2. QED
  BY <1>1, StreamInvariant, PTL DEF Spec, PausedStandsStill

\* The confirmed source watermark never falls and never passes the applied one.
THEOREM KeepsHeartbeatsInStep == Spec => HeartbeatsInStep
<1>1. LossInv /\ [Next]_vars => [confirmed <= confirmed' /\ confirmed' <= applied']_vars
  <2>. SUFFICES ASSUME LossInv, [Next]_vars
                PROVE  confirmed <= confirmed' /\ confirmed' <= applied'
    OBVIOUS
  <2>1. Types /\ confirmed <= applied /\ confirmed' <= applied' /\ confirmed \in Int
    BY StepLosesNothing, StreamAssumption, SMTT(30) DEF LossInv, IInv, Types, TypeOK
  <2>2. confirmed' = confirmed \/ confirmed' = applied
    BY <2>1, RowsStep DEF Quiet, Stored, Recorded, Record, Confirmed
  <2>3. QED
    BY <2>1, <2>2
<1>2. QED
  BY <1>1, StreamInvariant, PTL DEF Spec, HeartbeatsInStep

\* The stream implements ProjectionView: the source commits, the projection
\* absorbs the next event or a snapshot, and no handler does anything else.
THEOREM StreamImplementsView == Spec => ImplementsView
<1>1. Init => View!Init
  BY DEF Init, View!Init, Entities
<1>2. LossInv /\ [Next]_vars => [View!Next]_(View!view)
  <2>. SUFFICES ASSUME LossInv, [Next]_vars
                PROVE  View!Next \/ UNCHANGED View!view
    BY DEF View!view
  <2>1. Types /\ RecordedPrefix /\ applied \in Nat /\ Len(log) \in Nat
    BY DEF LossInv, IInv, Types, TypeOK
  <2>2. CASE Quiet
    BY <2>2 DEF Quiet, View!Next, View!Commit, View!view
  <2>3. CASE Stored
    <3>1. PICK e \in Entities, n \in DOMAIN log :
            /\ e \in log[n] /\ n > version[e]
            /\ e \in Steps => version[JobOf[e]] > 0
            /\ version' = [version EXCEPT ![e] = n]
      BY <2>3 DEF Stored, StoreSnapshot
    <3>2. UNCHANGED <<log, applied>>
      BY <2>3 DEF Stored
    <3>3. View!Refresh(e)
      BY <3>1, <3>2 DEF View!Refresh
    <3>4. QED
      BY <3>3 DEF View!Next, Entities
  <2>4. CASE Recorded
    <3>1. /\ applied < Len(log) /\ log' = log /\ applied' = applied + 1
          /\ version' = Absorb(applied + 1)
      BY <2>1, <2>4 DEF Recorded, Record, RecordedPrefix
    <3>2. Absorb(applied + 1) = View!Absorbed(applied + 1)
      <4>1. ASSUME NEW e \in Entities
            PROVE  version[e] < applied + 1 <=> applied + 1 > version[e]
        BY <2>1, StreamAssumption DEF Types, TypeOK
      <4>2. QED
        BY <4>1 DEF Absorb, View!Absorbed, Entities
    <3>3. QED
      BY <3>1, <3>2 DEF View!Next, View!ApplyNext
  <2>5. CASE Confirmed
    BY <2>5 DEF Confirmed, View!view
  <2>6. QED
    BY <2>1, <2>2, <2>3, <2>4, <2>5, RowsStep
<1>3. QED
  BY <1>1, <1>2, StreamInvariant, PTL DEF Spec, ImplementsView, View!Spec
=============================================================================
