------------------------------- MODULE Broker -------------------------------
(***************************************************************************)
(* One topic of the RabbitMQ exchange: every subscriber has a durable      *)
(* queue bound to it and a dead letter queue, and every API process one    *)
(* consumer per queue, which stores each event in the subscriber's inbox,  *)
(* and, when that fails, publishes the event again with a higher retry     *)
(* count for all the subscribers and acknowledges its own copy.            *)
(*                                                                         *)
(* A queue is a bag: consumers of several processes and requeued messages  *)
(* leave no order to rely on.                                              *)
(***************************************************************************)
EXTENDS Integers, FiniteSets

CONSTANTS
  Events,        \* events of the topic
  Subscribers,   \* "mail-service", "order-service"
  Processes,     \* running API processes
  MaxRetry,
  MaxPublishes,  \* bound: how often the outbox publishes an event
  MaxFaults,     \* bound: shutdowns, lost connections and crashes
  None

ASSUME BrokerAssumption ==
  /\ MaxRetry \in Nat /\ MaxPublishes \in Nat \ {0} /\ MaxFaults \in Nat
  /\ IsFiniteSet(Subscribers) /\ IsFiniteSet(Processes)
  /\ None \notin [event : Events, try : Nat]

Messages == [event : Events, try : 0..MaxRetry]
Phases   == {"idle", "handle", "delay", "ack", "nack", "stopped"}

VARIABLES
  published,    \* how often the outbox has published an event
  queue,        \* messages ready in each subscriber's queue
  dlq,          \* events in each subscriber's dead letter queue
  consumer,     \* what each process does with the message it took from each queue
  up,           \* processes that have not been told to stop
  inbox,        \* events stored in each subscriber's inbox
  misread,      \* history: events whose copy got lost behind another's confirmation
  republished,  \* history: how often a subscriber's consumers routed a message again
  faults        \* history: how many shutdowns, lost connections and crashes there were

vars == <<published, queue, dlq, consumer, up, inbox, misread, republished, faults>>

Idle    == [phase |-> "idle", msg |-> None]
Stopped == [phase |-> "stopped", msg |-> None]

TypeOK ==
  /\ published \in [Events -> 0..MaxPublishes]
  /\ queue \in [Subscribers -> [Messages -> Nat]]
  /\ dlq \in [Subscribers -> SUBSET Events]
  /\ consumer \in [Processes -> [Subscribers ->
                     [phase : Phases, msg : Messages \cup {None}]]]
  /\ up \subseteq Processes
  /\ inbox \in [Subscribers -> SUBSET Events]
  /\ republished \in [Subscribers -> [Messages -> Nat]]
  /\ misread \subseteq Events /\ faults \in 0..MaxFaults

Init ==
  /\ published = [e \in Events |-> 0]
  /\ queue = [s \in Subscribers |-> [m \in Messages |-> 0]]
  /\ dlq = [s \in Subscribers |-> {}]
  /\ consumer = [i \in Processes |-> [s \in Subscribers |-> Idle]]
  /\ up = Processes
  /\ inbox = [s \in Subscribers |-> {}]
  /\ republished = [s \in Subscribers |-> [m \in Messages |-> 0]]
  /\ misread = {} /\ faults = 0

\* The exchange copies a message to every queue bound to the topic.
Route(m) == queue' = [s \in Subscribers |-> [queue[s] EXCEPT ![m] = @ + 1]]

\* The outbox publishes an event, perhaps again.
Publish(e) ==
  /\ published[e] < MaxPublishes
  /\ published' = [published EXCEPT ![e] = @ + 1]
  /\ Route([event |-> e, try |-> 0])
  /\ UNCHANGED <<dlq, consumer, up, inbox, misread, republished, faults>>

-----------------------------------------------------------------------------
(* A consumer *)

At(i, s, phase) == consumer[i][s].phase = phase

Become(i, s, phase) == consumer' = [consumer EXCEPT ![i][s].phase = phase]

\* mutant: reads on when there is nothing in the queue.
DeliverEmpty(i, s, m) ==
  /\ At(i, s, "idle")
  /\ queue' = [queue EXCEPT ![s][m] = @ - 1]
  /\ consumer' = [consumer EXCEPT ![i][s] = [phase |-> "handle", msg |-> m]]
  /\ UNCHANGED <<published, dlq, up, inbox, misread, republished, faults>>

\* QoS 1: the next message comes when the one before is settled.
Deliver(i, s, m) ==
  /\ At(i, s, "idle") /\ queue[s][m] > 0
  /\ queue' = [queue EXCEPT ![s][m] = @ - 1]
  /\ consumer' = [consumer EXCEPT ![i][s] = [phase |-> "handle", msg |-> m]]
  /\ UNCHANGED <<published, dlq, up, inbox, misread, republished, faults>>

\* The handler stores the event, or finds that it is there: both are a success.
Store(i, s) ==
  /\ At(i, s, "handle")
  /\ inbox' = [inbox EXCEPT ![s] = @ \cup {consumer[i][s].msg.event}]
  /\ Become(i, s, "ack")
  /\ UNCHANGED <<published, queue, dlq, up, misread, republished, faults>>

NextTry(m) == [m EXCEPT !.try = @ + 1]

CountRepublish(s, m) == republished' = [republished EXCEPT ![s][m] = @ + 1]

\* mutant: a message that used up its retries is acknowledged.
StoreFailsDropped(i, s, stored) ==
  LET m == consumer[i][s].msg IN
  /\ At(i, s, "handle")
  /\ inbox' = IF stored THEN [inbox EXCEPT ![s] = @ \cup {m.event}] ELSE inbox
  /\ Become(i, s, IF m.try >= MaxRetry THEN "ack" ELSE "delay")
  /\ UNCHANGED <<published, queue, dlq, up, misread, republished, faults>>

\* The database does not answer, or not in time: the row may be there. A message
\* that used up its retries is refused, another one waits for its retry.
StoreFails(i, s, stored) ==
  LET m == consumer[i][s].msg IN
  /\ At(i, s, "handle")
  /\ inbox' = IF stored THEN [inbox EXCEPT ![s] = @ \cup {m.event}] ELSE inbox
  /\ Become(i, s, IF m.try >= MaxRetry THEN "nack" ELSE "delay")
  /\ UNCHANGED <<published, queue, dlq, up, misread, republished, faults>>

\* mutant: what the broker answered is not looked at.
RepublishUnconfirmed(i, s, routed, ack) ==
  LET m == consumer[i][s].msg IN
  /\ At(i, s, "delay") /\ i \in up
  /\ IF routed THEN Route(NextTry(m)) /\ CountRepublish(s, m)
               ELSE UNCHANGED <<queue, republished>>
  /\ UNCHANGED misread
  /\ Become(i, s, "ack")
  /\ UNCHANGED <<published, dlq, up, inbox, faults>>

\* The delay is over: the event is published again, for all the subscribers. An
\* error, a negative confirmation and a timeout all refuse the message, whether it
\* was routed or not; an acknowledgement is its own, or (Outbox!AnswersMatch) a
\* late one of another message.
Republish(i, s, routed, ack) ==
  LET m == consumer[i][s].msg IN
  /\ At(i, s, "delay") /\ i \in up
  /\ IF routed THEN Route(NextTry(m)) /\ CountRepublish(s, m)
               ELSE UNCHANGED <<queue, republished>>
  /\ misread' = IF ack /\ ~routed THEN misread \cup {m.event} ELSE misread
  /\ Become(i, s, IF ack THEN "ack" ELSE "nack")
  /\ UNCHANGED <<published, dlq, up, inbox, faults>>

Ack(i, s) ==
  /\ At(i, s, "ack")
  /\ consumer' = [consumer EXCEPT ![i][s] = Idle]
  /\ UNCHANGED <<published, queue, dlq, up, inbox, misread, republished, faults>>

\* mutant: Nack(false, true).
NackRequeue(i, s) ==
  /\ At(i, s, "nack")
  /\ queue' = [queue EXCEPT ![s][consumer[i][s].msg] = @ + 1]
  /\ consumer' = [consumer EXCEPT ![i][s] = Idle]
  /\ UNCHANGED <<published, dlq, up, inbox, misread, republished, faults>>

\* Nack(false, false): the message goes to the dead letter queue.
Nack(i, s) ==
  /\ At(i, s, "nack")
  /\ dlq' = [dlq EXCEPT ![s] = @ \cup {consumer[i][s].msg.event}]
  /\ consumer' = [consumer EXCEPT ![i][s] = Idle]
  /\ UNCHANGED <<published, queue, up, inbox, misread, republished, faults>>

\* The process is stopping: what waits for its retry is refused, and the consumer
\* is gone.
StopDelay(i, s) ==
  /\ At(i, s, "delay") /\ i \notin up
  /\ dlq' = [dlq EXCEPT ![s] = @ \cup {consumer[i][s].msg.event}]
  /\ consumer' = [consumer EXCEPT ![i][s] = Stopped]
  /\ UNCHANGED <<published, queue, up, inbox, misread, republished, faults>>

-----------------------------------------------------------------------------
(* Processes and connections *)

Fault == faults < MaxFaults /\ faults' = faults + 1

\* What process i has not settled is ready again.
Requeue(i) ==
  queue' = [s \in Subscribers |->
             IF consumer[i][s].msg = None THEN queue[s]
             ELSE [queue[s] EXCEPT ![consumer[i][s].msg] = @ + 1]]

\* SIGTERM: the context every consumer was given is done.
ShutDown(i) ==
  /\ i \in up /\ Fault
  /\ up' = up \ {i}
  /\ UNCHANGED <<published, queue, dlq, consumer, inbox, misread, republished>>

\* The connection closes and nothing opens it again: the consumers' loops end. A
\* handler that was running may still store its event.
ConnectionLost(i) ==
  /\ Fault
  /\ Requeue(i)
  /\ consumer' = [consumer EXCEPT ![i] = [s \in Subscribers |-> Stopped]]
  /\ \E S \in SUBSET {s \in Subscribers : At(i, s, "handle")} :
       inbox' = [s \in Subscribers |->
                  IF s \in S THEN inbox[s] \cup {consumer[i][s].msg.event} ELSE inbox[s]]
  /\ UNCHANGED <<published, dlq, up, misread, republished>>

\* The process ends and is started again.
Restart(i) ==
  /\ Requeue(i)
  /\ consumer' = [consumer EXCEPT ![i] = [s \in Subscribers |-> Idle]]
  /\ up' = up \cup {i}
  /\ UNCHANGED <<published, dlq, inbox, misread, republished>>

Crash(i) == Fault /\ Restart(i)

\* A process that stops, or consumes nothing any more, is replaced.
Replace(i) ==
  /\ i \notin up \/ \E s \in Subscribers : At(i, s, "stopped")
  /\ Restart(i)
  /\ UNCHANGED faults

-----------------------------------------------------------------------------
\* What a consumer does with the message it took.
Settle(i, s) ==
  \/ Store(i, s)
  \/ \E stored \in BOOLEAN : StoreFails(i, s, stored)
  \/ \E routed, ack \in BOOLEAN : Republish(i, s, routed, ack)
  \/ StopDelay(i, s) \/ Ack(i, s) \/ Nack(i, s)

Consume(i, s) == (\E m \in Messages : Deliver(i, s, m)) \/ Settle(i, s)

Next ==
  \/ \E e \in Events : Publish(e)
  \/ \E i \in Processes :
       \/ \E s \in Subscribers : Consume(i, s)
       \/ ShutDown(i) \/ ConnectionLost(i) \/ Crash(i) \/ Replace(i)

Spec == Init /\ [][Next]_vars

Fairness ==
  /\ \A i \in Processes, s \in Subscribers : WF_vars(Consume(i, s))
  /\ \A i \in Processes : WF_vars(Replace(i))

FairSpec == Spec /\ Fairness

-----------------------------------------------------------------------------
(* Safety *)

\* An event that was published is never lost to a subscriber: it is in its inbox,
\* in its queue, in a consumer's hands or in its dead letter queue, whatever is
\* retried, refused, requeued or crashes, unless the confirmation of a copy was
\* another message's.
Accounted ==
  \A e \in Events, s \in Subscribers : published[e] > 0 =>
    \/ e \in inbox[s] \cup dlq[s] \cup misread
    \/ \E m \in Messages : /\ m.event = e
                           /\ queue[s][m] > 0 \/ \E i \in Processes : consumer[i][s].msg = m

(* The inductive invariant *)

\* A consumer that waits for a retry has one left, and only one that has a message
\* settles it.
ConsumersOK ==
  \A i \in Processes, s \in Subscribers : LET c == consumer[i][s] IN
    /\ c.msg = None <=> c.phase \in {"idle", "stopped"}
    /\ c.phase = "delay" => c.msg.try < MaxRetry

\* A copy that is about to be acknowledged is not needed any more.
AckedNotNeeded ==
  \A e \in Events, s \in Subscribers : published[e] > 0 =>
    \/ e \in inbox[s] \cup dlq[s] \cup misread
    \/ \E m \in Messages :
         /\ m.event = e
         /\ \/ queue[s][m] > 0
            \/ \E i \in Processes : consumer[i][s].msg = m /\ ~At(i, s, "ack")

\* Consumers of s that have message m, and those that may still publish it again.
Taking(s, m) == {i \in Processes : consumer[i][s].msg = m}
Trying(s, m) == {i \in Taking(s, m) : consumer[i][s].phase \in {"handle", "delay"}}

Copies(s, m) == queue[s][m] + Cardinality(Taking(s, m))

\* How often a message was routed to the queues: by the outbox, or, for each time a
\* subscriber's handler failed, as the next try of the one before.
Republications(m) == UNION {{s} \X (1..republished[s][m]) : s \in Subscribers}

Routed(m) ==
  IF m.try = 0 THEN published[m.event]
               ELSE Cardinality(Republications([m EXCEPT !.try = @ - 1]))

\* Each routing puts one copy into each queue, and a copy is published again once.
CopiesOK ==
  faults = 0 =>
    /\ up = Processes /\ \A i \in Processes, s \in Subscribers : ~At(i, s, "stopped")
    /\ \A s \in Subscribers, m \in Messages :
         /\ Copies(s, m) <= Routed(m)
         /\ queue[s][m] + Cardinality(Trying(s, m)) + republished[s][m] <= Routed(m)

IInv == TypeOK /\ ConsumersOK /\ AckedNotNeeded /\ CopiesOK

\* The ways an event can get to this try: whose handler failed each time.
Failures(try) == [1..try -> Subscribers]

\* A handler that fails has its event published again for all the subscribers, so
\* the copies of an event may multiply with each retry by the number of
\* subscribers whose handlers fail, but, while nothing is redelivered, not faster:
\* a subscriber never has more copies of a try than there are ways to get there.
CopiesBounded ==
  faults = 0 =>
    \A s \in Subscribers, m \in Messages :
      Copies(s, m) <= published[m.event] * Cardinality(Failures(m.try))

(* Liveness *)

\* Retries end: every published event settles with every subscriber ...
EventSettles ==
  \A e \in Events, s \in Subscribers :
    published[e] > 0 ~> e \in inbox[s] \cup dlq[s] \cup misread

\* ... and no copy of it stays in flight.
QueuesDrain ==
  <>[](\A s \in Subscribers : /\ \A m \in Messages : queue[s][m] = 0
                              /\ \A i \in Processes : consumer[i][s] = Idle)
=============================================================================
