---------------------------- MODULE BrokerProofs ----------------------------
(* Safety of Broker for any number of events, subscribers, processes,       *)
(* publications and faults.                                                 *)
EXTENDS Broker, FiniteSetTheorems, TLAPS

Consumers == [phase : Phases, msg : Messages \cup {None}]
Queues    == [Subscribers -> [Messages -> Nat]]
Stores    == [Subscribers -> SUBSET Events]

\* What is needed for an event never to be lost.
Lossless == TypeOK /\ ConsumersOK /\ AckedNotNeeded

\* What ConsumersOK says of a consumer.
Sound(c) ==
  /\ c.msg = None <=> c.phase \in {"idle", "stopped"}
  /\ c.phase = "delay" => c.msg.try < MaxRetry

\* What AckedNotNeeded says of a subscriber and an event.
InFlight(s, m) ==
  queue[s][m] > 0 \/ \E i \in Processes : consumer[i][s].msg = m /\ consumer[i][s].phase # "ack"

Kept(e, s) ==
  \/ e \in inbox[s] \cup dlq[s] \cup misread
  \/ \E m \in Messages : m.event = e /\ InFlight(s, m)

LEMMA AckedIs ==
  /\ AckedNotNeeded <=>
       \A e \in Events, s \in Subscribers : published[e] > 0 => Kept(e, s)
  /\ AckedNotNeeded' <=>
       \A e \in Events, s \in Subscribers : published'[e] > 0 => Kept(e, s)'
BY DEF AckedNotNeeded, Kept, InFlight, At

LEMMA IdleTypes ==
  /\ Idle \in Consumers /\ Sound(Idle) /\ Idle.msg = None
  /\ Stopped \in Consumers /\ Sound(Stopped) /\ Stopped.msg = None
BY DEF Idle, Stopped, Consumers, Phases, Sound

LEMMA Types ==
  ASSUME Lossless
  PROVE  /\ published \in [Events -> 0..MaxPublishes] /\ queue \in Queues
         /\ dlq \in Stores /\ inbox \in Stores
         /\ republished \in Queues
         /\ consumer \in [Processes -> [Subscribers -> Consumers]]
         /\ \A i \in Processes, s \in Subscribers : consumer[i][s] \in Consumers
         /\ \A i \in Processes, s \in Subscribers : Sound(consumer[i][s])
BY DEF Lossless, TypeOK, ConsumersOK, Sound, Queues, Stores, Consumers

LEMMA MessageTypes ==
  /\ None \notin Messages
  /\ \A m \in Messages : m.event \in Events /\ m.try \in 0..MaxRetry
  /\ \A e \in Events : [event |-> e, try |-> 0] \in Messages
  /\ \A m \in Messages : m.try < MaxRetry =>
       NextTry(m) \in Messages /\ NextTry(m).event = m.event
BY BrokerAssumption DEF Messages, NextTry

\* A copy in every queue, and nothing taken from any.
LEMMA RouteStep ==
  ASSUME Lossless, NEW m \in Messages, Route(m)
  PROVE  /\ queue' \in Queues
         /\ \A s \in Subscribers : queue'[s][m] > 0
         /\ \A s \in Subscribers, n \in Messages : queue[s][n] > 0 => queue'[s][n] > 0
<1>1. queue \in [Subscribers -> [Messages -> Nat]]
  BY Types DEF Queues
<1>2. queue' = [s \in Subscribers |-> [queue[s] EXCEPT ![m] = queue[s][m] + 1]]
  BY DEF Route
<1>3. \A s \in Subscribers : /\ queue'[s] \in [Messages -> Nat]
                             /\ queue'[s][m] = queue[s][m] + 1
                             /\ \A n \in Messages \ {m} : queue'[s][n] = queue[s][n]
  BY <1>1, <1>2
<1>4. QED
  BY <1>1, <1>2, <1>3 DEF Queues

LEMMA CountType ==
  ASSUME Lossless, NEW s \in Subscribers, NEW m \in Messages, CountRepublish(s, m)
  PROVE  /\ republished' \in Queues
         /\ republished'[s][m] = republished[s][m] + 1
         /\ \A x \in Subscribers, n \in Messages :
              x # s \/ n # m => republished'[x][n] = republished[x][n]
<1>1. republished \in [Subscribers -> [Messages -> Nat]]
  BY Types DEF Queues
<1>2. republished' = [republished EXCEPT ![s][m] = republished[s][m] + 1]
  BY DEF CountRepublish
<1>3. QED
  BY <1>1, <1>2 DEF Queues

\* Nothing that is stored or dead is forgotten, and no other process is disturbed.
Grows ==
  /\ queue' \in Queues /\ dlq' \in Stores /\ inbox' \in Stores /\ misread' \subseteq Events
  /\ republished' \in Queues /\ published' = published /\ up' = up /\ faults' = faults
  /\ misread \subseteq misread'
  /\ \A x \in Subscribers : inbox[x] \subseteq inbox'[x] /\ dlq[x] \subseteq dlq'[x]

\* The queues keep their messages, but for one that a consumer c of s takes.
QueuesKeep(s, c) ==
  \A x \in Subscribers, n \in Messages : queue[x][n] > 0 =>
    \/ queue'[x][n] > 0
    \/ x = s /\ n = c.msg /\ c.phase # "ack"

\* What becomes of the message that the consumer of s had as c0 and has as c.
MessageKept(s, c0, c) ==
  c0.msg # None /\ c0.phase # "ack" =>
    \/ c.msg = c0.msg /\ c.phase # "ack"
    \/ c0.msg.event \in inbox'[s] \cup dlq'[s] \cup misread'
    \/ \E n \in Messages : n.event = c0.msg.event /\ queue'[s][n] > 0

\* What one consumer does with its message leaves the event with the subscriber.
LEMMA ConsumerStep ==
  ASSUME Lossless, NEW i \in Processes, NEW s \in Subscribers, NEW c \in Consumers, Sound(c),
         consumer' = [consumer EXCEPT ![i][s] = c],
         Grows, QueuesKeep(s, c), MessageKept(s, consumer[i][s], c)
  PROVE  Lossless'
<1>1. /\ consumer' \in [Processes -> [Subscribers -> Consumers]] /\ consumer'[i][s] = c
      /\ \A j \in Processes, x \in Subscribers :
           j # i \/ x # s => consumer'[j][x] = consumer[j][x]
  BY Types
<1>2. TypeOK'
  BY <1>1 DEF Lossless, TypeOK, Queues, Stores, Consumers, Grows
<1>3. ConsumersOK'
  BY <1>1, Types DEF ConsumersOK, Sound
<1>4. ASSUME NEW e \in Events, NEW x \in Subscribers, Kept(e, x)
      PROVE  Kept(e, x)'
  <2>1. CASE e \in inbox[x] \cup dlq[x] \cup misread
    BY <2>1 DEF Kept, Grows
  <2>2. ASSUME NEW m \in Messages, m.event = e, queue[x][m] > 0
        PROVE  Kept(e, x)'
    BY <1>1, <2>2 DEF Kept, InFlight, QueuesKeep
  <2>3. ASSUME NEW m \in Messages, m.event = e, NEW j \in Processes,
               consumer[j][x].msg = m, consumer[j][x].phase # "ack"
        PROVE  Kept(e, x)'
    <3>1. CASE j = i /\ x = s
      BY <1>1, <2>3, <3>1, MessageTypes DEF Kept, InFlight, MessageKept
    <3>2. CASE j # i \/ x # s
      BY <1>1, <2>3, <3>2 DEF Kept, InFlight
    <3>3. QED
      BY <3>1, <3>2
  <2>4. QED
    BY <1>4, <2>1, <2>2, <2>3 DEF Kept, InFlight
<1>5. AckedNotNeeded'
  BY <1>4, AckedIs DEF Lossless, Grows
<1>6. QED
  BY <1>2, <1>3, <1>5 DEF Lossless

\* A consumer that keeps its message and goes on to another phase.
LEMMA Becoming ==
  ASSUME Lossless, NEW i \in Processes, NEW s \in Subscribers,
         NEW f \in {"delay", "ack", "nack"}, Become(i, s, f),
         consumer[i][s].phase \in {"handle", "delay"}
  PROVE  \E c \in Consumers :
           /\ consumer' = [consumer EXCEPT ![i][s] = c]
           /\ c.phase = f /\ c.msg = consumer[i][s].msg /\ c.msg \in Messages
<1> DEFINE c == [consumer[i][s] EXCEPT !.phase = f]
<1>1. consumer[i][s] \in Consumers /\ Sound(consumer[i][s])
  BY Types
<1>2. consumer' = [consumer EXCEPT ![i][s] = c]
  BY Types DEF Become
<1>3. /\ c \in Consumers /\ c.phase = f /\ c.msg = consumer[i][s].msg /\ c.msg \in Messages
  BY <1>1 DEF Consumers, Sound, Phases
<1>4. QED
  BY <1>2, <1>3

-----------------------------------------------------------------------------
(* The actions of a consumer *)

LEMMA DeliverStep ==
  ASSUME Lossless, NEW i \in Processes, NEW s \in Subscribers, NEW m \in Messages, Deliver(i, s, m)
  PROVE  Lossless'
<1> DEFINE c == [phase |-> "handle", msg |-> m]
<1>1. c \in Consumers /\ Sound(c) /\ c.msg = m /\ c.phase = "handle"
  BY MessageTypes DEF Consumers, Phases, Sound
<1>2. /\ consumer' = [consumer EXCEPT ![i][s] = c]
      /\ consumer[i][s].msg = None
      /\ UNCHANGED <<published, dlq, up, inbox, misread, republished, faults>>
  BY Types DEF Deliver, At, Sound
<1> HIDE DEF c
<1>3. /\ queue' \in Queues
      /\ \A x \in Subscribers, n \in Messages : x # s \/ n # m => queue'[x][n] = queue[x][n]
  <2>1. queue \in [Subscribers -> [Messages -> Nat]] /\ queue[s][m] - 1 \in Nat
    BY Types DEF Queues, Deliver
  <2>2. queue' = [queue EXCEPT ![s][m] = queue[s][m] - 1]
    BY DEF Deliver
  <2>3. QED
    BY <2>1, <2>2 DEF Queues
<1>4. dlq' \in Stores /\ inbox' \in Stores /\ misread' \subseteq Events /\ republished' \in Queues
  BY <1>2, Types DEF Lossless, TypeOK
<1>5. QueuesKeep(s, c)
  BY <1>1, <1>3 DEF QueuesKeep
<1>6. Grows /\ MessageKept(s, consumer[i][s], c)
  BY <1>2, <1>3, <1>4 DEF Grows, MessageKept
<1>7. QED
  BY <1>1, <1>2, <1>5, <1>6, ConsumerStep

LEMMA StoreStep ==
  ASSUME Lossless, NEW i \in Processes, NEW s \in Subscribers, Store(i, s)
  PROVE  Lossless'
<1> DEFINE e == consumer[i][s].msg.event
<1>1. Become(i, s, "ack") /\ consumer[i][s].phase = "handle"
  BY DEF Store, At
<1>2. PICK c \in Consumers :
        /\ consumer' = [consumer EXCEPT ![i][s] = c]
        /\ c.phase = "ack" /\ c.msg = consumer[i][s].msg /\ c.msg \in Messages
  BY <1>1, Becoming
<1>3. Sound(c)
  BY <1>2, MessageTypes DEF Sound
<1>4. /\ inbox' = [inbox EXCEPT ![s] = inbox[s] \cup {e}] /\ e \in Events
      /\ UNCHANGED <<published, queue, dlq, up, misread, republished, faults>>
  BY <1>2, MessageTypes DEF Store
<1>5. /\ inbox' \in Stores /\ e \in inbox'[s]
      /\ \A x \in Subscribers : inbox[x] \subseteq inbox'[x]
  BY <1>4, Types DEF Stores
<1>6. queue' \in Queues /\ dlq' \in Stores /\ misread' \subseteq Events /\ republished' \in Queues
  BY <1>4, Types DEF Lossless, TypeOK
<1>7. Grows /\ QueuesKeep(s, c) /\ MessageKept(s, consumer[i][s], c)
  BY <1>4, <1>5, <1>6 DEF Grows, QueuesKeep, MessageKept
<1>8. QED
  BY <1>2, <1>3, <1>7, ConsumerStep

LEMMA StoreFailsStep ==
  ASSUME Lossless, NEW i \in Processes, NEW s \in Subscribers, NEW stored \in BOOLEAN,
         StoreFails(i, s, stored)
  PROVE  Lossless'
<1> DEFINE m == consumer[i][s].msg
           f == IF m.try >= MaxRetry THEN "nack" ELSE "delay"
<1>1. /\ consumer[i][s].phase = "handle" /\ Become(i, s, f)
      /\ inbox' = IF stored THEN [inbox EXCEPT ![s] = inbox[s] \cup {m.event}] ELSE inbox
      /\ UNCHANGED <<published, queue, dlq, up, misread, republished, faults>>
  BY DEF StoreFails, At
<1>2. f \in {"delay", "ack", "nack"} /\ f # "ack" /\ (f = "delay" => ~(m.try >= MaxRetry))
  OBVIOUS
<1> HIDE DEF f
<1>3. PICK c \in Consumers :
        /\ consumer' = [consumer EXCEPT ![i][s] = c]
        /\ c.phase = f /\ c.msg = m /\ m \in Messages
  BY <1>1, <1>2, Becoming
<1>4. m # None /\ m.try \in 0..MaxRetry /\ m.event \in Events
  BY <1>3, MessageTypes
<1>5. Sound(c)
  BY <1>2, <1>3, <1>4, BrokerAssumption DEF Sound
<1>6. inbox' \in Stores /\ \A x \in Subscribers : inbox[x] \subseteq inbox'[x]
  BY <1>1, <1>4, Types DEF Stores
<1>7. queue' \in Queues /\ dlq' \in Stores /\ misread' \subseteq Events /\ republished' \in Queues
  BY <1>1, Types DEF Lossless, TypeOK
<1>8. Grows /\ QueuesKeep(s, c) /\ MessageKept(s, consumer[i][s], c)
  BY <1>1, <1>2, <1>3, <1>6, <1>7 DEF Grows, QueuesKeep, MessageKept
<1>9. QED
  BY <1>3, <1>5, <1>8, ConsumerStep

\* The event is in every queue again, or its copy stays with the consumer.
LEMMA RepublishStep ==
  ASSUME Lossless, NEW i \in Processes, NEW s \in Subscribers,
         NEW routed \in BOOLEAN, NEW ack \in BOOLEAN, Republish(i, s, routed, ack)
  PROVE  Lossless'
<1> DEFINE m == consumer[i][s].msg
           f == IF ack THEN "ack" ELSE "nack"
<1>1. /\ consumer[i][s].phase = "delay" /\ Become(i, s, f)
      /\ IF routed THEN Route(NextTry(m)) /\ CountRepublish(s, m)
                   ELSE UNCHANGED <<queue, republished>>
      /\ misread' = IF ack /\ ~routed THEN misread \cup {m.event} ELSE misread
      /\ UNCHANGED <<published, dlq, up, inbox, faults>>
  BY DEF Republish, At
<1>2. f \in {"delay", "ack", "nack"} /\ f # "delay" /\ (f = "ack" => ack)
  OBVIOUS
<1> HIDE DEF f
<1>3. PICK c \in Consumers :
        /\ consumer' = [consumer EXCEPT ![i][s] = c]
        /\ c.phase = f /\ c.msg = m /\ m \in Messages
  BY <1>1, <1>2, Becoming
<1>4. m # None /\ m.try < MaxRetry
  BY <1>1, <1>3, Types, MessageTypes DEF Sound
<1>5. m.event \in Events /\ NextTry(m) \in Messages /\ NextTry(m).event = m.event
  BY <1>3, <1>4, MessageTypes
<1>6. Sound(c)
  BY <1>2, <1>3, <1>4 DEF Sound
<1>7. /\ queue' \in Queues
      /\ \A x \in Subscribers, n \in Messages : queue[x][n] > 0 => queue'[x][n] > 0
      /\ routed => queue'[s][NextTry(m)] > 0
      /\ republished' \in Queues
  <2>1. CASE routed
    BY <1>1, <1>3, <1>5, <2>1, RouteStep, CountType
  <2>2. CASE ~routed
    BY <1>1, <2>2, Types
  <2>3. QED
    BY <2>1, <2>2
<1>8. dlq' \in Stores /\ inbox' \in Stores /\ misread' \subseteq Events
      /\ misread \subseteq misread'
  BY <1>1, <1>5, Types DEF Lossless, TypeOK
<1>9. MessageKept(s, consumer[i][s], c)
  <2>1. CASE f = "nack"
    BY <1>3, <2>1 DEF MessageKept
  <2>2. CASE f = "ack" /\ routed
    BY <1>5, <1>7, <2>2 DEF MessageKept
  <2>3. CASE f = "ack" /\ ~routed
    BY <1>1, <1>2, <2>3 DEF MessageKept
  <2>4. QED
    BY <1>2, <2>1, <2>2, <2>3
<1>10. Grows /\ QueuesKeep(s, c)
  BY <1>1, <1>7, <1>8 DEF Grows, QueuesKeep
<1>11. QED
  BY <1>3, <1>6, <1>9, <1>10, ConsumerStep

\* A message that is refused is a dead letter.
LEMMA RefuseStep ==
  ASSUME Lossless, NEW i \in Processes, NEW s \in Subscribers, Nack(i, s) \/ StopDelay(i, s)
  PROVE  Lossless'
<1> DEFINE e == consumer[i][s].msg.event
<1>1. PICK c \in {Idle, Stopped} :
        /\ consumer' = [consumer EXCEPT ![i][s] = c]
        /\ dlq' = [dlq EXCEPT ![s] = dlq[s] \cup {e}]
        /\ consumer[i][s].phase \in {"nack", "delay"}
        /\ UNCHANGED <<published, queue, up, inbox, misread, republished, faults>>
  BY DEF Nack, StopDelay, At
<1>2. e \in Events
  <2>1. consumer[i][s] \in Consumers /\ Sound(consumer[i][s])
    BY Types
  <2>2. consumer[i][s].msg \in Messages
    BY <1>1, <2>1 DEF Consumers, Sound
  <2>3. QED
    BY <2>2, MessageTypes
<1>3. /\ dlq' \in Stores /\ e \in dlq'[s]
      /\ \A x \in Subscribers : dlq[x] \subseteq dlq'[x]
  BY <1>1, <1>2, Types DEF Stores
<1>4. queue' \in Queues /\ inbox' \in Stores /\ misread' \subseteq Events /\ republished' \in Queues
  BY <1>1, Types DEF Lossless, TypeOK
<1>5. Grows /\ QueuesKeep(s, c) /\ MessageKept(s, consumer[i][s], c)
  BY <1>1, <1>3, <1>4 DEF Grows, QueuesKeep, MessageKept
<1>6. QED
  BY <1>1, <1>5, IdleTypes, ConsumerStep

LEMMA AckStep ==
  ASSUME Lossless, NEW i \in Processes, NEW s \in Subscribers, Ack(i, s)
  PROVE  Lossless'
<1>1. /\ consumer[i][s].phase = "ack" /\ consumer' = [consumer EXCEPT ![i][s] = Idle]
      /\ UNCHANGED <<published, queue, dlq, up, inbox, misread, republished, faults>>
  BY DEF Ack, At
<1>2. queue' \in Queues /\ dlq' \in Stores /\ inbox' \in Stores /\ misread' \subseteq Events /\ republished' \in Queues
  BY <1>1, Types DEF Lossless, TypeOK
<1>3. Grows /\ QueuesKeep(s, Idle) /\ MessageKept(s, consumer[i][s], Idle)
  <2>1. Grows
    BY <1>1, <1>2 DEF Grows
  <2>2. QueuesKeep(s, Idle)
    BY <1>1 DEF QueuesKeep
  <2>3. MessageKept(s, consumer[i][s], Idle)
    BY <1>1 DEF MessageKept
  <2>4. QED
    BY <2>1, <2>2, <2>3
<1>4. QED
  BY <1>1, <1>3, IdleTypes, ConsumerStep

-----------------------------------------------------------------------------
(* Publishing, and faults *)

LEMMA PublishStep ==
  ASSUME Lossless, NEW e \in Events, Publish(e)
  PROVE  Lossless'
<1> DEFINE m == [event |-> e, try |-> 0]
<1>1. m \in Messages /\ m.event = e
  BY MessageTypes
<1>2. /\ published[e] < MaxPublishes /\ published' = [published EXCEPT ![e] = published[e] + 1]
      /\ Route(m) /\ UNCHANGED <<dlq, consumer, up, inbox, misread, republished, faults>>
  BY DEF Publish
<1> HIDE DEF m
<1>3. /\ queue' \in Queues /\ \A s \in Subscribers : queue'[s][m] > 0
      /\ \A s \in Subscribers, n \in Messages : queue[s][n] > 0 => queue'[s][n] > 0
  BY <1>1, <1>2, RouteStep
<1>4. /\ published' \in [Events -> 0..MaxPublishes]
      /\ \A x \in Events \ {e} : published'[x] = published[x]
  BY <1>2, Types, BrokerAssumption
<1>5. TypeOK'
  BY <1>2, <1>3, <1>4 DEF Lossless, TypeOK, Queues
<1>6. ConsumersOK'
  BY <1>2 DEF Lossless, ConsumersOK
<1>7. \A s \in Subscribers : Kept(e, s)'
  BY <1>1, <1>3 DEF Kept, InFlight
<1>8. \A x \in Events, s \in Subscribers : Kept(x, s) => Kept(x, s)'
  BY <1>2, <1>3 DEF Kept, InFlight
<1>9. AckedNotNeeded'
  BY <1>4, <1>7, <1>8, AckedIs DEF Lossless
<1>10. QED
  BY <1>5, <1>6, <1>9 DEF Lossless

\* A process whose consumers are gone leaves their messages in the queues.
LEMMA RequeueStep ==
  ASSUME Lossless, NEW i \in Processes, NEW c \in {Idle, Stopped}, Requeue(i),
         consumer' = [consumer EXCEPT ![i] = [s \in Subscribers |-> c]],
         inbox' \in Stores, \A s \in Subscribers : inbox[s] \subseteq inbox'[s],
         up' \subseteq Processes, faults' \in 0..MaxFaults,
         UNCHANGED <<published, dlq, misread, republished>>
  PROVE  Lossless'
<1>1. queue \in [Subscribers -> [Messages -> Nat]]
  BY Types DEF Queues
<1>2. /\ queue' \in Queues
      /\ \A s \in Subscribers, n \in Messages : queue[s][n] > 0 => queue'[s][n] > 0
      /\ \A s \in Subscribers : consumer[i][s].msg \in Messages =>
           queue'[s][consumer[i][s].msg] > 0
  <2>1. queue' = [s \in Subscribers |->
                   IF consumer[i][s].msg = None THEN queue[s]
                   ELSE [queue[s] EXCEPT ![consumer[i][s].msg] = queue[s][consumer[i][s].msg] + 1]]
    BY DEF Requeue
  <2>2. ASSUME NEW s \in Subscribers
        PROVE  /\ queue'[s] \in [Messages -> Nat]
               /\ \A n \in Messages : queue[s][n] > 0 => queue'[s][n] > 0
               /\ consumer[i][s].msg \in Messages => queue'[s][consumer[i][s].msg] > 0
    <3>1. CASE consumer[i][s].msg = None
      BY <1>1, <2>1, <3>1, MessageTypes
    <3>2. CASE consumer[i][s].msg # None
      <4> DEFINE m == consumer[i][s].msg
      <4>1. queue'[s] = [queue[s] EXCEPT ![m] = queue[s][m] + 1] /\ queue[s] \in [Messages -> Nat]
        BY <1>1, <2>1, <3>2
      <4>2. m \in Messages
        BY <3>2, Types DEF Consumers
      <4> HIDE DEF m
      <4>3. QED
        BY <4>1, <4>2 DEF m
    <3>3. QED
      BY <3>1, <3>2
  <2>3. QED
    BY <2>1, <2>2 DEF Queues
<1>3. /\ consumer' \in [Processes -> [Subscribers -> Consumers]]
      /\ \A s \in Subscribers : consumer'[i][s] = c
      /\ \A j \in Processes \ {i} : consumer'[j] = consumer[j]
  BY Types, IdleTypes
<1>4. TypeOK'
  BY <1>2, <1>3 DEF Lossless, TypeOK, Queues, Stores, Consumers
<1>5. ConsumersOK'
  <2>1. \A j \in Processes, s \in Subscribers : Sound(consumer'[j][s])
    BY <1>3, Types, IdleTypes
  <2>2. QED
    BY <2>1 DEF ConsumersOK, Sound
<1>6. ASSUME NEW e \in Events, NEW s \in Subscribers, Kept(e, s)
      PROVE  Kept(e, s)'
  <2>1. CASE e \in inbox[s] \cup dlq[s] \cup misread
    BY <2>1 DEF Kept
  <2>2. ASSUME NEW m \in Messages, m.event = e, InFlight(s, m)
        PROVE  Kept(e, s)'
    BY <1>2, <1>3, <2>2 DEF Kept, InFlight
  <2>3. QED
    BY <1>6, <2>1, <2>2 DEF Kept
<1>7. AckedNotNeeded'
  BY <1>6, AckedIs DEF Lossless
<1>8. QED
  BY <1>4, <1>5, <1>7 DEF Lossless

LEMMA ShutDownStep ==
  ASSUME Lossless, NEW i \in Processes, ShutDown(i)
  PROVE  Lossless'
<1>1. /\ up' \subseteq Processes /\ faults' \in 0..MaxFaults
      /\ UNCHANGED <<published, queue, dlq, consumer, inbox, misread, republished>>
  BY BrokerAssumption DEF ShutDown, Fault, Lossless, TypeOK
<1>2. QED
  BY <1>1 DEF Lossless, TypeOK, ConsumersOK, AckedNotNeeded, At

LEMMA ConnectionLostStep ==
  ASSUME Lossless, NEW i \in Processes, ConnectionLost(i)
  PROVE  Lossless'
<1>1. PICK S \in SUBSET {s \in Subscribers : At(i, s, "handle")} :
        inbox' = [s \in Subscribers |->
                   IF s \in S THEN inbox[s] \cup {consumer[i][s].msg.event} ELSE inbox[s]]
  BY DEF ConnectionLost
<1>2. \A s \in S : consumer[i][s].msg.event \in Events
  <2>1. \A s \in S : consumer[i][s].msg \in Messages
    BY <1>1, Types DEF At, Sound, Consumers
  <2>2. QED
    BY <2>1, MessageTypes
<1>3. inbox' \in Stores /\ \A s \in Subscribers : inbox[s] \subseteq inbox'[s]
  BY <1>1, <1>2, Types DEF Stores
<1>4. up' \subseteq Processes /\ faults' \in 0..MaxFaults
  BY BrokerAssumption DEF ConnectionLost, Fault, Lossless, TypeOK
<1>5. QED
  BY <1>3, <1>4, RequeueStep DEF ConnectionLost

LEMMA RestartStep ==
  ASSUME Lossless, NEW i \in Processes, Crash(i) \/ Replace(i)
  PROVE  Lossless'
<1>1. Restart(i) /\ up' \subseteq Processes /\ faults' \in 0..MaxFaults
  BY BrokerAssumption DEF Crash, Replace, Restart, Fault, Lossless, TypeOK
<1>2. inbox' \in Stores /\ \A s \in Subscribers : inbox[s] \subseteq inbox'[s]
  BY <1>1, Types DEF Restart
<1>3. QED
  BY <1>1, <1>2, RequeueStep DEF Restart

-----------------------------------------------------------------------------
(* The initial states, and every step *)

LEMMA InitInv == Init => Lossless
<1> SUFFICES ASSUME Init PROVE Lossless
  OBVIOUS
<1>1. \A i \in Processes, s \in Subscribers : consumer[i][s] = Idle
  BY DEF Init
<1>2. TypeOK
  BY IdleTypes, BrokerAssumption DEF Init, TypeOK, Consumers
<1>3. ConsumersOK
  BY <1>1, IdleTypes DEF ConsumersOK, Sound
<1>4. AckedNotNeeded
  BY DEF Init, AckedNotNeeded
<1>5. QED
  BY <1>2, <1>3, <1>4 DEF Lossless

LEMMA SettleStep ==
  ASSUME Lossless, NEW i \in Processes, NEW s \in Subscribers, Consume(i, s)
  PROVE  Lossless'
BY DeliverStep, StoreStep, StoreFailsStep, RepublishStep, RefuseStep, AckStep DEF Consume, Settle

LEMMA NextInv == Lossless /\ [Next]_vars => Lossless'
<1> SUFFICES ASSUME Lossless, [Next]_vars PROVE Lossless'
  OBVIOUS
<1>1. CASE UNCHANGED vars
  BY <1>1 DEF vars, Lossless, TypeOK, ConsumersOK, AckedNotNeeded, At
<1>2. CASE Next
  BY <1>2, PublishStep, SettleStep, ShutDownStep, ConnectionLostStep, RestartStep DEF Next
<1>3. QED
  BY <1>1, <1>2

-----------------------------------------------------------------------------
(* How many copies of a message there are                                   *)

Trial(c) == c.phase \in {"handle", "delay"}

\* What CopiesOK says of a subscriber and a message.
CopiesAt(s, m) ==
  /\ Copies(s, m) <= Routed(m)
  /\ queue[s][m] + Cardinality(Trying(s, m)) + republished[s][m] <= Routed(m)

Undisturbed == up = Processes /\ \A i \in Processes, s \in Subscribers : ~At(i, s, "stopped")

LEMMA CopiesOKIs ==
  /\ CopiesOK <=>
       (faults = 0 => Undisturbed /\ \A s \in Subscribers, m \in Messages : CopiesAt(s, m))
  /\ CopiesOK' <=>
       (faults' = 0 => Undisturbed' /\ \A s \in Subscribers, m \in Messages : CopiesAt(s, m)')
BY DEF CopiesOK, CopiesAt, Undisturbed

\* The pairs that number what each subscriber did.
Numbered(r) == UNION {{s} \X (1..r[s]) : s \in Subscribers}

Counts == [Subscribers -> Nat]

LEMMA NumberedFinite ==
  ASSUME NEW r \in Counts
  PROVE  IsFiniteSet(Numbered(r)) /\ Cardinality(Numbered(r)) \in Nat
<1> DEFINE f == [s \in Subscribers |-> {s} \X (1..r[s])]
           T == {{s} \X (1..r[s]) : s \in Subscribers}
<1>1. f \in Surjection(Subscribers, T)
  BY DEF Surjection
<1>2. IsFiniteSet(T)
  BY <1>1, FS_Surjection, BrokerAssumption
<1>3. ASSUME NEW s \in Subscribers
      PROVE  IsFiniteSet({s} \X (1..r[s]))
  <2>1. r[s] \in Nat
    BY DEF Counts
  <2>2. IsFiniteSet({s})
    BY FS_Singleton
  <2>3. IsFiniteSet(1..r[s])
    BY <2>1, FS_Interval
  <2>4. QED
    BY <2>2, <2>3, FS_Product
<1>4. \A X \in T : IsFiniteSet(X)
  BY <1>3
<1> HIDE DEF f, T
<1>5. IsFiniteSet(UNION T)
  BY <1>2, <1>4, FS_UNION
<1>6. Numbered(r) = UNION T
  BY DEF T, Numbered
<1>7. QED
  BY <1>5, <1>6, FS_CardinalityType

LEMMA NumberedAdd ==
  ASSUME NEW r \in Counts, NEW s \in Subscribers
  PROVE  Cardinality(Numbered([r EXCEPT ![s] = @ + 1])) = Cardinality(Numbered(r)) + 1
<1> DEFINE p == <<s, r[s] + 1>>
           q == [r EXCEPT ![s] = @ + 1]
<1>1. q \in Counts /\ q[s] = r[s] + 1 /\ r[s] \in Nat /\ \A x \in Subscribers \ {s} : q[x] = r[x]
  BY DEF Counts
<1>2. p \notin Numbered(r)
  BY <1>1 DEF Numbered
<1>3. Numbered(q) = Numbered(r) \cup {p}
  <2>1. \A x \in Subscribers : {x} \X (1..q[x]) = IF x = s THEN ({s} \X (1..r[s])) \cup {p}
                                                  ELSE {x} \X (1..r[x])
    BY <1>1
  <2>2. QED
    BY <2>1 DEF Numbered
<1> HIDE DEF p, q
<1>4. Cardinality(Numbered(q)) = Cardinality(Numbered(r)) + 1
  BY <1>2, <1>3, NumberedFinite, FS_AddElement
<1>5. QED
  BY <1>4 DEF q

\* Nobody did more than b, so together no more than b for each.
LEMMA NumberedBound ==
  ASSUME NEW r \in Counts, NEW b \in Nat, \A s \in Subscribers : r[s] <= b
  PROVE  Cardinality(Numbered(r)) <= Cardinality(Subscribers) * b
<1>1. Numbered(r) \subseteq Subscribers \X (1..b)
  BY DEF Numbered, Counts
<1>2. IsFiniteSet(1..b) /\ Cardinality(1..b) = b
  BY FS_Interval
<1>3. /\ IsFiniteSet(Subscribers \X (1..b))
      /\ Cardinality(Subscribers \X (1..b)) = Cardinality(Subscribers) * b
  BY <1>2, FS_Product, BrokerAssumption
<1>4. QED
  BY <1>1, <1>3, FS_Subset

Before(m) == [m EXCEPT !.try = @ - 1]
Repeats(m) == [s \in Subscribers |-> republished[s][m]]

LEMMA BeforeTypes ==
  ASSUME NEW m \in Messages
  PROVE  /\ m.try # 0 => Before(m) \in Messages /\ Before(m).event = m.event
         /\ m.try # 0 => Before(m).try = m.try - 1 /\ NextTry(Before(m)) = m
         /\ m.try < MaxRetry => NextTry(m) # m /\ NextTry(m).try # 0 /\ Before(NextTry(m)) = m
<1>1. m = [event |-> m.event, try |-> m.try] /\ m.event \in Events /\ m.try \in 0..MaxRetry
  BY DEF Messages
<1>2. Before(m) = [event |-> m.event, try |-> m.try - 1]
  BY <1>1 DEF Before
<1>3. NextTry(m) = [event |-> m.event, try |-> m.try + 1]
  BY <1>1 DEF NextTry
<1>4. m.try # 0 => Before(m) \in Messages /\ NextTry(Before(m)) = m
  BY <1>1, <1>2, BrokerAssumption DEF Messages, NextTry
<1>5. Before(NextTry(m)) = m
  BY <1>1, <1>3 DEF Before
<1>6. QED
  BY <1>1, <1>2, <1>3, <1>4, <1>5

LEMMA RoutedIs ==
  ASSUME NEW m \in Messages
  PROVE  /\ Routed(m) = IF m.try = 0 THEN published[m.event]
                        ELSE Cardinality(Numbered(Repeats(Before(m))))
         /\ Routed(m)' = IF m.try = 0 THEN published'[m.event]
                         ELSE Cardinality(Numbered(Repeats(Before(m))'))
<1>1. Republications(Before(m)) = Numbered(Repeats(Before(m)))
  BY DEF Republications, Numbered, Repeats
<1>2. Republications(Before(m))' = Numbered(Repeats(Before(m))')
  BY DEF Republications, Numbered, Repeats
<1>3. QED
  BY <1>1, <1>2 DEF Routed, Before

LEMMA CountTypes ==
  ASSUME Lossless
  PROVE  /\ \A m \in Messages : Repeats(m) \in Counts /\ Routed(m) \in Nat
         /\ \A s \in Subscribers, m \in Messages :
              /\ queue[s][m] \in Nat /\ republished[s][m] \in Nat
              /\ IsFiniteSet(Taking(s, m)) /\ Cardinality(Taking(s, m)) \in Nat
              /\ IsFiniteSet(Trying(s, m)) /\ Cardinality(Trying(s, m)) \in Nat
<1>1. \A m \in Messages : Repeats(m) \in Counts
  BY Types DEF Queues, Repeats, Counts
<1>2. ASSUME NEW m \in Messages
      PROVE  Routed(m) \in Nat
  <2>1. CASE m.try = 0
    BY <2>1, RoutedIs, Types, MessageTypes
  <2>2. CASE m.try # 0
    BY <1>1, <2>2, RoutedIs, BeforeTypes, NumberedFinite
  <2>3. QED
    BY <2>1, <2>2
<1>3. ASSUME NEW s \in Subscribers, NEW m \in Messages
      PROVE  /\ IsFiniteSet(Taking(s, m)) /\ Cardinality(Taking(s, m)) \in Nat
             /\ IsFiniteSet(Trying(s, m)) /\ Cardinality(Trying(s, m)) \in Nat
  <2>1. Taking(s, m) \in SUBSET Processes /\ Trying(s, m) \in SUBSET Processes
    BY DEF Taking, Trying
  <2>2. QED
    BY <2>1, FS_Subset, FS_CardinalityType, BrokerAssumption
<1>4. QED
  BY <1>1, <1>2, <1>3, Types DEF Queues

\* Who has, and who tries, a message after a consumer has gone on.
LEMMA TakersStep ==
  ASSUME Lossless, NEW i \in Processes, NEW s \in Subscribers, NEW c \in Consumers,
         consumer' = [consumer EXCEPT ![i][s] = c],
         NEW x \in Subscribers, NEW m \in Messages
  PROVE  /\ Taking(x, m)' = IF x # s THEN Taking(x, m)
                            ELSE IF c.msg = m THEN Taking(x, m) \cup {i}
                            ELSE Taking(x, m) \ {i}
         /\ Trying(x, m)' = IF x # s THEN Trying(x, m)
                            ELSE IF c.msg = m /\ Trial(c) THEN Trying(x, m) \cup {i}
                            ELSE Trying(x, m) \ {i}
<1>1. \A j \in Processes, y \in Subscribers :
        consumer'[j][y] = IF j = i /\ y = s THEN c ELSE consumer[j][y]
  BY Types
<1>2. QED
  BY <1>1 DEF Taking, Trying, Trial

\* A consumer that goes on with its message, or is done with it, adds no copy and
\* no try.
LEMMA ConsumerCopies ==
  ASSUME Lossless, CopiesOK, NEW i \in Processes, NEW s \in Subscribers, NEW c \in Consumers,
         consumer' = [consumer EXCEPT ![i][s] = c], c.phase # "stopped",
         c.msg \in {consumer[i][s].msg, None}, Trial(c) => Trial(consumer[i][s]),
         UNCHANGED <<published, queue, up, republished, faults>>
  PROVE  CopiesOK'
<1> SUFFICES ASSUME faults' = 0
             PROVE  Undisturbed' /\ \A x \in Subscribers, m \in Messages : CopiesAt(x, m)'
  BY CopiesOKIs
<1>1. Undisturbed /\ \A x \in Subscribers, m \in Messages : CopiesAt(x, m)
  BY CopiesOKIs
<1>2. Undisturbed'
  <2>1. \A j \in Processes, y \in Subscribers :
          consumer'[j][y] = IF j = i /\ y = s THEN c ELSE consumer[j][y]
    BY Types
  <2>2. QED
    BY <1>1, <2>1 DEF Undisturbed, At
<1>3. ASSUME NEW x \in Subscribers, NEW m \in Messages
      PROVE  CopiesAt(x, m)'
  <2>1. Taking(x, m)' \in SUBSET Taking(x, m) /\ Trying(x, m)' \in SUBSET Trying(x, m)
    <3>1. c.msg = m => consumer[i][s].msg = m
      BY MessageTypes
    <3>2. QED
      BY <3>1, TakersStep DEF Taking, Trying, Trial
  <2>2. /\ Cardinality(Taking(x, m)') <= Cardinality(Taking(x, m))
        /\ Cardinality(Trying(x, m)') <= Cardinality(Trying(x, m))
        /\ Cardinality(Taking(x, m)') \in Nat /\ Cardinality(Trying(x, m)') \in Nat
    BY <2>1, CountTypes, FS_Subset, FS_CardinalityType
  <2>3. Routed(m)' = Routed(m)
    BY DEF Routed, Republications
  <2>4. QED
    BY <1>1, <2>2, <2>3, CountTypes DEF CopiesAt, Copies
<1>4. QED
  BY <1>2, <1>3

LEMMA DeliverCopies ==
  ASSUME Lossless, CopiesOK, NEW i \in Processes, NEW s \in Subscribers, NEW m \in Messages,
         Deliver(i, s, m)
  PROVE  CopiesOK'
<1> SUFFICES ASSUME faults' = 0
             PROVE  Undisturbed' /\ \A x \in Subscribers, n \in Messages : CopiesAt(x, n)'
  BY CopiesOKIs
<1>1. PICK c \in Consumers : /\ consumer' = [consumer EXCEPT ![i][s] = c]
                              /\ c.msg = m /\ Trial(c) /\ c.phase # "stopped"
  <2> DEFINE d == [phase |-> "handle", msg |-> m]
  <2>1. d \in Consumers /\ d.msg = m /\ Trial(d) /\ d.phase # "stopped"
    BY DEF Consumers, Phases, Trial
  <2>2. consumer' = [consumer EXCEPT ![i][s] = d]
    BY DEF Deliver
  <2>3. QED
    BY <2>1, <2>2
<1>2. consumer[i][s].msg = None /\ UNCHANGED <<published, up, republished, faults>>
  BY Types DEF Deliver, At, Sound
<1>3. \A x \in Subscribers, n \in Messages :
        queue'[x][n] = IF x = s /\ n = m THEN queue[x][n] - 1 ELSE queue[x][n]
  BY Types DEF Deliver, Queues
<1>4. Undisturbed /\ \A x \in Subscribers, n \in Messages : CopiesAt(x, n)
  BY <1>2, CopiesOKIs
<1>5. \A j \in Processes, y \in Subscribers :
        consumer'[j][y] = IF j = i /\ y = s THEN c ELSE consumer[j][y]
  BY <1>1, Types
<1>6. Undisturbed'
  BY <1>1, <1>2, <1>4, <1>5 DEF Undisturbed, At
<1>7. ASSUME NEW x \in Subscribers, NEW n \in Messages
      PROVE  CopiesAt(x, n)'
  <2>1. Routed(n)' = Routed(n)
    BY <1>2 DEF Routed, Republications
  <2>2. i \notin Taking(s, n) /\ i \notin Trying(s, n)
    BY <1>2, MessageTypes DEF Taking, Trying
  <2>3. /\ Taking(x, n)' = IF x # s THEN Taking(x, n)
                             ELSE IF c.msg = n THEN Taking(x, n) \cup {i}
                             ELSE Taking(x, n) \ {i}
        /\ Trying(x, n)' = IF x # s THEN Trying(x, n)
                             ELSE IF c.msg = n /\ Trial(c) THEN Trying(x, n) \cup {i}
                             ELSE Trying(x, n) \ {i}
    BY <1>5 DEF Taking, Trying, Trial
  <2>4. CASE x = s /\ n = m
    <3>1. Taking(x, n)' = Taking(x, n) \cup {i} /\ Trying(x, n)' = Trying(x, n) \cup {i}
      BY <1>1, <2>4, <2>3
    <3>2. /\ Cardinality(Taking(x, n)') = Cardinality(Taking(x, n)) + 1
          /\ Cardinality(Trying(x, n)') = Cardinality(Trying(x, n)) + 1
      BY <2>2, <2>4, <3>1, CountTypes, FS_AddElement
    <3>3. QED
      BY <1>2, <1>3, <1>4, <2>1, <2>4, <3>2, CountTypes DEF CopiesAt, Copies
  <2>5. CASE ~(x = s /\ n = m)
    <3>1. Taking(x, n)' = Taking(x, n) /\ Trying(x, n)' = Trying(x, n)
      BY <1>1, <2>2, <2>5, <2>3
    <3>2. QED
      BY <1>2, <1>3, <1>4, <2>1, <2>5, <3>1 DEF CopiesAt, Copies
  <2>6. QED
    BY <2>4, <2>5
<1>8. QED
  BY <1>6, <1>7

LEMMA RouteCounts ==
  ASSUME Lossless, NEW m \in Messages, Route(m)
  PROVE  \A x \in Subscribers, n \in Messages :
           queue'[x][n] = IF n = m THEN queue[x][n] + 1 ELSE queue[x][n]
<1>1. queue \in [Subscribers -> [Messages -> Nat]]
  BY Types DEF Queues
<1>2. QED
  BY <1>1 DEF Route

LEMMA PublishCopies ==
  ASSUME Lossless, CopiesOK, NEW e \in Events, Publish(e)
  PROVE  CopiesOK'
<1> SUFFICES ASSUME faults' = 0
             PROVE  Undisturbed' /\ \A x \in Subscribers, n \in Messages : CopiesAt(x, n)'
  BY CopiesOKIs
<1> DEFINE m == [event |-> e, try |-> 0]
<1>1. /\ published' = [published EXCEPT ![e] = published[e] + 1] /\ Route(m)
      /\ UNCHANGED <<consumer, up, republished, faults>>
  BY DEF Publish
<1>2. m \in Messages /\ \A n \in Messages : n = m <=> n.try = 0 /\ n.event = e
  BY MessageTypes DEF Messages
<1> HIDE DEF m
<1>3. Undisturbed /\ \A x \in Subscribers, n \in Messages : CopiesAt(x, n)
  BY <1>1, CopiesOKIs
<1>4. Undisturbed'
  BY <1>1, <1>3 DEF Undisturbed, At
<1>5. ASSUME NEW x \in Subscribers, NEW n \in Messages
      PROVE  CopiesAt(x, n)'
  <2>1. Taking(x, n)' = Taking(x, n) /\ Trying(x, n)' = Trying(x, n)
    BY <1>1 DEF Taking, Trying
  <2>2. Routed(n)' = IF n = m THEN Routed(n) + 1 ELSE Routed(n)
    <3>1. published'[n.event] = IF n.event = e THEN published[n.event] + 1
                                ELSE published[n.event]
      BY <1>1, Types, MessageTypes
    <3>2. Repeats(Before(n))' = Repeats(Before(n))
      BY <1>1 DEF Repeats
    <3>3. QED
      BY <1>2, <3>1, <3>2, RoutedIs
  <2>3. queue'[x][n] = IF n = m THEN queue[x][n] + 1 ELSE queue[x][n]
    BY <1>1, <1>2, RouteCounts
  <2>4. QED
    BY <1>1, <1>3, <2>1, <2>2, <2>3, CountTypes DEF CopiesAt, Copies
<1>6. QED
  BY <1>4, <1>5

\* A message that is routed again is one more of the next try, and one try less of
\* its own.
LEMMA RepublishCopies ==
  ASSUME Lossless, CopiesOK, NEW i \in Processes, NEW s \in Subscribers,
         NEW ack \in BOOLEAN, Republish(i, s, TRUE, ack)
  PROVE  CopiesOK'
<1> SUFFICES ASSUME faults' = 0
             PROVE  Undisturbed' /\ \A x \in Subscribers, k \in Messages : CopiesAt(x, k)'
  BY CopiesOKIs
<1>1. PICK m \in Messages : /\ m = consumer[i][s].msg /\ m.try < MaxRetry
                            /\ consumer[i][s].phase = "delay"
  <2>1. consumer[i][s].phase = "delay"
    BY DEF Republish, At
  <2>2. QED
    BY <2>1, Types DEF Sound, Consumers
<1> DEFINE n == NextTry(m)
           f == IF ack THEN "ack" ELSE "nack"
<1>2. /\ Route(n) /\ CountRepublish(s, m) /\ Become(i, s, f)
      /\ UNCHANGED <<published, up, faults>>
  BY <1>1 DEF Republish
<1>3. PICK c \in Consumers : /\ consumer' = [consumer EXCEPT ![i][s] = c]
                             /\ c.phase \in {"ack", "nack"} /\ c.msg = m
  <2>1. f \in {"delay", "ack", "nack"} /\ f \in {"ack", "nack"}
    OBVIOUS
  <2> HIDE DEF f
  <2>2. QED
    BY <1>1, <1>2, <2>1, Becoming
<1>4. /\ n \in Messages /\ n # m /\ n.try # 0 /\ Before(n) = m
      /\ \A k \in Messages : k.try # 0 /\ k # n => Before(k) \in Messages \ {m}
  BY <1>1, MessageTypes, BeforeTypes
<1> HIDE DEF n
<1>5. Undisturbed /\ \A x \in Subscribers, k \in Messages : CopiesAt(x, k)
  BY <1>2, CopiesOKIs
<1>6. \A j \in Processes, y \in Subscribers :
        consumer'[j][y] = IF j = i /\ y = s THEN c ELSE consumer[j][y]
  BY <1>3, Types
<1>7. Undisturbed'
  BY <1>2, <1>3, <1>5, <1>6 DEF Undisturbed, At
<1>8. \A k \in Messages : Routed(k)' = IF k = n THEN Routed(k) + 1 ELSE Routed(k)
  <2>1. Repeats(m)' = [Repeats(m) EXCEPT ![s] = @ + 1]
    BY <1>2, CountType DEF Repeats
  <2>2. Routed(n)' = Routed(n) + 1
    BY <1>4, <2>1, RoutedIs, NumberedAdd, CountTypes
  <2>3. ASSUME NEW k \in Messages, k # n
        PROVE  Routed(k)' = Routed(k)
    <3>1. k.try # 0 => Repeats(Before(k))' = Repeats(Before(k))
      BY <1>2, <1>4, <2>3, CountType DEF Repeats
    <3>2. QED
      BY <1>2, <3>1, RoutedIs
  <2>4. QED
    BY <2>2, <2>3
<1>9. ASSUME NEW x \in Subscribers, NEW k \in Messages
      PROVE  CopiesAt(x, k)'
  <2>1. Taking(x, k)' = Taking(x, k)
    BY <1>1, <1>3, <1>6 DEF Taking
  <2>2. Trying(x, k)' = IF x = s /\ k = m THEN Trying(x, k) \ {i} ELSE Trying(x, k)
    BY <1>1, <1>3, <1>6 DEF Taking, Trying
  <2>3. i \in Trying(s, m)
    BY <1>1 DEF Taking, Trying
  <2>4. Cardinality(Trying(x, k)') = IF x = s /\ k = m THEN Cardinality(Trying(x, k)) - 1
                                     ELSE Cardinality(Trying(x, k))
    BY <2>2, <2>3, CountTypes, FS_RemoveElement
  <2>5. queue'[x][k] = IF k = n THEN queue[x][k] + 1 ELSE queue[x][k]
    BY <1>2, <1>4, RouteCounts
  <2>6. republished'[x][k] = IF x = s /\ k = m THEN republished[x][k] + 1
                             ELSE republished[x][k]
    BY <1>2, CountType
  <2>7. QED
    BY <1>4, <1>5, <1>8, <2>1, <2>4, <2>5, <2>6, CountTypes DEF CopiesAt, Copies
<1>10. QED
  BY <1>7, <1>9

\* While there is no fault, no process stops, and only its own settling consumer
\* changes.
LEMMA SettleCopies ==
  ASSUME Lossless, CopiesOK, NEW i \in Processes, NEW s \in Subscribers, Settle(i, s)
  PROVE  CopiesOK'
<1>1. consumer[i][s] \in Consumers /\ Sound(consumer[i][s])
  BY Types
<1>2. CASE Store(i, s)
  <2>1. Become(i, s, "ack") /\ consumer[i][s].phase = "handle"
        /\ UNCHANGED <<published, queue, up, republished, faults>>
    BY <1>2 DEF Store, At
  <2>2. QED
    BY <2>1, Becoming, ConsumerCopies DEF Trial
<1>3. ASSUME NEW stored \in BOOLEAN, StoreFails(i, s, stored)
      PROVE  CopiesOK'
  <2>1. PICK f \in {"nack", "delay"} :
          /\ Become(i, s, f) /\ consumer[i][s].phase = "handle"
          /\ UNCHANGED <<published, queue, up, republished, faults>>
    BY <1>3 DEF StoreFails, At
  <2>2. QED
    BY <2>1, Becoming, ConsumerCopies DEF Trial
<1>4. ASSUME NEW ack \in BOOLEAN, Republish(i, s, FALSE, ack)
      PROVE  CopiesOK'
  <2>1. PICK f \in {"nack", "ack"} :
          /\ Become(i, s, f) /\ consumer[i][s].phase = "delay"
          /\ UNCHANGED <<published, queue, up, republished, faults>>
    BY <1>4 DEF Republish, At
  <2>2. QED
    BY <2>1, Becoming, ConsumerCopies DEF Trial
<1>5. CASE StopDelay(i, s)
  <2>1. faults' = faults /\ i \notin up
    BY <1>5 DEF StopDelay
  <2>2. faults # 0
    BY <2>1, CopiesOKIs DEF Undisturbed
  <2>3. QED
    BY <2>1, <2>2, CopiesOKIs
<1>6. CASE Ack(i, s) \/ Nack(i, s)
  <2>1. /\ consumer' = [consumer EXCEPT ![i][s] = Idle]
        /\ UNCHANGED <<published, queue, up, republished, faults>>
    BY <1>6 DEF Ack, Nack
  <2>2. Idle.phase = "idle" /\ Idle.msg = None
    BY DEF Idle
  <2>3. QED
    BY <2>1, <2>2, IdleTypes, ConsumerCopies DEF Trial
<1>7. QED
  BY <1>2, <1>3, <1>4, <1>5, <1>6, RepublishCopies DEF Settle

LEMMA FaultCopies ==
  ASSUME Lossless, CopiesOK, NEW i \in Processes,
         ShutDown(i) \/ ConnectionLost(i) \/ Crash(i) \/ Replace(i)
  PROVE  CopiesOK'
<1>1. CASE Fault
  <2>1. faults' # 0
    BY <1>1 DEF Fault, Lossless, TypeOK
  <2>2. QED
    BY <2>1, CopiesOKIs
<1>2. CASE Replace(i)
  <2>1. faults' = faults /\ ~Undisturbed
    BY <1>2 DEF Replace, Undisturbed
  <2>2. QED
    BY <2>1, CopiesOKIs
<1>3. QED
  BY <1>1, <1>2 DEF ShutDown, ConnectionLost, Crash

LEMMA InitCopies == Init => CopiesOK
<1> SUFFICES ASSUME Init PROVE CopiesOK
  OBVIOUS
<1>1. Lossless
  BY InitInv
<1>2. \A i \in Processes, s \in Subscribers : consumer[i][s] = Idle
  BY DEF Init
<1>3. Undisturbed
  BY <1>2 DEF Init, Undisturbed, At, Idle
<1>4. ASSUME NEW s \in Subscribers, NEW m \in Messages
      PROVE  CopiesAt(s, m)
  <2>1. Taking(s, m) = {} /\ Trying(s, m) = {}
    BY <1>2, IdleTypes, MessageTypes DEF Taking, Trying
  <2>2. Copies(s, m) = 0 /\ queue[s][m] + Cardinality(Trying(s, m)) + republished[s][m] = 0
    BY <2>1, FS_EmptySet DEF Init, Copies
  <2>3. QED
    BY <1>1, <2>2, CountTypes DEF CopiesAt
<1>5. QED
  BY <1>3, <1>4, CopiesOKIs

LEMMA NextCopies == Lossless /\ CopiesOK /\ [Next]_vars => CopiesOK'
<1> SUFFICES ASSUME Lossless, CopiesOK, [Next]_vars PROVE CopiesOK'
  OBVIOUS
<1>1. CASE UNCHANGED vars
  BY <1>1 DEF vars, CopiesOK, Copies, Taking, Trying, Routed, Republications, At
<1>2. CASE Next
  BY <1>2, PublishCopies, DeliverCopies, SettleCopies, FaultCopies DEF Next, Consume
<1>3. QED
  BY <1>1, <1>2

-----------------------------------------------------------------------------
(* The ways to get to a try. Induction is by the least number outside a set *)
(* of naturals.                                                             *)

LEMMA NaturalSet ==
  ASSUME NEW T, 0 \in T, \A n \in Nat : n \in T => n + 1 \in T
  PROVE  Nat \subseteq T
<1> SUFFICES ASSUME Nat \ T # {} PROVE FALSE
  OBVIOUS
<1>1. PICK n \in Nat \ T : \A k \in Nat \ T : ~(k < n)
  <2>1. PICK n \in Nat \ T : \A k \in Nat \ T : <<k, n>> \notin OpToRel(<, Nat)
    BY NatLessThanWellFounded, WFMin
  <2>2. \A k \in Nat \ T : k < n => <<k, n>> \in OpToRel(<, Nat)
    BY DEF OpToRel
  <2>3. QED
    BY <2>1, <2>2
<1>2. n - 1 \in Nat /\ n - 1 \notin Nat \ T
  BY <1>1
<1>3. QED
  BY <1>1, <1>2

LEMMA FailuresZero == IsFiniteSet(Failures(0)) /\ Cardinality(Failures(0)) = 1
<1> DEFINE none == [k \in 1..0 |-> CHOOSE s \in Subscribers : TRUE]
<1>1. none \in Failures(0) /\ 1..0 = {}
  BY DEF Failures
<1>2. ASSUME NEW f \in [1..0 -> Subscribers]
      PROVE  f = none
  BY <1>1
<1>3. Failures(0) = {none}
  BY <1>1, <1>2 DEF Failures
<1> HIDE DEF none
<1>4. QED
  BY <1>3, FS_Singleton

\* One more try: any subscriber's handler may be the one that failed.
LEMMA FailuresGrow ==
  ASSUME NEW n \in Nat, IsFiniteSet(Failures(n))
  PROVE  /\ IsFiniteSet(Failures(n + 1))
         /\ Cardinality(Failures(n + 1)) = Cardinality(Subscribers) * Cardinality(Failures(n))
<1> DEFINE S == Subscribers
           g == [p \in S \X Failures(n) |->
                  [k \in 1..(n + 1) |-> IF k = n + 1 THEN p[1] ELSE p[2][k]]]
<1>1. g \in [S \X Failures(n) -> Failures(n + 1)]
  BY DEF Failures
<1>2. ASSUME NEW p \in S \X Failures(n), NEW q \in S \X Failures(n), g[p] = g[q]
      PROVE  p = q
  <2>1. p[1] = q[1]
    <3>1. g[p][n + 1] = p[1] /\ g[q][n + 1] = q[1]
      OBVIOUS
    <3>2. QED
      BY <1>2, <3>1
  <2>2. p[2] \in [1..n -> S] /\ q[2] \in [1..n -> S]
    BY DEF Failures
  <2>3. ASSUME NEW k \in 1..n
        PROVE  p[2][k] = q[2][k]
    <3>1. g[p][k] = p[2][k] /\ g[q][k] = q[2][k]
      OBVIOUS
    <3>2. QED
      BY <1>2, <3>1
  <2>4. p[2] = q[2]
    BY <2>2, <2>3
  <2>5. QED
    BY <2>1, <2>4
<1>3. ASSUME NEW f \in Failures(n + 1)
      PROVE  \E p \in S \X Failures(n) : g[p] = f
  <2> DEFINE p == <<f[n + 1], [k \in 1..n |-> f[k]]>>
  <2>1. f \in [1..(n + 1) -> S]
    BY DEF Failures
  <2>2. p \in S \X Failures(n)
    BY <2>1 DEF Failures
  <2>3. g[p] \in [1..(n + 1) -> S]
    BY <1>1, <2>2 DEF Failures
  <2>4. ASSUME NEW k \in 1..(n + 1)
        PROVE  g[p][k] = f[k]
    BY <2>1, <2>2
  <2>5. QED
    BY <2>1, <2>2, <2>3, <2>4
<1> HIDE DEF g
<1>4. g \in Bijection(S \X Failures(n), Failures(n + 1))
  BY <1>1, <1>2, <1>3 DEF Bijection, Injection, Surjection, IsInjective
<1>5. QED
  BY <1>4, FS_Product, FS_Bijection, BrokerAssumption DEF ExistsBijection

LEMMA FailuresFinite ==
  ASSUME NEW n \in Nat
  PROVE  IsFiniteSet(Failures(n)) /\ Cardinality(Failures(n)) \in Nat
<1> DEFINE T == {k \in Nat : IsFiniteSet(Failures(k))}
<1>1. 0 \in T
  BY FailuresZero
<1>2. \A k \in Nat : k \in T => k + 1 \in T
  BY FailuresGrow
<1> HIDE DEF T
<1>3. n \in T
  BY <1>1, <1>2, NaturalSet
<1>4. QED
  BY <1>3, FS_CardinalityType DEF T

\* What is routed is what the outbox published, times the ways to get there.
Within(m) == Routed(m) <= published[m.event] * Cardinality(Failures(m.try))

LEMMA RoutedWithin ==
  ASSUME Lossless, \A s \in Subscribers, m \in Messages : CopiesAt(s, m), NEW msg \in Messages
  PROVE  Within(msg)
<1> DEFINE T == {k \in Nat : \A m \in Messages : m.try = k => Within(m)}
<1>1. 0 \in T
  <2>1. ASSUME NEW m \in Messages, m.try = 0
        PROVE  Within(m)
    <3>1. Routed(m) = published[m.event] /\ published[m.event] \in Nat
      BY <2>1, RoutedIs, Types, MessageTypes
    <3>2. QED
      BY <2>1, <3>1, FailuresZero DEF Within
  <2>2. QED
    BY <2>1
<1>2. ASSUME NEW k \in Nat, k \in T, NEW m \in Messages, m.try = k + 1
      PROVE  Within(m)
  <2> DEFINE b == Before(m)
             c == Cardinality(Subscribers)
             d == Cardinality(Failures(k))
  <2>1. b \in Messages /\ b.event = m.event /\ b.try = k
    BY <1>2, BeforeTypes
  <2> HIDE DEF b
  <2>2. Routed(b) <= published[m.event] * d
    BY <1>2, <2>1 DEF Within
  <2>3. ASSUME NEW s \in Subscribers
        PROVE  Repeats(b)[s] <= Routed(b)
    <3>1. queue[s][b] + Cardinality(Trying(s, b)) + republished[s][b] <= Routed(b)
      BY <2>1 DEF CopiesAt
    <3>2. republished[s][b] <= Routed(b)
      BY <2>1, <3>1, CountTypes
    <3>3. QED
      BY <3>2 DEF Repeats
  <2>4. Routed(m) <= c * Routed(b)
    <3>1. Routed(m) = Cardinality(Numbered(Repeats(b)))
      BY <1>2, RoutedIs DEF b
    <3>2. QED
      BY <2>1, <2>3, <3>1, NumberedBound, CountTypes
  <2>5. Cardinality(Failures(m.try)) = c * d
    BY <1>2, FailuresFinite, FailuresGrow
  <2>6. /\ c \in Nat /\ d \in Nat /\ published[m.event] \in Nat
        /\ Routed(m) \in Nat /\ Routed(b) \in Nat
    BY <2>1, FailuresFinite, CountTypes, Types, MessageTypes, FS_CardinalityType, BrokerAssumption
  <2>7. Routed(m) <= published[m.event] * (c * d)
    <3> HIDE DEF c, d
    <3>1. c * Routed(b) <= c * (published[m.event] * d)
      BY <2>2, <2>6
    <3>2. QED
      BY <2>4, <2>6, <3>1
  <2>8. QED
    BY <2>5, <2>7 DEF Within
<1>3. \A k \in Nat : k \in T => k + 1 \in T
  BY <1>2
<1> HIDE DEF T
<1>4. Nat \subseteq T
  BY <1>1, <1>3, NaturalSet
<1>5. msg.try \in Nat
  BY MessageTypes
<1>6. QED
  BY <1>4, <1>5 DEF T

-----------------------------------------------------------------------------
(* The theorems *)

\* A copy is acknowledged only when its event is stored, dead or in the queue once
\* more for its next retry (handleMessage, republish), and, without a fault, no
\* copy is there that was not routed, and none is published again twice.
THEOREM BrokerInvariant == Spec => []IInv
<1>1. Init => IInv
  BY InitInv, InitCopies DEF IInv, Lossless
<1>2. IInv /\ [Next]_vars => IInv'
  <2>1. IInv <=> Lossless /\ CopiesOK
    BY DEF IInv, Lossless
  <2>2. IInv' <=> Lossless' /\ CopiesOK'
    BY DEF IInv, Lossless
  <2>3. QED
    BY <2>1, <2>2, NextInv, NextCopies
<1>3. QED
  BY <1>1, <1>2, PTL DEF Spec

\* No subscriber loses an event, with any number of processes, retries, shutdowns,
\* lost connections and crashes, unless the confirmation of a copy was another's.
THEOREM NothingLost == Spec => []Accounted
<1>1. IInv => Accounted
  BY DEF IInv, AckedNotNeeded, Accounted
<1>2. QED
  BY BrokerInvariant, <1>1, PTL

LEMMA CountsWithin ==
  ASSUME IInv, faults = 0, NEW s \in Subscribers, NEW m \in Messages
  PROVE  /\ Copies(s, m) <= published[m.event] * Cardinality(Failures(m.try))
         /\ republished[s][m] <= published[m.event] * Cardinality(Failures(m.try))
<1>1. Lossless /\ \A x \in Subscribers, n \in Messages : CopiesAt(x, n)
  BY CopiesOKIs DEF IInv, Lossless
<1>2. /\ Copies(s, m) <= Routed(m) /\ republished[s][m] <= Routed(m)
      /\ Copies(s, m) \in Nat /\ republished[s][m] \in Nat /\ Routed(m) \in Nat
  BY <1>1, CountTypes DEF CopiesAt, Copies
<1>3. Routed(m) <= published[m.event] * Cardinality(Failures(m.try))
  BY <1>1, RoutedWithin DEF Within
<1>4. published[m.event] * Cardinality(Failures(m.try)) \in Nat
  <2>1. published[m.event] \in Nat /\ Cardinality(Failures(m.try)) \in Nat
    BY <1>1, Types, MessageTypes, FailuresFinite
  <2>2. QED
    BY <2>1
<1>5. QED
  BY <1>2, <1>3, <1>4

\* While nothing is redelivered, the retries of an event multiply its copies by the
\* number of subscribers at most with each try: republish puts one copy into every
\* queue, and each subscriber does so once for each copy it was given.
THEOREM CopiesStayBounded == Spec => []CopiesBounded
<1>1. IInv => CopiesBounded
  BY CountsWithin DEF CopiesBounded
<1>2. QED
  BY BrokerInvariant, <1>1, PTL

\* A subscriber publishes a try of an event again no more often than there are ways
\* to get to it.
RepublishesBounded ==
  faults = 0 =>
    \A s \in Subscribers, m \in Messages :
      republished[s][m] <= published[m.event] * Cardinality(Failures(m.try))

\* Republishing (republish, of a failed handler) cannot go on for ever, whatever the
\* handlers, the broker's confirmations and the order of the consumers: the tries
\* are MaxRetry at most, and each is republished boundedly often.
THEOREM RepublishingEnds == Spec => []RepublishesBounded
<1>1. IInv => RepublishesBounded
  BY CountsWithin DEF RepublishesBounded
<1>2. QED
  BY BrokerInvariant, <1>1, PTL
=============================================================================
