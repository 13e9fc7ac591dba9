--------------------------- MODULE PipelineProofs ---------------------------
(* The composition implements both its parts: what is proved of Inbox and   *)
(* of Broker holds of the inbox and of the broker of Pipeline.              *)
EXTENDS Pipeline, TLAPS

\* The theorems about Inbox, for the inbox of Pipeline.
Box == INSTANCE InboxProofs WITH Processors <- Processes, MaxRetry <- MaxMailRetry

\* The theorems about Broker, for the broker of Pipeline.
Queues == INSTANCE BrokerProofs WITH
  inbox <- [s \in Subscribers |-> IF s = MailService THEN Rows ELSE stored[s]]

LEMMA BoxAssumption == Box!InboxAssumption
BY PipelineAssumption DEF Box!IsFiniteSet, IsFiniteSet

LEMMA QueuesAssumption == Queues!BrokerAssumption
BY PipelineAssumption DEF Queues!IsFiniteSet, IsFiniteSet

-----------------------------------------------------------------------------
(* Box is Mail. The two instances have their operators each; the lemmas say *)
(* that they are the same.                                                  *)

LEMMA BoxCardinality == \A S : Mail!Cardinality(S) = Box!Cardinality(S)
BY DEF Mail!Cardinality, Box!Cardinality

LEMMA BoxHolding == \A p : Mail!Holding(p) = Box!Holding(p)
BY DEF Mail!Holding, Box!Holding

LEMMA BoxMarkProcessing ==
  ASSUME NEW S
  PROVE  Mail!MarkProcessing(S) <=> Box!MarkProcessing(S)
<1>1. Mail!Claimable = Box!Claimable
  BY DEF Mail!Claimable, Box!Claimable
<1>2. QED
  BY <1>1, BoxCardinality
     DEF Mail!MarkProcessing, Box!MarkProcessing, Mail!history, Box!history

LEMMA BoxClaim ==
  ASSUME NEW p
  PROVE  /\ Mail!Claim(p) <=> Box!Claim(p)
         /\ Mail!ClaimLost(p) <=> Box!ClaimLost(p)
BY BoxHolding, BoxMarkProcessing DEF Mail!Claim, Box!Claim, Mail!ClaimLost, Box!ClaimLost

LEMMA BoxWork ==
  ASSUME NEW p
  PROVE  (Mail!Work(p) <=> Box!Work(p)) /\ (Mail!Abandon(p) <=> Box!Abandon(p))
<1>1. Mail!Work(p) <=> Box!Work(p)
  BY DEF Mail!Work, Box!Work, Mail!MarkFailed, Box!MarkFailed, Mail!SendMail, Box!SendMail,
     Mail!MarkProcessed, Box!MarkProcessed, Mail!MarkPending, Box!MarkPending,
     Mail!Proceed, Box!Proceed, Mail!GivesUp, Box!GivesUp, Mail!Idle, Box!Idle,
     Mail!history, Box!history, Mail!rows, Box!rows
<1>2. Mail!Abandon(p) <=> Box!Abandon(p)
  BY DEF Mail!Abandon, Box!Abandon, Mail!Idle, Box!Idle, Mail!rows, Box!rows
<1>3. QED
  BY <1>1, <1>2

LEMMA BoxTime ==
  ASSUME NEW e
  PROVE  /\ Mail!BackoffEnds(e) <=> Box!BackoffEnds(e)
         /\ Mail!GrowOld(e) <=> Box!GrowOld(e)
BY DEF Mail!BackoffEnds, Box!BackoffEnds, Mail!GrowOld, Box!GrowOld, Mail!history, Box!history

LEMMA BoxRecovery == Mail!RecoverProcessing <=> Box!RecoverProcessing
BY DEF Mail!RecoverProcessing, Box!RecoverProcessing, Mail!Recoverable, Box!Recoverable,
   Mail!Holding, Box!Holding

LEMMA BoxProcess == Mail!Process <=> Box!Process
BY BoxClaim, BoxWork, BoxTime, BoxRecovery DEF Mail!Process, Box!Process

LEMMA BoxSteps ==
  /\ Mail!Init <=> Box!Init
  /\ \A e : Mail!Save(e) <=> Box!Save(e)
  /\ Mail!Next <=> Box!Next
  /\ UNCHANGED Mail!vars <=> UNCHANGED Box!vars
<1>1. Mail!Init <=> Box!Init
  BY DEF Mail!Init, Box!Init, Mail!Idle, Box!Idle
<1>2. \A e : Mail!Save(e) <=> Box!Save(e)
  BY DEF Mail!Save, Box!Save, Mail!history, Box!history
<1>3. Mail!Next <=> Box!Next
  BY <1>2, BoxProcess DEF Mail!Next, Box!Next
<1>4. UNCHANGED Mail!vars <=> UNCHANGED Box!vars
  BY DEF Mail!vars, Box!vars
<1>5. QED
  BY <1>1, <1>2, <1>3, <1>4

-----------------------------------------------------------------------------
(* The inbox *)

\* Whatever the broker delivers, and however often, the inbox of Pipeline takes
\* steps of Inbox only: a consumer that stores an event takes Save, and one that
\* finds it there takes none (SaveEvent).
THEOREM ImplementsInbox == Spec => Mail!Spec
<1>1. Init => Mail!Init
  BY DEF Init
<1>2. [Next]_vars => [Mail!Next]_(Mail!vars)
  BY DEF Next, Storing, vars, mailVars, Mail!vars, Mail!Next
<1>3. QED
  BY <1>1, <1>2, PTL DEF Spec, Mail!Spec

LEMMA BoxSpec == Spec => Box!Spec
<1>1. Mail!Spec => Box!Spec
  BY BoxSteps, PTL DEF Mail!Spec, Box!Spec
<1>2. QED
  BY <1>1, ImplementsInbox

\* One mail for an event that is published, retried and delivered any number of
\* times, unless a worker was slower than the recovery or the mail was sent and
\* nobody recorded it.
THEOREM OneMailEndToEnd == Spec => []MailedOnceEndToEnd
<1>1. Box!Spec => []Box!MailedOnce
  BY BoxAssumption, Box!OneMail
<1>2. Box!MailedOnce => MailedOnceEndToEnd
  BY DEF Box!MailedOnce, Mail!MailedOnce, MailedOnceEndToEnd
<1>3. QED
  BY <1>1, <1>2, BoxSpec, PTL

\* A duplicate does not take an event that is processed or failed up again.
THEOREM DuplicatesAreIgnored == Spec => DuplicatesChangeNothing
<1>1. Box!Spec => Box!FinalStays
  BY BoxAssumption, Box!FinalIsFinal
<1>2. Box!FinalStays <=> Mail!FinalStays
  BY DEF Box!FinalStays, Mail!FinalStays, Box!Final, Mail!Final, Box!vars, Mail!vars
<1>3. QED
  BY <1>1, <1>2, BoxSpec, PTL DEF DuplicatesChangeNothing

-----------------------------------------------------------------------------
(* The broker. Queues is Exchange, as Box is Mail. *)

LEMMA QueuesConsumer ==
  ASSUME NEW i, NEW s
  PROVE  Exchange!Consume(i, s) <=> Queues!Consume(i, s)
BY DEF Exchange!Consume, Queues!Consume, Exchange!Messages, Queues!Messages,
   Exchange!Deliver, Queues!Deliver, Exchange!Settle, Queues!Settle,
   Exchange!Store, Queues!Store, Exchange!StoreFails, Queues!StoreFails,
   Exchange!Republish, Queues!Republish, Exchange!NextTry, Queues!NextTry,
   Exchange!Route, Queues!Route, Exchange!CountRepublish, Queues!CountRepublish,
   Exchange!StopDelay, Queues!StopDelay,
   Exchange!Ack, Queues!Ack, Exchange!Nack, Queues!Nack, Exchange!At, Queues!At,
   Exchange!Become, Queues!Become, Exchange!Idle, Queues!Idle,
   Exchange!Stopped, Queues!Stopped

LEMMA QueuesFaults ==
  ASSUME NEW i
  PROVE  /\ Exchange!ShutDown(i) <=> Queues!ShutDown(i)
         /\ Exchange!ConnectionLost(i) <=> Queues!ConnectionLost(i)
         /\ Exchange!Crash(i) <=> Queues!Crash(i)
         /\ Exchange!Replace(i) <=> Queues!Replace(i)
BY DEF Exchange!ShutDown, Queues!ShutDown, Exchange!ConnectionLost, Queues!ConnectionLost,
   Exchange!Crash, Queues!Crash, Exchange!Replace, Queues!Replace,
   Exchange!Restart, Queues!Restart, Exchange!Requeue, Queues!Requeue,
   Exchange!Fault, Queues!Fault, Exchange!At, Queues!At, Exchange!Idle, Queues!Idle,
   Exchange!Stopped, Queues!Stopped

LEMMA QueuesSteps ==
  /\ Exchange!Init <=> Queues!Init
  /\ Exchange!Next <=> Queues!Next
  /\ UNCHANGED Exchange!vars <=> UNCHANGED Queues!vars
<1>1. Exchange!Init <=> Queues!Init
  BY DEF Exchange!Init, Queues!Init, Exchange!Messages, Queues!Messages,
     Exchange!Idle, Queues!Idle
<1>2. ASSUME NEW e
      PROVE  Exchange!Publish(e) <=> Queues!Publish(e)
  BY DEF Exchange!Publish, Queues!Publish, Exchange!Route, Queues!Route,
     Exchange!Messages, Queues!Messages
<1>3. Exchange!Next <=> Queues!Next
  BY <1>2, QueuesConsumer, QueuesFaults DEF Exchange!Next, Queues!Next
<1>4. UNCHANGED Exchange!vars <=> UNCHANGED Queues!vars
  BY DEF Exchange!vars, Queues!vars
<1>5. QED
  BY <1>1, <1>3, <1>4

\* What the workers of the inbox do is no step of the broker's: they neither insert
\* rows nor delete them.
LEMMA MailStep ==
  ASSUME Box!IInv, Box!HeldStored, Mail!Process, UNCHANGED brokerVars
  PROVE  UNCHANGED Exchange!vars
<1>1. Box!Stored' = Box!Stored
  BY BoxAssumption, BoxProcess, Box!ProcessRows
<1>2. Rows' = Rows
  BY <1>1 DEF Rows, Box!Stored
<1>3. QED
  BY <1>2 DEF brokerVars, Exchange!vars

\* Storing an event in the inbox of the mail service is Save there and Store in the
\* broker, in one step; nothing else in either part disturbs the other.
THEOREM ImplementsBroker == Spec => Exchange!Spec
<1>1. Spec => [](Box!IInv /\ Box!HeldStored)
  <2>1. Box!Spec => []Box!IInv
    BY BoxAssumption, Box!InboxInvariant
  <2>2. Box!Spec => []Box!HeldStored
    BY BoxAssumption, Box!HeldHaveRows
  <2>3. QED
    BY <2>1, <2>2, BoxSpec, PTL
<1>2. Init => Exchange!Init
  BY DEF Init
<1>3. Box!IInv /\ Box!HeldStored /\ [Next]_vars => [Exchange!Next]_(Exchange!vars)
  <2>1. UNCHANGED vars => UNCHANGED Exchange!vars
    BY DEF vars, Exchange!vars, Rows
  <2>2. QED
    BY <2>1, MailStep DEF Next
<1>4. QED
  BY <1>1, <1>2, <1>3, PTL DEF Spec, Exchange!Spec

\* Between the outbox and the mail no published event is lost: it has a row in the
\* inbox, is in the mail queue, in a consumer's hands or in the dead letter queue,
\* or the confirmation of its copy was another's.
THEOREM NothingLostEndToEnd == Spec => []Exchange!Accounted
<1>1. Queues!Spec => []Queues!Accounted
  BY QueuesAssumption, Queues!NothingLost
<1>2. Exchange!Spec => Queues!Spec
  BY QueuesSteps, PTL DEF Exchange!Spec, Queues!Spec
<1>3. Queues!Accounted => Exchange!Accounted
  BY DEF Queues!Accounted, Exchange!Accounted, Queues!Messages, Exchange!Messages
<1>4. QED
  BY <1>1, <1>2, <1>3, ImplementsBroker, PTL
=============================================================================
