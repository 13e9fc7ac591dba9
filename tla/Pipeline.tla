------------------------------ MODULE Pipeline ------------------------------
(***************************************************************************)
(* From the exchange to the mail: Broker and Inbox side by side. The inbox *)
(* of the mail service is the same table in both: an event is in it when   *)
(* it has a row. A step is a step of the one, of the other, or of both,    *)
(* when a consumer's handler stores an event.                              *)
(***************************************************************************)
EXTENDS Integers, FiniteSets

CONSTANTS
  Events, Subscribers, Processes, None,
  MaxRetry, MaxPublishes, MaxFaults,   \* of Broker
  MailService,                         \* the subscriber whose inbox sends mails
  Batch, MaxMailRetry, MailCap         \* of Inbox

\* What Broker and Inbox assume of their constants.
ASSUME PipelineAssumption ==
  /\ MailService \in Subscribers /\ IsFiniteSet(Subscribers)
  /\ IsFiniteSet(Processes) /\ Processes # {}
  /\ MaxRetry \in Nat /\ MaxPublishes \in Nat \ {0} /\ MaxFaults \in Nat
  /\ Batch \in Nat \ {0} /\ MaxMailRetry \in Nat \ {0} /\ MailCap \in Nat \ {0, 1}
  /\ None \notin Events
  /\ None \notin [event : Events, retry : Nat] \cup [event : Events, try : Nat]

VARIABLES
  published, queue, dlq, consumer, up, misread, republished, faults,  \* of Broker
  stored,                                                             \* the other inboxes
  status, retry, waiting, old, job, mails, retaken, unsure            \* of Inbox

brokerVars == <<published, queue, dlq, consumer, up, misread, republished, faults, stored>>
mailVars   == <<status, retry, waiting, old, job, mails, retaken, unsure>>
vars == <<published, queue, dlq, consumer, up, misread, republished, faults, stored,
          status, retry, waiting, old, job, mails, retaken, unsure>>

\* Every process runs its consumers and one inbox worker.
Mail == INSTANCE Inbox WITH Processors <- Processes, MaxRetry <- MaxMailRetry

Rows == {e \in Events : status[e] # "NONE"}

Exchange == INSTANCE Broker WITH
  inbox <- [s \in Subscribers |-> IF s = MailService THEN Rows ELSE stored[s]]

OtherInboxes == [Subscribers \ {MailService} -> SUBSET Events]

\* A handler of the mail service that stores an event takes a step of Inbox.
Storing ==
  /\ UNCHANGED mailVars \/ \E e \in Events : Mail!Save(e)
  /\ stored' \in OtherInboxes

Init == Mail!Init /\ stored \in OtherInboxes /\ Exchange!Init

Next ==
  \/ Storing /\ Exchange!Next
  \/ Mail!Process /\ UNCHANGED brokerVars

Spec == Init /\ [][Next]_vars

Fairness ==
  /\ \A i \in Processes, s \in Subscribers : WF_vars(Storing /\ Exchange!Consume(i, s))
  /\ \A i \in Processes : WF_vars(Storing /\ Exchange!Replace(i))
  /\ Mail!Fairness

FairSpec == Spec /\ Fairness

-----------------------------------------------------------------------------
\* However often the outbox, a failed handler or a lost connection delivers an
\* event again, the customer gets one mail, unless a worker was slower than the
\* recovery or nobody recorded that the mail was sent.
MailedOnceEndToEnd == Mail!MailedOnce

\* A duplicate never makes an event that is over start again.
DuplicatesChangeNothing == Mail!FinalStays

\* Every published event ends with its mail sent or given up, in the inbox, or in
\* the dead letter queue, or got lost behind another message's confirmation.
EveryEventEnds ==
  \A e \in Events :
    published[e] > 0 ~> \/ [](status[e] \in Mail!Final)
                        \/ e \in dlq[MailService] \cup misread
=============================================================================
