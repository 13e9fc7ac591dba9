-------------------------------- MODULE Inbox --------------------------------
(***************************************************************************)
(* The inbox of the mail service and the workers that empty it: in every   *)
(* API process one goroutine claims a batch, sends one mail per event and  *)
(* marks what came of it, and another makes pending again what has been    *)
(* processing for two minutes.                                             *)
(***************************************************************************)
EXTENDS Integers, FiniteSets

CONSTANTS
  Events,       \* rows of the consumer "mail-service"
  Processors,   \* running API processes, one inbox worker in each
  Batch,        \* LIMIT of the claim
  MaxRetry,
  MailCap,      \* bound: mails beyond this many are not told apart
  None

ASSUME InboxAssumption ==
  /\ None \notin Events /\ None \notin [event : Events, retry : Nat]
  /\ IsFiniteSet(Processors) /\ Processors # {}
  /\ Batch \in Nat \ {0} /\ MaxRetry \in Nat \ {0} /\ MailCap \in Nat \ {0, 1}

Statuses == {"NONE", "PENDING", "PROCESSING", "PROCESSED", "FAILED"}
Final    == {"PROCESSED", "FAILED"}

\* An event whose retries are used up can still be in every other worker's hands.
Top    == MaxRetry + Cardinality(Processors) - 1
\* A claimed event carries the retry count it was claimed with; only one with
\* retries left is attempted.
Claims   == [event : Events, retry : Nat]
Attempts == [event : Events, retry : 0..(MaxRetry - 1)]

VARIABLES
  status, retry,   \* inbox_events.status, inbox_events.retry_count
  waiting,         \* pending events with next_attempt_at in the future
  old,             \* events whose processing_started_at is two minutes ago
  job,             \* what each worker has claimed, and the event it is at
  mails,           \* how often the mail of an event was sent
  retaken,         \* history: events recovered while a worker had them
  unsure           \* history: events whose mail was sent and not recorded as sent

rows    == <<status, retry, waiting, old>>
history == <<retaken, unsure>>
vars == <<status, retry, waiting, old, job, mails, retaken, unsure>>

Idle == [todo |-> {}, at |-> None, sent |-> FALSE]

TypeOK ==
  /\ status \in [Events -> Statuses] /\ retry \in [Events -> Nat]
  /\ waiting \subseteq Events /\ old \subseteq Events
  /\ job \in [Processors -> [todo : SUBSET Claims, at : Attempts \cup {None}, sent : BOOLEAN]]
  /\ mails \in [Events -> 0..MailCap]
  /\ retaken \subseteq Events /\ unsure \subseteq Events

Init ==
  /\ status = [e \in Events |-> "NONE"] /\ retry = [e \in Events |-> 0]
  /\ waiting = {} /\ old = {}
  /\ job = [p \in Processors |-> Idle]
  /\ mails = [e \in Events |-> 0]
  /\ retaken = {} /\ unsure = {}

\* The events a worker has in its hands.
Holding(p) == {c.event : c \in job[p].todo \cup ({job[p].at} \ {None})}

-----------------------------------------------------------------------------
(* The consumer *)

\* mutant: the insert became an upsert that starts over.
UpsertPending(e) ==
  /\ status' = [status EXCEPT ![e] = "PENDING"]
  /\ UNCHANGED <<retry, waiting, old, job, mails, history>>

\* Save: the primary key (id, consumer) refuses an event that is already there.
Save(e) ==
  /\ status[e] = "NONE"
  /\ status' = [status EXCEPT ![e] = "PENDING"]
  /\ UNCHANGED <<retry, waiting, old, job, mails, history>>

-----------------------------------------------------------------------------
(* Claiming *)

BackoffEnds(e) ==
  /\ e \in waiting
  /\ waiting' = waiting \ {e}
  /\ UNCHANGED <<status, retry, old, job, mails, history>>

GrowOld(e) ==
  /\ status[e] = "PROCESSING" /\ e \notin old
  /\ old' = old \cup {e}
  /\ UNCHANGED <<status, retry, waiting, job, mails, history>>

\* mutant: the claim also takes what is being processed.
ClaimableProcessing ==
  {e \in Events : status[e] \in {"PENDING", "PROCESSING"} /\ e \notin waiting}

Claimable == {e \in Events : status[e] = "PENDING" /\ e \notin waiting}

\* Rows another statement has locked are skipped: any batch of them.
MarkProcessing(S) ==
  /\ S # {} /\ S \subseteq Claimable /\ Cardinality(S) <= Batch
  /\ status' = [e \in Events |-> IF e \in S THEN "PROCESSING" ELSE status[e]]
  /\ old' = old \ S
  /\ UNCHANGED <<retry, waiting, mails, history>>

Claim(p) ==
  /\ Holding(p) = {}
  /\ \E S \in SUBSET Events :
       /\ MarkProcessing(S)
       /\ job' = [job EXCEPT ![p].todo = {[event |-> e, retry |-> retry[e]] : e \in S}]

\* The claim is committed and its answer lost: nobody has the events.
ClaimLost(p) ==
  /\ Holding(p) = {}
  /\ \E S \in SUBSET Events : MarkProcessing(S)
  /\ UNCHANGED job

-----------------------------------------------------------------------------
(* Processing a batch *)

\* The worker goes on to the next event, or, when it does not learn that its
\* update was made, leaves the rest of the batch as it is.
Proceed(p, c) ==
  job' \in {[job EXCEPT ![p].todo = @ \ {c}, ![p].at = None, ![p].sent = FALSE],
            [job EXCEPT ![p] = Idle]}

\* mutant: one retry too many.
GivesUpLate(c) == c.retry > MaxRetry

\* The retry count of the row as it was claimed.
GivesUp(c) == c.retry >= MaxRetry

\* Without a look at the status of the row: it may not be this worker's any more.
MarkFailed(p, c) ==
  /\ job[p].at = None /\ GivesUp(c)
  /\ status' = [status EXCEPT ![c.event] = "FAILED"]
  /\ Proceed(p, c)
  /\ UNCHANGED <<retry, waiting, old, mails, history>>

\* mutant: the error of the SMTP server is dropped.
SendMailErrorDropped(p, c, sent, ok) ==
  /\ job[p].at = None /\ ~GivesUp(c)
  /\ job' = [job EXCEPT ![p].todo = @ \ {c}, ![p].at = c, ![p].sent = TRUE]
  /\ mails' = IF sent /\ mails[c.event] < MailCap
              THEN [mails EXCEPT ![c.event] = @ + 1] ELSE mails
  /\ unsure' = IF sent /\ ~ok THEN unsure \cup {c.event} ELSE unsure
  /\ UNCHANGED <<rows, retaken>>

\* One SMTP session per mail; one that breaks off at its end may have sent it.
SendMail(p, c, sent, ok) ==
  /\ job[p].at = None /\ ~GivesUp(c)
  /\ ok => sent
  /\ job' = [job EXCEPT ![p].todo = @ \ {c}, ![p].at = c, ![p].sent = ok]
  /\ mails' = IF sent /\ mails[c.event] < MailCap
              THEN [mails EXCEPT ![c.event] = @ + 1] ELSE mails
  /\ unsure' = IF sent /\ ~ok THEN unsure \cup {c.event} ELSE unsure
  /\ UNCHANGED <<rows, retaken>>

\* The mail is sent: again whatever the row has become meanwhile.
MarkProcessed(p) ==
  LET c == job[p].at IN
  /\ c # None /\ job[p].sent
  /\ status' = [status EXCEPT ![c.event] = "PROCESSED"]
  /\ old' = old \ {c.event}
  /\ Proceed(p, c)
  /\ UNCHANGED <<retry, waiting, mails, history>>

\* The mail failed: the next attempt waits for its backoff.
MarkPending(p) ==
  LET c == job[p].at IN
  /\ c # None /\ ~job[p].sent
  /\ status' = [status EXCEPT ![c.event] = "PENDING"]
  /\ retry' = [retry EXCEPT ![c.event] = @ + 1]
  /\ waiting' = waiting \cup {c.event}
  /\ old' = old \ {c.event}
  /\ Proceed(p, c)
  /\ UNCHANGED <<mails, history>>

Work(p) ==
  \/ \E c \in job[p].todo : \/ MarkFailed(p, c)
                            \/ \E sent, ok \in BOOLEAN : SendMail(p, c, sent, ok)
  \/ MarkProcessed(p) \/ MarkPending(p)

\* The update fails, or the process dies: the batch stays PROCESSING.
Abandon(p) ==
  /\ job[p] # Idle
  /\ job' = [job EXCEPT ![p] = Idle]
  /\ unsure' = IF job[p].sent THEN unsure \cup {job[p].at.event} ELSE unsure
  /\ UNCHANGED <<rows, mails, retaken>>

-----------------------------------------------------------------------------
(* Recovery *)

\* mutant: the deadline is compared the wrong way round.
RecoverableYoung == {e \in Events : status[e] = "PROCESSING" /\ e \notin old}

\* mutant: without AND status = 'PROCESSING'.
RecoverableAny == old

Recoverable == {e \in old : status[e] = "PROCESSING"}

\* The attempt is not counted.
RecoverProcessing ==
  /\ Recoverable # {}
  /\ status' = [e \in Events |-> IF e \in Recoverable THEN "PENDING" ELSE status[e]]
  /\ waiting' = waiting \ Recoverable
  /\ old' = old \ Recoverable
  /\ retaken' = retaken \cup (Recoverable \cap UNION {Holding(p) : p \in Processors})
  /\ UNCHANGED <<retry, job, mails, unsure>>

-----------------------------------------------------------------------------
\* What happens to events that are in the inbox.
Process ==
  \/ \E p \in Processors : Claim(p) \/ ClaimLost(p) \/ Work(p) \/ Abandon(p)
  \/ \E e \in Events : BackoffEnds(e) \/ GrowOld(e)
  \/ RecoverProcessing

Next == (\E e \in Events : Save(e)) \/ Process

Spec == Init /\ [][Next]_vars

\* The workers go on, time passes, the recovery ticker fires, and from some time
\* on no answer is lost and no process dies with a batch in its hands.
FaultsEnd ==
  <>[][\A p \in Processors : ~ClaimLost(p) /\ (Abandon(p) => Work(p))]_vars

Fairness ==
  /\ \A p \in Processors : WF_vars(Claim(p)) /\ WF_vars(Work(p))
  /\ \A e \in Events : WF_vars(BackoffEnds(e)) /\ WF_vars(GrowOld(e))
  /\ WF_vars(RecoverProcessing)
  /\ FaultsEnd

FairSpec == Spec /\ Fairness

-----------------------------------------------------------------------------
(* Safety *)

\* However workers that overlap overwrite each other's marks, no event is tried
\* more often than its retries and one attempt of each other worker allow.
RetriesBounded == \A e \in Events : retry[e] <= Top

\* An event is processed only when its mail was sent.
MailedIfProcessed == \A e \in Events : status[e] = "PROCESSED" => mails[e] > 0

\* Two workers have an event in their hands only after it was recovered from the
\* first: FOR UPDATE SKIP LOCKED and the status keep claims apart, nothing else.
SingleHolder ==
  \A p, q \in Processors : p # q => Holding(p) \cap Holding(q) \subseteq retaken

\* A mail is sent twice only when a worker was too slow for the recovery, or when
\* the first time it was sent nobody recorded it.
MailedOnce == \A e \in Events : mails[e] > 1 => e \in retaken \cup unsure

\* Processed and failed events stay so, but for marks of workers whose event was
\* recovered under their hands.
FinalStays ==
  [][\A e \in Events : status[e] \in Final /\ status'[e] # status[e] => e \in retaken]_vars

(* The inductive invariant *)

\* A worker has each event of its batch once, and a mail sent only of one it is at.
ClaimsApart ==
  \A p \in Processors :
    /\ \A c, d \in job[p].todo : c.event = d.event => c = d
    /\ job[p].at # None => \A c \in job[p].todo : c.event # job[p].at.event
    /\ job[p].sent => job[p].at # None /\ mails[job[p].at.event] > 0

\* What a worker has in its hands is being processed, or was taken from it.
HeldOK == \A p \in Processors : \A e \in Holding(p) \ retaken : status[e] = "PROCESSING"

\* A mail that was sent is recorded as sent, or about to be.
MailsOK ==
  \A e \in Events : mails[e] > 0 =>
    \/ e \in retaken \cup unsure \/ status[e] = "PROCESSED"
    \/ \E p \in Processors : job[p].sent /\ job[p].at.event = e

\* Workers that have event e with retries left, as they know them.
Trying(e) ==
  {p \in Processors : \E c \in job[p].todo \cup ({job[p].at} \ {None}) :
                        c.event = e /\ ~GivesUp(c)}

\* Once the retries are used up nobody claims the event with retries left, and each
\* worker that has it so spends one attempt.
AttemptsLeft ==
  \A e \in Events : retry[e] >= MaxRetry => retry[e] + Cardinality(Trying(e)) <= Top

\* What makes the safety properties inductive.
IInv == /\ TypeOK /\ ClaimsApart /\ HeldOK /\ SingleHolder
        /\ MailedIfProcessed /\ MailsOK /\ MailedOnce /\ AttemptsLeft

-----------------------------------------------------------------------------
(* Liveness *)

\* Every event of the inbox is processed or given up, for good: none is left
\* behind in a batch that was abandoned.
EventsEnd == \A e \in Events : <>[](status[e] = "NONE" \/ status[e] \in Final)
=============================================================================
