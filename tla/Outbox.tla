------------------------------- MODULE Outbox -------------------------------
(***************************************************************************)
(* The transactional outbox and its publishers: each API process polls the *)
(* table, leases a batch, publishes it event by event over its channel to  *)
(* RabbitMQ, waiting for each confirmation, and marks what came of it.     *)
(*                                                                         *)
(* Time is abstract: a backoff is over, a lease has run out and a          *)
(* confirmation is late when the environment says so.                      *)
(***************************************************************************)
EXTENDS Integers, FiniteSets, Sequences

CONSTANTS
  Events,       \* outbox rows, numbered by created_at
  Copies,       \* messages consumers publish again over the same channel
  Publishers,   \* running API processes, one publisher worker in each
  Batch,        \* LIMIT of the claim
  MaxRetry,
  MaxLate,      \* bound: messages on a channel whose confirmation was given up
  None

ASSUME OutboxAssumption ==
  /\ Events \subseteq Nat /\ Events \cap Copies = {}
  /\ None \notin Events \cup Copies
  /\ Batch \in Nat \ {0} /\ MaxRetry \in Nat \ {0} /\ MaxLate \in Nat

Messages == Events \cup Copies
Statuses == {"NONE", "PENDING", "PROCESSING", "PUBLISHED", "DEAD"}
Phases   == {"idle", "publish", "confirm", "failed"}
Confirms == [msg : Messages, ack : BOOLEAN]

VARIABLES
  status, retry,   \* outbox.status, outbox.retry_count
  waiting,         \* pending events with next_attempt_at in the future
  leased,          \* events whose locked_at is younger than the lease
  job,             \* what each publisher worker is doing
  sending,         \* the message the holder of publishMu waits a confirmation for
  connected,       \* publishers whose channel is open
  inflight,        \* messages on their way to the broker, per channel
  confirms,        \* confirmations sent back and not read yet, per channel
  delivered,       \* events RabbitMQ has accepted
  shifted,         \* history: publishers that gave up a confirmation on their channel
  overrun,         \* history: events whose lease ran out while a worker had them
  misread          \* history: events judged by another message's confirmation

table   == <<status, retry, waiting, leased>>
channel == <<connected, inflight, confirms>>
history == <<shifted, overrun, misread>>
vars == <<status, retry, waiting, leased, job, sending, connected, inflight,
          confirms, delivered, shifted, overrun, misread>>

Idle == [phase |-> "idle", todo |-> {}, at |-> None, acked |-> {}]

TypeOK ==
  /\ status \in [Events -> Statuses] /\ retry \in [Events -> 0..MaxRetry]
  /\ waiting \subseteq Events /\ leased \subseteq Events
  /\ job \in [Publishers -> [phase : Phases, todo : SUBSET Events,
                             at : Events \cup {None}, acked : SUBSET Events]]
  /\ sending \in [Publishers -> Messages \cup {None}]
  /\ connected \subseteq Publishers
  /\ inflight \in [Publishers -> Seq(Messages)]
  /\ confirms \in [Publishers -> Seq(Confirms)]
  /\ delivered \subseteq Events /\ shifted \subseteq Publishers
  /\ overrun \subseteq Events /\ misread \subseteq Events

\* The events a worker has of its batch.
Held(p) == job[p].todo \cup job[p].acked \cup ({job[p].at} \ {None})

Init ==
  /\ status = [e \in Events |-> "NONE"] /\ retry = [e \in Events |-> 0]
  /\ waiting = {} /\ leased = {}
  /\ job = [p \in Publishers |-> Idle]
  /\ sending = [p \in Publishers |-> None]
  /\ connected = Publishers
  /\ inflight = [p \in Publishers |-> <<>>]
  /\ confirms = [p \in Publishers |-> <<>>]
  /\ delivered = {} /\ shifted = {} /\ overrun = {} /\ misread = {}

-----------------------------------------------------------------------------
(* The table *)

\* A transaction that saves an event commits.
Save(e) ==
  /\ status[e] = "NONE"
  /\ status' = [status EXCEPT ![e] = "PENDING"]
  /\ UNCHANGED <<retry, waiting, leased, job, sending, channel, delivered, history>>

BackoffEnds(e) ==
  /\ e \in waiting
  /\ waiting' = waiting \ {e}
  /\ UNCHANGED <<status, retry, leased, job, sending, channel, delivered, history>>

LeaseEnds(e) ==
  /\ e \in leased
  /\ leased' = leased \ {e}
  /\ overrun' = IF \E p \in Publishers : e \in Held(p) THEN overrun \cup {e} ELSE overrun
  /\ UNCHANGED <<status, retry, waiting, job, sending, channel, delivered, shifted, misread>>

\* mutant: what is being processed is claimed whatever its lease.
ClaimableUnleased == {e \in Events : \/ status[e] = "PENDING" /\ e \notin waiting
                                     \/ status[e] = "PROCESSING"}

\* mutant: abandoned events are not claimed again.
ClaimablePending == {e \in Events : status[e] = "PENDING" /\ e \notin waiting}

Claimable == {e \in Events : \/ status[e] = "PENDING" /\ e \notin waiting
                             \/ status[e] = "PROCESSING" /\ e \notin leased}

\* ORDER BY created_at LIMIT Batch.
Oldest(S) == {e \in S : Cardinality({d \in S : d < e}) < Batch}

\* FindUnpublishedAndMarkProcessing.
MarkProcessing(S) ==
  /\ S # {}
  /\ status' = [e \in Events |-> IF e \in S THEN "PROCESSING" ELSE status[e]]
  /\ leased' = leased \cup S
  /\ UNCHANGED <<retry, waiting, sending, channel, delivered, history>>

Claim(p) ==
  /\ job[p].phase = "idle"
  /\ MarkProcessing(Oldest(Claimable))
  /\ job' = [job EXCEPT ![p] = [Idle EXCEPT !.phase = "publish", !.todo = Oldest(Claimable)]]

\* The claim is committed and its answer lost: nobody has the events.
ClaimLost(p) ==
  /\ job[p].phase = "idle"
  /\ MarkProcessing(Oldest(Claimable))
  /\ UNCHANGED job

-----------------------------------------------------------------------------
(* Publish: one message at a time, under publishMu *)

\* mutant: publishMu is not taken.
TransmitUnlocked(p, m) ==
  /\ p \in connected
  /\ inflight' = [inflight EXCEPT ![p] = Append(@, m)]
  /\ sending' = [sending EXCEPT ![p] = m]
  /\ UNCHANGED <<connected, confirms>>

Transmit(p, m) ==
  /\ sending[p] = None /\ p \in connected
  /\ inflight' = [inflight EXCEPT ![p] = Append(@, m)]
  /\ sending' = [sending EXCEPT ![p] = m]
  /\ UNCHANGED <<connected, confirms>>

Publish(p, e) ==
  /\ job[p].phase = "publish" /\ e \in job[p].todo
  /\ Transmit(p, e)
  /\ job' = [job EXCEPT ![p].phase = "confirm", ![p].todo = @ \ {e}, ![p].at = e]
  /\ UNCHANGED <<table, delivered, history>>

\* The channel is closed, and nothing opens it again.
PublishFails(p, e) ==
  /\ job[p].phase = "publish" /\ e \in job[p].todo
  /\ sending[p] = None /\ p \notin connected
  /\ job' = [job EXCEPT ![p].phase = "failed", ![p].todo = @ \ {e}, ![p].at = e]
  /\ UNCHANGED <<table, sending, channel, delivered, history>>

\* The worker stops waiting: the event joins the acknowledged ones or failed.
Acked(j)  == [j EXCEPT !.phase = "publish", !.acked = @ \cup {j.at}, !.at = None]
Failed(j) == [j EXCEPT !.phase = "failed"]

\* mutant: a negative confirmation is taken for a positive one.
VerdictAlwaysAck(j, ack) == Acked(j)

Verdict(j, ack) == IF ack THEN Acked(j) ELSE Failed(j)

\* The next confirmation in the channel is taken for the message's own.
ReadConfirm(p) ==
  LET c == Head(confirms[p]) IN
  /\ sending[p] # None /\ confirms[p] # <<>>
  /\ confirms' = [confirms EXCEPT ![p] = Tail(@)]
  /\ sending' = [sending EXCEPT ![p] = None]
  /\ IF sending[p] \in Copies
     THEN UNCHANGED <<job, misread>>
     ELSE /\ job' = [job EXCEPT ![p] = Verdict(@, c.ack)]
          /\ misread' = IF c.msg = sending[p] THEN misread ELSE misread \cup {sending[p]}
  /\ UNCHANGED <<table, connected, inflight, delivered, shifted, overrun>>

\* No confirmation will come to the waiting publisher ...
GiveUp(p) ==
  /\ sending[p] # None
  /\ sending' = [sending EXCEPT ![p] = None]
  /\ job' = IF sending[p] \in Copies THEN job ELSE [job EXCEPT ![p] = Failed(@)]
  /\ UNCHANGED <<table, channel, delivered, overrun, misread>>

\* ... for five seconds: it stays in the channel for whoever publishes next ...
ConfirmTimeout(p) ==
  /\ Len(inflight[p]) + Len(confirms[p]) <= MaxLate
  /\ shifted' = shifted \cup {p}
  /\ GiveUp(p)

\* ... or at all: the channel is closed.
ConfirmClosed(p) == p \notin connected /\ confirms[p] = <<>> /\ GiveUp(p) /\ UNCHANGED shifted

\* A consumer whose handler failed publishes the event again.
PublishCopy(p, c) ==
  /\ Transmit(p, c)
  /\ UNCHANGED <<table, job, delivered, history>>

-----------------------------------------------------------------------------
(* Marking *)

\* The worker is through with the event it was at.
NextEvent(p) == job' = [job EXCEPT ![p].phase = "publish", ![p].at = None]

\* mutant: the update without AND status = 'PROCESSING'.
MarkPublishFailedAnyStatus(p) ==
  LET e    == job[p].at
      dead == retry[e] + 1 >= MaxRetry IN
  /\ job[p].phase = "failed"
  /\ status' = [status EXCEPT ![e] = IF dead THEN "DEAD" ELSE "PENDING"]
  /\ retry' = [retry EXCEPT ![e] = @ + 1]
  /\ waiting' = IF dead THEN waiting ELSE waiting \cup {e}
  /\ leased' = leased \ {e}
  /\ NextEvent(p)
  /\ UNCHANGED <<sending, channel, delivered, history>>

MarkPublishFailed(p) ==
  LET e    == job[p].at
      dead == retry[e] + 1 >= MaxRetry IN
  /\ job[p].phase = "failed"
  /\ IF status[e] = "PROCESSING"
     THEN /\ status' = [status EXCEPT ![e] = IF dead THEN "DEAD" ELSE "PENDING"]
          /\ retry' = [retry EXCEPT ![e] = @ + 1]
          /\ waiting' = IF dead THEN waiting ELSE waiting \cup {e}
          /\ leased' = leased \ {e}
     ELSE UNCHANGED table
  /\ NextEvent(p)
  /\ UNCHANGED <<sending, channel, delivered, history>>

\* A marking update fails itself: that is logged, and the worker goes on.
MarkFails(p) ==
  /\ \/ job[p].phase = "failed" /\ NextEvent(p)
     \/ /\ job[p].phase = "publish" /\ job[p].todo = {}
        /\ job' = [job EXCEPT ![p] = Idle]
  /\ UNCHANGED <<table, sending, channel, delivered, history>>

\* The batch is through: all that was acknowledged is marked in one statement.
MarkPublished(p) ==
  LET S == {e \in job[p].acked : status[e] = "PROCESSING"} IN
  /\ job[p].phase = "publish" /\ job[p].todo = {}
  /\ status' = [e \in Events |-> IF e \in S THEN "PUBLISHED" ELSE status[e]]
  /\ leased' = leased \ S
  /\ job' = [job EXCEPT ![p] = Idle]
  /\ UNCHANGED <<retry, waiting, sending, channel, delivered, history>>

-----------------------------------------------------------------------------
(* RabbitMQ, and what goes wrong *)

\* The broker takes the next message, or refuses it, and says so.
Settle(p, ack) ==
  /\ inflight[p] # <<>>
  /\ inflight' = [inflight EXCEPT ![p] = Tail(@)]
  /\ confirms' = [confirms EXCEPT ![p] = Append(@, [msg |-> Head(inflight[p]), ack |-> ack])]
  /\ delivered' = IF ack /\ Head(inflight[p]) \in Events
                  THEN delivered \cup {Head(inflight[p])} ELSE delivered
  /\ UNCHANGED <<table, job, sending, connected, history>>

\* What has not reached the other side is lost.
ConnectionLost(p) ==
  /\ p \in connected
  /\ connected' = connected \ {p}
  /\ inflight' = [inflight EXCEPT ![p] = <<>>]
  /\ UNCHANGED <<table, job, sending, confirms, delivered, history>>

\* The process dies, at any step, and starts again with a new channel.
Crash(p) ==
  /\ job' = [job EXCEPT ![p] = Idle]
  /\ sending' = [sending EXCEPT ![p] = None]
  /\ connected' = connected \cup {p}
  /\ inflight' = [inflight EXCEPT ![p] = <<>>]
  /\ confirms' = [confirms EXCEPT ![p] = <<>>]
  /\ shifted' = shifted \ {p}
  /\ UNCHANGED <<table, delivered, overrun, misread>>

-----------------------------------------------------------------------------
\* What a worker does next with its batch.
Work(p) ==
  \/ \E e \in Events : Publish(p, e) \/ PublishFails(p, e)
  \/ ReadConfirm(p) \/ ConfirmClosed(p)
  \/ MarkPublishFailed(p) \/ MarkPublished(p)

Fault(p) == ClaimLost(p) \/ MarkFails(p) \/ ConnectionLost(p) \/ Crash(p)

Next ==
  \/ \E p \in Publishers :
       \/ Claim(p) \/ Work(p) \/ Fault(p) \/ ConfirmTimeout(p)
       \/ \E c \in Copies : PublishCopy(p, c)
       \/ \E ack \in BOOLEAN : Settle(p, ack)
  \/ \E e \in Events : Save(e) \/ BackoffEnds(e) \/ LeaseEnds(e)

Spec == Init /\ [][Next]_vars

\* The ticker fires, a step begun is finished, publishMu is handed to whoever waits
\* for it, time passes, the broker answers, and from some time on nothing breaks.
FaultsEnd == <>[][\A p \in Publishers : Fault(p) => Work(p)]_vars

Fairness ==
  /\ \A p \in Publishers :
       /\ WF_vars(Claim(p)) /\ WF_vars(Work(p)) /\ SF_vars(Work(p) /\ job' # job)
       /\ WF_vars(\E ack \in BOOLEAN : Settle(p, ack))
  /\ \A e \in Events : WF_vars(BackoffEnds(e)) /\ WF_vars(LeaseEnds(e))
  /\ FaultsEnd

FairSpec == Spec /\ Fairness

-----------------------------------------------------------------------------
(* Safety *)

\* While no confirmation was ever given up on a channel, all there is in it is
\* the message the holder of publishMu waits for: publisher and consumers share
\* one channel and never read each other's confirmations.
AnswersMatch ==
  \A p \in Publishers \cap connected :
    LET pending == inflight[p] \o [i \in DOMAIN confirms[p] |-> confirms[p][i].msg] IN
    IF sending[p] = None THEN pending = <<>> \/ p \in shifted
    ELSE pending = <<sending[p]>> \/ p \in shifted

\* An event marked published was accepted by RabbitMQ, unless a confirmation that
\* came too late was taken for its own.
PublishedDelivered ==
  \A e \in Events : status[e] = "PUBLISHED" => e \in delivered \/ e \in misread

\* Two workers never work on an event at the same time unless its lease ran out.
SingleSender ==
  \A p, q \in Publishers : p # q =>
    (job[p].todo \cup {job[p].at}) \cap (job[q].todo \cup {job[q].at})
      \subseteq overrun \cup {None}

(* The inductive invariant *)

\* The phase of a worker, the event it is at and the message its channel waits for
\* belong together; it has an event of its batch in one place.
JobsOK ==
  \A p \in Publishers :
    /\ job[p].phase = "idle" => job[p] = Idle
    /\ job[p].at # None <=> job[p].phase \in {"confirm", "failed"}
    /\ sending[p] \in Events <=> job[p].phase = "confirm"
    /\ sending[p] \in Events => sending[p] = job[p].at
    /\ job[p].todo \cap job[p].acked = {} /\ job[p].at \notin job[p].todo \cup job[p].acked

\* What a worker has is leased and being processed, unless the lease ran out ...
HeldOK ==
  \A p \in Publishers : \A e \in Held(p) \ overrun : status[e] = "PROCESSING" /\ e \in leased

\* ... and then only may another worker have it, too.
HeldApart == \A p, q \in Publishers : p # q => Held(p) \cap Held(q) \subseteq overrun

\* Only what was saved is claimed and sent.
SavedFirst ==
  \A p \in Publishers : \A e \in Events :
    e \in Held(p) \/ (\E i \in DOMAIN inflight[p] : inflight[p][i] = e) => status[e] # "NONE"

\* Nobody takes an event for acknowledged that the broker has not accepted, but
\* by another message's confirmation.
AcksTrue ==
  \A p \in Publishers :
    /\ job[p].acked \subseteq delivered \cup misread
    /\ \A i \in DOMAIN confirms[p] :
         LET c == confirms[p][i] IN c.ack /\ c.msg \in Events => c.msg \in delivered

RetriesLeft == \A e \in Events : status[e] # "DEAD" => retry[e] < MaxRetry

IInv == /\ TypeOK /\ JobsOK /\ HeldOK /\ HeldApart /\ SavedFirst /\ AcksTrue
        /\ RetriesLeft /\ AnswersMatch /\ PublishedDelivered

\* The outbox keeps the promise of Delivery.
State == [e \in Events |-> CASE status[e] = "NONE"      -> "none"
                             [] status[e] = "PUBLISHED" -> "published"
                             [] status[e] = "DEAD"      -> "dead"
                             [] OTHER                   -> "saved"]

Promise == INSTANCE Delivery WITH state <- State, sent <- delivered
Delivers == Promise!Spec
=============================================================================
