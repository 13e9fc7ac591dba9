---------------------------- MODULE OutboxProofs ----------------------------
(* Safety of Outbox for any events, publishers and messages of consumers, any *)
(* batch size, any retry limit and any number of late confirmations.          *)
EXTENDS Outbox, SequenceTheorems, TLAPS

Jobs == [phase : Phases, todo : SUBSET Events, at : Events \cup {None}, acked : SUBSET Events]

(* Channels *)

\* Nothing is on its way, neither message nor confirmation.
Quiet(s, c) == s = <<>> /\ c = <<>>

\* All that is on its way is m, or its confirmation.
Only(s, c, m) ==
  \/ s = <<m>> /\ c = <<>>
  \/ s = <<>> /\ Len(c) = 1 /\ c[1].msg = m

ChannelOK(p) ==
  p \in shifted \/ IF sending[p] = None THEN Quiet(inflight[p], confirms[p])
                   ELSE Only(inflight[p], confirms[p], sending[p])

LEMMA Pending ==
  ASSUME NEW s \in Seq(Messages), NEW c \in Seq(Confirms)
  PROVE  LET pending == s \o [i \in DOMAIN c |-> c[i].msg] IN
         /\ pending = <<>> <=> Quiet(s, c)
         /\ \A m \in Messages : pending = <<m>> <=> Only(s, c, m)
<1> DEFINE d == [i \in DOMAIN c |-> c[i].msg]
<1>1. \A i \in DOMAIN c : c[i] \in Confirms
  BY ElementOfSeq, LenProperties
<1>2. d \in Seq(Messages) /\ Len(d) = Len(c) /\ \A i \in 1..Len(c) : d[i] = c[i].msg
  BY <1>1 DEF Confirms
<1>3. /\ s \o d \in Seq(Messages) /\ Len(s \o d) = Len(s) + Len(c)
      /\ \A i \in 1..Len(s) : (s \o d)[i] = s[i]
      /\ \A i \in Len(s)+1..Len(s)+Len(c) : (s \o d)[i] = c[i - Len(s)].msg
  BY <1>2, ConcatProperties
<1>4. Len(s) \in Nat /\ Len(c) \in Nat /\ (s = <<>> <=> Len(s) = 0) /\ (c = <<>> <=> Len(c) = 0)
  BY LenProperties, EmptySeq
<1>5. s \o d = <<>> <=> Quiet(s, c)
  BY <1>3, <1>4, EmptySeq DEF Quiet
<1>6. \A t \in Seq(Messages) : \A m \in Messages : t = <<m>> <=> Len(t) = 1 /\ t[1] = m
  BY SeqEqual
<1>7. ASSUME NEW m \in Messages PROVE s \o d = <<m>> <=> Only(s, c, m)
  <2>1. s \o d = <<m>> <=> Len(s) + Len(c) = 1 /\ (s \o d)[1] = m
    BY <1>3, <1>6
  <2>2. CASE Len(s) = 1 /\ Len(c) = 0
    BY <1>3, <1>4, <1>6, <2>1, <2>2 DEF Only
  <2>3. CASE Len(s) = 0 /\ Len(c) = 1
    BY <1>3, <1>4, <2>1, <2>3 DEF Only
  <2>4. CASE Len(s) + Len(c) # 1
    BY <1>4, <1>6, <2>1, <2>4 DEF Only
  <2>5. \/ Len(s) = 1 /\ Len(c) = 0
        \/ Len(s) = 0 /\ Len(c) = 1
        \/ Len(s) + Len(c) # 1
    <3>1. \A a, b \in Nat : (a = 1 /\ b = 0) \/ (a = 0 /\ b = 1) \/ a + b # 1
      OBVIOUS
    <3>2. QED
      BY <1>4, <3>1, Zenon
  <2>6. QED
    BY <2>2, <2>3, <2>4, <2>5
<1>8. QED
  BY <1>5, <1>7

LEMMA MessagesType == None \notin Messages /\ Events \subseteq Messages /\ Copies \subseteq Messages
BY OutboxAssumption DEF Messages

LEMMA ChannelTypes ==
  ASSUME TypeOK, NEW p \in Publishers
  PROVE  /\ inflight[p] \in Seq(Messages) /\ confirms[p] \in Seq(Confirms)
         /\ sending[p] # None => sending[p] \in Messages
BY DEF TypeOK

LEMMA AnswersMatchIff ==
  ASSUME TypeOK
  PROVE  AnswersMatch <=> \A p \in Publishers \cap connected : ChannelOK(p)
<1>1. \A p \in Publishers : /\ inflight[p] \in Seq(Messages) /\ confirms[p] \in Seq(Confirms)
                            /\ sending[p] # None => sending[p] \in Messages
  BY ChannelTypes
<1>2. QED
  BY <1>1, Pending DEF AnswersMatch, ChannelOK

LEMMA AnswersMatchIffNext ==
  ASSUME TypeOK'
  PROVE  AnswersMatch' <=> (\A p \in Publishers \cap connected : ChannelOK(p))'
<1>1. \A p \in Publishers : /\ inflight'[p] \in Seq(Messages) /\ confirms'[p] \in Seq(Confirms)
                            /\ sending'[p] # None => sending'[p] \in Messages
  BY DEF TypeOK
<1>2. QED
  BY <1>1, Pending DEF AnswersMatch, ChannelOK

-----------------------------------------------------------------------------
(* Jobs *)

LEMMA JobTypes ==
  ASSUME TypeOK
  PROVE  /\ job \in [Publishers -> Jobs]
         /\ \A p \in Publishers : job[p] \in Jobs /\ Held(p) \subseteq Events
BY DEF TypeOK, Jobs, Held

LEMMA HeldDef ==
  ASSUME NEW p
  PROVE  /\ \A e : e \in Held(p) <=>
                \/ e \in job[p].todo \/ e \in job[p].acked
                \/ e = job[p].at /\ e # None
         /\ \A e : e \in Held(p)' <=>
                \/ e \in job'[p].todo \/ e \in job'[p].acked
                \/ e = job'[p].at /\ e # None
BY DEF Held

LEMMA IdleJob == Idle \in Jobs
BY DEF Idle, Jobs, Phases

\* One worker goes on.
LEMMA JobStep ==
  ASSUME TypeOK, NEW p \in Publishers, NEW j \in Jobs, job' = [job EXCEPT ![p] = j]
  PROVE  /\ job' \in [Publishers -> Jobs] /\ job'[p] = j
         /\ \A q \in Publishers \ {p} : job'[q] = job[q] /\ Held(q)' = Held(q)
BY JobTypes DEF Held

\* A worker keeps no event but those it had, and those not overrun are as they were.
LEMMA HeldStep ==
  ASSUME IInv, \A p \in Publishers : Held(p)' \subseteq Held(p), overrun \subseteq overrun',
         \A p \in Publishers : \A e \in Held(p)' \ overrun' :
           status'[e] = status[e] /\ e \in leased'
  PROVE  HeldOK' /\ HeldApart'
BY DEF IInv, HeldOK, HeldApart

\* Nothing happens to the table.
LEMMA TableStep ==
  ASSUME IInv, UNCHANGED <<status, retry>>, delivered \subseteq delivered', misread \subseteq misread'
  PROVE  RetriesLeft' /\ PublishedDelivered'
BY DEF IInv, RetriesLeft, PublishedDelivered

\* Nothing happens on the channels.
LEMMA ChannelStep ==
  ASSUME IInv, TypeOK', UNCHANGED <<sending, connected, inflight, confirms, shifted>>
  PROVE  AnswersMatch'
BY AnswersMatchIff, AnswersMatchIffNext DEF IInv, ChannelOK

-----------------------------------------------------------------------------
(* The table *)

LEMMA SaveStep ==
  ASSUME IInv, NEW e \in Events, Save(e)
  PROVE  IInv'
<1>1. /\ status' = [status EXCEPT ![e] = "PENDING"] /\ status[e] = "NONE"
      /\ UNCHANGED <<retry, waiting, leased, job, sending, connected, inflight, confirms,
                    delivered, shifted, overrun, misread>>
  BY DEF Save, channel, history
<1>2. TypeOK'
  BY <1>1 DEF IInv, TypeOK, Statuses
<1>3. \A d \in Events : status'[d] = IF d = e THEN "PENDING" ELSE status[d]
  BY <1>1 DEF IInv, TypeOK
<1>4. \A p \in Publishers : Held(p)' = Held(p) /\ e \notin Held(p) /\ Held(p) \subseteq Events
  BY <1>1, JobTypes DEF Held, IInv, SavedFirst
<1>5. JobsOK'
  BY <1>1 DEF IInv, JobsOK
<1>6. HeldOK' /\ HeldApart'
  BY <1>1, <1>3, <1>4 DEF IInv, HeldOK, HeldApart
<1>7. SavedFirst'
  BY <1>1, <1>3, <1>4 DEF IInv, SavedFirst
<1>8. AcksTrue'
  BY <1>1 DEF IInv, AcksTrue
<1>9. RetriesLeft' /\ PublishedDelivered'
  BY <1>1, <1>3 DEF IInv, RetriesLeft, PublishedDelivered
<1>10. QED
  BY <1>1, <1>2, <1>5, <1>6, <1>7, <1>8, <1>9, ChannelStep DEF IInv

LEMMA BackoffEndsStep ==
  ASSUME IInv, NEW e \in Events, BackoffEnds(e)
  PROVE  IInv'
<1>1. /\ waiting' \subseteq waiting
      /\ UNCHANGED <<status, retry, leased, job, sending, connected, inflight, confirms,
                    delivered, shifted, overrun, misread>>
  BY DEF BackoffEnds, channel, history
<1>2. TypeOK'
  BY <1>1 DEF IInv, TypeOK
<1>3. \A p \in Publishers : Held(p)' = Held(p)
  BY <1>1 DEF Held
<1>4. JobsOK' /\ HeldOK' /\ HeldApart' /\ SavedFirst' /\ AcksTrue'
  BY <1>1, <1>3 DEF IInv, JobsOK, HeldOK, HeldApart, SavedFirst, AcksTrue
<1>5. QED
  BY <1>1, <1>2, <1>4, TableStep, ChannelStep DEF IInv

LEMMA LeaseEndsStep ==
  ASSUME IInv, NEW e \in Events, LeaseEnds(e)
  PROVE  IInv'
<1>1. /\ leased' = leased \ {e}
      /\ overrun \subseteq overrun' /\ overrun' \subseteq overrun \cup {e}
      /\ (\E p \in Publishers : e \in Held(p)) => e \in overrun'
      /\ UNCHANGED <<status, retry, waiting, job, sending, connected, inflight, confirms,
                    delivered, shifted, misread>>
  BY DEF LeaseEnds, channel
<1>2. TypeOK'
  BY <1>1 DEF IInv, TypeOK
<1>3. \A p \in Publishers : Held(p)' = Held(p)
  BY <1>1 DEF Held
<1>4. JobsOK' /\ SavedFirst' /\ AcksTrue'
  BY <1>1, <1>3 DEF IInv, JobsOK, SavedFirst, AcksTrue
<1>5. HeldOK' /\ HeldApart'
  BY <1>1, <1>3, HeldStep DEF IInv, HeldOK
<1>6. QED
  BY <1>1, <1>2, <1>4, <1>5, TableStep, ChannelStep DEF IInv

\* A claim, whether its answer arrives or not. Nobody has what is claimed, but
\* for events whose lease ran out.
LEMMA ClaimedTable ==
  ASSUME IInv, MarkProcessing(Oldest(Claimable))
  PROVE  LET S == Oldest(Claimable) IN
         /\ S \subseteq Events
         /\ \A p \in Publishers : Held(p) \cap S \subseteq overrun
         /\ \A e \in S : status[e] \in {"PENDING", "PROCESSING"}
         /\ status' \in [Events -> Statuses] /\ leased' = leased \cup S
         /\ \A e \in Events : status'[e] = IF e \in S THEN "PROCESSING" ELSE status[e]
         /\ UNCHANGED <<retry, waiting, sending, connected, inflight, confirms,
                        delivered, shifted, overrun, misread>>
<1> DEFINE S == Oldest(Claimable)
<1>1. S \subseteq Claimable /\ Claimable \subseteq Events
  BY DEF Oldest, Claimable
<1>2. \A e \in S : status[e] \in {"PENDING", "PROCESSING"} /\ (status[e] = "PENDING" \/ e \notin leased)
  BY <1>1 DEF Claimable
<1>3. \A p \in Publishers : Held(p) \cap S \subseteq overrun
  BY <1>2 DEF IInv, HeldOK
<1>4. QED
  BY <1>1, <1>2, <1>3 DEF MarkProcessing, channel, history, IInv, TypeOK, Statuses

\* What a claim does to all but the claimant's own job.
LEMMA ClaimedInv ==
  ASSUME IInv, MarkProcessing(Oldest(Claimable)),
         job' \in [Publishers -> Jobs]
  PROVE  TypeOK' /\ RetriesLeft' /\ AnswersMatch' /\ PublishedDelivered'
<1> DEFINE S == Oldest(Claimable)
<1>1. /\ S \subseteq Events
      /\ \A e \in S : status[e] \in {"PENDING", "PROCESSING"}
      /\ status' \in [Events -> Statuses] /\ leased' = leased \cup S
      /\ \A e \in Events : status'[e] = IF e \in S THEN "PROCESSING" ELSE status[e]
      /\ UNCHANGED <<retry, waiting, sending, connected, inflight, confirms,
                     delivered, shifted, overrun, misread>>
  BY ClaimedTable
<1> HIDE DEF S
<1>2. TypeOK'
  BY <1>1 DEF IInv, TypeOK, Jobs
<1>3. RetriesLeft' /\ PublishedDelivered'
  BY <1>1 DEF IInv, RetriesLeft, PublishedDelivered
<1>4. QED
  BY <1>1, <1>2, <1>3, ChannelStep

LEMMA ClaimStep ==
  ASSUME IInv, NEW p \in Publishers, Claim(p)
  PROVE  IInv'
<1> DEFINE S == Oldest(Claimable)
           j == [Idle EXCEPT !.phase = "publish", !.todo = S]
<1>1. /\ S \subseteq Events
      /\ \A q \in Publishers : Held(q) \cap S \subseteq overrun
      /\ \A e \in S : status[e] \in {"PENDING", "PROCESSING"}
      /\ leased' = leased \cup S
      /\ \A e \in Events : status'[e] = IF e \in S THEN "PROCESSING" ELSE status[e]
      /\ UNCHANGED <<sending, connected, inflight, confirms, delivered, shifted, overrun, misread>>
  BY ClaimedTable DEF Claim
<1>2. job' = [job EXCEPT ![p] = j] /\ job[p].phase = "idle" /\ MarkProcessing(S)
  BY DEF Claim
<1> HIDE DEF S
<1>3. /\ j \in Jobs /\ j.phase = "publish" /\ j.todo = S /\ j.at = None /\ j.acked = {}
  BY <1>1 DEF Idle, Jobs, Phases
<1>4. /\ job' \in [Publishers -> Jobs] /\ job'[p] = j
      /\ \A q \in Publishers \ {p} : job'[q] = job[q] /\ Held(q)' = Held(q)
  BY <1>2, <1>3, JobStep DEF IInv
<1> HIDE DEF j
<1>5. Held(p)' = S /\ \A q \in Publishers : Held(q) \subseteq Events
  BY <1>3, <1>4, JobTypes DEF Held, IInv
<1>6. JobsOK'
  <2>1. sending[p] \notin Events
    BY <1>2 DEF IInv, JobsOK
  <2>2. QED
    BY <1>1, <1>3, <1>4, <2>1, OutboxAssumption DEF IInv, JobsOK
<1>7. HeldOK'
  BY <1>1, <1>4, <1>5 DEF IInv, HeldOK
<1>8. HeldApart'
  BY <1>1, <1>4, <1>5 DEF IInv, HeldApart
<1>9. SavedFirst'
  BY <1>1, <1>4, <1>5 DEF IInv, SavedFirst
<1>10. AcksTrue'
  BY <1>1, <1>3, <1>4 DEF IInv, AcksTrue
<1>11. TypeOK' /\ RetriesLeft' /\ AnswersMatch' /\ PublishedDelivered'
  BY <1>2, <1>4, ClaimedInv DEF S
<1>12. QED
  BY <1>6, <1>7, <1>8, <1>9, <1>10, <1>11 DEF IInv

LEMMA ClaimLostStep ==
  ASSUME IInv, NEW p \in Publishers, ClaimLost(p)
  PROVE  IInv'
<1> DEFINE S == Oldest(Claimable)
<1>1. /\ leased' = leased \cup S
      /\ \A e \in Events : status'[e] = IF e \in S THEN "PROCESSING" ELSE status[e]
      /\ UNCHANGED <<job, sending, connected, inflight, confirms, delivered, shifted, overrun, misread>>
  BY ClaimedTable DEF ClaimLost
<1> HIDE DEF S
<1>2. \A q \in Publishers : Held(q)' = Held(q) /\ Held(q) \subseteq Events
  BY <1>1, JobTypes DEF Held, IInv
<1>3. JobsOK' /\ SavedFirst' /\ AcksTrue'
  BY <1>1, <1>2 DEF IInv, JobsOK, SavedFirst, AcksTrue
<1>4. HeldOK' /\ HeldApart'
  BY <1>1, <1>2 DEF IInv, HeldOK, HeldApart
<1>5. TypeOK' /\ RetriesLeft' /\ AnswersMatch' /\ PublishedDelivered'
  BY <1>1, JobTypes, ClaimedInv DEF ClaimLost, IInv
<1>6. QED
  BY <1>3, <1>4, <1>5 DEF IInv

-----------------------------------------------------------------------------
(* Publishing *)

\* A message is put on a channel nobody waits on.
LEMMA TransmitChannel ==
  ASSUME IInv, NEW p \in Publishers, NEW m \in Messages, Transmit(p, m)
  PROVE  /\ inflight' \in [Publishers -> Seq(Messages)] /\ sending' \in [Publishers -> Messages \cup {None}]
         /\ sending[p] = None /\ sending'[p] = m /\ inflight'[p] = Append(inflight[p], m)
         /\ \A q \in Publishers \ {p} : sending'[q] = sending[q] /\ inflight'[q] = inflight[q]
         /\ \A q \in Publishers : \A i \in DOMAIN inflight'[q] :
              inflight'[q][i] = m \/ \E k \in DOMAIN inflight[q] : inflight'[q][i] = inflight[q][k]
         /\ UNCHANGED <<connected, confirms>> /\ p \in connected
<1>1. /\ inflight \in [Publishers -> Seq(Messages)] /\ sending \in [Publishers -> Messages \cup {None}]
      /\ inflight[p] \in Seq(Messages)
  BY DEF IInv, TypeOK
<1>2. /\ Append(inflight[p], m) \in Seq(Messages)
      /\ \A i \in DOMAIN Append(inflight[p], m) :
           \/ Append(inflight[p], m)[i] = m
           \/ i \in DOMAIN inflight[p] /\ Append(inflight[p], m)[i] = inflight[p][i]
  BY <1>1
<1>3. /\ inflight' = [inflight EXCEPT ![p] = Append(inflight[p], m)]
      /\ sending' = [sending EXCEPT ![p] = m]
  BY DEF Transmit
<1>4. /\ inflight'[p] = Append(inflight[p], m)
      /\ \A q \in Publishers \ {p} : inflight'[q] = inflight[q]
  BY <1>1, <1>3
<1>5. \A q \in Publishers : \A i \in DOMAIN inflight'[q] :
        inflight'[q][i] = m \/ \E k \in DOMAIN inflight[q] : inflight'[q][i] = inflight[q][k]
  BY <1>2, <1>4
<1>6. QED
  BY <1>1, <1>2, <1>3, <1>4, <1>5 DEF Transmit

LEMMA TransmitAnswers ==
  ASSUME IInv, TypeOK', NEW p \in Publishers, NEW m \in Messages, Transmit(p, m),
         shifted' = shifted
  PROVE  AnswersMatch'
<1>1. /\ sending[p] = None /\ sending'[p] = m /\ inflight'[p] = Append(inflight[p], m)
      /\ \A q \in Publishers \ {p} : sending'[q] = sending[q] /\ inflight'[q] = inflight[q]
      /\ UNCHANGED <<connected, confirms>> /\ p \in connected
  BY TransmitChannel
<1>2. \A q \in Publishers \cap connected : ChannelOK(q)
  BY AnswersMatchIff DEF IInv
<1>3. \A q \in (Publishers \cap connected) \ {p} : ChannelOK(q)'
  BY <1>1, <1>2 DEF ChannelOK
<1>4. ChannelOK(p)'
  <2>1. Append(<<>>, m) = <<m>>
    OBVIOUS
  <2>2. p \in shifted \/ Quiet(inflight[p], confirms[p])
    BY <1>1, <1>2 DEF ChannelOK
  <2>3. p \in shifted' \/ Only(inflight'[p], confirms'[p], m)
    BY <1>1, <2>1, <2>2 DEF Quiet, Only
  <2>4. QED
    BY <1>1, <2>3, MessagesType DEF ChannelOK
<1>5. QED
  BY <1>1, <1>3, <1>4, AnswersMatchIffNext

\* A worker takes an event of its batch up, whether it gets it onto the channel or not.
LEMMA TakeUp ==
  ASSUME IInv, NEW p \in Publishers, NEW e \in job[p].todo, NEW f \in {"confirm", "failed"},
         job[p].phase = "publish",
         job' = [job EXCEPT ![p].phase = f, ![p].todo = @ \ {e}, ![p].at = e]
  PROVE  /\ job' \in [Publishers -> Jobs] /\ \A q \in Publishers : Held(q)' = Held(q)
         /\ \A q \in Publishers \ {p} : job'[q] = job[q]
         /\ job'[p].phase = f /\ job'[p].at = e /\ job'[p].acked = job[p].acked
         /\ job'[p].todo = job[p].todo \ {e} /\ e \in Events /\ e \notin job[p].acked /\ e \in Held(p)
<1> DEFINE j == [job[p] EXCEPT !.phase = f, !.todo = job[p].todo \ {e}, !.at = e]
<1>1. job[p] \in Jobs /\ Held(p) \subseteq Events
  BY JobTypes DEF IInv
<1>2. e \in Events /\ e # None /\ e \notin job[p].acked /\ job[p].at = None /\ e \in Held(p)
  BY <1>1, OutboxAssumption DEF IInv, JobsOK, Jobs, Held
<1>3. /\ j \in Jobs /\ j.phase = f /\ j.at = e /\ j.acked = job[p].acked
      /\ j.todo = job[p].todo \ {e}
  BY <1>1, <1>2 DEF Jobs, Phases
<1>4. job' = [job EXCEPT ![p] = j]
  OBVIOUS
<1> HIDE DEF j
<1>5. /\ job' \in [Publishers -> Jobs] /\ job'[p] = j
      /\ \A q \in Publishers \ {p} : job'[q] = job[q] /\ Held(q)' = Held(q)
  BY <1>3, <1>4, JobStep DEF IInv
<1>6. Held(p)' = Held(p)
  BY <1>2, <1>3, <1>5 DEF Held
<1>7. QED
  BY <1>2, <1>3, <1>5, <1>6

LEMMA PublishStep ==
  ASSUME IInv, NEW p \in Publishers, NEW e \in Events, Publish(p, e)
  PROVE  IInv'
<1>1. /\ job' \in [Publishers -> Jobs] /\ \A q \in Publishers : Held(q)' = Held(q)
      /\ \A q \in Publishers \ {p} : job'[q] = job[q]
      /\ job'[p].phase = "confirm" /\ job'[p].at = e /\ job'[p].acked = job[p].acked
      /\ job'[p].todo = job[p].todo \ {e} /\ e \notin job[p].acked /\ e \in Held(p)
  BY TakeUp DEF Publish
<1>2. /\ inflight' \in [Publishers -> Seq(Messages)] /\ sending' \in [Publishers -> Messages \cup {None}]
      /\ sending'[p] = e /\ \A q \in Publishers \ {p} : sending'[q] = sending[q]
      /\ \A q \in Publishers : \A i \in DOMAIN inflight'[q] :
           inflight'[q][i] = e \/ \E k \in DOMAIN inflight[q] : inflight'[q][i] = inflight[q][k]
      /\ UNCHANGED <<connected, confirms>>
  BY TransmitChannel, MessagesType DEF Publish
<1>3. UNCHANGED <<status, retry, waiting, leased, delivered, shifted, overrun, misread>>
  BY DEF Publish, table, history
<1>4. TypeOK'
  BY <1>1, <1>2, <1>3 DEF IInv, TypeOK, Jobs
<1>5. JobsOK'
  <2>1. job[p].todo \cap job[p].acked = {} /\ e # None
    BY OutboxAssumption DEF IInv, JobsOK
  <2>2. \A q \in Publishers \ {p} : job'[q] = job[q] /\ sending'[q] = sending[q]
    BY <1>1, <1>2
  <2>3. job'[p].todo \cap job'[p].acked = {} /\ job'[p].at \notin job'[p].todo \cup job'[p].acked
    BY <1>1, <2>1
  <2>4. /\ job'[p].phase = "confirm" /\ job'[p].at = e /\ job'[p].at # None
        /\ sending'[p] = job'[p].at /\ sending'[p] \in Events
    BY <1>1, <1>2, <2>1
  <2>5. QED
    BY <2>2, <2>3, <2>4 DEF IInv, JobsOK
<1>6. HeldOK' /\ HeldApart'
  BY <1>1, <1>3 DEF IInv, HeldOK, HeldApart
<1>7. SavedFirst'
  <2>1. status[e] # "NONE"
    BY <1>1 DEF IInv, SavedFirst
  <2>2. ASSUME NEW q \in Publishers, NEW d \in Events, NEW i \in DOMAIN inflight'[q],
               inflight'[q][i] = d
        PROVE  status[d] # "NONE"
    BY <1>2, <2>1, <2>2 DEF IInv, SavedFirst
  <2>3. QED
    BY <1>1, <1>3, <2>2 DEF IInv, SavedFirst
<1>8. AcksTrue'
  BY <1>1, <1>2, <1>3 DEF IInv, AcksTrue
<1>9. AnswersMatch'
  BY <1>3, <1>4, TransmitAnswers, MessagesType DEF Publish
<1>10. QED
  BY <1>3, <1>4, <1>5, <1>6, <1>7, <1>8, <1>9, TableStep DEF IInv

LEMMA PublishFailsStep ==
  ASSUME IInv, NEW p \in Publishers, NEW e \in Events, PublishFails(p, e)
  PROVE  IInv'
<1>1. /\ job' \in [Publishers -> Jobs] /\ \A q \in Publishers : Held(q)' = Held(q)
      /\ \A q \in Publishers \ {p} : job'[q] = job[q]
      /\ job'[p].phase = "failed" /\ job'[p].at = e /\ job'[p].acked = job[p].acked
      /\ job'[p].todo = job[p].todo \ {e} /\ e \notin job[p].acked
  BY TakeUp DEF PublishFails
<1>2. /\ sending[p] = None
      /\ UNCHANGED <<status, retry, waiting, leased, sending, connected, inflight, confirms,
                     delivered, shifted, overrun, misread>>
  BY DEF PublishFails, table, channel, history
<1>3. TypeOK'
  BY <1>1, <1>2 DEF IInv, TypeOK, Jobs
<1>4. JobsOK'
  BY <1>1, <1>2, OutboxAssumption DEF IInv, JobsOK
<1>5. HeldOK' /\ HeldApart' /\ SavedFirst'
  BY <1>1, <1>2 DEF IInv, HeldOK, HeldApart, SavedFirst
<1>6. AcksTrue'
  BY <1>1, <1>2 DEF IInv, AcksTrue
<1>7. QED
  BY <1>2, <1>3, <1>4, <1>5, <1>6, TableStep, ChannelStep DEF IInv

LEMMA PublishCopyStep ==
  ASSUME IInv, NEW p \in Publishers, NEW c \in Copies, PublishCopy(p, c)
  PROVE  IInv'
<1>1. /\ inflight' \in [Publishers -> Seq(Messages)] /\ sending' \in [Publishers -> Messages \cup {None}]
      /\ sending[p] = None
      /\ sending'[p] = c /\ \A q \in Publishers \ {p} : sending'[q] = sending[q]
      /\ \A q \in Publishers : \A i \in DOMAIN inflight'[q] :
           inflight'[q][i] = c \/ \E k \in DOMAIN inflight[q] : inflight'[q][i] = inflight[q][k]
      /\ UNCHANGED <<connected, confirms>>
  BY TransmitChannel, MessagesType DEF PublishCopy
<1>2. /\ c \notin Events
      /\ UNCHANGED <<status, retry, waiting, leased, job, delivered, shifted, overrun, misread>>
  BY OutboxAssumption DEF PublishCopy, table, history
<1>3. TypeOK'
  BY <1>1, <1>2 DEF IInv, TypeOK
<1>4. JobsOK'
  BY <1>1, <1>2, OutboxAssumption DEF IInv, JobsOK
<1>5. \A q \in Publishers : Held(q)' = Held(q)
  BY <1>2 DEF Held
<1>6. HeldOK' /\ HeldApart'
  BY <1>2, <1>5 DEF IInv, HeldOK, HeldApart
<1>7. SavedFirst'
  BY <1>1, <1>2, <1>5 DEF IInv, SavedFirst
<1>8. AcksTrue'
  BY <1>1, <1>2 DEF IInv, AcksTrue
<1>9. AnswersMatch'
  BY <1>2, <1>3, TransmitAnswers, MessagesType DEF PublishCopy
<1>10. QED
  BY <1>2, <1>3, <1>4, <1>6, <1>7, <1>8, <1>9, TableStep DEF IInv

-----------------------------------------------------------------------------
(* Waiting for the confirmation *)

\* The holder of publishMu stops waiting; a worker judges the event it is at.
LEMMA StopWaiting ==
  ASSUME IInv, NEW p \in Publishers, sending[p] # None,
         sending' = [sending EXCEPT ![p] = None],
         NEW j \in {Acked(job[p]), Failed(job[p])},
         job' = IF sending[p] \in Copies THEN job ELSE [job EXCEPT ![p] = j]
  PROVE  /\ job' \in [Publishers -> Jobs] /\ sending' \in [Publishers -> Messages \cup {None}]
         /\ \A q \in Publishers : Held(q)' = Held(q)
         /\ \A q \in Publishers \ {p} : job'[q] = job[q] /\ sending'[q] = sending[q]
         /\ sending'[p] = None
         /\ job'[p].acked \subseteq IF sending[p] \in Events /\ j = Acked(job[p])
                                    THEN job[p].acked \cup {sending[p]} ELSE job[p].acked
         /\ JobsOK'
<1>1. /\ job \in [Publishers -> Jobs] /\ job[p] \in Jobs
      /\ sending \in [Publishers -> Messages \cup {None}] /\ None \notin Events
  BY JobTypes, OutboxAssumption DEF IInv, TypeOK
<1>2. /\ sending' \in [Publishers -> Messages \cup {None}] /\ sending'[p] = None
      /\ \A q \in Publishers \ {p} : sending'[q] = sending[q]
  BY <1>1
<1>3. CASE sending[p] \in Copies
  <2>1. job' = job /\ sending[p] \notin Events
    BY <1>3, OutboxAssumption
  <2>2. \A q \in Publishers : Held(q)' = Held(q)
    BY <2>1 DEF Held
  <2>3. JobsOK'
    BY <1>1, <1>2, <2>1 DEF IInv, JobsOK
  <2>4. QED
    BY <1>1, <1>2, <2>1, <2>2, <2>3
<1>4. CASE sending[p] \notin Copies
  <2>1. /\ sending[p] \in Events /\ job[p].at = sending[p] /\ job[p].phase = "confirm"
        /\ job[p].todo \cap job[p].acked = {} /\ job[p].at \notin job[p].todo \cup job[p].acked
    BY <1>1, <1>4 DEF IInv, JobsOK, Messages
  <2>2. /\ j \in Jobs /\ j.todo = job[p].todo
        /\ \/ j.phase = "publish" /\ j.at = None /\ j.acked = job[p].acked \cup {sending[p]}
              /\ j = Acked(job[p])
           \/ j.phase = "failed" /\ j.at = sending[p] /\ j.acked = job[p].acked
    <3>1. CASE j = Acked(job[p])
      BY <1>1, <2>1, <3>1 DEF Acked, Jobs, Phases
    <3>2. CASE j = Failed(job[p])
      BY <1>1, <2>1, <3>2 DEF Failed, Jobs, Phases
    <3>3. QED
      BY <3>1, <3>2
  <2>3. job' = [job EXCEPT ![p] = j]
    BY <1>4
  <2>4. /\ job' \in [Publishers -> Jobs] /\ job'[p] = j
        /\ \A q \in Publishers \ {p} : job'[q] = job[q] /\ Held(q)' = Held(q)
    BY <2>2, <2>3, JobStep DEF IInv
  <2>5. Held(p)' = Held(p)
    <3>1. Held(p) = job[p].todo \cup job[p].acked \cup {sending[p]}
      BY <1>1, <2>1 DEF Held
    <3>2. Held(p)' = job'[p].todo \cup job'[p].acked \cup ({job'[p].at} \ {None})
      BY DEF Held
    <3>3. QED
      BY <1>1, <2>1, <2>2, <2>4, <3>1, <3>2
  <2>6. job'[p].todo \cap job'[p].acked = {} /\ job'[p].at \notin job'[p].todo \cup job'[p].acked
    <3>1. None \notin job[p].todo \cup job[p].acked \cup {sending[p]}
      BY <1>1, <2>1 DEF Jobs
    <3>2. QED
      BY <2>1, <2>2, <2>4, <3>1
  <2>7. JobsOK'
    BY <1>1, <1>2, <2>1, <2>2, <2>4, <2>6 DEF IInv, JobsOK
  <2>8. QED
    BY <1>2, <2>1, <2>2, <2>4, <2>5, <2>7
<1>5. QED
  BY <1>3, <1>4

LEMMA GiveUpStep ==
  ASSUME IInv, NEW p \in Publishers, GiveUp(p),
         \/ shifted' = shifted \cup {p}
         \/ shifted' = shifted /\ p \notin connected
  PROVE  IInv'
<1>1. /\ job' \in [Publishers -> Jobs] /\ sending' \in [Publishers -> Messages \cup {None}]
      /\ \A q \in Publishers : Held(q)' = Held(q)
      /\ \A q \in Publishers \ {p} : job'[q] = job[q] /\ sending'[q] = sending[q]
      /\ job'[p].acked \subseteq job[p].acked
      /\ JobsOK'
  <2>1. Failed(job[p]) # Acked(job[p])
    <3>1. job[p] \in Jobs
      BY JobTypes DEF IInv
    <3>2. Failed(job[p]).phase = "failed" /\ Acked(job[p]).phase = "publish"
      BY <3>1 DEF Failed, Acked, Jobs
    <3>3. QED
      BY <3>2
  <2>2. /\ sending[p] # None /\ sending' = [sending EXCEPT ![p] = None]
        /\ job' = IF sending[p] \in Copies THEN job ELSE [job EXCEPT ![p] = Failed(job[p])]
    BY DEF GiveUp
  <2>3. QED
    BY <2>1, <2>2, StopWaiting
<1>2. /\ UNCHANGED <<status, retry, waiting, leased, connected, inflight, confirms,
                     delivered, overrun, misread>>
      /\ shifted \subseteq shifted' /\ shifted' \subseteq shifted \cup {p}
      /\ p \in connected => p \in shifted'
  BY DEF GiveUp, table, channel
<1>3. TypeOK'
  BY <1>1, <1>2 DEF IInv, TypeOK, Jobs
<1>4. HeldOK' /\ HeldApart' /\ SavedFirst'
  BY <1>1, <1>2 DEF IInv, HeldOK, HeldApart, SavedFirst
<1>5. AcksTrue'
  BY <1>1, <1>2 DEF IInv, AcksTrue
<1>6. AnswersMatch'
  <2>1. \A q \in Publishers \cap connected : ChannelOK(q)
    BY AnswersMatchIff DEF IInv
  <2>2. \A q \in Publishers \cap connected : ChannelOK(q)'
    BY <1>1, <1>2, <2>1 DEF ChannelOK
  <2>3. QED
    BY <1>2, <1>3, <2>2, AnswersMatchIffNext
<1>7. QED
  BY <1>1, <1>2, <1>3, <1>4, <1>5, <1>6, TableStep DEF IInv

LEMMA ReadConfirmStep ==
  ASSUME IInv, NEW p \in Publishers, ReadConfirm(p)
  PROVE  IInv'
<1> DEFINE c == Head(confirms[p])
           j == Verdict(job[p], c.ack)
<1>1. /\ confirms[p] \in Seq(Confirms) /\ confirms[p] # <<>> /\ sending[p] # None
      /\ confirms \in [Publishers -> Seq(Confirms)]
      /\ confirms' = [confirms EXCEPT ![p] = Tail(confirms[p])]
  BY DEF ReadConfirm, IInv, TypeOK
<1>2. /\ Tail(confirms[p]) \in Seq(Confirms) /\ 1 \in DOMAIN confirms[p] /\ c = confirms[p][1]
      /\ \A i \in DOMAIN Tail(confirms[p]) :
           i+1 \in DOMAIN confirms[p] /\ Tail(confirms[p])[i] = confirms[p][i+1]
      /\ Len(Tail(confirms[p])) = Len(confirms[p]) - 1
  BY <1>1, HeadTailProperties, LenProperties
<1>3. /\ confirms' \in [Publishers -> Seq(Confirms)] /\ confirms'[p] = Tail(confirms[p])
      /\ \A q \in Publishers \ {p} : confirms'[q] = confirms[q]
  BY <1>1, <1>2
<1>4. /\ sending' = [sending EXCEPT ![p] = None]
      /\ job' = IF sending[p] \in Copies THEN job ELSE [job EXCEPT ![p] = j]
      /\ UNCHANGED <<status, retry, waiting, leased, connected, inflight, delivered, shifted, overrun>>
  BY DEF ReadConfirm, table
<1>5. misread' = IF sending[p] \in Copies \/ c.msg = sending[p] THEN misread
                 ELSE misread \cup {sending[p]}
  BY DEF ReadConfirm
<1>6. c \in Confirms
  BY <1>1, <1>2
<1> HIDE DEF c
<1>7. j \in {Acked(job[p]), Failed(job[p])} /\ (j = Acked(job[p]) => c.ack)
  <2>1. job[p] \in Jobs
    BY JobTypes DEF IInv
  <2>2. Failed(job[p]).phase = "failed" /\ Acked(job[p]).phase = "publish"
    BY <2>1 DEF Failed, Acked, Jobs
  <2>3. QED
    BY <2>2 DEF Verdict
<1> HIDE DEF j
<1>8. /\ job' \in [Publishers -> Jobs] /\ sending' \in [Publishers -> Messages \cup {None}]
      /\ \A q \in Publishers : Held(q)' = Held(q)
      /\ \A q \in Publishers \ {p} : job'[q] = job[q] /\ sending'[q] = sending[q]
      /\ sending'[p] = None
      /\ job'[p].acked \subseteq IF sending[p] \in Events /\ j = Acked(job[p])
                                 THEN job[p].acked \cup {sending[p]} ELSE job[p].acked
      /\ JobsOK'
  BY <1>1, <1>4, <1>7, StopWaiting
<1>9. misread \subseteq misread' /\ misread' \subseteq Events
  BY <1>1, <1>5, ChannelTypes DEF IInv, TypeOK, Messages
<1>10. TypeOK'
  BY <1>3, <1>4, <1>8, <1>9 DEF IInv, TypeOK, Jobs
<1>11. HeldOK' /\ HeldApart' /\ SavedFirst'
  BY <1>4, <1>8 DEF IInv, HeldOK, HeldApart, SavedFirst
<1>12. AcksTrue'
  <2>1. sending[p] \in Events /\ j = Acked(job[p]) => sending[p] \in delivered \cup misread'
    <3>1. c.ack /\ c.msg \in Events => c.msg \in delivered
      BY <1>2 DEF IInv, AcksTrue
    <3>2. sending[p] \in Events => sending[p] \notin Copies
      BY OutboxAssumption
    <3>3. QED
      BY <1>5, <1>7, <3>1, <3>2
  <2>2. \A q \in Publishers : job'[q].acked \subseteq delivered' \cup misread'
    BY <1>4, <1>8, <1>9, <2>1 DEF IInv, AcksTrue
  <2>3. \A q \in Publishers : \A i \in DOMAIN confirms'[q] :
          \E k \in DOMAIN confirms[q] : confirms'[q][i] = confirms[q][k]
    BY <1>2, <1>3
  <2>4. QED
    BY <1>4, <2>2, <2>3 DEF IInv, AcksTrue
<1>13. AnswersMatch'
  <2>1. \A q \in Publishers \cap connected : ChannelOK(q)
    BY AnswersMatchIff DEF IInv
  <2>2. \A q \in (Publishers \cap connected) \ {p} : ChannelOK(q)'
    BY <1>3, <1>4, <1>8, <2>1 DEF ChannelOK
  <2>3. Only(inflight[p], confirms[p], sending[p]) => Quiet(inflight[p], Tail(confirms[p]))
    BY <1>1, <1>2, EmptySeq DEF Only, Quiet
  <2>4. p \in connected => ChannelOK(p)'
    BY <1>1, <1>3, <1>4, <1>8, <2>1, <2>3 DEF ChannelOK
  <2>5. QED
    BY <1>4, <1>10, <2>2, <2>4, AnswersMatchIffNext
<1>14. QED
  BY <1>4, <1>8, <1>9, <1>10, <1>11, <1>12, <1>13, TableStep DEF IInv

-----------------------------------------------------------------------------
(* Marking *)

\* The worker is through with an event that failed.
LEMMA Through ==
  ASSUME IInv, NEW p \in Publishers, job[p].phase = "failed", NextEvent(p), sending' = sending
  PROVE  /\ job[p].at \in Events
         /\ job' \in [Publishers -> Jobs] /\ JobsOK'
         /\ \A q \in Publishers \ {p} : job'[q] = job[q] /\ Held(q)' = Held(q)
         /\ Held(p)' \subseteq Held(p) \ {job[p].at} /\ job'[p].acked = job[p].acked
         /\ job[p].at \in Held(p)
<1> DEFINE j == [job[p] EXCEPT !.phase = "publish", !.at = None]
<1>1. /\ job[p] \in Jobs /\ job[p].at # None /\ sending[p] \notin Events
      /\ job[p].todo \cap job[p].acked = {} /\ job[p].at \notin job[p].todo \cup job[p].acked
  BY JobTypes DEF IInv, JobsOK
<1>2. job[p].at \in Events /\ None \notin job[p].todo \cup job[p].acked
  BY <1>1, OutboxAssumption DEF Jobs
<1>3. /\ j \in Jobs /\ j.phase = "publish" /\ j.at = None
      /\ j.todo = job[p].todo /\ j.acked = job[p].acked
  BY <1>1 DEF Jobs, Phases
<1>4. job' = [job EXCEPT ![p] = j]
  BY DEF NextEvent
<1> HIDE DEF j
<1>5. /\ job' \in [Publishers -> Jobs] /\ job'[p] = j
      /\ \A q \in Publishers \ {p} : job'[q] = job[q] /\ Held(q)' = Held(q)
  BY <1>3, <1>4, JobStep DEF IInv
<1>6. Held(p)' \subseteq Held(p) \ {job[p].at} /\ job[p].at \in Held(p)
  BY <1>1, <1>3, <1>5 DEF Held
<1>7. JobsOK'
  BY <1>1, <1>2, <1>3, <1>5 DEF IInv, JobsOK
<1>8. QED
  BY <1>2, <1>3, <1>5, <1>6, <1>7

\* The worker is through with its batch, or gone.
LEMMA GoneIdle ==
  ASSUME IInv, NEW p \in Publishers, job' = [job EXCEPT ![p] = Idle],
         sending'[p] \notin Events, \A q \in Publishers \ {p} : sending'[q] = sending[q]
  PROVE  /\ job' \in [Publishers -> Jobs] /\ JobsOK'
         /\ \A q \in Publishers \ {p} : job'[q] = job[q] /\ Held(q)' = Held(q)
         /\ Held(p)' = {} /\ job'[p].acked = {}
<1>1. /\ job' \in [Publishers -> Jobs] /\ job'[p] = Idle
      /\ \A q \in Publishers \ {p} : job'[q] = job[q] /\ Held(q)' = Held(q)
  BY IdleJob, JobStep DEF IInv
<1>2. Idle.phase = "idle" /\ Idle.todo = {} /\ Idle.acked = {} /\ Idle.at = None
  BY DEF Idle
<1>3. Held(p)' = {}
  BY <1>1, <1>2 DEF Held
<1>4. JobsOK'
  BY <1>1, <1>2 DEF IInv, JobsOK
<1>5. QED
  BY <1>1, <1>2, <1>3, <1>4

\* Nobody else has an event that is marked, but for events overrun.
LEMMA HeldByOne ==
  ASSUME IInv, NEW p \in Publishers, NEW S \in SUBSET Held(p)
  PROVE  \A q \in Publishers \ {p} : Held(q) \cap S \subseteq overrun
BY DEF IInv, HeldApart

LEMMA MarkPublishFailedStep ==
  ASSUME IInv, NEW p \in Publishers, MarkPublishFailed(p)
  PROVE  IInv'
<1> DEFINE e == job[p].at
           Marked(s) == /\ status[e] = "PROCESSING" /\ retry[e] < MaxRetry
                        /\ s \in {"DEAD", "PENDING"} /\ (s = "PENDING" => retry[e] + 1 < MaxRetry)
                        /\ status' = [status EXCEPT ![e] = s]
                        /\ retry' = [retry EXCEPT ![e] = retry[e] + 1]
                        /\ waiting' \subseteq waiting \cup {e} /\ leased' = leased \ {e}
<1>1. /\ e \in Events /\ e \in Held(p)
      /\ job' \in [Publishers -> Jobs] /\ JobsOK'
      /\ \A q \in Publishers \ {p} : job'[q] = job[q] /\ Held(q)' = Held(q)
      /\ Held(p)' \subseteq Held(p) \ {e} /\ job'[p].acked = job[p].acked
  BY Through DEF MarkPublishFailed
<1>2. /\ UNCHANGED <<sending, connected, inflight, confirms, delivered, shifted, overrun, misread>>
      /\ (\E s : Marked(s)) \/ UNCHANGED <<status, retry, waiting, leased>>
  <2>1. CASE status[e] = "PROCESSING"
    <3>1. retry[e] \in 0..MaxRetry /\ retry[e] < MaxRetry
      BY <1>1, <2>1 DEF IInv, TypeOK, RetriesLeft
    <3>2. CASE retry[e] + 1 >= MaxRetry
      <4>1. Marked("DEAD")
        BY <2>1, <3>1, <3>2 DEF MarkPublishFailed
      <4>2. QED
        BY <4>1 DEF MarkPublishFailed, channel, history
    <3>3. CASE ~(retry[e] + 1 >= MaxRetry)
      <4>1. Marked("PENDING")
        BY <2>1, <3>1, <3>3, OutboxAssumption DEF MarkPublishFailed
      <4>2. QED
        BY <4>1 DEF MarkPublishFailed, channel, history
    <3>4. QED
      BY <3>2, <3>3
  <2>2. CASE status[e] # "PROCESSING"
    BY <2>2 DEF MarkPublishFailed, channel, history, table
  <2>3. QED
    BY <2>1, <2>2
<1>3. retry[e] \in 0..MaxRetry
  BY <1>1 DEF IInv, TypeOK
<1>4. /\ status' \in [Events -> Statuses]
      /\ \A d \in Events \ {e} : status'[d] = status[d]
      /\ retry' \in [Events -> 0..MaxRetry]
      /\ \A d \in Events \ {e} : retry'[d] = retry[d]
  <2>1. CASE \E s : Marked(s)
    <3>1. PICK s : Marked(s)
      BY <2>1
    <3>2. retry[e] + 1 \in 0..MaxRetry /\ s \in Statuses
      BY <1>3, <3>1, OutboxAssumption DEF Statuses
    <3>3. QED
      BY <1>1, <3>1, <3>2 DEF IInv, TypeOK
  <2>2. CASE UNCHANGED <<status, retry, waiting, leased>>
    BY <2>2 DEF IInv, TypeOK
  <2>3. QED
    BY <1>2, <2>1, <2>2
<1>5. /\ status'[e] # "DEAD" => retry'[e] < MaxRetry
      /\ status'[e] = "PUBLISHED" => status[e] = "PUBLISHED"
      /\ status'[e] = "NONE" => status[e] = "NONE"
  <2>1. CASE \E s : Marked(s)
    <3>1. PICK s : Marked(s)
      BY <2>1
    <3>2. status'[e] = s /\ retry'[e] = retry[e] + 1
      BY <1>1, <3>1 DEF IInv, TypeOK
    <3>3. QED
      BY <3>1, <3>2
  <2>2. CASE UNCHANGED <<status, retry, waiting, leased>>
    BY <1>1, <2>2 DEF IInv, RetriesLeft
  <2>3. QED
    BY <1>2, <2>1, <2>2
<1>6. /\ waiting' \subseteq Events /\ leased' \subseteq Events
      /\ \A d \in leased \ {e} : d \in leased'
  BY <1>1, <1>2 DEF IInv, TypeOK
<1>7. \A q \in Publishers : Held(q)' \subseteq Held(q) /\ Held(q) \subseteq Events
  BY <1>1, JobTypes DEF IInv
<1> HIDE DEF e
<1>8. TypeOK'
  BY <1>1, <1>2, <1>4, <1>6 DEF IInv, TypeOK, Jobs
<1>9. HeldOK' /\ HeldApart'
  <2>1. \A q \in Publishers : e \in Held(q)' => e \in overrun
    BY <1>1, HeldByOne
  <2>2. \A q \in Publishers : \A d \in Held(q)' \ overrun' : d \in Events \ {e} /\ d \in leased
    BY <1>2, <1>7, <2>1 DEF IInv, HeldOK
  <2>3. QED
    BY <1>2, <1>4, <1>6, <1>7, <2>2, HeldStep
<1>10. SavedFirst'
  BY <1>2, <1>4, <1>5, <1>7 DEF IInv, SavedFirst
<1>11. AcksTrue'
  BY <1>1, <1>2 DEF IInv, AcksTrue
<1>12. RetriesLeft' /\ PublishedDelivered'
  BY <1>2, <1>4, <1>5 DEF IInv, RetriesLeft, PublishedDelivered
<1>13. QED
  BY <1>1, <1>2, <1>8, <1>9, <1>10, <1>11, <1>12, ChannelStep DEF IInv

LEMMA MarkFailsStep ==
  ASSUME IInv, NEW p \in Publishers, MarkFails(p)
  PROVE  IInv'
<1>1. UNCHANGED <<status, retry, waiting, leased, sending, connected, inflight, confirms,
                  delivered, shifted, overrun, misread>>
  BY DEF MarkFails, table, channel, history
<1>2. /\ job' \in [Publishers -> Jobs] /\ JobsOK'
      /\ \A q \in Publishers : Held(q)' \subseteq Held(q) /\ job'[q].acked \subseteq job[q].acked
  <2>1. CASE job[p].phase = "failed" /\ NextEvent(p)
    BY <1>1, <2>1, Through
  <2>2. CASE job[p].phase = "publish" /\ job' = [job EXCEPT ![p] = Idle]
    <3>1. sending[p] \notin Events
      BY <2>2 DEF IInv, JobsOK
    <3>2. QED
      BY <1>1, <2>2, <3>1, GoneIdle
  <2>3. QED
    BY <2>1, <2>2 DEF MarkFails
<1>3. TypeOK'
  BY <1>1, <1>2 DEF IInv, TypeOK, Jobs
<1>4. HeldOK' /\ HeldApart' /\ SavedFirst'
  BY <1>1, <1>2 DEF IInv, HeldOK, HeldApart, SavedFirst
<1>5. AcksTrue'
  BY <1>1, <1>2 DEF IInv, AcksTrue
<1>6. QED
  BY <1>1, <1>2, <1>3, <1>4, <1>5, TableStep, ChannelStep DEF IInv

LEMMA MarkPublishedStep ==
  ASSUME IInv, NEW p \in Publishers, MarkPublished(p)
  PROVE  IInv'
<1> DEFINE S == {e \in job[p].acked : status[e] = "PROCESSING"}
<1>1. /\ status' = [e \in Events |-> IF e \in S THEN "PUBLISHED" ELSE status[e]]
      /\ leased' = leased \ S
      /\ UNCHANGED <<retry, waiting, sending, connected, inflight, confirms,
                     delivered, shifted, overrun, misread>>
  BY DEF MarkPublished, channel, history
<1>2. /\ job' \in [Publishers -> Jobs] /\ JobsOK'
      /\ \A q \in Publishers \ {p} : job'[q] = job[q] /\ Held(q)' = Held(q)
      /\ Held(p)' = {} /\ job'[p].acked = {}
  <2>1. job[p].phase = "publish" /\ job' = [job EXCEPT ![p] = Idle]
    BY DEF MarkPublished
  <2>2. sending[p] \notin Events
    BY <2>1 DEF IInv, JobsOK
  <2>3. QED
    BY <1>1, <2>1, <2>2, GoneIdle
<1>3. S \subseteq Held(p) /\ S \subseteq delivered \cup misread /\ \A e \in S : status[e] = "PROCESSING"
  BY DEF Held, IInv, AcksTrue
<1> HIDE DEF S
<1>4. \A e \in Events : status'[e] = IF e \in S THEN "PUBLISHED" ELSE status[e]
  BY <1>1
<1>5. TypeOK'
  BY <1>1, <1>2 DEF IInv, TypeOK, Statuses, Jobs
<1>6. \A q \in Publishers : Held(q)' \subseteq Held(q) /\ Held(q) \subseteq Events
  BY <1>2, JobTypes DEF IInv
<1>7. HeldOK' /\ HeldApart'
  <2>1. \A q \in Publishers : \A e \in Held(q)' \ overrun' : e \in Events \ S /\ e \in leased
    BY <1>1, <1>2, <1>3, <1>6, HeldByOne DEF IInv, HeldOK
  <2>2. QED
    BY <1>1, <1>4, <1>6, <2>1, HeldStep
<1>8. SavedFirst'
  BY <1>1, <1>4, <1>6 DEF IInv, SavedFirst
<1>9. AcksTrue'
  BY <1>1, <1>2 DEF IInv, AcksTrue
<1>10. RetriesLeft' /\ PublishedDelivered'
  BY <1>1, <1>3, <1>4 DEF IInv, RetriesLeft, PublishedDelivered
<1>11. QED
  BY <1>1, <1>2, <1>5, <1>7, <1>8, <1>9, <1>10, ChannelStep DEF IInv

-----------------------------------------------------------------------------
(* RabbitMQ, and what goes wrong *)

\* What Settle does to the two queues of the channel, and why m was saved.
LEMMA SettledChannel ==
  ASSUME IInv, NEW p \in Publishers, NEW ack \in BOOLEAN, Settle(p, ack)
  PROVE  LET m == Head(inflight[p]) IN
         /\ m \in Messages /\ inflight[p] # <<>> /\ (m \in Events => status[m] # "NONE")
         /\ inflight' \in [Publishers -> Seq(Messages)] /\ confirms' \in [Publishers -> Seq(Confirms)]
         /\ \A q \in Publishers \ {p} : inflight'[q] = inflight[q] /\ confirms'[q] = confirms[q]
         /\ inflight'[p] = Tail(inflight[p])
         /\ confirms'[p] = Append(confirms[p], [msg |-> m, ack |-> ack])
         /\ \A q \in Publishers : \A i \in DOMAIN inflight'[q] :
              \E k \in DOMAIN inflight[q] : inflight'[q][i] = inflight[q][k]
         /\ \A q \in Publishers : \A i \in DOMAIN confirms'[q] :
              \/ confirms'[q][i] = [msg |-> m, ack |-> ack]
              \/ \E k \in DOMAIN confirms[q] : confirms'[q][i] = confirms[q][k]
<1> DEFINE m == Head(inflight[p])
           c == [msg |-> m, ack |-> ack]
<1>1. /\ inflight \in [Publishers -> Seq(Messages)] /\ inflight[p] \in Seq(Messages)
      /\ confirms \in [Publishers -> Seq(Confirms)] /\ confirms[p] \in Seq(Confirms)
      /\ inflight[p] # <<>>
      /\ inflight' = [inflight EXCEPT ![p] = Tail(inflight[p])]
      /\ confirms' = [confirms EXCEPT ![p] = Append(confirms[p], c)]
  BY DEF Settle, IInv, TypeOK
<1>2. /\ m \in Messages /\ 1 \in DOMAIN inflight[p] /\ m = inflight[p][1]
      /\ Tail(inflight[p]) \in Seq(Messages)
      /\ \A i \in DOMAIN Tail(inflight[p]) :
           i+1 \in DOMAIN inflight[p] /\ Tail(inflight[p])[i] = inflight[p][i+1]
  BY <1>1, HeadTailProperties, LenProperties, ElementOfSeq
<1>3. m \in Events => status[m] # "NONE"
  BY <1>2 DEF IInv, SavedFirst
<1> HIDE DEF m
<1>4. /\ c \in Confirms
      /\ Append(confirms[p], c) \in Seq(Confirms)
      /\ \A i \in DOMAIN Append(confirms[p], c) :
           \/ Append(confirms[p], c)[i] = c
           \/ i \in DOMAIN confirms[p] /\ Append(confirms[p], c)[i] = confirms[p][i]
  <2>1. c \in Confirms
    BY <1>2 DEF Confirms
  <2> HIDE DEF c
  <2>2. QED
    BY <1>1, <2>1
<1> HIDE DEF c
<1>5. /\ inflight' \in [Publishers -> Seq(Messages)] /\ confirms' \in [Publishers -> Seq(Confirms)]
      /\ \A q \in Publishers \ {p} : inflight'[q] = inflight[q] /\ confirms'[q] = confirms[q]
      /\ inflight'[p] = Tail(inflight[p]) /\ confirms'[p] = Append(confirms[p], c)
  BY <1>1, <1>2, <1>4
<1>6. \A q \in Publishers : \A i \in DOMAIN inflight'[q] :
        \E k \in DOMAIN inflight[q] : inflight'[q][i] = inflight[q][k]
  <2>1. \A i \in DOMAIN inflight'[p] : \E k \in DOMAIN inflight[p] : inflight'[p][i] = inflight[p][k]
    <3>1. \A i \in DOMAIN inflight'[p] :
            i+1 \in DOMAIN inflight[p] /\ inflight'[p][i] = inflight[p][i+1]
      BY <1>2, <1>5
    <3>2. QED
      BY <3>1
  <2>2. QED
    BY <1>5, <2>1
<1>7. \A q \in Publishers : \A i \in DOMAIN confirms'[q] :
        confirms'[q][i] = c \/ \E k \in DOMAIN confirms[q] : confirms'[q][i] = confirms[q][k]
  BY <1>4, <1>5
<1>8. QED
  BY <1>1, <1>2, <1>3, <1>5, <1>6, <1>7 DEF m, c

LEMMA SettleStep ==
  ASSUME IInv, NEW p \in Publishers, NEW ack \in BOOLEAN, Settle(p, ack)
  PROVE  IInv'
<1> DEFINE m == Head(inflight[p])
           c == [msg |-> m, ack |-> ack]
<1>1. /\ m \in Messages /\ inflight[p] # <<>>
      /\ inflight' \in [Publishers -> Seq(Messages)] /\ confirms' \in [Publishers -> Seq(Confirms)]
      /\ \A q \in Publishers \ {p} : inflight'[q] = inflight[q] /\ confirms'[q] = confirms[q]
      /\ inflight'[p] = Tail(inflight[p]) /\ confirms'[p] = Append(confirms[p], c)
      /\ \A q \in Publishers : \A i \in DOMAIN inflight'[q] :
           \E k \in DOMAIN inflight[q] : inflight'[q][i] = inflight[q][k]
      /\ \A q \in Publishers : \A i \in DOMAIN confirms'[q] :
           confirms'[q][i] = c \/ \E k \in DOMAIN confirms[q] : confirms'[q][i] = confirms[q][k]
  BY SettledChannel
<1>2. /\ delivered' = IF ack /\ m \in Events THEN delivered \cup {m} ELSE delivered
      /\ UNCHANGED <<status, retry, waiting, leased, job, sending, connected, shifted, overrun, misread>>
  BY DEF Settle, table, history
<1>3. c.msg = m /\ c.ack = ack /\ m = Head(inflight[p])
  OBVIOUS
<1> HIDE DEF m, c
<1>4. delivered \subseteq delivered' /\ TypeOK'
  BY <1>1, <1>2 DEF IInv, TypeOK
<1>5. \A q \in Publishers : Held(q)' = Held(q)
  BY <1>2 DEF Held
<1>6. JobsOK' /\ HeldOK' /\ HeldApart'
  BY <1>2, <1>5 DEF IInv, JobsOK, HeldOK, HeldApart
<1>7. SavedFirst'
  <2>1. ASSUME NEW q \in Publishers, NEW d \in Events, NEW i \in DOMAIN inflight'[q],
               inflight'[q][i] = d
        PROVE  status[d] # "NONE"
    BY <1>1, <2>1 DEF IInv, SavedFirst
  <2>2. QED
    BY <1>2, <1>5, <2>1 DEF IInv, SavedFirst
<1>8. AcksTrue'
  <2>1. c.ack /\ c.msg \in Events => c.msg \in delivered'
    BY <1>2, <1>3
  <2>2. ASSUME NEW q \in Publishers, NEW i \in DOMAIN confirms'[q],
               confirms'[q][i].ack, confirms'[q][i].msg \in Events
        PROVE  confirms'[q][i].msg \in delivered'
    <3>1. CASE confirms'[q][i] = c
      BY <2>1, <2>2, <3>1
    <3>2. CASE \E k \in DOMAIN confirms[q] : confirms'[q][i] = confirms[q][k]
      BY <1>4, <2>2, <3>2 DEF IInv, AcksTrue
    <3>3. QED
      BY <1>1, <3>1, <3>2
  <2>3. QED
    BY <1>2, <1>4, <2>2 DEF IInv, AcksTrue
<1>9. AnswersMatch'
  <2>1. \A q \in Publishers \cap connected : ChannelOK(q)
    BY AnswersMatchIff DEF IInv
  <2>2. \A q \in (Publishers \cap connected) \ {p} : ChannelOK(q)'
    BY <1>1, <1>2, <2>1 DEF ChannelOK
  <2>3. ASSUME NEW x, Only(inflight[p], confirms[p], x)
        PROVE  Only(Tail(inflight[p]), Append(confirms[p], c), x)
    <3>1. inflight[p] = <<x>> /\ confirms[p] = <<>>
      BY <1>1, <2>3 DEF Only
    <3>2. m = x /\ Tail(inflight[p]) = <<>> /\ Append(confirms[p], c) = <<c>>
      BY <1>3, <3>1
    <3>3. QED
      BY <1>3, <3>2 DEF Only
  <2>4. p \in connected => ChannelOK(p)'
    BY <1>1, <1>2, <2>1, <2>3 DEF ChannelOK, Quiet
  <2>5. QED
    BY <1>2, <1>4, <2>2, <2>4, AnswersMatchIffNext
<1>10. QED
  BY <1>2, <1>4, <1>6, <1>7, <1>8, <1>9, TableStep DEF IInv

LEMMA ConnectionLostStep ==
  ASSUME IInv, NEW p \in Publishers, ConnectionLost(p)
  PROVE  IInv'
<1>1. /\ connected' = connected \ {p} /\ inflight' = [inflight EXCEPT ![p] = <<>>]
      /\ UNCHANGED <<status, retry, waiting, leased, job, sending, confirms,
                     delivered, shifted, overrun, misread>>
  BY DEF ConnectionLost, table, history
<1>2. /\ inflight' \in [Publishers -> Seq(Messages)] /\ inflight'[p] = <<>>
      /\ \A q \in Publishers \ {p} : inflight'[q] = inflight[q]
  BY <1>1, EmptySeq DEF IInv, TypeOK
<1>3. TypeOK'
  BY <1>1, <1>2 DEF IInv, TypeOK
<1>4. \A q \in Publishers : Held(q)' = Held(q)
  BY <1>1 DEF Held
<1>5. JobsOK' /\ HeldOK' /\ HeldApart' /\ AcksTrue'
  BY <1>1, <1>4 DEF IInv, JobsOK, HeldOK, HeldApart, AcksTrue
<1>6. SavedFirst'
  BY <1>1, <1>2, <1>4 DEF IInv, SavedFirst
<1>7. AnswersMatch'
  <2>1. \A q \in Publishers \cap connected : ChannelOK(q)
    BY AnswersMatchIff DEF IInv
  <2>2. \A q \in Publishers \cap connected' : ChannelOK(q)'
    BY <1>1, <1>2, <2>1 DEF ChannelOK
  <2>3. QED
    BY <1>3, <2>2, AnswersMatchIffNext
<1>8. QED
  BY <1>1, <1>3, <1>5, <1>6, <1>7, TableStep DEF IInv

LEMMA CrashStep ==
  ASSUME IInv, NEW p \in Publishers, Crash(p)
  PROVE  IInv'
<1>1. /\ job' = [job EXCEPT ![p] = Idle] /\ sending' = [sending EXCEPT ![p] = None]
      /\ connected' = connected \cup {p} /\ shifted' = shifted \ {p}
      /\ inflight' = [inflight EXCEPT ![p] = <<>>] /\ confirms' = [confirms EXCEPT ![p] = <<>>]
      /\ UNCHANGED <<status, retry, waiting, leased, delivered, overrun, misread>>
  BY DEF Crash, table
<1>2. /\ sending' \in [Publishers -> Messages \cup {None}] /\ sending'[p] = None
      /\ inflight' \in [Publishers -> Seq(Messages)] /\ inflight'[p] = <<>>
      /\ confirms' \in [Publishers -> Seq(Confirms)] /\ confirms'[p] = <<>>
      /\ \A q \in Publishers \ {p} : /\ sending'[q] = sending[q] /\ inflight'[q] = inflight[q]
                                     /\ confirms'[q] = confirms[q]
  BY <1>1, EmptySeq DEF IInv, TypeOK
<1>3. /\ job' \in [Publishers -> Jobs] /\ JobsOK'
      /\ \A q \in Publishers : Held(q)' \subseteq Held(q) /\ job'[q].acked \subseteq job[q].acked
  BY <1>1, <1>2, GoneIdle, OutboxAssumption
<1>4. TypeOK'
  BY <1>1, <1>2, <1>3 DEF IInv, TypeOK, Jobs
<1>5. HeldOK' /\ HeldApart'
  BY <1>1, <1>3 DEF IInv, HeldOK, HeldApart
<1>6. SavedFirst'
  BY <1>1, <1>2, <1>3 DEF IInv, SavedFirst
<1>7. AcksTrue'
  BY <1>1, <1>2, <1>3 DEF IInv, AcksTrue
<1>8. AnswersMatch'
  <2>1. \A q \in Publishers \cap connected : ChannelOK(q)
    BY AnswersMatchIff DEF IInv
  <2>2. \A q \in (Publishers \cap connected') \ {p} : ChannelOK(q)'
    BY <1>1, <1>2, <2>1 DEF ChannelOK
  <2>3. ChannelOK(p)'
    BY <1>2 DEF ChannelOK, Quiet
  <2>4. QED
    BY <1>4, <2>2, <2>3, AnswersMatchIffNext
<1>9. QED
  BY <1>1, <1>3, <1>4, <1>5, <1>6, <1>7, <1>8, TableStep DEF IInv

-----------------------------------------------------------------------------
(* The theorems *)

LEMMA InitInv == Init => IInv
<1> SUFFICES ASSUME Init PROVE IInv
  OBVIOUS
<1>1. Idle \in Jobs /\ Idle.phase = "idle" /\ Idle.todo = {} /\ Idle.at = None /\ Idle.acked = {}
  BY IdleJob DEF Idle
<1>2. TypeOK
  BY <1>1, EmptySeq, OutboxAssumption DEF Init, TypeOK, Jobs, Statuses
<1>3. \A p \in Publishers : job[p] = Idle /\ Held(p) = {} /\ DOMAIN inflight[p] = {} /\ DOMAIN confirms[p] = {}
  BY <1>1 DEF Init, Held
<1>4. JobsOK /\ HeldOK /\ HeldApart /\ SavedFirst /\ AcksTrue
  BY <1>1, <1>3, OutboxAssumption DEF Init, JobsOK, HeldOK, HeldApart, SavedFirst, AcksTrue
<1>5. RetriesLeft /\ PublishedDelivered
  BY OutboxAssumption DEF Init, RetriesLeft, PublishedDelivered
<1>6. AnswersMatch
  BY <1>2, AnswersMatchIff DEF Init, ChannelOK, Quiet
<1>7. QED
  BY <1>2, <1>4, <1>5, <1>6 DEF IInv

LEMMA StutterStep == IInv /\ UNCHANGED vars => IInv'
<1> SUFFICES ASSUME IInv, UNCHANGED vars PROVE IInv'
  OBVIOUS
<1>1. \A q \in Publishers : Held(q)' = Held(q)
  BY DEF vars, Held
<1>2. TypeOK'
  BY DEF vars, IInv, TypeOK
<1>3. JobsOK' /\ HeldOK' /\ HeldApart' /\ SavedFirst' /\ AcksTrue'
  BY <1>1 DEF vars, IInv, JobsOK, HeldOK, HeldApart, SavedFirst, AcksTrue
<1>4. QED
  BY <1>2, <1>3, TableStep, ChannelStep DEF vars, IInv

LEMMA NextStep == IInv /\ Next => IInv'
<1> SUFFICES ASSUME IInv, Next PROVE IInv'
  OBVIOUS
<1>1. CASE \E e \in Events : Save(e) \/ BackoffEnds(e) \/ LeaseEnds(e)
  BY <1>1, SaveStep, BackoffEndsStep, LeaseEndsStep
<1>2. ASSUME NEW p \in Publishers,
             \/ Claim(p) \/ Work(p) \/ Fault(p) \/ ConfirmTimeout(p)
             \/ \E c \in Copies : PublishCopy(p, c)
             \/ \E ack \in BOOLEAN : Settle(p, ack)
      PROVE  IInv'
  <2>1. CASE Claim(p) \/ Fault(p)
    BY <2>1, ClaimStep, ClaimLostStep, MarkFailsStep, ConnectionLostStep, CrashStep DEF Fault
  <2>2. CASE Work(p)
    <3>1. ConfirmClosed(p) => IInv'
      BY GiveUpStep DEF ConfirmClosed
    <3>2. QED
      BY <2>2, <3>1, PublishStep, PublishFailsStep, ReadConfirmStep, MarkPublishFailedStep,
         MarkPublishedStep DEF Work
  <2>3. CASE ConfirmTimeout(p)
    BY <2>3, GiveUpStep DEF ConfirmTimeout
  <2>4. CASE \E c \in Copies : PublishCopy(p, c)
    BY <2>4, PublishCopyStep
  <2>5. CASE \E ack \in BOOLEAN : Settle(p, ack)
    BY <2>5, SettleStep
  <2>6. QED
    BY <1>2, <2>1, <2>2, <2>3, <2>4, <2>5
<1>3. QED
  BY <1>1, <1>2 DEF Next

\* The outbox's table, its workers and its channels agree in every reachable
\* state, whatever workers, consumers, late confirmations and crashes do.
THEOREM OutboxInvariant == Spec => []IInv
<1>1. IInv /\ [Next]_vars => IInv'
  BY NextStep, StutterStep
<1>2. QED
  BY InitInv, <1>1, PTL DEF Spec

\* On a channel where no confirmation was given up, all there is in it belongs to
\* the message whose sender holds publishMu.
THEOREM ConfirmationsMatch == Spec => []AnswersMatch
<1>1. IInv => AnswersMatch
  BY DEF IInv
<1>2. QED
  BY OutboxInvariant, <1>1, PTL

\* An event marked published was accepted by RabbitMQ, unless another message's
\* confirmation was taken for its own.
THEOREM PublishedWasDelivered == Spec => []PublishedDelivered
<1>1. IInv => PublishedDelivered
  BY DEF IInv
<1>2. QED
  BY OutboxInvariant, <1>1, PTL

\* Two publishers work on an event only when its lease ran out under one of them.
THEOREM OneSender == Spec => []SingleSender
<1>1. IInv => SingleSender
  BY DEF IInv, HeldApart, SingleSender, Held
<1>2. QED
  BY OutboxInvariant, <1>1, PTL

-----------------------------------------------------------------------------
(* The promise *)

LEMMA StateIs ==
  /\ \A e \in Events : State[e] = CASE status[e] = "NONE"      -> "none"
                                    [] status[e] = "PUBLISHED" -> "published"
                                    [] status[e] = "DEAD"      -> "dead"
                                    [] OTHER                   -> "saved"
  /\ \A e \in Events : State'[e] = CASE status'[e] = "NONE"      -> "none"
                                     [] status'[e] = "PUBLISHED" -> "published"
                                     [] status'[e] = "DEAD"      -> "dead"
                                     [] OTHER                    -> "saved"
BY DEF State

LEMMA StateSame ==
  ASSUME \A e \in Events : \/ status'[e] = status[e]
                           \/ status[e] \in {"PENDING", "PROCESSING"} /\ status'[e] = "PROCESSING"
                           \/ status[e] = "PROCESSING" /\ status'[e] = "PENDING"
  PROVE  State' = State
<1>1. \A e \in Events : State'[e] = State[e]
  BY StateIs
<1>2. QED
  BY <1>1 DEF State

\* Events in S, all being processed, end alike.
LEMMA StateFinish ==
  ASSUME NEW S \in SUBSET Events, \A e \in S : status[e] = "PROCESSING",
         NEW s \in {"PUBLISHED", "DEAD"}, delivered' = delivered,
         \A e \in Events : status'[e] = IF e \in S THEN s ELSE status[e]
  PROVE  Promise!Next
<1> DEFINE o == IF s = "PUBLISHED" THEN "published" ELSE "dead"
<1>1. \A e \in S : State[e] = "saved"
  BY StateIs
<1>2. \A e \in Events : State'[e] = IF e \in S THEN o ELSE State[e]
  BY StateIs
<1> HIDE DEF o
<1>3. State' = [e \in Events |-> IF e \in S THEN o ELSE State[e]]
  BY <1>2 DEF State
<1>4. Promise!Finish(S, o)
  BY <1>1, <1>3 DEF Promise!Finish
<1>5. o \in {"published", "dead"}
  BY DEF o
<1>6. QED
  BY <1>4, <1>5 DEF Promise!Next

LEMMA PromiseInit == Init => Promise!Init
BY DEF Init, Promise!Init, State

LEMMA PromiseStep == IInv /\ [Next]_vars => [Promise!Next]_(Promise!vars)
<1> SUFFICES ASSUME IInv, [Next]_vars PROVE Promise!Next \/ UNCHANGED <<State, delivered>>
  BY DEF Promise!vars
<1>1. ASSUME NEW e \in Events, Save(e) PROVE Promise!Next
  <2>1. /\ status[e] = "NONE" /\ delivered' = delivered
        /\ \A d \in Events : status'[d] = IF d = e THEN "PENDING" ELSE status[d]
    BY <1>1 DEF Save, IInv, TypeOK
  <2>2. State[e] = "none" /\ \A d \in Events : State'[d] = IF d = e THEN "saved" ELSE State[d]
    BY <2>1, StateIs
  <2>3. State' = [State EXCEPT ![e] = "saved"]
    BY <2>2 DEF State
  <2>4. QED
    BY <2>1, <2>2, <2>3 DEF Promise!Next, Promise!Save
<1>2. ASSUME NEW p \in Publishers, Claim(p) \/ ClaimLost(p) PROVE UNCHANGED <<State, delivered>>
  BY <1>2, ClaimedTable, StateSame DEF Claim, ClaimLost
<1>3. ASSUME NEW p \in Publishers, MarkPublished(p) PROVE Promise!Next
  <2> DEFINE S == {e \in job[p].acked : status[e] = "PROCESSING"}
  <2>1. S \subseteq Events
    BY JobTypes DEF IInv, Jobs
  <2>2. /\ \A e \in Events : status'[e] = IF e \in S THEN "PUBLISHED" ELSE status[e]
        /\ delivered' = delivered
    BY <1>3 DEF MarkPublished
  <2>3. QED
    BY <2>1, <2>2, StateFinish
<1>4. ASSUME NEW p \in Publishers, MarkPublishFailed(p) PROVE Promise!Next \/ UNCHANGED <<State, delivered>>
  <2> DEFINE e == job[p].at
  <2>1. e \in Events /\ delivered' = delivered
    BY <1>4, Through DEF MarkPublishFailed
  <2>2. CASE status' = status
    BY <2>1, <2>2, StateSame
  <2>3. CASE status[e] = "PROCESSING" /\ status' = [status EXCEPT ![e] = "DEAD"]
    <3>1. \A d \in Events : status'[d] = IF d \in {e} THEN "DEAD" ELSE status[d]
      BY <2>3 DEF IInv, TypeOK
    <3>2. QED
      BY <2>1, <2>3, <3>1, StateFinish
  <2>4. CASE status[e] = "PROCESSING" /\ status' = [status EXCEPT ![e] = "PENDING"]
    <3>1. \A d \in Events : status'[d] = IF d = e THEN "PENDING" ELSE status[d]
      BY <2>4 DEF IInv, TypeOK
    <3>2. QED
      BY <2>1, <2>4, <3>1, StateSame
  <2>5. QED
    BY <1>4, <2>2, <2>3, <2>4 DEF MarkPublishFailed, table
<1>5. ASSUME NEW p \in Publishers, NEW ack \in BOOLEAN, Settle(p, ack)
      PROVE  Promise!Next \/ UNCHANGED <<State, delivered>>
  <2> DEFINE m == Head(inflight[p])
  <2>1. (m \in Events => status[m] # "NONE") /\ status' = status
    BY <1>5, SettledChannel DEF Settle, table
  <2>2. State' = State
    BY <2>1, StateSame
  <2>3. CASE m \in Events /\ delivered' = delivered \cup {m}
    <3>1. State[m] # "none"
      BY <2>1, <2>3, StateIs
    <3>2. QED
      BY <2>2, <2>3, <3>1 DEF Promise!Next, Promise!Send
  <2>4. QED
    BY <1>5, <2>2, <2>3 DEF Settle
<1>6. CASE UNCHANGED <<status, delivered>>
  BY <1>6, StateSame
<1>7. ASSUME NEW p \in Publishers, NEW e \in Events,
             Publish(p, e) \/ PublishFails(p, e)
      PROVE  UNCHANGED <<status, delivered>>
  BY <1>7 DEF Publish, PublishFails, table
<1>8. ASSUME NEW p \in Publishers,
             \/ ReadConfirm(p) \/ ConfirmClosed(p) \/ ConfirmTimeout(p) \/ MarkFails(p)
             \/ ConnectionLost(p) \/ Crash(p) \/ \E c \in Copies : PublishCopy(p, c)
      PROVE  UNCHANGED <<status, delivered>>
  BY <1>8 DEF ReadConfirm, ConfirmClosed, ConfirmTimeout, GiveUp, MarkFails, ConnectionLost,
              Crash, PublishCopy, table
<1>9. ASSUME NEW e \in Events, BackoffEnds(e) \/ LeaseEnds(e) PROVE UNCHANGED <<status, delivered>>
  BY <1>9 DEF BackoffEnds, LeaseEnds
<1>10. UNCHANGED vars => UNCHANGED <<status, delivered>>
  BY DEF vars
<1>11. QED
  BY <1>1, <1>2, <1>3, <1>4, <1>5, <1>6, <1>7, <1>8, <1>9, <1>10 DEF Next, Work, Fault

\* The outbox keeps the safety part of its promise: nothing is sent that was not
\* saved, and what is published or dead stays so, whatever a late or stale worker marks.
THEOREM ImplementsDelivery == Spec => Promise!Steps
<1>1. QED
  BY OutboxInvariant, PromiseInit, PromiseStep, PTL DEF Spec, Promise!Steps
=============================================================================
