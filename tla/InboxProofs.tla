---------------------------- MODULE InboxProofs ----------------------------
(* Safety of Inbox for any number of events and workers, any batch size and *)
(* any number of retries.                                                   *)
EXTENDS Inbox, FiniteSetTheorems, TLAPS

\* The inductive invariant without the count of attempts, which nothing else needs.
Core == /\ TypeOK /\ ClaimsApart /\ HeldOK /\ SingleHolder
        /\ MailedIfProcessed /\ MailsOK /\ MailedOnce

Jobs == [todo : SUBSET Claims, at : Attempts \cup {None}, sent : BOOLEAN]

LEMMA HoldingDef ==
  ASSUME NEW p
  PROVE  \A e : e \in Holding(p) <=> \/ \E c \in job[p].todo : c.event = e
                                     \/ job[p].at # None /\ job[p].at.event = e
BY DEF Holding

LEMMA HoldingDefNext ==
  ASSUME NEW p
  PROVE  \A e : e \in Holding(p)' <=> \/ \E c \in job'[p].todo : c.event = e
                                      \/ job'[p].at # None /\ job'[p].at.event = e
BY DEF Holding

LEMMA JobTypes ==
  ASSUME Core, NEW p \in Processors
  PROVE  /\ job \in [Processors -> Jobs]
         /\ job[p].todo \subseteq Claims /\ job[p].at \in Attempts \cup {None}
         /\ job[p].sent \in BOOLEAN
         /\ Holding(p) \subseteq Events
         /\ Attempts \subseteq Claims
<1>1. job \in [Processors -> Jobs] /\ job[p] \in Jobs
  BY DEF Core, TypeOK, Jobs
<1>2. Attempts \subseteq Claims
  BY InboxAssumption DEF Attempts, Claims
<1>3. Holding(p) \subseteq Events
  BY <1>1, <1>2, HoldingDef DEF Jobs, Claims
<1>4. QED
  BY <1>1, <1>2, <1>3 DEF Jobs

LEMMA IdleJob == Idle \in Jobs /\ Idle.todo = {} /\ Idle.at = None /\ Idle.sent = FALSE
BY DEF Idle, Jobs

\* A step that leaves rows and mails alone and takes events out of the hands of
\* one worker, none of whose mails it forgets without a note.
LEMMA DropStep ==
  ASSUME Core, NEW p \in Processors, job' = [job EXCEPT ![p] = Idle],
         unsure' \subseteq Events, unsure \subseteq unsure',
         job[p].sent => job[p].at.event \in unsure',
         UNCHANGED <<rows, mails, retaken>>
  PROVE  Core'
<1>1. /\ job \in [Processors -> Jobs] /\ job' \in [Processors -> Jobs] /\ job'[p] = Idle
      /\ \A q \in Processors \ {p} : job'[q] = job[q]
  BY JobTypes, IdleJob
<1>2. TypeOK'
  BY <1>1 DEF Core, TypeOK, Jobs, rows
<1>3. \A q \in Processors : Holding(q)' \subseteq Holding(q)
  BY <1>1, IdleJob, HoldingDef, HoldingDefNext
<1>4. ClaimsApart'
  BY <1>1, IdleJob DEF Core, ClaimsApart
<1>5. HeldOK' /\ SingleHolder'
  BY <1>3 DEF Core, HeldOK, SingleHolder, rows
<1>6. MailsOK'
  BY <1>1 DEF Core, MailsOK, rows
<1>7. MailedIfProcessed' /\ MailedOnce'
  BY DEF Core, MailedIfProcessed, MailedOnce, rows
<1>8. QED
  BY <1>2, <1>4, <1>5, <1>6, <1>7 DEF Core

\* A worker is done with claim c.
LEMMA ProceedStep ==
  ASSUME Core, NEW p \in Processors, NEW c \in Claims, Proceed(p, c),
         \/ job[p].at = c
         \/ c \in job[p].todo /\ job[p].at = None
  PROVE  /\ job' \in [Processors -> Jobs]
         /\ \A q \in Processors \ {p} : job'[q] = job[q] /\ Holding(q)' = Holding(q)
         /\ job'[p].at = None /\ job'[p].sent = FALSE /\ job'[p].todo \subseteq job[p].todo
         /\ Holding(p)' \subseteq Holding(p) \ {c.event}
         /\ c.event \in Holding(p)
<1>1. /\ job \in [Processors -> Jobs] /\ job[p] \in Jobs /\ c # None
  BY JobTypes, InboxAssumption DEF Claims
<1> DEFINE r == [job[p] EXCEPT !.todo = job[p].todo \ {c}, !.at = None, !.sent = FALSE]
<1>2. PICK j \in {r, Idle} : job' = [job EXCEPT ![p] = j]
  BY <1>1 DEF Proceed, Jobs, Idle
<1>3. /\ j \in Jobs /\ j.at = None /\ j.sent = FALSE /\ j.todo \subseteq job[p].todo \ {c}
  BY <1>1, <1>2, IdleJob DEF Jobs
<1>4. /\ job' \in [Processors -> Jobs] /\ job'[p] = j
      /\ \A q \in Processors \ {p} : job'[q] = job[q]
  BY <1>1, <1>2, <1>3
<1>5. \A q \in Processors \ {p} : Holding(q)' = Holding(q)
  BY <1>4 DEF Holding
<1>6. c.event \in Holding(p)
  BY <1>1, HoldingDef
<1>7. Holding(p)' \subseteq Holding(p) \ {c.event}
  <2>1. \A d \in job[p].todo \ {c} : d.event # c.event /\ d.event \in Holding(p)
    BY HoldingDef, <1>1 DEF Core, ClaimsApart
  <2>2. QED
    BY <1>3, <1>4, <2>1, HoldingDefNext
<1>8. QED
  BY <1>3, <1>4, <1>5, <1>6, <1>7

\* A mark, whichever: it disturbs no other worker but one the event was taken
\* from, or who took it.
LEMMA MarkStep ==
  ASSUME Core, NEW p \in Processors, NEW c \in Claims, Proceed(p, c),
         \/ job[p].at = c
         \/ c \in job[p].todo /\ job[p].at = None,
         NEW s \in Statuses, status' = [status EXCEPT ![c.event] = s],
         job[p].sent <=> s = "PROCESSED",
         retry' \in [Events -> Nat], waiting' \subseteq Events, old' \subseteq Events,
         UNCHANGED <<mails, history>>
  PROVE  Core'
<1>1. /\ job' \in [Processors -> Jobs]
      /\ \A q \in Processors \ {p} : job'[q] = job[q] /\ Holding(q)' = Holding(q)
      /\ job'[p].at = None /\ job'[p].sent = FALSE /\ job'[p].todo \subseteq job[p].todo
      /\ Holding(p)' \subseteq Holding(p) \ {c.event}
      /\ c.event \in Holding(p)
  BY ProceedStep
<1>2. c.event \in Events /\ retaken' = retaken /\ unsure' = unsure /\ mails' = mails
  BY DEF Claims, history
<1>3. TypeOK'
  BY <1>1, <1>2 DEF Core, TypeOK, Jobs
<1>4. ClaimsApart'
  BY <1>1, <1>2 DEF Core, ClaimsApart
<1>5. SingleHolder'
  BY <1>1, <1>2 DEF Core, SingleHolder
<1>6. \A q \in Processors \ {p} : c.event \in Holding(q) => c.event \in retaken
  BY <1>1 DEF Core, SingleHolder
<1>7. \A e \in Events \ {c.event} : status'[e] = status[e]
  BY DEF Core, TypeOK
<1>8. HeldOK'
  <2>1. SUFFICES ASSUME NEW q \in Processors, NEW e \in Holding(q)' \ retaken
                 PROVE  status'[e] = "PROCESSING"
    BY <1>2 DEF HeldOK
  <2>2. e \in Holding(q) /\ e # c.event
    BY <1>1, <1>6, <2>1
  <2>3. e \in Events
    BY <2>2, JobTypes
  <2>4. QED
    BY <1>7, <2>1, <2>2, <2>3 DEF Core, HeldOK
<1>9. job[p].sent => job[p].at = c /\ mails[c.event] > 0
  BY InboxAssumption DEF Core, ClaimsApart, Claims
<1>10. MailedIfProcessed'
  BY <1>2, <1>7, <1>9 DEF Core, TypeOK, MailedIfProcessed
<1>11. MailsOK'
  <2>1. SUFFICES ASSUME NEW e \in Events, mails[e] > 0, e \notin retaken \cup unsure,
                        status'[e] # "PROCESSED"
                 PROVE  \E q \in Processors : job'[q].sent /\ job'[q].at.event = e
    BY <1>2 DEF MailsOK
  <2>2. e = c.event => ~job[p].sent /\ status[e] # "PROCESSED"
    <3>1. e = c.event => status'[e] = s
      BY <1>2 DEF Core, TypeOK
    <3>2. e = c.event => status[e] = "PROCESSING"
      BY <1>1, <2>1 DEF Core, HeldOK
    <3>3. QED
      BY <2>1, <3>1, <3>2
  <2>3. status[e] # "PROCESSED"
    BY <1>7, <2>1, <2>2
  <2>4. PICK q \in Processors : job[q].sent /\ job[q].at.event = e
    BY <2>1, <2>3 DEF Core, MailsOK
  <2>5. q # p
    BY <1>9, <2>2, <2>4
  <2>6. QED
    BY <1>1, <2>4, <2>5
<1>12. MailedOnce'
  BY <1>2 DEF Core, MailedOnce
<1>13. QED
  BY <1>3, <1>4, <1>5, <1>8, <1>10, <1>11, <1>12 DEF Core

-----------------------------------------------------------------------------
LEMMA MarkFailedStep ==
  ASSUME Core, NEW p \in Processors, NEW c \in job[p].todo, MarkFailed(p, c)
  PROVE  Core'
<1>1. c \in Claims /\ job[p].at = None /\ ~job[p].sent
  BY JobTypes DEF MarkFailed, Core, ClaimsApart
<1>2. /\ status' = [status EXCEPT ![c.event] = "FAILED"] /\ Proceed(p, c)
      /\ UNCHANGED <<retry, waiting, old, mails, history>>
  BY DEF MarkFailed
<1>3. retry' \in [Events -> Nat] /\ waiting' \subseteq Events /\ old' \subseteq Events
  BY <1>2 DEF Core, TypeOK
<1>4. QED
  BY <1>1, <1>2, <1>3, MarkStep DEF Statuses

LEMMA MarkProcessedStep ==
  ASSUME Core, NEW p \in Processors, MarkProcessed(p)
  PROVE  Core'
<1> DEFINE c == job[p].at
<1>1. c \in Claims /\ job[p].sent
  BY JobTypes DEF MarkProcessed
<1>2. /\ status' = [status EXCEPT ![c.event] = "PROCESSED"] /\ Proceed(p, c)
      /\ UNCHANGED <<mails, history>>
  BY DEF MarkProcessed
<1>3. retry' \in [Events -> Nat] /\ waiting' \subseteq Events /\ old' \subseteq Events
  BY DEF MarkProcessed, Core, TypeOK
<1>4. QED
  BY <1>1, <1>2, <1>3, MarkStep DEF Statuses

LEMMA MarkPendingStep ==
  ASSUME Core, NEW p \in Processors, MarkPending(p)
  PROVE  Core'
<1> DEFINE c == job[p].at
<1>1. c \in Claims /\ c.event \in Events /\ ~job[p].sent
  BY JobTypes DEF MarkPending, Claims
<1>2. /\ status' = [status EXCEPT ![c.event] = "PENDING"] /\ Proceed(p, c)
      /\ UNCHANGED <<mails, history>>
  BY DEF MarkPending
<1>3. retry' \in [Events -> Nat] /\ waiting' \subseteq Events /\ old' \subseteq Events
  BY <1>1 DEF MarkPending, Core, TypeOK
<1>4. QED
  BY <1>1, <1>2, <1>3, MarkStep DEF Statuses

\* The mail is counted, and either remembered by its worker or noted as unsure.
LEMMA SendMailStep ==
  ASSUME Core, NEW p \in Processors, NEW c \in job[p].todo,
         NEW sent \in BOOLEAN, NEW ok \in BOOLEAN, SendMail(p, c, sent, ok)
  PROVE  Core'
<1> DEFINE r == [job[p] EXCEPT !.todo = job[p].todo \ {c}, !.at = c, !.sent = ok]
<1>1. /\ c \in Claims /\ c.event \in Events /\ c \in Attempts /\ c # None
      /\ job[p].at = None /\ ~job[p].sent /\ (ok => sent)
  <2>1. c \in Claims /\ c.event \in Events /\ c.retry \in Nat /\ ~(c.retry >= MaxRetry)
    BY JobTypes DEF SendMail, GivesUp, Claims
  <2>2. c.retry \in 0..(MaxRetry - 1)
    BY <2>1, InboxAssumption
  <2>3. QED
    BY <2>1, <2>2, InboxAssumption DEF SendMail, Claims, Attempts, Core, ClaimsApart
<1>2. /\ job' = [job EXCEPT ![p] = r] /\ UNCHANGED <<rows, retaken>>
      /\ unsure' = IF sent /\ ~ok THEN unsure \cup {c.event} ELSE unsure
      /\ mails' = IF sent /\ mails[c.event] < MailCap
                  THEN [mails EXCEPT ![c.event] = mails[c.event] + 1] ELSE mails
  BY DEF SendMail
<1>r. r \in Jobs /\ r.todo = job[p].todo \ {c} /\ r.at = c /\ r.sent = ok
  <2>1. job[p] \in Jobs
    BY JobTypes
  <2>2. QED
    BY <1>1, <2>1 DEF Jobs
<1> HIDE DEF r
<1>3. /\ job \in [Processors -> Jobs] /\ job' \in [Processors -> Jobs] /\ job'[p] = r
      /\ \A q \in Processors \ {p} : job'[q] = job[q]
  BY <1>2, <1>r, JobTypes
<1>4. \A e \in Events : /\ mails[e] \in 0..MailCap /\ mails'[e] \in 0..MailCap
                        /\ mails'[e] >= mails[e]
                        /\ e # c.event => mails'[e] = mails[e]
                        /\ sent => mails'[c.event] > 0
  BY <1>1, <1>2, InboxAssumption DEF Core, TypeOK
<1>5. TypeOK'
  <2>1. mails' \in [Events -> 0..MailCap]
    BY <1>1, <1>2, <1>4 DEF Core, TypeOK
  <2>2. QED
    BY <1>1, <1>2, <1>3, <2>1 DEF Core, TypeOK, Jobs, rows
<1>6. \A q \in Processors : Holding(q)' = Holding(q)
  <2>1. \A e : e \in Holding(p)' <=> e = c.event \/ \E d \in job[p].todo \ {c} : d.event = e
    BY <1>1, <1>3, <1>r, HoldingDefNext
  <2>2. \A e : e \in Holding(p) <=> \E d \in job[p].todo : d.event = e
    BY <1>1, HoldingDef
  <2>3. Holding(p)' = Holding(p)
    BY <2>1, <2>2
  <2>4. QED
    BY <1>3, <2>3 DEF Holding
<1>7. ClaimsApart'
  <2>1. \A d \in r.todo : d.event # c.event
    BY <1>r DEF Core, ClaimsApart
  <2>2. /\ \A x, y \in r.todo : x.event = y.event => x = y
        /\ r.sent => mails'[c.event] > 0
    BY <1>1, <1>4, <1>r DEF Core, ClaimsApart
  <2>3. \A q \in Processors \ {p} : job[q].sent => job[q].at.event \in Events
    BY JobTypes DEF Core, ClaimsApart, Claims
  <2>4. \A q \in Processors \ {p} : job[q].sent => mails'[job[q].at.event] > 0
    BY <1>4, <2>3 DEF Core, ClaimsApart
  <2>5. QED
    BY <1>1, <1>3, <1>r, <2>1, <2>2, <2>4 DEF Core, ClaimsApart
<1>8. HeldOK' /\ SingleHolder'
  BY <1>2, <1>6 DEF Core, HeldOK, SingleHolder, rows
<1>9. MailedIfProcessed'
  BY <1>2, <1>4 DEF Core, MailedIfProcessed, rows
<1>10. MailsOK'
  <2>1. SUFFICES ASSUME NEW e \in Events, mails'[e] > 0, e \notin retaken \cup unsure',
                        status[e] # "PROCESSED"
                 PROVE  \E q \in Processors : job'[q].sent /\ job'[q].at.event = e
    BY <1>2 DEF MailsOK, rows
  <2>2. CASE mails[e] > 0
    <3>1. PICK q \in Processors : job[q].sent /\ job[q].at.event = e
      BY <1>2, <2>1, <2>2 DEF Core, MailsOK
    <3>2. QED
      BY <1>1, <1>3, <3>1
  <2>3. CASE ~(mails[e] > 0)
    <3>1. e = c.event /\ sent /\ ok
      BY <1>2, <1>4, <2>1, <2>3
    <3>2. QED
      BY <1>3, <1>r, <3>1
  <2>4. QED
    BY <2>2, <2>3
<1>11. MailedOnce'
  <2>1. SUFFICES ASSUME NEW e \in Events, mails'[e] > 1, e \notin retaken \cup unsure
                 PROVE  e \in unsure'
    BY <1>2 DEF MailedOnce
  <2>2. ~(mails[e] > 1)
    BY <2>1 DEF Core, MailedOnce
  <2>3. e = c.event /\ mails[e] > 0
    BY <1>1, <1>2, <1>4, <2>1, <2>2
  <2>4. c.event \in Holding(p) /\ status[c.event] = "PROCESSING"
    BY <2>1, <2>3, HoldingDef DEF Core, HeldOK
  <2>5. PICK q \in Processors : job[q].sent /\ job[q].at.event = e
    BY <2>1, <2>3, <2>4 DEF Core, MailsOK
  <2>6. q # p /\ e \in Holding(q)
    BY <1>1, <2>5, HoldingDef DEF Core, ClaimsApart
  <2>7. QED
    BY <2>1, <2>3, <2>4, <2>6 DEF Core, SingleHolder
<1>12. QED
  BY <1>5, <1>7, <1>8, <1>9, <1>10, <1>11 DEF Core

-----------------------------------------------------------------------------
LEMMA ClaimStep ==
  ASSUME Core, NEW p \in Processors, Claim(p) \/ ClaimLost(p)
  PROVE  Core'
<1>1. PICK S \in SUBSET Events :
        /\ MarkProcessing(S) /\ Holding(p) = {}
        /\ \/ job' = job
           \/ job' = [job EXCEPT ![p].todo = {[event |-> e, retry |-> retry[e]] : e \in S}]
  BY DEF Claim, ClaimLost
<1>2. /\ \A e \in S : status[e] = "PENDING"
      /\ status' = [e \in Events |-> IF e \in S THEN "PROCESSING" ELSE status[e]]
      /\ old' = old \ S /\ UNCHANGED <<retry, waiting, mails, history>>
  BY <1>1 DEF MarkProcessing, Claimable
<1> DEFINE T == {[event |-> e, retry |-> retry[e]] : e \in S}
<1>3. T \subseteq Claims /\ \A c, d \in T : c.event = d.event => c = d
  BY DEF Claims, Core, TypeOK
<1>4. job[p].todo = {} /\ job[p].at = None /\ ~job[p].sent /\ job[p] \in Jobs
  BY <1>1, HoldingDef, JobTypes DEF Core, ClaimsApart
<1>5. /\ job' \in [Processors -> Jobs]
      /\ \A q \in Processors \ {p} : job'[q] = job[q]
      /\ job'[p].at = None /\ ~job'[p].sent
      /\ job'[p].todo = {} \/ job'[p].todo = T
  <2>1. job \in [Processors -> Jobs]
    BY JobTypes
  <2>2. CASE job' = job
    BY <1>4, <2>1, <2>2
  <2>3. CASE job' = [job EXCEPT ![p].todo = T]
    BY <1>3, <1>4, <2>1, <2>3 DEF Jobs
  <2>4. QED
    BY <1>1, <2>2, <2>3
<1>6. TypeOK'
  BY <1>2, <1>5 DEF Core, TypeOK, Jobs, Statuses, history
<1>7. ClaimsApart'
  BY <1>2, <1>3, <1>5 DEF Core, ClaimsApart
<1>8. /\ \A q \in Processors \ {p} : Holding(q)' = Holding(q)
      /\ Holding(p)' \subseteq S
  <2>1. Holding(p)' \subseteq S
    BY <1>5, HoldingDefNext
  <2>2. QED
    BY <1>5, <2>1 DEF Holding
<1>9. \A q \in Processors : Holding(q) \cap S \subseteq retaken
  BY <1>2 DEF Core, HeldOK
<1>10. SingleHolder'
  BY <1>2, <1>8, <1>9 DEF Core, SingleHolder, history
<1>11. HeldOK'
  BY <1>2, <1>8, JobTypes DEF Core, HeldOK, history
<1>12. MailedIfProcessed'
  BY <1>2 DEF Core, MailedIfProcessed
<1>13. MailsOK'
  <2>1. \A q \in Processors : job[q].sent => job'[q] = job[q]
    BY <1>4, <1>5
  <2>2. QED
    BY <1>2, <2>1 DEF Core, MailsOK, history
<1>14. MailedOnce'
  BY <1>2 DEF Core, MailedOnce, history
<1>15. QED
  BY <1>6, <1>7, <1>10, <1>11, <1>12, <1>13, <1>14 DEF Core

LEMMA RecoverStep ==
  ASSUME Core, RecoverProcessing
  PROVE  Core'
<1>1. /\ status' = [e \in Events |-> IF e \in Recoverable THEN "PENDING" ELSE status[e]]
      /\ waiting' = waiting \ Recoverable /\ old' = old \ Recoverable
      /\ retaken' = retaken \cup (Recoverable \cap UNION {Holding(p) : p \in Processors})
      /\ UNCHANGED <<retry, job, mails, unsure>>
  BY DEF RecoverProcessing
<1>2. Recoverable \subseteq Events /\ \A e \in Recoverable : status[e] = "PROCESSING"
  BY DEF Recoverable, Core, TypeOK
<1>3. TypeOK'
  BY <1>1, <1>2 DEF Core, TypeOK, Statuses
<1>4. \A q \in Processors : Holding(q)' = Holding(q)
  BY <1>1 DEF Holding
<1>5. ClaimsApart' /\ SingleHolder' /\ MailedOnce'
  BY <1>1, <1>4 DEF Core, ClaimsApart, SingleHolder, MailedOnce
<1>6. HeldOK'
  BY <1>1, <1>4, JobTypes DEF Core, HeldOK
<1>7. MailedIfProcessed' /\ MailsOK'
  BY <1>1, <1>2 DEF Core, MailedIfProcessed, MailsOK
<1>8. QED
  BY <1>3, <1>5, <1>6, <1>7 DEF Core

\* The consumer's insert and the passing of time touch no event in a worker's hands.
LEMMA QuietStep ==
  ASSUME Core, NEW e \in Events, Save(e) \/ BackoffEnds(e) \/ GrowOld(e)
  PROVE  Core'
<1>1. /\ UNCHANGED <<retry, job, mails, retaken, unsure>>
      /\ waiting' \subseteq Events /\ old' \subseteq Events
      /\ \/ status' = status
         \/ status[e] = "NONE" /\ status' = [status EXCEPT ![e] = "PENDING"]
  BY DEF Save, BackoffEnds, GrowOld, history, Core, TypeOK
<1>2. TypeOK'
  BY <1>1 DEF Core, TypeOK, Statuses
<1>3. \A q \in Processors : Holding(q)' = Holding(q)
  BY <1>1 DEF Holding
<1>4. ClaimsApart' /\ SingleHolder' /\ MailedOnce'
  BY <1>1, <1>3 DEF Core, ClaimsApart, SingleHolder, MailedOnce
<1>5. HeldOK'
  BY <1>1, <1>3, JobTypes DEF Core, HeldOK, TypeOK
<1>6. MailedIfProcessed' /\ MailsOK'
  BY <1>1 DEF Core, MailedIfProcessed, MailsOK, TypeOK
<1>7. QED
  BY <1>2, <1>4, <1>5, <1>6 DEF Core

LEMMA AbandonStep ==
  ASSUME Core, NEW p \in Processors, Abandon(p)
  PROVE  Core'
<1>1. /\ job' = [job EXCEPT ![p] = Idle] /\ UNCHANGED <<rows, mails, retaken>>
      /\ unsure' = IF job[p].sent THEN unsure \cup {job[p].at.event} ELSE unsure
  BY DEF Abandon
<1>2. job[p].sent => job[p].at.event \in Events
  BY JobTypes DEF Core, ClaimsApart, Claims
<1>3. /\ unsure' \subseteq Events /\ unsure \subseteq unsure'
      /\ job[p].sent => job[p].at.event \in unsure'
  BY <1>1, <1>2 DEF Core, TypeOK
<1>4. QED
  BY <1>1, <1>3, DropStep

LEMMA CoreInit == Init => Core
<1> SUFFICES ASSUME Init PROVE Core
  OBVIOUS
<1>1. \A p \in Processors : job[p] = Idle /\ Holding(p) = {}
  BY IdleJob, HoldingDef DEF Init
<1>2. TypeOK
  BY IdleJob, InboxAssumption DEF Init, TypeOK, Jobs, Statuses
<1>3. ClaimsApart /\ HeldOK /\ SingleHolder /\ MailedIfProcessed /\ MailsOK /\ MailedOnce
  BY <1>1, IdleJob DEF Init, ClaimsApart, HeldOK, SingleHolder, MailedIfProcessed, MailsOK,
     MailedOnce
<1>4. QED
  BY <1>2, <1>3 DEF Core

LEMMA CoreNext == Core /\ [Next]_vars => Core'
<1> SUFFICES ASSUME Core, [Next]_vars PROVE Core'
  OBVIOUS
<1>1. ASSUME NEW p \in Processors, Work(p) PROVE Core'
  BY <1>1, MarkFailedStep, SendMailStep, MarkProcessedStep, MarkPendingStep DEF Work
<1>2. ASSUME NEW p \in Processors, Claim(p) \/ ClaimLost(p) \/ Abandon(p) PROVE Core'
  BY <1>2, ClaimStep, AbandonStep
<1>3. ASSUME NEW e \in Events, Save(e) \/ BackoffEnds(e) \/ GrowOld(e) PROVE Core'
  BY <1>3, QuietStep
<1>4. CASE RecoverProcessing
  BY <1>4, RecoverStep
<1>5. CASE UNCHANGED vars
  BY <1>5 DEF vars, Core, TypeOK, ClaimsApart, HeldOK, SingleHolder, MailedIfProcessed,
     MailsOK, MailedOnce, Holding
<1>6. QED
  BY <1>1, <1>2, <1>3, <1>4, <1>5 DEF Next, Process

-----------------------------------------------------------------------------
(* Counting attempts *)

LEMMA TryingDef ==
  ASSUME NEW e
  PROVE  \A p : p \in Trying(e) <=>
           /\ p \in Processors
           /\ \/ \E c \in job[p].todo : c.event = e /\ ~GivesUp(c)
              \/ job[p].at # None /\ job[p].at.event = e /\ ~GivesUp(job[p].at)
BY DEF Trying

LEMMA TryingDefNext ==
  ASSUME NEW e
  PROVE  \A p : p \in Trying(e)' <=>
           /\ p \in Processors
           /\ \/ \E c \in job'[p].todo : c.event = e /\ ~GivesUp(c)
              \/ job'[p].at # None /\ job'[p].at.event = e /\ ~GivesUp(job'[p].at)
BY DEF Trying, GivesUp

LEMMA ProcessorSets ==
  ASSUME NEW S \in SUBSET Processors
  PROVE  /\ IsFiniteSet(S) /\ Cardinality(S) \in Nat
         /\ \A T \in SUBSET S : Cardinality(T) <= Cardinality(S)
         /\ \A p \in S : Cardinality(S \ {p}) = Cardinality(S) - 1
<1>1. IsFiniteSet(S)
  BY InboxAssumption, FS_Subset
<1>2. QED
  BY <1>1, FS_CardinalityType, FS_Subset, FS_RemoveElement

LEMMA TopIs == Top = MaxRetry + Cardinality(Processors) - 1 /\ Top \in Nat /\ Top >= MaxRetry
<1>1. Cardinality(Processors) \in Nat /\ Cardinality(Processors) # 0
  BY InboxAssumption, FS_CardinalityType, FS_EmptySet
<1>2. QED
  BY <1>1, InboxAssumption DEF Top

\* A step counts an attempt only for a worker that has none left afterwards, and
\* hands out none when the retries are used up.
Counts(e) ==
  \/ retry'[e] = retry[e] /\ (retry[e] >= MaxRetry => Trying(e)' \subseteq Trying(e))
  \/ retry'[e] = retry[e] + 1 /\ \E p \in Trying(e) : Trying(e)' \subseteq Trying(e) \ {p}

LEMMA AttemptsStep ==
  ASSUME Core, AttemptsLeft, NEW e \in Events, Counts(e), retry'[e] >= MaxRetry
  PROVE  retry'[e] + Cardinality(Trying(e)') <= Top
<1>1. /\ Trying(e) \in SUBSET Processors /\ Trying(e)' \in SUBSET Processors
      /\ retry[e] \in Nat /\ MaxRetry \in Nat
  BY InboxAssumption DEF Trying, Core, TypeOK
<1>2. Cardinality(Trying(e)) \in Nat /\ Cardinality(Trying(e)') \in Nat
  BY <1>1, ProcessorSets
<1>3. retry[e] >= MaxRetry => retry[e] + Cardinality(Trying(e)) <= Top
  BY DEF AttemptsLeft
<1>4. CASE retry'[e] = retry[e] /\ Trying(e)' \subseteq Trying(e)
  <2>1. Cardinality(Trying(e)') <= Cardinality(Trying(e))
    BY <1>1, <1>4, ProcessorSets
  <2>2. QED
    BY <1>1, <1>2, <1>3, <1>4, <2>1, TopIs
<1>5. ASSUME retry'[e] = retry[e] + 1, NEW p \in Trying(e), Trying(e)' \subseteq Trying(e) \ {p}
      PROVE  retry'[e] + Cardinality(Trying(e)') <= Top
  <2>1. CASE retry[e] >= MaxRetry
    <3>1. /\ Trying(e) \ {p} \in SUBSET Processors
          /\ Cardinality(Trying(e) \ {p}) = Cardinality(Trying(e)) - 1
      BY <1>1, ProcessorSets
    <3>2. Cardinality(Trying(e)') <= Cardinality(Trying(e) \ {p})
      BY <1>5, <3>1, ProcessorSets
    <3>3. QED
      BY <1>1, <1>2, <1>3, <1>5, <2>1, <3>1, <3>2, TopIs
  <2>2. CASE ~(retry[e] >= MaxRetry)
    <3>1. retry'[e] = MaxRetry
      BY <1>1, <1>5, <2>2
    <3>2. p \in Processors /\ Trying(e)' \in SUBSET (Processors \ {p})
      BY <1>1, <1>5
    <3>3. /\ Processors \ {p} \in SUBSET Processors
          /\ Cardinality(Processors \ {p}) = Cardinality(Processors) - 1
      BY <3>2, ProcessorSets
    <3>4. Cardinality(Trying(e)') <= Cardinality(Processors \ {p})
      BY <3>2, <3>3, ProcessorSets
    <3>5. Cardinality(Processors) \in Nat
      BY ProcessorSets
    <3>6. QED
      BY <1>1, <1>2, <3>1, <3>3, <3>4, <3>5, TopIs
  <2>3. QED
    BY <2>1, <2>2
<1>6. QED
  BY <1>4, <1>5 DEF Counts

\* A worker that takes nothing up keeps what it was trying at most.
LEMMA TriesNoMore ==
  ASSUME Core, NEW p \in Processors, NEW e \in Events,
         \A q \in Processors \ {p} : job'[q] = job[q],
         job'[p].todo \subseteq job[p].todo, job'[p].at = None
  PROVE  /\ Trying(e)' \subseteq Trying(e)
         /\ e \notin Holding(p)' => p \notin Trying(e)'
<1>1. Trying(e)' \subseteq Trying(e)
  BY TryingDef, TryingDefNext
<1>2. e \notin Holding(p)' => p \notin Trying(e)'
  BY TryingDefNext, HoldingDefNext
<1>3. QED
  BY <1>1, <1>2

LEMMA WorkCounts ==
  ASSUME Core, NEW p \in Processors, Work(p), NEW e \in Events
  PROVE  Counts(e)
<1>1. ASSUME NEW c \in job[p].todo, MarkFailed(p, c)
      PROVE  Counts(e)
  <2>1. c \in Claims /\ job[p].at = None /\ Proceed(p, c) /\ retry' = retry
    BY <1>1, JobTypes DEF MarkFailed
  <2>2. QED
    BY <2>1, ProceedStep, TriesNoMore DEF Counts
<1>2. ASSUME NEW c \in job[p].todo, NEW sent \in BOOLEAN, NEW ok \in BOOLEAN,
             SendMail(p, c, sent, ok)
      PROVE  Counts(e)
  <2>1. /\ retry' = retry /\ job[p] \in Jobs
        /\ job' = [job EXCEPT ![p] = [job[p] EXCEPT !.todo = job[p].todo \ {c}, !.at = c, !.sent = ok]]
    BY <1>2, JobTypes DEF SendMail, rows
  <2>2. /\ job'[p].todo = job[p].todo \ {c} /\ job'[p].at = c
        /\ \A q \in Processors \ {p} : job'[q] = job[q]
    BY <2>1, JobTypes DEF Jobs
  <2>3. Trying(e)' \subseteq Trying(e)
    BY <2>2, TryingDef, TryingDefNext
  <2>4. QED
    BY <2>1, <2>3 DEF Counts
<1>3. ASSUME MarkProcessed(p)
      PROVE  Counts(e)
  <2>1. job[p].at \in Claims /\ Proceed(p, job[p].at) /\ retry' = retry
    BY <1>3, JobTypes DEF MarkProcessed
  <2>2. QED
    BY <2>1, ProceedStep, TriesNoMore DEF Counts
<1>4. ASSUME MarkPending(p)
      PROVE  Counts(e)
  <2> DEFINE c == job[p].at
  <2>1. /\ c \in Claims /\ c \in Attempts /\ c # None /\ Proceed(p, c)
        /\ retry' = [retry EXCEPT ![c.event] = retry[c.event] + 1]
    BY <1>4, JobTypes DEF MarkPending
  <2>2. /\ Trying(e)' \subseteq Trying(e)
        /\ e = c.event => p \notin Trying(e)'
    BY <2>1, ProceedStep, TriesNoMore
  <2>3. CASE e = c.event
    <3>1. ~GivesUp(c)
      <4>1. c.retry \in 0..(MaxRetry - 1)
        BY <2>1 DEF Attempts
      <4>2. QED
        BY <4>1, InboxAssumption DEF GivesUp
    <3>2. p \in Trying(e)
      BY <2>1, <2>3, <3>1, TryingDef
    <3>3. retry'[e] = retry[e] + 1
      BY <2>1, <2>3 DEF Core, TypeOK
    <3>4. QED
      BY <2>2, <2>3, <3>2, <3>3 DEF Counts
  <2>4. CASE e # c.event
    BY <2>1, <2>2, <2>4 DEF Counts, Core, TypeOK
  <2>5. QED
    BY <2>3, <2>4
<1>5. QED
  BY <1>1, <1>2, <1>3, <1>4 DEF Work

\* An event whose retries are used up is claimed to be given up.
LEMMA ClaimCounts ==
  ASSUME Core, NEW p \in Processors, Claim(p), NEW e \in Events
  PROVE  Counts(e)
<1>1. PICK S \in SUBSET Events :
        /\ job' = [job EXCEPT ![p].todo = {[event |-> x, retry |-> retry[x]] : x \in S}]
        /\ retry' = retry /\ Holding(p) = {}
  BY DEF Claim, MarkProcessing
<1> DEFINE T == {[event |-> x, retry |-> retry[x]] : x \in S}
<1>2. job[p].at = None /\ job[p] \in Jobs /\ job \in [Processors -> Jobs]
  BY <1>1, HoldingDef, JobTypes
<1>3. /\ job'[p].todo = T /\ job'[p].at = None
      /\ \A q \in Processors \ {p} : job'[q] = job[q]
  BY <1>1, <1>2 DEF Jobs
<1>4. \A c \in T : c.event = e => c.retry = retry[e]
  OBVIOUS
<1>5. retry[e] >= MaxRetry => \A c \in T : c.event = e => GivesUp(c)
  BY <1>4 DEF GivesUp
<1> HIDE DEF T
<1>6. retry[e] >= MaxRetry => Trying(e)' \subseteq Trying(e)
  BY <1>3, <1>5, TryingDef, TryingDefNext
<1>7. QED
  BY <1>1, <1>6 DEF Counts

LEMMA StepCounts ==
  ASSUME Core, [Next]_vars, NEW e \in Events
  PROVE  Counts(e)
<1>1. ASSUME job' = job, retry' = retry PROVE Counts(e)
  BY <1>1, TryingDef, TryingDefNext DEF Counts
<1>2. ASSUME NEW p \in Processors, Abandon(p) PROVE Counts(e)
  <2>1. /\ job'[p].todo = {} /\ job'[p].at = None /\ retry' = retry
        /\ \A q \in Processors \ {p} : job'[q] = job[q]
    BY <1>2, JobTypes, IdleJob DEF Abandon, rows
  <2>2. QED
    BY <2>1, TriesNoMore DEF Counts
<1>3. CASE UNCHANGED vars
  BY <1>1, <1>3 DEF vars
<1>4. CASE \E p \in Processors : ClaimLost(p)
  BY <1>1, <1>4 DEF ClaimLost, MarkProcessing
<1>5. CASE \E x \in Events : Save(x) \/ BackoffEnds(x) \/ GrowOld(x)
  BY <1>1, <1>5 DEF Save, BackoffEnds, GrowOld
<1>6. CASE RecoverProcessing
  BY <1>1, <1>6 DEF RecoverProcessing
<1>7. QED
  BY <1>2, <1>3, <1>4, <1>5, <1>6, WorkCounts, ClaimCounts DEF Next, Process

LEMMA AttemptsNext == Core /\ AttemptsLeft /\ [Next]_vars => AttemptsLeft'
<1> SUFFICES ASSUME Core, AttemptsLeft, [Next]_vars, NEW e \in Events, retry'[e] >= MaxRetry
             PROVE  retry'[e] + Cardinality(Trying(e)') <= Top
  BY DEF AttemptsLeft, Top
<1>1. QED
  BY StepCounts, AttemptsStep

LEMMA InboxInit == Init => IInv
<1>1. Init => AttemptsLeft
  BY InboxAssumption DEF Init, AttemptsLeft
<1>2. QED
  BY <1>1, CoreInit DEF Core, IInv

LEMMA InboxNext == IInv /\ [Next]_vars => IInv'
<1>1. (IInv <=> Core /\ AttemptsLeft) /\ (IInv' <=> Core' /\ AttemptsLeft')
  BY DEF IInv, Core
<1>2. QED
  BY <1>1, CoreNext, AttemptsNext

-----------------------------------------------------------------------------
(* The theorems *)

\* What the workers of any number of processes may rely on: an event in a worker's
\* hands is being processed or was recovered from it, and a mail that was sent is
\* recorded or about to be.
THEOREM InboxInvariant == Spec => []IInv
BY InboxInit, InboxNext, PTL DEF Spec

\* No column leaves its type: in particular only a claim with retries left is
\* attempted (processEvent).
THEOREM InboxTypes == Spec => []TypeOK
<1>1. IInv => TypeOK
  BY DEF IInv
<1>2. QED
  BY InboxInvariant, <1>1, PTL

\* Claims of concurrent workers are disjoint until the recovery takes a hand
\* (Claim, RecoverProcessing).
THEOREM ClaimsDisjoint == Spec => []SingleHolder
<1>1. IInv => SingleHolder
  BY DEF IInv
<1>2. QED
  BY InboxInvariant, <1>1, PTL

\* No customer gets a mail twice, unless a worker was slower than the recovery or
\* the first mail was sent and nobody recorded it (ProcessInbox, sendMail).
THEOREM OneMail == Spec => []MailedOnce
<1>1. IInv => MailedOnce
  BY DEF IInv
<1>2. QED
  BY InboxInvariant, <1>1, PTL

\* An event that is processed had its mail sent (MarkProcessed).
THEOREM ProcessedWasMailed == Spec => []MailedIfProcessed
<1>1. IInv => MailedIfProcessed
  BY DEF IInv
<1>2. QED
  BY InboxInvariant, <1>1, PTL

\* Workers that overlap on an event spend one attempt each at most beyond its
\* retries (IncrementRetryCount counts on the row, the worker looks at its claim).
THEOREM RetriesEnd == Spec => []RetriesBounded
<1>1. ASSUME IInv, NEW e \in Events
      PROVE  retry[e] <= Top
  <2>1. retry[e] \in Nat /\ MaxRetry \in Nat /\ Cardinality(Trying(e)) \in Nat
    BY <1>1, InboxAssumption, ProcessorSets DEF IInv, TypeOK, Trying
  <2>2. retry[e] >= MaxRetry => retry[e] + Cardinality(Trying(e)) <= Top
    BY <1>1 DEF IInv, AttemptsLeft
  <2>3. QED
    BY <2>1, <2>2, TopIs
<1>2. IInv => RetriesBounded
  BY <1>1 DEF RetriesBounded
<1>3. QED
  BY InboxInvariant, <1>2, PTL

LEMMA FinalStep ==
  ASSUME Core, [Next]_vars, NEW e \in Events, status[e] \in Final, status'[e] # status[e]
  PROVE  e \in retaken
<1>1. status[e] \in {"PROCESSED", "FAILED"}
  BY DEF Final
<1>2. ASSUME NEW p \in Processors, e \in Holding(p) PROVE e \in retaken
  BY <1>1, <1>2 DEF Core, HeldOK
<1>3. ASSUME NEW p \in Processors, Work(p) PROVE e \in retaken
  <2>1. PICK x \in Holding(p) : \A y \in Events \ {x} : status'[y] = status[y]
    <3>1. ASSUME NEW c \in job[p].todo, MarkFailed(p, c)
          PROVE  c.event \in Holding(p) /\ \A y \in Events \ {c.event} : status'[y] = status[y]
      BY <3>1, HoldingDef DEF MarkFailed, Core, TypeOK
    <3>2. ASSUME NEW c \in job[p].todo, NEW sent \in BOOLEAN, NEW ok \in BOOLEAN,
                 SendMail(p, c, sent, ok)
          PROVE  c.event \in Holding(p) /\ \A y \in Events \ {c.event} : status'[y] = status[y]
      BY <3>2, HoldingDef DEF SendMail, rows
    <3>3. ASSUME MarkProcessed(p) \/ MarkPending(p)
          PROVE  /\ job[p].at.event \in Holding(p)
                 /\ \A y \in Events \ {job[p].at.event} : status'[y] = status[y]
      BY <3>3, HoldingDef DEF MarkProcessed, MarkPending, Core, TypeOK
    <3>4. QED
      BY <1>3, <3>1, <3>2, <3>3 DEF Work
  <2>2. e = x
    BY <2>1
  <2>3. QED
    BY <1>2, <2>1, <2>2
<1>4. CASE UNCHANGED vars \/ \E p \in Processors : Abandon(p) \/ Claim(p) \/ ClaimLost(p)
  BY <1>1, <1>4
     DEF vars, Abandon, rows, Claim, ClaimLost, MarkProcessing, Claimable
<1>5. CASE RecoverProcessing
  BY <1>1, <1>5 DEF RecoverProcessing, Recoverable
<1>6. ASSUME NEW x \in Events, Save(x) \/ BackoffEnds(x) \/ GrowOld(x) PROVE e \in retaken
  BY <1>1, <1>6 DEF Save, BackoffEnds, GrowOld, Core, TypeOK
<1>7. QED
  BY <1>3, <1>4, <1>5, <1>6 DEF Next, Process

\* A processed or failed event is taken up again only when it was recovered under
\* the hands of a worker that marks it after all (MarkProcessed, MarkPending,
\* MarkFailed and Save do not look at the status, or refuse what is there).
THEOREM FinalIsFinal == Spec => FinalStays
<1>1. IInv /\ [Next]_vars =>
        \A e \in Events : status[e] \in Final /\ status'[e] # status[e] => e \in retaken
  BY FinalStep DEF IInv, Core
<1>2. QED
  BY InboxInvariant, <1>1, PTL DEF Spec, FinalStays

-----------------------------------------------------------------------------
(* The rows of the inbox *)

Stored == {e \in Events : status[e] # "NONE"}

\* What a worker has in its hands has a row.
HeldStored == \A p \in Processors : Holding(p) \subseteq Stored

\* The workers and the recovery neither insert rows nor delete them.
LEMMA ProcessRows ==
  ASSUME IInv, HeldStored, Process
  PROVE  Stored' = Stored /\ HeldStored'
<1> USE DEF Core
<1>c. Core
  BY DEF IInv
<1>1. ASSUME NEW p \in Processors, NEW c \in Claims, Proceed(p, c),
             \/ job[p].at = c
             \/ c \in job[p].todo /\ job[p].at = None,
             NEW s \in Statuses \ {"NONE"}, status' = [status EXCEPT ![c.event] = s]
      PROVE  Stored' = Stored /\ HeldStored'
  <2>1. /\ c.event \in Holding(p)
        /\ \A q \in Processors : Holding(q)' \subseteq Holding(q)
    BY <1>c, <1>1, ProceedStep
  <2>2. c.event \in Stored /\ status \in [Events -> Statuses]
    BY <1>c, <2>1 DEF HeldStored, TypeOK
  <2>3. Stored' = Stored
    BY <1>1, <2>2 DEF Stored
  <2>4. QED
    BY <2>1, <2>3 DEF HeldStored
<1>2. ASSUME NEW p \in Processors, NEW c \in job[p].todo, MarkFailed(p, c)
      PROVE  Stored' = Stored /\ HeldStored'
  <2>1. /\ c \in Claims /\ job[p].at = None /\ Proceed(p, c)
        /\ status' = [status EXCEPT ![c.event] = "FAILED"]
    BY <1>c, <1>2, JobTypes DEF MarkFailed
  <2>2. QED
    BY <1>1, <2>1 DEF Statuses
<1>3. ASSUME NEW p \in Processors, MarkProcessed(p) \/ MarkPending(p)
      PROVE  Stored' = Stored /\ HeldStored'
  <2>1. job[p].at \in Claims /\ Proceed(p, job[p].at)
    BY <1>c, <1>3, JobTypes DEF MarkProcessed, MarkPending
  <2>2. PICK s \in {"PROCESSED", "PENDING"} :
          status' = [status EXCEPT ![job[p].at.event] = s]
    BY <1>3 DEF MarkProcessed, MarkPending
  <2>3. QED
    BY <1>1, <2>1, <2>2 DEF Statuses
<1>4. ASSUME NEW p \in Processors, NEW c \in job[p].todo, NEW sent \in BOOLEAN,
             NEW ok \in BOOLEAN, SendMail(p, c, sent, ok)
      PROVE  Stored' = Stored /\ HeldStored'
  <2>1. /\ status' = status /\ job[p] \in Jobs
        /\ job' = [job EXCEPT ![p] = [job[p] EXCEPT !.todo = job[p].todo \ {c}, !.at = c, !.sent = ok]]
    BY <1>c, <1>4, JobTypes DEF SendMail, rows
  <2>2. /\ job'[p].todo = job[p].todo \ {c} /\ job'[p].at = c
        /\ \A q \in Processors \ {p} : job'[q] = job[q]
    BY <1>c, <2>1, JobTypes DEF Jobs
  <2>3. \A q \in Processors : Holding(q)' \subseteq Holding(q)
    BY <2>2, HoldingDef, HoldingDefNext
  <2>4. QED
    BY <2>1, <2>3 DEF HeldStored, Stored
<1>5. ASSUME NEW p \in Processors, Claim(p) \/ ClaimLost(p)
      PROVE  Stored' = Stored /\ HeldStored'
  <2>1. PICK S \in SUBSET Events :
          /\ S \subseteq Stored /\ Holding(p) = {}
          /\ status' = [e \in Events |-> IF e \in S THEN "PROCESSING" ELSE status[e]]
          /\ \/ job' = job
             \/ job' = [job EXCEPT ![p].todo = {[event |-> e, retry |-> retry[e]] : e \in S}]
    BY <1>5 DEF Claim, ClaimLost, MarkProcessing, Claimable, Stored
  <2>2. Stored' = Stored
    BY <2>1 DEF Stored
  <2>3. \A q \in Processors : Holding(q)' \subseteq Holding(q) \cup S
    <3>1. CASE job' = job
      BY <3>1 DEF Holding
    <3>2. CASE job' = [job EXCEPT ![p].todo = {[event |-> e, retry |-> retry[e]] : e \in S}]
      <4>1. /\ job'[p].todo = {[event |-> e, retry |-> retry[e]] : e \in S}
            /\ job'[p].at = job[p].at
            /\ \A q \in Processors \ {p} : job'[q] = job[q]
        BY <1>c, <3>2, JobTypes DEF Jobs
      <4>2. QED
        BY <4>1, HoldingDef, HoldingDefNext
    <3>3. QED
      BY <2>1, <3>1, <3>2
  <2>4. QED
    BY <2>1, <2>2, <2>3 DEF HeldStored
<1>6. ASSUME NEW p \in Processors, Abandon(p)
      PROVE  Stored' = Stored /\ HeldStored'
  <2>1. /\ status' = status /\ job'[p] = Idle
        /\ \A q \in Processors \ {p} : job'[q] = job[q]
    BY <1>c, <1>6, JobTypes DEF Abandon, rows
  <2>2. \A q \in Processors : Holding(q)' \subseteq Holding(q)
    BY <2>1, IdleJob, HoldingDef, HoldingDefNext
  <2>3. QED
    BY <2>1, <2>2 DEF HeldStored, Stored
<1>7. ASSUME RecoverProcessing
      PROVE  Stored' = Stored /\ HeldStored'
  <2>1. /\ status' = [e \in Events |-> IF e \in Recoverable THEN "PENDING" ELSE status[e]]
        /\ Recoverable \subseteq Stored /\ job' = job
    BY <1>c, <1>7 DEF RecoverProcessing, Recoverable, Stored, TypeOK
  <2>2. Stored' = Stored
    BY <2>1 DEF Stored
  <2>3. QED
    BY <2>1, <2>2 DEF HeldStored, Holding
<1>8. ASSUME NEW e \in Events, BackoffEnds(e) \/ GrowOld(e)
      PROVE  Stored' = Stored /\ HeldStored'
  BY <1>8 DEF BackoffEnds, GrowOld, HeldStored, Stored, Holding
<1>9. QED
  BY <1>2, <1>3, <1>4, <1>5, <1>6, <1>7, <1>8 DEF Process, Work

\* Every event a worker has is in the inbox: no row goes away under its hands.
THEOREM HeldHaveRows == Spec => []HeldStored
<1>1. Init => HeldStored
  BY IdleJob, HoldingDef DEF Init, HeldStored
<1>2. ASSUME IInv, NEW e \in Events, Save(e), HeldStored
      PROVE  HeldStored'
  BY <1>2 DEF Save, HeldStored, Stored, Holding, IInv, TypeOK
<1>3. IInv /\ HeldStored /\ [Next]_vars => HeldStored'
  BY <1>2, ProcessRows DEF Next, vars, HeldStored, Stored, Holding
<1>4. QED
  BY InboxInvariant, <1>1, <1>3, PTL DEF Spec
=============================================================================
