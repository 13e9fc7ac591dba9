------------------------------ MODULE ConnPool ------------------------------
(***************************************************************************)
(* The connection pool the requests of one process share. A transaction    *)
(* keeps its connection to its end; a SUCCESS callback, whose transaction  *)
(* holds the row of its payment, reads the order's items through the pool  *)
(* and so needs a second one. Waiting for a connection has no limit but    *)
(* the request's context. The worker that expires payments keeps a         *)
(* connection, too, while it waits for a row that a callback holds.        *)
(***************************************************************************)
EXTENDS Integers, FiniteSets

CONSTANTS
  Requests,   \* requests the process serves at a time
  Payments,
  Size,       \* connections of the pool
  None

Kinds  == {"create", "confirm", "release", "patch"}
Phases == {"idle", "begin", "lock", "items", "reading", "commit"}

ASSUME ConnPoolAssumption ==
  Size \in Nat \ {0} /\ None \notin Payments \cup Kinds /\ IsFiniteSet(Requests)

VARIABLES
  req,       \* each request: what it does, for which payment, how far it is
  sweep,     \* the expiration worker: how far it is, the payment whose row it
             \* updates next, those after it, and those it has updated
  settled    \* payments that are no longer pending

vars == <<req, sweep, settled>>

Idle == [phase |-> "idle", kind |-> None, payment |-> None]

NoSweep == [phase |-> "idle", want |-> None, todo |-> {}, rows |-> {}]

At(phases) == {r \in Requests : req[r].phase \in phases}

SweepOpen == sweep.phase \in {"update", "commit"}

\* Each transaction has one connection, one that reads items a second.
Used ==
  Cardinality(At({"lock", "items", "reading", "commit"})) + Cardinality(At({"reading"}))
  + (IF SweepOpen THEN 1 ELSE 0)
Free == Size - Used

\* Requests that hold the row of payment o.
Holders(o) == {r \in At({"items", "reading", "commit"}) : req[r].payment = o}

TypeOK ==
  /\ req \in [Requests -> [phase : Phases, kind : Kinds \cup {None},
                           payment : Payments \cup {None}]]
  /\ sweep \in [phase : {"idle", "begin", "update", "commit"}, want : Payments \cup {None},
               todo : SUBSET Payments, rows : SUBSET Payments]
  /\ settled \subseteq Payments
  /\ Used <= Size

Init == req = [r \in Requests |-> Idle] /\ sweep = NoSweep /\ settled = {}

-----------------------------------------------------------------------------
Become(r, phase) == req' = [req EXCEPT ![r].phase = phase]

\* The request ends, and its connection goes back to the pool.
End(r) == req' = [req EXCEPT ![r] = Idle]

Arrive(r, kind, o) ==
  /\ req[r].phase = "idle"
  /\ kind = "create" <=> o = None
  /\ req' = [req EXCEPT ![r] = [phase |-> "begin", kind |-> kind, payment |-> o]]
  /\ UNCHANGED <<sweep, settled>>

\* mutant: the pool has no limit.
BeginUnlimited(r) ==
  /\ req[r].phase = "begin"
  /\ Become(r, IF req[r].kind = "create" THEN "commit" ELSE "lock")
  /\ UNCHANGED <<sweep, settled>>

\* db.Begin waits for a connection.
Begin(r) ==
  /\ req[r].phase = "begin" /\ Free > 0
  /\ Become(r, IF req[r].kind = "create" THEN "commit" ELSE "lock")
  /\ UNCHANGED <<sweep, settled>>

\* Nobody else has a lock on the row of payment o.
RowFree(o) == Holders(o) = {} /\ o \notin sweep.rows

\* mutant: a callback that is ignored leaves its transaction open.
IgnoredStaysOpen(r) ==
  /\ req[r].phase = "lock" /\ req[r].kind # "patch" /\ RowFree(req[r].payment)
  /\ req[r].payment \notin settled
  /\ Become(r, IF req[r].kind = "confirm" THEN "items" ELSE "commit")
  /\ UNCHANGED <<sweep, settled>>

\* mutant: the payment is read without FOR UPDATE.
ReadPayment(r) ==
  /\ req[r].phase = "lock" /\ req[r].kind # "patch"
  /\ IF req[r].payment \in settled THEN End(r)
     ELSE Become(r, IF req[r].kind = "confirm" THEN "items" ELSE "commit")
  /\ UNCHANGED <<sweep, settled>>

\* SELECT ... FOR UPDATE waits for the row; a callback for a payment that is not
\* pending any more is ignored. The items of an order to be released are read in
\* the transaction, those of one to be confirmed are not.
LockPayment(r) ==
  /\ req[r].phase = "lock" /\ req[r].kind # "patch" /\ RowFree(req[r].payment)
  /\ IF req[r].payment \in settled THEN End(r)
     ELSE Become(r, IF req[r].kind = "confirm" THEN "items" ELSE "commit")
  /\ UNCHANGED <<sweep, settled>>

\* PATCH is one UPDATE on a connection of its own; it waits for the row as well, and
\* writes any status, also that of a pending payment.
UpdateStatus(r) ==
  /\ req[r].phase = "lock" /\ req[r].kind = "patch" /\ RowFree(req[r].payment)
  /\ End(r)
  /\ settled' \in {settled \cup {req[r].payment}, settled \ {req[r].payment}}
  /\ UNCHANGED sweep

\* ListOrderItems waits for a second connection ...
ListOrderItems(r) ==
  /\ req[r].phase = "items" /\ Free > 0
  /\ Become(r, "reading")
  /\ UNCHANGED <<sweep, settled>>

\* ... and gives it back.
ItemsRead(r) ==
  /\ req[r].phase = "reading"
  /\ Become(r, "commit")
  /\ UNCHANGED <<sweep, settled>>

Commit(r) ==
  /\ req[r].phase = "commit"
  /\ End(r)
  /\ settled' = settled \cup ({req[r].payment} \ {None})
  /\ UNCHANGED sweep

\* The two-second context of CreateOrder runs out.
Timeout(r) ==
  /\ req[r].kind = "create"
  /\ End(r) /\ UNCHANGED <<sweep, settled>>

\* The caller closes its connection: the context of the request is done.
HangUp(r) ==
  /\ req[r].phase # "idle"
  /\ End(r) /\ UNCHANGED <<sweep, settled>>

\* The worker's turn; its ticker drops the ticks that come while it is busy.
Tick ==
  /\ sweep.phase = "idle"
  /\ sweep' = [sweep EXCEPT !.phase = "begin"]
  /\ UNCHANGED <<req, settled>>

\* The worker has updated rows and has those of todo before it.
Sweep(todo, rows) ==
  \/ /\ todo = {}
     /\ sweep' = [phase |-> "commit", want |-> None, todo |-> {}, rows |-> rows]
  \/ \E o \in todo :
       sweep' = [phase |-> "update", want |-> o, todo |-> todo \ {o}, rows |-> rows]

\* It waits for a connection, then its sub-select finds the payments that are
\* pending and overdue, without a lock.
SweepBegin ==
  /\ sweep.phase = "begin" /\ Free > 0
  /\ \E overdue \in SUBSET (Payments \ settled) : Sweep(overdue, {})
  /\ UNCHANGED <<req, settled>>

\* The UPDATE waits for one row after the other.
SweepRow ==
  /\ sweep.phase = "update" /\ Holders(sweep.want) = {}
  /\ Sweep(sweep.todo, sweep.rows \cup {sweep.want})
  /\ UNCHANGED <<req, settled>>

\* The events are written in the same transaction.
SweepCommit ==
  /\ sweep.phase = "commit"
  /\ sweep' = NoSweep
  /\ settled' = settled \cup sweep.rows
  /\ UNCHANGED req

SweepWork == SweepBegin \/ SweepRow \/ SweepCommit

Work(r) ==
  \/ Begin(r) \/ LockPayment(r) \/ UpdateStatus(r)
  \/ ListOrderItems(r) \/ ItemsRead(r) \/ Commit(r)

Next ==
  \/ \E r \in Requests :
       \/ \E kind \in Kinds, o \in Payments \cup {None} : Arrive(r, kind, o)
       \/ Work(r) \/ Timeout(r) \/ HangUp(r)
  \/ Tick \/ SweepWork

Spec == Init /\ [][Next]_vars

\* Both the pool and row locks are handed on in the order they were asked for.
Fairness ==
  /\ \A r \in Requests : SF_vars(Work(r)) /\ WF_vars(Timeout(r))
  /\ SF_vars(SweepWork)

FairSpec == Spec /\ Fairness

-----------------------------------------------------------------------------
\* Payments whose row is held by a SUCCESS callback that waits for a second connection.
Stuck == {o \in Payments : Holders(o) \cap At({"items"}) # {}}

\* The worker waits for the row of such a callback.
SweepStuck == sweep.phase = "update" /\ sweep.want \in Stuck

\* Every connection is held by such a SUCCESS callback, or by a request or the
\* worker that waits for its row, or by a request that waits for the worker.
Exhausted ==
  /\ Free <= 0
  /\ \A r \in At({"lock", "items", "reading", "commit"}) :
       \/ req[r].phase = "items"
       \/ req[r].phase = "lock" /\ req[r].payment \in Stuck \cup sweep.rows
  /\ SweepOpen => SweepStuck

\* Waiting for connections and for rows always ends, whatever callbacks, repeated
\* callbacks, checkouts, PATCHes and runs of the worker are mixed, unless the pool is
\* exhausted: there is no other cycle of waiting transactions.
RequestsEnd ==
  /\ \A r \in Requests : req[r].phase # "idle" ~> req[r].phase = "idle" \/ Exhausted
  /\ sweep.phase # "idle" ~> sweep.phase = "idle" \/ Exhausted

\* What a request waits for that cannot go on by itself.
Waits(r) ==
  \/ req[r].phase \in {"begin", "items"} /\ Free <= 0
  \/ req[r].phase = "lock" /\ ~RowFree(req[r].payment)

SweepWaits ==
  \/ sweep.phase = "begin" /\ Free <= 0
  \/ sweep.phase = "update" /\ Holders(sweep.want) # {}

\* When every request waits, and the worker if it runs, the pool is exhausted.
StuckMeansExhausted ==
  LET Busy == {r \in Requests : req[r].phase # "idle"} IN
  /\ Busy # {} \/ sweep.phase # "idle"
  /\ \A r \in Busy : Waits(r)
  /\ sweep.phase # "idle" => SweepWaits
  => Exhausted

\* And nothing in the process resolves that: no transaction is the database's
\* deadlock victim and no wait times out, only a caller that hangs up helps.
OnlyHangUpHelps ==
  [][Exhausted /\ ~Exhausted' => \E r \in At({"lock", "items"}) : HangUp(r)]_vars

(* The inductive invariant *)

\* A checkout locks no payment and does not read its items through the pool.
KindsOK ==
  \A r \in Requests : LET j == req[r] IN
    /\ j.kind = "create" <=> j.payment = None /\ j.phase # "idle"
    /\ j.kind = "create" => j.phase \in {"begin", "commit"}
    /\ j.phase \in {"items", "reading"} => j.kind = "confirm"

\* The row of a payment is held once, by a callback that found it pending or by
\* the worker.
RowsOK ==
  \A o \in Payments :
    /\ \A r, s \in Holders(o) : r = s
    /\ Holders(o) # {} => o \notin settled \cup sweep.rows

\* The worker holds rows in its transaction only, and waits for one row at a time.
SweepOK ==
  /\ sweep.rows # {} => SweepOpen
  /\ sweep.phase = "update" <=> sweep.want # None

IInv == TypeOK /\ KindsOK /\ RowsOK /\ SweepOK
=============================================================================
