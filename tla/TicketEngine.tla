----------------------------- MODULE TicketEngine -----------------------------
(***************************************************************************)
(* The enrolment and order engine for one published activity: the HTTP     *)
(* handlers that create enrolments and pay orders, the Kafka topic between *)
(* them and the worker, the worker that writes MySQL, and the scanner that *)
(* closes expired orders.  All of them are goroutines of one server        *)
(* process (cmd/server/main.go) over Redis, Kafka and MySQL, which survive *)
(* the process.                                                            *)
(*                                                                         *)
(* Every seat taken from the Redis stock is in exactly one place: held by  *)
(* a goroutine, in the producer's batch, unread in the topic, or behind a  *)
(* PENDING or PAID order.  The history variables minted and leaked count   *)
(* the steps at which the code makes a second claim to a seat or forgets   *)
(* one.  Faults and MaxFaults say which faults may strike, and how many.    *)
(***************************************************************************)
EXTENDS StockEngine, Sequences

CONSTANTS Capacity,      \* seats loaded by WarmUp when the activity was published
          Requests,      \* goroutines serving HTTP requests
          Worker,        \* the goroutine running EnrollmentWorker.Run
          Scanner,       \* the goroutine running ScanExpired
          NoUser,        \* the user of an idle goroutine
          TimelyPay,     \* TRUE: no Pay call is in progress when its order expires
          MaxUncommitted,\* bound: messages handed out since the last offset commit
          Faults,        \* the kinds of fault that may strike
          MaxFaults      \* bound: how many strike in a behaviour

FaultKinds == {"lost", "repeated", "redelivered", "crash", "redis", "db"}

ASSUME EngineAssumption ==
  /\ Capacity \in Nat
  /\ IsFiniteSet(Requests)
  /\ Worker # Scanner /\ Worker \notin Requests /\ Scanner \notin Requests
  /\ NoUser \notin Users
  /\ TimelyPay \in BOOLEAN
  /\ MaxUncommitted \in Nat
  /\ Faults \subseteq FaultKinds
  /\ MaxFaults \in Nat

VARIABLES
  open,       \* the activity is PUBLISHED and inside its enrolment window
  job,        \* job[p]: where goroutine p stands, and for which user
  outbox,     \* users whose message is in the asynchronous producer's batch
  topic,      \* the topic from the group's committed offset on
  cursor,     \* how many messages of topic the reader has handed out
  order,      \* order[u]: status of u's order row, "none" if there is no row;
              \* the enrolment row is inserted in the same transaction
  overdue,    \* users whose order's expired_at is in the past
  expired,    \* the orders ListExpired returned that are still to be closed
  auditCount, \* activities.enroll_count
  notice,     \* notice[u]: the last enrolment notification sent to u
  minted,     \* history: second claims to a seat
  leaked,     \* history: forgotten claims
  struck      \* faults so far

mysqlVars == <<order, overdue, auditCount, notice>>
kafkaVars == <<outbox, topic, cursor>>
countVars == <<minted, leaked>>
vars == <<redisVars, open, job, kafkaVars, mysqlVars, expired, countVars, struck>>

Procs == Requests \cup {Worker, Scanner}
Places == {"idle", "checked", "reserved", "paying", "handling", "succeeded",
           "failed", "scanning", "refund", "unmark"}
Idle == [at |-> "idle", user |-> NoUser]

FinishHalfway(p) == job' = [job EXCEPT ![p].at = "idle"]        \* faulty Finish

At(p, place) == job[p].at = place
Goto(p, place, u) == job' = [job EXCEPT ![p] = [at |-> place, user |-> u]]
Finish(p) == job' = [job EXCEPT ![p] = Idle]

Live == {u \in Users : order[u] \in {"PENDING", "PAID"}}
Unread == SubSeq(topic, cursor + 1, Len(topic))

\* A goroutine holds a seat between taking it and handing it on.
Holding == {p \in Procs : job[p].at \in {"reserved", "handling", "refund"}}
Seats == Cardinality(Holding) + Len(outbox) + (Len(topic) - cursor) + Cardinality(Live)

Spend(kind) ==
  /\ kind \in Faults /\ struck < MaxFaults
  /\ struck' = struck + 1

Init ==
  /\ stock = Capacity
  /\ enrolled = {}
  /\ open = TRUE
  /\ job = [p \in Procs |-> Idle]
  /\ outbox = <<>> /\ topic = <<>> /\ cursor = 0
  /\ order = [u \in Users |-> "none"]
  /\ overdue = {}
  /\ expired = {}
  /\ auditCount = 0
  /\ notice = [u \in Users |-> "none"]
  /\ minted = 0 /\ leaked = 0
  /\ struck = 0
-------------------------------------------------------------------------------
(* Create: read the activity, run the script, hand a message to Kafka.     *)

\* FindByID and the checks of status and window.
Submit(r, u) ==
  /\ At(r, "idle") /\ open
  /\ Goto(r, "checked", u)
  /\ UNCHANGED <<redisVars, open, kafkaVars, mysqlVars, expired, countVars, struck>>

\* The script takes a seat.
Take(r) ==
  /\ At(r, "checked")
  /\ TryEnroll(job[r].user)
  /\ Goto(r, "reserved", job[r].user)
  /\ UNCHANGED <<open, kafkaVars, mysqlVars, expired, countVars, struck>>

\* The script answers -2 or -1, or never ran: the request ends.
Refuse(r) ==
  /\ At(r, "checked")
  /\ \/ AlreadyEnrolled(job[r].user) /\ UNCHANGED struck
     \/ StockDepleted(job[r].user) /\ UNCHANGED struck
     \/ Spend("redis")
  /\ Finish(r)
  /\ UNCHANGED <<redisVars, open, kafkaVars, mysqlVars, expired, countVars>>

\* The script ran but its reply was lost: the request ends with an error
\* and nobody rolls back.
TakeReplyLost(r) ==
  /\ At(r, "checked")
  /\ TryEnroll(job[r].user)
  /\ Spend("redis")
  /\ leaked' = leaked + 1
  /\ Finish(r)
  /\ UNCHANGED <<open, kafkaVars, mysqlVars, expired, minted>>

\* WriteMessages of an Async writer returns nil before the message is sent.
Produce(r) ==
  /\ At(r, "reserved")
  /\ outbox' = Append(outbox, job[r].user)
  /\ Finish(r)
  /\ UNCHANGED <<redisVars, open, topic, cursor, mysqlVars, expired, countVars, struck>>

\* WriteMessages fails at once (no metadata for the topic): roll back.
ProduceFails(r) ==
  /\ At(r, "reserved")
  /\ Goto(r, "refund", job[r].user)
  /\ UNCHANGED <<redisVars, open, kafkaVars, mysqlVars, expired, countVars, struck>>

CloseWindow ==
  /\ open
  /\ open' = FALSE
  /\ UNCHANGED <<redisVars, job, kafkaVars, mysqlVars, expired, countVars, struck>>
-------------------------------------------------------------------------------
(* Kafka.  One partition; the reader commits offsets in the background.    *)

Deliver ==
  /\ outbox # <<>>
  /\ outbox' = Tail(outbox)
  /\ topic' = Append(topic, Head(outbox))
  /\ UNCHANGED <<redisVars, open, job, cursor, mysqlVars, expired, countVars, struck>>

\* The broker stored the batch but the writer saw an error and sends it again.
DeliverAndRetry ==
  /\ outbox # <<>>
  /\ Spend("repeated")
  /\ topic' = Append(topic, Head(outbox))
  /\ minted' = minted + 1
  /\ UNCHANGED <<redisVars, open, job, outbox, cursor, mysqlVars, expired, leaked>>

\* The writer gives the batch up; Create returned long ago.
LoseMessage ==
  /\ outbox # <<>>
  /\ Spend("lost")
  /\ outbox' = Tail(outbox)
  /\ leaked' = leaked + 1
  /\ UNCHANGED <<redisVars, open, job, topic, cursor, mysqlVars, expired, minted>>

\* The reader's ticker commits offsets it handed out, finished or not.
CommitOffsets ==
  \E k \in 1..cursor :
    /\ topic' = SubSeq(topic, k + 1, Len(topic))
    /\ cursor' = cursor - k
    /\ UNCHANGED <<redisVars, open, job, outbox, mysqlVars, expired, countVars, struck>>

\* The group hands the partition out again from the committed offset.
Reread ==
  /\ cursor > 0
  /\ Spend("redelivered")
  /\ minted' = minted + cursor
  /\ cursor' = 0
  /\ UNCHANGED <<redisVars, open, job, outbox, topic, mysqlVars, expired, leaked>>

-------------------------------------------------------------------------------
(* EnrollmentWorker.                                                       *)

ReadMessage ==
  /\ At(Worker, "idle")
  /\ cursor < Len(topic) /\ cursor < MaxUncommitted
  /\ cursor' = cursor + 1
  /\ Goto(Worker, "handling", topic[cursor + 1])
  /\ UNCHANGED <<redisVars, open, outbox, topic, mysqlVars, expired, countVars, struck>>

InsertRows(u) ==
  /\ order[u] = "none"
  /\ order' = [order EXCEPT ![u] = "PENDING"]
  /\ UNCHANGED <<overdue, auditCount, notice>>

\* Faulty variants: no success notice; no compensation; retry in place.
PersistSilently ==
  /\ At(Worker, "handling")
  /\ InsertRows(job[Worker].user)
  /\ Finish(Worker)
  /\ UNCHANGED <<redisVars, open, kafkaVars, expired, countVars, struck>>
PersistFailsUncompensated ==
  /\ At(Worker, "handling")
  /\ Goto(Worker, "failed", job[Worker].user)
  /\ UNCHANGED <<redisVars, open, kafkaVars, mysqlVars, expired, countVars, struck>>
PersistRetries == At(Worker, "handling") /\ UNCHANGED vars

\* The transaction inserts the enrolment and its order.
Persist ==
  /\ At(Worker, "handling")
  /\ InsertRows(job[Worker].user)
  /\ Goto(Worker, "succeeded", job[Worker].user)
  /\ UNCHANGED <<redisVars, open, kafkaVars, expired, countVars, struck>>

\* The transaction fails: the user already has a row (unique index), an
\* order number collides, or MySQL reports any other error.
PersistFails ==
  /\ At(Worker, "handling")
  /\ Goto(Worker, "refund", job[Worker].user)
  /\ UNCHANGED <<redisVars, open, kafkaVars, mysqlVars, expired, countVars, struck>>

\* The commit took effect but its answer was lost: the rows stay and the
\* worker compensates all the same.
PersistAnswerLost ==
  /\ At(Worker, "handling")
  /\ InsertRows(job[Worker].user)
  /\ Spend("db")
  /\ minted' = minted + 1
  /\ Goto(Worker, "refund", job[Worker].user)
  /\ UNCHANGED <<redisVars, open, kafkaVars, expired, leaked>>

\* NotifyEnrollSuccess or NotifyEnrollFail; its own failure is only logged.
Notify ==
  /\ job[Worker].at \in {"succeeded", "failed"}
  /\ \/ /\ notice' = [notice EXCEPT ![job[Worker].user] =
                        IF At(Worker, "succeeded") THEN "success" ELSE "fail"]
        /\ UNCHANGED struck
     \/ Spend("db") /\ UNCHANGED notice
  /\ Finish(Worker)
  /\ UNCHANGED <<redisVars, open, kafkaVars, order, overdue, auditCount, expired, countVars>>
-------------------------------------------------------------------------------
(* Orders: Pay reads, checks, then updates by id alone.                    *)

PayCheckLate(r, u) ==                                            \* faulty PayCheck
  /\ At(r, "idle")
  /\ order[u] = "PENDING"
  /\ Goto(r, "paying", u)
  /\ UNCHANGED <<redisVars, open, kafkaVars, mysqlVars, expired, countVars, struck>>

PayCheck(r, u) ==
  /\ At(r, "idle")
  /\ order[u] = "PENDING" /\ u \notin overdue
  /\ Goto(r, "paying", u)
  /\ UNCHANGED <<redisVars, open, kafkaVars, mysqlVars, expired, countVars, struck>>

PayWrite(r) ==
  LET u == job[r].user IN
  /\ At(r, "paying")
  /\ order' = [order EXCEPT ![u] = "PAID"]
  /\ minted' = IF order[u] = "CLOSED" THEN minted + 1 ELSE minted
  /\ Finish(r)
  /\ UNCHANGED <<redisVars, open, kafkaVars, overdue, auditCount, notice, expired, leaked, struck>>

\* UpdateStatus failed: the call ends with an error.
PayFails(r) ==
  /\ At(r, "paying")
  /\ Finish(r)
  /\ UNCHANGED <<redisVars, open, kafkaVars, mysqlVars, expired, countVars, struck>>

\* 15 minutes after the order was created.  The deadline of an order that is
\* no longer PENDING is never read again.
PassDeadline(u) ==
  /\ order[u] = "PENDING" /\ u \notin overdue
  /\ TimelyPay => \A r \in Requests : job[r] # [at |-> "paying", user |-> u]
  /\ overdue' = overdue \cup {u}
  /\ UNCHANGED <<redisVars, open, job, kafkaVars, order, auditCount, notice, expired, countVars, struck>>

(* ScanExpired: one query, then order by order.                            *)

\* Faulty variants: only while the window is open; no Rollback call.
ListExpiredWhileOpen ==
  /\ At(Scanner, "idle") /\ open
  /\ expired' = {u \in overdue : order[u] = "PENDING"}
  /\ Goto(Scanner, "scanning", NoUser)
  /\ UNCHANGED <<redisVars, open, kafkaVars, mysqlVars, countVars, struck>>
CloseOrderKeepsSeat(u) ==
  /\ At(Scanner, "scanning") /\ u \in expired
  /\ expired' = expired \ {u}
  /\ order' = [order EXCEPT ![u] = "CLOSED"]
  /\ UNCHANGED <<redisVars, open, job, kafkaVars, overdue, auditCount, notice, countVars, struck>>

ListExpired ==
  /\ At(Scanner, "idle")
  /\ expired' = {u \in overdue : order[u] = "PENDING"}
  /\ Goto(Scanner, "scanning", NoUser)
  /\ UNCHANGED <<redisVars, open, kafkaVars, mysqlVars, countVars, struck>>

\* UpdateStatus(CLOSED) and IncrementStock, which counts down to 0 at most.
CloseOrder(u) ==
  /\ At(Scanner, "scanning") /\ u \in expired
  /\ expired' = expired \ {u}
  /\ order' = [order EXCEPT ![u] = "CLOSED"]
  /\ auditCount' = IF auditCount > 0 THEN auditCount - 1 ELSE auditCount
  /\ Goto(Scanner, "refund", u)
  /\ UNCHANGED <<redisVars, open, kafkaVars, overdue, notice, countVars, struck>>

\* UpdateStatus failed: continue with the next order.
SkipOrder(u) ==
  /\ At(Scanner, "scanning") /\ u \in expired
  /\ expired' = expired \ {u}
  /\ UNCHANGED <<redisVars, open, job, kafkaVars, mysqlVars, countVars, struck>>

EndScan ==
  /\ At(Scanner, "scanning") /\ expired = {}
  /\ Finish(Scanner)
  /\ UNCHANGED <<redisVars, open, kafkaVars, mysqlVars, expired, countVars, struck>>
-------------------------------------------------------------------------------
(* StockEngine.Rollback, called by Create, by the worker and by the        *)
(* scanner; afterwards the worker notifies, the scanner goes on, and the   *)
(* request ends.  A failed call is only logged.                            *)

Resume(p) ==
  \/ p = Worker /\ Goto(p, "failed", job[p].user)
  \/ p = Scanner /\ Goto(p, "scanning", NoUser)
  \/ p \in Requests /\ Finish(p)

RollbackStockWhileOpen(p) ==                               \* faulty RollbackStock
  /\ At(p, "refund") /\ open
  /\ ReturnSeat
  /\ Goto(p, "unmark", job[p].user)
  /\ UNCHANGED <<open, kafkaVars, mysqlVars, expired, countVars, struck>>

RollbackStock(p) ==
  /\ At(p, "refund")
  /\ ReturnSeat
  /\ Goto(p, "unmark", job[p].user)
  /\ UNCHANGED <<open, kafkaVars, mysqlVars, expired, countVars, struck>>

RollbackMark(p) ==
  /\ At(p, "unmark")
  /\ Unmark(job[p].user)
  /\ Resume(p)
  /\ UNCHANGED <<open, kafkaVars, mysqlVars, expired, countVars, struck>>

\* Redis cannot be reached, before the INCR or between INCR and SREM.
RollbackFails(p) ==
  /\ job[p].at \in {"refund", "unmark"}
  /\ Spend("redis")
  /\ leaked' = IF At(p, "refund") THEN leaked + 1 ELSE leaked
  /\ Resume(p)
  /\ UNCHANGED <<redisVars, open, kafkaVars, mysqlVars, expired, minted>>

\* The reply to the pipeline was lost and the client library sends it again.
RollbackRepeated(p) ==
  /\ At(p, "refund")
  /\ Spend("redis")
  /\ ReturnSeat
  /\ minted' = minted + 1
  /\ UNCHANGED <<open, job, kafkaVars, mysqlVars, expired, leaked>>

\* The server process dies and is started again: goroutines and producer
\* batch are gone, the group resumes at the committed offset, and the messages
\* handed out since then come again.
Crash ==
  /\ Spend("crash")
  /\ job' = [p \in Procs |-> Idle]
  /\ outbox' = <<>> /\ cursor' = 0
  /\ expired' = {}
  /\ leaked' = leaked + Cardinality(Holding) + Len(outbox)
  /\ minted' = minted + cursor
  /\ UNCHANGED <<redisVars, open, topic, mysqlVars>>
-------------------------------------------------------------------------------
RequestStep(r) == Take(r) \/ Refuse(r) \/ Produce(r) \/ ProduceFails(r)
                    \/ PayWrite(r) \/ PayFails(r)
HandleMessage == Persist \/ PersistFails
Rollback(p) == RollbackStock(p) \/ RollbackMark(p)

Next ==
  \/ \E r \in Requests, u \in Users : Submit(r, u) \/ PayCheck(r, u)
  \/ \E r \in Requests : RequestStep(r) \/ TakeReplyLost(r)
  \/ CloseWindow
  \/ Deliver \/ DeliverAndRetry \/ LoseMessage \/ CommitOffsets \/ Reread
  \/ ReadMessage \/ HandleMessage \/ PersistAnswerLost \/ Notify
  \/ \E u \in Users : PassDeadline(u) \/ CloseOrder(u) \/ SkipOrder(u)
  \/ ListExpired \/ EndScan
  \/ \E p \in Procs : Rollback(p) \/ RollbackFails(p) \/ RollbackRepeated(p)
  \/ Crash

\* Goroutines run, the writer sends, the reader commits, the scanner's ticker fires, and MySQL
\* does not refuse the same UPDATE for ever.
Fairness ==
  /\ \A r \in Requests : WF_vars(RequestStep(r))
  /\ WF_vars(Deliver) /\ WF_vars(CommitOffsets) /\ WF_vars(ReadMessage) /\ WF_vars(HandleMessage)
  /\ WF_vars(Notify) /\ WF_vars(ListExpired) /\ WF_vars(EndScan)
  /\ \A u \in Users : WF_vars(CloseOrder(u) \/ SkipOrder(u)) /\ SF_vars(CloseOrder(u))
  /\ \A p \in Procs : WF_vars(Rollback(p))

Spec == Init /\ [][Next]_vars
FairSpec == Spec /\ Fairness
-------------------------------------------------------------------------------
(* Correctness.                                                            *)

Count(u, messages) == Cardinality({i \in DOMAIN messages : messages[i] = u})
SeatsOf(u) ==
  Cardinality({p \in Holding : job[p].user = u})
    + Count(u, outbox) + Count(u, Unread) + (IF u \in Live THEN 1 ELSE 0)
NoFault == struck = 0

TypeOK ==
  /\ RedisTypeOK
  /\ open \in BOOLEAN
  /\ job \in [Procs -> [at : Places, user : Users \cup {NoUser}]]
  /\ \A p \in Procs :
       job[p].at \in {"idle", "scanning"} <=> job[p].user = NoUser
  /\ outbox \in Seq(Users) /\ topic \in Seq(Users)
  /\ cursor \in 0..Len(topic)
  /\ order \in [Users -> {"none", "PENDING", "PAID", "CLOSED"}]
  /\ overdue \subseteq Users /\ expired \subseteq Users
  /\ auditCount \in Nat
  /\ notice \in [Users -> {"none", "success", "fail"}]
  /\ minted \in Nat /\ leaked \in Nat
  /\ struck \in Nat

(* Every seat of the capacity is on sale or claimed once, on every path    *)
(* through handlers, worker and scanner, except where a fault is counted   *)
(* in minted (a second claim) or leaked (no claim left).                   *)
SeatConservation == stock + Seats = Capacity + minted - leaked

(* The scanner only closes orders that are live, a payment in progress has *)
(* an order; with the two above this is inductive.                         *)
WorkHasOrders ==
  /\ expired \subseteq Live
  /\ \A p \in Procs : job[p].at = "paying" => order[job[p].user] # "none"
Inductive == TypeOK /\ WorkHasOrders /\ SeatConservation

(* More seats are sold than there are only by as many as were claimed      *)
(* twice: each redelivered or repeated message, each lost commit answer    *)
(* and each payment of a closed order oversells one seat at most.          *)
OversellBounded == Cardinality(Live) <= Capacity + minted

(* docs/SRS.md:160: the tickets MySQL records as taken never exceed the    *)
(* seats loaded.  (The code keeps this only without second claims.)        *)
NoOversell == Cardinality(Live) <= Capacity

(* Unless some seat was claimed twice, a user holds one seat at most, even *)
(* with concurrent requests, and is marked in Redis as long as it is held. *)
OneSeatPerUser ==
  minted = 0 => \A u \in Users :
    /\ SeatsOf(u) <= 1
    /\ SeatsOf(u) = 1 => u \in enrolled

(* Error paths the code compensates leave nobody behind: a user marked in  *)
(* Redis holds a seat or is about to be unmarked.                          *)
EveryMarkAccounted ==
  NoFault => \A u \in enrolled :
    SeatsOf(u) = 1 \/ \E p \in Procs : job[p] = [at |-> "unmark", user |-> u]

(* Once the worker is through with a user, a user who holds an order was   *)
(* last told of success and never of failure.                              *)
NoticeTruthful ==
  NoFault /\ minted = 0 => \A u \in Live :
    notice[u] = "success" \/ job[Worker].user = u

(* PAID and CLOSED are final states of an order.                           *)
OrderFinal ==
  [][\A u \in Users : order[u] \in {"PAID", "CLOSED"} => order'[u] = order[u]]_vars

(* service/order_service.go:100: closing an expired order rolls the stock  *)
(* back in MySQL, the audit counter, as well as in Redis.                  *)
AuditRolledBack ==
  [][\A u \in Users : order[u] = "PENDING" /\ order'[u] = "CLOSED"
                       => auditCount' = auditCount - 1]_vars

(* docs/SYSTEM_DESIGN.md:1548: the enrolment of an expired order is        *)
(* cancelled.  The scanner unmarks the user, who may enrol again; the new  *)
(* message then leads to an order.                                         *)
ReEnrolmentWorks ==
  \A u \in Users :
    (order[u] = "CLOSED" /\ job[Worker] = [at |-> "handling", user |-> u])
      ~> order[u] = "PENDING"

(* The engine implements the seat ledger.                                  *)
ClaimOf(u) ==
  IF u \in Live THEN "sold"
  ELSE IF \E p \in Procs : job[p] = [at |-> "refund", user |-> u] THEN "returning"
  ELSE IF SeatsOf(u) > 0 THEN "reserved"
  ELSE "none"

Ledger == INSTANCE SeatLedger WITH onSale <- stock, claim <- [u \in Users |-> ClaimOf(u)]

ImplementsLedger == Ledger!LedgerSpec

(* A reservation is sold or given back, and a seat on its way back         *)
(* arrives, whatever the handled errors.                                   *)
ReservationSettles == Ledger!ReservationSettles
SeatReturns == Ledger!SeatReturns

(* An unpaid order whose time is over does not stay PENDING.               *)
OverdueOrderEnds ==
  \A u \in Users : (order[u] = "PENDING" /\ u \in overdue) ~> order[u] # "PENDING"
===============================================================================
