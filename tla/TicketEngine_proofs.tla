------------------------- MODULE TicketEngine_proofs -------------------------
(***************************************************************************)
(* Theorems about TicketEngine for every set of users and requests, every  *)
(* capacity and every selection of faults: type correctness, conservation  *)
(* of seats, the bound on overselling, one seat for each user, truthful    *)
(* notices, final orders, and the refinement of SeatLedger.                *)
(***************************************************************************)
EXTENDS TicketEngine, FiniteSetTheorems, SequenceTheorems, TLAPS

-------------------------------------------------------------------------------
(* Counting seats.                                                         *)

LEMMA ProcsFinite == IsFiniteSet(Procs)
<1>1. IsFiniteSet({Worker}) /\ IsFiniteSet({Scanner})
  BY FS_Singleton
<1>2. IsFiniteSet({Worker} \cup {Scanner})
  BY <1>1, FS_Union
<1>3. Procs = Requests \cup ({Worker} \cup {Scanner})
  BY DEF Procs
<1>4. IsFiniteSet(Requests)
  BY EngineAssumption DEF EngineAssumption
<1> QED BY <1>2, <1>3, <1>4, FS_Union

(* A goroutine in a new place changes the number of seats held by one at   *)
(* most.                                                                   *)
HoldingPlaces == {"reserved", "handling", "refund"}

LEMMA HoldingCount ==
  ASSUME TypeOK, NEW p \in Procs, NEW place, NEW u, Goto(p, place, u)
  PROVE  /\ Cardinality(Holding) \in Nat
         /\ Cardinality(Holding') =
              Cardinality(Holding)
                + (IF place \in HoldingPlaces THEN 1 ELSE 0)
                - (IF job[p].at \in HoldingPlaces THEN 1 ELSE 0)
<1>1. IsFiniteSet(Holding) /\ Holding \subseteq Procs
  BY ProcsFinite, FS_Subset DEF Holding
<1>2. Cardinality(Holding) \in Nat
  BY <1>1, FS_CardinalityType
<1>3. p \in Holding <=> job[p].at \in HoldingPlaces
  BY DEF Holding, HoldingPlaces
<1>4. CASE place \in HoldingPlaces
  <2>1. Holding' = Holding \cup {p}
    BY <1>4 DEF Holding, HoldingPlaces, Goto, TypeOK
  <2>2. Cardinality(Holding \cup {p}) = IF p \in Holding THEN Cardinality(Holding) ELSE Cardinality(Holding) + 1
    BY <1>1, FS_AddElement
  <2> QED BY <1>2, <1>3, <1>4, <2>1, <2>2
<1>5. CASE place \notin HoldingPlaces
  <2>1. Holding' = Holding \ {p}
    BY <1>5 DEF Holding, HoldingPlaces, Goto, TypeOK
  <2>2. Cardinality(Holding \ {p}) = IF p \in Holding THEN Cardinality(Holding) - 1 ELSE Cardinality(Holding)
    BY <1>1, FS_RemoveElement
  <2> QED BY <1>2, <1>3, <1>5, <2>1, <2>2
<1> QED BY <1>4, <1>5

LEMMA FinishIsGoto == ASSUME NEW p, Finish(p) PROVE Goto(p, "idle", NoUser)
BY DEF Finish, Goto, Idle

(* An order row written for one user changes the number of live orders by  *)
(* one at most.                                                            *)
LiveStatus == {"PENDING", "PAID"}

LEMMA LiveCount ==
  ASSUME TypeOK, NEW u \in Users, NEW s, order' = [order EXCEPT ![u] = s]
  PROVE  /\ Cardinality(Live) \in Nat
         /\ Cardinality(Live') =
              Cardinality(Live)
                + (IF s \in LiveStatus THEN 1 ELSE 0)
                - (IF order[u] \in LiveStatus THEN 1 ELSE 0)
<1>1. IsFiniteSet(Live) /\ Live \subseteq Users
  BY UsersAssumption, FS_Subset DEF UsersAssumption, Live
<1>2. Cardinality(Live) \in Nat
  BY <1>1, FS_CardinalityType
<1>3. u \in Live <=> order[u] \in LiveStatus
  BY DEF Live, LiveStatus
<1>4. CASE s \in LiveStatus
  <2>1. Live' = Live \cup {u}
    BY <1>4 DEF Live, LiveStatus, TypeOK
  <2>2. Cardinality(Live \cup {u}) = IF u \in Live THEN Cardinality(Live) ELSE Cardinality(Live) + 1
    BY <1>1, FS_AddElement
  <2> QED BY <1>2, <1>3, <1>4, <2>1, <2>2
<1>5. CASE s \notin LiveStatus
  <2>1. Live' = Live \ {u}
    BY <1>5 DEF Live, LiveStatus, TypeOK
  <2>2. Cardinality(Live \ {u}) = IF u \in Live THEN Cardinality(Live) - 1 ELSE Cardinality(Live)
    BY <1>1, FS_RemoveElement
  <2> QED BY <1>2, <1>3, <1>5, <2>1, <2>2
<1> QED BY <1>4, <1>5

LEMMA SeatCountTypes ==
  /\ IsFiniteSet(Holding) /\ Cardinality(Holding) \in Nat
  /\ IsFiniteSet(Live) /\ Cardinality(Live) \in Nat
<1>1. IsFiniteSet(Holding)
  BY ProcsFinite, FS_Subset DEF Holding
<1>2. IsFiniteSet(Live)
  BY UsersAssumption, FS_Subset DEF UsersAssumption, Live
<1> QED BY <1>1, <1>2, FS_CardinalityType
-------------------------------------------------------------------------------
(* Type correctness.                                                       *)

LEMMA TypeInit == Init => TypeOK
BY EngineAssumption DEF Init, TypeOK, RedisTypeOK, EngineAssumption, Idle, Procs, Places

(* The part of TypeOK about goroutines, for one that moves.                *)
JobTypeOK ==
  /\ job \in [Procs -> [at : Places, user : Users \cup {NoUser}]]
  /\ \A p \in Procs : job[p].at \in {"idle", "scanning"} <=> job[p].user = NoUser

LEMMA TypeGoto ==
  ASSUME TypeOK, NEW p \in Procs, NEW place \in Places, NEW u \in Users \cup {NoUser},
         place \in {"idle", "scanning"} <=> u = NoUser,
         Goto(p, place, u)
  PROVE  JobTypeOK'
BY DEF TypeOK, JobTypeOK, Goto

LEMMA TypeFinish ==
  ASSUME TypeOK, NEW p \in Procs, Finish(p) PROVE JobTypeOK'
BY FinishIsGoto, TypeGoto DEF Places

LEMMA BusyHasUser ==
  ASSUME TypeOK, NEW p \in Procs, job[p].at \notin {"idle", "scanning"}
  PROVE  job[p].user \in Users
BY DEF TypeOK

LEMMA TypeResume ==
  ASSUME TypeOK, NEW p \in Procs, job[p].at \in {"refund", "unmark"}, Resume(p)
  PROVE  JobTypeOK'
<1>1. job[p].user \in Users /\ job[p].user # NoUser
  BY BusyHasUser, EngineAssumption DEF EngineAssumption
<1>2. CASE p = Worker /\ Goto(p, "failed", job[p].user)
  BY <1>1, <1>2, TypeGoto DEF Places
<1>3. CASE p = Scanner /\ Goto(p, "scanning", NoUser)
  BY <1>3, TypeGoto DEF Places
<1>4. CASE p \in Requests /\ Finish(p)
  BY <1>4, TypeFinish
<1> QED BY <1>2, <1>3, <1>4 DEF Resume

(* The message sequences stay sequences of users.                          *)
LEMMA TypeTopic ==
  ASSUME TypeOK
  PROVE  /\ Deliver => outbox' \in Seq(Users) /\ topic' \in Seq(Users) /\ cursor \in 0..Len(topic')
         /\ DeliverAndRetry => topic' \in Seq(Users) /\ cursor \in 0..Len(topic')
         /\ LoseMessage => outbox' \in Seq(Users)
         /\ CommitOffsets => topic' \in Seq(Users) /\ cursor' \in 0..Len(topic')
<1>1. ASSUME outbox # <<>>
      PROVE  /\ Head(outbox) \in Users /\ Tail(outbox) \in Seq(Users)
             /\ Append(topic, Head(outbox)) \in Seq(Users)
             /\ Len(Append(topic, Head(outbox))) = Len(topic) + 1
             /\ Len(topic) \in Nat
  BY <1>1 DEF TypeOK
<1>2. ASSUME CommitOffsets PROVE topic' \in Seq(Users) /\ cursor' \in 0..Len(topic')
  <2>1. PICK k \in 1..cursor : /\ topic' = SubSeq(topic, k + 1, Len(topic))
                              /\ cursor' = cursor - k
    BY <1>2 DEF CommitOffsets
  <2>2. topic \in Seq(Users) /\ cursor \in 0..Len(topic) /\ Len(topic) \in Nat
    BY DEF TypeOK
  <2>3. SubSeq(topic, k + 1, Len(topic)) \in Seq(Users)
        /\ Len(SubSeq(topic, k + 1, Len(topic))) = Len(topic) - k
    BY <2>1, <2>2, SubSeqProperties
  <2> QED BY <2>1, <2>2, <2>3
<1>3. cursor \in Nat /\ Len(topic) \in Nat /\ cursor <= Len(topic)
  BY DEF TypeOK
<1>4. \A n \in Nat : n = Len(topic) + 1 => cursor \in 0..n
  BY <1>3
<1>5. ASSUME Deliver
      PROVE  outbox' \in Seq(Users) /\ topic' \in Seq(Users) /\ cursor \in 0..Len(topic')
  <2>1. /\ outbox # <<>> /\ outbox' = Tail(outbox)
        /\ topic' = Append(topic, Head(outbox))
    BY <1>5 DEF Deliver
  <2> QED BY <2>1, <1>1, <1>3, <1>4
<1>6. ASSUME DeliverAndRetry
      PROVE  topic' \in Seq(Users) /\ cursor \in 0..Len(topic')
  <2>1. outbox # <<>> /\ topic' = Append(topic, Head(outbox))
    BY <1>6 DEF DeliverAndRetry
  <2> QED BY <2>1, <1>1, <1>3, <1>4
<1>7. LoseMessage => outbox' \in Seq(Users)
  BY <1>1 DEF LoseMessage
<1> QED BY <1>2, <1>5, <1>6, <1>7

(* One step per action of Next.                                            *)
LEMMA TypeNext == TypeOK /\ [Next]_vars => TypeOK'
<1> SUFFICES ASSUME TypeOK, [Next]_vars PROVE TypeOK'
  OBVIOUS
<1> USE DEF redisVars, kafkaVars, mysqlVars, countVars
<1> USE DEF TypeOK, RedisTypeOK, JobTypeOK
<1>1. ASSUME NEW r \in Requests, NEW u \in Users, Submit(r, u) \/ PayCheck(r, u)
      PROVE  TypeOK'
  <2>1. JobTypeOK'
    BY <1>1, TypeGoto, EngineAssumption DEF Submit, PayCheck, Procs, Places, EngineAssumption
  <2> QED BY <1>1, <2>1 DEF Submit, PayCheck
<1>2. ASSUME NEW r \in Requests, RequestStep(r) \/ TakeReplyLost(r)
      PROVE  TypeOK'
  <2>1. job[r].at \notin {"idle", "scanning"} /\ r \in Procs
    BY <1>2 DEF RequestStep, TakeReplyLost, Take, Refuse, Produce, ProduceFails, PayWrite,
                PayFails, At, Procs
  <2>2. job[r].user \in Users /\ job[r].user # NoUser
    BY <2>1, BusyHasUser, EngineAssumption DEF EngineAssumption
  <2>3. CASE Take(r)
    <3>1. JobTypeOK' BY <2>1, <2>2, <2>3, TypeGoto DEF Take, Places
    <3> QED BY <2>2, <2>3, <3>1 DEF Take, TryEnroll
  <2>4. CASE Refuse(r)
    <3>1. JobTypeOK' BY <2>1, <2>4, TypeFinish DEF Refuse
    <3> QED BY <2>4, <3>1 DEF Refuse, Spend
  <2>5. CASE Produce(r)
    <3>1. JobTypeOK' BY <2>1, <2>5, TypeFinish DEF Produce
    <3>2. outbox' \in Seq(Users) BY <2>2, <2>5 DEF Produce
    <3> QED BY <2>5, <3>1, <3>2 DEF Produce
  <2>6. CASE ProduceFails(r)
    <3>1. JobTypeOK' BY <2>1, <2>2, <2>6, TypeGoto DEF ProduceFails, Places
    <3> QED BY <2>6, <3>1 DEF ProduceFails
  <2>7. CASE PayWrite(r)
    <3>1. JobTypeOK' BY <2>1, <2>7, TypeFinish DEF PayWrite
    <3> QED BY <2>2, <2>7, <3>1 DEF PayWrite
  <2>8. CASE PayFails(r)
    <3>1. JobTypeOK' BY <2>1, <2>8, TypeFinish DEF PayFails
    <3> QED BY <2>8, <3>1 DEF PayFails
  <2>9. CASE TakeReplyLost(r)
    <3>1. JobTypeOK' BY <2>1, <2>9, TypeFinish DEF TakeReplyLost
    <3> QED BY <2>2, <2>9, <3>1 DEF TakeReplyLost, TryEnroll, Spend
  <2> QED BY <1>2, <2>3, <2>4, <2>5, <2>6, <2>7, <2>8, <2>9 DEF RequestStep
<1>3. CASE CloseWindow
  BY <1>3 DEF CloseWindow
<1>4. CASE Deliver
  BY <1>4, TypeTopic DEF Deliver
<1>5. CASE DeliverAndRetry
  BY <1>5, TypeTopic DEF DeliverAndRetry, Spend
<1>6. CASE LoseMessage
  BY <1>6, TypeTopic DEF LoseMessage, Spend
<1>7. CASE CommitOffsets
  BY <1>7, TypeTopic DEF CommitOffsets
<1>8. CASE Reread
  BY <1>8 DEF Reread, Spend
<1>9. CASE ReadMessage
  <2>1. topic[cursor + 1] \in Users /\ cursor + 1 \in 0..Len(topic)
    BY <1>9 DEF ReadMessage
  <2>2. JobTypeOK'
    BY <1>9, <2>1, TypeGoto, EngineAssumption DEF ReadMessage, Procs, Places, EngineAssumption
  <2> QED BY <1>9, <2>1, <2>2 DEF ReadMessage
<1>10. ASSUME Persist \/ PersistFails \/ PersistAnswerLost PROVE TypeOK'
  <2>1. Worker \in Procs BY DEF Procs
  <2>2. job[Worker].at = "handling"
    BY <1>10 DEF Persist, PersistFails, PersistAnswerLost, At
  <2>3. job[Worker].user \in Users /\ job[Worker].user # NoUser
    BY <2>1, <2>2, BusyHasUser, EngineAssumption DEF EngineAssumption
  <2>4. CASE Persist
    <3>1. JobTypeOK' BY <2>1, <2>3, <2>4, TypeGoto DEF Persist, Places
    <3> QED BY <2>3, <2>4, <3>1 DEF Persist, InsertRows
  <2>5. CASE PersistFails
    <3>1. JobTypeOK' BY <2>1, <2>3, <2>5, TypeGoto DEF PersistFails, Places
    <3> QED BY <2>5, <3>1 DEF PersistFails
  <2>6. CASE PersistAnswerLost
    <3>1. JobTypeOK' BY <2>1, <2>3, <2>6, TypeGoto DEF PersistAnswerLost, Places
    <3> QED BY <2>3, <2>6, <3>1 DEF PersistAnswerLost, InsertRows, Spend
  <2> QED BY <1>10, <2>4, <2>5, <2>6
<1>11. CASE Notify
  <2>1. Worker \in Procs BY DEF Procs
  <2>2. JobTypeOK' BY <1>11, <2>1, TypeFinish DEF Notify
  <2>3. notice' \in [Users -> {"none", "success", "fail"}] /\ struck' \in Nat
    BY <1>11 DEF Notify, Spend
  <2> QED BY <1>11, <2>2, <2>3 DEF Notify
<1>12. ASSUME NEW u \in Users, PassDeadline(u) PROVE TypeOK'
  BY <1>12 DEF PassDeadline
<1>13. ASSUME NEW u \in Users, CloseOrder(u) PROVE TypeOK'
  <2>1. JobTypeOK'
    BY <1>13, TypeGoto, EngineAssumption DEF CloseOrder, Procs, Places, EngineAssumption
  <2> QED BY <1>13, <2>1 DEF CloseOrder
<1>14. ASSUME NEW u \in Users, SkipOrder(u) PROVE TypeOK'
  BY <1>14 DEF SkipOrder
<1>15. CASE ListExpired
  <2>1. JobTypeOK' BY <1>15, TypeGoto DEF ListExpired, Procs, Places
  <2> QED BY <1>15, <2>1 DEF ListExpired
<1>16. CASE EndScan
  <2>1. JobTypeOK' BY <1>16, TypeFinish DEF EndScan, Procs
  <2> QED BY <1>16, <2>1 DEF EndScan
<1>17. ASSUME NEW p \in Procs, RollbackStock(p) PROVE TypeOK'
  <2>1. job[p].user \in Users /\ job[p].user # NoUser
    BY <1>17, BusyHasUser, EngineAssumption DEF RollbackStock, At, EngineAssumption
  <2>2. JobTypeOK' BY <1>17, <2>1, TypeGoto DEF RollbackStock, Places
  <2> QED BY <1>17, <2>2 DEF RollbackStock, ReturnSeat
<1>18. ASSUME NEW p \in Procs, RollbackMark(p) PROVE TypeOK'
  <2>1. JobTypeOK' BY <1>18, TypeResume DEF RollbackMark, At
  <2> QED BY <1>18, <2>1 DEF RollbackMark, Unmark
<1>19. ASSUME NEW p \in Procs, RollbackFails(p) PROVE TypeOK'
  <2>1. JobTypeOK' BY <1>19, TypeResume DEF RollbackFails
  <2> QED BY <1>19, <2>1 DEF RollbackFails, Spend
<1>20. ASSUME NEW p \in Procs, RollbackRepeated(p) PROVE TypeOK'
  BY <1>20 DEF RollbackRepeated, ReturnSeat, Spend
<1>21. CASE Crash
  <2>1. Cardinality(Holding) \in Nat /\ Len(outbox) \in Nat
    BY SeatCountTypes
  <2>2. JobTypeOK' BY <1>21 DEF Crash, Idle, Places
  <2> QED BY <1>21, <2>1, <2>2 DEF Crash, Spend
<1>22. CASE UNCHANGED vars
  BY <1>22 DEF vars
<1> QED
  BY <1>1, <1>2, <1>3, <1>4, <1>5, <1>6, <1>7, <1>8, <1>9, <1>10, <1>11, <1>12, <1>13,
     <1>14, <1>15, <1>16, <1>17, <1>18, <1>19, <1>20, <1>21, <1>22
     DEF Next, HandleMessage, Rollback

(* Every variable keeps its type.                                          *)
THEOREM TypeCorrect == Spec => []TypeOK
<1> QED BY TypeInit, TypeNext, PTL DEF Spec
-------------------------------------------------------------------------------
(* Conservation of seats.                                                  *)

LEMMA WorkInit == Init => WorkHasOrders
BY DEF Init, WorkHasOrders, Idle, Live

(* An order never goes back to "none", and only the scanner ends one that  *)
(* is live.                                                                *)
LEMMA WorkNext == TypeOK /\ WorkHasOrders /\ [Next]_vars => WorkHasOrders'
<1> SUFFICES ASSUME TypeOK, WorkHasOrders, [Next]_vars PROVE WorkHasOrders'
  OBVIOUS
<1> USE DEF redisVars, kafkaVars, mysqlVars, countVars, TypeOK, WorkHasOrders
(* Steps that leave the orders and the scanner's list alone and start no   *)
(* payment.                                                                *)
<1>1. ASSUME NEW p \in Procs, NEW place, NEW v, Goto(p, place, v), place # "paying",
             UNCHANGED <<order, expired>>
      PROVE  WorkHasOrders'
  BY <1>1 DEF Goto, Live
<1>2. ASSUME UNCHANGED <<job, order, expired>> PROVE WorkHasOrders'
  BY <1>2 DEF Live
<1>3. ASSUME NEW p \in Procs, Finish(p), UNCHANGED <<order, expired>> PROVE WorkHasOrders'
  BY <1>1, <1>3, FinishIsGoto
<1>4. ASSUME NEW p \in Procs, Resume(p), UNCHANGED <<order, expired>> PROVE WorkHasOrders'
  BY <1>1, <1>3, <1>4 DEF Resume
<1>5. ASSUME NEW u \in Users, NEW p \in Procs, NEW place, NEW v, Goto(p, place, v),
             place # "paying", InsertRows(u), UNCHANGED expired
      PROVE  WorkHasOrders'
  BY <1>5 DEF Goto, InsertRows, Live
<1>6. ASSUME NEW r \in Requests, NEW u \in Users, Submit(r, u) PROVE WorkHasOrders'
  BY <1>1, <1>6 DEF Submit, Procs
<1>7. ASSUME NEW r \in Requests, NEW u \in Users, PayCheck(r, u) PROVE WorkHasOrders'
  BY <1>7 DEF PayCheck, Goto, Live, Procs
<1>8. ASSUME NEW r \in Requests, RequestStep(r) \/ TakeReplyLost(r) PROVE WorkHasOrders'
  <2>1. CASE PayWrite(r)
    <3>1. job[r].user \in Users /\ r \in Procs
      BY <2>1, BusyHasUser DEF PayWrite, At, Procs
    <3>2. order' = [order EXCEPT ![job[r].user] = "PAID"] /\ UNCHANGED expired
      BY <2>1 DEF PayWrite
    <3>3. Goto(r, "idle", NoUser)
      BY <2>1, FinishIsGoto DEF PayWrite
    <3> QED BY <3>1, <3>2, <3>3 DEF Goto, Live
  <2>2. CASE Take(r) \/ ProduceFails(r)
    BY <1>1, <2>2 DEF Take, ProduceFails, Procs
  <2>3. CASE Refuse(r) \/ Produce(r) \/ PayFails(r) \/ TakeReplyLost(r)
    BY <1>3, <2>3 DEF Refuse, Produce, PayFails, TakeReplyLost, Procs
  <2> QED BY <1>8, <2>1, <2>2, <2>3 DEF RequestStep
<1>9. CASE CloseWindow \/ Deliver \/ DeliverAndRetry \/ LoseMessage \/ CommitOffsets \/ Reread
  BY <1>2, <1>9 DEF CloseWindow, Deliver, DeliverAndRetry, LoseMessage, CommitOffsets, Reread
<1>10. CASE ReadMessage \/ PersistFails
  BY <1>1, <1>10 DEF ReadMessage, PersistFails, Procs
<1>11. CASE Persist \/ PersistAnswerLost
  <2>1. Worker \in Procs /\ job[Worker].user \in Users
    BY <1>11, BusyHasUser DEF Persist, PersistAnswerLost, At, Procs
  <2> QED BY <1>5, <1>11, <2>1 DEF Persist, PersistAnswerLost
<1>12. CASE Notify
  BY <1>3, <1>12 DEF Notify, Procs
<1>13. ASSUME NEW u \in Users, PassDeadline(u) PROVE WorkHasOrders'
  BY <1>2, <1>13 DEF PassDeadline
<1>14. ASSUME NEW u \in Users, CloseOrder(u) PROVE WorkHasOrders'
  <2>1. /\ order' = [order EXCEPT ![u] = "CLOSED"] /\ expired' = expired \ {u}
        /\ Goto(Scanner, "refund", u) /\ Scanner \in Procs
    BY <1>14 DEF CloseOrder, Procs
  <2> QED BY <2>1 DEF Goto, Live
<1>15. ASSUME NEW u \in Users, SkipOrder(u) PROVE WorkHasOrders'
  BY <1>15 DEF SkipOrder, Live
<1>16. CASE ListExpired
  BY <1>16 DEF ListExpired, Goto, Live, Procs
<1>17. CASE EndScan
  BY <1>3, <1>17 DEF EndScan, Procs
<1>18. ASSUME NEW p \in Procs, Rollback(p) \/ RollbackFails(p) \/ RollbackRepeated(p)
       PROVE  WorkHasOrders'
  BY <1>1, <1>2, <1>4, <1>18
     DEF Rollback, RollbackStock, RollbackMark, RollbackFails, RollbackRepeated
<1>19. CASE Crash
  BY <1>19 DEF Crash, Idle, Live
<1>20. CASE UNCHANGED vars
  BY <1>2, <1>20 DEF vars
<1> QED
  BY <1>6, <1>7, <1>8, <1>9, <1>10, <1>11, <1>12, <1>13, <1>14, <1>15, <1>16, <1>17,
     <1>18, <1>19, <1>20 DEF Next, HandleMessage

LEMMA SeatsInit == Init => SeatConservation
<1> SUFFICES ASSUME Init PROVE SeatConservation
  OBVIOUS
<1>1. Holding = {} /\ Live = {}
  BY DEF Init, Holding, Live, Idle
<1>2. Cardinality({}) = 0 /\ Len(<<>>) = 0
  BY FS_EmptySet
<1> QED BY <1>1, <1>2, EngineAssumption DEF Init, SeatConservation, Seats, EngineAssumption

(* What the steps of a goroutine do to the counts.                         *)
LEMMA JobKept == ASSUME UNCHANGED job PROVE Holding' = Holding
BY DEF Holding

LEMMA OrdersKept == ASSUME UNCHANGED order PROVE Live' = Live
BY DEF Live

LEMMA InsertCount ==
  ASSUME TypeOK, NEW u \in Users, InsertRows(u)
  PROVE  Cardinality(Live') = Cardinality(Live) + 1
<1>1. order' = [order EXCEPT ![u] = "PENDING"] /\ order[u] = "none"
  BY DEF InsertRows
<1>2. /\ Cardinality(Live) \in Nat
      /\ Cardinality(Live') =
           Cardinality(Live) + (IF "PENDING" \in LiveStatus THEN 1 ELSE 0)
                             - (IF order[u] \in LiveStatus THEN 1 ELSE 0)
  BY <1>1, LiveCount
<1> QED BY <1>1, <1>2 DEF LiveStatus

LEMMA ResumeCount ==
  ASSUME TypeOK, NEW p \in Procs, Resume(p)
  PROVE  Cardinality(Holding') =
           Cardinality(Holding) - (IF job[p].at \in HoldingPlaces THEN 1 ELSE 0)
<1> DEFINE H == Cardinality(Holding)
           Freed == IF job[p].at \in HoldingPlaces THEN 1 ELSE 0
<1>1. H \in Nat /\ Freed \in Nat
  BY SeatCountTypes
<1>2. ASSUME NEW place \in {"failed", "scanning", "idle"}, NEW v, Goto(p, place, v)
      PROVE  H' = H - Freed
  <2>1. H' = H + (IF place \in HoldingPlaces THEN 1 ELSE 0) - Freed
    BY <1>2, HoldingCount
  <2>2. place \notin HoldingPlaces
    BY <1>2 DEF HoldingPlaces
  <2> HIDE DEF H, Freed
  <2> QED BY <1>1, <2>1, <2>2
<1>3. CASE p = Worker /\ Goto(p, "failed", job[p].user)
  BY <1>2, <1>3
<1>4. CASE p = Scanner /\ Goto(p, "scanning", NoUser)
  BY <1>2, <1>4
<1>5. CASE p \in Requests /\ Finish(p)
  BY <1>2, <1>5, FinishIsGoto
<1> QED BY <1>3, <1>4, <1>5 DEF Resume

LEMMA SeatsNext ==
  TypeOK /\ WorkHasOrders /\ SeatConservation /\ [Next]_vars => SeatConservation'
<1> SUFFICES ASSUME TypeOK, WorkHasOrders, SeatConservation, [Next]_vars
             PROVE  SeatConservation'
  OBVIOUS
<1> DEFINE H == Cardinality(Holding)
           L == Cardinality(Live)
           O == Len(outbox)
           T == Len(topic)
<1> USE DEF redisVars, kafkaVars, mysqlVars, countVars
<1>0. /\ H \in Nat /\ L \in Nat /\ O \in Nat /\ T \in Nat /\ cursor \in Nat /\ stock \in Nat
      /\ minted \in Nat /\ leaked \in Nat /\ Capacity \in Nat
      /\ stock + (H + O + (T - cursor) + L) = Capacity + minted - leaked
  BY SeatCountTypes, EngineAssumption
     DEF TypeOK, RedisTypeOK, SeatConservation, Seats, EngineAssumption
<1>a. SeatConservation' <=>
        stock' + (H' + O' + (T' - cursor') + L') = Capacity + minted' - leaked'
  BY DEF SeatConservation, Seats
<1> HIDE DEF H, L, O, T
(* A goroutine moves between places that hold no seat, or all of them do.  *)
<1>b. ASSUME NEW p \in Procs, NEW place, NEW v, Goto(p, place, v)
      PROVE  H' = H + (IF place \in HoldingPlaces THEN 1 ELSE 0)
                    - (IF job[p].at \in HoldingPlaces THEN 1 ELSE 0)
  BY <1>b, HoldingCount DEF H
<1>h. ASSUME NEW p \in Procs, NEW place, NEW v, Goto(p, place, v),
             place \in HoldingPlaces <=> job[p].at \in HoldingPlaces
      PROVE  H' = H
  BY <1>0, <1>b, <1>h
<1>i. ASSUME NEW p \in Procs, NEW place, NEW v, Goto(p, place, v),
             place \in HoldingPlaces, job[p].at \notin HoldingPlaces
      PROVE  H' = H + 1
  BY <1>0, <1>b, <1>i
<1>j. ASSUME NEW p \in Procs, NEW place, NEW v, Goto(p, place, v),
             place \notin HoldingPlaces, job[p].at \in HoldingPlaces
      PROVE  H' = H - 1
  BY <1>0, <1>b, <1>j
<1>c. ASSUME NEW p \in Procs, Finish(p)
      PROVE  H' = H - (IF job[p].at \in HoldingPlaces THEN 1 ELSE 0)
  <2>1. H' = H + (IF "idle" \in HoldingPlaces THEN 1 ELSE 0)
                - (IF job[p].at \in HoldingPlaces THEN 1 ELSE 0)
    BY <1>b, <1>c, FinishIsGoto
  <2> QED BY <2>1, <1>0 DEF HoldingPlaces
<1>d. UNCHANGED job => H' = H
  BY JobKept DEF H
<1>e. UNCHANGED order => L' = L
  BY OrdersKept DEF L
<1>f. (UNCHANGED outbox => O' = O) /\ (UNCHANGED topic => T' = T)
  BY DEF O, T
<1>g. outbox # <<>> =>
        /\ outbox' = Tail(outbox) => O' = O - 1
        /\ topic' = Append(topic, Head(outbox)) => T' = T + 1
  BY DEF O, T, TypeOK
<1> USE DEF HoldingPlaces, At
<1>1. ASSUME NEW r \in Requests, NEW u \in Users, Submit(r, u) \/ PayCheck(r, u)
      PROVE  SeatConservation'
  <2>1. r \in Procs BY DEF Procs
  <2>2. H' = H BY <1>1, <1>h, <2>1 DEF Submit, PayCheck
  <2> QED BY <1>0, <1>1, <1>a, <1>e, <1>f, <2>2 DEF Submit, PayCheck
<1>2. ASSUME NEW r \in Requests, Take(r) PROVE SeatConservation'
  <2>1. r \in Procs BY DEF Procs
  <2>2. H' = H + 1 BY <1>2, <1>i, <2>1 DEF Take
  <2> QED BY <1>0, <1>2, <1>a, <1>e, <1>f, <2>2 DEF Take, TryEnroll
<1>3. ASSUME NEW r \in Requests, Refuse(r) \/ PayFails(r) PROVE SeatConservation'
  <2>1. r \in Procs BY DEF Procs
  <2>2. H' = H BY <1>0, <1>3, <1>c, <2>1 DEF Refuse, PayFails
  <2> QED BY <1>0, <1>3, <1>a, <1>e, <1>f, <2>2 DEF Refuse, PayFails
<1>4. ASSUME NEW r \in Requests, Produce(r) PROVE SeatConservation'
  <2>1. r \in Procs BY DEF Procs
  <2>2. H' = H - 1 BY <1>0, <1>4, <1>c, <2>1 DEF Produce
  <2>3. job[r].user \in Users /\ outbox \in Seq(Users)
    BY <1>4, <2>1, BusyHasUser DEF Produce, TypeOK
  <2>4. O' = O + 1 BY <1>4, <2>3 DEF Produce, O
  <2> QED BY <1>0, <1>4, <1>a, <1>e, <1>f, <2>2, <2>4 DEF Produce
<1>5. ASSUME NEW r \in Requests, ProduceFails(r) PROVE SeatConservation'
  <2>1. r \in Procs BY DEF Procs
  <2>2. H' = H BY <1>5, <1>h, <2>1 DEF ProduceFails
  <2> QED BY <1>0, <1>5, <1>a, <1>e, <1>f, <2>2 DEF ProduceFails
<1>6. ASSUME NEW r \in Requests, PayWrite(r) PROVE SeatConservation'
  <2>1. r \in Procs BY DEF Procs
  <2>2. job[r].user \in Users BY <1>6, <2>1, BusyHasUser DEF PayWrite
  <2>3. order[job[r].user] \in {"PENDING", "PAID", "CLOSED"}
    BY <1>6, <2>1, <2>2 DEF PayWrite, WorkHasOrders, TypeOK
  <2>4. L' = L + 1 - (IF order[job[r].user] \in LiveStatus THEN 1 ELSE 0)
    BY <1>6, <2>2, LiveCount, SeatCountTypes DEF PayWrite, LiveStatus, L
  <2>5. H' = H BY <1>0, <1>6, <1>c, <2>1 DEF PayWrite
  <2> QED BY <1>0, <1>6, <1>a, <1>f, <2>3, <2>4, <2>5 DEF PayWrite, LiveStatus
<1>7. ASSUME NEW r \in Requests, TakeReplyLost(r) PROVE SeatConservation'
  <2>1. r \in Procs BY DEF Procs
  <2>2. H' = H BY <1>0, <1>7, <1>c, <2>1 DEF TakeReplyLost
  <2> QED BY <1>0, <1>7, <1>a, <1>e, <1>f, <2>2 DEF TakeReplyLost, TryEnroll
<1>8. CASE CloseWindow
  BY <1>0, <1>8, <1>a, <1>d, <1>e, <1>f DEF CloseWindow
<1>9. CASE Deliver
  BY <1>0, <1>9, <1>a, <1>d, <1>e, <1>g DEF Deliver
<1>10. CASE DeliverAndRetry
  BY <1>0, <1>10, <1>a, <1>d, <1>e, <1>f, <1>g DEF DeliverAndRetry
<1>11. CASE LoseMessage
  BY <1>0, <1>11, <1>a, <1>d, <1>e, <1>f, <1>g DEF LoseMessage
<1>12. CASE CommitOffsets
  <2>1. PICK k \in 1..cursor : /\ topic' = SubSeq(topic, k + 1, Len(topic))
                              /\ cursor' = cursor - k
    BY <1>12 DEF CommitOffsets
  <2>2. cursor <= Len(topic) /\ Len(topic) \in Nat /\ topic \in Seq(Users)
    BY DEF TypeOK
  <2>3. Len(SubSeq(topic, k + 1, Len(topic))) = Len(topic) - k
    BY <1>0, <2>1, <2>2, SubSeqProperties
  <2>4. T' = T - k BY <2>1, <2>3 DEF T
  <2> QED BY <1>0, <1>12, <1>a, <1>d, <1>e, <1>f, <2>1, <2>4 DEF CommitOffsets
<1>13. CASE Reread
  BY <1>0, <1>13, <1>a, <1>d, <1>e, <1>f DEF Reread
<1>14. CASE ReadMessage
  <2>1. H' = H + 1 BY <1>14, <1>i DEF ReadMessage, Procs
  <2>2. /\ L' = L /\ O' = O /\ T' = T /\ cursor' = cursor + 1
        /\ stock' = stock /\ minted' = minted /\ leaked' = leaked
    BY <1>14, <1>e, <1>f DEF ReadMessage
  <2> QED BY <1>0, <1>a, <2>1, <2>2
<1>15. CASE Persist
  <2>1. job[Worker].user \in Users BY <1>15, BusyHasUser DEF Persist, Procs
  <2>2. L' = L + 1 BY <1>15, <2>1, InsertCount DEF Persist, L
  <2>3. H' = H - 1 BY <1>15, <1>j DEF Persist, Procs
  <2> QED BY <1>0, <1>15, <1>a, <1>f, <2>2, <2>3 DEF Persist
<1>16. CASE PersistFails
  <2>1. H' = H BY <1>16, <1>h DEF PersistFails, Procs
  <2> QED BY <1>0, <1>16, <1>a, <1>e, <1>f, <2>1 DEF PersistFails
<1>17. CASE PersistAnswerLost
  <2>1. job[Worker].user \in Users BY <1>17, BusyHasUser DEF PersistAnswerLost, Procs
  <2>2. L' = L + 1 BY <1>17, <2>1, InsertCount DEF PersistAnswerLost, L
  <2>3. H' = H BY <1>17, <1>h DEF PersistAnswerLost, Procs
  <2> QED BY <1>0, <1>17, <1>a, <1>f, <2>2, <2>3 DEF PersistAnswerLost
<1>18. CASE Notify
  <2>1. H' = H BY <1>0, <1>18, <1>c DEF Notify, Procs
  <2> QED BY <1>0, <1>18, <1>a, <1>e, <1>f, <2>1 DEF Notify
<1>19. ASSUME NEW u \in Users, PassDeadline(u) \/ SkipOrder(u) PROVE SeatConservation'
  BY <1>0, <1>19, <1>a, <1>d, <1>e, <1>f DEF PassDeadline, SkipOrder
<1>20. ASSUME NEW u \in Users, CloseOrder(u) PROVE SeatConservation'
  <2>1. order[u] \in LiveStatus
    BY <1>20 DEF CloseOrder, WorkHasOrders, Live, LiveStatus
  <2>2. order' = [order EXCEPT ![u] = "CLOSED"] /\ "CLOSED" \notin LiveStatus
    BY <1>20 DEF CloseOrder, LiveStatus
  <2>3. L' = L + 0 - 1 BY <2>1, <2>2, LiveCount DEF L
  <2>4. H' = H + 1 BY <1>20, <1>i DEF CloseOrder, Procs
  <2> QED BY <1>0, <1>20, <1>a, <1>f, <2>3, <2>4 DEF CloseOrder
<1>21. CASE ListExpired
  <2>1. H' = H BY <1>21, <1>h DEF ListExpired, Procs
  <2> QED BY <1>0, <1>21, <1>a, <1>e, <1>f, <2>1 DEF ListExpired
<1>22. CASE EndScan
  <2>1. H' = H BY <1>0, <1>22, <1>c DEF EndScan, Procs
  <2> QED BY <1>0, <1>22, <1>a, <1>e, <1>f, <2>1 DEF EndScan
<1>23. ASSUME NEW p \in Procs, RollbackStock(p) PROVE SeatConservation'
  <2>1. H' = H - 1 BY <1>23, <1>j DEF RollbackStock
  <2> QED BY <1>0, <1>23, <1>a, <1>e, <1>f, <2>1 DEF RollbackStock, ReturnSeat
<1>24. ASSUME NEW p \in Procs, RollbackMark(p) PROVE SeatConservation'
  <2>1. H' = H - (IF job[p].at \in HoldingPlaces THEN 1 ELSE 0)
    BY <1>24, ResumeCount DEF RollbackMark, H
  <2>2. H' = H BY <1>0, <1>24, <2>1 DEF RollbackMark
  <2> QED BY <1>0, <1>24, <1>a, <1>e, <1>f, <2>2 DEF RollbackMark, Unmark
<1>25. ASSUME NEW p \in Procs, RollbackFails(p) PROVE SeatConservation'
  <2>1. H' = H - (IF job[p].at \in HoldingPlaces THEN 1 ELSE 0)
    BY <1>25, ResumeCount DEF RollbackFails, H
  <2> QED BY <1>0, <1>25, <1>a, <1>e, <1>f, <2>1 DEF RollbackFails
<1>26. ASSUME NEW p \in Procs, RollbackRepeated(p) PROVE SeatConservation'
  BY <1>0, <1>26, <1>a, <1>d, <1>e, <1>f DEF RollbackRepeated, ReturnSeat
<1>27. CASE Crash
  <2>1. Holding' = {} BY <1>27 DEF Crash, Holding, Idle
  <2>2. H' = 0 BY <2>1, FS_EmptySet DEF H
  <2>3. O' = 0 BY <1>27 DEF Crash, O
  <2>4. leaked' = leaked + H + O BY <1>27 DEF Crash, H, O
  <2> QED BY <1>0, <1>27, <1>a, <1>e, <1>f, <2>2, <2>3, <2>4 DEF Crash
<1>28. CASE UNCHANGED vars
  BY <1>0, <1>28, <1>a, <1>d, <1>e, <1>f DEF vars
<1> QED
  BY <1>1, <1>2, <1>3, <1>4, <1>5, <1>6, <1>7, <1>8, <1>9, <1>10, <1>11, <1>12, <1>13,
     <1>14, <1>15, <1>16, <1>17, <1>18, <1>19, <1>20, <1>21, <1>22, <1>23, <1>24, <1>25,
     <1>26, <1>27, <1>28
     DEF Next, RequestStep, HandleMessage, Rollback

(* The inductive invariant: types, an order row behind whatever works on   *)
(* an order, and the count of seats; it holds whatever faults strike.      *)
THEOREM InductiveHolds == Spec => []Inductive
<1>1. Init => Inductive
  BY TypeInit, WorkInit, SeatsInit DEF Inductive
<1>2. Inductive /\ [Next]_vars => Inductive'
  BY TypeNext, WorkNext, SeatsNext DEF Inductive
<1> QED BY <1>1, <1>2, PTL DEF Spec

(* SeatConservation: seats in Redis and claims to seats add up to the      *)
(* capacity, corrected by the second and the forgotten claims.             *)
THEOREM SeatsConserved == Spec => []SeatConservation
<1>1. Inductive => SeatConservation
  BY DEF Inductive
<1> QED BY <1>1, InductiveHolds, PTL

(* The number of live orders exceeds the capacity by at most the number of *)
(* second claims; without one there is no overselling.                     *)
THEOREM OversellIsBounded == Spec => [](OversellBounded /\ (minted = 0 => NoOversell))
<1>1. Inductive => OversellBounded /\ (minted = 0 => NoOversell)
  <2> SUFFICES ASSUME Inductive PROVE OversellBounded /\ (minted = 0 => NoOversell)
    OBVIOUS
  <2>1. /\ Cardinality(Holding) \in Nat /\ Cardinality(Live) \in Nat /\ Len(outbox) \in Nat
        /\ Len(topic) - cursor \in Nat /\ stock \in Nat /\ minted \in Nat /\ leaked \in Nat
        /\ Capacity \in Nat
    BY SeatCountTypes, EngineAssumption DEF Inductive, TypeOK, RedisTypeOK, EngineAssumption
  <2> QED BY <2>1 DEF Inductive, SeatConservation, Seats, OversellBounded, NoOversell
<1> QED BY <1>1, InductiveHolds, PTL
-------------------------------------------------------------------------------
(* Who claims a seat: a goroutine between taking it and unmarking its      *)
(* user, a message, or a live order.                                       *)

In(u, s) == \E i \in DOMAIN s : s[i] = u
Once(s) == \A i, j \in DOMAIN s : s[i] = s[j] => i = j

LEMMA InAppend ==
  ASSUME NEW S, NEW s \in Seq(S), NEW e \in S
  PROVE  /\ \A u : In(u, Append(s, e)) <=> In(u, s) \/ u = e
         /\ Once(Append(s, e)) <=> Once(s) /\ ~In(e, s)
<1>1. /\ DOMAIN s = 1 .. Len(s) /\ Len(s) \in Nat
      /\ DOMAIN Append(s, e) = 1 .. Len(s) + 1
      /\ \A i \in 1 .. Len(s) : Append(s, e)[i] = s[i]
      /\ Append(s, e)[Len(s) + 1] = e
  BY AppendProperties
<1>2. \A i \in 1 .. Len(s) + 1 : i \in 1 .. Len(s) \/ i = Len(s) + 1
  BY <1>1
<1>3. \A i \in 1 .. Len(s) : i \in 1 .. Len(s) + 1 /\ i # Len(s) + 1
  BY <1>1
<1>4. Len(s) + 1 \in 1 .. Len(s) + 1
  BY <1>1
<1> QED BY <1>1, <1>2, <1>3, <1>4 DEF In, Once

LEMMA InTail ==
  ASSUME NEW S, NEW s \in Seq(S), s # <<>>
  PROVE  /\ Head(s) \in S
         /\ \A u : In(u, s) <=> u = Head(s) \/ In(u, Tail(s))
         /\ Once(s) => Once(Tail(s)) /\ ~In(Head(s), Tail(s))
<1>1. /\ Head(s) \in S /\ Head(s) = s[1]
      /\ DOMAIN s = 1 .. Len(s) /\ Len(s) \in Nat /\ Len(s) >= 1
      /\ Tail(s) \in Seq(S) /\ Len(Tail(s)) = Len(s) - 1
      /\ \A i \in 1 .. Len(Tail(s)) : Tail(s)[i] = s[i + 1]
  BY HeadTailProperties
<1>2. DOMAIN Tail(s) = 1 .. Len(s) - 1
  BY <1>1, LenProperties
<1>3. \A i \in 1 .. Len(s) : i # 1 => i - 1 \in 1 .. Len(s) - 1 /\ s[i] = Tail(s)[i - 1]
  <2> TAKE i \in 1 .. Len(s)
  <2> HAVE i # 1
  <2>1. i - 1 \in 1 .. Len(Tail(s)) /\ (i - 1) + 1 = i
    BY <1>1
  <2> QED BY <1>1, <2>1
<1>4. \A i \in 1 .. Len(s) - 1 : i + 1 \in 1 .. Len(s) /\ i + 1 # 1 /\ Tail(s)[i] = s[i + 1]
  BY <1>1
<1>5. \A i, j \in 1 .. Len(s) - 1 : i + 1 = j + 1 => i = j
  BY <1>1
<1>6. 1 \in 1 .. Len(s)
  BY <1>1
<1>7. \A u : In(u, s) <=> u = Head(s) \/ In(u, Tail(s))
  <2> TAKE u
  <2>1. In(u, s) => u = Head(s) \/ In(u, Tail(s))
    BY <1>1, <1>2, <1>3 DEF In
  <2>2. u = Head(s) \/ In(u, Tail(s)) => In(u, s)
    BY <1>1, <1>2, <1>4, <1>6 DEF In
  <2> QED BY <2>1, <2>2
<1>8. ASSUME Once(s) PROVE Once(Tail(s)) /\ ~In(Head(s), Tail(s))
  BY <1>1, <1>2, <1>4, <1>5, <1>6, <1>8 DEF In, Once
<1> QED BY <1>1, <1>7, <1>8

(* What the steps of Kafka do to the messages that are still to be read.   *)
LEMMA UnreadType == TypeOK => Unread \in Seq(Users)
BY SubSeqProperties DEF TypeOK, Unread

LEMMA UnreadAppend ==
  ASSUME TypeOK, NEW u \in Users, topic' = Append(topic, u), UNCHANGED cursor
  PROVE  Unread' = Append(Unread, u)
<1>1. topic \in Seq(Users) /\ cursor \in 0 .. Len(topic) /\ Len(topic) \in Nat
  BY DEF TypeOK
<1> DEFINE t == Append(topic, u)
           n == Len(topic)
<1>2. t \in Seq(Users) /\ Len(t) = n + 1 /\ t[n + 1] = u /\ \A i \in 1 .. n : t[i] = topic[i]
  BY <1>1, AppendProperties
<1> HIDE DEF t
<1>3. /\ SubSeq(topic, cursor + 1, n) \in Seq(Users)
      /\ Len(SubSeq(topic, cursor + 1, n)) = n - cursor
      /\ \A i \in 1 .. n - cursor : SubSeq(topic, cursor + 1, n)[i] = topic[cursor + i]
  BY <1>1, SubSeqProperties
<1>4. /\ SubSeq(t, cursor + 1, n + 1) \in Seq(Users)
      /\ Len(SubSeq(t, cursor + 1, n + 1)) = n + 1 - cursor
      /\ \A i \in 1 .. n + 1 - cursor : SubSeq(t, cursor + 1, n + 1)[i] = t[cursor + i]
  BY <1>1, <1>2, SubSeqProperties
<1> DEFINE a == Append(SubSeq(topic, cursor + 1, n), u)
<1>5. /\ a \in Seq(Users) /\ Len(a) = n - cursor + 1 /\ a[n - cursor + 1] = u
      /\ \A i \in 1 .. n - cursor : a[i] = topic[cursor + i]
  BY <1>3, AppendProperties
<1> HIDE DEF a
<1>6. \A i \in 1 .. n + 1 - cursor : SubSeq(t, cursor + 1, n + 1)[i] = a[i]
  <2> TAKE i \in 1 .. n + 1 - cursor
  <2>1. CASE i = n + 1 - cursor
    BY <1>1, <1>2, <1>4, <1>5, <2>1
  <2>2. CASE i # n + 1 - cursor
    <3>1. i \in 1 .. n - cursor /\ cursor + i \in 1 .. n
      BY <1>1, <2>2
    <3> QED BY <3>1, <1>2, <1>4, <1>5
  <2> QED BY <2>1, <2>2
<1>7. SubSeq(t, cursor + 1, n + 1) = a
  BY <1>1, <1>4, <1>5, <1>6, SeqEqual
<1> QED BY <1>2, <1>7 DEF Unread, a, t

LEMMA UnreadCommit ==
  ASSUME TypeOK, CommitOffsets
  PROVE  Unread' = Unread
<1>1. topic \in Seq(Users) /\ cursor \in 0 .. Len(topic) /\ Len(topic) \in Nat
  BY DEF TypeOK
<1>2. PICK k \in 1 .. cursor : /\ topic' = SubSeq(topic, k + 1, Len(topic))
                               /\ cursor' = cursor - k
  BY DEF CommitOffsets
<1> DEFINE n == Len(topic)
           t == SubSeq(topic, k + 1, n)
<1>3. /\ t \in Seq(Users) /\ Len(t) = n - k
      /\ \A i \in 1 .. n - k : t[i] = topic[k + i]
  BY <1>1, SubSeqProperties
<1> HIDE DEF t
<1>a. \A i \in cursor - k + 1 .. n - k : t[i] \in Users
  BY <1>1, <1>3
<1>b. cursor - k + 1 \in Int /\ n - k \in Int
  BY <1>1
<1> DEFINE a == cursor - k + 1
           b == n - k
           v == SubSeq(t, a, b)
<1>c. /\ v \in Seq(Users)
      /\ Len(v) = IF a <= b THEN b - a + 1 ELSE 0
      /\ \A i \in 1 .. b - a + 1 : v[i] = t[a + i - 1]
  <2> HIDE DEF a, b
  <2> QED BY <1>a, <1>b, SubSeqProperties DEF a, b
<1>4. /\ v \in Seq(Users)
      /\ Len(v) = n - cursor
      /\ \A i \in 1 .. n - cursor : v[i] = t[cursor - k + i]
  <2>1. /\ b - a + 1 = n - cursor /\ b - a + 1 \in Nat /\ a \in Int /\ b \in Int
        /\ \A i \in 1 .. n - cursor : a + i - 1 = cursor - k + i
    BY <1>1
  <2> HIDE DEF v, a, b
  <2>2. IF a <= b THEN b - a + 1 = n - cursor ELSE n - cursor = 0
    BY <2>1
  <2>3. Len(v) = n - cursor
    BY <1>c, <2>2
  <2>4. \A i \in 1 .. n - cursor : v[i] = t[cursor - k + i]
    BY <1>c, <2>1
  <2> QED BY <1>c, <2>3, <2>4 DEF a
<1> HIDE DEF v
<1>5. /\ SubSeq(topic, cursor + 1, n) \in Seq(Users)
      /\ Len(SubSeq(topic, cursor + 1, n)) = n - cursor
      /\ \A i \in 1 .. n - cursor : SubSeq(topic, cursor + 1, n)[i] = topic[cursor + i]
  BY <1>1, SubSeqProperties
<1>6. \A i \in 1 .. n - cursor : v[i] = SubSeq(topic, cursor + 1, n)[i]
  <2> TAKE i \in 1 .. n - cursor
  <2>1. cursor - k + i \in 1 .. n - k /\ k + (cursor - k + i) = cursor + i
    BY <1>1
  <2> QED BY <2>1, <1>3, <1>4, <1>5
<1>7. v = SubSeq(topic, cursor + 1, n)
  BY <1>1, <1>4, <1>5, <1>6, SeqEqual
<1> QED BY <1>2, <1>3, <1>7 DEF Unread, t, v

LEMMA UnreadRead ==
  ASSUME TypeOK, cursor < Len(topic), cursor' = cursor + 1, UNCHANGED topic
  PROVE  Unread # <<>> /\ Head(Unread) = topic[cursor + 1] /\ Unread' = Tail(Unread)
<1>1. topic \in Seq(Users) /\ cursor \in 0 .. Len(topic) /\ Len(topic) \in Nat
  BY DEF TypeOK
<1>2. cursor + 1 \in 1 .. Len(topic) /\ Len(topic) \in cursor + 1 .. Len(topic)
  BY <1>1
<1>3. Len(Unread) = Len(topic) - cursor
  BY <1>1, SubSeqProperties DEF Unread
<1>4. /\ Head(Unread) = topic[cursor + 1]
      /\ Tail(Unread) = SubSeq(topic, (cursor + 1) + 1, Len(topic))
  BY <1>1, <1>2, HeadTailOfSubSeq DEF Unread
<1>5. Unread # <<>>
  BY <1>1, <1>3, EmptySeq
<1>6. Unread' = SubSeq(topic, (cursor + 1) + 1, Len(topic))
  BY DEF Unread
<1> QED BY <1>4, <1>5, <1>6
-------------------------------------------------------------------------------
(* One claim for each user.                                                *)

ClaimPlaces == {"reserved", "handling", "refund", "unmark"}
Has(p, u) == job[p].user = u /\ job[p].at \in ClaimPlaces
Queued(u) == In(u, outbox)
Waiting(u) == In(u, Unread)

Claimed(u) == (\E p \in Procs : Has(p, u)) \/ Queued(u) \/ Waiting(u) \/ u \in Live
Single(u) ==
  /\ \A p, q \in Procs : Has(p, u) /\ Has(q, u) => p = q
  /\ (\E p \in Procs : Has(p, u)) => ~Queued(u) /\ ~Waiting(u) /\ u \notin Live
  /\ Queued(u) => ~Waiting(u) /\ u \notin Live
  /\ Waiting(u) => u \notin Live

(* As long as no seat was claimed twice, nobody has two claims, and whoever *)
(* has one is marked in Redis; without faults, nobody else is.             *)
Kept(u) == Single(u) /\ (Claimed(u) => u \in enrolled)
Held(u) == u \in enrolled => Claimed(u)
ClaimedOnce == minted = 0 => Once(outbox) /\ Once(Unread) /\ \A u \in Users : Kept(u)
MarksHeld == NoFault /\ minted = 0 => \A u \in Users : Held(u)

(* A step that does not touch the claims of u.                             *)
SameFor(u) ==
  /\ \A p \in Procs : Has(p, u)' <=> Has(p, u)
  /\ Queued(u)' <=> Queued(u)
  /\ Waiting(u)' <=> Waiting(u)
  /\ u \in Live' <=> u \in Live
  /\ u \in enrolled' <=> u \in enrolled

LEMMA SameKeeps ==
  ASSUME NEW u, SameFor(u)
  PROVE  (Kept(u) => Kept(u)') /\ (Held(u) => Held(u)')
BY DEF SameFor, Kept, Held, Single, Claimed

LEMMA HasGoto ==
  ASSUME TypeOK, NEW p \in Procs, NEW place, NEW v, Goto(p, place, v)
  PROVE  \A q \in Procs, u \in Users :
           Has(q, u)' <=> IF q = p THEN u = v /\ place \in ClaimPlaces ELSE Has(q, u)
BY DEF TypeOK, Goto, Has

LEMMA HasFinish ==
  ASSUME TypeOK, NEW p \in Procs, Finish(p)
  PROVE  \A q \in Procs, u \in Users : Has(q, u)' <=> q # p /\ Has(q, u)
<1>1. Goto(p, "idle", NoUser) /\ "idle" \notin ClaimPlaces
  BY FinishIsGoto DEF ClaimPlaces
<1> QED BY <1>1, HasGoto

LEMMA HasResume ==
  ASSUME TypeOK, NEW p \in Procs, Resume(p)
  PROVE  \A q \in Procs, u \in Users : Has(q, u)' <=> q # p /\ Has(q, u)
<1>1. "failed" \notin ClaimPlaces /\ "scanning" \notin ClaimPlaces
  BY DEF ClaimPlaces
<1>2. CASE p = Worker /\ Goto(p, "failed", job[p].user)
  BY <1>1, <1>2, HasGoto
<1>3. CASE p = Scanner /\ Goto(p, "scanning", NoUser)
  BY <1>1, <1>3, HasGoto
<1>4. CASE p \in Requests /\ Finish(p)
  BY <1>4, HasFinish
<1> QED BY <1>2, <1>3, <1>4 DEF Resume

LEMMA LiveExcept ==
  ASSUME TypeOK, NEW v \in Users, NEW s, order' = [order EXCEPT ![v] = s]
  PROVE  \A u \in Users :
           u \in Live' <=> IF u = v THEN s \in LiveStatus ELSE u \in Live
BY DEF TypeOK, Live, LiveStatus

LEMMA ClaimsKept ==
  /\ UNCHANGED job => \A p \in Procs, u \in Users : Has(p, u)' <=> Has(p, u)
  /\ UNCHANGED outbox => (Once(outbox)' <=> Once(outbox)) /\ \A u : Queued(u)' <=> Queued(u)
  /\ UNCHANGED <<topic, cursor>> =>
       (Once(Unread)' <=> Once(Unread)) /\ \A u : Waiting(u)' <=> Waiting(u)
  /\ UNCHANGED order => \A u : u \in Live' <=> u \in Live
BY DEF Has, Queued, Waiting, Unread, Live, In, Once

LEMMA CountersGrow ==
  TypeOK /\ [Next]_vars => (minted' = 0 => minted = 0) /\ (NoFault' => NoFault)
<1> SUFFICES ASSUME TypeOK, [Next]_vars
             PROVE  (minted' = 0 => minted = 0) /\ (struck' = 0 => struck = 0)
  BY DEF NoFault
<1>1. minted \in Nat /\ cursor \in Nat /\ struck \in Nat
  BY DEF TypeOK
<1>2. ASSUME NEW kind, Spend(kind) PROVE struck' # 0
  BY <1>1, <1>2 DEF Spend
<1> USE DEF redisVars, kafkaVars, mysqlVars, countVars
<1>3. ASSUME NEW r \in Requests, NEW u \in Users, Submit(r, u) \/ PayCheck(r, u)
      PROVE  minted' = minted /\ struck' = struck
  BY <1>3 DEF Submit, PayCheck
<1>4. ASSUME NEW r \in Requests, RequestStep(r)
      PROVE  (minted' = 0 => minted = 0) /\ (struck' = 0 => struck = 0)
  BY <1>1, <1>2, <1>4
     DEF RequestStep, Take, Refuse, Produce, ProduceFails, PayWrite, PayFails
<1>5. ASSUME NEW u \in Users, PassDeadline(u) \/ CloseOrder(u) \/ SkipOrder(u)
      PROVE  minted' = minted /\ struck' = struck
  BY <1>5 DEF PassDeadline, CloseOrder, SkipOrder
<1>6. ASSUME NEW p \in Procs, Rollback(p) \/ RollbackFails(p) \/ RollbackRepeated(p)
      PROVE  (minted' = 0 => minted = 0) /\ (struck' = 0 => struck = 0)
  BY <1>1, <1>2, <1>6
     DEF Rollback, RollbackStock, RollbackMark, RollbackFails, RollbackRepeated
<1>7. CASE CloseWindow \/ Deliver \/ CommitOffsets \/ ReadMessage \/ HandleMessage
           \/ ListExpired \/ EndScan \/ UNCHANGED vars
  BY <1>7 DEF CloseWindow, Deliver, CommitOffsets, ReadMessage, HandleMessage, Persist,
              PersistFails, ListExpired, EndScan, vars
<1>8. CASE DeliverAndRetry \/ LoseMessage \/ Reread \/ PersistAnswerLost \/ Crash
  BY <1>1, <1>2, <1>8 DEF DeliverAndRetry, LoseMessage, Reread, PersistAnswerLost, Crash
<1>9. CASE Notify
  BY <1>1, <1>2, <1>9 DEF Notify
<1>10. ASSUME NEW r \in Requests, TakeReplyLost(r)
       PROVE  (minted' = 0 => minted = 0) /\ (struck' = 0 => struck = 0)
  BY <1>1, <1>2, <1>10 DEF TakeReplyLost
<1> QED BY <1>3, <1>4, <1>5, <1>6, <1>7, <1>8, <1>9, <1>10 DEF Next

LEMMA ClaimsInit == Init => ClaimedOnce /\ MarksHeld
<1> SUFFICES ASSUME Init PROVE ClaimedOnce /\ MarksHeld
  OBVIOUS
<1>1. /\ \A p \in Procs : job[p].at = "idle"
      /\ outbox = <<>> /\ Unread = <<>> /\ Live = {} /\ enrolled = {}
  BY SubSeqEmpty DEF Init, Idle, Live, Unread
<1>2. "idle" \notin ClaimPlaces /\ \A u : ~In(u, <<>>) /\ Once(<<>>)
  BY DEF ClaimPlaces, In, Once
<1> QED BY <1>1, <1>2 DEF ClaimedOnce, MarksHeld, Kept, Held, Single, Claimed, Has, Queued, Waiting

(* One step per action, each for the one user whose claim it moves.        *)
LEMMA ClaimsNext ==
  Inductive /\ ClaimedOnce /\ MarksHeld /\ [Next]_vars => ClaimedOnce' /\ MarksHeld'
<1> SUFFICES ASSUME Inductive, ClaimedOnce, MarksHeld, [Next]_vars, minted' = 0
             PROVE  ClaimedOnce' /\ MarksHeld'
  BY DEF ClaimedOnce, MarksHeld
<1>a. /\ TypeOK /\ WorkHasOrders /\ minted = 0 /\ (NoFault' => NoFault)
      /\ minted \in Nat /\ struck \in Nat /\ cursor \in Nat
      /\ Once(outbox) /\ Once(Unread) /\ \A u \in Users : Kept(u)
      /\ NoFault => \A u \in Users : Held(u)
  BY CountersGrow DEF Inductive, ClaimedOnce, MarksHeld, TypeOK
<1>s. ASSUME \A u \in Users : SameFor(u), Once(outbox)', Once(Unread)'
      PROVE  ClaimedOnce' /\ MarksHeld'
  BY <1>a, <1>s, SameKeeps DEF ClaimedOnce, MarksHeld
<1>m. ASSUME NEW v \in Users, \A u \in Users : u # v => SameFor(u),
             Kept(v)', NoFault' => Held(v)', Once(outbox)', Once(Unread)'
      PROVE  ClaimedOnce' /\ MarksHeld'
  BY <1>a, <1>m, SameKeeps DEF ClaimedOnce, MarksHeld
<1>f. ASSUME NEW kind, Spend(kind) PROVE ~NoFault'
  BY <1>a, <1>f DEF Spend, NoFault
<1>o. /\ UNCHANGED outbox => Once(outbox)'
      /\ UNCHANGED <<topic, cursor>> => Once(Unread)'
  BY <1>a, ClaimsKept
<1>j. /\ UNCHANGED job => \A p \in Procs, u \in Users : Has(p, u)' <=> Has(p, u)
      /\ UNCHANGED outbox => \A u : Queued(u)' <=> Queued(u)
      /\ UNCHANGED <<topic, cursor>> => \A u : Waiting(u)' <=> Waiting(u)
      /\ UNCHANGED order => \A u : u \in Live' <=> u \in Live
      /\ UNCHANGED enrolled => \A u : u \in enrolled' <=> u \in enrolled
  BY ClaimsKept
<1>g. ASSUME NEW p \in Procs, NEW place, NEW v, Goto(p, place, v)
      PROVE  \A q \in Procs, u \in Users :
               Has(q, u)' <=> IF q = p THEN u = v /\ place \in ClaimPlaces ELSE Has(q, u)
  BY <1>a, <1>g, HasGoto
<1>h. ASSUME NEW p \in Procs, Finish(p) \/ Resume(p)
      PROVE  \A q \in Procs, u \in Users : Has(q, u)' <=> q # p /\ Has(q, u)
  BY <1>a, <1>h, HasFinish, HasResume
<1>u. ASSUME NEW p \in Procs, job[p].at \notin {"idle", "scanning"}
      PROVE  job[p].user \in Users
  BY <1>a, <1>u, BusyHasUser
<1>w. ASSUME NEW p \in Procs, NEW u, job[p].at \notin ClaimPlaces PROVE ~Has(p, u)
  BY <1>w DEF Has
<1>p. Worker \in Procs /\ Scanner \in Procs /\ Requests \subseteq Procs
  BY DEF Procs
<1> USE DEF redisVars, kafkaVars, mysqlVars, countVars, At
(* A goroutine moves between two places without a claim.                   *)
<1>b. ASSUME NEW p \in Procs, job[p].at \notin ClaimPlaces,
             \/ Finish(p)
             \/ \E place, v : Goto(p, place, v) /\ place \notin ClaimPlaces,
             UNCHANGED <<enrolled, outbox, topic, cursor, order>>
      PROVE  ClaimedOnce' /\ MarksHeld'
  <2>1. \A q \in Procs, u \in Users : Has(q, u)' <=> q # p /\ Has(q, u)
    BY <1>b, <1>g, <1>h
  <2> QED BY <1>b, <1>s, <1>j, <1>o, <1>w, <2>1 DEF SameFor
(* A goroutine keeps its claim.                                            *)
<1>c. ASSUME NEW p \in Procs, job[p].at \in ClaimPlaces, NEW place \in ClaimPlaces,
             Goto(p, place, job[p].user),
             UNCHANGED <<enrolled, outbox, topic, cursor, order>>
      PROVE  ClaimedOnce' /\ MarksHeld'
  <2>1. \A q \in Procs, u \in Users : Has(q, u)' <=> Has(q, u)
    BY <1>c, <1>g DEF Has
  <2> QED BY <1>c, <1>s, <1>j, <1>o, <2>1 DEF SameFor
<1>d. ASSUME UNCHANGED <<job, enrolled, outbox, topic, cursor, order>>
      PROVE  ClaimedOnce' /\ MarksHeld'
  BY <1>d, <1>s, <1>j, <1>o DEF SameFor
<1>1. ASSUME NEW r \in Requests, NEW u \in Users, Submit(r, u) \/ PayCheck(r, u)
      PROVE  ClaimedOnce' /\ MarksHeld'
  <2>1. /\ job[r].at \notin ClaimPlaces /\ UNCHANGED <<enrolled, outbox, topic, cursor, order>>
        /\ \E place, v : Goto(r, place, v) /\ place \notin ClaimPlaces
    BY <1>1 DEF Submit, PayCheck, ClaimPlaces
  <2> QED BY <1>b, <1>p, <2>1
<1>2. ASSUME NEW r \in Requests, Refuse(r) \/ PayFails(r) PROVE ClaimedOnce' /\ MarksHeld'
  BY <1>2, <1>b, <1>p DEF Refuse, PayFails, ClaimPlaces
<1>3. ASSUME NEW r \in Requests, ProduceFails(r) PROVE ClaimedOnce' /\ MarksHeld'
  BY <1>3, <1>c, <1>p DEF ProduceFails, ClaimPlaces
<1>4. CASE PersistFails
  BY <1>4, <1>c, <1>p DEF PersistFails, ClaimPlaces
<1>5. ASSUME NEW p \in Procs, RollbackStock(p) PROVE ClaimedOnce' /\ MarksHeld'
  BY <1>5, <1>c DEF RollbackStock, ReturnSeat, ClaimPlaces
<1>6. CASE Notify
  BY <1>6, <1>b, <1>p DEF Notify, ClaimPlaces
<1>7. CASE ListExpired
  <2>1. \E place, v : Goto(Scanner, place, v) /\ place \notin ClaimPlaces
    BY <1>7 DEF ListExpired, ClaimPlaces
  <2> QED BY <1>7, <1>b, <1>p, <2>1 DEF ListExpired, ClaimPlaces
<1>8. CASE EndScan
  BY <1>8, <1>b, <1>p DEF EndScan, ClaimPlaces
<1>9. ASSUME CloseWindow \/ UNCHANGED vars \/ \E u \in Users : PassDeadline(u) \/ SkipOrder(u)
      PROVE  ClaimedOnce' /\ MarksHeld'
  BY <1>9, <1>d DEF CloseWindow, vars, PassDeadline, SkipOrder
(* The claim of one user moves.                                            *)
<1>10. ASSUME NEW r \in Requests, Take(r) PROVE ClaimedOnce' /\ MarksHeld'
  <2>0. PICK v \in Users : v = job[r].user
    BY <1>10, <1>u DEF Take, Procs
  <2>1. /\ v \in Users /\ r \in Procs /\ v \notin enrolled /\ enrolled' = enrolled \cup {v}
        /\ Goto(r, "reserved", v) /\ job[r].at = "checked"
        /\ UNCHANGED <<outbox, topic, cursor, order>>
    BY <2>0, <1>10, <1>u, <1>p DEF Take, TryEnroll
  <2>2. \A q \in Procs, u \in Users : Has(q, u)' <=> Has(q, u) \/ (q = r /\ u = v)
    BY <2>1, <1>g, <1>w DEF ClaimPlaces
  <2>3. \A u \in Users : u # v => SameFor(u)
    BY <2>1, <2>2, <1>j DEF SameFor
  <2>4. ~Claimed(v)
    BY <2>1, <1>a DEF Kept
  <2>5. Kept(v)' /\ Held(v)'
    BY <2>1, <2>2, <2>4, <1>j DEF Kept, Held, Claimed, Single
  <2> QED BY <2>1, <2>3, <2>5, <1>m, <1>o
<1>11. ASSUME NEW r \in Requests, TakeReplyLost(r) PROVE ClaimedOnce' /\ MarksHeld'
  <2>0. PICK v \in Users : v = job[r].user
    BY <1>11, <1>u DEF TakeReplyLost, Procs
  <2>1. /\ v \in Users /\ r \in Procs /\ v \notin enrolled /\ enrolled' = enrolled \cup {v}
        /\ Finish(r) /\ job[r].at = "checked" /\ ~NoFault'
        /\ UNCHANGED <<outbox, topic, cursor, order>>
    BY <2>0, <1>11, <1>u, <1>p, <1>f DEF TakeReplyLost, TryEnroll
  <2>2. \A q \in Procs, u \in Users : Has(q, u)' <=> Has(q, u)
    BY <2>1, <1>h, <1>w DEF ClaimPlaces
  <2>3. \A u \in Users : u # v => SameFor(u)
    BY <2>1, <2>2, <1>j DEF SameFor
  <2>4. Kept(v)'
    BY <2>1, <2>2, <1>a, <1>j DEF Kept, Claimed, Single
  <2> QED BY <2>1, <2>3, <2>4, <1>m, <1>o
<1>12. ASSUME NEW r \in Requests, Produce(r) PROVE ClaimedOnce' /\ MarksHeld'
  <2>0. PICK v \in Users : v = job[r].user
    BY <1>12, <1>u DEF Produce, Procs
  <2>1. /\ v \in Users /\ r \in Procs /\ Finish(r) /\ Has(r, v) /\ outbox \in Seq(Users)
        /\ outbox' = Append(outbox, v) /\ UNCHANGED <<enrolled, topic, cursor, order>>
        /\ \A u : Has(r, u) => u = v
    BY <2>0, <1>12, <1>a, <1>u, <1>p DEF Produce, Has, ClaimPlaces, TypeOK
  <2>2. \A q \in Procs, u \in Users : Has(q, u)' <=> q # r /\ Has(q, u)
    BY <2>1, <1>h
  <2>3. /\ \A u : Queued(u)' <=> Queued(u) \/ u = v
        /\ Once(outbox)' <=> Once(outbox) /\ ~Queued(v)
    BY <2>1, InAppend DEF Queued
  <2>4. \A u \in Users : u # v => SameFor(u)
    BY <2>1, <2>2, <2>3, <1>j DEF SameFor
  <2>5. Single(v) /\ v \in enrolled
    BY <2>1, <1>a DEF Kept, Claimed
  <2>6. Kept(v)' /\ Held(v)' /\ Once(outbox)'
    BY <2>1, <2>2, <2>3, <2>5, <1>a, <1>j DEF Kept, Held, Claimed, Single
  <2> QED BY <2>1, <2>4, <2>6, <1>m, <1>o
<1>13. CASE Deliver
  <2>0. PICK v \in Users : v = Head(outbox)
    BY <1>13, <1>a, InTail DEF Deliver, TypeOK
  <2>1. /\ outbox # <<>> /\ outbox \in Seq(Users) /\ outbox' = Tail(outbox)
        /\ topic' = Append(topic, v) /\ UNCHANGED <<job, enrolled, cursor, order>>
    BY <2>0, <1>13, <1>a DEF Deliver, TypeOK
  <2>2. /\ v \in Users
        /\ \A u : Queued(u) <=> u = v \/ Queued(u)'
        /\ Once(outbox)' /\ ~Queued(v)'
    BY <2>0, <2>1, <1>a, InTail DEF Queued
  <2>3. Unread' = Append(Unread, v) /\ Unread \in Seq(Users)
    BY <2>0, <2>1, <2>2, <1>a, UnreadAppend, UnreadType
  <2>4. /\ \A u : Waiting(u)' <=> Waiting(u) \/ u = v
        /\ Once(Unread)' <=> Once(Unread) /\ ~Waiting(v)
    BY <2>2, <2>3, InAppend DEF Waiting
  <2>5. \A u \in Users : u # v => SameFor(u)
    BY <2>1, <2>2, <2>4, <1>j DEF SameFor
  <2>6. Single(v) /\ v \in enrolled
    BY <2>2, <1>a DEF Kept, Claimed
  <2>7. Kept(v)' /\ Held(v)' /\ Once(Unread)'
    BY <2>1, <2>2, <2>4, <2>6, <1>a, <1>j DEF Kept, Held, Claimed, Single
  <2> QED BY <2>2, <2>5, <2>7, <1>m
<1>14. CASE LoseMessage
  <2>0. PICK v \in Users : v = Head(outbox)
    BY <1>14, <1>a, InTail DEF LoseMessage, TypeOK
  <2>1. /\ outbox # <<>> /\ outbox \in Seq(Users) /\ outbox' = Tail(outbox)
        /\ ~NoFault' /\ UNCHANGED <<job, enrolled, topic, cursor, order>>
    BY <2>0, <1>14, <1>a, <1>f DEF LoseMessage, TypeOK
  <2>2. /\ v \in Users
        /\ \A u : Queued(u) <=> u = v \/ Queued(u)'
        /\ Once(outbox)' /\ ~Queued(v)'
    BY <2>0, <2>1, <1>a, InTail DEF Queued
  <2>3. \A u \in Users : u # v => SameFor(u)
    BY <2>0, <2>1, <2>2, <1>j DEF SameFor
  <2>4. Kept(v)'
    BY <2>1, <2>2, <1>a, <1>j DEF Kept, Claimed, Single
  <2> QED BY <2>1, <2>2, <2>3, <2>4, <1>m, <1>o
<1>15. CASE CommitOffsets
  <2>1. Unread' = Unread
    BY <1>15, <1>a, UnreadCommit
  <2>2. Once(Unread)' /\ \A u : Waiting(u)' <=> Waiting(u)
    BY <2>1, <1>a DEF Once, Waiting, In
  <2> QED BY <1>15, <2>2, <1>s, <1>j, <1>o DEF CommitOffsets, SameFor
<1>16. CASE ReadMessage
  <2>0. PICK v \in Users : v = topic[cursor + 1]
    BY <1>16, <1>a DEF ReadMessage, TypeOK
  <2>1. /\ job[Worker].at = "idle" /\ cursor < Len(topic) /\ cursor' = cursor + 1
        /\ Goto(Worker, "handling", v)
        /\ UNCHANGED <<enrolled, outbox, topic, order>>
    BY <2>0, <1>16 DEF ReadMessage
  <2>2. Unread # <<>> /\ Head(Unread) = v /\ Unread' = Tail(Unread) /\ Unread \in Seq(Users)
    BY <2>0, <2>1, <1>a, UnreadRead, UnreadType
  <2>3. /\ v \in Users
        /\ \A u : Waiting(u) <=> u = v \/ Waiting(u)'
        /\ Once(Unread)' /\ ~Waiting(v)'
    BY <2>0, <2>2, <1>a, InTail DEF Waiting
  <2>4. \A q \in Procs, u \in Users : Has(q, u)' <=> Has(q, u) \/ (q = Worker /\ u = v)
    BY <2>1, <1>g, <1>w, <1>p DEF ClaimPlaces
  <2>5. \A u \in Users : u # v => SameFor(u)
    BY <2>1, <2>3, <2>4, <1>j DEF SameFor
  <2>6. Single(v) /\ v \in enrolled /\ Waiting(v)
    BY <2>3, <1>a DEF Kept, Claimed
  <2>7. Kept(v)' /\ Held(v)'
    BY <2>1, <2>3, <2>4, <2>6, <1>j, <1>p DEF Kept, Held, Claimed, Single
  <2> QED BY <2>1, <2>3, <2>5, <2>7, <1>m, <1>o
<1>17. CASE Persist
  <2>0. PICK v \in Users : v = job[Worker].user
    BY <1>17, <1>u DEF Persist, Procs
  <2>1. /\ v \in Users /\ Has(Worker, v) /\ Goto(Worker, "succeeded", v)
        /\ order' = [order EXCEPT ![v] = "PENDING"]
        /\ UNCHANGED <<enrolled, outbox, topic, cursor>>
        /\ \A u : Has(Worker, u) => u = v
    BY <2>0, <1>17, <1>u, <1>p DEF Persist, InsertRows, Has, ClaimPlaces
  <2>2. \A q \in Procs, u \in Users : Has(q, u)' <=> q # Worker /\ Has(q, u)
    BY <2>1, <1>g, <1>p DEF ClaimPlaces
  <2>3. \A u \in Users : u \in Live' <=> u \in Live \/ u = v
    BY <2>1, <1>a, LiveExcept DEF LiveStatus
  <2>4. \A u \in Users : u # v => SameFor(u)
    BY <2>1, <2>2, <2>3, <1>j DEF SameFor
  <2>5. Single(v) /\ v \in enrolled
    BY <2>1, <1>a, <1>p DEF Kept, Claimed
  <2>6. Kept(v)' /\ Held(v)'
    BY <2>1, <2>2, <2>3, <2>5, <1>j, <1>p DEF Kept, Held, Claimed, Single
  <2> QED BY <2>1, <2>4, <2>6, <1>m, <1>o
<1>18. ASSUME NEW r \in Requests, PayWrite(r) PROVE ClaimedOnce' /\ MarksHeld'
  <2>0. PICK v \in Users : v = job[r].user
    BY <1>18, <1>u DEF PayWrite, Procs
  <2>1. /\ v \in Users /\ r \in Procs /\ Finish(r) /\ job[r].at \notin ClaimPlaces
        /\ order' = [order EXCEPT ![v] = "PAID"]
        /\ UNCHANGED <<enrolled, outbox, topic, cursor>>
    BY <2>0, <1>18, <1>u, <1>p DEF PayWrite, ClaimPlaces
  <2>2. v \in Live
    BY <1>18, <2>1, <1>a DEF PayWrite, WorkHasOrders, TypeOK, Live
  <2>3. \A q \in Procs, u \in Users : Has(q, u)' <=> Has(q, u)
    BY <2>1, <1>h, <1>w
  <2>4. \A u \in Users : u \in Live' <=> u \in Live
    BY <2>1, <2>2, <1>a, LiveExcept DEF LiveStatus
  <2> QED BY <2>1, <2>3, <2>4, <1>s, <1>j, <1>o DEF SameFor
<1>19. ASSUME NEW v \in Users, CloseOrder(v) PROVE ClaimedOnce' /\ MarksHeld'
  <2>1. /\ job[Scanner].at \notin ClaimPlaces /\ v \in Live /\ Goto(Scanner, "refund", v)
        /\ order' = [order EXCEPT ![v] = "CLOSED"]
        /\ UNCHANGED <<enrolled, outbox, topic, cursor>>
    BY <1>19, <1>a DEF CloseOrder, WorkHasOrders, ClaimPlaces
  <2>2. \A q \in Procs, u \in Users : Has(q, u)' <=> Has(q, u) \/ (q = Scanner /\ u = v)
    BY <2>1, <1>g, <1>w, <1>p DEF ClaimPlaces
  <2>a. "CLOSED" \notin LiveStatus
    BY DEF LiveStatus
  <2>3. \A u \in Users : u \in Live' <=> u \in Live /\ u # v
    BY <2>1, <2>a, <1>a, LiveExcept
  <2>4. \A u \in Users : u # v => SameFor(u)
    BY <2>1, <2>2, <2>3, <1>j DEF SameFor
  <2>5. Single(v) /\ v \in enrolled
    BY <2>1, <1>a DEF Kept, Claimed
  <2>6. Kept(v)' /\ Held(v)'
    BY <2>1, <2>2, <2>3, <2>5, <1>j, <1>p DEF Kept, Held, Claimed, Single
  <2> QED BY <2>1, <2>4, <2>6, <1>m, <1>o
<1>20. ASSUME NEW p \in Procs, RollbackMark(p) PROVE ClaimedOnce' /\ MarksHeld'
  <2>0. PICK v \in Users : v = job[p].user
    BY <1>20, <1>u DEF RollbackMark
  <2>1. /\ v \in Users /\ Has(p, v) /\ Resume(p) /\ enrolled' = enrolled \ {v}
        /\ UNCHANGED <<outbox, topic, cursor, order>>
        /\ \A u : Has(p, u) => u = v
    BY <2>0, <1>20, <1>u DEF RollbackMark, Unmark, Has, ClaimPlaces
  <2>2. \A q \in Procs, u \in Users : Has(q, u)' <=> q # p /\ Has(q, u)
    BY <2>1, <1>h
  <2>3. \A u \in Users : u # v => SameFor(u)
    BY <2>1, <2>2, <1>j DEF SameFor
  <2>4. Single(v)
    BY <2>1, <1>a DEF Kept
  <2>5. Kept(v)' /\ Held(v)'
    BY <2>1, <2>2, <2>4, <1>j DEF Kept, Held, Claimed, Single
  <2> QED BY <2>1, <2>3, <2>5, <1>m, <1>o
<1>21. ASSUME NEW p \in Procs, RollbackFails(p) PROVE ClaimedOnce' /\ MarksHeld'
  <2>0. PICK v \in Users : v = job[p].user
    BY <1>21, <1>u DEF RollbackFails
  <2>1. /\ v \in Users /\ Has(p, v) /\ Resume(p) /\ ~NoFault'
        /\ UNCHANGED <<enrolled, outbox, topic, cursor, order>>
        /\ \A u : Has(p, u) => u = v
    BY <2>0, <1>21, <1>u, <1>f DEF RollbackFails, Has, ClaimPlaces
  <2>2. \A q \in Procs, u \in Users : Has(q, u)' <=> q # p /\ Has(q, u)
    BY <2>1, <1>h
  <2>3. \A u \in Users : u # v => SameFor(u)
    BY <2>1, <2>2, <1>j DEF SameFor
  <2>4. Kept(v)'
    BY <2>1, <2>2, <1>a, <1>j DEF Kept, Claimed, Single
  <2> QED BY <2>1, <2>3, <2>4, <1>m, <1>o
(* Faults that make a second claim, and the crash, which only drops claims *)
(* when no message comes again.                                            *)
<1>22. CASE DeliverAndRetry \/ PersistAnswerLost \/ \E p \in Procs : RollbackRepeated(p)
  BY <1>22, <1>a DEF DeliverAndRetry, PersistAnswerLost, RollbackRepeated
<1>23. CASE Reread
  BY <1>23, <1>a DEF Reread
<1>24. CASE Crash
  <2>1. /\ ~NoFault' /\ outbox' = <<>> /\ cursor' = 0 /\ cursor = 0
        /\ UNCHANGED <<enrolled, topic, order>>
        /\ \A p \in Procs : job'[p].at = "idle"
    BY <1>24, <1>a, <1>f DEF Crash, Idle
  <2>2. Once(outbox)' /\ \A u : ~Queued(u)'
    BY <2>1 DEF Once, Queued, In
  <2>3. \A p \in Procs, u \in Users : ~Has(p, u)'
    BY <2>1 DEF Has, ClaimPlaces
  <2>4. Once(Unread)' /\ \A u : Waiting(u)' <=> Waiting(u)
    BY <2>1, <1>o, <1>j
  <2>5. \A u \in Users : Kept(u)'
    BY <2>1, <2>2, <2>3, <2>4, <1>a, <1>j DEF Kept, Claimed, Single
  <2> QED BY <2>1, <2>2, <2>4, <2>5 DEF ClaimedOnce, MarksHeld
<1> QED
  BY <1>1, <1>2, <1>3, <1>4, <1>5, <1>6, <1>7, <1>8, <1>9, <1>10, <1>11, <1>12, <1>13,
     <1>14, <1>15, <1>16, <1>17, <1>18, <1>19, <1>20, <1>21, <1>22, <1>23, <1>24
     DEF Next, RequestStep, HandleMessage, Rollback

(* The three facts above, and the seat count, hold in every state.         *)
THEOREM ClaimsHold == Spec => [](Inductive /\ ClaimedOnce /\ MarksHeld)
<1>1. Init => Inductive /\ ClaimedOnce /\ MarksHeld
  BY TypeInit, WorkInit, SeatsInit, ClaimsInit DEF Inductive
<1>2. /\ Inductive /\ ClaimedOnce /\ MarksHeld /\ [Next]_vars
      => (Inductive /\ ClaimedOnce /\ MarksHeld)'
  BY TypeNext, WorkNext, SeatsNext, ClaimsNext DEF Inductive
<1> QED BY <1>1, <1>2, PTL DEF Spec

(* From claims to numbers of seats: every claim but the one about to be    *)
(* unmarked is a seat.                                                     *)
Seated(u) ==
  (\E p \in Procs : job[p].user = u /\ job[p].at \in HoldingPlaces)
    \/ Queued(u) \/ Waiting(u) \/ u \in Live

LEMMA CountOnce ==
  ASSUME NEW s, Once(s), NEW u
  PROVE  Count(u, s) = IF In(u, s) THEN 1 ELSE 0
<1> DEFINE D == {i \in DOMAIN s : s[i] = u}
<1>1. CASE In(u, s)
  <2>1. PICK i \in DOMAIN s : s[i] = u
    BY <1>1 DEF In
  <2>2. D = {i}
    BY <2>1 DEF Once
  <2>3. Cardinality({i}) = 1
    BY FS_Singleton
  <2> QED BY <1>1, <2>2, <2>3 DEF Count
<1>2. CASE ~In(u, s)
  <2>1. D = {}
    BY <1>2 DEF In
  <2> QED BY <1>2, <2>1, FS_EmptySet DEF Count
<1> QED BY <1>1, <1>2

LEMMA SeatsOfClaims ==
  ASSUME ClaimedOnce, minted = 0, NEW u \in Users
  PROVE  SeatsOf(u) = IF Seated(u) THEN 1 ELSE 0
<1> DEFINE D == {p \in Holding : job[p].user = u}
           h == Cardinality(D)
<1>1. Once(outbox) /\ Once(Unread) /\ Single(u)
  BY DEF ClaimedOnce, Kept
<1>2. Count(u, outbox) = IF Queued(u) THEN 1 ELSE 0
  BY <1>1, CountOnce DEF Queued
<1>3. Count(u, Unread) = IF Waiting(u) THEN 1 ELSE 0
  BY <1>1, CountOnce DEF Waiting
<1>4. \A p \in D : p \in Procs /\ Has(p, u) /\ job[p].user = u /\ job[p].at \in HoldingPlaces
  BY DEF Holding, HoldingPlaces, Has, ClaimPlaces
<1>5. CASE D = {}
  <2>1. h = 0
    BY <1>5, FS_EmptySet
  <2>2. Seated(u) <=> Queued(u) \/ Waiting(u) \/ u \in Live
    BY <1>5 DEF Seated, Holding, HoldingPlaces
  <2> HIDE DEF h
  <2> QED BY <1>1, <1>2, <1>3, <2>1, <2>2 DEF SeatsOf, Single, h
<1>6. CASE D # {}
  <2>1. PICK p : p \in D
    BY <1>6
  <2>2. D = {p}
    BY <1>1, <1>4, <2>1 DEF Single
  <2>3. h = 1
    BY <2>2, FS_Singleton
  <2>4. Seated(u) /\ ~Queued(u) /\ ~Waiting(u) /\ u \notin Live
    BY <1>1, <1>4, <2>1 DEF Seated, Single
  <2> HIDE DEF h
  <2> QED BY <1>2, <1>3, <2>3, <2>4 DEF SeatsOf, h
<1> QED BY <1>5, <1>6

(* Unless a seat was claimed twice, a user holds one seat at most and is   *)
(* marked in Redis while holding it: concurrent Create calls of one user,  *)
(* retries after a refund and the scanner never add up to two seats.       *)
THEOREM OneSeatEach == Spec => []OneSeatPerUser
<1>1. Inductive /\ ClaimedOnce /\ MarksHeld => OneSeatPerUser
  <2> SUFFICES ASSUME ClaimedOnce, minted = 0, NEW u \in Users
               PROVE  SeatsOf(u) <= 1 /\ (SeatsOf(u) = 1 => u \in enrolled)
    BY DEF OneSeatPerUser
  <2>1. SeatsOf(u) = IF Seated(u) THEN 1 ELSE 0
    BY SeatsOfClaims
  <2>2. Seated(u) => Claimed(u)
    BY DEF Seated, Claimed, Has, ClaimPlaces, HoldingPlaces
  <2>3. Claimed(u) => u \in enrolled
    BY DEF ClaimedOnce, Kept
  <2> QED BY <2>1, <2>2, <2>3
<1> QED BY <1>1, ClaimsHold, PTL
-------------------------------------------------------------------------------
(* Payments in time.                                                       *)

(* When no Pay call is in progress as its order expires, the scanner only  *)
(* lists orders that are still PENDING, and nobody pays one that is over.  *)
PaysInTime ==
  /\ expired \subseteq overdue
  /\ \A u \in expired : order[u] = "PENDING"
  /\ \A p \in Procs : job[p].at = "paying" =>
       /\ p \in Requests /\ job[p].user \notin overdue
       /\ order[job[p].user] \in {"PENDING", "PAID"}
MintsByFault == NoFault => minted = 0

LEMMA PaysInit == Init => PaysInTime /\ MintsByFault
BY DEF Init, PaysInTime, MintsByFault, Idle

LEMMA PaysNext == TimelyPay /\ TypeOK /\ PaysInTime /\ [Next]_vars => PaysInTime'
<1> SUFFICES ASSUME TimelyPay, TypeOK, PaysInTime, [Next]_vars PROVE PaysInTime'
  OBVIOUS
<1> USE DEF redisVars, kafkaVars, mysqlVars, countVars, At
<1>p. Worker \in Procs /\ Scanner \in Procs /\ Requests \subseteq Procs /\ Scanner \notin Requests
  BY EngineAssumption DEF Procs, EngineAssumption
<1>a. ASSUME NEW p \in Procs, NEW place, NEW v, Goto(p, place, v), place # "paying",
             UNCHANGED <<order, overdue, expired>>
      PROVE  PaysInTime'
  BY <1>a DEF Goto, PaysInTime, TypeOK
<1>b. ASSUME NEW p \in Procs, Finish(p) \/ Resume(p), UNCHANGED <<order, overdue, expired>>
      PROVE  PaysInTime'
  BY <1>a, <1>b, FinishIsGoto DEF Resume
<1>c. ASSUME UNCHANGED <<job, order, overdue, expired>> PROVE PaysInTime'
  BY <1>c DEF PaysInTime
<1>1. ASSUME NEW r \in Requests, NEW u \in Users, Submit(r, u) PROVE PaysInTime'
  BY <1>1, <1>a, <1>p DEF Submit
<1>2. ASSUME NEW r \in Requests, NEW u \in Users, PayCheck(r, u) PROVE PaysInTime'
  BY <1>2, <1>p DEF PayCheck, Goto, PaysInTime, TypeOK
<1>3. ASSUME NEW r \in Requests, Take(r) \/ ProduceFails(r) PROVE PaysInTime'
  BY <1>3, <1>a, <1>p DEF Take, ProduceFails
<1>4. ASSUME NEW r \in Requests, Refuse(r) \/ Produce(r) \/ PayFails(r) \/ TakeReplyLost(r)
      PROVE  PaysInTime'
  BY <1>4, <1>b, <1>p DEF Refuse, Produce, PayFails, TakeReplyLost
<1>5. ASSUME NEW r \in Requests, PayWrite(r) PROVE PaysInTime'
  <2>1. PICK v \in Users : v = job[r].user
    BY <1>5, <1>p, BusyHasUser DEF PayWrite
  <2>2. /\ order' = [order EXCEPT ![v] = "PAID"] /\ Goto(r, "idle", NoUser)
        /\ UNCHANGED <<overdue, expired>> /\ v \notin expired
    BY <1>5, <1>p, <2>1, FinishIsGoto DEF PayWrite, PaysInTime
  <2> QED BY <2>1, <2>2, <1>p DEF Goto, PaysInTime, TypeOK
<1>6. CASE CloseWindow \/ Deliver \/ DeliverAndRetry \/ LoseMessage \/ CommitOffsets \/ Reread
           \/ UNCHANGED vars
  BY <1>6, <1>c DEF CloseWindow, Deliver, DeliverAndRetry, LoseMessage, CommitOffsets, Reread, vars
<1>7. CASE ReadMessage \/ PersistFails
  BY <1>7, <1>a, <1>p DEF ReadMessage, PersistFails
<1>8. CASE Persist \/ PersistAnswerLost
  <2>1. PICK v \in Users : v = job[Worker].user
    BY <1>8, <1>p, BusyHasUser DEF Persist, PersistAnswerLost
  <2>2. /\ order[v] = "none" /\ order' = [order EXCEPT ![v] = "PENDING"]
        /\ \E place : Goto(Worker, place, v) /\ place # "paying"
        /\ UNCHANGED <<overdue, expired>>
    BY <1>8, <2>1 DEF Persist, PersistAnswerLost, InsertRows
  <2>3. \A p \in Procs : job'[p].at = "paying" => job[p].at = "paying" /\ job'[p] = job[p]
    BY <2>2, <1>p DEF Goto, TypeOK
  <2> QED BY <2>2, <2>3 DEF PaysInTime, TypeOK
<1>9. CASE Notify
  BY <1>9, <1>b, <1>p DEF Notify
<1>10. ASSUME NEW v \in Users, PassDeadline(v) PROVE PaysInTime'
  <2>1. /\ overdue' = overdue \cup {v} /\ UNCHANGED <<job, order, expired>>
        /\ \A r \in Requests : job[r] # [at |-> "paying", user |-> v]
    BY <1>10 DEF PassDeadline
  <2>2. \A p \in Requests : job[p].at = "paying" => job[p].user # v
    BY <2>1, <1>p DEF TypeOK
  <2> QED BY <2>1, <2>2 DEF PaysInTime
<1>11. ASSUME NEW v \in Users, CloseOrder(v) PROVE PaysInTime'
  <2>1. /\ order' = [order EXCEPT ![v] = "CLOSED"] /\ expired' = expired \ {v}
        /\ v \in overdue /\ Goto(Scanner, "refund", v) /\ UNCHANGED overdue
    BY <1>11 DEF CloseOrder, PaysInTime
  <2> QED BY <2>1, <1>p DEF Goto, PaysInTime, TypeOK
<1>12. ASSUME NEW v \in Users, SkipOrder(v) PROVE PaysInTime'
  BY <1>12 DEF SkipOrder, PaysInTime
<1>13. CASE ListExpired
  <2>1. /\ expired' = {u \in overdue : order[u] = "PENDING"}
        /\ Goto(Scanner, "scanning", NoUser) /\ UNCHANGED <<order, overdue>>
    BY <1>13 DEF ListExpired
  <2> QED BY <2>1, <1>p DEF Goto, PaysInTime, TypeOK
<1>14. CASE EndScan
  BY <1>14, <1>b, <1>p DEF EndScan
<1>15. ASSUME NEW p \in Procs, RollbackStock(p) \/ RollbackMark(p) \/ RollbackFails(p)
       PROVE  PaysInTime'
  BY <1>15, <1>a, <1>b DEF RollbackStock, RollbackMark, RollbackFails
<1>16. ASSUME NEW p \in Procs, RollbackRepeated(p) PROVE PaysInTime'
  BY <1>16, <1>c DEF RollbackRepeated
<1>17. CASE Crash
  BY <1>17 DEF Crash, Idle, PaysInTime
<1> QED
  BY <1>1, <1>2, <1>3, <1>4, <1>5, <1>6, <1>7, <1>8, <1>9, <1>10, <1>11, <1>12, <1>13,
     <1>14, <1>15, <1>16, <1>17 DEF Next, RequestStep, HandleMessage, Rollback

(* A step that makes a second claim is then a fault.                       *)
LEMMA MintsNext == TypeOK /\ PaysInTime /\ MintsByFault /\ [Next]_vars => MintsByFault'
<1> SUFFICES ASSUME TypeOK, PaysInTime, MintsByFault, [Next]_vars, NoFault'
             PROVE  minted' = minted
  BY CountersGrow DEF MintsByFault
<1> USE DEF redisVars, kafkaVars, mysqlVars, countVars
<1>1. ASSUME NEW kind, Spend(kind) PROVE FALSE
  BY <1>1 DEF Spend, NoFault, TypeOK
<1>2. ASSUME NEW r \in Requests, PayWrite(r) PROVE minted' = minted
  BY <1>2 DEF PayWrite, PaysInTime, At, Procs
<1>3. ASSUME NEW r \in Requests, NEW u \in Users, Submit(r, u) \/ PayCheck(r, u)
      PROVE  minted' = minted
  BY <1>3 DEF Submit, PayCheck
<1>4. ASSUME NEW r \in Requests,
             Take(r) \/ Refuse(r) \/ Produce(r) \/ ProduceFails(r) \/ PayFails(r) \/ TakeReplyLost(r)
      PROVE  minted' = minted
  BY <1>4 DEF Take, Refuse, Produce, ProduceFails, PayFails, TakeReplyLost
<1>5. ASSUME NEW u \in Users, PassDeadline(u) \/ CloseOrder(u) \/ SkipOrder(u)
      PROVE  minted' = minted
  BY <1>5 DEF PassDeadline, CloseOrder, SkipOrder
<1>6. ASSUME NEW p \in Procs, RollbackStock(p) \/ RollbackMark(p) \/ RollbackFails(p)
      PROVE  minted' = minted
  BY <1>6 DEF RollbackStock, RollbackMark, RollbackFails
<1>7. ~(\E p \in Procs : RollbackRepeated(p))
  BY <1>1 DEF RollbackRepeated
<1>8. ~DeliverAndRetry /\ ~LoseMessage /\ ~Reread /\ ~PersistAnswerLost /\ ~Crash
  BY <1>1 DEF DeliverAndRetry, LoseMessage, Reread, PersistAnswerLost, Crash
<1>9. CASE CloseWindow \/ Deliver \/ CommitOffsets \/ ReadMessage \/ Persist \/ PersistFails
           \/ Notify \/ ListExpired \/ EndScan \/ UNCHANGED vars
  BY <1>9 DEF CloseWindow, Deliver, CommitOffsets, ReadMessage, Persist,
              PersistFails, Notify, ListExpired, EndScan, vars
<1> QED BY <1>2, <1>3, <1>4, <1>5, <1>6, <1>7, <1>8, <1>9
        DEF Next, RequestStep, HandleMessage, Rollback

(* When payments are in time no order that is over is listed or paid, and  *)
(* only faults make a second claim.                                        *)
THEOREM PaymentsInTime == TimelyPay => (Spec => [](PaysInTime /\ MintsByFault))
<1> SUFFICES ASSUME TimelyPay PROVE Spec => [](PaysInTime /\ MintsByFault)
  OBVIOUS
<1>1. TypeOK /\ PaysInTime /\ MintsByFault /\ [Next]_vars => (PaysInTime /\ MintsByFault)'
  BY PaysNext, MintsNext
<1> QED BY <1>1, PaysInit, TypeCorrect, PTL DEF Spec

(* PAID and CLOSED are final: a payment that read a PENDING order writes it *)
(* before the order can be closed, and the scanner closes PENDING ones.    *)
THEOREM OrdersAreFinal == TimelyPay => (Spec => OrderFinal)
<1> SUFFICES ASSUME TimelyPay PROVE Spec => OrderFinal
  OBVIOUS
<1>1. ASSUME TypeOK, PaysInTime, [Next]_vars, NEW u \in Users,
             order[u] \in {"PAID", "CLOSED"}
      PROVE  order'[u] = order[u]
  <2> USE DEF redisVars, kafkaVars, mysqlVars, countVars
  <2>1. ASSUME NEW r \in Requests, PayWrite(r) PROVE order'[u] = order[u]
    <3>1. order[job[r].user] \in {"PENDING", "PAID"} /\ order' = [order EXCEPT ![job[r].user] = "PAID"]
      BY <1>1, <2>1 DEF PayWrite, PaysInTime, At, Procs
    <3> QED BY <1>1, <3>1 DEF TypeOK
  <2>2. ASSUME NEW v \in Users, CloseOrder(v) PROVE order'[u] = order[u]
    BY <1>1, <2>2 DEF CloseOrder, PaysInTime
  <2>3. CASE Persist \/ PersistAnswerLost
    BY <1>1, <2>3 DEF Persist, PersistAnswerLost, InsertRows, TypeOK
  <2>4. ASSUME NEW r \in Requests, NEW v \in Users, Submit(r, v) \/ PayCheck(r, v)
        PROVE  order'[u] = order[u]
    BY <2>4 DEF Submit, PayCheck
  <2>5. ASSUME NEW r \in Requests,
               Take(r) \/ Refuse(r) \/ Produce(r) \/ ProduceFails(r) \/ PayFails(r)
                 \/ TakeReplyLost(r)
        PROVE  order'[u] = order[u]
    BY <2>5 DEF Take, Refuse, Produce, ProduceFails, PayFails, TakeReplyLost
  <2>6. ASSUME NEW v \in Users, PassDeadline(v) \/ SkipOrder(v) PROVE order'[u] = order[u]
    BY <2>6 DEF PassDeadline, SkipOrder
  <2>7. ASSUME NEW p \in Procs, Rollback(p) \/ RollbackFails(p) \/ RollbackRepeated(p)
        PROVE  order'[u] = order[u]
    BY <2>7 DEF Rollback, RollbackStock, RollbackMark, RollbackFails, RollbackRepeated
  <2>8. CASE CloseWindow \/ Deliver \/ DeliverAndRetry \/ LoseMessage \/ CommitOffsets
             \/ Reread \/ ReadMessage \/ PersistFails \/ Notify \/ ListExpired \/ EndScan
             \/ Crash \/ UNCHANGED vars
    BY <2>8 DEF CloseWindow, Deliver, DeliverAndRetry, LoseMessage, CommitOffsets, Reread,
                ReadMessage, PersistFails, Notify, ListExpired, EndScan, Crash, vars
  <2> QED BY <1>1, <2>1, <2>2, <2>3, <2>4, <2>5, <2>6, <2>7, <2>8
          DEF Next, RequestStep, HandleMessage
<1>2. TypeOK /\ PaysInTime /\ [Next]_vars
      => [\A u \in Users : order[u] \in {"PAID", "CLOSED"} => order'[u] = order[u]]_vars
  BY <1>1
<1> QED BY <1>2, PaymentsInTime, TypeCorrect, PTL DEF Spec, OrderFinal

(* Handled errors leave nobody behind: a user marked in Redis holds a seat *)
(* or is about to be unmarked.                                             *)
THEOREM MarksAccounted == TimelyPay => (Spec => []EveryMarkAccounted)
<1> SUFFICES ASSUME TimelyPay PROVE Spec => []EveryMarkAccounted
  OBVIOUS
<1>1. Inductive /\ ClaimedOnce /\ MarksHeld /\ MintsByFault => EveryMarkAccounted
  <2> SUFFICES ASSUME Inductive, ClaimedOnce, MarksHeld, minted = 0, NoFault, NEW u \in enrolled
               PROVE  SeatsOf(u) = 1 \/ \E p \in Procs : job[p] = [at |-> "unmark", user |-> u]
    BY DEF EveryMarkAccounted, MintsByFault
  <2>1. u \in Users /\ Claimed(u)
    BY DEF Inductive, TypeOK, RedisTypeOK, MarksHeld, Held
  <2>2. CASE Seated(u)
    BY <2>1, <2>2, SeatsOfClaims
  <2>3. CASE ~Seated(u)
    <3>1. PICK p \in Procs : job[p].user = u /\ job[p].at = "unmark"
      BY <2>1, <2>3 DEF Claimed, Seated, Has, ClaimPlaces, HoldingPlaces
    <3>2. job[p] \in [at : Places, user : Users \cup {NoUser}]
      BY DEF Inductive, TypeOK
    <3>3. job[p] = [at |-> "unmark", user |-> u]
      BY <3>1, <3>2
    <3> QED BY <3>3
  <2> QED BY <2>2, <2>3
<1> QED BY <1>1, ClaimsHold, PaymentsInTime, PTL
-------------------------------------------------------------------------------
(* Notices.                                                                *)

(* The worker has told everybody with an order of success, but for the     *)
(* user it is busy with, and is not about to tell that one of a failure.   *)
FailureTold == NoFault /\ minted = 0 =>
  /\ \A u \in Live : notice[u] = "success" \/ job[Worker].user = u
  /\ job[Worker].at = "failed" => job[Worker].user \notin Live

LEMMA NoticesInit == Init => FailureTold
BY DEF Init, FailureTold, Live, Idle

LEMMA NoticesNext ==
  Inductive /\ ClaimedOnce /\ FailureTold /\ [Next]_vars => FailureTold'
<1> SUFFICES ASSUME Inductive, ClaimedOnce, FailureTold, [Next]_vars, NoFault', minted' = 0
             PROVE  FailureTold'
  BY DEF FailureTold
<1>a. /\ TypeOK /\ WorkHasOrders /\ NoFault /\ minted = 0 /\ minted \in Nat /\ cursor \in Nat
      /\ \A u \in Users : Single(u)
      /\ \A u \in Live : notice[u] = "success" \/ job[Worker].user = u
      /\ job[Worker].at = "failed" => job[Worker].user \notin Live
  BY CountersGrow DEF Inductive, ClaimedOnce, Kept, FailureTold, TypeOK
<1>f. ASSUME NEW kind, Spend(kind) PROVE FALSE
  BY <1>a, <1>f DEF Spend, NoFault, TypeOK
<1>p. Worker \in Procs /\ Worker \notin Requests /\ Worker # Scanner /\ NoUser \notin Users
  BY EngineAssumption DEF Procs, EngineAssumption
<1> USE DEF redisVars, kafkaVars, mysqlVars, countVars, At
(* The worker stands still and no order becomes live.                      *)
<1>s. ASSUME job'[Worker] = job[Worker], Live' \subseteq Live, UNCHANGED notice
      PROVE  FailureTold'
  BY <1>a, <1>s DEF FailureTold
<1>q. ASSUME NEW p \in Procs, p # Worker, (\E place, v : Goto(p, place, v)) \/ Finish(p) \/ Resume(p)
      PROVE  job'[Worker] = job[Worker]
  BY <1>a, <1>p, <1>q DEF Goto, Finish, Resume, TypeOK
<1>l. UNCHANGED order => Live' \subseteq Live
  BY DEF Live
<1>1. ASSUME NEW r \in Requests, NEW u \in Users, Submit(r, u) \/ PayCheck(r, u)
      PROVE  FailureTold'
  BY <1>1, <1>p, <1>q, <1>l, <1>s DEF Submit, PayCheck, Procs
<1>2. ASSUME NEW r \in Requests,
             Take(r) \/ Refuse(r) \/ Produce(r) \/ ProduceFails(r) \/ PayFails(r)
      PROVE  FailureTold'
  BY <1>2, <1>p, <1>q, <1>l, <1>s DEF Take, Refuse, Produce, ProduceFails, PayFails, Procs
<1>3. ASSUME NEW r \in Requests, PayWrite(r) PROVE FailureTold'
  <2>1. PICK v \in Users : v = job[r].user
    BY <1>3, <1>a, BusyHasUser DEF PayWrite, Procs
  <2>2. /\ order' = [order EXCEPT ![v] = "PAID"] /\ Finish(r) /\ UNCHANGED notice
        /\ order[v] \in {"PENDING", "PAID"}
    BY <1>3, <1>a, <2>1 DEF PayWrite, WorkHasOrders, TypeOK, Procs
  <2>3. Live' \subseteq Live
    BY <1>a, <2>2 DEF Live, TypeOK
  <2> QED BY <2>2, <2>3, <1>p, <1>q, <1>s DEF Procs
<1>4. CASE CloseWindow \/ Deliver \/ CommitOffsets \/ UNCHANGED vars
           \/ \E u \in Users : PassDeadline(u) \/ SkipOrder(u)
  BY <1>4, <1>l, <1>s DEF CloseWindow, Deliver, CommitOffsets, PassDeadline, SkipOrder, vars
<1>5. ASSUME NEW v \in Users, CloseOrder(v) PROVE FailureTold'
  <2>1. order' = [order EXCEPT ![v] = "CLOSED"] /\ Goto(Scanner, "refund", v) /\ UNCHANGED notice
    BY <1>5 DEF CloseOrder
  <2>2. Live' \subseteq Live
    BY <1>a, <2>1 DEF Live, TypeOK
  <2> QED BY <2>1, <2>2, <1>p, <1>q, <1>s DEF Procs
<1>6. CASE ListExpired \/ EndScan
  BY <1>6, <1>p, <1>q, <1>l, <1>s DEF ListExpired, EndScan, Procs
<1>7. CASE ReadMessage
  <2>1. job[Worker].user = NoUser /\ UNCHANGED <<order, notice>>
        /\ \E v : Goto(Worker, "handling", v)
    BY <1>7, <1>a, <1>p DEF ReadMessage, TypeOK
  <2>2. \A u \in Live : notice[u] = "success"
    BY <2>1, <1>a, <1>p DEF Live
  <2>3. job'[Worker].at # "failed"
    BY <2>1, <1>a, <1>p DEF Goto, TypeOK
  <2> QED BY <2>1, <2>2, <2>3, <1>l DEF FailureTold
<1>8. CASE Persist
  <2>1. PICK v \in Users : v = job[Worker].user
    BY <1>8, <1>a, <1>p, BusyHasUser DEF Persist
  <2>2. /\ order' = [order EXCEPT ![v] = "PENDING"] /\ Goto(Worker, "succeeded", v)
        /\ UNCHANGED notice
    BY <1>8, <2>1 DEF Persist, InsertRows
  <2>3. job'[Worker].at = "succeeded" /\ job'[Worker].user = v /\ Live' \subseteq Live \cup {v}
    BY <2>2, <1>a, <1>p DEF Goto, TypeOK, Live
  <2> QED BY <2>1, <2>2, <2>3, <1>a DEF FailureTold
<1>9. CASE PersistFails \/ RollbackStock(Worker)
  <2>1. /\ \E place : Goto(Worker, place, job[Worker].user) /\ place # "failed"
        /\ UNCHANGED <<order, notice>>
    BY <1>9 DEF PersistFails, RollbackStock
  <2>2. job'[Worker].user = job[Worker].user /\ job'[Worker].at # "failed"
    BY <2>1, <1>a, <1>p DEF Goto, TypeOK
  <2> QED BY <2>1, <2>2, <1>a, <1>l DEF FailureTold
<1>10. CASE Notify
  <2>1. PICK v \in Users : v = job[Worker].user
    BY <1>10, <1>a, <1>p, BusyHasUser DEF Notify
  <2>2. /\ notice' = [notice EXCEPT ![v] = IF At(Worker, "succeeded") THEN "success" ELSE "fail"]
        /\ Finish(Worker) /\ UNCHANGED order /\ job[Worker].at \in {"succeeded", "failed"}
    BY <1>10, <1>f, <2>1 DEF Notify
  <2>3. job'[Worker].at = "idle"
    BY <2>2, <1>a, <1>p DEF Finish, Idle, TypeOK
  <2>4. Live' = Live /\ Live \subseteq Users /\ notice \in [Users -> {"none", "success", "fail"}]
    BY <2>2, <1>a DEF Live, TypeOK
  <2>5. \A u \in Live : notice'[u] = "success"
    BY <2>1, <2>2, <2>4, <1>a
  <2> QED BY <2>3, <2>4, <2>5 DEF FailureTold
<1>11. CASE RollbackMark(Worker)
  <2>1. PICK v \in Users : v = job[Worker].user
    BY <1>11, <1>a, <1>p, BusyHasUser DEF RollbackMark
  <2>2. Goto(Worker, "failed", v) /\ UNCHANGED <<order, notice>> /\ job[Worker].at = "unmark"
    BY <1>11, <1>p, <2>1 DEF RollbackMark, Resume
  <2>3. v \notin Live
    BY <2>1, <2>2, <1>a, <1>p DEF Single, Has, ClaimPlaces
  <2>4. job'[Worker].user = v
    BY <2>2, <1>a, <1>p DEF Goto, TypeOK
  <2> QED BY <2>1, <2>2, <2>3, <2>4, <1>a, <1>l DEF FailureTold
<1>12. ASSUME NEW p \in Procs, p # Worker, RollbackStock(p) \/ RollbackMark(p)
       PROVE  FailureTold'
  BY <1>12, <1>q, <1>l, <1>s DEF RollbackStock, RollbackMark
<1>13. ~DeliverAndRetry /\ ~LoseMessage /\ ~Reread /\ ~PersistAnswerLost /\ ~Crash
  BY <1>f DEF DeliverAndRetry, LoseMessage, Reread, PersistAnswerLost, Crash
<1>14. /\ \A p \in Procs : ~RollbackFails(p) /\ ~RollbackRepeated(p)
       /\ \A r \in Requests : ~TakeReplyLost(r)
  BY <1>f DEF RollbackFails, RollbackRepeated, TakeReplyLost
<1> QED
  BY <1>1, <1>2, <1>3, <1>4, <1>5, <1>6, <1>7, <1>8, <1>9, <1>10, <1>11, <1>12, <1>13, <1>14
     DEF Next, RequestStep, HandleMessage, Rollback

(* As long as no fault struck and no seat was claimed twice, whoever holds *)
(* an order was last told of success, or is the user the worker is busy    *)
(* with: an attempt that failed before leaves no false message behind.     *)
THEOREM NoticesTruthful == Spec => []NoticeTruthful
<1>1. /\ Inductive /\ ClaimedOnce /\ MarksHeld /\ FailureTold /\ [Next]_vars
      => FailureTold'
  BY NoticesNext
<1>2. FailureTold => NoticeTruthful
  BY DEF FailureTold, NoticeTruthful
<1> QED BY <1>1, <1>2, NoticesInit, ClaimsHold, PTL DEF Spec
-------------------------------------------------------------------------------
(* The engine implements the seat ledger as long as nothing fails that the *)
(* code does not handle and payments are in time.                          *)

InHand(u) == \E p \in Procs : job[p].user = u /\ job[p].at \in {"reserved", "handling"}
Reserving(u) == InHand(u) \/ Queued(u) \/ Waiting(u)
Returning(u) == \E p \in Procs : job[p].user = u /\ job[p].at = "refund"
ClaimNow(u) ==
  IF u \in Live THEN "sold"
  ELSE IF Returning(u) THEN "returning"
  ELSE IF Reserving(u) THEN "reserved"
  ELSE "none"

LEMMA ClaimIsNow ==
  TypeOK /\ ClaimedOnce /\ minted = 0 => \A u \in Users : ClaimOf(u) = ClaimNow(u)
<1> SUFFICES ASSUME TypeOK, ClaimedOnce, minted = 0, NEW u \in Users
             PROVE  ClaimOf(u) = ClaimNow(u)
  OBVIOUS
<1>1. Returning(u) <=> \E p \in Procs : job[p] = [at |-> "refund", user |-> u]
  <2>1. \A p \in Procs : job[p] \in [at : Places, user : Users \cup {NoUser}]
    BY DEF TypeOK
  <2> QED BY <2>1 DEF Returning
<1>2. SeatsOf(u) > 0 <=> Seated(u)
  BY SeatsOfClaims
<1>3. Seated(u) <=> u \in Live \/ Returning(u) \/ Reserving(u)
  BY DEF Seated, Returning, Reserving, InHand, HoldingPlaces
<1> QED BY <1>1, <1>2, <1>3 DEF ClaimOf, ClaimNow

LEMMA LedgerStarts == Init => Ledger!LedgerInit
<1> SUFFICES ASSUME Init PROVE Ledger!LedgerInit
  OBVIOUS
<1>1. TypeOK /\ ClaimedOnce /\ minted = 0
  BY TypeInit, ClaimsInit DEF Init
<1>2. /\ \A p \in Procs : job[p].at = "idle"
      /\ outbox = <<>> /\ Unread = <<>> /\ Live = {} /\ stock = Capacity
  BY SubSeqEmpty DEF Init, Idle, Live, Unread
<1>3. \A u \in Users : ClaimNow(u) = "none"
  BY <1>2 DEF ClaimNow, Returning, Reserving, InHand, Queued, Waiting, In
<1>4. \A u \in Users : ClaimOf(u) = "none"
  BY <1>1, <1>3, ClaimIsNow
<1> QED BY <1>2, <1>4 DEF Ledger!LedgerInit

(* Each step of the engine is one of the ledger's, or leaves it alone.     *)
LEMMA LedgerStep ==
  ASSUME Inductive, Inductive', ClaimedOnce, ClaimedOnce', minted = 0, minted' = 0,
         NoFault', [Next]_vars,
         \A u \in Users : ClaimOf(u) = ClaimNow(u),
         \A u \in Users : ClaimOf(u)' = ClaimNow(u)'
  PROVE  [Ledger!LedgerNext]_(Ledger!ledgerVars)
<1> DEFINE c == [u \in Users |-> ClaimOf(u)]
<1>a. /\ TypeOK /\ TypeOK' /\ WorkHasOrders /\ minted \in Nat /\ cursor \in Nat /\ stock \in Nat
      /\ Once(outbox) /\ Once(Unread) /\ \A u \in Users : Single(u) /\ Kept(u)
      /\ \A u \in Users : Single(u)'
  BY DEF Inductive, ClaimedOnce, Kept, TypeOK, RedisTypeOK
<1>f. ASSUME NEW kind, Spend(kind) PROVE FALSE
  BY <1>a, <1>f DEF Spend, NoFault, TypeOK
<1>p. Worker \in Procs /\ Scanner \in Procs /\ Requests \subseteq Procs
  BY DEF Procs
<1>m. ASSUME NEW v \in Users, NEW to, \A u \in Users : u # v => ClaimNow(u)' = ClaimNow(u),
             ClaimNow(v)' = to
      PROVE  c' = [c EXCEPT ![v] = to]
  BY <1>m
<1>s. ASSUME \A u \in Users : ClaimNow(u)' = ClaimNow(u), UNCHANGED stock
      PROVE  [Ledger!LedgerNext]_(Ledger!ledgerVars)
  <2>1. c' = c
    BY <1>s
  <2> QED BY <1>s, <2>1 DEF Ledger!ledgerVars
<1>c. \A u \in Users : c[u] = ClaimNow(u)
  OBVIOUS
<1> HIDE DEF c
<1>r. ASSUME NEW v \in Users, NEW from, NEW to, c[v] = from, c' = [c EXCEPT ![v] = to],
             \/ from = "none" /\ to = "reserved" /\ stock > 0 /\ stock' = stock - 1
             \/ from = "reserved" /\ to = "sold" /\ UNCHANGED stock
             \/ from = "reserved" /\ to = "returning" /\ UNCHANGED stock
             \/ from = "sold" /\ to = "returning" /\ UNCHANGED stock
             \/ from = "returning" /\ to = "none" /\ stock' = stock + 1
      PROVE  [Ledger!LedgerNext]_(Ledger!ledgerVars)
  <2>1. Ledger!Moves(v, from, to)
    BY <1>r DEF Ledger!Moves, c
  <2>2. Ledger!LedgerNext
    BY <1>r, <2>1 DEF Ledger!LedgerNext, Ledger!Reserve, Ledger!Confirm, Ledger!Reject,
                      Ledger!Expire, Ledger!Return
  <2> QED BY <2>2
<1>t. ASSUME NEW v \in Users, NEW from, NEW to, ClaimNow(v) = from,
             \A u \in Users : u # v => ClaimNow(u)' = ClaimNow(u), ClaimNow(v)' = to,
             \/ from = "none" /\ to = "reserved" /\ stock > 0 /\ stock' = stock - 1
             \/ from = "reserved" /\ to = "sold" /\ UNCHANGED stock
             \/ from = "reserved" /\ to = "returning" /\ UNCHANGED stock
             \/ from = "sold" /\ to = "returning" /\ UNCHANGED stock
             \/ from = "returning" /\ to = "none" /\ stock' = stock + 1
      PROVE  [Ledger!LedgerNext]_(Ledger!ledgerVars)
  BY <1>t, <1>m, <1>c, <1>r
<1>g. ASSUME NEW p \in Procs, NEW place, NEW v, Goto(p, place, v)
      PROVE  /\ job'[p].at = place /\ job'[p].user = v
             /\ \A q \in Procs : q # p => job'[q] = job[q]
  BY <1>a, <1>g DEF Goto, TypeOK
<1>j. /\ UNCHANGED job => \A u : (Returning(u)' <=> Returning(u)) /\ (InHand(u)' <=> InHand(u))
      /\ UNCHANGED outbox => \A u : Queued(u)' <=> Queued(u)
      /\ UNCHANGED <<topic, cursor>> => \A u : Waiting(u)' <=> Waiting(u)
      /\ UNCHANGED order => \A u : u \in Live' <=> u \in Live
  BY ClaimsKept DEF Returning, InHand
<1>k. ASSUME NEW u \in Users, u \in Live' <=> u \in Live, Returning(u)' <=> Returning(u),
             Reserving(u)' <=> Reserving(u)
      PROVE  ClaimNow(u)' = ClaimNow(u)
  BY <1>k DEF ClaimNow
(* A goroutine moves without touching a seat: from its old place and to    *)
(* its new one it neither holds nor returns a seat.                        *)
<1>i. ASSUME NEW p \in Procs, NEW place, NEW v, Goto(p, place, v),
             job[p].at \notin HoldingPlaces, place \notin HoldingPlaces,
             UNCHANGED <<stock, outbox, topic, cursor, order>>
      PROVE  [Ledger!LedgerNext]_(Ledger!ledgerVars)
  <2>1. \A u : (Returning(u)' <=> Returning(u)) /\ (InHand(u)' <=> InHand(u))
    BY <1>i, <1>g DEF Returning, InHand, HoldingPlaces
  <2> QED BY <1>i, <2>1, <1>j, <1>s DEF ClaimNow, Reserving
<1> USE DEF redisVars, kafkaVars, mysqlVars, countVars, At
<1>1. ASSUME NEW r \in Requests, NEW u \in Users, Submit(r, u) \/ PayCheck(r, u)
      PROVE  [Ledger!LedgerNext]_(Ledger!ledgerVars)
  BY <1>1, <1>i, <1>p DEF Submit, PayCheck, HoldingPlaces
<1>2. ASSUME NEW r \in Requests, Refuse(r) \/ PayFails(r)
      PROVE  [Ledger!LedgerNext]_(Ledger!ledgerVars)
  BY <1>2, <1>i, <1>p, FinishIsGoto DEF Refuse, PayFails, HoldingPlaces
<1>3. CASE Notify \/ ListExpired \/ EndScan
  BY <1>3, <1>i, <1>p, FinishIsGoto DEF Notify, ListExpired, EndScan, HoldingPlaces
<1>4. ASSUME NEW p \in Procs, RollbackMark(p) PROVE [Ledger!LedgerNext]_(Ledger!ledgerVars)
  BY <1>4, <1>i, FinishIsGoto DEF RollbackMark, Unmark, Resume, HoldingPlaces
<1>5. CASE CloseWindow \/ UNCHANGED vars \/ \E u \in Users : PassDeadline(u) \/ SkipOrder(u)
  <2>1. UNCHANGED <<stock, job, outbox, topic, cursor, order>>
    BY <1>5 DEF CloseWindow, vars, PassDeadline, SkipOrder
  <2> QED BY <2>1, <1>j, <1>s DEF ClaimNow, Reserving
<1>6. ASSUME NEW r \in Requests, PayWrite(r) PROVE [Ledger!LedgerNext]_(Ledger!ledgerVars)
  <2>1. PICK v \in Users : v = job[r].user
    BY <1>6, <1>a, <1>p, BusyHasUser DEF PayWrite
  <2>2. /\ order' = [order EXCEPT ![v] = "PAID"] /\ Goto(r, "idle", NoUser) /\ v \in Live
        /\ job[r].at = "paying" /\ UNCHANGED <<stock, outbox, topic, cursor>>
    BY <1>6, <1>a, <1>p, <2>1, FinishIsGoto DEF PayWrite, WorkHasOrders, TypeOK, Live
  <2>3. \A u \in Users : u \in Live' <=> u \in Live
    BY <2>2, <1>a, LiveExcept DEF LiveStatus
  <2>4. \A u : (Returning(u)' <=> Returning(u)) /\ (InHand(u)' <=> InHand(u))
    BY <2>2, <1>g, <1>p DEF Returning, InHand
  <2> QED BY <2>2, <2>3, <2>4, <1>j, <1>s DEF ClaimNow, Reserving
<1>7. ASSUME NEW r \in Requests, Take(r) PROVE [Ledger!LedgerNext]_(Ledger!ledgerVars)
  <2>1. PICK v \in Users : v = job[r].user
    BY <1>7, <1>a, <1>p, BusyHasUser DEF Take
  <2>2. /\ Goto(r, "reserved", v) /\ v \notin enrolled /\ stock > 0 /\ stock' = stock - 1
        /\ job[r].at = "checked" /\ UNCHANGED <<outbox, topic, cursor, order>>
    BY <1>7, <2>1 DEF Take, TryEnroll
  <2>3. ~Claimed(v)
    BY <2>2, <1>a DEF Kept
  <2>4. ClaimNow(v) = "none"
    BY <2>3 DEF ClaimNow, Claimed, Returning, Reserving, InHand, Has, ClaimPlaces
  <2>5. \A u : /\ Returning(u)' <=> Returning(u)
               /\ InHand(u)' <=> InHand(u) \/ u = v
    BY <2>2, <1>g, <1>p DEF Returning, InHand
  <2>6. v \notin Live /\ ~Returning(v)
    BY <2>3 DEF Claimed, Returning, Has, ClaimPlaces
  <2>7. ClaimNow(v)' = "reserved"
    BY <2>2, <2>5, <2>6, <1>j DEF ClaimNow, Reserving
  <2>8. \A u \in Users : u # v => ClaimNow(u)' = ClaimNow(u)
    BY <2>2, <2>5, <1>j, <1>k DEF Reserving
  <2> QED BY <2>2, <2>4, <2>7, <2>8, <1>t
<1>8. ASSUME NEW r \in Requests, Produce(r) PROVE [Ledger!LedgerNext]_(Ledger!ledgerVars)
  <2>1. PICK v \in Users : v = job[r].user
    BY <1>8, <1>a, <1>p, BusyHasUser DEF Produce
  <2>2. /\ Goto(r, "idle", NoUser) /\ job[r].at = "reserved" /\ outbox' = Append(outbox, v)
        /\ outbox \in Seq(Users) /\ UNCHANGED <<stock, topic, cursor, order>>
    BY <1>8, <1>a, <2>1, FinishIsGoto DEF Produce, TypeOK
  <2>3. \A u : Queued(u)' <=> Queued(u) \/ u = v
    BY <2>2, InAppend DEF Queued
  <2>4. \A u : /\ Returning(u)' <=> Returning(u)
               /\ u # v => (InHand(u)' <=> InHand(u))
    BY <2>1, <2>2, <1>g, <1>p DEF Returning, InHand
  <2>5. InHand(v)
    BY <2>1, <2>2, <1>p DEF InHand
  <2>6. \A u \in Users : Reserving(u)' <=> Reserving(u)
    BY <2>2, <2>3, <2>4, <2>5, <1>j DEF Reserving
  <2> QED BY <2>2, <2>4, <2>6, <1>j, <1>k, <1>s
<1>9. CASE Deliver
  <2>1. PICK v \in Users : v = Head(outbox)
    BY <1>9, <1>a, InTail DEF Deliver, TypeOK
  <2>2. /\ outbox # <<>> /\ outbox \in Seq(Users) /\ outbox' = Tail(outbox)
        /\ topic' = Append(topic, v) /\ UNCHANGED <<stock, job, cursor, order>>
    BY <1>9, <1>a, <2>1 DEF Deliver, TypeOK
  <2>3. \A u : Queued(u) <=> u = v \/ Queued(u)'
    BY <2>1, <2>2, InTail DEF Queued
  <2>4. Unread' = Append(Unread, v) /\ Unread \in Seq(Users)
    BY <2>2, <1>a, UnreadAppend, UnreadType
  <2>5. \A u : Waiting(u)' <=> Waiting(u) \/ u = v
    BY <2>4, InAppend DEF Waiting
  <2> QED BY <2>2, <2>3, <2>5, <1>j, <1>s DEF ClaimNow, Reserving
<1>10. CASE CommitOffsets
  <2>1. \A u : Waiting(u)' <=> Waiting(u)
    BY <1>10, <1>a, UnreadCommit DEF Waiting, In
  <2> QED BY <1>10, <2>1, <1>j, <1>s DEF CommitOffsets, ClaimNow, Reserving
<1>11. CASE ReadMessage
  <2>1. PICK v \in Users : v = topic[cursor + 1]
    BY <1>11, <1>a DEF ReadMessage, TypeOK
  <2>2. /\ job[Worker].at = "idle" /\ cursor < Len(topic) /\ cursor' = cursor + 1
        /\ Goto(Worker, "handling", v) /\ UNCHANGED <<stock, outbox, topic, order>>
    BY <1>11, <2>1 DEF ReadMessage
  <2>3. Unread # <<>> /\ Head(Unread) = v /\ Unread' = Tail(Unread) /\ Unread \in Seq(Users)
    BY <2>1, <2>2, <1>a, UnreadRead, UnreadType
  <2>4. \A u : Waiting(u) <=> u = v \/ Waiting(u)'
    BY <2>3, InTail DEF Waiting
  <2>5. \A u : /\ Returning(u)' <=> Returning(u)
               /\ InHand(u)' <=> InHand(u) \/ u = v
    BY <2>2, <1>g, <1>p DEF Returning, InHand
  <2>6. \A u \in Users : Reserving(u)' <=> Reserving(u)
    BY <2>2, <2>4, <2>5, <1>j DEF Reserving
  <2> QED BY <2>2, <2>5, <2>6, <1>j, <1>k, <1>s
<1>12. CASE Persist
  <2>1. PICK v \in Users : v = job[Worker].user
    BY <1>12, <1>a, <1>p, BusyHasUser DEF Persist
  <2>2. /\ order' = [order EXCEPT ![v] = "PENDING"] /\ Goto(Worker, "succeeded", v)
        /\ job[Worker].at = "handling" /\ UNCHANGED <<stock, outbox, topic, cursor>>
    BY <1>12, <2>1 DEF Persist, InsertRows
  <2>3. \A u \in Users : u \in Live' <=> u \in Live \/ u = v
    BY <2>2, <1>a, LiveExcept DEF LiveStatus
  <2>4. \A u : /\ Returning(u)' <=> Returning(u)
               /\ u # v => (InHand(u)' <=> InHand(u))
    BY <2>1, <2>2, <1>g, <1>p DEF Returning, InHand
  <2>5. InHand(v) /\ v \notin Live /\ ~Returning(v)
    BY <2>1, <2>2, <1>a, <1>p DEF InHand, Returning, Single, Has, ClaimPlaces
  <2>6. ClaimNow(v) = "reserved" /\ ClaimNow(v)' = "sold"
    BY <2>3, <2>5 DEF ClaimNow, Reserving
  <2>7. \A u \in Users : u # v => ClaimNow(u)' = ClaimNow(u)
    BY <2>2, <2>3, <2>4, <1>j, <1>k DEF Reserving
  <2> QED BY <2>2, <2>6, <2>7, <1>t
<1>13. ASSUME NEW p \in Procs, job[p].at \in {"reserved", "handling"},
              Goto(p, "refund", job[p].user), UNCHANGED <<stock, outbox, topic, cursor, order>>
       PROVE  [Ledger!LedgerNext]_(Ledger!ledgerVars)
  <2>1. PICK v \in Users : v = job[p].user
    BY <1>13, <1>a, BusyHasUser
  <2>2. \A u : u # v => (Returning(u)' <=> Returning(u)) /\ (InHand(u)' <=> InHand(u))
    BY <2>1, <1>13, <1>g DEF Returning, InHand
  <2>3. Returning(v)' /\ InHand(v) /\ v \notin Live /\ ~Returning(v)
    BY <2>1, <1>13, <1>a, <1>g DEF InHand, Returning, Single, Has, ClaimPlaces
  <2>4. /\ ClaimNow(v) = "reserved" /\ ClaimNow(v)' = "returning"
        /\ \A u \in Users : u # v => ClaimNow(u)' = ClaimNow(u)
    BY <1>13, <2>2, <2>3, <1>j DEF ClaimNow, Reserving
  <2> QED BY <1>13, <2>4, <1>t
<1>14. ASSUME NEW r \in Requests, ProduceFails(r) PROVE [Ledger!LedgerNext]_(Ledger!ledgerVars)
  BY <1>14, <1>13, <1>p DEF ProduceFails
<1>15. CASE PersistFails
  BY <1>15, <1>13, <1>p DEF PersistFails
<1>16. ASSUME NEW v \in Users, CloseOrder(v) PROVE [Ledger!LedgerNext]_(Ledger!ledgerVars)
  <2>1. /\ job[Scanner].at = "scanning" /\ v \in Live /\ Goto(Scanner, "refund", v)
        /\ order' = [order EXCEPT ![v] = "CLOSED"]
        /\ UNCHANGED <<stock, outbox, topic, cursor>>
    BY <1>16, <1>a DEF CloseOrder, WorkHasOrders
  <2>2. "CLOSED" \notin LiveStatus
    BY DEF LiveStatus
  <2>3. \A u \in Users : u \in Live' <=> u \in Live /\ u # v
    BY <2>1, <2>2, <1>a, LiveExcept
  <2>4. \A u : /\ Returning(u)' <=> Returning(u) \/ u = v
               /\ InHand(u)' <=> InHand(u)
    BY <2>1, <1>g, <1>p DEF Returning, InHand
  <2>5. ClaimNow(v) = "sold" /\ ClaimNow(v)' = "returning"
    BY <2>1, <2>3, <2>4 DEF ClaimNow
  <2>6. \A u \in Users : u # v => ClaimNow(u)' = ClaimNow(u)
    BY <2>1, <2>3, <2>4, <1>j, <1>k DEF Reserving
  <2> QED BY <2>1, <2>5, <2>6, <1>t
<1>17. ASSUME NEW p \in Procs, RollbackStock(p) PROVE [Ledger!LedgerNext]_(Ledger!ledgerVars)
  <2>1. PICK v \in Users : v = job[p].user
    BY <1>17, <1>a, BusyHasUser DEF RollbackStock
  <2>2. /\ Goto(p, "unmark", v) /\ job[p].at = "refund" /\ stock' = stock + 1
        /\ UNCHANGED <<outbox, topic, cursor, order>>
    BY <1>17, <2>1 DEF RollbackStock, ReturnSeat
  <2>3. Returning(v) /\ v \notin Live /\ ~Queued(v) /\ ~Waiting(v)
    BY <2>1, <2>2, <1>a DEF Returning, Single, Has, ClaimPlaces
  <2>4. \A q \in Procs : Has(q, v) => q = p
    BY <2>1, <2>2, <1>a DEF Single, Has, ClaimPlaces
  <2>5. ~Returning(v)' /\ ~InHand(v)'
    BY <2>2, <2>4, <1>g DEF Returning, InHand, Has, ClaimPlaces
  <2>6. \A u : u # v => (Returning(u)' <=> Returning(u)) /\ (InHand(u)' <=> InHand(u))
    BY <2>1, <2>2, <1>g DEF Returning, InHand
  <2>7. /\ ClaimNow(v) = "returning" /\ ClaimNow(v)' = "none"
        /\ \A u \in Users : u # v => ClaimNow(u)' = ClaimNow(u)
    BY <2>2, <2>3, <2>5, <2>6, <1>j DEF ClaimNow, Reserving
  <2> QED BY <2>2, <2>7, <1>t
<1>18. ~DeliverAndRetry /\ ~LoseMessage /\ ~Reread /\ ~PersistAnswerLost /\ ~Crash
  BY <1>f DEF DeliverAndRetry, LoseMessage, Reread, PersistAnswerLost, Crash
<1>19. /\ \A p \in Procs : ~RollbackFails(p) /\ ~RollbackRepeated(p)
       /\ \A r \in Requests : ~TakeReplyLost(r)
  BY <1>f DEF RollbackFails, RollbackRepeated, TakeReplyLost
<1> QED
  BY <1>1, <1>2, <1>3, <1>4, <1>5, <1>6, <1>7, <1>8, <1>9, <1>10, <1>11, <1>12, <1>14,
     <1>15, <1>16, <1>17, <1>18, <1>19 DEF Next, RequestStep, HandleMessage, Rollback

LEMMA NoFaultsStrike == Faults = {} /\ NoFault /\ [Next]_vars => NoFault'
<1> SUFFICES ASSUME Faults = {}, [Next]_vars PROVE struck' = struck
  BY DEF NoFault
<1>1. \A kind : ~Spend(kind)
  BY DEF Spend
<1> USE DEF redisVars, kafkaVars, mysqlVars, countVars
<1>2. ASSUME NEW r \in Requests, NEW u \in Users, Submit(r, u) \/ PayCheck(r, u)
      PROVE  struck' = struck
  BY <1>2 DEF Submit, PayCheck
<1>3. ASSUME NEW r \in Requests, RequestStep(r) \/ TakeReplyLost(r) PROVE struck' = struck
  BY <1>1, <1>3 DEF RequestStep, Take, Refuse, Produce, ProduceFails, PayWrite, PayFails,
                    TakeReplyLost
<1>4. ASSUME NEW u \in Users, PassDeadline(u) \/ CloseOrder(u) \/ SkipOrder(u)
      PROVE  struck' = struck
  BY <1>4 DEF PassDeadline, CloseOrder, SkipOrder
<1>5. ASSUME NEW p \in Procs, Rollback(p) \/ RollbackFails(p) \/ RollbackRepeated(p)
      PROVE  struck' = struck
  BY <1>1, <1>5 DEF Rollback, RollbackStock, RollbackMark, RollbackFails, RollbackRepeated
<1>6. CASE CloseWindow \/ Deliver \/ CommitOffsets \/ ReadMessage \/ HandleMessage \/ Notify
           \/ ListExpired \/ EndScan \/ UNCHANGED vars
  BY <1>1, <1>6 DEF CloseWindow, Deliver, CommitOffsets, ReadMessage, HandleMessage, Persist,
                    PersistFails, Notify, ListExpired, EndScan, vars
<1>7. ~DeliverAndRetry /\ ~LoseMessage /\ ~Reread /\ ~PersistAnswerLost /\ ~Crash
  BY <1>1 DEF DeliverAndRetry, LoseMessage, Reread, PersistAnswerLost, Crash
<1> QED BY <1>2, <1>3, <1>4, <1>5, <1>6, <1>7 DEF Next

(* Without faults, and with payments in time, handlers, topic, worker and  *)
(* scanner together are a ledger in which each user's seat is reserved,    *)
(* then sold or given back, in one step each.                              *)
THEOREM EngineImplementsLedger ==
  TimelyPay /\ Faults = {} => (Spec => ImplementsLedger)
<1> SUFFICES ASSUME TimelyPay, Faults = {} PROVE Spec => ImplementsLedger
  OBVIOUS
<1> DEFINE Inv == Inductive /\ ClaimedOnce /\ minted = 0 /\ NoFault
<1>1. Spec => [](NoFault)
  <2>1. Init => NoFault
    BY DEF Init, NoFault
  <2>2. NoFault /\ [Next]_vars => NoFault'
    BY NoFaultsStrike
  <2> QED BY <2>1, <2>2, PTL DEF Spec
<1>2. NoFault /\ MintsByFault => minted = 0
  BY DEF MintsByFault
<1>3. Spec => []Inv
  BY <1>1, <1>2, ClaimsHold, PaymentsInTime, PTL
<1>4. Inv => \A u \in Users : ClaimOf(u) = ClaimNow(u)
  BY ClaimIsNow DEF Inductive
<1>5. Inv' => (\A u \in Users : ClaimOf(u) = ClaimNow(u))'
  BY <1>4, PTL
<1>6. Inv /\ Inv' /\ [Next]_vars => [Ledger!LedgerNext]_(Ledger!ledgerVars)
  BY <1>4, <1>5, LedgerStep
<1>7. Spec => Ledger!LedgerInit
  BY LedgerStarts DEF Spec
<1> HIDE DEF Inv
<1> QED BY <1>3, <1>6, <1>7, PTL DEF Spec, ImplementsLedger, Ledger!LedgerSpec
-------------------------------------------------------------------------------
(* What a fault costs.                                                     *)

\* One fault hands out again what was handed out since the last commit of
\* offsets, or repeats one claim.
Burst == IF MaxUncommitted = 0 THEN 1 ELSE MaxUncommitted
MintsPerFault == cursor <= MaxUncommitted /\ minted <= struck * Burst

LEMMA BurstBounds ==
  /\ Burst \in Nat /\ Burst >= 1 /\ Burst >= MaxUncommitted
  /\ \A s \in Nat : s * Burst \in Nat /\ (s + 1) * Burst = s * Burst + Burst
<1>1. Burst \in Nat /\ Burst >= 1 /\ Burst >= MaxUncommitted
  BY EngineAssumption DEF Burst
<1>2. ASSUME NEW s \in Nat, NEW b \in Nat PROVE s * b \in Nat /\ (s + 1) * b = s * b + b
  OBVIOUS
<1> QED BY <1>1, <1>2

\* A fault adds at most a burst.
LEMMA FaultMints ==
  ASSUME TypeOK, MintsPerFault, NEW kind, Spend(kind),
         minted' = minted \/ minted' = minted + 1 \/ minted' = minted + cursor
  PROVE  minted' <= struck' * Burst
<1>1. struck \in Nat /\ minted \in Nat /\ cursor \in Nat /\ struck' = struck + 1
  BY DEF TypeOK, Spend
<1>2. MaxUncommitted \in Nat /\ cursor <= MaxUncommitted /\ minted <= struck * Burst
  BY EngineAssumption DEF MintsPerFault
<1>3. struck * Burst \in Nat /\ struck' * Burst = struck * Burst + Burst
  BY <1>1, BurstBounds
<1>4. minted' <= minted + Burst
  BY <1>1, <1>2, BurstBounds
<1> QED BY <1>1, <1>2, <1>3, <1>4, BurstBounds

LEMMA MintsPerFaultNext ==
  TypeOK /\ PaysInTime /\ MintsPerFault /\ [Next]_vars => MintsPerFault'
<1> SUFFICES ASSUME TypeOK, PaysInTime, MintsPerFault, [Next]_vars
             PROVE  MintsPerFault'
  OBVIOUS
<1> USE DEF redisVars, kafkaVars, mysqlVars, countVars
<1>0. cursor \in Nat /\ MaxUncommitted \in Nat /\ cursor <= MaxUncommitted
  BY EngineAssumption DEF TypeOK, MintsPerFault
<1>1. ASSUME cursor' = cursor \/ cursor' = 0, minted' = minted, struck' = struck
      PROVE  MintsPerFault'
  BY <1>0, <1>1 DEF MintsPerFault, Burst
<1>2. ASSUME NEW kind, Spend(kind), cursor' = cursor \/ cursor' = 0,
             minted' = minted \/ minted' = minted + 1 \/ minted' = minted + cursor
      PROVE  MintsPerFault'
  BY <1>0, <1>2, FaultMints DEF MintsPerFault
<1>3. ASSUME NEW r \in Requests, NEW u \in Users, Submit(r, u) \/ PayCheck(r, u)
      PROVE  MintsPerFault'
  BY <1>1, <1>3 DEF Submit, PayCheck
<1>4. ASSUME NEW r \in Requests, PayWrite(r) PROVE MintsPerFault'
  BY <1>1, <1>4 DEF PayWrite, PaysInTime, At, Procs
<1>5. ASSUME NEW r \in Requests,
             Take(r) \/ Refuse(r) \/ Produce(r) \/ ProduceFails(r) \/ PayFails(r) \/ TakeReplyLost(r)
      PROVE  MintsPerFault'
  <2>1. UNCHANGED <<cursor, minted>>
    BY <1>5 DEF Take, Refuse, Produce, ProduceFails, PayFails, TakeReplyLost
  <2>2. struck' = struck \/ Spend("redis")
    BY <1>5 DEF Take, Refuse, Produce, ProduceFails, PayFails, TakeReplyLost
  <2> QED BY <2>1, <2>2, <1>1, <1>2
<1>6. ASSUME NEW u \in Users, PassDeadline(u) \/ CloseOrder(u) \/ SkipOrder(u)
      PROVE  MintsPerFault'
  BY <1>1, <1>6 DEF PassDeadline, CloseOrder, SkipOrder
<1>7. ASSUME NEW p \in Procs, Rollback(p) \/ RollbackFails(p) \/ RollbackRepeated(p)
      PROVE  MintsPerFault'
  <2>1. CASE Rollback(p)
    BY <1>1, <2>1 DEF Rollback, RollbackStock, RollbackMark
  <2>2. CASE RollbackFails(p) \/ RollbackRepeated(p)
    BY <1>2, <2>2 DEF RollbackFails, RollbackRepeated
  <2> QED BY <1>7, <2>1, <2>2
<1>8. CASE Notify
  <2>1. UNCHANGED <<cursor, minted>> /\ (struck' = struck \/ Spend("db"))
    BY <1>8 DEF Notify
  <2> QED BY <2>1, <1>1, <1>2
<1>9. CASE DeliverAndRetry \/ LoseMessage \/ Reread \/ PersistAnswerLost \/ Crash
  <2>1. CASE DeliverAndRetry \/ LoseMessage \/ PersistAnswerLost
    BY <1>2, <2>1 DEF DeliverAndRetry, LoseMessage, PersistAnswerLost
  <2>2. CASE Reread \/ Crash
    BY <1>2, <2>2 DEF Reread, Crash
  <2> QED BY <1>9, <2>1, <2>2
<1>10. CASE CommitOffsets
  <2>1. PICK k \in 1..cursor : cursor' = cursor - k
    BY <1>10 DEF CommitOffsets
  <2>2. cursor' <= MaxUncommitted
    BY <1>0, <2>1
  <2> QED BY <1>10, <2>2 DEF CommitOffsets, MintsPerFault, Burst
<1>11. CASE ReadMessage
  <2>1. cursor' <= MaxUncommitted /\ UNCHANGED <<minted, struck>>
    BY <1>0, <1>11 DEF ReadMessage
  <2> QED BY <2>1 DEF MintsPerFault, Burst
<1>12. CASE CloseWindow \/ Deliver \/ HandleMessage \/ ListExpired \/ EndScan \/ UNCHANGED vars
  BY <1>1, <1>12
     DEF CloseWindow, Deliver, HandleMessage, Persist, PersistFails, ListExpired, EndScan, vars
<1> QED
  BY <1>3, <1>4, <1>5, <1>6, <1>7, <1>8, <1>9, <1>10, <1>11, <1>12 DEF Next, RequestStep

(* If payments are in time, each fault oversells at most as many seats as  *)
(* messages were handed out since the last commit of offsets, or one; and  *)
(* without faults the tickets MySQL records never exceed the seats loaded, *)
(* as docs/SRS.md:160 demands.                                             *)
THEOREM OversellNeedsFaults ==
  TimelyPay => (Spec => [](/\ Cardinality(Live) <= Capacity + struck * Burst
                           /\ NoFault => NoOversell))
<1> SUFFICES ASSUME TimelyPay
             PROVE  Spec => [](/\ Cardinality(Live) <= Capacity + struck * Burst
                               /\ NoFault => NoOversell)
  OBVIOUS
<1>1. Init => MintsPerFault
  BY EngineAssumption DEF Init, MintsPerFault, Burst
<1>2. TypeOK /\ OversellBounded /\ MintsPerFault
        => /\ Cardinality(Live) <= Capacity + struck * Burst
           /\ NoFault => NoOversell
  <2> SUFFICES ASSUME TypeOK, OversellBounded, MintsPerFault
               PROVE  /\ Cardinality(Live) <= Capacity + struck * Burst
                      /\ NoFault => NoOversell
    OBVIOUS
  <2>1. /\ struck \in Nat /\ minted \in Nat /\ Capacity \in Nat
        /\ Cardinality(Live) \in Nat
    BY SeatCountTypes, EngineAssumption DEF TypeOK
  <2>2. struck * Burst \in Nat /\ minted <= struck * Burst
    BY <2>1, BurstBounds DEF MintsPerFault
  <2>3. Cardinality(Live) <= Capacity + struck * Burst
    BY <2>1, <2>2 DEF OversellBounded
  <2>4. NoFault => struck * Burst = 0
    BY BurstBounds DEF NoFault
  <2> QED BY <2>1, <2>3, <2>4 DEF NoOversell
<1> QED
  BY <1>1, <1>2, MintsPerFaultNext, TypeCorrect, OversellIsBounded, PaymentsInTime, PTL DEF Spec
===============================================================================
