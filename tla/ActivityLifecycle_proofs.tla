----------------------- MODULE ActivityLifecycle_proofs -----------------------
(***************************************************************************)
(* Theorems about ActivityLifecycle for every set of users, every set of   *)
(* capacities, every length of the clock, any number of requests of the    *)
(* merchant at once and any number of repeated warm-ups: only the save of  *)
(* an outdated copy changes what is published, and as long as none was     *)
(* saved the stock matches the row, nobody is served early, and only users *)
(* served during the warm-up may be served twice.                          *)
(***************************************************************************)
EXTENDS ActivityLifecycle, SequenceTheorems, TLAPS

LEMMA TypeInit == LifecycleInit => LifecycleTypeOK
<1> SUFFICES ASSUME LifecycleInit PROVE LifecycleTypeOK
  OBVIOUS
<1>1. 0 \in Times
  BY LifecycleAssumption DEF Times, LifecycleAssumption
<1>2. given \in Seq(Users)
  BY EmptySeq DEF LifecycleInit
<1>3. request \in [Requests -> {Idle} \cup [at : Stages, copy : Rows]]
  BY DEF LifecycleInit
<1>4. /\ stock \in Int /\ enrolled \subseteq Users /\ checked \subseteq Users
      /\ row = NoRow /\ now = 0
  BY DEF LifecycleInit
<1>5. /\ cold \in BOOLEAN /\ stale \in BOOLEAN /\ early \subseteq Users
      /\ resent \in Nat /\ resold \in Nat /\ outdated \subseteq Requests
  BY DEF LifecycleInit
<1> QED BY <1>1, <1>2, <1>3, <1>4, <1>5 DEF LifecycleTypeOK

(* What a step of a request does to the requests.                          *)
LEMMA GotoTypes ==
  ASSUME LifecycleTypeOK, NEW m \in Requests, NEW place, NEW copy, Goto(m, place, copy)
  PROVE  /\ request'[m].at = place /\ request'[m].copy = copy
         /\ \A n \in Requests : n # m => request'[n] = request[n]
         /\ place \in Stages /\ copy \in Rows
              => request' \in [Requests -> {Idle} \cup [at : Stages, copy : Rows]]
<1>1. request' = [request EXCEPT ![m] = [at |-> place, copy |-> copy]]
  BY DEF Goto
<1>2. request \in [Requests -> {Idle} \cup [at : Stages, copy : Rows]]
  BY DEF LifecycleTypeOK
<1> QED BY <1>1, <1>2

LEMMA FinishTypes ==
  ASSUME LifecycleTypeOK, NEW m \in Requests, Finish(m)
  PROVE  /\ request'[m] = Idle
         /\ \A n \in Requests : n # m => request'[n] = request[n]
         /\ request' \in [Requests -> {Idle} \cup [at : Stages, copy : Rows]]
BY DEF LifecycleTypeOK, Finish

LEMMA BusyHasCopy ==
  ASSUME LifecycleTypeOK, NEW m \in Requests, request[m].at \in Stages
  PROVE  request[m].copy \in Rows
<1>1. request[m] \in {Idle} \cup [at : Stages, copy : Rows]
  BY DEF LifecycleTypeOK
<1>2. request[m] # Idle
  BY DEF Idle, Stages, Saving, Warming
<1> QED BY <1>1, <1>2

LEMMA IdleIsIdle == Idle.at = "idle" /\ "idle" \notin Stages
BY DEF Idle, Stages, Saving, Warming

LEMMA StagesApart ==
  /\ Saving \cap Warming = {} /\ Saving \subseteq Stages /\ Warming \subseteq Stages
  /\ "updating" \in Saving /\ "publishing" \in Saving
  /\ \A place \in Saving : place = "updating" \/ place = "publishing"
  /\ \A place \in {"warming", "clearing", "answering", "resending"} : place \in Warming
BY DEF Stages, Saving, Warming

LEMMA RowTypes ==
  ASSUME NEW r \in Rows
  PROVE  /\ r.status \in {"DRAFT", "PUBLISHED"} /\ r.capacity \in Int
         /\ r.opens \in Nat /\ r.closes \in Nat /\ r # NoRow
<1>1. r.capacity \in Capacities /\ r.status \in {"DRAFT", "PUBLISHED"}
      /\ r.opens \in Times /\ r.closes \in Times
  BY DEF Rows
<1>2. Capacities \subseteq Int /\ Times \subseteq Nat
  BY LifecycleAssumption DEF LifecycleAssumption, Times
<1>3. NoRow.status = "absent"
  BY DEF NoRow
<1> QED BY <1>1, <1>2, <1>3

(* The windows of all copies are in order, and a copy that is not outdated *)
(* is still true of the row but for the fields the request may change.     *)
CopiesValid == \A m \in Requests : request[m].at \in Saving => ValidTimes(request[m].copy)
CopyTrue(m) ==
  /\ At(m, "updating") =>
       /\ row # NoRow /\ request[m].copy.status = row.status
       /\ Published => /\ request[m].copy.capacity = row.capacity
                       /\ request[m].copy.opens = row.opens
  /\ At(m, "publishing") =>
       row.status = "DRAFT" /\ request[m].copy = [row EXCEPT !.status = "PUBLISHED"]
CopyFresh == \A m \in Requests \ outdated : CopyTrue(m)

TypeAndCopies == LifecycleTypeOK /\ CopiesValid /\ CopyFresh

WarmStep(m) == WarmUpSet(m) \/ WarmUpClear(m) \/ WarmUpAnswered(m) \/ WarmUpResent(m)
                 \/ WarmUpSetAgain(m) \/ WarmUpFails(m)

(* What the steps of the warm-up have in common.                           *)
LEMMA WarmStepShape ==
  ASSUME NEW m \in Requests, WarmStep(m)
  PROVE  /\ request[m].at \in Warming
         /\ UNCHANGED <<row, now, checked, given, early, outdated, stale>>
         /\ \/ Finish(m)
            \/ \E place \in Warming \ {"warming"} : Goto(m, place, request[m].copy)
<1> USE DEF redisVars, countVars, saveVars, At, Warming
<1>1. CASE WarmUpSet(m)
  BY <1>1 DEF WarmUpSet
<1>2. CASE WarmUpClear(m)
  BY <1>2 DEF WarmUpClear
<1>3. CASE WarmUpAnswered(m)
  BY <1>3 DEF WarmUpAnswered
<1>4. CASE WarmUpResent(m)
  BY <1>4 DEF WarmUpResent
<1>5. CASE WarmUpSetAgain(m)
  BY <1>5 DEF WarmUpSetAgain
<1>6. CASE WarmUpFails(m)
  BY <1>6 DEF WarmUpFails
<1> QED BY <1>1, <1>2, <1>3, <1>4, <1>5, <1>6 DEF WarmStep

LEMMA TypeNext ==
  LifecycleTypeOK /\ CopiesValid /\ [LifecycleNext]_lifecycleVars => LifecycleTypeOK'
<1> SUFFICES ASSUME LifecycleTypeOK, CopiesValid, [LifecycleNext]_lifecycleVars
             PROVE  LifecycleTypeOK'
  OBVIOUS
<1> DEFINE Stands == {Idle} \cup [at : Stages, copy : Rows]
<1>a. /\ stock \in Int /\ enrolled \subseteq Users /\ now \in Times /\ checked \subseteq Users
      /\ row \in {NoRow} \cup Rows /\ (row # NoRow => ValidTimes(row))
      /\ given \in Seq(Users) /\ early \subseteq Users /\ resent \in Nat /\ resold \in Nat
      /\ cold \in BOOLEAN /\ stale \in BOOLEAN /\ outdated \subseteq Requests
      /\ request \in [Requests -> Stands]
  BY DEF LifecycleTypeOK
<1> USE DEF redisVars, countVars, saveVars
<1>1. ASSUME NEW r \in Rows, Create(r) PROVE LifecycleTypeOK'
  BY <1>1, <1>a DEF Create, LifecycleTypeOK
<1>2. ASSUME NEW m \in Requests, NEW r \in Rows, ReadForUpdate(m, r) PROVE LifecycleTypeOK'
  <2>1. request' \in [Requests -> Stands]
    BY <1>2, GotoTypes, StagesApart DEF ReadForUpdate, Stands
  <2> QED BY <1>2, <1>a, <2>1 DEF ReadForUpdate, LifecycleTypeOK
<1>3. ASSUME NEW m \in Requests, SaveUpdate(m) \/ SavePublish(m) PROVE LifecycleTypeOK'
  <2>1. request[m].at \in Saving
    BY <1>3, StagesApart DEF SaveUpdate, SavePublish, At
  <2>2. request[m].copy \in Rows /\ ValidTimes(request[m].copy)
    BY <2>1, BusyHasCopy, StagesApart DEF CopiesValid
  <2>3. request' \in [Requests -> Stands]
    BY <1>3, <2>2, FinishTypes, GotoTypes, StagesApart DEF SaveUpdate, SavePublish, Stands
  <2>4. outdated' \subseteq Requests /\ stale' \in BOOLEAN
    BY <1>3, <1>a DEF SaveUpdate, SavePublish, Save
  <2>5. row' = request[m].copy /\ UNCHANGED <<redisVars, now, checked, countVars, cold>>
    BY <1>3 DEF SaveUpdate, SavePublish, Save
  <2> QED BY <1>a, <2>2, <2>3, <2>4, <2>5 DEF LifecycleTypeOK
<1>4. ASSUME NEW m \in Requests, SaveFails(m) PROVE LifecycleTypeOK'
  <2>1. request' \in [Requests -> Stands]
    BY <1>4, FinishTypes DEF SaveFails
  <2> QED BY <1>4, <1>a, <2>1 DEF SaveFails, LifecycleTypeOK
<1>5. ASSUME NEW m \in Requests, ReadForPublish(m) PROVE LifecycleTypeOK'
  <2>1. row \in Rows
    BY <1>5, <1>a DEF ReadForPublish, NoRow
  <2>2. [row EXCEPT !.status = "PUBLISHED"] \in Rows
    BY <2>1 DEF Rows
  <2>3. request' \in [Requests -> Stands]
    BY <1>5, <2>2, GotoTypes, StagesApart DEF ReadForPublish, Stands
  <2> QED BY <1>5, <1>a, <2>3 DEF ReadForPublish, LifecycleTypeOK
<1>6. ASSUME NEW m \in Requests, WarmStep(m) PROVE LifecycleTypeOK'
  <2>1. request[m].copy \in Rows /\ request[m].copy.capacity \in Int
    BY <1>6, WarmStepShape, BusyHasCopy, StagesApart, RowTypes
  <2>2. request' \in [Requests -> Stands]
    BY <1>6, <2>1, WarmStepShape, GotoTypes, FinishTypes, StagesApart DEF Stands
  <2>3. Len(given) \in Nat
    BY <1>a, LenProperties
  <2>4. /\ stock' \in Int /\ enrolled' \subseteq Users /\ cold' \in BOOLEAN
        /\ resent' \in Nat /\ resold' \in Nat
    <3>1. CASE WarmUpSet(m)
      BY <3>1, <1>a, <2>1 DEF WarmUpSet, WarmUpStock
    <3>2. CASE WarmUpClear(m)
      BY <3>2, <1>a DEF WarmUpClear, WarmUpMarks
    <3>3. CASE WarmUpAnswered(m) \/ WarmUpResent(m)
      BY <3>3, <1>a DEF WarmUpAnswered, WarmUpResent
    <3>4. CASE WarmUpSetAgain(m)
      BY <3>4, <1>a, <2>1, <2>3 DEF WarmUpSetAgain, WarmUpStock
    <3>5. CASE WarmUpFails(m)
      BY <3>5, <1>a DEF WarmUpFails
    <3> QED BY <1>6, <3>1, <3>2, <3>3, <3>4, <3>5 DEF WarmStep
  <2>5. UNCHANGED <<row, now, checked, given, early, outdated, stale>>
    BY <1>6, WarmStepShape
  <2> QED BY <1>a, <2>2, <2>4, <2>5 DEF LifecycleTypeOK
<1>7. CASE Restart
  <2>1. cold' \in BOOLEAN /\ request' \in [Requests -> Stands]
    BY <1>7 DEF Restart
  <2> QED BY <1>7, <1>a, <2>1 DEF Restart, LifecycleTypeOK
<1>8. CASE Tick
  <2>1. now' \in Times
    BY <1>8, <1>a, LifecycleAssumption DEF Tick, Times, LifecycleAssumption
  <2> QED BY <1>8, <1>a, <2>1 DEF Tick, LifecycleTypeOK
<1>9. ASSUME NEW u \in Users, Check(u) \/ Refuse(u) PROVE LifecycleTypeOK'
  BY <1>9, <1>a DEF Check, Refuse, LifecycleTypeOK
<1>10. ASSUME NEW u \in Users, Take(u) PROVE LifecycleTypeOK'
  <2>1. given' \in Seq(Users)
    BY <1>10, <1>a, AppendProperties DEF Take
  <2>2. /\ stock' \in Int /\ enrolled' \subseteq Users /\ checked' \subseteq Users
        /\ early' \subseteq Users
    BY <1>10, <1>a DEF Take, TryEnroll
  <2> QED BY <1>10, <1>a, <2>1, <2>2 DEF Take, LifecycleTypeOK
<1>11. CASE UNCHANGED lifecycleVars
  BY <1>11, <1>a DEF lifecycleVars, LifecycleTypeOK
<1> QED
  BY <1>1, <1>2, <1>3, <1>4, <1>5, <1>6, <1>7, <1>8, <1>9, <1>10, <1>11
     DEF LifecycleNext, WarmStep

LEMMA CopiesNext ==
  LifecycleTypeOK /\ CopiesValid /\ [LifecycleNext]_lifecycleVars => CopiesValid'
<1> SUFFICES ASSUME LifecycleTypeOK, CopiesValid, [LifecycleNext]_lifecycleVars
             PROVE  CopiesValid'
  OBVIOUS
<1>f. ASSUME NEW m \in Requests, Finish(m) PROVE CopiesValid'
  BY <1>f, FinishTypes, IdleIsIdle, StagesApart DEF CopiesValid, ValidTimes
<1>g. ASSUME NEW m \in Requests, NEW place, NEW copy, Goto(m, place, copy),
             place \in Saving => ValidTimes(copy)
      PROVE  CopiesValid'
  BY <1>g, GotoTypes DEF CopiesValid, ValidTimes
<1>s. UNCHANGED request => CopiesValid'
  BY DEF CopiesValid, ValidTimes
<1>1. ASSUME NEW r \in Rows, Create(r) PROVE CopiesValid'
  BY <1>1, <1>s DEF Create
<1>2. ASSUME NEW m \in Requests, NEW r \in Rows, ReadForUpdate(m, r) PROVE CopiesValid'
  BY <1>2, <1>g DEF ReadForUpdate
<1>3. ASSUME NEW m \in Requests, SaveUpdate(m) \/ SaveFails(m) PROVE CopiesValid'
  BY <1>3, <1>f DEF SaveUpdate, SaveFails
<1>4. ASSUME NEW m \in Requests, ReadForPublish(m) PROVE CopiesValid'
  <2>1. row \in Rows /\ ValidTimes(row) /\ Goto(m, "publishing", [row EXCEPT !.status = "PUBLISHED"])
    BY <1>4 DEF ReadForPublish, LifecycleTypeOK, NoRow
  <2>2. ValidTimes([row EXCEPT !.status = "PUBLISHED"])
    BY <2>1 DEF ValidTimes, Rows
  <2> QED BY <2>1, <2>2, <1>g
<1>5. ASSUME NEW m \in Requests, SavePublish(m) PROVE CopiesValid'
  BY <1>5, <1>g, StagesApart DEF SavePublish, Warming
<1>6. ASSUME NEW m \in Requests, WarmStep(m) PROVE CopiesValid'
  BY <1>6, <1>f, <1>g, WarmStepShape, StagesApart
<1>7. CASE Restart
  BY <1>7, IdleIsIdle, StagesApart DEF Restart, CopiesValid, ValidTimes
<1>8. CASE Tick \/ UNCHANGED lifecycleVars \/ \E u \in Users : Check(u) \/ Take(u) \/ Refuse(u)
  BY <1>8, <1>s DEF Tick, lifecycleVars, Check, Take, Refuse
<1> QED
  BY <1>1, <1>2, <1>3, <1>4, <1>5, <1>6, <1>7, <1>8 DEF LifecycleNext, WarmStep

(* A save makes the other copies outdated; no other step changes the row.  *)
LEMMA FreshNext ==
  TypeAndCopies /\ [LifecycleNext]_lifecycleVars => CopyFresh'
<1> SUFFICES ASSUME LifecycleTypeOK, CopyFresh, [LifecycleNext]_lifecycleVars
             PROVE  CopyFresh'
  BY DEF TypeAndCopies
<1>a. /\ outdated \subseteq Requests /\ \A m \in Requests \ outdated : CopyTrue(m)
      /\ request \in [Requests -> {Idle} \cup [at : Stages, copy : Rows]]
  BY DEF CopyFresh, LifecycleTypeOK
<1> USE DEF saveVars
<1>i. \A n \in Requests : request'[n].at \notin Saving => CopyTrue(n)'
  BY StagesApart DEF CopyTrue, At
<1>k. \A n \in Requests \ outdated : UNCHANGED <<request[n], row>> => CopyTrue(n)'
  BY <1>a DEF CopyTrue, At, Published
<1>f. ASSUME NEW m \in Requests, Finish(m), outdated \ {m} \subseteq outdated', UNCHANGED row
      PROVE  CopyFresh'
  <2>1. request'[m].at \notin Saving
    BY <1>f, FinishTypes, IdleIsIdle, StagesApart
  <2>2. \A n \in Requests \ outdated' : n # m => n \notin outdated /\ request'[n] = request[n]
    BY <1>f, FinishTypes
  <2> QED BY <1>f, <1>i, <1>k, <2>1, <2>2 DEF CopyFresh
<1>g. ASSUME NEW m \in Requests, NEW place, NEW copy, Goto(m, place, copy),
             UNCHANGED <<row, outdated>>, CopyTrue(m)'
      PROVE  CopyFresh'
  <2>1. \A n \in Requests : n # m => request'[n] = request[n]
    BY <1>g, GotoTypes
  <2> QED BY <1>g, <1>k, <2>1 DEF CopyFresh
<1>s. UNCHANGED <<request, row, outdated>> => CopyFresh'
  BY <1>k DEF CopyFresh
<1>1. ASSUME NEW r \in Rows, Create(r) PROVE CopyFresh'
  <2>1. row = NoRow /\ row.status = "absent" /\ UNCHANGED <<request, outdated>>
    BY <1>1 DEF Create, NoRow
  <2>2. \A m \in Requests \ outdated : ~At(m, "updating") /\ ~At(m, "publishing")
    BY <1>a, <2>1 DEF CopyTrue
  <2> QED BY <2>1, <2>2 DEF CopyFresh, CopyTrue, At
<1>2. ASSUME NEW m \in Requests, NEW r \in Rows, ReadForUpdate(m, r) PROVE CopyFresh'
  <2>1. /\ row # NoRow /\ r.status = row.status
        /\ Published => r.capacity = row.capacity /\ r.opens = row.opens
        /\ Goto(m, "updating", r) /\ UNCHANGED <<row, outdated>>
    BY <1>2 DEF ReadForUpdate
  <2>2. request'[m].at = "updating" /\ request'[m].copy = r
    BY <2>1, GotoTypes
  <2>3. CopyTrue(m)'
    BY <2>1, <2>2 DEF CopyTrue, At, Published
  <2> QED BY <2>1, <2>3, <1>g
<1>3. ASSUME NEW m \in Requests, SaveUpdate(m) \/ SavePublish(m) PROVE CopyFresh'
  <2>1. request'[m].at \notin Saving /\ \A n \in Requests : n # m => request'[n] = request[n]
    BY <1>3, FinishTypes, GotoTypes, IdleIsIdle, StagesApart DEF SaveUpdate, SavePublish, Warming
  <2>2. outdated' = {n \in Requests \ {m} : request[n].at \in Saving}
    BY <1>3 DEF SaveUpdate, SavePublish, Save
  <2>3. \A n \in Requests \ outdated' : request'[n].at \notin Saving
    BY <2>1, <2>2
  <2> QED BY <1>i, <2>3 DEF CopyFresh
<1>4. ASSUME NEW m \in Requests, SaveFails(m) PROVE CopyFresh'
  BY <1>4, <1>f DEF SaveFails
<1>5. ASSUME NEW m \in Requests, ReadForPublish(m) PROVE CopyFresh'
  <2>1. /\ row.status = "DRAFT" /\ Goto(m, "publishing", [row EXCEPT !.status = "PUBLISHED"])
        /\ UNCHANGED <<row, outdated>>
    BY <1>5 DEF ReadForPublish
  <2>2. request'[m].at = "publishing" /\ request'[m].copy = [row EXCEPT !.status = "PUBLISHED"]
    BY <2>1, GotoTypes
  <2>3. CopyTrue(m)'
    BY <2>1, <2>2 DEF CopyTrue, At
  <2> QED BY <2>1, <2>3, <1>g
<1>6. ASSUME NEW m \in Requests, WarmStep(m) PROVE CopyFresh'
  <2>1. UNCHANGED <<row, outdated>>
    BY <1>6, WarmStepShape
  <2>2. CASE Finish(m)
    BY <2>1, <2>2, <1>f
  <2>3. ASSUME NEW place \in Warming \ {"warming"}, Goto(m, place, request[m].copy)
        PROVE  CopyFresh'
    <3>1. request'[m].at \notin Saving
      BY <2>3, GotoTypes, StagesApart
    <3> QED BY <2>1, <2>3, <3>1, <1>g, <1>i
  <2> QED BY <1>6, <2>2, <2>3, WarmStepShape
<1>7. CASE Restart
  <2>1. \A m \in Requests : request'[m].at \notin Saving
    BY <1>7, IdleIsIdle, StagesApart DEF Restart
  <2> QED BY <1>i, <2>1 DEF CopyFresh
<1>8. CASE Tick \/ UNCHANGED lifecycleVars \/ \E u \in Users : Check(u) \/ Take(u) \/ Refuse(u)
  BY <1>8, <1>s DEF Tick, lifecycleVars, Check, Take, Refuse
<1> QED
  BY <1>1, <1>2, <1>3, <1>4, <1>5, <1>6, <1>7, <1>8 DEF LifecycleNext, WarmStep

LEMMA TypeAndCopiesHold == LifecycleSpec => []TypeAndCopies
<1>1. TypeAndCopies /\ [LifecycleNext]_lifecycleVars => TypeAndCopies'
  BY TypeNext, CopiesNext, FreshNext DEF TypeAndCopies
<1>2. LifecycleInit => CopiesValid /\ CopyFresh
  BY IdleIsIdle, StagesApart DEF LifecycleInit, CopiesValid, CopyFresh, CopyTrue, At
<1>3. LifecycleInit => TypeAndCopies
  BY <1>2, TypeInit DEF TypeAndCopies
<1> QED BY <1>1, <1>3, PTL DEF LifecycleSpec

(* Every variable keeps its type, and no save stores an enrolment window   *)
(* that ends before it begins, however many requests overlap.              *)
THEOREM LifecycleTypeCorrect == LifecycleSpec => []LifecycleTypeOK
<1>1. TypeAndCopies => LifecycleTypeOK
  BY DEF TypeAndCopies
<1> QED BY <1>1, TypeAndCopiesHold, PTL

(* What a save does when its copy is not outdated.                         *)
LEMMA FreshSave ==
  ASSUME TypeAndCopies, NEW m \in Requests \ outdated, SaveUpdate(m) \/ SavePublish(m)
  PROVE  /\ row # NoRow
         /\ SaveUpdate(m) => row'.status = row.status
         /\ SavePublish(m) => ~Published /\ Published'
         /\ Published => Published' /\ row'.capacity = row.capacity /\ row'.opens = row.opens
<1>1. CopyTrue(m) /\ row' = request[m].copy
  BY DEF TypeAndCopies, CopyFresh, SaveUpdate, SavePublish, Save
<1>2. CASE SaveUpdate(m)
  <2>1. ~SavePublish(m)
    BY <1>2 DEF SaveUpdate, SavePublish, At
  <2> QED BY <1>1, <1>2, <2>1 DEF SaveUpdate, CopyTrue, Published
<1>3. CASE SavePublish(m)
  <2>1. row.status = "DRAFT" /\ row' = [row EXCEPT !.status = "PUBLISHED"]
    BY <1>1, <1>3 DEF SavePublish, CopyTrue
  <2>2. row \in Rows /\ row # NoRow
    BY <2>1 DEF TypeAndCopies, LifecycleTypeOK, NoRow
  <2>3. ~SaveUpdate(m)
    BY <1>3 DEF SaveUpdate, SavePublish, At
  <2> QED BY <2>1, <2>2, <2>3 DEF Rows, Published
<1> QED BY <1>2, <1>3

(* Status, capacity and opening time of a published activity change only by *)
(* the save of a request that read the row before another request's save,   *)
(* whatever publications and updates overlap.                               *)
THEOREM PublishedStaysFrozen == LifecycleSpec => PublishedFrozen
<1> DEFINE Kept == /\ row'.status = "PUBLISHED"
                   /\ row'.capacity = row.capacity
                   /\ row'.opens = row.opens
           Undone == \E m \in outdated : request[m].at \in Saving /\ row' = request[m].copy
<1>1. ASSUME TypeAndCopies, [LifecycleNext]_lifecycleVars, Published
      PROVE  Kept \/ Undone
  <2> USE DEF redisVars, countVars, saveVars
  <2>1. UNCHANGED row => Kept
    BY <1>1 DEF Published
  <2>2. ASSUME NEW m \in Requests, SaveUpdate(m) \/ SavePublish(m) PROVE Kept \/ Undone
    <3>1. CASE m \in outdated
      BY <2>2, <3>1, StagesApart DEF SaveUpdate, SavePublish, Save, At
    <3>2. CASE m \notin outdated
      BY <1>1, <2>2, <3>2, FreshSave DEF Published
    <3> QED BY <3>1, <3>2
  <2>3. ASSUME NEW r \in Rows, Create(r) PROVE FALSE
    BY <1>1, <2>3 DEF Create, NoRow, Published
  <2>4. ASSUME NEW m \in Requests,
               SaveFails(m) \/ ReadForPublish(m) \/ \E r \in Rows : ReadForUpdate(m, r)
        PROVE  UNCHANGED row
    BY <2>4 DEF SaveFails, ReadForPublish, ReadForUpdate
  <2>5. ASSUME NEW m \in Requests, WarmStep(m) PROVE UNCHANGED row
    BY <2>5, WarmStepShape
  <2>6. CASE Restart \/ Tick \/ UNCHANGED lifecycleVars
             \/ \E u \in Users : Check(u) \/ Take(u) \/ Refuse(u)
    BY <2>1, <2>6 DEF Restart, Tick, lifecycleVars, Check, Take, Refuse
  <2> QED BY <1>1, <2>1, <2>2, <2>3, <2>4, <2>5, <2>6 DEF LifecycleNext, WarmStep
<1>2. TypeAndCopies /\ [LifecycleNext]_lifecycleVars
      => [Published => Kept \/ Undone]_lifecycleVars
  BY <1>1
<1> QED BY <1>2, TypeAndCopiesHold, PTL DEF LifecycleSpec, PublishedFrozen
-------------------------------------------------------------------------------
(* The sale, as long as no outdated copy was saved: one warm-up, the stock *)
(* as it left it, checks inside the window, and a mark for each seat.      *)

OneWarmUp ==
  /\ cold => Published
  /\ \A m \in Requests : request[m].at \in Warming =>
       Published /\ ~cold /\ request[m].copy.capacity = row.capacity
  /\ \A m, n \in Requests : request[m].at \in Warming /\ request[n].at \in Warming => m = n
StockWarmed ==
  /\ OnSale => stock + Taken = row.capacity + resold
  /\ ~OnSale => stock = 0 /\ given = <<>>
  /\ resold <= Taken
  /\ Taken > 0 => stock >= 0 /\ row.capacity >= 1 /\ resold <= row.capacity * resent
OpenedFirst == checked # {} \/ given # <<>> => Published /\ row.opens <= now
MarkedOnce ==
  /\ \A i, j \in DOMAIN given : i < j /\ given[i] = given[j] => given[i] \in early
  /\ \A i \in DOMAIN given : given[i] \in enrolled \cup early
  /\ (\E m \in Requests : request[m].at \in Warming) => \A i \in DOMAIN given : given[i] \in early

Sale == OneWarmUp /\ StockWarmed /\ OpenedFirst /\ MarkedOnce

(* A step after which nothing is stale saves no outdated copy.             *)
SavesFresh == \A m \in Requests : SaveUpdate(m) \/ SavePublish(m) => m \notin outdated
FreshStep == TypeAndCopies /\ SavesFresh /\ [LifecycleNext]_lifecycleVars

LEMMA NotStaleYet ==
  ASSUME TypeAndCopies, [LifecycleNext]_lifecycleVars, ~stale'
  PROVE  ~stale /\ FreshStep
<1> USE DEF saveVars
<1>1. SavesFresh
  BY DEF SavesFresh, SaveUpdate, SavePublish, Save
<1>2. ASSUME NEW m \in Requests, SaveUpdate(m) \/ SavePublish(m) PROVE ~stale
  BY <1>2 DEF SaveUpdate, SavePublish, Save
<1>3. ASSUME NEW m \in Requests, WarmStep(m) PROVE ~stale
  BY <1>3, WarmStepShape
<1>4. ASSUME NEW m \in Requests,
             SaveFails(m) \/ ReadForPublish(m) \/ \E r \in Rows : ReadForUpdate(m, r)
      PROVE  ~stale
  BY <1>4 DEF SaveFails, ReadForPublish, ReadForUpdate
<1>5. ASSUME Restart \/ Tick \/ UNCHANGED lifecycleVars PROVE ~stale
  BY <1>5 DEF Restart, Tick, lifecycleVars
<1>6. ASSUME NEW u \in Users, Check(u) \/ Take(u) \/ Refuse(u) PROVE ~stale
  BY <1>6 DEF Check, Take, Refuse
<1>7. ASSUME NEW r \in Rows, Create(r) PROVE ~stale
  BY <1>7 DEF Create
<1>8. ~stale
  BY <1>2, <1>3, <1>4, <1>5, <1>6, <1>7 DEF LifecycleNext, WarmStep
<1> QED BY <1>1, <1>8 DEF FreshStep

(* Only an unpublished row is published, so the warm-up is begun once.     *)
LEMMA WarmUpNext == FreshStep /\ OneWarmUp => OneWarmUp'
<1> SUFFICES ASSUME FreshStep, OneWarmUp PROVE OneWarmUp'
  OBVIOUS
<1>a. /\ LifecycleTypeOK /\ TypeAndCopies /\ SavesFresh /\ [LifecycleNext]_lifecycleVars
      /\ cold => Published
      /\ \A m \in Requests : request[m].at \in Warming =>
           Published /\ ~cold /\ request[m].copy.capacity = row.capacity
      /\ \A m, n \in Requests : request[m].at \in Warming /\ request[n].at \in Warming => m = n
  BY DEF FreshStep, TypeAndCopies, OneWarmUp
(* Nobody begins the warm-up, and what is published stays.                 *)
<1>k. ASSUME \A m \in Requests : request'[m].at \notin Warming \/ request'[m] = request[m],
             UNCHANGED cold, Published => Published' /\ row'.capacity = row.capacity
      PROVE  OneWarmUp'
  BY <1>k, <1>a DEF OneWarmUp
<1>f. ASSUME NEW m \in Requests, Finish(m)
      PROVE  \A n \in Requests : request'[n].at \notin Warming \/ request'[n] = request[n]
  BY <1>f, <1>a, FinishTypes, IdleIsIdle, StagesApart
<1>g. ASSUME NEW m \in Requests, NEW place \in Saving, NEW copy, Goto(m, place, copy)
      PROVE  \A n \in Requests : request'[n].at \notin Warming \/ request'[n] = request[n]
  BY <1>g, <1>a, GotoTypes, StagesApart
<1>1. ASSUME NEW r \in Rows, Create(r) PROVE OneWarmUp'
  BY <1>1, <1>k DEF Create, Published, NoRow
<1>2. ASSUME NEW m \in Requests, ReadForPublish(m) \/ \E r \in Rows : ReadForUpdate(m, r)
      PROVE  OneWarmUp'
  <2>1. CASE ReadForPublish(m)
    <3>1. /\ Goto(m, "publishing", [row EXCEPT !.status = "PUBLISHED"])
          /\ UNCHANGED <<row, cold>>
      BY <2>1 DEF ReadForPublish
    <3> QED BY <3>1, <1>g, <1>k, StagesApart DEF Published
  <2>2. ASSUME NEW r \in Rows, ReadForUpdate(m, r) PROVE OneWarmUp'
    <3>1. Goto(m, "updating", r) /\ UNCHANGED <<row, cold>>
      BY <2>2 DEF ReadForUpdate
    <3> QED BY <3>1, <1>g, <1>k, StagesApart DEF Published
  <2> QED BY <1>2, <2>1, <2>2
<1>3. ASSUME NEW m \in Requests, SaveUpdate(m) PROVE OneWarmUp'
  <2>1. Published => Published' /\ row'.capacity = row.capacity
    BY <1>3, <1>a, FreshSave DEF SavesFresh
  <2> QED BY <1>3, <2>1, <1>k, <1>f DEF SaveUpdate
<1>4. ASSUME NEW m \in Requests, SaveFails(m) PROVE OneWarmUp'
  BY <1>4, <1>k, <1>f DEF SaveFails, Published
<1>5. ASSUME NEW m \in Requests, SavePublish(m) PROVE OneWarmUp'
  <2>1. ~Published /\ Published'
    BY <1>5, <1>a, FreshSave DEF SavesFresh
  <2>2. ~cold /\ \A n \in Requests : request[n].at \notin Warming
    BY <2>1, <1>a
  <2>3. row' = request[m].copy /\ Goto(m, "warming", request[m].copy) /\ UNCHANGED cold
    BY <1>5 DEF SavePublish, Save
  <2>4. request'[m].copy = row' /\ \A n \in Requests : n # m => request'[n].at \notin Warming
    BY <2>2, <2>3, <1>a, GotoTypes
  <2> QED BY <2>1, <2>2, <2>3, <2>4 DEF OneWarmUp
<1>6. ASSUME NEW m \in Requests, WarmStep(m) PROVE OneWarmUp'
  <2>1. request[m].at \in Warming /\ UNCHANGED row
    BY <1>6, WarmStepShape
  <2>2. /\ Published /\ Published' /\ ~cold /\ request[m].copy.capacity = row.capacity
        /\ \A n \in Requests : n # m => request[n].at \notin Warming
    BY <2>1, <1>a DEF Published
  <2>3. CASE Finish(m)
    <3>1. \A n \in Requests : request'[n].at \notin Warming
      BY <2>2, <2>3, <1>a, FinishTypes, IdleIsIdle, StagesApart
    <3> QED BY <2>2, <3>1 DEF OneWarmUp
  <2>4. ASSUME NEW place \in Warming \ {"warming"}, Goto(m, place, request[m].copy) PROVE OneWarmUp'
    <3>1. /\ request'[m].copy = request[m].copy
          /\ \A n \in Requests : n # m => request'[n].at \notin Warming
      BY <2>2, <2>4, <1>a, GotoTypes
    <3>2. ~WarmUpFails(m)
      <4>1. request'[m].at \in Stages
        BY <2>4, <1>a, GotoTypes, StagesApart
      <4> QED BY <4>1, <1>a, FinishTypes, IdleIsIdle DEF WarmUpFails
    <3>3. ~cold'
      BY <1>6, <2>2, <3>2
         DEF WarmStep, WarmUpSet, WarmUpClear, WarmUpAnswered, WarmUpResent, WarmUpSetAgain
    <3> QED BY <2>1, <2>2, <3>1, <3>3 DEF OneWarmUp
  <2> QED BY <1>6, <2>3, <2>4, WarmStepShape
<1>7. CASE Restart
  <2>1. UNCHANGED row /\ \A m \in Requests : request'[m].at \notin Warming
    BY <1>7, IdleIsIdle, StagesApart DEF Restart
  <2>2. cold' => Published
    BY <1>7, <1>a, StagesApart DEF Restart, At
  <2> QED BY <2>1, <2>2 DEF OneWarmUp, Published
<1>8. CASE Tick \/ UNCHANGED lifecycleVars \/ \E u \in Users : Check(u) \/ Take(u) \/ Refuse(u)
  <2>1. UNCHANGED <<request, row, cold>>
    BY <1>8 DEF Tick, lifecycleVars, Check, Take, Refuse
  <2> QED BY <2>1, <1>k DEF Published
<1> QED
  BY <1>1, <1>2, <1>3, <1>4, <1>5, <1>6, <1>7, <1>8, <1>a DEF LifecycleNext, WarmStep

LEMMA GivenGrows ==
  ASSUME LifecycleTypeOK, NEW u \in Users, given' = Append(given, u)
  PROVE  /\ Len(given') = Len(given) + 1 /\ given' # <<>>
         /\ DOMAIN given = 1 .. Len(given) /\ DOMAIN given' = 1 .. Len(given) + 1
         /\ given'[Len(given) + 1] = u
         /\ \A i \in 1 .. Len(given) : given'[i] = given[i]
<1>1. given \in Seq(Users)
  BY DEF LifecycleTypeOK
<1>2. Len(given) \in Nat
  BY <1>1, LenProperties
<1>3. given' \in Seq(Users) /\ Len(given') = Len(given) + 1
  BY <1>1, AppendProperties
<1>4. given' # <<>>
  BY <1>2, <1>3, EmptySeq
<1> QED BY <1>1, <1>3, <1>4, AppendProperties, LenProperties

LEMMA SaleInit == LifecycleInit => Sale
<1> SUFFICES ASSUME LifecycleInit PROVE Sale
  OBVIOUS
<1>1. /\ ~Published /\ stock = 0 /\ given = <<>> /\ checked = {} /\ resold = 0 /\ ~cold
      /\ \A m \in Requests : request[m].at \notin Warming
  BY IdleIsIdle, StagesApart DEF LifecycleInit, Published, NoRow
<1>2. DOMAIN given = {} /\ Taken = 0
  BY <1>1 DEF Taken
<1> QED BY <1>1, <1>2 DEF Sale, OneWarmUp, StockWarmed, OnSale, OpenedFirst, MarkedOnce

LEMMA Sendings ==
  ASSUME NEW c \in Int, c >= 1, NEW k \in Nat
  PROVE  c * k >= 0 /\ c * (k + 1) = c * k + c /\ c * (1 + k) = c * k + c
<1>1. c * (k + 1) = c * k + c /\ c * (1 + k) = c * k + c
  OBVIOUS
<1>2. c * k >= 0
  OBVIOUS
<1> QED BY <1>1, <1>2

(* The sale begins when the warm-up sets the stock; setting it again sells *)
(* the seats taken so far once more.                                       *)
LEMMA StockNext == FreshStep /\ OneWarmUp /\ StockWarmed => StockWarmed'
<1> SUFFICES ASSUME FreshStep, OneWarmUp, StockWarmed PROVE StockWarmed'
  OBVIOUS
<1>a. /\ LifecycleTypeOK /\ TypeAndCopies /\ SavesFresh /\ [LifecycleNext]_lifecycleVars
      /\ stock \in Int /\ given \in Seq(Users) /\ Taken \in Nat
      /\ resent \in Nat /\ resold \in Nat
      /\ Published => row.capacity \in Int
  <2>1. LifecycleTypeOK /\ TypeAndCopies /\ SavesFresh /\ [LifecycleNext]_lifecycleVars
    BY DEF FreshStep, TypeAndCopies
  <2>2. Published => row.capacity \in Int
    BY <2>1, RowTypes DEF LifecycleTypeOK, Published, NoRow
  <2> QED BY <2>1, <2>2, LenProperties DEF LifecycleTypeOK, Taken
<1>b. /\ OnSale => stock + Taken = row.capacity + resold
      /\ ~OnSale => stock = 0 /\ given = <<>>
      /\ resold <= Taken
      /\ Taken > 0 => stock >= 0 /\ row.capacity >= 1 /\ resold <= row.capacity * resent
      /\ given = <<>> => Taken = 0
      /\ Taken > 0 => OnSale
  BY EmptySeq DEF StockWarmed, Taken
<1>c. /\ cold => Published
      /\ \A m \in Requests : request[m].at \in Warming =>
           Published /\ ~cold /\ request[m].copy.capacity = row.capacity
      /\ \A m, n \in Requests : request[m].at \in Warming /\ request[n].at \in Warming => m = n
  BY DEF OneWarmUp
<1> USE DEF redisVars, countVars, saveVars
(* Steps that do not touch the stock, nor what puts it on sale.            *)
<1>s. ASSUME UNCHANGED <<stock, given, resent, resold>>, OnSale' <=> OnSale,
             OnSale => row'.capacity = row.capacity
      PROVE  StockWarmed'
  <2>1. Taken' = Taken
    BY <1>s DEF Taken
  <2> QED BY <1>s, <1>b, <2>1 DEF StockWarmed
(* Steps of a request that is not, and will not be, before its first SET.  *)
<1>f. ASSUME NEW m \in Requests, ~At(m, "warming"), Finish(m)
      PROVE  (\A n \in Requests : ~At(n, "warming")') <=> \A n \in Requests : ~At(n, "warming")
  BY <1>f, <1>a, FinishTypes, IdleIsIdle DEF At
<1>g. ASSUME NEW m \in Requests, NEW place, NEW copy, ~At(m, "warming"), place # "warming",
             Goto(m, place, copy)
      PROVE  (\A n \in Requests : ~At(n, "warming")') <=> \A n \in Requests : ~At(n, "warming")
  BY <1>g, <1>a, GotoTypes DEF At
<1>1. ASSUME NEW r \in Rows, Create(r) PROVE StockWarmed'
  <2>1. ~Published /\ ~Published' /\ UNCHANGED <<stock, given, resent, resold>>
    BY <1>1 DEF Create, Published, NoRow
  <2> QED BY <2>1, <1>s DEF OnSale
<1>2. ASSUME NEW m \in Requests, NEW r \in Rows, ReadForUpdate(m, r) PROVE StockWarmed'
  <2>1. /\ Goto(m, "updating", r) /\ ~At(m, "warming")
        /\ UNCHANGED <<stock, given, resent, resold, row, cold>>
    BY <1>2 DEF ReadForUpdate, At
  <2> QED BY <2>1, <1>g, <1>s DEF OnSale, Published
<1>3. ASSUME NEW m \in Requests, SaveUpdate(m) PROVE StockWarmed'
  <2>1. /\ row'.status = row.status /\ (Published => row'.capacity = row.capacity)
        /\ Finish(m) /\ ~At(m, "warming") /\ UNCHANGED <<stock, given, resent, resold, cold>>
    BY <1>3, <1>a, FreshSave DEF SavesFresh, SaveUpdate, At
  <2> QED BY <2>1, <1>f, <1>s DEF OnSale, Published
<1>4. ASSUME NEW m \in Requests, SaveFails(m) PROVE StockWarmed'
  <2>1. /\ Finish(m) /\ ~At(m, "warming")
        /\ UNCHANGED <<stock, given, resent, resold, row, cold>>
    BY <1>4, StagesApart DEF SaveFails, At
  <2> QED BY <2>1, <1>f, <1>s DEF OnSale, Published
<1>5. ASSUME NEW m \in Requests, ReadForPublish(m) PROVE StockWarmed'
  <2>1. ~Published /\ UNCHANGED <<stock, given, resent, resold, row>>
    BY <1>5 DEF ReadForPublish, Published
  <2> QED BY <2>1, <1>s DEF OnSale, Published
<1>6. ASSUME NEW m \in Requests, SavePublish(m) PROVE StockWarmed'
  <2>1. /\ ~Published /\ Goto(m, "warming", request[m].copy)
        /\ UNCHANGED <<stock, given, resent, resold>>
    BY <1>6, <1>a, FreshSave DEF SavesFresh, SavePublish
  <2>2. ~OnSale /\ ~OnSale'
    BY <2>1, <1>a, GotoTypes DEF OnSale, At
  <2> QED BY <2>1, <2>2, <1>s
<1>7. ASSUME NEW m \in Requests, WarmUpSet(m) PROVE StockWarmed'
  <2>1. /\ At(m, "warming") /\ request[m].at \in Warming
        /\ Goto(m, "clearing", request[m].copy) /\ stock' = request[m].copy.capacity
        /\ UNCHANGED <<given, row, cold, resent, resold>>
    BY <1>7, StagesApart DEF WarmUpSet, WarmUpStock, At
  <2>2. Published /\ ~cold /\ stock' = row.capacity /\ ~OnSale
    BY <2>1, <1>c DEF OnSale
  <2>3. \A n \in Requests : n # m => ~At(n, "warming")
    BY <2>1, <1>c DEF At, Warming
  <2>4. \A n \in Requests : ~At(n, "warming")'
    BY <2>1, <2>3, <1>a, GotoTypes DEF At
  <2>5. OnSale' /\ Taken' = 0 /\ resold' = 0 /\ row.capacity \in Int
    BY <2>1, <2>2, <2>4, <1>a, <1>b DEF OnSale, Published, Taken
  <2> QED BY <2>1, <2>2, <2>5, <1>a DEF StockWarmed
<1>8. ASSUME NEW m \in Requests, WarmUpClear(m) \/ WarmUpAnswered(m) \/ WarmUpResent(m)
      PROVE  StockWarmed'
  <2>1. /\ ~At(m, "warming") /\ UNCHANGED <<stock, given, resent, resold, row, cold>>
        /\ \/ Finish(m) \/ Goto(m, "answering", request[m].copy)
           \/ Goto(m, "resending", request[m].copy)
    BY <1>8 DEF WarmUpClear, WarmUpAnswered, WarmUpResent, WarmUpMarks, At
  <2> QED BY <2>1, <1>f, <1>g, <1>s DEF OnSale, Published
<1>9. ASSUME NEW m \in Requests, WarmUpSetAgain(m) PROVE StockWarmed'
  <2>1. /\ ~At(m, "warming") /\ request[m].at \in Warming
        /\ Goto(m, "clearing", request[m].copy) /\ stock' = request[m].copy.capacity
        /\ resent' = resent + 1 /\ resold' = Taken
        /\ UNCHANGED <<given, row, cold>>
    BY <1>9, StagesApart DEF WarmUpSetAgain, WarmUpStock, At, Taken
  <2>2. /\ Published /\ ~cold /\ stock' = row.capacity /\ row.capacity \in Int
        /\ \A n \in Requests : ~At(n, "warming")
    BY <2>1, <1>a, <1>c DEF At, Warming
  <2>3. OnSale /\ OnSale' /\ Taken' = Taken
    BY <2>1, <2>2, <1>g DEF OnSale, Published, Taken
  <2>4. ASSUME Taken > 0 PROVE row.capacity >= 1 /\ Taken <= row.capacity * (resent + 1)
    <3>1. row.capacity >= 1 /\ resold <= row.capacity * resent /\ Taken <= row.capacity + resold
      BY <2>2, <2>3, <2>4, <1>a, <1>b
    <3>2. row.capacity * (resent + 1) = row.capacity * resent + row.capacity
          /\ row.capacity * resent \in Int
      BY <2>2, <3>1, <1>a, Sendings
    <3> DEFINE sold == row.capacity * resent
    <3> HIDE DEF sold
    <3>3. Taken <= sold + row.capacity
      BY <3>1, <3>2, <2>2, <1>a DEF sold
    <3> QED BY <3>1, <3>2, <3>3 DEF sold
  <2>5. stock' + Taken' = row'.capacity + resold' /\ resold' <= Taken'
    BY <2>1, <2>2, <2>3, <1>a
  <2>6. Taken' > 0 => stock' >= 0 /\ row'.capacity >= 1 /\ resold' <= row'.capacity * resent'
    BY <2>1, <2>2, <2>3, <2>4, <1>a
  <2> QED BY <2>3, <2>5, <2>6 DEF StockWarmed
<1>10. ASSUME NEW m \in Requests, WarmUpFails(m) PROVE StockWarmed'
  <2>1. CASE At(m, "warming")
    <3>1. ~OnSale /\ ~OnSale' /\ UNCHANGED <<stock, given, resent, resold>>
      BY <1>10, <2>1 DEF WarmUpFails, OnSale
    <3> QED BY <3>1, <1>s
  <2>2. CASE ~At(m, "warming")
    <3>1. Finish(m) /\ UNCHANGED <<stock, given, resent, resold, row>> /\ (cold' <=> cold)
      BY <1>10, <2>2 DEF WarmUpFails
    <3> QED BY <2>2, <3>1, <1>f, <1>s DEF OnSale, Published
  <2> QED BY <2>1, <2>2
<1>11. CASE Restart
  <2>1. UNCHANGED <<stock, given, resent, resold, row>> /\ \A m \in Requests : ~At(m, "warming")'
    BY <1>11 DEF Restart, At, Idle
  <2>2. OnSale' <=> OnSale
    BY <1>11, <2>1 DEF Restart, OnSale, Published
  <2> QED BY <2>1, <2>2, <1>s
<1>12. ASSUME NEW u \in Users, Take(u) PROVE StockWarmed'
  <2>1. /\ given' = Append(given, u) /\ stock > 0 /\ stock' = stock - 1
        /\ UNCHANGED <<row, request, cold, resent, resold>>
    BY <1>12 DEF Take, TryEnroll
  <2>2. OnSale /\ OnSale'
    BY <2>1, <1>b DEF OnSale, Published, At
  <2>3. Taken' = Taken + 1
    BY <2>1, <1>a, GivenGrows DEF Taken
  <2>4. row.capacity \in Int /\ stock + Taken = row.capacity + resold
    BY <2>2, <1>a, <1>b DEF OnSale
  <2>5. stock' + Taken' = row'.capacity + resold' /\ resold' <= Taken' /\ stock' >= 0
    BY <2>1, <2>3, <2>4, <1>a, <1>b
  <2>6. row.capacity >= 1 /\ resold <= row.capacity * resent
    <3>1. CASE Taken > 0
      BY <3>1, <1>b
    <3>2. CASE Taken = 0
      <4>1. row.capacity >= 1 /\ resold = 0
        BY <2>1, <2>4, <3>2, <1>a, <1>b
      <4> QED BY <4>1, <2>4, <1>a, Sendings
    <3> QED BY <3>1, <3>2, <1>a
  <2> QED BY <2>1, <2>2, <2>5, <2>6 DEF StockWarmed
<1>13. CASE Tick \/ UNCHANGED lifecycleVars \/ \E u \in Users : Check(u) \/ Refuse(u)
  <2>1. UNCHANGED <<stock, given, resent, resold, row, request, cold>>
    BY <1>13 DEF Tick, lifecycleVars, Check, Refuse
  <2> QED BY <2>1, <1>s DEF OnSale, Published, At
<1> QED
  BY <1>1, <1>2, <1>3, <1>4, <1>5, <1>6, <1>7, <1>8, <1>9, <1>10, <1>11, <1>12, <1>13, <1>a
     DEF LifecycleNext

(* Who passed the checks of Create did so in the window, and its beginning *)
(* does not move any more.                                                 *)
LEMMA OpenedNext == FreshStep /\ OpenedFirst => OpenedFirst'
<1> SUFFICES ASSUME FreshStep, OpenedFirst PROVE OpenedFirst'
  OBVIOUS
<1>a. LifecycleTypeOK /\ TypeAndCopies /\ SavesFresh /\ [LifecycleNext]_lifecycleVars
  BY DEF FreshStep, TypeAndCopies
<1> USE DEF redisVars, countVars, saveVars
<1>s. ASSUME checked' \subseteq checked, UNCHANGED <<given, now>>,
             Published => Published' /\ row'.opens = row.opens
      PROVE  OpenedFirst'
  BY <1>s DEF OpenedFirst
<1>1. ASSUME NEW r \in Rows, Create(r) PROVE OpenedFirst'
  BY <1>1, <1>s DEF Create, Published, NoRow
<1>2. ASSUME NEW m \in Requests, SaveUpdate(m) \/ SavePublish(m) PROVE OpenedFirst'
  <2>1. Published => Published' /\ row'.opens = row.opens
    BY <1>2, <1>a, FreshSave DEF SavesFresh
  <2>2. UNCHANGED <<checked, given, now>>
    BY <1>2 DEF SaveUpdate, SavePublish
  <2> QED BY <2>1, <2>2, <1>s
<1>3. ASSUME NEW m \in Requests,
             SaveFails(m) \/ ReadForPublish(m) \/ \E r \in Rows : ReadForUpdate(m, r)
      PROVE  OpenedFirst'
  <2>1. UNCHANGED <<checked, given, now, row>>
    BY <1>3 DEF SaveFails, ReadForPublish, ReadForUpdate
  <2> QED BY <2>1, <1>s DEF Published
<1>4. ASSUME NEW m \in Requests, WarmStep(m) PROVE OpenedFirst'
  BY <1>4, <1>s, WarmStepShape DEF Published
<1>5. CASE Restart \/ UNCHANGED lifecycleVars \/ \E u \in Users : Refuse(u)
  <2>1. checked' \subseteq checked /\ UNCHANGED <<given, now, row>>
    BY <1>5 DEF Restart, lifecycleVars, Refuse
  <2> QED BY <2>1, <1>s DEF Published
<1>6. CASE Tick
  <2>1. now \in Nat
    BY <1>a, LifecycleAssumption DEF LifecycleTypeOK, Times, LifecycleAssumption
  <2>2. Published => row.opens \in Nat
    BY <1>a, RowTypes DEF LifecycleTypeOK, Published, NoRow
  <2> QED BY <1>6, <2>1, <2>2 DEF Tick, OpenedFirst, Published
<1>7. ASSUME NEW u \in Users, Check(u) PROVE OpenedFirst'
  BY <1>7 DEF Check, OpenedFirst, Published
<1>8. ASSUME NEW u \in Users, Take(u) PROVE OpenedFirst'
  <2>1. u \in checked /\ UNCHANGED <<row, now>>
    BY <1>8 DEF Take
  <2> QED BY <2>1 DEF OpenedFirst, Published
<1> QED BY <1>1, <1>2, <1>3, <1>4, <1>5, <1>6, <1>7, <1>8, <1>a DEF LifecycleNext, WarmStep

(* While a warm-up is under way, whoever has a seat got it meanwhile: its  *)
(* DEL takes no other mark.                                                *)
LEMMA MarkedNext == FreshStep /\ OneWarmUp /\ StockWarmed /\ MarkedOnce => MarkedOnce'
<1> SUFFICES ASSUME FreshStep, OneWarmUp, StockWarmed, MarkedOnce PROVE MarkedOnce'
  OBVIOUS
<1>a. /\ LifecycleTypeOK /\ TypeAndCopies /\ SavesFresh /\ [LifecycleNext]_lifecycleVars
      /\ \A i, j \in DOMAIN given : i < j /\ given[i] = given[j] => given[i] \in early
      /\ \A i \in DOMAIN given : given[i] \in enrolled \cup early
      /\ (\E m \in Requests : request[m].at \in Warming)
           => \A i \in DOMAIN given : given[i] \in early
  BY DEF FreshStep, TypeAndCopies, MarkedOnce
<1> USE DEF redisVars, countVars, saveVars
<1>s. ASSUME UNCHANGED <<given, enrolled, early>>,
             (\E m \in Requests : request'[m].at \in Warming)
               => \E m \in Requests : request[m].at \in Warming
      PROVE  MarkedOnce'
  BY <1>a, <1>s DEF MarkedOnce
<1>f. ASSUME NEW m \in Requests, Finish(m)
      PROVE  (\E n \in Requests : request'[n].at \in Warming)
               => \E n \in Requests : request[n].at \in Warming
  BY <1>f, <1>a, FinishTypes, IdleIsIdle, StagesApart
<1>g. ASSUME NEW m \in Requests, NEW place, NEW copy, Goto(m, place, copy), place \notin Warming
      PROVE  (\E n \in Requests : request'[n].at \in Warming)
               => \E n \in Requests : request[n].at \in Warming
  BY <1>g, <1>a, GotoTypes
<1>e. ASSUME given = <<>>, UNCHANGED given PROVE MarkedOnce'
  <2>1. DOMAIN given' = {}
    BY <1>e
  <2> QED BY <2>1 DEF MarkedOnce
<1>1. ASSUME NEW r \in Rows, Create(r) PROVE MarkedOnce'
  BY <1>1, <1>s DEF Create
<1>2. ASSUME NEW m \in Requests,
             \/ \E r \in Rows : ReadForUpdate(m, r)
             \/ SaveUpdate(m) \/ SaveFails(m) \/ ReadForPublish(m)
      PROVE  MarkedOnce'
  <2>1. /\ UNCHANGED <<given, enrolled, early>>
        /\ Finish(m) \/ \E place, copy : Goto(m, place, copy) /\ place \in Saving
    BY <1>2, StagesApart DEF ReadForUpdate, SaveUpdate, SaveFails, ReadForPublish
  <2> QED BY <2>1, <1>f, <1>g, <1>s, StagesApart
<1>3. ASSUME NEW m \in Requests, SavePublish(m) PROVE MarkedOnce'
  <2>1. ~OnSale /\ UNCHANGED given
    BY <1>3, <1>a, FreshSave DEF SavesFresh, SavePublish, OnSale
  <2> QED BY <2>1, <1>e DEF StockWarmed
<1>4. ASSUME NEW m \in Requests, WarmStep(m) PROVE MarkedOnce'
  <2>1. request[m].at \in Warming /\ UNCHANGED <<given, early>>
    BY <1>4, WarmStepShape
  <2>2. \A i \in DOMAIN given' : given'[i] \in early'
    BY <2>1, <1>a
  <2>3. \A i, j \in DOMAIN given' : i < j /\ given'[i] = given'[j] => given'[i] \in early'
    BY <2>2
  <2>4. \A i \in DOMAIN given' : given'[i] \in enrolled' \cup early'
    BY <2>2
  <2> QED BY <2>2, <2>3, <2>4 DEF MarkedOnce
<1>5. CASE Restart
  <2>1. UNCHANGED <<given, enrolled, early>> /\ \A n \in Requests : request'[n].at \notin Warming
    BY <1>5, IdleIsIdle, StagesApart DEF Restart
  <2> QED BY <2>1, <1>s
<1>6. CASE Tick \/ UNCHANGED lifecycleVars \/ \E u \in Users : Check(u) \/ Refuse(u)
  <2>1. UNCHANGED <<given, enrolled, early, request>>
    BY <1>6 DEF Tick, lifecycleVars, Check, Refuse
  <2> QED BY <2>1, <1>s
<1>7. ASSUME NEW u \in Users, Take(u) PROVE MarkedOnce'
  <2>1. /\ given' = Append(given, u) /\ u \notin enrolled /\ enrolled' = enrolled \cup {u}
        /\ UNCHANGED request /\ early \subseteq early'
        /\ (\E m \in Requests : request[m].at \in Warming) => u \in early'
    BY <1>7 DEF Take, TryEnroll
  <2> DEFINE n == Len(given)
  <2>2. /\ DOMAIN given = 1 .. n /\ DOMAIN given' = 1 .. n + 1 /\ given'[n + 1] = u
        /\ \A i \in 1 .. n : given'[i] = given[i]
    BY <2>1, <1>a, GivenGrows
  <2>3. n \in Nat
    BY <1>a, LenProperties DEF LifecycleTypeOK
  <2>4. \A i \in 1 .. n + 1 : i \in 1 .. n \/ i = n + 1
    BY <2>3
  <2> HIDE DEF n
  <2>5. \A i, j \in DOMAIN given' : i < j /\ given'[i] = given'[j] => given'[i] \in early'
    <3>1. SUFFICES ASSUME NEW i \in 1 .. n + 1, NEW j \in 1 .. n + 1, i < j, given'[i] = given'[j]
                   PROVE  given'[i] \in early'
      BY <2>2
    <3>2. i \in 1 .. n
      BY <3>1, <2>3
    <3>3. CASE j \in 1 .. n
      BY <3>1, <3>2, <3>3, <2>1, <2>2, <1>a
    <3>4. CASE j = n + 1
      <4>1. given[i] = u /\ given[i] \in enrolled \cup early
        BY <3>1, <3>2, <3>4, <2>2, <1>a
      <4> QED BY <4>1, <3>2, <2>1, <2>2
    <3> QED BY <3>3, <3>4, <2>4
  <2>6. \A i \in DOMAIN given' : given'[i] \in enrolled' \cup early'
    BY <2>1, <2>2, <2>4, <1>a
  <2>7. (\E m \in Requests : request'[m].at \in Warming)
          => \A i \in DOMAIN given' : given'[i] \in early'
    BY <2>1, <2>2, <2>4, <1>a
  <2> QED BY <2>5, <2>6, <2>7 DEF MarkedOnce
<1> QED BY <1>1, <1>2, <1>3, <1>4, <1>5, <1>6, <1>7, <1>a DEF LifecycleNext, WarmStep

(* The inductive invariant: copies true of the row unless outdated, and    *)
(* until one of those is saved, the four parts of the sale.                *)
LifecycleInductive == TypeAndCopies /\ (~stale => Sale)

(* With any number of overlapping requests, failed saves, repeated or lost *)
(* warm-ups and restarts, the inductive invariant holds.                   *)
THEOREM LifecycleInductiveHolds == LifecycleSpec => []LifecycleInductive
<1>1. LifecycleInit => (~stale => Sale)
  BY SaleInit
<1>2. TypeAndCopies /\ (~stale => Sale) /\ [LifecycleNext]_lifecycleVars => (~stale => Sale)'
  <2> SUFFICES ASSUME TypeAndCopies, ~stale => Sale, [LifecycleNext]_lifecycleVars, ~stale'
               PROVE  Sale'
    OBVIOUS
  <2>1. FreshStep /\ Sale
    BY NotStaleYet
  <2> QED BY <2>1, WarmUpNext, StockNext, OpenedNext, MarkedNext DEF Sale
<1> QED BY <1>1, <1>2, TypeAndCopiesHold, PTL DEF LifecycleSpec, LifecycleInductive

(* docs/SRS.md:160 with warm-ups sent again: each sending sells the        *)
(* capacity at most once, and a capacity of zero or less sells nothing.    *)
THEOREM NobodyServedTooMany == LifecycleSpec => [](~stale => SoldPerSending)
<1>1. LifecycleInductive => (~stale => SoldPerSending)
  <2> SUFFICES ASSUME LifecycleInductive, ~stale, Taken > 0
               PROVE  Taken <= row.capacity * (1 + resent)
    BY DEF SoldPerSending
  <2>1. LifecycleTypeOK /\ StockWarmed
    BY DEF LifecycleInductive, TypeAndCopies, Sale
  <2>2. Taken \in Nat /\ stock \in Int /\ resent \in Nat /\ resold \in Nat /\ given # <<>>
    BY <2>1, LenProperties, EmptySeq DEF LifecycleTypeOK, Taken
  <2>3. /\ OnSale /\ stock + Taken = row.capacity + resold /\ stock >= 0
        /\ row.capacity >= 1 /\ resold <= row.capacity * resent
    BY <2>1, <2>2 DEF StockWarmed
  <2>4. row.capacity \in Int
    BY <2>1, <2>3, RowTypes DEF OnSale, Published, LifecycleTypeOK, NoRow
  <2> DEFINE c == row.capacity
             sold == row.capacity * resent
  <2>5. c * (1 + resent) = sold + c /\ sold \in Int
    BY <2>2, <2>3, <2>4, Sendings
  <2>6. Taken <= c + resold /\ resold <= sold /\ c \in Int
    BY <2>2, <2>3, <2>4
  <2> HIDE DEF c, sold
  <2>7. Taken <= sold + c
    BY <2>2, <2>5, <2>6
  <2> QED BY <2>5, <2>7 DEF c
<1> QED BY <1>1, LifecycleInductiveHolds, PTL

(* From the warm-up on, seats on sale and seats taken since it last ran    *)
(* add up to the capacity of the published row; before, there are none.    *)
THEOREM StockMatchesCapacity == LifecycleSpec => []SeatsMatchCapacity
<1>1. LifecycleInductive /\ (~stale => SoldPerSending) => SeatsMatchCapacity
  <2> SUFFICES ASSUME LifecycleInductive, ~stale
               PROVE  stock + Taken = IF OnSale THEN row.capacity + resold ELSE 0
    BY DEF SeatsMatchCapacity
  <2>1. StockWarmed /\ (given = <<>> => Taken = 0)
    BY EmptySeq DEF LifecycleInductive, Sale, Taken
  <2> QED BY <2>1 DEF StockWarmed
<1> QED BY <1>1, LifecycleInductiveHolds, NobodyServedTooMany, PTL

(* The script never gives a second seat to a user who was served only      *)
(* after the answer to the warm-up.                                        *)
THEOREM NobodyServedTwice == LifecycleSpec => []OneSeatPerActivity
<1>1. LifecycleInductive => OneSeatPerActivity
  BY DEF LifecycleInductive, Sale, MarkedOnce, OneSeatPerActivity
<1> QED BY <1>1, LifecycleInductiveHolds, PTL

(* Nobody has a seat before the window opened, although the checks read    *)
(* the row some time before the script runs.                               *)
THEOREM NobodyServedEarly == LifecycleSpec => []NoSaleBeforeOpening
<1>1. LifecycleInductive => NoSaleBeforeOpening
  <2>1. given = <<>> => Taken = 0
    BY EmptySeq DEF Taken
  <2> QED BY <2>1 DEF LifecycleInductive, Sale, OpenedFirst, NoSaleBeforeOpening
<1> QED BY <1>1, LifecycleInductiveHolds, PTL
===============================================================================
