-------------------------- MODULE ActivityLifecycle --------------------------
(***************************************************************************)
(* One activity from creation to sale (service/activity_service.go): the   *)
(* merchant's Create, Update and Publish requests, each of which reads the *)
(* row, checks and changes its copy and saves the whole row; the warm-up   *)
(* of Redis after publishing; and users whose enrolments take seats        *)
(* meanwhile.  What happens to a seat once it is taken is TicketEngine's   *)
(* subject.                                                                *)
(*                                                                         *)
(* The row keeps the fields other parts depend on: status, capacity and    *)
(* the enrolment window, in ticks of a clock.  PREHEAT is treated by the   *)
(* code like DRAFT and has no state of its own.                            *)
(***************************************************************************)
EXTENDS StockEngine, Sequences

CONSTANTS Requests,      \* concurrent requests of the merchant
          Capacities,    \* capacities the merchant may ask for; Update checks none
          MaxTime,       \* bound of the clock
          MaxResends     \* bound of the SETs that run again; go-redis sends a pipeline up to four times

ASSUME LifecycleAssumption ==
  /\ Capacities \subseteq Int
  /\ MaxTime \in Nat
  /\ MaxResends \in Nat

VARIABLES row,       \* activities row in MySQL
          now,       \* the clock
          request,   \* request[m]: where request m stands, and its copy of the row
          checked,   \* users whose enrolment passed the checks of Create
          given,     \* history: the users the script gave a seat to, one after the other
          cold,      \* history: a Publish ended after its save and before SET
          early,     \* history: users served while a warm-up was under way
          resent,    \* history: how often SET ran again
          resold,    \* history: the seats taken when SET last ran again
          outdated,  \* history: requests whose copy was read before another one's save
          stale      \* history: such a copy was saved

countVars == <<given, early, resent, resold>>
saveVars == <<outdated, stale>>
lifecycleVars == <<redisVars, row, now, request, checked, countVars, cold, saveVars>>

Times == 0..MaxTime
Rows == [status : {"DRAFT", "PUBLISHED"}, capacity : Capacities, opens : Times, closes : Times]
NoRow == [status |-> "absent"]
Idle == [at |-> "idle"]
Saving == {"updating", "publishing"}
\* The pipeline of the warm-up: nothing of it ran yet, SET ran, DEL ran as
\* well; or all of it is sent again and nothing of that ran yet.
Warming == {"warming", "clearing", "answering", "resending"}
Stages == Saving \cup Warming
Published == row.status = "PUBLISHED"

LifecycleInit ==
  /\ stock = 0 /\ enrolled = {}
  /\ row = NoRow
  /\ now = 0
  /\ request = [m \in Requests |-> Idle]
  /\ checked = {}
  /\ given = <<>> /\ early = {} /\ resent = 0 /\ resold = 0
  /\ cold = FALSE
  /\ outdated = {} /\ stale = FALSE

At(m, place) == request[m].at = place
Goto(m, place, copy) == request' = [request EXCEPT ![m] = [at |-> place, copy |-> copy]]
Finish(m) == request' = [request EXCEPT ![m] = Idle]

\* Save writes every column of the copy, whatever was saved since it was read.
Save(m) ==
  /\ row' = request[m].copy
  /\ outdated' = {n \in Requests \ {m} : request[n].at \in Saving}
  /\ stale' = (stale \/ m \in outdated)
-------------------------------------------------------------------------------
(* Create and Update.                                                      *)

\* activity_at is later than every time of the model.
ValidTimes(r) == r.opens < r.closes

Create(r) ==
  /\ row = NoRow
  /\ ValidTimes(r) /\ r.status = "DRAFT" /\ r.capacity >= 1
  /\ row' = r
  /\ UNCHANGED <<redisVars, now, request, checked, countVars, cold, saveVars>>

\* Faulty variants: locked fields not checked; times not checked.
ReadForUpdateUnlocked(m, r) ==
  /\ At(m, "idle") /\ row # NoRow
  /\ r.status = row.status /\ r # row /\ ValidTimes(r)
  /\ Goto(m, "updating", r)
  /\ UNCHANGED <<redisVars, row, now, checked, countVars, cold, saveVars>>
ReadForUpdateUnordered(m, r) ==
  /\ At(m, "idle") /\ row # NoRow
  /\ r.status = row.status /\ r # row
  /\ Published => r.capacity = row.capacity /\ r.opens = row.opens
  /\ Goto(m, "updating", r)
  /\ UNCHANGED <<redisVars, row, now, checked, countVars, cold, saveVars>>

\* Update, up to the validation: r is the changed copy.  Once published,
\* capacity and opening time are locked.
ReadForUpdate(m, r) ==
  /\ At(m, "idle") /\ row # NoRow
  /\ r.status = row.status /\ r # row
  /\ Published => r.capacity = row.capacity /\ r.opens = row.opens
  /\ ValidTimes(r)
  /\ Goto(m, "updating", r)
  /\ UNCHANGED <<redisVars, row, now, checked, countVars, cold, saveVars>>

SaveUpdate(m) ==
  /\ At(m, "updating")
  /\ Save(m)
  /\ Finish(m)
  /\ UNCHANGED <<redisVars, now, checked, countVars, cold>>
-------------------------------------------------------------------------------
(* Publish.                                                                *)

ReadForPublishAgain(m) ==                                  \* faulty ReadForPublish
  /\ At(m, "idle") /\ row # NoRow
  /\ Goto(m, "publishing", [row EXCEPT !.status = "PUBLISHED"])
  /\ UNCHANGED <<redisVars, row, now, checked, countVars, cold, saveVars>>

ReadForPublish(m) ==
  /\ At(m, "idle")
  /\ row.status = "DRAFT"
  /\ Goto(m, "publishing", [row EXCEPT !.status = "PUBLISHED"])
  /\ UNCHANGED <<redisVars, row, now, checked, countVars, cold, saveVars>>

SavePublishOnly(m) ==                                      \* faulty SavePublish
  /\ At(m, "publishing")
  /\ Save(m)
  /\ Finish(m)
  /\ UNCHANGED <<redisVars, now, checked, countVars, cold>>

SavePublish(m) ==
  /\ At(m, "publishing")
  /\ Save(m)
  /\ Goto(m, "warming", request[m].copy)
  /\ UNCHANGED <<redisVars, now, checked, countVars, cold>>

\* MySQL refuses the save: the request ends with an error.
SaveFails(m) ==
  /\ request[m].at \in Saving
  /\ Finish(m)
  /\ outdated' = outdated \ {m}
  /\ UNCHANGED <<redisVars, row, now, checked, countVars, cold, stale>>

WarmUpSet(m) ==
  /\ At(m, "warming")
  /\ WarmUpStock(request[m].copy.capacity)
  /\ Goto(m, "clearing", request[m].copy)
  /\ UNCHANGED <<row, now, checked, countVars, cold, saveVars>>

WarmUpClear(m) ==
  /\ At(m, "clearing")
  /\ WarmUpMarks
  /\ Goto(m, "answering", request[m].copy)
  /\ UNCHANGED <<row, now, checked, countVars, cold, saveVars>>

WarmUpAnswered(m) ==
  /\ At(m, "answering")
  /\ Finish(m)
  /\ UNCHANGED <<redisVars, row, now, checked, countVars, cold, saveVars>>

\* The connection breaks after SET, or the answer is lost: the client library
\* sends the whole pipeline again.
WarmUpResent(m) ==
  /\ request[m].at \in {"clearing", "answering"}
  /\ resent < MaxResends
  /\ Goto(m, "resending", request[m].copy)
  /\ UNCHANGED <<redisVars, row, now, checked, countVars, cold, saveVars>>

WarmUpSetAgain(m) ==
  /\ At(m, "resending")
  /\ WarmUpStock(request[m].copy.capacity)
  /\ resent' = resent + 1 /\ resold' = Len(given)
  /\ Goto(m, "clearing", request[m].copy)
  /\ UNCHANGED <<row, now, checked, given, early, cold, saveVars>>

\* The client gives up: only a line in the log.
WarmUpFails(m) ==
  /\ request[m].at \in Warming
  /\ cold' = (cold \/ At(m, "warming"))
  /\ Finish(m)
  /\ UNCHANGED <<redisVars, row, now, checked, countVars, saveVars>>

\* The server process dies and is started again.
Restart ==
  /\ request' = [m \in Requests |-> Idle]
  /\ checked' = {}
  /\ cold' = (cold \/ \E m \in Requests : At(m, "warming"))
  /\ outdated' = {}
  /\ UNCHANGED <<redisVars, row, now, countVars, stale>>

Tick ==
  /\ now < MaxTime
  /\ now' = now + 1
  /\ UNCHANGED <<redisVars, row, request, checked, countVars, cold, saveVars>>
-------------------------------------------------------------------------------
(* Enrolment: the checks read the row, the script runs later.              *)

CheckStatusOnly(u) ==                                             \* faulty Check
  /\ u \notin checked
  /\ Published
  /\ checked' = checked \cup {u}
  /\ UNCHANGED <<redisVars, row, now, request, countVars, cold, saveVars>>

Check(u) ==
  /\ u \notin checked
  /\ Published /\ row.opens <= now /\ now <= row.closes
  /\ checked' = checked \cup {u}
  /\ UNCHANGED <<redisVars, row, now, request, countVars, cold, saveVars>>

Take(u) ==
  /\ u \in checked
  /\ TryEnroll(u)
  /\ checked' = checked \ {u}
  /\ given' = Append(given, u)
  /\ early' = IF \E m \in Requests : request[m].at \in Warming THEN early \cup {u} ELSE early
  /\ UNCHANGED <<row, now, request, resent, resold, cold, saveVars>>

Refuse(u) ==
  /\ u \in checked
  /\ AlreadyEnrolled(u) \/ StockDepleted(u)
  /\ checked' = checked \ {u}
  /\ UNCHANGED <<redisVars, row, now, request, countVars, cold, saveVars>>
-------------------------------------------------------------------------------
PublishStep(m) ==
  \/ SavePublish(m) \/ (At(m, "publishing") /\ SaveFails(m))
  \/ WarmUpSet(m) \/ WarmUpClear(m) \/ WarmUpAnswered(m) \/ WarmUpSetAgain(m)

LifecycleNext ==
  \/ \E r \in Rows : Create(r)
  \/ \E m \in Requests, r \in Rows : ReadForUpdate(m, r)
  \/ \E m \in Requests :
       \/ SaveUpdate(m) \/ SaveFails(m) \/ ReadForPublish(m) \/ SavePublish(m)
       \/ WarmUpSet(m) \/ WarmUpClear(m) \/ WarmUpAnswered(m) \/ WarmUpFails(m)
       \/ WarmUpResent(m) \/ WarmUpSetAgain(m)
  \/ Restart \/ Tick
  \/ \E u \in Users : Check(u) \/ Take(u) \/ Refuse(u)

LifecycleSpec == LifecycleInit /\ [][LifecycleNext]_lifecycleVars
\* A request that has begun is carried on.
LifecycleFairSpec == LifecycleSpec /\ \A m \in Requests : WF_lifecycleVars(PublishStep(m))
-------------------------------------------------------------------------------
(* Correctness.  A save of an outdated copy undoes what another request    *)
(* saved (`stale'); what two publications at once then do to the stock is  *)
(* shown by TakenWithinCapacity.                                           *)

Taken == Len(given)

(* The types, and that no save stores a window that ends before it begins. *)
LifecycleTypeOK ==
  /\ stock \in Int /\ enrolled \subseteq Users
  /\ row \in {NoRow} \cup Rows
  /\ row # NoRow => ValidTimes(row)
  /\ now \in Times
  /\ request \in [Requests -> {Idle} \cup [at : Stages, copy : Rows]]
  /\ checked \subseteq Users
  /\ given \in Seq(Users) /\ early \subseteq Users
  /\ resent \in Nat /\ resold \in Nat
  /\ cold \in BOOLEAN /\ stale \in BOOLEAN
  /\ outdated \subseteq Requests

OnSale == Published /\ ~cold /\ \A m \in Requests : ~At(m, "warming")

(* Each sending of the warm-up sells the capacity at most once, and a      *)
(* capacity of zero or less, which Update accepts, sells nothing.          *)
SoldPerSending == Taken > 0 => Taken <= row.capacity * (1 + resent)

(* Once the warm-up has set the stock, seats on sale and seats taken since *)
(* it last did add up to the capacity of the published row; before, there  *)
(* are none.  A warm-up sent again after a lost answer sells the seats     *)
(* taken before once more, and no other.                                   *)
SeatsMatchCapacity ==
  ~stale => /\ stock + Taken = IF OnSale THEN row.capacity + resold ELSE 0
            /\ SoldPerSending

(* Status, capacity and opening time of a published activity change only   *)
(* by the save of a request that read the row before another one's save    *)
(* (the lock of activity_service.go:133 sees the row that was read).       *)
PublishedFrozen ==
  [][Published =>
       \/ /\ row'.status = "PUBLISHED"
          /\ row'.capacity = row.capacity
          /\ row'.opens = row.opens
       \/ \E m \in outdated : request[m].at \in Saving /\ row' = request[m].copy]_lifecycleVars

(* docs/SRS.md:161: a user never locks two seats, except one who was       *)
(* served while the warm-up was under way; whoever is served only after    *)
(* its answer came keeps the mark.                                         *)
OneSeatPerActivity ==
  ~stale => \A i, j \in DOMAIN given : i < j /\ given[i] = given[j] => given[i] \in early

(* Nobody takes a seat before the window opens, although Create reads the  *)
(* row some time before the script runs and updates come in between.       *)
NoSaleBeforeOpening == Taken > 0 /\ ~stale => Published /\ row.opens <= now

(* docs/SRS.md:160 with several requests at once: the seats given out do   *)
(* not exceed the capacity.                                                *)
TakenWithinCapacity == Taken > 0 => Taken <= row.capacity

(* A published activity goes on sale, unless its warm-up was lost.         *)
PublishedGoesOnSale ==
  Published ~> (cold \/ stale \/ (Published /\ stock + Taken = row.capacity + resold))
===============================================================================
