---------------------------- MODULE EnrolmentPages ----------------------------
(***************************************************************************)
(* One tab between an activity and its paid order: the activity page with  *)
(* its stock polls and its one button (ActivityDetail.tsx), the page that  *)
(* follows an enrolment (EnrollStatus.tsx), the list of orders and the     *)
(* page that pays one (Orders.tsx, OrderDetail.tsx).                       *)
(*                                                                         *)
(* The router keeps a page's component when only the id in the address     *)
(* changes, as when the browser's history leads from one order to another: *)
(* what is not reset then stays.  Loads of an effect are dropped with it;  *)
(* an enrolment or a payment is not, and its answer finds the tab anywhere.*)
(* A state update and the effects it causes are one step.                  *)
(*                                                                         *)
(* The server is what the pages can tell of it: rows with an order or      *)
(* without one, a stock that moves both ways, answers from an earlier      *)
(* moment.  An activity, an enrolment and an order are known by numbers.   *)
(***************************************************************************)
EXTENDS Naturals, FiniteSets, Sequences

CONSTANTS Activities,  \* ids of activities
          MaxRows,     \* bound: enrolments there are; a row's number is the id of
                       \* the enrolment and of its order
          MaxEnrolled, \* bound: how many of them the activity page makes
          MaxStock,    \* bound: seats a stock answer may show
          MaxPolls,    \* bound: stock polls under way at once
          MaxCalls     \* bound: enrolments and payments under way at once

ASSUME EnrolmentPagesAssumption ==
  /\ Activities \subseteq Nat \ {0}
  /\ MaxEnrolled <= MaxRows
  /\ {MaxRows, MaxEnrolled, MaxStock, MaxPolls, MaxCalls} \subseteq Nat

VARIABLES
  trip,      \* bound: "activity" or "orders", the pages a behaviour is about
  clock,     \* clock[a]: where the present is in a's enrolment window
  rows,      \* server: rows[r], the enrolment and the order number r
  due,       \* server: orders whose expired_at is in the past
  reminders, \* uaad.activity.reminders.<user>
  signedIn,
  at,        \* the address: [page, id], id 0 for one that is no number
  detail,    \* the activity page
  progress,  \* the enrolment page
  receipt,   \* the order page
  orders,    \* the list of orders
  calls,     \* enrolments and payments under way: [what, of, row, here]
  strayed    \* history: a payment's answer found the page with another order

serverVars == <<trip, clock, rows, due>>
pageVars == <<at, detail, progress, receipt, orders>>
enrolmentVars == <<serverVars, reminders, signedIn, pageVars, calls, strayed>>

Ids == 1..MaxRows
Address(page, id) == [page |-> page, id |-> id]
Elsewhere == Address("elsewhere", 0) \* lists, forms and the login page
NewRows == [result : {"QUEUING"}, order : {"none"}] \cup [result : {"SUCCESS"}, order : {"PENDING"}]
Addresses == {Elsewhere, Address("orders", 0)}
             \cup {Address("activity", a) : a \in Activities \cup {0}}
             \cup {Address(page, r) : page \in {"status", "order"}, r \in Ids}
Protected == {"status", "orders", "order"}
Reach == {"elsewhere"} \cup (IF trip = "activity" THEN {"activity"} ELSE Protected)

Load(what, id) == IF id = 0 THEN {} ELSE {[what |-> what, of |-> id]}
\* Faulty variant: the effect's clean-up forgets active = false.
StillActive(loads) == loads
\* The clean-up: answers to an effect's loads find active = false.
Inactive(loads) == {}
-------------------------------------------------------------------------------
(* The activity page.                                                      *)

\* resolveActivityCountdownState, at the present of the last render.
Phase(d) == IF d.era = "open" /\ (d.stock = 0 \/ d.status = "SOLD_OUT")
            THEN "soldOut" ELSE IF d.era = "open" THEN "selling" ELSE d.era
\* getEnrollActionState.
ActionOf(d) == IF d.status = "OFFLINE" THEN "unavailable" ELSE Phase(d)
\* stockPollInterval, in seconds, 0 for none.
Interval(d) == IF d.shown = 0 THEN 0
               ELSE CASE Phase(d) = "upcoming" -> 30
                      [] Phase(d) = "selling" -> 8
                      [] Phase(d) = "soldOut" -> 20
                      [] OTHER -> 0

NoDetail == [state |-> "none", shown |-> 0, status |-> "PUBLISHED", stock |-> 0,
             stockOf |-> 0, era |-> "closed", submitting |-> FALSE, reminder |-> FALSE, loads |-> {}, polls |-> 0]

\* A render reads the clock; another interval is another effect, and the
\* polls of the one before find active = false.
Rendered(d) ==
  LET now == IF d.shown = 0 THEN d ELSE [d EXCEPT !.era = clock[d.shown]]
  IN  IF Interval(now) = Interval(detail) /\ now.shown = detail.shown
      THEN now ELSE [now EXCEPT !.polls = 0]

\* The loading effect, for another id, another reloadSeed or another t.
Reloaded(d, a) ==
  LET asked == [d EXCEPT !.loads = Inactive(@) \cup Load("detail", a)]
  IN  IF a = 0
      THEN [asked EXCEPT !.state = "missing", !.shown = 0, !.stockOf = 0, !.stock = 0,
                         !.status = "PUBLISHED", !.era = "closed", !.polls = 0]
      ELSE [asked EXCEPT !.state = "loading"]
HasReminder(a) == signedIn /\ a \in reminders
\* Faulty variant: the effect does not depend on the id.
RemindedOnce(d, a) == IF d.state = "none" THEN [d EXCEPT !.reminder = HasReminder(a)] ELSE d
\* The reminder's effect, for another id or user.
Reminded(d, a) == [d EXCEPT !.reminder = HasReminder(a)]

\* What the page shows besides a skeleton or a panel of its own.
Painted == IF detail.state = "ready" /\ detail.shown # 0
           THEN {[activity |-> detail.shown, stock |-> detail.stock, of |-> detail.stockOf]}
           ELSE {}
\* What the action panel says: actionHeading and actionButtonLabel.
ActionLabel ==
  IF Painted = {} THEN "none"
  ELSE CASE ActionOf(detail) = "upcoming" -> IF detail.reminder THEN "reminderSet" ELSE "remindMe"
         [] ActionOf(detail) = "selling" -> "enrollNow"
         [] ActionOf(detail) = "soldOut" -> "soldOut"
         [] OTHER -> "enrollUnavailable"
Button == IF Painted # {} /\ ~detail.submitting /\ ActionOf(detail) \in {"upcoming", "selling"}
          THEN ActionOf(detail) ELSE "disabled"
-------------------------------------------------------------------------------
(* The enrolment page and the order pages.                                 *)

NoProgress == [loading |-> TRUE, error |-> FALSE, shown |-> 0, result |-> "none",
               order |-> 0, timer |-> FALSE, loads |-> {}]
\* The polling effect starts over; what was shown stays.
Followed(p, r) ==
  [p EXCEPT !.loads = Inactive(@) \cup Load("status", r), !.timer = FALSE,
            !.error = @ \/ r = 0, !.loading = @ /\ r # 0]

NoReceipt == [loading |-> TRUE, error |-> FALSE, shown |-> 0, status |-> "none",
              late |-> {}, paying |-> FALSE, loads |-> {}]
\* The loading effect starts over; the order shown before waits behind it.
Fetched(b, r) ==
  [b EXCEPT !.loads = Inactive(@) \cup Load("order", r),
            !.loading = (r # 0), !.error = (r = 0)]
CanPay == /\ receipt.status = "PENDING" /\ receipt.shown \notin receipt.late
          /\ ~receipt.loading /\ ~receipt.error /\ ~receipt.paying

NoOrders == [loading |-> TRUE, error |-> FALSE, list |-> {}, asked |-> FALSE]
OrdersAsked(o) == [o EXCEPT !.asked = TRUE]
-------------------------------------------------------------------------------
(* Moving about.                                                           *)

\* Where the router leads: ProtectedRoute sends the signed-out to the login.
Led(to) == IF to.page \in Protected /\ ~signedIn THEN Elsewhere ELSE to

\* Another component: everything of the last one is gone but its calls.
Mount(to) ==
  /\ at' = to
  /\ detail' = IF to.page = "activity" THEN Reminded(Reloaded(NoDetail, to.id), to.id) ELSE NoDetail
  /\ progress' = IF to.page = "status" THEN Followed(NoProgress, to.id) ELSE NoProgress
  /\ receipt' = IF to.page = "order" THEN Fetched([NoReceipt EXCEPT !.late = due], to.id) ELSE NoReceipt
  /\ orders' = IF to.page = "orders" THEN OrdersAsked(NoOrders) ELSE NoOrders

\* The same component, with another id: its effects run again.
Readdress(to) ==
  /\ at' = to
  /\ detail' = IF to.page = "activity" THEN Reminded(Reloaded(detail, to.id), to.id) ELSE detail
  /\ progress' = IF to.page = "status" THEN Followed(progress, to.id) ELSE progress
  /\ receipt' = IF to.page = "order" THEN Fetched(receipt, to.id) ELSE receipt
  /\ UNCHANGED orders

Go(to, under) ==
  IF Led(to) = at THEN UNCHANGED pageVars /\ calls' = under
  ELSE IF Led(to).page = at.page THEN Readdress(Led(to)) /\ calls' = under
  ELSE Mount(Led(to)) /\ calls' = {[c EXCEPT !.here = FALSE] : c \in under}

\* What the pages link to: the activity page only from its panels, the others
\* once they have loaded.
DetailLinks == IF Painted = {} /\ detail.state # "loading" THEN {Elsewhere} ELSE {}
StatusLinks ==
  IF progress.loading \/ (progress.result = "QUEUING" /\ ~progress.error) THEN {}
  ELSE IF progress.result = "SUCCESS" /\ ~progress.error
       THEN {Elsewhere, IF progress.order = 0 THEN Address("orders", 0)
                                              ELSE Address("order", progress.order)}
       ELSE {Elsewhere}
OrdersLinks == IF orders.loading \/ orders.error THEN {}
               ELSE IF orders.list = {} THEN {Elsewhere}
                    ELSE {Address("order", r) : r \in orders.list}
OrderLinks == IF receipt.loading THEN {} ELSE {Address("orders", 0)}
ListLinks == {Address("activity", a) : a \in Activities}
Links == CASE at.page = "activity" -> DetailLinks
           [] at.page = "status" -> StatusLinks
           [] at.page = "orders" -> OrdersLinks
           [] at.page = "order" -> OrderLinks
           [] OTHER -> ListLinks
Header == {Elsewhere, Address("orders", 0)}

\* A link of the page or of the header.
Follow(to) ==
  /\ to \in Links \cup Header /\ to # at /\ to.page \in Reach
  /\ Go(to, calls)
  /\ UNCHANGED <<serverVars, reminders, signedIn, strayed>>
\* The browser's history, or an address that was kept.
Jump(to) ==
  /\ to # at /\ to.page \in Reach /\ (to.page \in {"status", "order"} => to.id <= Len(rows))
  /\ Go(to, calls)
  /\ UNCHANGED <<serverVars, reminders, signedIn, strayed>>

\* Logging out, or a 401: both lead away from the page.
SignOut ==
  /\ signedIn /\ signedIn' = FALSE
  /\ Mount(Elsewhere)
  /\ calls' = {[c EXCEPT !.here = FALSE] : c \in calls}
  /\ UNCHANGED <<serverVars, reminders, strayed>>
SignIn ==
  /\ ~signedIn /\ at = Elsewhere /\ signedIn' = TRUE
  /\ UNCHANGED <<serverVars, reminders, pageVars, calls, strayed>>

\* Another language is another t, on which every load depends; the retry
\* button of the activity page counts reloadSeed up.
LoadAgain ==
  /\ at.page # "elsewhere"
  /\ detail' = IF at.page = "activity" THEN Reloaded(detail, at.id) ELSE detail
  /\ progress' = IF at.page = "status" THEN Followed(progress, at.id) ELSE progress
  /\ receipt' = IF at.page = "order" THEN Fetched(receipt, at.id) ELSE receipt
  /\ orders' = IF at.page = "orders" THEN OrdersAsked(orders) ELSE orders
  /\ UNCHANGED <<serverVars, reminders, signedIn, at, calls, strayed>>
-------------------------------------------------------------------------------
(* The activity page: its loads, its polls and its button.                 *)

\* A step that changes nothing but the activity page.
InDetail(d) ==
  /\ detail' = Rendered(d)
  /\ UNCHANGED <<serverVars, reminders, signedIn, at, progress, receipt, orders, calls, strayed>>

\* The server's answers: the statuses that the page tells apart, and a stock
\* that other users change.
DetailAnswers == {"PUBLISHED", "SOLD_OUT", "OFFLINE"}
StockAnswers == 0..MaxStock
DetailArrived(l, status, n) ==
  /\ l \in detail.loads /\ l.what = "detail"
  /\ InDetail([detail EXCEPT !.state = "ready", !.shown = l.of, !.status = status,
                             !.stock = n, !.stockOf = l.of, !.polls = 0,
                             !.loads = (@ \ {l}) \cup Load("stock", l.of)])
\* A 404, or any other error.
DetailFailed(l, state) ==
  /\ l \in detail.loads /\ l.what = "detail"
  /\ InDetail([detail EXCEPT !.state = state, !.shown = 0, !.stockOf = 0, !.stock = 0,
                             !.status = "PUBLISHED", !.era = "closed", !.polls = 0,
                             !.loads = @ \ {l}])
StockArrived(l, n) ==
  /\ l \in detail.loads /\ l.what = "stock"
  /\ InDetail([detail EXCEPT !.stock = n, !.stockOf = l.of, !.loads = @ \ {l}])

\* The interval fires whether or not the last poll was answered, and goes on
\* behind the skeleton of the next activity.
Poll ==
  /\ Interval(detail) # 0 /\ detail.polls < MaxPolls
  /\ detail' = [detail EXCEPT !.polls = @ + 1]
  /\ UNCHANGED <<serverVars, reminders, signedIn, at, progress, receipt, orders, calls, strayed>>
PollArrived(n) ==
  /\ detail.polls > 0
  /\ InDetail([detail EXCEPT !.stock = n, !.stockOf = detail.shown, !.polls = @ - 1])
\* catch(() => null): nothing is rendered.
StockFailed ==
  /\ \/ detail.polls > 0 /\ detail' = [detail EXCEPT !.polls = @ - 1]
     \/ \E l \in detail.loads : l.what = "stock" /\ detail' = [detail EXCEPT !.loads = @ \ {l}]
  /\ UNCHANGED <<serverVars, reminders, signedIn, at, progress, receipt, orders, calls, strayed>>

\* One per activity.
SaveActivityReminder(a) == reminders' = reminders \cup {a}
Remind ==
  /\ Button = "upcoming" /\ signedIn
  /\ SaveActivityReminder(detail.shown)
  /\ detail' = Rendered([detail EXCEPT !.reminder = TRUE])
  /\ UNCHANGED <<serverVars, signedIn, at, progress, receipt, orders, calls, strayed>>
Enrol ==
  /\ Button = "selling" /\ signedIn /\ Cardinality(calls) < MaxCalls
  /\ detail' = Rendered([detail EXCEPT !.submitting = TRUE])
  /\ calls' = calls \cup {[what |-> "enrol", of |-> detail.shown, row |-> 0, here |-> TRUE]}
  /\ UNCHANGED <<serverVars, reminders, signedIn, at, progress, receipt, orders, strayed>>
\* handleAuthRedirect.
AskToSignIn ==
  /\ Button # "disabled" /\ ~signedIn
  /\ Go(Elsewhere, calls)
  /\ UNCHANGED <<serverVars, reminders, signedIn, strayed>>

\* The end of handlePrimaryAction, on whichever activity its page shows now.
\* Faulty variant: no finally.
Untold(c) == UNCHANGED detail
Told(c) ==
  detail' = IF c.here THEN Rendered([detail EXCEPT !.submitting = FALSE]) ELSE detail
Accept(c, result, order) ==
  /\ Len(rows) < MaxEnrolled
  /\ rows' = Append(rows, [result |-> result, order |-> order])

\* The backend queues the enrolment and has no number for it yet.
EnrolQueued(c) ==
  /\ c.what = "enrol" /\ Accept(c, "QUEUING", "none")
  /\ Told(c) /\ calls' = calls \ {c}
  /\ UNCHANGED <<trip, clock, due, reminders, signedIn, at, progress, receipt, orders, strayed>>
\* The mock finishes it; the page then looks for its order.
EnrolPlaced(c) ==
  /\ c.what = "enrol" /\ Accept(c, "SUCCESS", "PENDING")
  /\ calls' = (calls \ {c}) \cup {[c EXCEPT !.what = "lookup", !.row = Len(rows')]}
  /\ UNCHANGED <<trip, clock, due, reminders, signedIn, pageVars, strayed>>
\* Refused (409, 1101, 400), or an error that hides what the server did.
EnrolFailed(c) ==
  /\ c.what = "enrol"
  /\ UNCHANGED rows \/ Accept(c, "QUEUING", "none")
  /\ Told(c) /\ calls' = calls \ {c}
  /\ UNCHANGED <<trip, clock, due, reminders, signedIn, at, progress, receipt, orders, strayed>>
\* The answer leads the tab to the order, or, if it was not found, to the
\* enrolment: from wherever it is by now.
EnrolFollowed(c, page) ==
  /\ c.what = "lookup"
  /\ Go(Address(page, c.row), calls \ {c})
  /\ UNCHANGED <<serverVars, reminders, signedIn, strayed>>
-------------------------------------------------------------------------------
(* The enrolment page.                                                     *)

InProgress(p) ==
  /\ progress' = p
  /\ UNCHANGED <<serverVars, reminders, signedIn, at, detail, receipt, orders, calls, strayed>>

\* What the server said of row r at some moment until now.
ResultsOf(r) == {rows[r].result} \cup IF rows[r].order = "none" THEN {"QUEUING"} ELSE {}
\* Faulty variant: the answer is shown and no poll follows.
StatusShown(l, result) ==
  /\ l \in progress.loads /\ l.what = "status" /\ l.of \in 1..Len(rows)
  /\ InProgress([progress EXCEPT !.shown = l.of, !.result = result, !.error = FALSE,
                                 !.loading = FALSE, !.loads = @ \ {l}])
StatusArrived(l, result) ==
  /\ l \in progress.loads /\ l.what = "status" /\ l.of \in 1..Len(rows)
  /\ LET told == [progress EXCEPT !.shown = l.of, !.result = result, !.error = FALSE]
     IN  IF result = "SUCCESS"
         THEN InProgress([told EXCEPT !.loads = {[l EXCEPT !.what = "lookup"]}])
         ELSE InProgress([told EXCEPT !.loads = @ \ {l}, !.loading = FALSE,
                                      !.timer = (result = "QUEUING")])
\* findOrderByOrderNo finds the order or, as it looks at one page, does not.
OrderLookedUp(l, order) ==
  /\ l \in progress.loads /\ l.what = "lookup"
  /\ InProgress([progress EXCEPT !.order = order, !.loads = @ \ {l}, !.loading = FALSE])
\* Any error: it is shown, and nothing is polled again.
StatusFailed(l) ==
  /\ l \in progress.loads /\ l.what = "status"
  /\ InProgress([progress EXCEPT !.error = TRUE, !.loads = @ \ {l}, !.loading = FALSE])
\* Four seconds later.
PollStatus ==
  /\ progress.timer
  /\ InProgress([progress EXCEPT !.timer = FALSE, !.loads = Load("status", at.id)])
-------------------------------------------------------------------------------
(* The list of orders and the order page.                                  *)

Ordered == {r \in 1..Len(rows) : rows[r].order # "none"}
OrdersArrived(o) ==
  /\ orders.asked /\ orders' = o
  /\ UNCHANGED <<serverVars, reminders, signedIn, at, detail, progress, receipt, calls, strayed>>

InReceipt(b) ==
  /\ receipt' = b
  /\ UNCHANGED <<serverVars, reminders, signedIn, at, detail, progress, orders, calls, strayed>>

StatusesOf(r) == IF rows[r].order = "none" THEN {} ELSE {"PENDING", rows[r].order}
OrderArrived(l, status) ==
  /\ l \in receipt.loads /\ l.what = "order"
  /\ InReceipt([receipt EXCEPT !.shown = l.of, !.status = status,
                               !.loads = {[l EXCEPT !.what = "activity"]}])
\* The activity's name, which may fail: only now the order is shown.
ActivityArrived(l) ==
  /\ l \in receipt.loads /\ l.what = "activity"
  /\ InReceipt([receipt EXCEPT !.loads = @ \ {l}, !.loading = FALSE])
OrderFailed(l) ==
  /\ l \in receipt.loads /\ l.what = "order"
  /\ InReceipt([receipt EXCEPT !.loads = @ \ {l}, !.error = TRUE, !.loading = FALSE])
\* The second passes, for the page's countdown.
Tick ==
  /\ at.page = "order" /\ receipt.late # due
  /\ InReceipt([receipt EXCEPT !.late = due])

Pay ==
  /\ CanPay /\ Cardinality(calls) < MaxCalls
  /\ receipt' = [receipt EXCEPT !.paying = TRUE]
  /\ calls' = calls \cup {[what |-> "pay", of |-> 0, row |-> receipt.shown, here |-> TRUE]}
  /\ UNCHANGED <<serverVars, reminders, signedIn, at, detail, progress, orders, strayed>>
PayServed(c) ==
  /\ c.what = "pay" /\ rows[c.row].order = "PENDING"
  /\ rows' = [rows EXCEPT ![c.row].order = "PAID"]
  /\ calls' = (calls \ {c}) \cup {[c EXCEPT !.what = "paid"]}
  /\ UNCHANGED <<trip, clock, due, reminders, signedIn, pageVars, strayed>>
\* The result is merged with the order the page has by now.
PayArrived(c) ==
  /\ c.what = "paid"
  /\ receipt' = IF c.here
                THEN [receipt EXCEPT !.paying = FALSE, !.status = "PAID"]
                ELSE receipt
  /\ strayed' = (strayed \/ (c.here /\ receipt.shown # c.row))
  /\ calls' = calls \ {c}
  /\ UNCHANGED <<serverVars, reminders, signedIn, at, detail, progress, orders>>
\* Faulty variant: the page expects the payment to succeed.
PayExpected(c) ==
  /\ c.what \in {"pay", "paid"}
  /\ receipt' = IF c.here
                THEN [receipt EXCEPT !.paying = FALSE, !.status = "PAID"]
                ELSE receipt
  /\ calls' = calls \ {c}
  /\ UNCHANGED <<serverVars, reminders, signedIn, at, detail, progress, orders, strayed>>
\* Refused, or the answer is lost.
PayFailed(c) ==
  /\ c.what \in {"pay", "paid"}
  /\ receipt' = IF c.here THEN [receipt EXCEPT !.paying = FALSE] ELSE receipt
  /\ calls' = calls \ {c}
  /\ UNCHANGED <<serverVars, reminders, signedIn, at, detail, progress, orders, strayed>>
-------------------------------------------------------------------------------
(* The server and its clock.                                               *)

InServer == UNCHANGED <<trip, reminders, signedIn, pageVars, calls, strayed>>

Pass(a) ==
  /\ trip = "activity" /\ clock[a] # "closed"
  /\ clock' = [clock EXCEPT ![a] = IF @ = "upcoming" THEN "open" ELSE "closed"]
  /\ InServer /\ UNCHANGED <<rows, due>>
Finalize(r) ==
  /\ rows[r].result = "QUEUING"
  /\ \/ rows' = [rows EXCEPT ![r].result = "SUCCESS", ![r].order = "PENDING"]
     \/ rows' = [rows EXCEPT ![r].result = "FAILED"]
  /\ InServer /\ UNCHANGED <<clock, due>>
Expire(r) ==
  /\ rows[r].order = "PENDING" /\ r \notin due
  /\ due' = due \cup {r}
  /\ InServer /\ UNCHANGED <<clock, rows>>
CloseExpired(r) ==
  /\ rows[r].order = "PENDING" /\ r \in due
  /\ rows' = [rows EXCEPT ![r].order = "CLOSED"]
  /\ InServer /\ UNCHANGED <<clock, due>>
-------------------------------------------------------------------------------
EnrolmentInit ==
  /\ clock \in [Activities -> {"upcoming", "open"}]
  /\ \/ trip = "activity" /\ rows = <<>>
     \/ /\ trip = "orders" /\ clock \in [Activities -> {"open"}]
        /\ rows \in [Ids -> NewRows]
  /\ due = {} /\ reminders = {} /\ signedIn \in BOOLEAN
  /\ at = Elsewhere /\ detail = NoDetail /\ progress = NoProgress
  /\ receipt = NoReceipt /\ orders = NoOrders
  /\ calls = {} /\ strayed = FALSE

Moves == (\E to \in Addresses : Follow(to) \/ Jump(to)) \/ SignOut \/ SignIn \/ LoadAgain
OnActivity ==
  \/ \E l \in detail.loads, status \in DetailAnswers, n \in StockAnswers :
       DetailArrived(l, status, n) \/ StockArrived(l, n)
  \/ \E l \in detail.loads : DetailFailed(l, "missing") \/ DetailFailed(l, "error")
  \/ Poll \/ (\E n \in StockAnswers : PollArrived(n)) \/ StockFailed
  \/ Remind \/ Enrol \/ AskToSignIn
OnCalls ==
  \E c \in calls :
    \/ EnrolQueued(c) \/ EnrolPlaced(c) \/ EnrolFailed(c)
    \/ EnrolFollowed(c, "order") \/ EnrolFollowed(c, "status")
    \/ PayServed(c) \/ PayArrived(c) \/ PayFailed(c)
OnStatus ==
  \/ \E l \in progress.loads :
       \/ l.of \in 1..Len(rows) /\ \E result \in ResultsOf(l.of) : StatusArrived(l, result)
       \/ OrderLookedUp(l, l.of) \/ OrderLookedUp(l, 0) \/ StatusFailed(l)
  \/ PollStatus
OnOrders ==
  \/ OrdersArrived([NoOrders EXCEPT !.list = Ordered, !.loading = FALSE])
  \/ OrdersArrived([NoOrders EXCEPT !.error = TRUE, !.loading = FALSE])
  \/ \E l \in receipt.loads :
       \/ l.of \in 1..Len(rows) /\ \E status \in StatusesOf(l.of) : OrderArrived(l, status)
       \/ ActivityArrived(l) \/ OrderFailed(l)
  \/ Tick \/ Pay
OnServer ==
  \/ \E a \in Activities : Pass(a)
  \/ \E r \in 1..Len(rows) : Finalize(r) \/ Expire(r) \/ CloseExpired(r)

EnrolmentNext == Moves \/ OnActivity \/ OnCalls \/ OnStatus \/ OnOrders \/ OnServer
EnrolmentSpec == EnrolmentInit /\ [][EnrolmentNext]_enrolmentVars
-------------------------------------------------------------------------------
(* Correctness.                                                            *)

EnrolmentTypeOK ==
  /\ at \in Addresses /\ Len(rows) <= MaxRows /\ due \subseteq Ordered
  /\ reminders \subseteq Activities
  /\ detail.state = "none" <=> at.page # "activity"
  /\ detail.polls \in 0..MaxPolls /\ (detail.polls > 0 => Interval(detail) # 0)
  /\ detail.submitting <=> \E c \in calls : c.here /\ c.what \in {"enrol", "lookup"}
  /\ receipt.paying <=> \E c \in calls : c.here /\ c.what \in {"pay", "paid"}
  /\ calls \subseteq [what : {"enrol", "lookup", "pay", "paid"}, of : Activities \cup {0},
                      row : 0..MaxRows, here : BOOLEAN]

(* What a page shows is what its address names, in whatever order answers  *)
(* arrive while the history leads from one id to the next: the activity    *)
(* page shows that activity and its own stock, the order page that order.  *)
ShownAsAddressed ==
  /\ \A p \in Painted : p.activity = at.id /\ p.of = at.id
  /\ at.page = "order" /\ ~receipt.loading /\ ~receipt.error => receipt.shown = at.id

(* An enrolment shown as queuing is being polled, or the page says that a  *)
(* poll failed: it never waits for a result without asking for it.         *)
QueuingIsPolled ==
  at.page = "status" /\ progress.result = "QUEUING" /\ ~progress.error =>
    progress.timer \/ progress.loads # {}

(* The order page shows as paid what was paid: after whatever failed, and  *)
(* whenever the answer arrives, unless the page had moved on to another    *)
(* order meanwhile (handlePay keeps the order it finds).                   *)
PaidWasPaid ==
  receipt.status = "PAID" => strayed \/ rows[receipt.shown].order = "PAID"

(* The button says that a reminder is set when one is stored for this      *)
(* activity and this user, and offers to set one when there is none.       *)
ReminderTold ==
  /\ ActionLabel = "reminderSet" => HasReminder(at.id)
  /\ ActionLabel = "remindMe" => ~HasReminder(at.id)
===============================================================================
