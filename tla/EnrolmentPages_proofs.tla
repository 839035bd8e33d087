-------------------------- MODULE EnrolmentPages_proofs --------------------------
(***************************************************************************)
(* Theorems about EnrolmentPages, for all sets of activities, any number   *)
(* of enrolments, any stock, and any number of polls and calls under way.  *)
(*                                                                         *)
(* What a page shows is right because of what it waits for: the invariant  *)
(* says of each page whose loads may still arrive, and what they leave.    *)
(* Whether the reminder's button is right depends on the activity page's   *)
(* being the address's, for a click stores the one that is shown.          *)
(***************************************************************************)
EXTENDS EnrolmentPages, TLAPS

Numbers == Activities \cup {0}
Details == [state : {"none", "loading", "ready", "missing", "error"}, shown : Numbers,
            status : DetailAnswers, stock : StockAnswers, stockOf : Numbers,
            era : {"upcoming", "open", "closed"}, submitting : BOOLEAN, reminder : BOOLEAN,
            loads : SUBSET [what : {"detail", "stock"}, of : Activities], polls : Nat]
Progresses == [loading : BOOLEAN, error : BOOLEAN, shown : Nat,
               result : {"none", "QUEUING", "SUCCESS", "FAILED"}, order : Nat, timer : BOOLEAN,
               loads : SUBSET [what : {"status", "lookup"}, of : Ids]]
Receipts == [loading : BOOLEAN, error : BOOLEAN, shown : Nat,
             status : {"none", "PENDING", "PAID", "CLOSED"}, late : SUBSET Ids, paying : BOOLEAN,
             loads : SUBSET [what : {"order", "activity"}, of : Ids]]
Calls == [what : {"enrol", "lookup", "pay", "paid"}, of : Numbers, row : Nat, here : BOOLEAN]
EnrolmentRows == [result : {"QUEUING", "SUCCESS", "FAILED"}, order : {"none", "PENDING", "PAID", "CLOSED"}]

\* The server, and where the tab is.
ServerPart ==
  /\ clock \in [Activities -> {"upcoming", "open", "closed"}]
  /\ rows \in Seq(EnrolmentRows) /\ Len(rows) <= MaxRows
  /\ \A r \in 1..Len(rows) : rows[r].result = "QUEUING" => rows[r].order = "none"
  /\ due \subseteq Ids /\ reminders \subseteq Activities /\ signedIn \in BOOLEAN
  /\ at \in Addresses

\* The activity page waits for what the address names, and has that ready.
DetailPart ==
  /\ detail \in Details
  /\ \A l \in detail.loads : at.page = "activity" /\ l.of = at.id
  /\ detail.state = "none" <=> at.page # "activity"
  /\ detail.state = "ready" => detail.shown = at.id /\ detail.stockOf = at.id
  /\ at.page = "activity" => detail.reminder = HasReminder(at.id)

\* The enrolment page has one request at most; it looks for an order only of
\* an enrolment that succeeded.
ProgressPart ==
  /\ progress \in Progresses
  /\ at.page # "status" => progress = NoProgress
  /\ \A l, m \in progress.loads : l = m
  /\ \A l \in progress.loads : l.what = "lookup" => progress.result = "SUCCESS"
  /\ QueuingIsPolled

\* The order page shows the order whose activity it asks for.
ReceiptPart ==
  /\ receipt \in Receipts
  /\ \A l \in receipt.loads : /\ at.page = "order" /\ l.of = at.id
                              /\ l.what = "activity" => receipt.shown = l.of
  /\ at.page = "order" /\ ~receipt.loading /\ ~receipt.error => receipt.shown = at.id
  /\ receipt.status = "PENDING" => receipt.shown \in 1..Len(rows)
  /\ receipt.status = "PAID" /\ ~strayed => receipt.shown \in 1..Len(rows)
  /\ PaidWasPaid

\* A call under way about a row names one; one that says paid tells the truth.
Truthful(c) ==
  /\ c.what # "enrol" => c.row \in 1..Len(rows)
  /\ c.what = "paid" => rows[c.row].order = "PAID"
CallPart == calls \subseteq Calls /\ \A c \in calls : Truthful(c)

Inductive == ServerPart /\ DetailPart /\ ProgressPart /\ ReceiptPart /\ CallPart /\ strayed \in BOOLEAN
-------------------------------------------------------------------------------
(* Addresses, and what the effects of a page make of its state.            *)

LEMMA AddressParts ==
  ASSUME EnrolmentPagesAssumption, NEW to \in Addresses
  PROVE  /\ to.page \in {"elsewhere", "orders", "activity", "status", "order"}
         /\ to.id \in Nat
         /\ to.page = "activity" => to.id \in Numbers
         /\ to.page \in {"status", "order"} => to.id \in Ids /\ to.id # 0
  BY DEF Addresses, Address, Elsewhere, Ids, Numbers, EnrolmentPagesAssumption

LEMMA Loads ==
  ASSUME NEW what, NEW id
  PROVE  /\ id = 0 => Load(what, id) = {}
         /\ id # 0 => Load(what, id) = {[what |-> what, of |-> id]}
  BY DEF Load

LEMMA OneLoad ==
  ASSUME NEW what, NEW id, NEW loads, loads = {[what |-> what, of |-> id]}
  PROVE  /\ loads # {} /\ \A l, m \in loads : l = m
         /\ \A l \in loads : l.what = what /\ l.of = id
  OBVIOUS

\* A render changes nothing but the present and the polls under way.
LEMMA Renders ==
  ASSUME ServerPart, NEW d \in Details
  PROVE  /\ Rendered(d) \in Details
         /\ Rendered(d).state = d.state /\ Rendered(d).shown = d.shown
         /\ Rendered(d).stockOf = d.stockOf /\ Rendered(d).reminder = d.reminder
         /\ Rendered(d).loads = d.loads
<1> DEFINE now == IF d.shown = 0 THEN d ELSE [d EXCEPT !.era = clock[d.shown]]
<1>1. /\ now \in Details /\ now.state = d.state /\ now.shown = d.shown
      /\ now.stockOf = d.stockOf /\ now.reminder = d.reminder /\ now.loads = d.loads
  <2>1. CASE d.shown = 0
    BY <2>1
  <2>2. CASE d.shown # 0
    <3>1. d.shown \in Activities
      BY <2>2 DEF Details, Numbers
    <3>2. clock[d.shown] \in {"upcoming", "open", "closed"}
      BY <3>1 DEF ServerPart
    <3> QED BY <2>2, <3>2 DEF Details
  <2> QED BY <2>1, <2>2
<1>2. Rendered(d) = now \/ Rendered(d) = [now EXCEPT !.polls = 0]
  BY DEF Rendered
<1> HIDE DEF now
<1> QED BY <1>1, <1>2 DEF Details

LEMMA Reloads ==
  ASSUME EnrolmentPagesAssumption, NEW d \in Details, NEW a \in Numbers
  PROVE  /\ Reloaded(d, a) \in Details
         /\ Reloaded(d, a).state \in {"loading", "missing"}
         /\ \A l \in Reloaded(d, a).loads : l.of = a
         /\ Reloaded(d, a).reminder = d.reminder
<1> DEFINE asked == [d EXCEPT !.loads = {} \cup Load("detail", a)]
<1>1. \A l \in Load("detail", a) : l.of = a
  BY Loads
<1>2. Load("detail", a) \subseteq [what : {"detail", "stock"}, of : Activities]
  <2>1. CASE a = 0
    BY <2>1, Loads
  <2>2. CASE a # 0
    <3>1. a \in Activities
      BY <2>2 DEF Numbers
    <3> QED BY <2>2, <3>1, Loads
  <2> QED BY <2>1, <2>2
<1>3. /\ asked \in Details /\ asked.reminder = d.reminder
      /\ asked.loads = Load("detail", a)
  BY <1>2 DEF Details
<1>4. Reloaded(d, a) =
        IF a = 0
        THEN [asked EXCEPT !.state = "missing", !.shown = 0, !.stockOf = 0, !.stock = 0,
                           !.status = "PUBLISHED", !.era = "closed", !.polls = 0]
        ELSE [asked EXCEPT !.state = "loading"]
  BY DEF Reloaded, Inactive
<1> HIDE DEF asked
<1>5. 0 \in Numbers /\ 0 \in StockAnswers /\ "PUBLISHED" \in DetailAnswers
  BY DEF Numbers, StockAnswers, DetailAnswers, EnrolmentPagesAssumption
<1>6. CASE a = 0
  <2>1. Reloaded(d, a) =
          [asked EXCEPT !.state = "missing", !.shown = 0, !.stockOf = 0, !.stock = 0,
                        !.status = "PUBLISHED", !.era = "closed", !.polls = 0]
    BY <1>4, <1>6
  <2>2. Reloaded(d, a) \in Details
    <3> DEFINE half == [asked EXCEPT !.state = "missing", !.shown = 0, !.stockOf = 0, !.stock = 0]
    <3>1. half \in Details
      BY <1>3, <1>5 DEF Details
    <3>2. Reloaded(d, a) = [half EXCEPT !.status = "PUBLISHED", !.era = "closed", !.polls = 0]
      BY <1>3, <2>1 DEF Details
    <3> HIDE DEF half
    <3> DEFINE most == [half EXCEPT !.status = "PUBLISHED", !.era = "closed"]
    <3>3. most \in Details
      BY <1>5, <3>1 DEF Details
    <3>4. Reloaded(d, a) = [most EXCEPT !.polls = 0]
      BY <3>1, <3>2 DEF Details
    <3> HIDE DEF most
    <3> QED BY <3>3, <3>4 DEF Details
  <2>3. /\ Reloaded(d, a).state = "missing" /\ Reloaded(d, a).loads = asked.loads
        /\ Reloaded(d, a).reminder = asked.reminder
    BY <1>3, <2>1 DEF Details
  <2> QED BY <1>1, <1>3, <2>2, <2>3
<1>7. CASE a # 0
  BY <1>1, <1>3, <1>4, <1>7 DEF Details
<1> QED BY <1>6, <1>7

LEMMA Reminds ==
  ASSUME NEW d \in Details, NEW a
  PROVE  /\ Reminded(d, a) \in Details /\ Reminded(d, a).state = d.state
         /\ Reminded(d, a).loads = d.loads /\ Reminded(d, a).reminder = HasReminder(a)
<1>1. HasReminder(a) \in BOOLEAN
  BY DEF HasReminder
<1> QED BY <1>1 DEF Reminded, Details

LEMMA Nones ==
  ASSUME EnrolmentPagesAssumption, ServerPart
  PROVE  /\ NoDetail \in Details /\ NoDetail.state = "none" /\ NoDetail.loads = {}
         /\ NoProgress \in Progresses
         /\ NoReceipt \in Receipts /\ [NoReceipt EXCEPT !.late = due] \in Receipts
<1>1. 0 \in Numbers /\ 0 \in StockAnswers /\ "PUBLISHED" \in DetailAnswers
  BY DEF Numbers, StockAnswers, DetailAnswers, EnrolmentPagesAssumption
<1>2. NoDetail \in Details /\ NoDetail.state = "none" /\ NoDetail.loads = {}
  BY <1>1 DEF NoDetail, Details
<1>3. NoProgress \in Progresses
  BY DEF NoProgress, Progresses
<1>4. NoReceipt \in Receipts
  BY DEF NoReceipt, Receipts
<1>5. [NoReceipt EXCEPT !.late = due] \in Receipts
  BY <1>4 DEF Receipts, ServerPart
<1> QED BY <1>2, <1>3, <1>4, <1>5

LEMMA Follows ==
  ASSUME EnrolmentPagesAssumption, NEW p \in Progresses, NEW r \in Ids
  PROVE  /\ Followed(p, r) \in Progresses
         /\ Followed(p, r).loads = {[what |-> "status", of |-> r]}
<1>1. r # 0 /\ Load("status", r) = {[what |-> "status", of |-> r]}
  BY Loads DEF Ids
<1>2. (p.error \/ r = 0) \in BOOLEAN /\ (p.loading /\ r # 0) \in BOOLEAN
  OBVIOUS
<1>3. {} \cup Load("status", r) \subseteq [what : {"status", "lookup"}, of : Ids]
  BY <1>1
<1> QED BY <1>1, <1>2, <1>3 DEF Followed, Inactive, Progresses

LEMMA Fetches ==
  ASSUME EnrolmentPagesAssumption, NEW b \in Receipts, NEW r \in Ids
  PROVE  /\ Fetched(b, r) \in Receipts
         /\ Fetched(b, r).loads = {[what |-> "order", of |-> r]}
         /\ Fetched(b, r).loading /\ ~Fetched(b, r).error
         /\ Fetched(b, r).shown = b.shown /\ Fetched(b, r).status = b.status
<1>1. r # 0 /\ Load("order", r) = {[what |-> "order", of |-> r]}
  BY Loads DEF Ids
<1>2. (r # 0) = TRUE /\ (r = 0) = FALSE
  BY <1>1
<1>3. Fetched(b, r) = [b EXCEPT !.loads = Load("order", r), !.loading = TRUE, !.error = FALSE]
  BY <1>2 DEF Fetched, Inactive
<1>4. Load("order", r) \in SUBSET [what : {"order", "activity"}, of : Ids]
  BY <1>1
<1>5. Fetched(b, r) \in Receipts
  BY <1>3, <1>4 DEF Receipts
<1> QED BY <1>1, <1>3, <1>5 DEF Receipts
-------------------------------------------------------------------------------
(* Going from page to page.                                                *)

\* The parts of the invariant that are about the pages.
PageParts == DetailPart /\ ProgressPart /\ ReceiptPart

LEMMA Mounts ==
  ASSUME Inductive, NEW to \in Addresses, Mount(to),
         to.page = "activity" => signedIn' = signedIn, UNCHANGED <<rows, reminders, strayed>>
  PROVE  PageParts' /\ at' \in Addresses
<1> USE DEF Inductive
<1>1. /\ at' = to
      /\ detail' = IF to.page = "activity" THEN Reminded(Reloaded(NoDetail, to.id), to.id) ELSE NoDetail
      /\ progress' = IF to.page = "status" THEN Followed(NoProgress, to.id) ELSE NoProgress
      /\ receipt' = IF to.page = "order" THEN Fetched([NoReceipt EXCEPT !.late = due], to.id) ELSE NoReceipt
  BY DEF Mount
<1>2. /\ to.page = "activity" => to.id \in Numbers
      /\ to.page \in {"status", "order"} => to.id \in Ids
  BY EnrolmentPagesAssumption, AddressParts
<1>3. DetailPart'
  <2>1. CASE to.page = "activity"
    <3> DEFINE d == Reloaded(NoDetail, to.id)
    <3>1. /\ d \in Details /\ d.state \in {"loading", "missing"}
          /\ \A l \in d.loads : l.of = to.id
      BY <1>2, <2>1, EnrolmentPagesAssumption, Nones, Reloads
    <3> HIDE DEF d
    <3>2. /\ detail' \in Details /\ detail'.state = d.state /\ detail'.loads = d.loads
          /\ detail'.reminder = HasReminder(to.id)
      BY <1>1, <2>1, <3>1, Reminds DEF d
    <3>3. HasReminder(to.id)' = HasReminder(to.id)
      BY <2>1 DEF HasReminder
    <3> QED BY <1>1, <2>1, <3>1, <3>2, <3>3 DEF DetailPart, HasReminder
  <2>2. CASE to.page # "activity"
    <3>1. detail' \in Details /\ detail'.state = "none" /\ detail'.loads = {}
      BY <1>1, <2>2, EnrolmentPagesAssumption, Nones
    <3> QED BY <1>1, <2>2, <3>1 DEF DetailPart
  <2> QED BY <2>1, <2>2
<1>4. ProgressPart'
  <2>1. CASE to.page = "status"
    <3>1. progress' \in Progresses /\ progress'.loads = {[what |-> "status", of |-> to.id]}
      BY <1>1, <1>2, <2>1, EnrolmentPagesAssumption, Nones, Follows
    <3>2. /\ \A l, m \in progress'.loads : l = m
          /\ \A l \in progress'.loads : l.what = "status"
          /\ progress'.loads # {}
      BY <3>1, OneLoad
    <3> QED BY <1>1, <2>1, <3>1, <3>2 DEF ProgressPart, QueuingIsPolled
  <2>2. CASE to.page # "status"
    <3>1. progress' = NoProgress /\ progress' \in Progresses /\ progress'.loads = {}
      BY <1>1, <2>2, EnrolmentPagesAssumption, Nones DEF NoProgress
    <3> QED BY <1>1, <2>2, <3>1 DEF ProgressPart, QueuingIsPolled
  <2> QED BY <2>1, <2>2
<1>5. ReceiptPart'
  <2>1. CASE to.page = "order"
    <3> DEFINE b == [NoReceipt EXCEPT !.late = due]
    <3>1. b \in Receipts /\ b.status = "none"
      BY EnrolmentPagesAssumption, Nones DEF NoReceipt
    <3> HIDE DEF b
    <3>2. /\ receipt' \in Receipts /\ receipt'.loads = {[what |-> "order", of |-> to.id]}
          /\ receipt'.loading /\ receipt'.status = "none"
      BY <1>1, <1>2, <2>1, <3>1, EnrolmentPagesAssumption, Fetches DEF b
    <3>3. \A l \in receipt'.loads : l.of = to.id /\ l.what = "order"
      BY <3>2, OneLoad
    <3> QED BY <1>1, <2>1, <3>2, <3>3 DEF ReceiptPart, PaidWasPaid
  <2>2. CASE to.page # "order"
    <3>1. receipt' \in Receipts /\ receipt'.loads = {} /\ receipt'.status = "none"
      BY <1>1, <2>2, EnrolmentPagesAssumption, Nones DEF NoReceipt
    <3> QED BY <1>1, <2>2, <3>1 DEF ReceiptPart, PaidWasPaid
  <2> QED BY <2>1, <2>2
<1> QED BY <1>1, <1>3, <1>4, <1>5 DEF PageParts

\* The polling effect starts over, or the tab is on another page.
LEMMA FollowedAgain ==
  ASSUME Inductive, NEW to \in Addresses, to.page = at.page, at' = to,
         progress' = IF to.page = "status" THEN Followed(progress, to.id) ELSE progress
  PROVE  ProgressPart'
<1> USE DEF Inductive
<1>1. CASE to.page = "status"
  <2>1. to.id \in Ids /\ progress \in Progresses
    BY <1>1, EnrolmentPagesAssumption, AddressParts DEF ProgressPart
  <2>2. progress' \in Progresses /\ progress'.loads = {[what |-> "status", of |-> to.id]}
    BY <1>1, <2>1, EnrolmentPagesAssumption, Follows
  <2>3. /\ \A l, m \in progress'.loads : l = m
        /\ \A l \in progress'.loads : l.what = "status"
        /\ progress'.loads # {}
    <3>1. PICK loads : loads = progress'.loads
      OBVIOUS
    <3>2. loads = {[what |-> "status", of |-> to.id]}
      BY <2>2, <3>1
    <3>3. (\A l, m \in loads : l = m) /\ (\A l \in loads : l.what = "status") /\ loads # {}
      BY <3>2, OneLoad
    <3> QED BY <3>1, <3>3
  <2> QED BY <1>1, <2>2, <2>3 DEF ProgressPart, QueuingIsPolled
<1>2. CASE to.page # "status"
  BY <1>2 DEF ProgressPart, QueuingIsPolled
<1> QED BY <1>1, <1>2

\* The loading effect of the order page starts over.
LEMMA FetchedAgain ==
  ASSUME Inductive, NEW to \in Addresses, to.page = at.page, at' = to,
         receipt' = IF to.page = "order" THEN Fetched(receipt, to.id) ELSE receipt,
         UNCHANGED <<rows, strayed>>
  PROVE  ReceiptPart'
<1> USE DEF Inductive
<1>1. CASE to.page = "order"
  <2>1. to.id \in Ids /\ receipt \in Receipts
    BY <1>1, EnrolmentPagesAssumption, AddressParts DEF ReceiptPart
  <2>2. /\ receipt' \in Receipts /\ receipt'.loads = {[what |-> "order", of |-> to.id]}
        /\ receipt'.loading /\ receipt'.shown = receipt.shown /\ receipt'.status = receipt.status
    BY <1>1, <2>1, EnrolmentPagesAssumption, Fetches
  <2>3. \A l \in receipt'.loads : l.of = to.id /\ l.what = "order"
    BY <2>2, OneLoad
  <2> QED BY <1>1, <2>2, <2>3 DEF ReceiptPart, PaidWasPaid
<1>2. CASE to.page # "order"
  BY <1>2 DEF ReceiptPart, PaidWasPaid
<1> QED BY <1>1, <1>2

\* The same component with another id: the loads before are dropped.
LEMMA Readdresses ==
  ASSUME Inductive, NEW to \in Addresses, to.page = at.page, Readdress(to),
         UNCHANGED <<rows, reminders, signedIn, strayed>>
  PROVE  PageParts' /\ at' \in Addresses
<1> USE DEF Inductive
<1>1. /\ at' = to
      /\ detail' = IF to.page = "activity" THEN Reminded(Reloaded(detail, to.id), to.id) ELSE detail
      /\ progress' = IF to.page = "status" THEN Followed(progress, to.id) ELSE progress
      /\ receipt' = IF to.page = "order" THEN Fetched(receipt, to.id) ELSE receipt
  BY DEF Readdress
<1>2. DetailPart'
  <2>1. CASE to.page = "activity"
    <3> DEFINE d == Reloaded(detail, to.id)
    <3>1. detail \in Details /\ to.id \in Numbers
      BY <2>1, EnrolmentPagesAssumption, AddressParts DEF DetailPart
    <3>2. /\ d \in Details /\ d.state \in {"loading", "missing"}
          /\ \A l \in d.loads : l.of = to.id
      BY <3>1, EnrolmentPagesAssumption, Reloads
    <3> HIDE DEF d
    <3>3. /\ detail' \in Details /\ detail'.state = d.state /\ detail'.loads = d.loads
          /\ detail'.reminder = HasReminder(to.id)
      BY <1>1, <2>1, <3>2, Reminds DEF d
    <3>4. HasReminder(to.id)' = HasReminder(to.id)
      BY DEF HasReminder
    <3> QED BY <1>1, <2>1, <3>2, <3>3, <3>4 DEF DetailPart, HasReminder
  <2>2. CASE to.page # "activity"
    BY <1>1, <2>2 DEF DetailPart
  <2> QED BY <2>1, <2>2
<1>3. ProgressPart'
  BY <1>1, FollowedAgain
<1>4. ReceiptPart'
  BY <1>1, FetchedAgain
<1> QED BY <1>1, <1>2, <1>3, <1>4 DEF PageParts

LEMMA LoadsAgain ==
  ASSUME Inductive, LoadAgain
  PROVE  Inductive'
<1> USE DEF Inductive
<1>1. /\ detail' = IF at.page = "activity" THEN Reloaded(detail, at.id) ELSE detail
      /\ progress' = IF at.page = "status" THEN Followed(progress, at.id) ELSE progress
      /\ receipt' = IF at.page = "order" THEN Fetched(receipt, at.id) ELSE receipt
      /\ UNCHANGED <<trip, clock, rows, due, reminders, signedIn, at, calls, strayed>>
  BY DEF LoadAgain, serverVars
<1>2. at \in Addresses
  BY DEF ServerPart
<1>3. DetailPart'
  <2>1. CASE at.page = "activity"
    <3>1. detail \in Details /\ at.id \in Numbers
      BY <1>2, <2>1, EnrolmentPagesAssumption, AddressParts DEF DetailPart
    <3>2. /\ detail' \in Details /\ detail'.state \in {"loading", "missing"}
          /\ \A l \in detail'.loads : l.of = at.id
          /\ detail'.reminder = detail.reminder
      BY <1>1, <2>1, <3>1, EnrolmentPagesAssumption, Reloads
    <3> QED BY <1>1, <2>1, <3>2 DEF DetailPart, HasReminder
  <2>2. CASE at.page # "activity"
    BY <1>1, <2>2 DEF DetailPart, HasReminder
  <2> QED BY <2>1, <2>2
<1>4. ProgressPart'
  BY <1>1, <1>2, FollowedAgain
<1>5. ReceiptPart'
  BY <1>1, <1>2, FetchedAgain
<1>6. ServerPart' /\ CallPart'
  BY <1>1 DEF ServerPart, CallPart, Truthful
<1> QED BY <1>1, <1>3, <1>4, <1>5, <1>6
-------------------------------------------------------------------------------
\* Calls that the tab leaves behind go on.
LEMMA LeftBehind ==
  ASSUME NEW under, under \subseteq Calls, \A c \in under : Truthful(c), UNCHANGED rows,
         calls' = under \/ calls' = {[c EXCEPT !.here = FALSE] : c \in under}
  PROVE  CallPart'
<1>1. CASE calls' = under
  BY <1>1 DEF CallPart, Truthful
<1>2. CASE calls' = {[c EXCEPT !.here = FALSE] : c \in under}
  <2> SUFFICES ASSUME NEW k \in calls' PROVE k \in Calls /\ Truthful(k)'
    BY DEF CallPart
  <2>1. PICK c \in under : k = [c EXCEPT !.here = FALSE]
    BY <1>2
  <2>2. c \in Calls /\ Truthful(c)
    BY <2>1
  <2>3. k \in Calls /\ k.what = c.what /\ k.row = c.row
    BY <2>1, <2>2 DEF Calls
  <2> QED BY <2>2, <2>3 DEF Truthful
<1> QED BY <1>1, <1>2

\* Wherever a link, the history or an answer leads.
LEMMA Goes ==
  ASSUME Inductive, NEW to \in Addresses, NEW under, under \subseteq Calls,
         \A c \in under : Truthful(c), Go(to, under),
         UNCHANGED <<serverVars, reminders, signedIn, strayed>>
  PROVE  Inductive'
<1>1. Led(to) \in Addresses
  BY DEF Led, Addresses
<1>2. UNCHANGED <<clock, rows, due, reminders, signedIn, strayed>>
  BY DEF serverVars
<1>3. CASE Led(to) = at
  <2>1. UNCHANGED <<at, detail, progress, receipt>> /\ calls' = under
    BY <1>3 DEF Go, pageVars
  <2>2. CallPart'
    BY <1>2, <2>1, LeftBehind
  <2> QED BY <1>2, <2>1, <2>2 DEF Inductive, ServerPart, DetailPart, HasReminder, ProgressPart,
                              QueuingIsPolled, ReceiptPart, PaidWasPaid
<1>4. CASE Led(to) # at
  <2>1. /\ \/ Led(to).page = at.page /\ Readdress(Led(to))
           \/ Mount(Led(to))
        /\ calls' = under \/ calls' = {[c EXCEPT !.here = FALSE] : c \in under}
    BY <1>4 DEF Go
  <2>2. CallPart'
    BY <1>2, <2>1, LeftBehind
  <2>3. PageParts' /\ at' \in Addresses
    BY <1>1, <1>2, <2>1, Readdresses, Mounts
  <2>4. ServerPart'
    BY <1>2, <2>3 DEF Inductive, ServerPart
  <2> QED BY <1>2, <2>2, <2>3, <2>4 DEF Inductive, PageParts
<1> QED BY <1>3, <1>4
-------------------------------------------------------------------------------
(* The activity page.                                                      *)

\* A step of the activity page that loads nothing new and shows what it did.
LEMMA DetailKept ==
  ASSUME Inductive, detail' \in Details,
         detail'.state = detail.state, detail'.shown = detail.shown,
         detail'.stockOf = detail.stockOf, detail'.reminder = detail.reminder,
         detail'.loads \subseteq detail.loads, UNCHANGED <<at, reminders, signedIn>>
  PROVE  DetailPart'
  BY DEF Inductive, DetailPart, HasReminder

\* A step of the activity page and of nothing else.
LEMMA OnlyDetail ==
  ASSUME Inductive, DetailPart',
         UNCHANGED <<serverVars, reminders, signedIn, at, progress, receipt, calls, strayed>>
  PROVE  Inductive'
<1>1. UNCHANGED <<clock, rows, due, reminders, signedIn, at, progress, receipt, calls, strayed>>
  BY DEF serverVars
<1> QED BY <1>1 DEF Inductive, ServerPart, ProgressPart, QueuingIsPolled, ReceiptPart, PaidWasPaid,
                    CallPart, Truthful

LEMMA DetailArrives ==
  ASSUME Inductive, NEW l \in detail.loads, NEW status \in DetailAnswers, NEW n \in StockAnswers,
         DetailArrived(l, status, n)
  PROVE  Inductive'
<1> DEFINE loads == (detail.loads \ {l}) \cup Load("stock", l.of)
           d == [detail EXCEPT !.state = "ready", !.shown = l.of, !.status = status,
                               !.stock = n, !.stockOf = l.of, !.polls = 0, !.loads = loads]
<1>1. InDetail(d)
  BY DEF DetailArrived
<1>2. /\ detail \in Details /\ l.of \in Activities /\ at.page = "activity" /\ l.of = at.id
      /\ \A k \in detail.loads : k.of = at.id
      /\ detail.state # "none"
      /\ detail.reminder = HasReminder(at.id)
  BY DEF Inductive, DetailPart, Details
<1>3. /\ loads \subseteq [what : {"detail", "stock"}, of : Activities]
      /\ \A k \in loads : k.of = at.id
  <2>1. l.of # 0
    BY <1>2, EnrolmentPagesAssumption DEF EnrolmentPagesAssumption
  <2>2. Load("stock", l.of) = {[what |-> "stock", of |-> l.of]}
    BY <2>1, Loads
  <2> QED BY <1>2, <2>2 DEF Details
<1> HIDE DEF loads
<1>4. d \in Details
  <2> DEFINE half == [detail EXCEPT !.state = "ready", !.shown = l.of, !.status = status]
             most == [half EXCEPT !.stock = n, !.stockOf = l.of]
  <2>1. half \in Details
    BY <1>2 DEF Details, Numbers
  <2>2. most \in Details
    <3> HIDE DEF half
    <3> QED BY <1>2, <2>1 DEF Details, Numbers
  <2>3. d = [most EXCEPT !.polls = 0, !.loads = loads]
    BY <1>2 DEF Details
  <2> HIDE DEF most, d
  <2> QED BY <1>3, <2>2, <2>3 DEF Details
<1>5. /\ d.state = "ready" /\ d.shown = l.of /\ d.stockOf = l.of /\ d.loads = loads
      /\ d.reminder = detail.reminder
  BY <1>2 DEF Details
<1> HIDE DEF d
<1>6. /\ detail' = Rendered(d)
      /\ UNCHANGED <<serverVars, reminders, signedIn, at, progress, receipt, calls, strayed>>
  BY <1>1 DEF InDetail
<1>7. /\ detail' \in Details /\ detail'.state = "ready" /\ detail'.shown = at.id
      /\ detail'.stockOf = at.id /\ detail'.loads = loads /\ detail'.reminder = HasReminder(at.id)
  BY <1>2, <1>4, <1>5, <1>6, Renders DEF Inductive
<1>8. DetailPart'
  BY <1>2, <1>3, <1>6, <1>7 DEF DetailPart, HasReminder
<1> QED BY <1>6, <1>8, OnlyDetail

LEMMA DetailFails ==
  ASSUME Inductive, NEW l \in detail.loads, NEW state \in {"missing", "error"}, DetailFailed(l, state)
  PROVE  Inductive'
<1> DEFINE half == [detail EXCEPT !.state = state, !.shown = 0, !.stockOf = 0, !.stock = 0]
           most == [half EXCEPT !.status = "PUBLISHED", !.era = "closed"]
           d == [detail EXCEPT !.state = state, !.shown = 0, !.stockOf = 0, !.stock = 0,
                               !.status = "PUBLISHED", !.era = "closed", !.polls = 0,
                               !.loads = @ \ {l}]
<1>1. InDetail(d)
  BY DEF DetailFailed
<1>2. /\ detail \in Details /\ at.page = "activity" /\ \A k \in detail.loads : k.of = at.id
      /\ detail.reminder = HasReminder(at.id)
  BY DEF Inductive, DetailPart
<1>3. 0 \in Numbers /\ 0 \in StockAnswers /\ "PUBLISHED" \in DetailAnswers
  BY EnrolmentPagesAssumption DEF Numbers, StockAnswers, DetailAnswers, EnrolmentPagesAssumption
<1>4. half \in Details
  BY <1>2, <1>3 DEF Details
<1>5. most \in Details
  <2> HIDE DEF half
  <2> QED BY <1>3, <1>4 DEF Details
<1>6. d = [most EXCEPT !.polls = 0, !.loads = detail.loads \ {l}]
  BY <1>2 DEF Details
<1>7. /\ d.state = state /\ d.loads = detail.loads \ {l} /\ d.reminder = detail.reminder
  BY <1>2 DEF Details
<1>8. d \in Details
  <2>1. detail.loads \ {l} \in SUBSET [what : {"detail", "stock"}, of : Activities]
    BY <1>2 DEF Details
  <2> HIDE DEF most, d
  <2> QED BY <1>5, <1>6, <2>1 DEF Details
<1> HIDE DEF d, half, most
<1>9. /\ detail' = Rendered(d)
      /\ UNCHANGED <<serverVars, reminders, signedIn, at, progress, receipt, calls, strayed>>
  BY <1>1 DEF InDetail
<1>10. /\ detail' \in Details /\ detail'.state = state
       /\ detail'.loads = detail.loads \ {l} /\ detail'.reminder = HasReminder(at.id)
  BY <1>2, <1>7, <1>8, <1>9, Renders DEF Inductive
<1>11. DetailPart'
  BY <1>2, <1>9, <1>10 DEF DetailPart, HasReminder
<1> QED BY <1>9, <1>11, OnlyDetail

\* A stock answer is about what the page shows, once it is ready.
LEMMA StockSteps ==
  ASSUME Inductive,
         \/ \E l \in detail.loads, n \in StockAnswers : StockArrived(l, n)
         \/ \E n \in StockAnswers : PollArrived(n)
         \/ Poll \/ StockFailed
  PROVE  Inductive'
<1>1. detail \in Details /\ DetailPart
  BY DEF Inductive, DetailPart
<1>2. ASSUME NEW l \in detail.loads, NEW n \in StockAnswers, StockArrived(l, n) PROVE Inductive'
  <2> DEFINE d == [detail EXCEPT !.stock = n, !.stockOf = l.of, !.loads = @ \ {l}]
  <2>1. l.of \in Activities /\ l.of = at.id
    BY <1>1 DEF DetailPart, Details
  <2>2. d \in Details
    BY <1>1, <2>1 DEF Details, Numbers
  <2>3. /\ d.state = detail.state /\ d.shown = detail.shown /\ d.stockOf = at.id
        /\ d.loads \subseteq detail.loads /\ d.reminder = detail.reminder
    BY <1>1, <2>1 DEF Details
  <2>4. InDetail(d)
    BY <1>2 DEF StockArrived
  <2> HIDE DEF d
  <2>5. /\ detail' = Rendered(d)
        /\ UNCHANGED <<serverVars, reminders, signedIn, at, progress, receipt, calls, strayed>>
    BY <2>4 DEF InDetail
  <2>6. /\ detail' \in Details /\ detail'.state = detail.state /\ detail'.shown = detail.shown
        /\ detail'.stockOf = at.id /\ detail'.loads \subseteq detail.loads
        /\ detail'.reminder = detail.reminder
    BY <2>2, <2>3, <2>5, Renders DEF Inductive
  <2>7. DetailPart'
    BY <1>1, <2>5, <2>6 DEF DetailPart, HasReminder
  <2> QED BY <2>5, <2>7, OnlyDetail
<1>3. ASSUME NEW n \in StockAnswers, PollArrived(n) PROVE Inductive'
  <2> DEFINE d == [detail EXCEPT !.stock = n, !.stockOf = detail.shown, !.polls = @ - 1]
  <2>1. detail.polls - 1 \in Nat
    <3>1. detail.polls \in Nat /\ detail.polls > 0
      BY <1>1, <1>3 DEF PollArrived, Details
    <3> QED BY <3>1
  <2>2. d \in Details
    BY <1>1, <2>1 DEF Details
  <2>3. /\ d.state = detail.state /\ d.shown = detail.shown /\ d.stockOf = detail.shown
        /\ d.loads = detail.loads /\ d.reminder = detail.reminder
    BY <1>1 DEF Details
  <2>4. InDetail(d)
    BY <1>3 DEF PollArrived
  <2> HIDE DEF d
  <2>5. /\ detail' = Rendered(d)
        /\ UNCHANGED <<serverVars, reminders, signedIn, at, progress, receipt, calls, strayed>>
    BY <2>4 DEF InDetail
  <2>6. /\ detail' \in Details /\ detail'.state = detail.state /\ detail'.shown = detail.shown
        /\ detail'.stockOf = detail.shown /\ detail'.loads = detail.loads
        /\ detail'.reminder = detail.reminder
    BY <2>2, <2>3, <2>5, Renders DEF Inductive
  <2>7. DetailPart'
    BY <1>1, <2>5, <2>6 DEF DetailPart, HasReminder
  <2> QED BY <2>5, <2>7, OnlyDetail
<1>4. CASE Poll \/ StockFailed
  <2>1. UNCHANGED <<serverVars, reminders, signedIn, at, progress, receipt, calls, strayed>>
    BY <1>4 DEF Poll, StockFailed
  <2>2. /\ detail' \in Details /\ detail'.state = detail.state /\ detail'.shown = detail.shown
        /\ detail'.stockOf = detail.stockOf /\ detail'.loads \subseteq detail.loads
        /\ detail'.reminder = detail.reminder
    <3>1. CASE detail' = [detail EXCEPT !.polls = @ + 1]
      BY <1>1, <3>1 DEF Details
    <3>2. CASE detail.polls > 0 /\ detail' = [detail EXCEPT !.polls = @ - 1]
      BY <1>1, <3>2 DEF Details
    <3>3. CASE \E l \in detail.loads : detail' = [detail EXCEPT !.loads = @ \ {l}]
      BY <1>1, <3>3 DEF Details
    <3> QED BY <1>4, <3>1, <3>2, <3>3 DEF Poll, StockFailed
  <2>3. DetailPart'
    BY <2>1, <2>2, DetailKept
  <2> QED BY <2>1, <2>3, OnlyDetail
<1> QED BY <1>2, <1>3, <1>4

\* The button stores the reminder that it then says is set.
LEMMA RemindStep ==
  ASSUME Inductive, Remind
  PROVE  Inductive'
<1> DEFINE d == [detail EXCEPT !.reminder = TRUE]
<1>1. /\ Button = "upcoming" /\ signedIn
      /\ reminders' = reminders \cup {detail.shown}
      /\ detail' = Rendered(d)
      /\ UNCHANGED <<trip, clock, rows, due, signedIn, at, progress, receipt, calls, strayed>>
  BY DEF Remind, SaveActivityReminder, serverVars
<1>2. detail \in Details /\ DetailPart
  BY DEF Inductive, DetailPart
<1>3. Painted # {}
  BY <1>1 DEF Button
<1>4. detail.state = "ready" /\ detail.shown # 0
  BY <1>3 DEF Painted
<1>5. at.page = "activity" /\ detail.shown = at.id /\ detail.shown \in Activities
  BY <1>2, <1>4 DEF DetailPart, Details, Numbers
<1>6. /\ d \in Details /\ d.state = detail.state /\ d.shown = detail.shown
      /\ d.stockOf = detail.stockOf /\ d.loads = detail.loads /\ d.reminder = TRUE
  BY <1>2 DEF Details
<1> HIDE DEF d
<1>7. /\ detail' \in Details /\ detail'.state = detail.state /\ detail'.shown = detail.shown
      /\ detail'.stockOf = detail.stockOf /\ detail'.loads = detail.loads
      /\ detail'.reminder = TRUE
  BY <1>1, <1>6, Renders DEF Inductive
<1>8. HasReminder(at.id)' = TRUE
  BY <1>1, <1>5 DEF HasReminder
<1>9. DetailPart'
  BY <1>1, <1>2, <1>7, <1>8 DEF DetailPart
<1>10. reminders' \subseteq Activities
  BY <1>1, <1>5 DEF Inductive, ServerPart
<1> QED BY <1>1, <1>9, <1>10 DEF Inductive, ServerPart, ProgressPart, QueuingIsPolled, ReceiptPart,
                                  PaidWasPaid, CallPart, Truthful

LEMMA EnrolStep ==
  ASSUME Inductive, Enrol
  PROVE  Inductive'
<1> DEFINE d == [detail EXCEPT !.submitting = TRUE]
           c == [what |-> "enrol", of |-> detail.shown, row |-> 0, here |-> TRUE]
<1>1. /\ detail' = Rendered(d) /\ calls' = calls \cup {c}
      /\ UNCHANGED <<trip, clock, rows, due, reminders, signedIn, at, progress, receipt, strayed>>
  BY DEF Enrol, serverVars
<1>2. detail \in Details
  BY DEF Inductive, DetailPart
<1>3. c \in Calls /\ c.what = "enrol"
  BY <1>2 DEF Calls, Details
<1>4. /\ d \in Details /\ d.state = detail.state /\ d.shown = detail.shown
      /\ d.stockOf = detail.stockOf /\ d.loads = detail.loads /\ d.reminder = detail.reminder
  BY <1>2 DEF Details
<1> HIDE DEF c, d
<1>5. DetailPart'
  <2>1. /\ detail' \in Details /\ detail'.state = detail.state /\ detail'.shown = detail.shown
        /\ detail'.stockOf = detail.stockOf /\ detail'.loads = detail.loads
        /\ detail'.reminder = detail.reminder
    BY <1>1, <1>4, Renders DEF Inductive
  <2> QED BY <1>1, <2>1, DetailKept
<1>6. CallPart'
  BY <1>1, <1>3 DEF Inductive, CallPart, Truthful
<1> QED BY <1>1, <1>5, <1>6 DEF Inductive, ServerPart, ProgressPart, QueuingIsPolled, ReceiptPart,
                               PaidWasPaid

LEMMA ActivitySteps ==
  ASSUME Inductive, OnActivity
  PROVE  Inductive'
<1>1. CASE AskToSignIn
  <2>1. Go(Elsewhere, calls) /\ UNCHANGED <<serverVars, reminders, signedIn, strayed>>
    BY <1>1 DEF AskToSignIn
  <2>2. Elsewhere \in Addresses /\ calls \subseteq Calls /\ \A c \in calls : Truthful(c)
    BY DEF Addresses, Inductive, CallPart
  <2> QED BY <2>1, <2>2, Goes
<1>2. ASSUME NEW l \in detail.loads, NEW status \in DetailAnswers, NEW n \in StockAnswers,
             DetailArrived(l, status, n) \/ StockArrived(l, n)
      PROVE  Inductive'
  BY <1>2, DetailArrives, StockSteps
<1>3. ASSUME NEW l \in detail.loads, DetailFailed(l, "missing") \/ DetailFailed(l, "error")
      PROVE  Inductive'
  BY <1>3, DetailFails
<1> QED BY <1>1, <1>2, <1>3, StockSteps, RemindStep, EnrolStep DEF OnActivity
-------------------------------------------------------------------------------
(* Moving about, and calls that are answered.                              *)

LEMMA MoveSteps ==
  ASSUME Inductive, Moves
  PROVE  Inductive'
<1>1. calls \subseteq Calls /\ \A c \in calls : Truthful(c)
  BY DEF Inductive, CallPart
<1>2. ASSUME NEW to \in Addresses, Follow(to) \/ Jump(to) PROVE Inductive'
  <2>1. Go(to, calls) /\ UNCHANGED <<serverVars, reminders, signedIn, strayed>>
    BY <1>2 DEF Follow, Jump
  <2> QED BY <1>1, <2>1, Goes
<1>3. CASE SignOut
  <2>1. /\ signedIn' = FALSE /\ Mount(Elsewhere)
        /\ calls' = {[c EXCEPT !.here = FALSE] : c \in calls}
        /\ UNCHANGED <<trip, clock, rows, due, reminders, strayed>>
    BY <1>3 DEF SignOut, serverVars
  <2>2. Elsewhere \in Addresses /\ Elsewhere.page # "activity"
    BY DEF Addresses, Elsewhere, Address
  <2>3. PageParts' /\ at' \in Addresses
    BY <2>1, <2>2, Mounts
  <2>4. CallPart'
    BY <1>1, <2>1, LeftBehind
  <2> QED BY <2>1, <2>3, <2>4 DEF Inductive, PageParts, ServerPart
<1>4. CASE SignIn
  <2>1. /\ at = Elsewhere /\ signedIn' = TRUE
        /\ UNCHANGED <<trip, clock, rows, due, reminders, at, detail, progress, receipt, calls, strayed>>
    BY <1>4 DEF SignIn, serverVars, pageVars
  <2>2. at.page # "activity"
    BY <2>1 DEF Elsewhere, Address
  <2> QED BY <2>1, <2>2 DEF Inductive, ServerPart, DetailPart, ProgressPart, QueuingIsPolled,
                            ReceiptPart, PaidWasPaid, CallPart, Truthful
<1> QED BY <1>2, <1>3, <1>4, LoadsAgain DEF Moves
-------------------------------------------------------------------------------
(* The server's rows, and the calls that are answered.                     *)

\* Rows are added or change, and none that was paid is so no more.
Grown ==
  /\ rows' \in Seq(EnrolmentRows) /\ Len(rows') <= MaxRows /\ Len(rows) <= Len(rows')
  /\ \A r \in 1..Len(rows') : rows'[r].result = "QUEUING" => rows'[r].order = "none"
  /\ \A r \in 1..Len(rows) : rows[r].order = "PAID" => rows'[r].order = "PAID"

LEMMA Unpaid == ASSUME Inductive, UNCHANGED rows PROVE Grown
  BY DEF Inductive, ServerPart, Grown

LEMMA RowChanges ==
  ASSUME Inductive, NEW r \in 1..Len(rows), NEW row \in EnrolmentRows,
         row.result = "QUEUING" => row.order = "none",
         rows[r].order = "PAID" => row.order = "PAID", rows' = [rows EXCEPT ![r] = row]
  PROVE  Grown
<1>1. rows \in Seq(EnrolmentRows) /\ Len(rows) <= MaxRows
  BY DEF Inductive, ServerPart
<1>2. rows' \in Seq(EnrolmentRows) /\ Len(rows') = Len(rows)
  BY <1>1
<1>3. \A q \in 1..Len(rows) : rows'[q] = IF q = r THEN row ELSE rows[q]
  BY <1>1
<1>4. Len(rows) <= Len(rows')
  BY <1>1, <1>2
<1> QED BY <1>1, <1>2, <1>3, <1>4 DEF Grown, Inductive, ServerPart

LEMMA Accepts ==
  ASSUME Inductive, NEW c, NEW result, NEW order, Accept(c, result, order),
         [result |-> result, order |-> order] \in NewRows
  PROVE  Grown /\ Len(rows') \in 1..Len(rows') /\ Len(rows') \in Nat
<1> DEFINE row == [result |-> result, order |-> order]
<1>1. Len(rows) < MaxEnrolled /\ rows' = Append(rows, row)
  BY DEF Accept
<1>2. row \in EnrolmentRows /\ (row.result = "QUEUING" => row.order = "none")
  BY DEF NewRows, EnrolmentRows
<1> HIDE DEF row
<1>3. rows \in Seq(EnrolmentRows)
  BY DEF Inductive, ServerPart
<1>4. /\ rows' \in Seq(EnrolmentRows) /\ Len(rows') = Len(rows) + 1
      /\ \A r \in 1..Len(rows) : rows'[r] = rows[r]
      /\ rows'[Len(rows) + 1] = row
  BY <1>1, <1>2, <1>3
<1>5. Len(rows) \in Nat
  BY <1>3
<1>6. Len(rows') <= MaxRows /\ Len(rows) <= Len(rows') /\ Len(rows') \in 1..Len(rows')
  BY <1>1, <1>4, <1>5, EnrolmentPagesAssumption DEF EnrolmentPagesAssumption
<1>7. \A r \in 1..Len(rows') : r \in 1..Len(rows) \/ r = Len(rows) + 1
  BY <1>4, <1>5
<1> QED BY <1>2, <1>4, <1>5, <1>6, <1>7 DEF Grown, Inductive, ServerPart

\* What is true of a call, or of the order page, stays true.
LEMMA StillTrue ==
  ASSUME Inductive, Grown
  PROVE  /\ \A c \in Calls : Truthful(c) => Truthful(c)'
         /\ UNCHANGED <<receipt, at, strayed>> => ReceiptPart'
<1>1. rows \in Seq(EnrolmentRows) /\ Len(rows) \in Nat /\ Len(rows') \in Nat
  BY DEF Inductive, ServerPart, Grown
<1>2. 1..Len(rows) \subseteq 1..Len(rows')
  BY <1>1 DEF Grown
<1>3. ASSUME NEW c \in Calls, Truthful(c) PROVE Truthful(c)'
  BY <1>2, <1>3 DEF Truthful, Grown, Calls
<1>4. ASSUME UNCHANGED <<receipt, at, strayed>> PROVE ReceiptPart'
  <2>1. PaidWasPaid'
    <3>1. CASE receipt.status # "PAID" \/ strayed
      BY <1>4, <3>1 DEF PaidWasPaid
    <3>2. CASE receipt.status = "PAID" /\ ~strayed
      <4>1. receipt.shown \in 1..Len(rows) /\ rows[receipt.shown].order = "PAID"
        BY <3>2 DEF Inductive, ReceiptPart, PaidWasPaid
      <4>2. rows'[receipt.shown].order = "PAID"
        BY <4>1 DEF Grown
      <4> QED BY <1>4, <4>2 DEF PaidWasPaid
    <3> QED BY <3>1, <3>2
  <2> QED BY <1>2, <1>4, <2>1 DEF Inductive, ReceiptPart
<1> QED BY <1>3, <1>4

LEMMA CallsGo ==
  ASSUME Inductive, Grown, NEW new \in Calls, Truthful(new)', calls' \subseteq calls \cup {new}
  PROVE  CallPart'
  BY StillTrue DEF Inductive, CallPart

LEMMA CallsEnd ==
  ASSUME Inductive, Grown, calls' \subseteq calls
  PROVE  CallPart'
  BY StillTrue DEF Inductive, CallPart

LEMMA Tells ==
  ASSUME Inductive, NEW c, Told(c), UNCHANGED <<at, reminders, signedIn>>
  PROVE  DetailPart'
<1>1. CASE c.here
  <2> DEFINE d == [detail EXCEPT !.submitting = FALSE]
  <2>1. detail \in Details /\ detail' = Rendered(d)
    BY <1>1 DEF Inductive, DetailPart, Told
  <2>2. /\ d \in Details /\ d.state = detail.state /\ d.shown = detail.shown
        /\ d.stockOf = detail.stockOf /\ d.loads = detail.loads /\ d.reminder = detail.reminder
    BY <2>1 DEF Details
  <2> HIDE DEF d
  <2>3. /\ detail' \in Details /\ detail'.state = detail.state /\ detail'.shown = detail.shown
        /\ detail'.stockOf = detail.stockOf /\ detail'.loads = detail.loads
        /\ detail'.reminder = detail.reminder
    BY <2>1, <2>2, Renders DEF Inductive
  <2> QED BY <2>3, DetailKept
<1>2. CASE ~c.here
  BY <1>2 DEF Told, Inductive, DetailPart, HasReminder
<1> QED BY <1>1, <1>2

LEMMA EnrolSteps ==
  ASSUME Inductive, NEW c \in calls,
         \/ EnrolQueued(c) \/ EnrolPlaced(c) \/ EnrolFailed(c)
         \/ EnrolFollowed(c, "order") \/ EnrolFollowed(c, "status")
  PROVE  Inductive'
<1>1. c \in Calls /\ Truthful(c)
  BY DEF Inductive, CallPart
<1>2. /\ [result |-> "QUEUING", order |-> "none"] \in NewRows
      /\ [result |-> "SUCCESS", order |-> "PENDING"] \in NewRows
  BY DEF NewRows
<1>3. CASE EnrolQueued(c) \/ EnrolFailed(c)
  <2>1. /\ Told(c) /\ calls' = calls \ {c} /\ (UNCHANGED rows \/ Accept(c, "QUEUING", "none"))
        /\ UNCHANGED <<trip, clock, due, reminders, signedIn, at, progress, receipt, strayed>>
    BY <1>3 DEF EnrolQueued, EnrolFailed
  <2>2. Grown
    BY <1>2, <2>1, Unpaid, Accepts
  <2>3. DetailPart' /\ CallPart' /\ ReceiptPart'
    BY <2>1, <2>2, Tells, CallsEnd, StillTrue
  <2> QED BY <2>1, <2>2, <2>3 DEF Inductive, ServerPart, Grown, ProgressPart, QueuingIsPolled
<1>4. CASE EnrolPlaced(c)
  <2> DEFINE new == [c EXCEPT !.what = "lookup", !.row = Len(rows')]
  <2>1. /\ Accept(c, "SUCCESS", "PENDING") /\ calls' = (calls \ {c}) \cup {new}
        /\ UNCHANGED <<trip, clock, due, reminders, signedIn, at, detail, progress, receipt, strayed>>
    BY <1>4 DEF EnrolPlaced, pageVars
  <2>2. Grown /\ Len(rows') \in 1..Len(rows') /\ Len(rows') \in Nat
    BY <1>2, <2>1, Accepts
  <2>3. new \in Calls /\ new.what = "lookup" /\ new.row = Len(rows')
    BY <1>1, <2>2 DEF Calls
  <2> HIDE DEF new
  <2>4. \A k : k.what = "lookup" /\ k.row = Len(rows') => Truthful(k)'
    BY <2>2 DEF Truthful
  <2>5. PICK k \in Calls : k = new /\ Truthful(k)'
    BY <2>3, <2>4
  <2>6. DetailPart' /\ CallPart' /\ ReceiptPart'
    BY <2>1, <2>2, <2>5, CallsGo, StillTrue DEF Inductive, DetailPart, HasReminder
  <2> QED BY <2>1, <2>2, <2>6 DEF Inductive, ServerPart, Grown, ProgressPart, QueuingIsPolled
<1>5. ASSUME NEW page \in {"order", "status"}, EnrolFollowed(c, page) PROVE Inductive'
  <2>1. /\ c.what = "lookup" /\ Go(Address(page, c.row), calls \ {c})
        /\ UNCHANGED <<serverVars, reminders, signedIn, strayed>>
    BY <1>5 DEF EnrolFollowed
  <2>2. c.row \in Ids
    BY <1>1, <2>1, EnrolmentPagesAssumption
       DEF Truthful, Inductive, ServerPart, Ids, EnrolmentPagesAssumption
  <2>3. Address(page, c.row) \in Addresses
    BY <2>2 DEF Addresses
  <2>4. calls \ {c} \subseteq Calls /\ \A k \in calls \ {c} : Truthful(k)
    BY DEF Inductive, CallPart
  <2> QED BY <2>1, <2>3, <2>4, Goes
<1> QED BY <1>3, <1>4, <1>5

\* A payment that was served is one when its answer arrives.
LEMMA PaySteps ==
  ASSUME Inductive, NEW c \in calls, PayServed(c) \/ PayArrived(c) \/ PayFailed(c)
  PROVE  Inductive'
<1>1. c \in Calls /\ Truthful(c) /\ receipt \in Receipts /\ ReceiptPart /\ strayed \in BOOLEAN
  BY DEF Inductive, CallPart, ReceiptPart
<1>2. CASE PayServed(c)
  <2> DEFINE new == [c EXCEPT !.what = "paid"]
             row == [rows[c.row] EXCEPT !.order = "PAID"]
  <2>1. /\ c.what = "pay" /\ rows[c.row].order = "PENDING"
        /\ rows' = [rows EXCEPT ![c.row] = row] /\ calls' = (calls \ {c}) \cup {new}
        /\ UNCHANGED <<trip, clock, due, reminders, signedIn, at, detail, progress, receipt, strayed>>
    BY <1>2 DEF PayServed, pageVars
  <2>2. c.row \in 1..Len(rows)
    BY <1>1, <2>1 DEF Truthful
  <2>3. rows \in Seq(EnrolmentRows)
    BY DEF Inductive, ServerPart
  <2>4. rows[c.row] \in EnrolmentRows /\ rows[c.row].result # "QUEUING"
    BY <2>1, <2>2, <2>3 DEF Inductive, ServerPart
  <2>5. row \in EnrolmentRows /\ row.result # "QUEUING" /\ row.order = "PAID"
    BY <2>4 DEF EnrolmentRows
  <2> HIDE DEF row
  <2>6. Grown
    BY <2>1, <2>2, <2>5, RowChanges
  <2>7. rows'[c.row].order = "PAID" /\ c.row \in 1..Len(rows')
    BY <2>1, <2>2, <2>3, <2>5
  <2>8. new \in Calls /\ new.what = "paid" /\ new.row = c.row
    BY <1>1 DEF Calls
  <2> HIDE DEF new
  <2>9. \A k : k.what = "paid" /\ k.row = c.row => Truthful(k)'
    BY <2>7 DEF Truthful
  <2>10. PICK k \in Calls : k = new /\ Truthful(k)'
    BY <2>8, <2>9
  <2>11. DetailPart' /\ CallPart' /\ ReceiptPart'
    BY <2>1, <2>6, <2>10, CallsGo, StillTrue DEF Inductive, DetailPart, HasReminder
  <2> QED BY <2>1, <2>6, <2>11 DEF Inductive, ServerPart, Grown, ProgressPart, QueuingIsPolled
<1>3. CASE PayArrived(c) \/ PayFailed(c)
  <2>1. /\ calls' = calls \ {c}
        /\ UNCHANGED <<trip, clock, rows, due, reminders, signedIn, at, detail, progress>>
    BY <1>3 DEF PayArrived, PayFailed, serverVars
  <2>2. CallPart'
    BY <2>1, Unpaid, CallsEnd
  <2>3. ReceiptPart' /\ strayed' \in BOOLEAN
    <3>1. CASE ~c.here
      <4>1. receipt' = receipt /\ strayed' = strayed
        BY <1>1, <1>3, <3>1 DEF PayArrived, PayFailed
      <4> QED BY <1>1, <2>1, <4>1, Unpaid, StillTrue
    <3>2. CASE c.here /\ PayFailed(c)
      <4>1. receipt' = [receipt EXCEPT !.paying = FALSE] /\ strayed' = strayed
        BY <3>2 DEF PayFailed
      <4>2. /\ receipt' \in Receipts /\ receipt'.loads = receipt.loads
            /\ receipt'.shown = receipt.shown /\ receipt'.status = receipt.status
            /\ receipt'.loading = receipt.loading /\ receipt'.error = receipt.error
        BY <1>1, <4>1 DEF Receipts
      <4> QED BY <1>1, <2>1, <4>1, <4>2 DEF ReceiptPart, PaidWasPaid
    <3>3. CASE c.here /\ PayArrived(c)
      <4>1. /\ c.what = "paid"
            /\ receipt' = [receipt EXCEPT !.paying = FALSE, !.status = "PAID"]
            /\ strayed' = (strayed \/ (c.here /\ receipt.shown # c.row))
        BY <3>3 DEF PayArrived
      <4>2. /\ receipt' \in Receipts /\ receipt'.loads = receipt.loads
            /\ receipt'.shown = receipt.shown /\ receipt'.status = "PAID"
            /\ receipt'.loading = receipt.loading /\ receipt'.error = receipt.error
        BY <1>1, <4>1 DEF Receipts
      <4>3. strayed' \in BOOLEAN /\ (~strayed' => ~strayed /\ receipt.shown = c.row)
        BY <1>1, <3>3, <4>1
      <4>4. c.row \in 1..Len(rows) /\ rows[c.row].order = "PAID"
        BY <1>1, <4>1 DEF Truthful
      <4>5. PaidWasPaid'
        BY <2>1, <4>2, <4>3, <4>4 DEF PaidWasPaid
      <4> QED BY <1>1, <2>1, <4>2, <4>3, <4>4, <4>5 DEF ReceiptPart
    <3> QED BY <1>3, <3>1, <3>2, <3>3
  <2> QED BY <2>1, <2>2, <2>3 DEF Inductive, ServerPart, DetailPart, HasReminder, ProgressPart,
                                  QueuingIsPolled
<1> QED BY <1>2, <1>3
-------------------------------------------------------------------------------
(* The enrolment page, the order page and the server.                      *)

\* A step of the enrolment page and of nothing else.
LEMMA OnlyProgress ==
  ASSUME Inductive, NEW p, InProgress(p), ProgressPart'
  PROVE  Inductive'
<1>1. UNCHANGED <<clock, rows, due, reminders, signedIn, at, detail, receipt, calls, strayed>>
  BY DEF InProgress, serverVars
<1> QED BY <1>1 DEF Inductive, ServerPart, DetailPart, HasReminder, ReceiptPart, PaidWasPaid,
                    CallPart, Truthful

\* An answer is queuing and sets the timer, or ends the wait, or looks for
\* the order; an error ends it and says so.
LEMMA StatusSteps ==
  ASSUME Inductive, OnStatus
  PROVE  Inductive'
<1>1. /\ progress \in Progresses /\ ProgressPart
      /\ \A l, m \in progress.loads : l = m
      /\ \A l \in progress.loads : l.what = "lookup" => progress.result = "SUCCESS"
  BY DEF Inductive, ProgressPart
<1>2. progress.loads # {} \/ progress.timer => at.page = "status"
  BY <1>1 DEF ProgressPart, NoProgress
<1>3. ASSUME NEW l \in progress.loads, l.of \in 1..Len(rows), NEW result \in ResultsOf(l.of),
             StatusArrived(l, result)
      PROVE  Inductive'
  <2>1. result \in {"QUEUING", "SUCCESS", "FAILED"}
    <3>1. rows[l.of] \in EnrolmentRows
      BY <1>3 DEF Inductive, ServerPart
    <3> QED BY <1>3, <3>1 DEF ResultsOf, EnrolmentRows
  <2>2. l \in [what : {"status", "lookup"}, of : Ids] /\ l.of \in Nat
    BY <1>1 DEF Progresses, Ids
  <2> DEFINE told == [progress EXCEPT !.shown = l.of, !.result = result, !.error = FALSE]
  <2>3. told \in Progresses
    BY <1>1, <2>1, <2>2 DEF Progresses
  <2>4. told.result = result /\ told.loads = progress.loads /\ told.loading = progress.loading
    BY <1>1 DEF Progresses
  <2>5. \/ result = "SUCCESS" /\ InProgress([told EXCEPT !.loads = {[l EXCEPT !.what = "lookup"]}])
        \/ /\ result # "SUCCESS"
           /\ InProgress([told EXCEPT !.loads = @ \ {l}, !.loading = FALSE,
                                      !.timer = (result = "QUEUING")])
    BY <1>3 DEF StatusArrived
  <2> HIDE DEF told
  <2>6. CASE result = "SUCCESS" /\ InProgress([told EXCEPT !.loads = {[l EXCEPT !.what = "lookup"]}])
    <3> DEFINE one == [l EXCEPT !.what = "lookup"]
    <3>1. one \in [what : {"status", "lookup"}, of : Ids]
      BY <2>2
    <3> HIDE DEF one
    <3>2. progress' = [told EXCEPT !.loads = {one}] /\ at' = at
      BY <2>6 DEF InProgress, one
    <3>3. progress' \in Progresses /\ progress'.loads = {one} /\ progress'.result = "SUCCESS"
      BY <2>3, <2>4, <2>6, <3>1, <3>2 DEF Progresses
    <3>4. ProgressPart'
      BY <1>2, <3>2, <3>3 DEF ProgressPart, QueuingIsPolled
    <3> QED BY <2>6, <3>4, OnlyProgress
  <2>7. CASE /\ result # "SUCCESS"
             /\ InProgress([told EXCEPT !.loads = @ \ {l}, !.loading = FALSE,
                                        !.timer = (result = "QUEUING")])
    <3>1. progress' = [told EXCEPT !.loads = told.loads \ {l}, !.loading = FALSE,
                                   !.timer = (result = "QUEUING")] /\ at' = at
      BY <2>7 DEF InProgress
    <3>2. told.loads \ {l} = {}
      BY <1>1, <2>4
    <3>3. (result = "QUEUING") \in BOOLEAN
      OBVIOUS
    <3>4. /\ progress' \in Progresses /\ progress'.loads = {} /\ progress'.result = result
          /\ progress'.timer = (result = "QUEUING")
      BY <2>3, <2>4, <3>1, <3>2, <3>3 DEF Progresses
    <3>5. ProgressPart'
      BY <1>2, <3>1, <3>4 DEF ProgressPart, QueuingIsPolled
    <3> QED BY <2>7, <3>5, OnlyProgress
  <2> QED BY <2>5, <2>6, <2>7
<1>4. ASSUME NEW l \in progress.loads, NEW order \in Nat, OrderLookedUp(l, order) PROVE Inductive'
  <2>1. /\ l.what = "lookup" /\ at' = at
        /\ progress' = [progress EXCEPT !.order = order, !.loads = progress.loads \ {l}, !.loading = FALSE]
    BY <1>4 DEF OrderLookedUp, InProgress
  <2>2. progress.result = "SUCCESS" /\ progress.loads \ {l} = {}
    BY <1>1, <2>1
  <2>3. progress' \in Progresses /\ progress'.loads = {} /\ progress'.result = "SUCCESS"
    BY <1>1, <2>1, <2>2 DEF Progresses
  <2>4. ProgressPart'
    BY <1>2, <2>1, <2>3 DEF ProgressPart, QueuingIsPolled
  <2> QED BY <1>4, <2>4, OnlyProgress DEF OrderLookedUp
<1>5. ASSUME NEW l \in progress.loads, StatusFailed(l) PROVE Inductive'
  <2>1. /\ at' = at
        /\ progress' = [progress EXCEPT !.error = TRUE, !.loads = progress.loads \ {l}, !.loading = FALSE]
    BY <1>5 DEF StatusFailed, InProgress
  <2>2. progress.loads \ {l} = {}
    BY <1>1
  <2>3. progress' \in Progresses /\ progress'.loads = {} /\ progress'.error
    BY <1>1, <2>1, <2>2 DEF Progresses
  <2>4. ProgressPart'
    BY <1>2, <2>1, <2>3 DEF ProgressPart, QueuingIsPolled
  <2> QED BY <1>5, <2>4, OnlyProgress DEF StatusFailed
<1>6. ASSUME PollStatus PROVE Inductive'
  <2>1. /\ progress.timer /\ at' = at
        /\ progress' = [progress EXCEPT !.timer = FALSE, !.loads = Load("status", at.id)]
    BY <1>6 DEF PollStatus, InProgress
  <2>2. at.page = "status" /\ at.id \in Ids /\ at.id # 0
    BY <1>2, <2>1, EnrolmentPagesAssumption, AddressParts DEF Inductive, ServerPart
  <2>3. Load("status", at.id) = {[what |-> "status", of |-> at.id]}
    BY <2>2, Loads
  <2> DEFINE one == [what |-> "status", of |-> at.id]
  <2>4. one \in [what : {"status", "lookup"}, of : Ids] /\ one.what = "status"
    BY <2>2
  <2> HIDE DEF one
  <2>5. progress' \in Progresses /\ progress'.loads = {one}
    BY <1>1, <2>1, <2>3, <2>4 DEF Progresses, one
  <2>6. ProgressPart'
    BY <2>1, <2>2, <2>4, <2>5 DEF ProgressPart, QueuingIsPolled
  <2> QED BY <1>6, <2>6, OnlyProgress DEF PollStatus
<1>7. \A l \in progress.loads : l.of \in Nat /\ 0 \in Nat
  BY <1>1 DEF Progresses, Ids
<1> QED BY <1>3, <1>4, <1>5, <1>6, <1>7 DEF OnStatus
-------------------------------------------------------------------------------
\* A step of the order page and of nothing else.
LEMMA OnlyReceipt ==
  ASSUME Inductive, NEW b, InReceipt(b), ReceiptPart'
  PROVE  Inductive'
<1>1. UNCHANGED <<clock, rows, due, reminders, signedIn, at, detail, progress, calls, strayed>>
  BY DEF InReceipt, serverVars
<1> QED BY <1>1 DEF Inductive, ServerPart, DetailPart, HasReminder, ProgressPart, QueuingIsPolled,
                    CallPart, Truthful

\* The order arrives with its status, its activity ends the wait.
LEMMA ReceiptLoads ==
  ASSUME Inductive, NEW l \in receipt.loads,
         \/ l.of \in 1..Len(rows) /\ \E status \in StatusesOf(l.of) : OrderArrived(l, status)
         \/ ActivityArrived(l) \/ OrderFailed(l)
  PROVE  Inductive'
<1>1. /\ receipt \in Receipts /\ ReceiptPart
      /\ at.page = "order" /\ l.of = at.id /\ (l.what = "activity" => receipt.shown = l.of)
      /\ \A k \in receipt.loads : k.of = at.id /\ (k.what = "activity" => receipt.shown = k.of)
  BY DEF Inductive, ReceiptPart
<1>2. l \in [what : {"order", "activity"}, of : Ids] /\ l.of \in Nat
  BY <1>1 DEF Receipts, Ids
<1>3. ASSUME NEW status \in StatusesOf(l.of), l.of \in 1..Len(rows), OrderArrived(l, status)
      PROVE  Inductive'
  <2> DEFINE one == [l EXCEPT !.what = "activity"]
             b == [receipt EXCEPT !.shown = l.of, !.status = status, !.loads = {one}]
  <2>1. InReceipt(b)
    BY <1>3 DEF OrderArrived
  <2>2. one \in [what : {"order", "activity"}, of : Ids] /\ one.of = l.of
    BY <1>2
  <2>3. /\ status \in {"PENDING", "PAID", "CLOSED"}
        /\ status = "PAID" => rows[l.of].order = "PAID"
    <3>1. rows[l.of] \in EnrolmentRows
      BY <1>3 DEF Inductive, ServerPart
    <3> QED BY <1>3, <3>1 DEF StatusesOf, EnrolmentRows
  <2> HIDE DEF one
  <2>4. /\ b \in Receipts /\ b.shown = l.of /\ b.status = status /\ b.loads = {one}
    BY <1>1, <1>2, <2>2, <2>3 DEF Receipts
  <2> HIDE DEF b
  <2>5. receipt' = b /\ UNCHANGED <<at, rows, strayed>>
    BY <2>1 DEF InReceipt, serverVars
  <2>6. ReceiptPart'
    BY <1>1, <1>3, <2>2, <2>3, <2>4, <2>5 DEF ReceiptPart, PaidWasPaid
  <2> QED BY <2>1, <2>6, OnlyReceipt
<1>4. CASE ActivityArrived(l)
  <2> DEFINE b == [receipt EXCEPT !.loads = @ \ {l}, !.loading = FALSE]
  <2>1. InReceipt(b) /\ l.what = "activity"
    BY <1>4 DEF ActivityArrived
  <2>2. /\ b \in Receipts /\ b.shown = receipt.shown /\ b.status = receipt.status
        /\ b.loads \subseteq receipt.loads
    BY <1>1 DEF Receipts
  <2> HIDE DEF b
  <2>3. receipt' = b /\ UNCHANGED <<at, rows, strayed>>
    BY <2>1 DEF InReceipt, serverVars
  <2>4. ReceiptPart'
    BY <1>1, <2>1, <2>2, <2>3 DEF ReceiptPart, PaidWasPaid
  <2> QED BY <2>1, <2>4, OnlyReceipt
<1>5. CASE OrderFailed(l)
  <2> DEFINE b == [receipt EXCEPT !.loads = @ \ {l}, !.error = TRUE, !.loading = FALSE]
  <2>1. InReceipt(b)
    BY <1>5 DEF OrderFailed
  <2>2. /\ b \in Receipts /\ b.shown = receipt.shown /\ b.status = receipt.status
        /\ b.loads \subseteq receipt.loads /\ b.error
    BY <1>1 DEF Receipts
  <2> HIDE DEF b
  <2>3. receipt' = b /\ UNCHANGED <<at, rows, strayed>>
    BY <2>1 DEF InReceipt, serverVars
  <2>4. ReceiptPart'
    BY <1>1, <2>2, <2>3 DEF ReceiptPart, PaidWasPaid
  <2> QED BY <2>1, <2>4, OnlyReceipt
<1> QED BY <1>3, <1>4, <1>5

\* What CanPay lets through is an order there is.
LEMMA PayStep ==
  ASSUME Inductive, Pay
  PROVE  Inductive'
<1> DEFINE new == [what |-> "pay", of |-> 0, row |-> receipt.shown, here |-> TRUE]
<1>1. /\ receipt.status = "PENDING" /\ receipt' = [receipt EXCEPT !.paying = TRUE]
      /\ calls' = calls \cup {new}
      /\ UNCHANGED <<trip, clock, rows, due, reminders, signedIn, at, detail, progress, strayed>>
  BY DEF Pay, CanPay, serverVars
<1>2. receipt \in Receipts /\ receipt.shown \in 1..Len(rows) /\ ReceiptPart
  BY <1>1 DEF Inductive, ReceiptPart
<1>3. new \in Calls /\ new.what = "pay" /\ new.row = receipt.shown
  BY <1>2 DEF Calls, Numbers, Receipts
<1> HIDE DEF new
<1>4. \A k : k.what = "pay" /\ k.row = receipt.shown => Truthful(k)'
  BY <1>1, <1>2 DEF Truthful
<1>5. PICK k \in Calls : k = new /\ Truthful(k)'
  BY <1>3, <1>4
<1>6. CallPart'
  BY <1>1, <1>5, Unpaid, CallsGo
<1>7. /\ receipt' \in Receipts /\ receipt'.loads = receipt.loads
      /\ receipt'.shown = receipt.shown /\ receipt'.status = receipt.status
      /\ receipt'.loading = receipt.loading /\ receipt'.error = receipt.error
  BY <1>1, <1>2 DEF Receipts
<1>8. ReceiptPart'
  BY <1>1, <1>2, <1>7 DEF ReceiptPart, PaidWasPaid
<1> QED BY <1>1, <1>6, <1>8 DEF Inductive, ServerPart, DetailPart, HasReminder, ProgressPart,
                                QueuingIsPolled

LEMMA OrderSteps ==
  ASSUME Inductive, OnOrders
  PROVE  Inductive'
<1>1. ASSUME NEW o, OrdersArrived(o) PROVE Inductive'
  <2>1. UNCHANGED <<clock, rows, due, reminders, signedIn, at, detail, progress, receipt, calls, strayed>>
    BY <1>1 DEF OrdersArrived, serverVars
  <2> QED BY <2>1 DEF Inductive, ServerPart, DetailPart, HasReminder, ProgressPart, QueuingIsPolled,
                      ReceiptPart, PaidWasPaid, CallPart, Truthful
<1>2. CASE Tick
  <2> DEFINE b == [receipt EXCEPT !.late = due]
  <2>1. InReceipt(b)
    BY <1>2 DEF Tick
  <2>2. receipt \in Receipts /\ ReceiptPart /\ due \in SUBSET Ids
    BY DEF Inductive, ReceiptPart, ServerPart
  <2>3. /\ b \in Receipts /\ b.loads = receipt.loads
        /\ b.shown = receipt.shown /\ b.status = receipt.status
        /\ b.loading = receipt.loading /\ b.error = receipt.error
    BY <2>2 DEF Receipts
  <2> HIDE DEF b
  <2>4. receipt' = b /\ UNCHANGED <<at, rows, strayed>>
    BY <2>1 DEF InReceipt, serverVars
  <2>5. ReceiptPart'
    BY <2>2, <2>3, <2>4 DEF ReceiptPart, PaidWasPaid
  <2> QED BY <2>1, <2>5, OnlyReceipt
<1> QED BY <1>1, <1>2, ReceiptLoads, PayStep DEF OnOrders

LEMMA ServerSteps ==
  ASSUME Inductive, OnServer
  PROVE  Inductive'
<1>1. /\ UNCHANGED <<reminders, signedIn, at, detail, progress, receipt, calls, strayed>>
  BY DEF OnServer, Pass, Finalize, Expire, CloseExpired, InServer, pageVars
<1>2. rows \in Seq(EnrolmentRows) /\ Len(rows) \in Nat /\ Len(rows) <= MaxRows
  BY DEF Inductive, ServerPart
<1>3. clock' \in [Activities -> {"upcoming", "open", "closed"}]
  <2>1. clock \in [Activities -> {"upcoming", "open", "closed"}]
    BY DEF Inductive, ServerPart
  <2>2. ASSUME NEW a \in Activities, Pass(a)
        PROVE  clock' \in [Activities -> {"upcoming", "open", "closed"}]
    BY <2>1, <2>2 DEF Pass
  <2> QED BY <2>1, <2>2 DEF OnServer, Finalize, Expire, CloseExpired
<1>4. due' \subseteq Ids
  <2>1. ASSUME NEW r \in 1..Len(rows), Expire(r) PROVE due' \subseteq Ids
    <3>1. r \in Ids
      BY <1>2, EnrolmentPagesAssumption DEF Ids, EnrolmentPagesAssumption
    <3> QED BY <2>1, <3>1 DEF Expire, Inductive, ServerPart
  <2> QED BY <2>1 DEF OnServer, Pass, Finalize, CloseExpired, Inductive, ServerPart
<1>5. Grown
  <2>1. ASSUME NEW r \in 1..Len(rows), Finalize(r) PROVE Grown
    <3>1. /\ rows[r] \in EnrolmentRows /\ rows[r].result = "QUEUING" /\ rows[r].order = "none"
      BY <1>2, <2>1 DEF Finalize, Inductive, ServerPart
    <3> DEFINE placed == [rows[r] EXCEPT !.result = "SUCCESS", !.order = "PENDING"]
               failed == [rows[r] EXCEPT !.result = "FAILED"]
    <3>2. /\ placed \in EnrolmentRows /\ placed.result # "QUEUING"
          /\ failed \in EnrolmentRows /\ failed.result # "QUEUING"
      BY <3>1 DEF EnrolmentRows
    <3>3. rows' = [rows EXCEPT ![r] = placed] \/ rows' = [rows EXCEPT ![r] = failed]
      BY <1>2, <2>1 DEF Finalize
    <3> HIDE DEF placed, failed
    <3> QED BY <3>1, <3>2, <3>3, RowChanges
  <2>2. ASSUME NEW r \in 1..Len(rows), CloseExpired(r) PROVE Grown
    <3> DEFINE closed == [rows[r] EXCEPT !.order = "CLOSED"]
    <3>1. /\ rows[r] \in EnrolmentRows /\ rows[r].order = "PENDING" /\ rows[r].result # "QUEUING"
      BY <1>2, <2>2 DEF CloseExpired, Inductive, ServerPart
    <3>2. closed \in EnrolmentRows /\ closed.result # "QUEUING"
      BY <3>1 DEF EnrolmentRows
    <3>3. rows' = [rows EXCEPT ![r] = closed]
      BY <2>2 DEF CloseExpired
    <3> HIDE DEF closed
    <3> QED BY <3>1, <3>2, <3>3, RowChanges
  <2> QED BY <2>1, <2>2, Unpaid DEF OnServer, Pass, Expire
<1>6. ReceiptPart' /\ CallPart'
  BY <1>1, <1>5, StillTrue, CallsEnd
<1> QED BY <1>1, <1>3, <1>4, <1>5, <1>6 DEF Inductive, ServerPart, Grown, DetailPart, HasReminder,
                                            ProgressPart, QueuingIsPolled
-------------------------------------------------------------------------------
LEMMA InductiveInit == EnrolmentPagesAssumption /\ EnrolmentInit => Inductive
<1> SUFFICES ASSUME EnrolmentPagesAssumption, EnrolmentInit PROVE Inductive
  OBVIOUS
<1> USE DEF EnrolmentInit
<1>1. rows \in Seq(EnrolmentRows) /\ Len(rows) <= MaxRows
  <2>1. CASE rows = <<>>
    BY <2>1 DEF EnrolmentPagesAssumption
  <2>2. CASE rows \in [Ids -> NewRows]
    <3>1. NewRows \subseteq EnrolmentRows
      BY DEF NewRows, EnrolmentRows
    <3>2. MaxRows \in Nat
      BY DEF EnrolmentPagesAssumption
    <3>3. rows \in [1..MaxRows -> EnrolmentRows]
      BY <2>2, <3>1 DEF Ids
    <3>4. rows \in Seq(EnrolmentRows) /\ Len(rows) = MaxRows
      BY <3>2, <3>3
    <3> QED BY <3>2, <3>4
  <2> QED BY <2>1, <2>2
<1>2. \A r \in 1..Len(rows) : rows[r].result = "QUEUING" => rows[r].order = "none"
  <2>1. CASE rows = <<>>
    BY <2>1
  <2>2. CASE rows \in [Ids -> NewRows]
    <3>1. ASSUME NEW row \in NewRows, row.result = "QUEUING" PROVE row.order = "none"
      BY <3>1 DEF NewRows
    <3>2. Len(rows) = MaxRows
      BY <2>2 DEF Ids, EnrolmentPagesAssumption
    <3> QED BY <2>2, <3>1, <3>2 DEF Ids
  <2> QED BY <2>1, <2>2
<1>3. clock \in [Activities -> {"upcoming", "open", "closed"}]
  OBVIOUS
<1>4. Elsewhere \in Addresses /\ Elsewhere.page = "elsewhere"
  BY DEF Addresses, Elsewhere, Address
<1>5. ServerPart
  BY <1>1, <1>2, <1>3, <1>4 DEF ServerPart
<1>6. DetailPart
  BY <1>4, <1>5, EnrolmentPagesAssumption, Nones DEF DetailPart
<1>7. ProgressPart
  BY <1>4, <1>5, EnrolmentPagesAssumption, Nones DEF ProgressPart, QueuingIsPolled, NoProgress
<1>8. ReceiptPart
  BY <1>4, <1>5, EnrolmentPagesAssumption, Nones DEF ReceiptPart, PaidWasPaid, NoReceipt
<1>9. CallPart /\ strayed \in BOOLEAN
  BY DEF CallPart
<1> QED BY <1>5, <1>6, <1>7, <1>8, <1>9 DEF Inductive

LEMMA Stutter == Inductive /\ UNCHANGED enrolmentVars => Inductive'
<1> SUFFICES ASSUME Inductive, UNCHANGED enrolmentVars PROVE Inductive'
  OBVIOUS
<1>1. UNCHANGED <<clock, rows, due, reminders, signedIn, at, detail, progress, receipt, calls, strayed>>
  BY DEF enrolmentVars, serverVars, pageVars
<1> QED BY <1>1 DEF Inductive, ServerPart, DetailPart, HasReminder, ProgressPart, QueuingIsPolled,
                    ReceiptPart, PaidWasPaid, CallPart, Truthful

LEMMA NextStep == Inductive /\ EnrolmentNext => Inductive'
<1>1. ASSUME Inductive, NEW c \in calls,
             \/ EnrolQueued(c) \/ EnrolPlaced(c) \/ EnrolFailed(c)
             \/ EnrolFollowed(c, "order") \/ EnrolFollowed(c, "status")
             \/ PayServed(c) \/ PayArrived(c) \/ PayFailed(c)
      PROVE  Inductive'
  BY <1>1, EnrolSteps, PaySteps
<1>2. ASSUME Inductive, OnCalls PROVE Inductive'
  BY <1>1, <1>2 DEF OnCalls
<1> QED BY <1>2, MoveSteps, ActivitySteps, StatusSteps, OrderSteps, ServerSteps DEF EnrolmentNext
-------------------------------------------------------------------------------
\* The strengthened invariant, of every behaviour of the tab and the server:
\* a page waits only for what its address names, and a call that says paid
\* is about an order that is.
THEOREM PagesInductive == EnrolmentSpec => []Inductive
<1>1. EnrolmentInit => Inductive
  BY EnrolmentPagesAssumption, InductiveInit
<1>2. Inductive /\ [EnrolmentNext]_enrolmentVars => Inductive'
  BY NextStep, Stutter
<1> QED BY <1>1, <1>2, PTL DEF EnrolmentSpec

\* Whatever the history leads to and in whatever order the answers come, the
\* activity page and the order page show what their addresses name.
THEOREM PagesShowTheirOwn == EnrolmentSpec => []ShownAsAddressed
<1>1. Inductive => ShownAsAddressed
  BY DEF Inductive, DetailPart, ReceiptPart, ShownAsAddressed, Painted
<1> QED BY <1>1, PagesInductive, PTL

\* The enrolment page never waits for a result that it does not ask for.
THEOREM QueuingAsks == EnrolmentSpec => []QueuingIsPolled
<1>1. Inductive => QueuingIsPolled
  BY DEF Inductive, ProgressPart
<1> QED BY <1>1, PagesInductive, PTL

\* What the order page shows as paid was paid, but for an answer that found
\* the page with another order.
THEOREM PaidIsPaid == EnrolmentSpec => []PaidWasPaid
<1>1. Inductive => PaidWasPaid
  BY DEF Inductive, ReceiptPart
<1> QED BY <1>1, PagesInductive, PTL

\* The button speaks of the reminder of this activity and this user.
THEOREM RemindersAreTold == EnrolmentSpec => []ReminderTold
<1>1. Inductive => ReminderTold
  <2> SUFFICES ASSUME Inductive PROVE ReminderTold
    OBVIOUS
  <2>1. CASE Painted = {}
    BY <2>1 DEF ReminderTold, ActionLabel
  <2>2. CASE Painted # {}
    <3>1. detail.state = "ready"
      BY <2>2 DEF Painted
    <3>2. detail.reminder = HasReminder(at.id)
      BY <3>1 DEF Inductive, DetailPart
    <3>3. ActionLabel = "reminderSet" => detail.reminder
      BY <2>2 DEF ActionLabel
    <3>4. ActionLabel = "remindMe" => ~detail.reminder
      BY <2>2 DEF ActionLabel
    <3> QED BY <3>2, <3>3, <3>4 DEF ReminderTold
  <2> QED BY <2>1, <2>2
<1> QED BY <1>1, PagesInductive, PTL
-------------------------------------------------------------------------------
(* What the pages say they wait for.  A page has at most one enrolment or  *)
(* payment under way: its button does nothing until the answer is there,   *)
(* and the calls of a page that is gone are not its calls any more.        *)

Enrolling == {"enrol", "lookup"}
Paying == {"pay", "paid"}
HereFor(kinds) == \E c \in calls : c.here /\ c.what \in kinds

Pressed ==
  /\ \A c \in calls : c.here => \/ c.what \in Enrolling /\ at.page = "activity"
                                \/ c.what \in Paying /\ at.page = "order"
  /\ \A c, d \in calls : c.here /\ d.here => c = d
  /\ detail.submitting = HereFor(Enrolling)
  /\ receipt.paying = HereFor(Paying)
  /\ \A c \in calls : c.what = "enrol" => c.row = 0
Polled == detail.polls <= MaxPolls /\ (detail.polls > 0 => Interval(detail) # 0)
\* Elsewhere there is no order to pay.
NoOrderShown == at.page # "order" => receipt.status = "none"
Waits == due \subseteq Ordered /\ Polled /\ Pressed /\ NoOrderShown

\* Calls that are left out, none of them of the page.
LEMMA PressedFewer ==
  ASSUME Pressed, calls' \subseteq calls, \A c \in calls \ calls' : ~c.here,
         at'.page = at.page, detail'.submitting = detail.submitting, receipt'.paying = receipt.paying
  PROVE  Pressed'
  BY DEF Pressed, HereFor

\* The page is gone.
LEMMA PressedLeft ==
  ASSUME Pressed, calls \subseteq Calls, NEW under, under \subseteq calls,
         calls' = {[c EXCEPT !.here = FALSE] : c \in under},
         detail'.submitting = FALSE, receipt'.paying = FALSE
  PROVE  Pressed'
<1>1. \A k \in calls' : ~k.here /\ (k.what = "enrol" => k.row = 0)
  <2>1. TAKE k \in calls'
  <2>2. PICK c \in under : k = [c EXCEPT !.here = FALSE]
    OBVIOUS
  <2>3. c \in Calls /\ k.here = FALSE /\ k.what = c.what /\ k.row = c.row
    BY <2>2 DEF Calls
  <2> QED BY <2>2, <2>3 DEF Pressed
<1>2. HereFor(Enrolling)' = FALSE /\ HereFor(Paying)' = FALSE
  BY <1>1 DEF HereFor
<1> QED BY <1>1, <1>2 DEF Pressed

\* The page's call is answered.
LEMMA PressedTold ==
  ASSUME Pressed, NEW c \in calls, c.here, calls' = calls \ {c},
         c.what \in Enrolling => detail'.submitting = FALSE /\ receipt'.paying = receipt.paying,
         c.what \in Paying => detail'.submitting = detail.submitting /\ receipt'.paying = FALSE
  PROVE  Pressed'
<1>1. \A d \in calls' : ~d.here /\ d \in calls
  BY DEF Pressed
<1>2. HereFor(Enrolling)' = FALSE /\ HereFor(Paying)' = FALSE
  BY <1>1 DEF HereFor
<1>3. c.what \in Enrolling \/ c.what \in Paying
  BY DEF Pressed
<1>4. c.what \in Enrolling => HereFor(Paying) = FALSE
  BY DEF Pressed, HereFor, Enrolling, Paying
<1>5. c.what \in Paying => HereFor(Enrolling) = FALSE
  BY DEF Pressed, HereFor, Enrolling, Paying
<1> QED BY <1>1, <1>2, <1>3, <1>4, <1>5 DEF Pressed

\* A call goes on with its next request.
LEMMA PressedOn ==
  ASSUME Pressed, NEW c \in calls, NEW new, calls' = (calls \ {c}) \cup {new},
         new.here = c.here, new.what # "enrol",
         \/ c.what \in Enrolling /\ new.what \in Enrolling
         \/ c.what \in Paying /\ new.what \in Paying,
         at'.page = at.page, detail'.submitting = detail.submitting, receipt'.paying = receipt.paying
  PROVE  Pressed'
<1>1. \A d \in calls' : d = new \/ (d \in calls /\ d # c)
  OBVIOUS
<1>2. HereFor(Enrolling)' = HereFor(Enrolling)
  BY DEF HereFor, Enrolling, Paying
<1>3. HereFor(Paying)' = HereFor(Paying)
  BY DEF HereFor, Enrolling, Paying
<1>4. \A d \in calls' : d.here => \/ d.what \in Enrolling /\ at'.page = "activity"
                                  \/ d.what \in Paying /\ at'.page = "order"
  BY <1>1 DEF Pressed, Enrolling, Paying
<1>5. \A d, e \in calls' : d.here /\ e.here => d = e
  BY <1>1 DEF Pressed
<1>6. \A d \in calls' : d.what = "enrol" => d.row = 0
  BY <1>1 DEF Pressed
<1> QED BY <1>2, <1>3, <1>4, <1>5, <1>6 DEF Pressed

\* A press of the button of a page that waits for nothing.
LEMMA PressedNew ==
  ASSUME Pressed, NEW new, calls' = calls \cup {new}, new.here, new.what = "enrol" => new.row = 0,
         \A c \in calls : ~c.here, at'.page = at.page,
         \/ /\ new.what \in Enrolling /\ at.page = "activity"
            /\ detail'.submitting = TRUE /\ receipt'.paying = receipt.paying
         \/ /\ new.what \in Paying /\ at.page = "order"
            /\ detail'.submitting = detail.submitting /\ receipt'.paying = TRUE
  PROVE  Pressed'
<1>1. \A d \in calls' : d.here => d = new
  OBVIOUS
<1>2. detail.submitting = FALSE /\ receipt.paying = FALSE
  BY DEF Pressed, HereFor
<1>3. new \in calls' /\ ~(new.what \in Enrolling /\ new.what \in Paying)
  BY DEF Enrolling, Paying
<1>4. new.what \in Enrolling => HereFor(Enrolling)' = TRUE /\ HereFor(Paying)' = FALSE
  BY <1>1, <1>3 DEF HereFor
<1>5. new.what \in Paying => HereFor(Enrolling)' = FALSE /\ HereFor(Paying)' = TRUE
  BY <1>1, <1>3 DEF HereFor
<1>6. detail'.submitting = HereFor(Enrolling)' /\ receipt'.paying = HereFor(Paying)'
  BY <1>2, <1>3, <1>4, <1>5
<1>7. \A d \in calls' : d.what = "enrol" => d.row = 0
  BY DEF Pressed
<1>8. \A d \in calls' : d.here => \/ d.what \in Enrolling /\ at'.page = "activity"
                                  \/ d.what \in Paying /\ at'.page = "order"
  BY <1>1
<1> QED BY <1>1, <1>6, <1>7, <1>8 DEF Pressed
-------------------------------------------------------------------------------
(* Polls.                                                                  *)

LEMMA SameInterval ==
  ASSUME NEW d, NEW e, d.shown = e.shown, d.era = e.era, d.stock = e.stock, d.status = e.status
  PROVE  Interval(d) = Interval(e)
  BY DEF Interval, Phase

LEMMA RenderPolls ==
  ASSUME Inductive, Polled, NEW d \in Details, d.polls <= detail.polls
  PROVE  /\ Rendered(d).submitting = d.submitting
         /\ Rendered(d).polls <= MaxPolls
         /\ Rendered(d).polls > 0 => Interval(Rendered(d)) # 0
<1> DEFINE now == IF d.shown = 0 THEN d ELSE [d EXCEPT !.era = clock[d.shown]]
<1>1. now \in Details /\ now.submitting = d.submitting /\ now.polls = d.polls
  <2>1. CASE d.shown = 0
    BY <2>1
  <2>2. CASE d.shown # 0
    <3>1. d.shown \in Activities
      BY <2>2 DEF Details, Numbers
    <3>2. clock[d.shown] \in {"upcoming", "open", "closed"}
      BY <3>1 DEF Inductive, ServerPart
    <3> QED BY <2>2, <3>2 DEF Details
  <2> QED BY <2>1, <2>2
<1>2. Rendered(d) = IF Interval(now) = Interval(detail) /\ now.shown = detail.shown
                    THEN now ELSE [now EXCEPT !.polls = 0]
  BY DEF Rendered
<1>3. detail.polls \in Nat /\ d.polls \in Nat /\ MaxPolls \in Nat
  BY EnrolmentPagesAssumption DEF Inductive, DetailPart, Details, EnrolmentPagesAssumption
<1> HIDE DEF now
<1>4. CASE Interval(now) = Interval(detail) /\ now.shown = detail.shown
  <2>1. Rendered(d) = now
    BY <1>2, <1>4
  <2> QED BY <1>1, <1>3, <1>4, <2>1 DEF Polled
<1>5. CASE ~(Interval(now) = Interval(detail) /\ now.shown = detail.shown)
  <2>1. Rendered(d) = [now EXCEPT !.polls = 0]
    BY <1>2, <1>5
  <2>2. Rendered(d).polls = 0 /\ Rendered(d).submitting = d.submitting
    BY <1>1, <2>1 DEF Details
  <2> QED BY <1>3, <2>2
<1> QED BY <1>4, <1>5

\* The effect that loads another activity: the polls go on, or it is shown
\* that there is none.
LEMMA ReloadKeeps ==
  ASSUME EnrolmentPagesAssumption, NEW d \in Details, NEW a \in Numbers
  PROVE  LET e == Reminded(Reloaded(d, a), a)
             f == Reloaded(d, a)
         IN  /\ e.submitting = d.submitting /\ f.submitting = d.submitting
             /\ e.polls = 0 \/ (e.polls = d.polls /\ Interval(e) = Interval(d))
             /\ f.polls = 0 \/ (f.polls = d.polls /\ Interval(f) = Interval(d))
<1> DEFINE asked == [d EXCEPT !.loads = {} \cup Load("detail", a)]
           f == Reloaded(d, a)
           e == Reminded(f, a)
<1>1. /\ f \in Details
  BY Reloads
<1>2. /\ asked.submitting = d.submitting /\ asked.polls = d.polls
      /\ asked.shown = d.shown /\ asked.era = d.era /\ asked.stock = d.stock /\ asked.status = d.status
      /\ DOMAIN asked = DOMAIN d
  BY DEF Details
<1>3. f = IF a = 0
          THEN [asked EXCEPT !.state = "missing", !.shown = 0, !.stockOf = 0, !.stock = 0,
                             !.status = "PUBLISHED", !.era = "closed", !.polls = 0]
          ELSE [asked EXCEPT !.state = "loading"]
  BY DEF Reloaded, Inactive
<1>4. /\ "state" \in DOMAIN d /\ "shown" \in DOMAIN d /\ "stockOf" \in DOMAIN d /\ "stock" \in DOMAIN d
      /\ "status" \in DOMAIN d /\ "era" \in DOMAIN d /\ "polls" \in DOMAIN d
      /\ "submitting" \in DOMAIN d
  BY DEF Details
<1> HIDE DEF asked
<1>5. CASE a = 0
  <2> DEFINE half == [asked EXCEPT !.state = "missing", !.shown = 0, !.stockOf = 0, !.stock = 0]
             most == [half EXCEPT !.status = "PUBLISHED", !.era = "closed"]
  <2>1. DOMAIN half = DOMAIN d /\ half.submitting = asked.submitting
    BY <1>2, <1>4
  <2>2. f = [half EXCEPT !.status = "PUBLISHED", !.era = "closed", !.polls = 0]
    BY <1>3, <1>5
  <2> HIDE DEF half
  <2>3. f.polls = 0 /\ f.submitting = d.submitting
    BY <1>2, <1>4, <2>1, <2>2
  <2> QED BY <1>1, <2>3 DEF Reminded, Details
<1>6. CASE a # 0
  <2>1. f = [asked EXCEPT !.state = "loading"]
    BY <1>3, <1>6
  <2>2. /\ f.submitting = d.submitting /\ f.polls = d.polls
        /\ f.shown = d.shown /\ f.era = d.era /\ f.stock = d.stock /\ f.status = d.status
    BY <1>2, <1>4, <2>1
  <2> HIDE DEF f
  <2>3. e = [f EXCEPT !.reminder = HasReminder(a)]
    BY DEF Reminded
  <2>4. /\ e.submitting = d.submitting /\ e.polls = d.polls
        /\ e.shown = d.shown /\ e.era = d.era /\ e.stock = d.stock /\ e.status = d.status
    BY <1>1, <2>2, <2>3 DEF Details
  <2> HIDE DEF e
  <2>5. Interval(e) = Interval(d) /\ Interval(f) = Interval(d)
    BY <2>2, <2>4, SameInterval
  <2> QED BY <2>2, <2>4, <2>5 DEF e, f
<1> QED BY <1>5, <1>6
-------------------------------------------------------------------------------
(* The steps.                                                              *)

LEMMA DuesKept ==
  ASSUME Inductive, Inductive', due \subseteq Ordered, due' = due, Len(rows) <= Len(rows'),
         \A r \in 1..Len(rows) : rows[r].order # "none" => rows'[r].order # "none"
  PROVE  (due \subseteq Ordered)'
<1>1. Len(rows) \in Nat /\ Len(rows') \in Nat
  BY DEF Inductive, ServerPart
<1>2. 1..Len(rows) \subseteq 1..Len(rows')
  BY <1>1
<1> QED BY <1>2 DEF Ordered

LEMMA FetchKeeps ==
  ASSUME EnrolmentPagesAssumption, NEW b \in Receipts, NEW r
  PROVE  Fetched(b, r).paying = b.paying /\ Fetched(b, r).status = b.status
  BY DEF Fetched, Receipts

\* Another page: whatever it asks for, it waits for no answer of its button.
LEMMA MountWaits ==
  ASSUME Inductive, Waits, NEW to \in Addresses, Mount(to), UNCHANGED <<rows, due>>,
         NEW under, under \subseteq calls, calls' = {[c EXCEPT !.here = FALSE] : c \in under}
  PROVE  Waits'
<1>1. /\ NoDetail \in Details /\ NoReceipt \in Receipts /\ [NoReceipt EXCEPT !.late = due] \in Receipts
      /\ calls \subseteq Calls
  BY EnrolmentPagesAssumption, Nones DEF Inductive, CallPart
<1>2. NoDetail.polls = 0 /\ NoDetail.submitting = FALSE /\ NoReceipt.paying = FALSE
  BY DEF NoDetail, NoReceipt
<1>3. to.page = "activity" => to.id \in Numbers
  BY EnrolmentPagesAssumption, AddressParts
<1>4. detail'.submitting = FALSE /\ detail'.polls = 0
  <2>1. detail' = IF to.page = "activity" THEN Reminded(Reloaded(NoDetail, to.id), to.id) ELSE NoDetail
    BY DEF Mount
  <2>2. CASE to.page = "activity"
    BY <1>1, <1>2, <1>3, <2>1, <2>2, EnrolmentPagesAssumption, ReloadKeeps
  <2> QED BY <1>2, <2>1, <2>2
<1>5. receipt'.paying = FALSE
  <2>1. [NoReceipt EXCEPT !.late = due].paying = FALSE
    BY DEF NoReceipt
  <2>2. receipt' = IF to.page = "order" THEN Fetched([NoReceipt EXCEPT !.late = due], to.id) ELSE NoReceipt
    BY DEF Mount
  <2> QED BY <1>1, <1>2, <2>1, <2>2, EnrolmentPagesAssumption, FetchKeeps
<1>6. Pressed'
  BY <1>1, <1>4, <1>5, PressedLeft DEF Waits
<1>7. Polled'
  BY <1>4, EnrolmentPagesAssumption DEF Polled, EnrolmentPagesAssumption
<1>8. NoOrderShown'
  BY DEF NoOrderShown, Mount, NoReceipt
<1> QED BY <1>6, <1>7, <1>8 DEF Waits, Ordered

\* The same page: it waits for what it waited for.
LEMMA SamePageWaits ==
  ASSUME Inductive, Waits, UNCHANGED <<rows, due>>, at'.page = at.page,
         NEW a \in Numbers,
         \/ detail' = detail \/ detail' = Reloaded(detail, a)
         \/ detail' = Reminded(Reloaded(detail, a), a),
         receipt' = receipt \/ \E r : receipt' = Fetched(receipt, r),
         calls' \subseteq calls, \A c \in calls \ calls' : ~c.here
  PROVE  Waits'
<1>1. detail \in Details /\ receipt \in Receipts
  BY DEF Inductive, DetailPart, ReceiptPart
<1>2. /\ detail'.submitting = detail.submitting
      /\ \/ detail'.polls = 0
         \/ detail'.polls = detail.polls /\ Interval(detail') = Interval(detail)
  BY <1>1, EnrolmentPagesAssumption, ReloadKeeps
<1>3. receipt'.paying = receipt.paying /\ receipt'.status = receipt.status
  BY <1>1, EnrolmentPagesAssumption, FetchKeeps
<1>4. Pressed'
  BY <1>2, <1>3, PressedFewer DEF Waits
<1>5. Polled'
  <2>1. Interval(detail)' = Interval(detail')
    BY DEF Interval, Phase
  <2>2. MaxPolls \in Nat
    BY EnrolmentPagesAssumption DEF EnrolmentPagesAssumption
  <2> QED BY <1>2, <2>1, <2>2 DEF Waits, Polled
<1> QED BY <1>3, <1>4, <1>5 DEF Waits, Ordered, NoOrderShown

LEMMA GoWaits ==
  ASSUME Inductive, Waits, NEW to \in Addresses, NEW under, Go(to, under), UNCHANGED <<rows, due>>,
         under \subseteq calls,
         \A c \in calls \ under : c.here => Led(to).page # at.page
  PROVE  Waits'
<1>1. Led(to) \in Addresses
  BY DEF Led, Addresses
<1>2. 0 \in Numbers
  BY DEF Numbers
<1>3. CASE Led(to) = at
  <2>1. UNCHANGED <<at, detail, receipt>> /\ calls' = under
    BY <1>3 DEF Go, pageVars
  <2> QED BY <1>2, <1>3, <2>1, SamePageWaits
<1>4. CASE Led(to) # at /\ Led(to).page = at.page
  <2>1. Readdress(Led(to)) /\ calls' = under
    BY <1>4 DEF Go
  <2>2. receipt' = receipt \/ \E r : receipt' = Fetched(receipt, r)
    BY <2>1 DEF Readdress
  <2>3. at' = Led(to)
    BY <2>1 DEF Readdress
  <2>4. CASE Led(to).page = "activity"
    <3>1. Led(to).id \in Numbers /\ detail' = Reminded(Reloaded(detail, Led(to).id), Led(to).id)
      BY <1>1, <2>1, <2>4, EnrolmentPagesAssumption, AddressParts DEF Readdress
    <3> QED BY <1>4, <2>1, <2>2, <2>3, <3>1, SamePageWaits
  <2>5. CASE Led(to).page # "activity"
    <3>1. detail' = detail
      BY <2>1, <2>5 DEF Readdress
    <3> QED BY <1>2, <1>4, <2>1, <2>2, <2>3, <3>1, SamePageWaits
  <2> QED BY <2>4, <2>5
<1>5. CASE Led(to).page # at.page
  <2>1. Mount(Led(to)) /\ calls' = {[c EXCEPT !.here = FALSE] : c \in under}
    BY <1>5 DEF Go
  <2> QED BY <1>1, <2>1, MountWaits
<1> QED BY <1>3, <1>4, <1>5

LEMMA MovesWait ==
  ASSUME Inductive, Waits, Moves
  PROVE  Waits'
<1>1. ASSUME NEW to \in Addresses, Follow(to) \/ Jump(to) PROVE Waits'
  <2>1. Go(to, calls) /\ UNCHANGED <<rows, due>>
    BY <1>1 DEF Follow, Jump, serverVars
  <2> QED BY <2>1, GoWaits
<1>2. CASE SignOut
  <2>1. /\ Mount(Elsewhere) /\ calls' = {[c EXCEPT !.here = FALSE] : c \in calls}
        /\ UNCHANGED <<rows, due>>
    BY <1>2 DEF SignOut, serverVars
  <2>2. Elsewhere \in Addresses
    BY DEF Addresses
  <2> QED BY <2>1, <2>2, MountWaits
<1>3. CASE SignIn
  <2>1. UNCHANGED <<rows, due, at, detail, receipt, calls>> /\ 0 \in Numbers
    BY <1>3 DEF SignIn, serverVars, pageVars, Numbers
  <2> QED BY <2>1, SamePageWaits
<1>4. CASE LoadAgain
  <2>1. UNCHANGED <<rows, due, at, calls>>
    BY <1>4 DEF LoadAgain, serverVars
  <2>2. receipt' = receipt \/ \E r : receipt' = Fetched(receipt, r)
    BY <1>4 DEF LoadAgain
  <2>3. \E a \in Numbers : detail' = detail \/ detail' = Reloaded(detail, a)
    <3>1. at \in Addresses /\ 0 \in Numbers
      BY DEF Inductive, ServerPart, Numbers
    <3> QED BY <1>4, <3>1, EnrolmentPagesAssumption, AddressParts DEF LoadAgain
  <2> QED BY <2>1, <2>2, <2>3, SamePageWaits
<1> QED BY <1>1, <1>2, <1>3, <1>4 DEF Moves

\* A step of the activity page alone.
LEMMA InDetailWaits ==
  ASSUME Inductive, Waits, NEW d \in Details, d.submitting = detail.submitting, d.polls <= detail.polls,
         detail' = Rendered(d), UNCHANGED <<rows, due, at, receipt, calls>>
  PROVE  Waits'
<1>1. /\ detail'.submitting = detail.submitting /\ detail'.polls <= MaxPolls
      /\ detail'.polls > 0 => Interval(detail') # 0
  BY RenderPolls DEF Waits
<1>2. Pressed'
  BY <1>1, PressedFewer DEF Waits
<1>3. Polled'
  BY <1>1 DEF Polled, Interval, Phase
<1> QED BY <1>2, <1>3 DEF Waits, Ordered, NoOrderShown

LEMMA ActivityWaits ==
  ASSUME Inductive, Waits, OnActivity
  PROVE  Waits'
<1>0. /\ detail \in Details /\ detail.polls \in Nat /\ MaxPolls \in Nat
      /\ 0 \in Numbers /\ 0 \in StockAnswers /\ "PUBLISHED" \in DetailAnswers
  BY EnrolmentPagesAssumption
  DEF Inductive, DetailPart, Details, Numbers, StockAnswers, DetailAnswers, EnrolmentPagesAssumption
<1>1. ASSUME NEW l \in detail.loads, NEW status \in DetailAnswers, NEW n \in StockAnswers,
             DetailArrived(l, status, n)
      PROVE  Waits'
  <2> DEFINE loads == (detail.loads \ {l}) \cup Load("stock", l.of)
             half == [detail EXCEPT !.state = "ready", !.shown = l.of, !.status = status]
             most == [half EXCEPT !.stock = n, !.stockOf = l.of]
             d == [detail EXCEPT !.state = "ready", !.shown = l.of, !.status = status,
                                 !.stock = n, !.stockOf = l.of, !.polls = 0, !.loads = loads]
  <2>1. /\ detail' = Rendered(d) /\ UNCHANGED <<rows, due, at, receipt, calls>>
    BY <1>1 DEF DetailArrived, InDetail, serverVars
  <2>2. l.of \in Activities /\ l.of # 0
    BY <1>0, EnrolmentPagesAssumption DEF Details, EnrolmentPagesAssumption
  <2>3. loads \in SUBSET [what : {"detail", "stock"}, of : Activities]
    <3>1. Load("stock", l.of) = {[what |-> "stock", of |-> l.of]}
      BY <2>2, Loads
    <3> QED BY <1>0, <2>2, <3>1 DEF Details
  <2> HIDE DEF loads
  <2>4. half \in Details /\ half.submitting = detail.submitting
    BY <1>0, <2>2 DEF Details, Numbers
  <2>5. most \in Details /\ most.submitting = detail.submitting
    <3> HIDE DEF half
    <3> QED BY <2>2, <2>4 DEF Details, Numbers
  <2>6. d = [most EXCEPT !.polls = 0, !.loads = loads]
    BY <1>0 DEF Details
  <2> HIDE DEF most, d
  <2>7. d \in Details /\ d.submitting = detail.submitting /\ d.polls = 0
    BY <2>3, <2>5, <2>6 DEF Details
  <2> QED BY <1>0, <2>1, <2>7, InDetailWaits
<1>2. ASSUME NEW l \in detail.loads, NEW state \in {"missing", "error"}, DetailFailed(l, state)
      PROVE  Waits'
  <2> DEFINE half == [detail EXCEPT !.state = state, !.shown = 0, !.stockOf = 0, !.stock = 0]
             most == [half EXCEPT !.status = "PUBLISHED", !.era = "closed"]
             d == [detail EXCEPT !.state = state, !.shown = 0, !.stockOf = 0, !.stock = 0,
                                 !.status = "PUBLISHED", !.era = "closed", !.polls = 0,
                                 !.loads = @ \ {l}]
  <2>1. /\ detail' = Rendered(d) /\ UNCHANGED <<rows, due, at, receipt, calls>>
    BY <1>2 DEF DetailFailed, InDetail, serverVars
  <2>2. half \in Details /\ half.submitting = detail.submitting
    BY <1>0 DEF Details
  <2>3. most \in Details /\ most.submitting = detail.submitting
    <3> HIDE DEF half
    <3> QED BY <1>0, <2>2 DEF Details
  <2>4. d = [most EXCEPT !.polls = 0, !.loads = detail.loads \ {l}]
    BY <1>0 DEF Details
  <2>5. detail.loads \ {l} \in SUBSET [what : {"detail", "stock"}, of : Activities]
    BY <1>0 DEF Details
  <2> HIDE DEF most, d
  <2>6. d \in Details /\ d.submitting = detail.submitting /\ d.polls = 0
    BY <2>3, <2>4, <2>5 DEF Details
  <2> QED BY <1>0, <2>1, <2>6, InDetailWaits
<1>3. ASSUME NEW l \in detail.loads, NEW n \in StockAnswers, StockArrived(l, n) PROVE Waits'
  <2> DEFINE d == [detail EXCEPT !.stock = n, !.stockOf = l.of, !.loads = @ \ {l}]
  <2>1. /\ detail' = Rendered(d) /\ UNCHANGED <<rows, due, at, receipt, calls>>
    BY <1>3 DEF StockArrived, InDetail, serverVars
  <2>2. l.of \in Activities
    BY <1>0 DEF Details
  <2>3. d \in Details /\ d.submitting = detail.submitting /\ d.polls = detail.polls
    BY <1>0, <2>2 DEF Details, Numbers
  <2> HIDE DEF d
  <2> QED BY <1>0, <2>1, <2>3, InDetailWaits
<1>4. ASSUME NEW n \in StockAnswers, PollArrived(n) PROVE Waits'
  <2> DEFINE d == [detail EXCEPT !.stock = n, !.stockOf = detail.shown, !.polls = @ - 1]
  <2>1. /\ detail.polls > 0 /\ detail' = Rendered(d) /\ UNCHANGED <<rows, due, at, receipt, calls>>
    BY <1>4 DEF PollArrived, InDetail, serverVars
  <2>2. detail.polls - 1 \in Nat /\ detail.polls - 1 <= detail.polls
    BY <1>0, <2>1
  <2>3. d \in Details /\ d.submitting = detail.submitting /\ d.polls = detail.polls - 1
    BY <1>0, <2>2 DEF Details
  <2> HIDE DEF d
  <2> QED BY <2>1, <2>2, <2>3, InDetailWaits
<1>5. CASE Poll \/ StockFailed
  <2>1. UNCHANGED <<rows, due, at, receipt, calls>>
    BY <1>5 DEF Poll, StockFailed, serverVars
  <2>2. /\ detail'.submitting = detail.submitting /\ detail'.polls <= MaxPolls
        /\ detail'.polls > 0 => Interval(detail) # 0
        /\ detail'.shown = detail.shown /\ detail'.era = detail.era
        /\ detail'.stock = detail.stock /\ detail'.status = detail.status
    <3>1. CASE Poll
      <4>1. /\ Interval(detail) # 0 /\ detail.polls < MaxPolls
            /\ detail' = [detail EXCEPT !.polls = detail.polls + 1]
        BY <3>1 DEF Poll
      <4>2. detail'.polls = detail.polls + 1
        BY <1>0, <4>1 DEF Details
      <4> QED BY <1>0, <4>1, <4>2 DEF Details
    <3>2. CASE detail.polls > 0 /\ detail' = [detail EXCEPT !.polls = @ - 1]
      <4>1. detail'.polls = detail.polls - 1
        BY <1>0, <3>2 DEF Details
      <4> QED BY <1>0, <3>2, <4>1 DEF Details, Waits, Polled
    <3>3. CASE \E l \in detail.loads : detail' = [detail EXCEPT !.loads = @ \ {l}]
      BY <1>0, <3>3 DEF Details, Waits, Polled
    <3> QED BY <1>5, <3>1, <3>2, <3>3 DEF StockFailed
  <2>3. Interval(detail') = Interval(detail)
    BY <2>2, SameInterval
  <2>4. Pressed'
    BY <2>1, <2>2, PressedFewer DEF Waits
  <2>5. Polled'
    BY <2>2, <2>3 DEF Polled, Interval, Phase
  <2> QED BY <2>1, <2>4, <2>5 DEF Waits, Ordered, NoOrderShown
<1>6. CASE Remind
  <2> DEFINE d == [detail EXCEPT !.reminder = TRUE]
  <2>1. detail' = Rendered(d) /\ UNCHANGED <<rows, due, at, receipt, calls>>
    BY <1>6 DEF Remind, serverVars
  <2>2. d \in Details /\ d.submitting = detail.submitting /\ d.polls = detail.polls
    BY <1>0 DEF Details
  <2> HIDE DEF d
  <2> QED BY <1>0, <2>1, <2>2, InDetailWaits
<1>7. CASE Enrol
  <2> DEFINE d == [detail EXCEPT !.submitting = TRUE]
             new == [what |-> "enrol", of |-> detail.shown, row |-> 0, here |-> TRUE]
  <2>1. /\ Button = "selling" /\ detail' = Rendered(d) /\ calls' = calls \cup {new}
        /\ UNCHANGED <<rows, due, at, receipt>>
    BY <1>7 DEF Enrol, serverVars
  <2>2. d \in Details /\ d.submitting = TRUE /\ d.polls = detail.polls
    BY <1>0 DEF Details
  <2>3. new.here /\ new.what = "enrol" /\ new.row = 0
    OBVIOUS
  <2>4. Painted # {} /\ ~detail.submitting
    BY <2>1 DEF Button
  <2>5. at.page = "activity"
    BY <2>4 DEF Painted, Inductive, DetailPart
  <2>6. \A c \in calls : ~c.here
    BY <2>4, <2>5 DEF Waits, Pressed, HereFor
  <2> HIDE DEF d, new
  <2>7. /\ detail'.submitting = TRUE /\ detail'.polls <= MaxPolls
        /\ detail'.polls > 0 => Interval(detail') # 0
    BY <1>0, <2>1, <2>2, RenderPolls DEF Waits
  <2>8. Pressed'
    <3>1. new.what \in Enrolling
      BY <2>3 DEF Enrolling
    <3> QED BY <2>1, <2>3, <2>5, <2>6, <2>7, <3>1, PressedNew DEF Waits
  <2>9. Polled'
    BY <2>7 DEF Polled, Interval, Phase
  <2> QED BY <2>1, <2>8, <2>9 DEF Waits, Ordered, NoOrderShown
<1>8. CASE AskToSignIn
  <2>1. Go(Elsewhere, calls) /\ UNCHANGED <<rows, due>> /\ Elsewhere \in Addresses
    BY <1>8 DEF AskToSignIn, serverVars, Addresses
  <2> QED BY <2>1, GoWaits
<1> QED BY <1>1, <1>2, <1>3, <1>4, <1>5, <1>6, <1>7, <1>8 DEF OnActivity

LEMMA CallsWait ==
  ASSUME Inductive, Inductive', Waits, OnCalls
  PROVE  Waits'
<1>0. /\ calls \subseteq Calls /\ detail \in Details /\ receipt \in Receipts
      /\ rows \in Seq(EnrolmentRows) /\ Len(rows) \in Nat /\ \A c \in calls : Truthful(c)
      /\ detail.polls \in Nat
  BY DEF Inductive, CallPart, DetailPart, ReceiptPart, ServerPart, Details
<1>1. ASSUME NEW c, NEW result, NEW order, Accept(c, result, order), due' = due
      PROVE  (due \subseteq Ordered)'
  <2>1. rows' = Append(rows, [result |-> result, order |-> order])
    BY <1>1 DEF Accept
  <2> DEFINE new == [result |-> result, order |-> order]
  <2> HIDE DEF new
  <2>2. Len(rows') = Len(rows) + 1 /\ \A r \in 1..Len(rows) : rows'[r] = rows[r]
    BY <1>0, <2>1 DEF new
  <2> QED BY <1>0, <1>1, <2>2, DuesKept DEF Waits
<1>2. ASSUME NEW c \in calls, c.what = "enrol", Told(c), calls' = calls \ {c}, UNCHANGED <<at, receipt>>
      PROVE  Polled' /\ Pressed'
  <2>1. CASE c.here
    <3> DEFINE d == [detail EXCEPT !.submitting = FALSE]
    <3>1. d \in Details /\ d.submitting = FALSE /\ d.polls = detail.polls
      BY <1>0 DEF Details
    <3>2. detail' = Rendered(d)
      BY <1>2, <2>1 DEF Told
    <3> HIDE DEF d
    <3>3. /\ detail'.submitting = FALSE /\ detail'.polls <= MaxPolls
          /\ detail'.polls > 0 => Interval(detail') # 0
      BY <1>0, <3>1, <3>2, RenderPolls DEF Waits
    <3>4. Pressed'
      BY <1>2, <2>1, <3>3, PressedTold DEF Waits, Paying
    <3> QED BY <3>3, <3>4 DEF Polled, Interval, Phase
  <2>2. CASE ~c.here
    <3>1. detail' = detail
      BY <1>2, <2>2 DEF Told
    <3>2. Pressed'
      BY <1>2, <2>2, <3>1, PressedFewer DEF Waits
    <3> QED BY <3>1, <3>2 DEF Waits, Polled, Interval, Phase
  <2> QED BY <2>1, <2>2
<1>3. ASSUME UNCHANGED detail PROVE Polled'
  BY <1>3 DEF Waits, Polled, Interval, Phase
<1>4. ASSUME NEW c \in calls, EnrolQueued(c) \/ EnrolFailed(c) PROVE Waits'
  <2>1. /\ c.what = "enrol" /\ Told(c) /\ calls' = calls \ {c} /\ UNCHANGED <<due, at, receipt>>
        /\ rows' = rows \/ Accept(c, "QUEUING", "none")
    BY <1>4 DEF EnrolQueued, EnrolFailed
  <2>2. (due \subseteq Ordered)'
    BY <1>1, <2>1 DEF Waits, Ordered
  <2> QED BY <1>2, <2>1, <2>2 DEF Waits, NoOrderShown
<1>5. ASSUME NEW c \in calls, EnrolPlaced(c) PROVE Waits'
  <2> DEFINE new == [c EXCEPT !.what = "lookup", !.row = Len(rows')]
  <2>1. /\ c.what = "enrol" /\ Accept(c, "SUCCESS", "PENDING") /\ calls' = (calls \ {c}) \cup {new}
        /\ UNCHANGED <<due, at, detail, receipt>>
    BY <1>5 DEF EnrolPlaced, pageVars
  <2>2. new.here = c.here /\ new.what = "lookup"
    BY <1>0 DEF Calls
  <2> HIDE DEF new
  <2>3. Pressed'
    BY <2>1, <2>2, PressedOn DEF Waits, Enrolling
  <2> QED BY <1>1, <1>3, <2>1, <2>3 DEF Waits, NoOrderShown
<1>6. ASSUME NEW c \in calls, NEW page \in {"order", "status"}, EnrolFollowed(c, page) PROVE Waits'
  <2> DEFINE to == Address(page, c.row)
  <2>1. /\ c.what = "lookup" /\ Go(to, calls \ {c}) /\ UNCHANGED <<rows, due>>
    BY <1>6 DEF EnrolFollowed, serverVars
  <2>2. c.row \in Ids
    BY <1>0, <2>1, EnrolmentPagesAssumption
    DEF Truthful, Ids, Inductive, ServerPart, EnrolmentPagesAssumption
  <2>3. to \in Addresses
    BY <2>2 DEF Addresses
  <2>4. Led(to).page \in {"order", "status", "elsewhere"}
    BY DEF Led, Elsewhere, Address
  <2>5. c.here => at.page = "activity"
    BY <2>1 DEF Waits, Pressed, Enrolling, Paying
  <2> HIDE DEF to
  <2>6. \A d \in calls \ (calls \ {c}) : d.here => Led(to).page # at.page
    BY <2>4, <2>5
  <2> QED BY <2>1, <2>3, <2>6, GoWaits
<1>7. ASSUME NEW c \in calls, PayServed(c) PROVE Waits'
  <2> DEFINE new == [c EXCEPT !.what = "paid"]
  <2>1. /\ c.what = "pay" /\ rows[c.row].order = "PENDING"
        /\ rows' = [rows EXCEPT ![c.row].order = "PAID"]
        /\ calls' = (calls \ {c}) \cup {new} /\ UNCHANGED <<due, at, detail, receipt>>
    BY <1>7 DEF PayServed, pageVars
  <2>2. new.here = c.here /\ new.what = "paid"
    BY <1>0 DEF Calls
  <2> HIDE DEF new
  <2>3. Pressed'
    BY <2>1, <2>2, PressedOn DEF Waits, Paying
  <2>4. c.row \in 1..Len(rows)
    BY <1>0, <2>1 DEF Truthful
  <2>5. Len(rows') = Len(rows) /\ \A r \in 1..Len(rows) : rows[r].order # "none" => rows'[r].order # "none"
    <3>1. rows[c.row] \in EnrolmentRows
      BY <1>0, <2>4
    <3>2. \A r \in 1..Len(rows) : rows'[r] = IF r = c.row THEN [rows[r] EXCEPT !.order = "PAID"] ELSE rows[r]
      BY <1>0, <2>1
    <3>3. [rows[c.row] EXCEPT !.order = "PAID"].order = "PAID"
      BY <3>1 DEF EnrolmentRows
    <3> QED BY <1>0, <2>1, <3>2, <3>3
  <2>6. (due \subseteq Ordered)'
    BY <1>0, <2>1, <2>5, DuesKept DEF Waits
  <2> QED BY <1>3, <2>1, <2>3, <2>6 DEF Waits, NoOrderShown
<1>8. ASSUME NEW c \in calls, PayArrived(c) \/ PayFailed(c) PROVE Waits'
  <2>1. /\ c.what \in Paying /\ calls' = calls \ {c} /\ UNCHANGED <<rows, due, at, detail>>
        /\ receipt' = receipt \/ c.here
        /\ c.here => \/ receipt' = [receipt EXCEPT !.paying = FALSE, !.status = "PAID"]
                     \/ receipt' = [receipt EXCEPT !.paying = FALSE]
    BY <1>8 DEF PayArrived, PayFailed, serverVars, Paying
  <2>2. c.here => receipt'.paying = FALSE
    BY <1>0, <2>1 DEF Receipts
  <2>3. Pressed'
    <3>1. CASE c.here
      <4>1. c.what \notin Enrolling
        BY <2>1 DEF Enrolling, Paying
      <4> QED BY <2>1, <2>2, <3>1, <4>1, PressedTold DEF Waits
    <3>2. CASE ~c.here
      <4>1. receipt' = receipt
        BY <2>1, <3>2
      <4> QED BY <2>1, <3>2, <4>1, PressedFewer DEF Waits
    <3> QED BY <3>1, <3>2
  <2>4. c.here => at.page = "order"
    BY <2>1 DEF Waits, Pressed, Enrolling, Paying
  <2>5. NoOrderShown'
    BY <2>1, <2>4 DEF Waits, NoOrderShown
  <2> QED BY <1>3, <2>1, <2>3, <2>5 DEF Waits, Ordered
<1> QED BY <1>4, <1>5, <1>6, <1>7, <1>8 DEF OnCalls

\* The rows of the orders' pages, and the server: neither presses a button
\* but the one that pays.
LEMMA OthersWait ==
  ASSUME Inductive, Inductive', Waits, OnStatus \/ OnOrders \/ OnServer
  PROVE  Waits'
<1>0. /\ calls \subseteq Calls /\ receipt \in Receipts
      /\ rows \in Seq(EnrolmentRows) /\ Len(rows) \in Nat /\ 0 \in Numbers
      /\ \A r \in 1..Len(rows) : rows[r].result = "QUEUING" => rows[r].order = "none"
  BY DEF Inductive, CallPart, ReceiptPart, ServerPart, Numbers
<1>1. CASE OnStatus
  <2>1. UNCHANGED <<rows, due, at, detail, receipt, calls>>
    BY <1>1 DEF OnStatus, StatusArrived, OrderLookedUp, StatusFailed, PollStatus, InProgress, serverVars
  <2> QED BY <1>0, <2>1, SamePageWaits
<1>2. CASE OnOrders
  <2>1. ASSUME UNCHANGED <<rows, due, at, detail, calls>>, receipt'.paying = receipt.paying,
               receipt'.status = receipt.status \/ at.page = "order"
        PROVE  Waits'
    <3>1. Pressed'
      BY <2>1, PressedFewer DEF Waits
    <3> QED BY <2>1, <3>1 DEF Waits, Polled, Interval, Phase, Ordered, NoOrderShown
  <2>2. ASSUME NEW o, OrdersArrived(o) PROVE Waits'
    BY <2>1, <2>2 DEF OrdersArrived, serverVars
  <2>3. ASSUME NEW l \in receipt.loads, NEW status, OrderArrived(l, status) PROVE Waits'
    <3>1. receipt'.paying = receipt.paying /\ at.page = "order"
      BY <1>0, <2>3 DEF OrderArrived, InReceipt, Receipts, Inductive, ReceiptPart
    <3> QED BY <2>1, <2>3, <3>1 DEF OrderArrived, InReceipt, serverVars
  <2>4. ASSUME NEW l \in receipt.loads, ActivityArrived(l) \/ OrderFailed(l) PROVE Waits'
    <3>1. receipt'.paying = receipt.paying /\ receipt'.status = receipt.status
      BY <1>0, <2>4 DEF ActivityArrived, OrderFailed, InReceipt, Receipts
    <3> QED BY <2>1, <2>4, <3>1 DEF ActivityArrived, OrderFailed, InReceipt, serverVars
  <2>5. CASE Tick
    <3>1. receipt'.paying = receipt.paying /\ receipt'.status = receipt.status
      BY <1>0, <2>5 DEF Tick, InReceipt, Receipts
    <3> QED BY <2>1, <2>5, <3>1 DEF Tick, InReceipt, serverVars
  <2>6. CASE Pay
    <3> DEFINE new == [what |-> "pay", of |-> 0, row |-> receipt.shown, here |-> TRUE]
    <3>1. /\ receipt.status = "PENDING" /\ ~receipt.paying
          /\ receipt' = [receipt EXCEPT !.paying = TRUE] /\ calls' = calls \cup {new}
          /\ UNCHANGED <<rows, due, at, detail>>
      BY <2>6 DEF Pay, CanPay, serverVars
    <3>2. new.here /\ new.what = "pay" /\ receipt'.paying = TRUE
      BY <1>0, <3>1 DEF Receipts
    <3>3. at.page = "order"
      BY <3>1 DEF Waits, NoOrderShown
    <3>4. \A c \in calls : ~c.here
      BY <3>1, <3>3 DEF Waits, Pressed, HereFor
    <3> HIDE DEF new
    <3>5. Pressed'
      BY <3>1, <3>2, <3>3, <3>4, PressedNew DEF Waits, Paying
    <3> QED BY <3>1, <3>3, <3>5 DEF Waits, Polled, Interval, Phase, Ordered, NoOrderShown
  <2> QED BY <1>2, <2>2, <2>3, <2>4, <2>5, <2>6 DEF OnOrders
<1>3. CASE OnServer
  <2>1. UNCHANGED <<at, detail, receipt, calls>>
    BY <1>3 DEF OnServer, Pass, Finalize, Expire, CloseExpired, InServer, pageVars
  <2>2. Pressed'
    BY <2>1, PressedFewer DEF Waits
  <2>3. Polled'
    BY <2>1 DEF Waits, Polled, Interval, Phase
  <2>4. (due \subseteq Ordered)'
    <3>1. ASSUME NEW a \in Activities, Pass(a) PROVE (due \subseteq Ordered)'
      BY <3>1 DEF Pass, Waits, Ordered
    <3>2. ASSUME NEW r \in 1..Len(rows), Finalize(r) \/ CloseExpired(r) PROVE (due \subseteq Ordered)'
      <4>1. /\ due' = due
            /\ \/ rows' = [rows EXCEPT ![r].result = "SUCCESS", ![r].order = "PENDING"]
               \/ rows' = [rows EXCEPT ![r].result = "FAILED"]
               \/ rows' = [rows EXCEPT ![r].order = "CLOSED"]
        BY <3>2 DEF Finalize, CloseExpired
      <4>2. rows[r] \in EnrolmentRows
        BY <1>0
      <4>3. Len(rows') = Len(rows) /\ \A q \in 1..Len(rows) : q # r => rows'[q] = rows[q]
        BY <1>0, <4>1
      <4>4. rows[r].order # "none" => rows'[r].order # "none"
        BY <1>0, <4>1, <4>2 DEF EnrolmentRows
      <4> QED BY <1>0, <4>1, <4>3, <4>4, DuesKept DEF Waits
    <3>3. ASSUME NEW r \in 1..Len(rows), Expire(r) PROVE (due \subseteq Ordered)'
      BY <3>3 DEF Expire, Waits, Ordered
    <3> QED BY <1>3, <3>1, <3>2, <3>3 DEF OnServer
  <2> QED BY <2>1, <2>2, <2>3, <2>4 DEF Waits, NoOrderShown
<1> QED BY <1>1, <1>2, <1>3

LEMMA FirstWaits == EnrolmentInit => Waits
<1> SUFFICES ASSUME EnrolmentInit PROVE Waits
  OBVIOUS
<1>1. due = {} /\ at = Elsewhere /\ detail = NoDetail /\ receipt = NoReceipt /\ calls = {}
  BY DEF EnrolmentInit
<1>2. Polled
  BY <1>1, EnrolmentPagesAssumption DEF Polled, NoDetail, EnrolmentPagesAssumption
<1>3. Pressed
  BY <1>1 DEF Pressed, HereFor, NoDetail, NoReceipt
<1>4. NoOrderShown
  BY <1>1 DEF NoOrderShown, NoReceipt
<1> QED BY <1>1, <1>2, <1>3, <1>4 DEF Waits

LEMMA WaitsStep == Inductive /\ Inductive' /\ Waits /\ [EnrolmentNext]_enrolmentVars => Waits'
<1> SUFFICES ASSUME Inductive, Inductive', Waits, [EnrolmentNext]_enrolmentVars PROVE Waits'
  OBVIOUS
<1>1. CASE UNCHANGED enrolmentVars
  <2>1. UNCHANGED <<rows, due, at, detail, receipt, calls>> /\ 0 \in Numbers
    BY <1>1 DEF enrolmentVars, serverVars, pageVars, Numbers
  <2> QED BY <2>1, SamePageWaits
<1> QED BY <1>1, MovesWait, ActivityWaits, CallsWait, OthersWait DEF EnrolmentNext

LEMMA TypesFollow == Inductive /\ Waits => EnrolmentTypeOK
<1> SUFFICES ASSUME Inductive, Waits PROVE EnrolmentTypeOK
  OBVIOUS
<1>1. /\ at \in Addresses /\ Len(rows) <= MaxRows /\ due \subseteq Ordered /\ reminders \subseteq Activities
      /\ detail.state = "none" <=> at.page # "activity"
      /\ rows \in Seq(EnrolmentRows)
  BY DEF Inductive, Waits, ServerPart, DetailPart
<1>2. detail.polls \in 0..MaxPolls /\ (detail.polls > 0 => Interval(detail) # 0)
  <2>1. detail.polls \in Nat /\ MaxPolls \in Nat
    BY EnrolmentPagesAssumption DEF Inductive, DetailPart, Details, EnrolmentPagesAssumption
  <2> QED BY <2>1 DEF Waits, Polled
<1>3. /\ detail.submitting <=> \E c \in calls : c.here /\ c.what \in {"enrol", "lookup"}
      /\ receipt.paying <=> \E c \in calls : c.here /\ c.what \in {"pay", "paid"}
  BY DEF Waits, Pressed, HereFor, Enrolling, Paying
<1>4. calls \subseteq [what : {"enrol", "lookup", "pay", "paid"}, of : Activities \cup {0},
                      row : 0..MaxRows, here : BOOLEAN]
  <2> SUFFICES ASSUME NEW c \in calls
               PROVE  c \in [what : {"enrol", "lookup", "pay", "paid"}, of : Activities \cup {0},
                             row : 0..MaxRows, here : BOOLEAN]
    OBVIOUS
  <2>1. c \in Calls /\ Truthful(c) /\ (c.what = "enrol" => c.row = 0)
    BY DEF Inductive, CallPart, Waits, Pressed
  <2>2. Len(rows) \in Nat /\ MaxRows \in Nat
    BY <1>1, EnrolmentPagesAssumption DEF EnrolmentPagesAssumption
  <2>3. c.row \in 0..MaxRows
    BY <1>1, <2>1, <2>2 DEF Truthful
  <2> QED BY <2>1, <2>3 DEF Calls, Numbers
<1> QED BY <1>1, <1>2, <1>3, <1>4 DEF EnrolmentTypeOK

\* The button of the activity page and that of the order page are disabled
\* exactly while the page's own request is under way, however the history
\* leads from page to page; no poll goes on that nobody asked for; and what
\* is due for closing has an order (handlePrimaryAction, handlePay, useEffect).
THEOREM PagesWaitForTheirOwn == EnrolmentSpec => []EnrolmentTypeOK
<1>1. EnrolmentInit => Inductive /\ Waits
  BY EnrolmentPagesAssumption, InductiveInit, FirstWaits
<1>2. Inductive /\ Waits /\ [EnrolmentNext]_enrolmentVars => Inductive' /\ Waits'
  BY NextStep, Stutter, WaitsStep
<1> QED BY <1>1, <1>2, TypesFollow, PTL DEF EnrolmentSpec
===============================================================================
