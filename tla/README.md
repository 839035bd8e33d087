# A verification of the UAAD ticket platform

UAAD sells seats of activities under rush load: a Go backend (`src/backend`,
Gin, GORM on MySQL, Redis with a Lua script, kafka-go) and a React frontend
(`src/frontend`). This directory holds TLA+ modules of its core, the TLC
configurations that check them, and theorems that TLAPS proves about them.

    tlc -workers 2 -config engine_handled.cfg MCTicketEngine.tla
    tlapm TicketEngine_proofs.tla

## 1. Inventory

How a seat travels: a merchant publishes an activity, which warms Redis up. A
user's enrolment request reads the activity from MySQL, runs the Lua script in
Redis (checks the user's mark, takes a seat, marks the user), puts a message
on Kafka and answers QUEUING. One worker goroutine reads the messages and
inserts an enrolment and a PENDING order in one MySQL transaction; if that
fails it returns the seat to Redis. The user pays within 15 minutes, or a
scanner goroutine closes the order and returns the seat.

| Component | State | Operations | What is hard | What makes it correct |
|---|---|---|---|---|
| Stock engine (`service/stock_lua.go`) | Redis: stock, enrolled set, queue counter | TryEnroll (script), Rollback, WarmUp (pipelines) | the pipelines are no transactions; replies get lost | no seat made or lost; one seat per user |
| Enrolment API (`service/enrollment_service.go`) | none of its own | Create, GetStatus, ListByUser | the checks read MySQL before the script runs; the message is sent after the answer | a failed request leaves nothing behind |
| Kafka clients (`infra/kafka.go`) | batch, topic, committed offset | asynchronous write, read with commits on a ticker | loss, duplicates, redelivery, commit before handling | each reservation is handled once |
| Worker (`worker/enrollment_worker.go`) | the message in hand | handleMessage | crash between steps; any transaction failure counts as "no order" | an order or a returned seat, and a true notification |
| Orders (`service/order_service.go`) | orders, enroll_count | Pay, ScanExpired, Detail, ListByUser | check and write are two statements; two writers | PAID and CLOSED are final; every expired order is closed and returns its seat |
| Activities (`service/activity_service.go`) | activities row | Create, Update, Publish, lists, Stock | whole-row saves after an earlier read; MySQL and Redis are written one after the other | published fields stay; stock matches capacity |
| Notifications (`service/notification_service.go`) | notifications rows | Notify*, List, MarkRead, UnreadCount | best effort; two of the four notifiers have no caller | a user is told the truth |
| Recommendations (`service/recommendation_service.go`) | scores in MySQL, lists in a map of the process with a lifetime of five minutes | GetHot, GetRecommendations, RecalculateAllScores | queries race the recalculation and its emptying of the map; scores and ranks are rewritten one by one | lists and ranks follow the scores once a recalculation is over |
| Behaviour (`service/behavior_service.go`) | behaviour rows | Submit, SubmitBatch | validation of a batch | all of a batch or none |
| Accounts (`service/auth_service.go`, `middleware/auth_jwt.go`) | users | Register, Login, Profile | check, then insert | one account per phone |
| Rate limiter (`middleware/rate_limit.go`) | map of limiters | GetLimiter | read lock, then write lock | one limiter per user |
| Frontend session (`api/axios.ts`, `context/AuthContext.tsx`, `pages/Login.tsx`, `pages/Register.tsx`, `components/ProtectedRoute.tsx`) | localStorage, React state of each tab, the address, the router state | load and restore, log in, register, log out, the 401 interceptor | late answers, several tabs, a timer | token and identity belong together; a session that ended stays ended; one gets where one wanted to go |
| Notification centre (`utils/notificationState.ts`, `hooks/useNotificationCount.ts`, `pages/Notifications.tsx`, `components/public/PublicHeader.tsx`) | read ids in localStorage, a copy per tab, badge, panel, list | mark as read, load, hear of another tab | read-modify-write from several tabs; lists asked for before and answered after | read stays read; bell and page agree |
| Preferences (`hooks/useUserPreferences.ts`, `usePreferredCity.ts`, `pages/Profile.tsx`, `pages/Settings.tsx`) | localStorage, a copy per tab or component | patch, upload, reset | patches of what was shown earlier | what was set last is kept |
| Enrolment pages (`pages/ActivityDetail.tsx`, `EnrollStatus.tsx`, `Orders.tsx`, `OrderDetail.tsx`) | what the page shows, reminders in localStorage | load, poll, enrol, remind, pay | answers out of order; polls that end; ids that change under a mounted page | the page shows what its address names; no result is waited for unasked |
| Lists (`pages/PublicActivities.tsx`, `Home.tsx`, `HomeCityAtlas.tsx`, `Pagination.tsx`, `api/endpoints/activities.ts`) | address, list, banner, registered maps | filter, sort, page, click | the browser refines what the server cannot; maps are fetched out of order | a list is what its address asks for |
| Merchant pages (`pages/Merchant*.tsx`, `MerchantForm.tsx`) | board, form | load, publish, create, update | no late answer is dropped | a form is saved under its own activity |

Metrics, configuration, seeds and scripts keep no state that another part
depends on. `PROJECT.json` lists every component with its status,
and under `hazards` what can go wrong in each, at its line, with the properties
that would notice.

## 2. Modules

| Module | Stands for |
|---|---|
| `StockEngine` | the Redis keys of one activity. The script is one step; each command of a pipeline is a step of its own |
| `SeatLedger` | the abstract specification: seats on sale, and per user none, reserved, sold, returning |
| `TicketEngine` (over `StockEngine`) | enrolment requests, Kafka, worker, Pay and scanner for one published activity |
| `ActivityLifecycle` (over `StockEngine`) | Create, Update and Publish of one activity, the warm-up, and users who enrol meanwhile |
| `Recommendations` | the two lists, their cache and the recalculation, in one process |
| `FrontendSession` | who is signed in, in several tabs and at the server |
| `Browser` | the tabs that share one localStorage |
| `NotificationCentre` (over `Browser`) | which notifications are read, in several tabs and at the server |
| `UserPreferences` (over `Browser`) | preferences and the preferred city, in several tabs |
| `EnrolmentPages` | the activity, status and order pages of one tab, and the server behind them |
| `ListingPages` | the activity list, the home page and its atlas |
| `CityAtlas` | what the numbers of the home page's map count, and the list a click on a city leads to |
| `MerchantPages` | dashboard, list and forms of a merchant |
| `TicketEngine_proofs`, `ActivityLifecycle_proofs`, `FrontendSession_proofs`, `NotificationCentre_proofs`, `EnrolmentPages_proofs`, `MerchantPages_proofs` | theorems about the module each is named for |
| `Copies_proofs` | theorems about `UserPreferences` and `Recommendations`, and about `MCCopies`, which joins them with `NotificationCentre` |
| `Pages_proofs` | theorems about `CityAtlas` and `ListingPages`, and about `MCPages`, which joins them with the other pages |
| `MCTicketEngine`, `MCActivityLifecycle`, `MCFrontendSession`, `MCCopies`, `MCPages` | model values, symmetry and instances for TLC |

The modules meet at the server's answers: `ActivityLifecycle` publishes what
`TicketEngine` sells and `Recommendations` and `ListingPages` list;
`EnrolmentPages` shows what becomes of an enrolment that `TicketEngine` works
on; `FrontendSession` says who asks. No module of the frontend reads the state
of another one, and none of the backend's waits for a page, so they are
composed where state is shared (`StockEngine` under two modules, `Browser`
under two) and checked apart where it is not.

### TicketEngine

Every goroutine is a process `p` with `job[p] = [at, user]`: a request at
`checked` has passed the checks of `Create`, at `reserved` it has a seat and no
message yet, at `paying` it has read a payable order; the worker is `handling`
a message, then `succeeded` or `failed` until it has notified; the scanner is
`scanning`; all three pass through `refund` and `unmark`, the two commands of
`Rollback`. A step of a process ends where the code does I/O another process
can observe.

* `order[u]` stands for the enrolment row and the order row of `u`, which are
  inserted together and never deleted. The unique index on (user, activity) is
  the guard `order[u] = "none"` of `InsertRows`. Time is the set `overdue` of
  users whose order's deadline has passed.
* `topic` begins at the committed offset; `cursor` messages of it are handed
  out. `CommitOffsets` commits any number of them, finished or not, because
  the reader's ticker does. One partition, as the broker's default gives.
* `auditCount` is `enroll_count`. The scanner decrements it, nothing
  increments it.
* `minted` and `leaked` are history variables. They count the steps at which
  the code lets a second claim to one seat arise (a redelivered or repeated
  message, a lost COMMIT answer, a repeated rollback, a payment of a closed
  order) and those at which the last claim to a seat is forgotten (a lost
  message, a crash, a lost reply). Every other action has to balance the seats
  by itself, which is what `SeatConservation` tests.
* `Faults` chooses which faults may strike, `MaxFaults` how many. Errors that
  the code handles (a full stock, a write refused at once, a failed
  transaction, a failed UPDATE) are no faults: they are always possible.
* `TimelyPay = TRUE` assumes that no `Pay` is between its check and its write
  when the order's deadline passes.

Left out: prices, queue numbers, order numbers (a collision is one of the
transaction failures of `PersistFails`), the text of notifications, requests
that fail in their checks, reads that change nothing, and messages that do not
unmarshal (only this program writes to the topic).

Properties:

* `SeatConservation`: stock + seats claimed = capacity + `minted` - `leaked`.
* `OneSeatPerUser`: without a second claim, a user holds one seat at most, and
  whoever holds one is marked in Redis.
* `EveryMarkAccounted`: without faults, a marked user holds a seat or is being
  unmarked; the handled errors lock nobody out.
* `NoticeTruthful`: a user with an order was last told of success.
* `OrderFinal`: PAID and CLOSED are final.
* `OversellBounded`: live orders exceed the capacity by `minted` at most.
* `ImplementsLedger`: the engine implements `SeatLedger`. A user is *sold* with
  a live order, *returning* while some process is at `refund` for the user,
  *reserved* while a process, the batch or the topic holds the user's seat.
  `Unmark`, notifications, offsets and the window are stutters.
* `ReservationSettles`, `SeatReturns` (of the ledger) and `OverdueOrderEnds`:
  liveness.

### ActivityLifecycle

A request of the merchant reads the row (`ReadForUpdate`, `ReadForPublish`),
which includes all checks and the changes to its copy, and saves the whole copy
later, as GORM's `Save` does. Any number of requests may overlap: a save makes
the copies of the others `outdated`, and a save of such a copy, which undoes what
was saved in between, sets `stale`. A save whose answer is lost is a save
followed by the end of the request.

`Publish` then sends the pipeline of `WarmUp`: `WarmUpSet`, `WarmUpClear` (SET
and DEL, with other users' steps between them) and `WarmUpAnswered`. When the
connection breaks after SET or the answer is lost, go-redis sends the pipeline
again (`WarmUpResent`, `WarmUpSetAgain`), at most `MaxResends` times; `resent`
counts that, `resold` remembers the seats that had been taken by then and `early`
the users served while a warm-up was under way. If the client gives up, the code
only logs (`WarmUpFails`); `cold` remembers that SET did not run. Left out: a
first sending that Redis executes only after a second one.

Users pass the checks of `Create` and run the script in two steps. Of the row
the model keeps status, capacity and window. `given` is the sequence of the
users served; the seats taken are its length. `Update` accepts any integer
as the capacity (only `Create` has a minimum), so the runs include -1.

Properties: `PublishedFrozen` (status, capacity and opening time of a published
row change only by the save of an outdated copy), and, as long as no such copy
was saved, `SeatsMatchCapacity` (stock and the seats taken since the last SET add
up to the published capacity; `SoldPerSending`: at most the capacity is given out
for each time the warm-up was sent), `NoSaleBeforeOpening`, `OneSeatPerActivity`
(except for users served while the warm-up was under way) and
`PublishedGoesOnSale`.

### Recommendations

A request misses in the map, asks the database query after query (`Query`),
and stores what it made (`SetCache`); no lock is held in between. A
recalculation scores the published activities one by one, ranks the rows one by
one, and empties the map, unless it stops at an error. `MergeRecommendations`
and `Queries` are the four mixes with the numbers of rows the code asks for.
The id of an activity breaks every tie. `OrderBy` is SQL's ORDER BY: a row's
place is the number of rows ordered before it, plus one. The mix of similar
users is ordered by how many of them looked at an activity (`Common`, a
constant) and by score only among equals, and the limit of its subquery cuts
before unpublished activities are left out (`SimilarTo`). A hit changes nothing
and is not a step. Entries that have outlived their five minutes disappear (`Expire`).

`RankedAsScored`: after a recalculation that came to its end, stored ranks and
every list in the map follow the scores (with similar users: where as many of
them looked at both), except a list whose request had queried before the map was
emptied and stored its answer afterwards. That exception is real: such a list is
served for its five minutes.

### FrontendSession

`stored` is localStorage, `session[t]` what the AuthProvider of tab `t` holds.
A request takes the token that is stored when it is sent; its answer acts in
the tab whenever it arrives. A request's `on` says whether the effect or page
that sent it is still there, which the restore effect asks and the login page
does not. `Render` settles every change of session or address: the guard's
`<Navigate>`, the unmounting of a page with its form, the cleanup of the
restore effect. Tabs do not hear of each other's changes: AuthContext listens to
no storage event.

Properties: `SessionsCoherent` (token and identity belong together),
`StorageAndTabsTogether`, `SessionReturnsOnlyByLogin`, `LoginLandsInside`,
`BlankOnlyWhileRestoring` (a guarded page is blank only while the profile that
ends it is under way).

### NotificationCentre and UserPreferences

Both keep a value in localStorage that every tab reads into a copy, patches and
writes back; a write reaches other tabs as a storage event, some time later
(`StorageEvent`, `Hear`), and the writing tab's own components at once.
`NotificationCentre` adds the server, which is told of each read item by a
request that may fail, and the lists of bell, panel and page, which may be
answered before or after. History variables say what the storage alone cannot:
`marked` (the user has read it), `raced` (another tab wrote over it), `refused`
(its PUT failed); `wanted` and `overwritten` for preferences.

Properties: `TwoFailuresToForget`, `ReadStaysRead`, `BadgeSettles`,
`LastSettingKept`.

### EnrolmentPages, ListingPages, MerchantPages

One tab each, which shows one page at a time; a page that stays mounted while
its id changes is the same component with the same state, as in React Router.
Loads and calls carry whether their effect is still active (`here`) where the
code asks, and act regardless where it does not. The servers behind them are
abstract: an enrolment becomes an order or fails, an order is paid or closed, a
merchant publishes elsewhere. `ListingPages` has the catalogue as a constant and
models what the server and the browser make of filter, order and page: rows are
a set of positions in the catalogue, an order gives each of them its place, and
a page is a slice of places (`Slice`, whose negative ends count from the end,
as JavaScript's do). The server orders by enrolments or by age and breaks no
ties; `Shuffles` are the orders in which MySQL may return the rows that tie, and
each answer picks one. The browser orders by `Relevance` (the weights of the
keyword, enrolments and views, times 500) or by enrolments and then views, and
its sort is stable on what the server sent. A page typed into the address may be
zero, negative or no number (`NaN`, on which the pager of a long list has only
NaN buttons); fractions are left out. The server is the backend, not the mock.

The server's steps in the other two modules are those that the backend takes, or,
where the frontend is written for answers that only the mock gives (an enrolment
that is placed at once), the mock's.

Properties: `ShownAsAddressed`, `QueuingIsPolled`, `PaidWasPaid`,
`ReminderTold`; `ListMatchesAddress`, `NothingOutOfReach`,
`DrawnMapRegistered`; `SavesItsOwn`, `PublishedStays`. Where the code drops no
late answer, a history variable (`strayed`, `crossed`, `overlapped`) marks the
moment and the property excepts exactly that.

### CityAtlas

`onMap` holds the activities the home page loaded, `drill` the province drilled
into; `ActivitiesArrived`, `DrillInto` and `DrillOut` change them, and all else
is computed, as the component does. Texts are sets of words: a location or a
name *includes* a key if it has all its words. `InferProvinceByLocation` and
`InferCitySearchKey` guess from a location (`data/geo.ts`), `Bucket` and
`CityDatum` count for each feature of the province's map, and `MatchesCity` is
the search that a click begins. The map files and tables are constants;
`TablesAssumption` and `MapsAssumption` say what of them the properties need.

Property: `CountedIsListed` (a number counts what the list shows, and no
activity twice).

A React handler and the render it causes are one step, and so are a render and
its effects. Texts, notices, colours, and the drafts of forms are left out.
StrictMode's double effects exist in development builds only.

## 3. Runs

| Run | Instance | Shows |
|---|---|---|
| `engine_handled` | 2 users, 2 requests, 2 seats, no faults, timely payments | all safety properties but `SeatConservation` and the refinement hold with every error the code handles (`engine_faults` and a theorem have `SeatConservation`) |
| `engine_liveness` | 2 users, 1 request, 1 seat | reservations settle, seats return, overdue orders end |
| `engine_faults` | 2 users, 1 request, 1 seat, up to two faults of any of the six kinds, late payments | conservation with counted claims; bounded overselling |
| `engine_redelivery` | 2 users, 1 seat, one redelivery | violation of `NoOversell` |
| `engine_pay_race` | 2 users, 1 seat, late payments | violation of `OrderFinal` |
| `engine_audit` | 2 users, 1 seat | violation of `AuditRolledBack` |
| `engine_reenrol` | 1 user, 1 seat | violation of `ReEnrolmentWorks` |
| `lifecycle` | 2 users, 2 merchant requests, capacities -1, 1, 2, clock 0..2, one repeated warm-up | the lifecycle's properties hold |
| `lifecycle_two_publishes` | 2 users, 2 merchant requests, capacity 1, no repeated warm-up | violation of `TakenWithinCapacity` |
| `session` | 2 tabs, a buyer and a merchant, 2 tokens, 1 expires, 2 requests under way | the properties of `FrontendSession` |
| `copies` | 2 tabs and 2 notifications; 2 tabs, the profile and the settings page; 2 activities, 2 lists | the properties of `NotificationCentre`, `UserPreferences`, `Recommendations` |
| `pages` | 2 activities, 2 enrolments; 7 activities in a list of pages of one; 2 activities of a merchant; 3 activities on the map | the properties of `EnrolmentPages`, `ListingPages`, `MerchantPages`, `CityAtlas` |

Bounds. Users and requests only interact through Redis, one order row each, and
the single worker and scanner. Two users are the least for which a seat can be
given to somebody else. Two requests let one user, or two, meet in the script. A
single seat makes users compete; two seats let a user who passes twice take
both. `MaxUncommitted = 1` bounds the messages handed out since the last commit
(the worker waits for the ticker when it is reached); one suffices for
redelivery, and the order of commits within a batch does not matter to any
property. Two faults let one fault meet the recovery from another (a crash, then
a message handed out again after a lost commit answer) and keep `engine_faults`
at 5 million states; the theorems below hold for any number. The clock of
`lifecycle` has room for a window that opens after publishing, one already open,
and one that has closed. One repetition of the warm-up can meet seats taken
before and after it; the theorems hold for any number. `lifecycle` does not
continue from a state in which an outdated copy was saved (`NotStale`): every
property but `PublishedFrozen` speaks only of the time before, the step that saves
the copy is itself checked, and the theorem on `PublishedFrozen` has no such
bound.

For the frontend, two tabs are the least that disagree, two users the least
whose sessions can be mixed, and two requests under way the least that can be
answered in the wrong order; a third token would let a third login happen, in
which nothing is new since only the stored token and those under way matter. Two
activities let an answer be about the other one. Two notifications on a page of
two let one be read while the other is marked. In `pages`, the seven activities
are one more than the browser may refine (`RefineRows`, 80 in the code) and more
pages than there are buttons; `MaxPage` is one beyond the last. Most of
the seven tie in enrolments and in age, a few differ in views, one by so much
that it comes before a better match of the keyword; two shuffles let ties fall
either way, also differently in two answers. Its atlas has two
provinces and a municipality, with a city that shares its province's name, one
of two words, one in no table, one that is a street's name elsewhere, and a
feature without a name; three activities on the map (`MaxOnMap`) let two be in
one bucket beside a third, and two degrees of heat (`MaxHeat` = 1) let one of
them be the top. `copies` has one
recommendation request at a time against the recalculation, and the user's three
mixes: two requests share nothing but the map, of which each writes its own
answer, and an answer that overwrites a newer one is one that was overtaken.

`copies` and `pages` hold independent modules in one run each: their `about`
chooses at the start whose behaviour it is, and the others rest. No step reads
another module's state, so no interleaving is lost.

Users and requests are interchangeable, so the safety runs use symmetry; the
liveness runs do not.

Fairness. `FairSpec` assumes weak fairness of what the Go scheduler, the
writer's batch timer, the reader's commit ticker and the scanner's ticker keep
doing. It assumes strong fairness of `CloseOrder`, because an UPDATE that MySQL
refuses is tried again at the next tick and nothing would follow if it were
refused for ever. New enrolments, payments, faults and closing the window are
not fair. `LifecycleFairSpec` assumes that a Publish that has begun is carried
on.

## 4. What the violations say

1. Redelivery (`engine_redelivery`). The worker treats the unique-key failure of
   a message it has already handled like any failure and gives the seat of the
   live order back.
2. Payment at the deadline (`engine_pay_race`). `Pay` and `ScanExpired` update by
   id alone, after a check on an earlier read.
3. Audit counter (`engine_audit`). `enroll_count` is never counted up, so closing
   an order cannot count it down, and the stock the API reports stays at the
   capacity.
4. Enrolling again (`engine_reenrol`). The scanner unmarks the user of an expired
   order, so Redis accepts the user's next enrolment, but the old enrolment row
   makes the worker fail each time. docs/SYSTEM_DESIGN.md:1548 cancels that row;
   the notice that would ask such users to enrol again is written
   (`NotifyOrderExpire`) but not sent yet.
5. Publishing twice at once (`lifecycle_two_publishes`). Both requests read
   DRAFT, both warm up.

The quotes are in `PROJECT.json`, "findings".

Met while modelling, without a run of their own:

* `Update` saves the row it read: overlapping a `Publish` it may set the activity
  back to a draft, or give it a capacity that the stock does not have
  (`activity_service.go:199`; the exception in `PublishedFrozen`).
* A warm-up whose answer is lost is sent again and sells once more the seats taken
  in between (`stock_lua.go:121`; `resold` in `SeatsMatchCapacity`).
* The list's ORDER BY breaks no ties (`activity_repository.go:78`), and as
  `enroll_count` never goes up, most rows tie in it: from one page to the next a row
  may come twice or not at all.
* `?page=abc` with more than five pages shows a pager of NaN buttons
  (`PublicActivities.tsx:33`, `Pagination.tsx:24`), which all lead to the first
  page, as do previous and next.
* A 401 to a request sent before logging in again ends the new session
  (`api/axios.ts:95`); the interceptor does not compare tokens.
* `EnrollStatus` keeps the last status on the screen when its id changes, and
  polls no more after one error.
* `MerchantActivityEdit` and `MerchantActivities` drop no late answer (the
  exceptions in `SavesItsOwn` and `PublishedStays`).
* The home page asks for 120 activities and gets 20 (`pages/Home.tsx:55`,
  `activity_service.go:231`).
* When the map of the country cannot be loaded, the atlas shows its skeleton for
  ever: the error text is behind `!nationalReady` (`HomeCityAtlas.tsx:580`).
* A city whose short name is of several words (大理白族自治州 gives 大理白族) is
  counted on the atlas, but its click searches for a text no location contains
  (the exception in `CountedIsListed`; `HomeCityAtlas.tsx:222`, `geo.ts:133`).
  In a municipality the key is the municipality's own name, which the names of
  its districts rarely include, so most numbers there are made up; and a
  street (香港路) may put an activity into another province.
* The mock answers a wrong password with 401, which the interceptor takes for
  the end of the session; the backend answers 400.
* The fresh part of the mix for guests never shows: the hot part already has
  `limit + offset` rows, or all there are (`recommendation_service.go:204`),
  though docs/RECOMMENDATION_DESIGN.md:398 promises five new activities. In the
  collaborative mix the quotas grow with the offset, so a page may skip an
  activity and repeat another (limit 5, nobody similar: the first page ends with
  one fresh activity, the second begins with the sixth hot one).
* docs/RECOMMENDATION_DESIGN.md:286 lets a user's behaviour empty the user's
  cached list; no code does.
* Nothing writes an enrolment with the status QUEUING (the worker inserts
  finished rows); `EnrollStatus` polls for it, as the API documents.

## 5. Theorems

Each proof module states its theorems for every value of the constants that
the named assumptions allow: any finite set of users and requests, any capacity,
any number of faults, any number of overlapping requests and repeated warm-ups,
any set of tabs, notifications, activities, orders and maps. Two hypotheses are conditions on constants that the code alone does not
grant, and each theorem that needs one says so:

* `TimelyPay`: no `Pay` is between its check and its write when the order's
  deadline passes. Without it `OrderFinal` is false (run `engine_pay_race`).
* `Faults = {}`: none of the six faults can strike. Lost and repeated messages
  are no steps of the ledger.

The lifecycle needs none: where two overlapping requests break it (run
`lifecycle_two_publishes`), its properties say themselves that they hold until an
outdated copy is saved, and `PublishedFrozen` is about that save.

| Module | Theorem | States | Under |
|---|---|---|---|
| `TicketEngine` | `TypeCorrect` | `TypeOK` | |
| | `SeatsConserved` | `SeatConservation` | |
| | `OversellIsBounded` | `OversellBounded`, and `NoOversell` while `minted = 0` | |
| | `OneSeatEach` | `OneSeatPerUser` | |
| | `NoticesTruthful` | `NoticeTruthful` | |
| | `OrdersAreFinal` | `OrderFinal` | `TimelyPay` |
| | `MarksAccounted` | `EveryMarkAccounted` | `TimelyPay` |
| | `EngineImplementsLedger` | `ImplementsLedger` | `TimelyPay`, `Faults = {}` |
| | `OversellNeedsFaults` | live orders exceed the capacity by `struck * Burst` at most; without faults `NoOversell` | `TimelyPay` |
| `ActivityLifecycle` | `LifecycleTypeCorrect` | `LifecycleTypeOK` | |
| | `PublishedStaysFrozen` | `PublishedFrozen` | |
| | `StockMatchesCapacity` | `SeatsMatchCapacity` | |
| | `NobodyServedTwice` | `OneSeatPerActivity` | |
| | `NobodyServedEarly` | `NoSaleBeforeOpening` | |
| | `NobodyServedTooMany` | `SoldPerSending`, until an outdated copy is saved | |
| `FrontendSession` | `SessionTypeCorrect` | `SessionTypeOK` | |
| | `SessionsStayCoherent` | `SessionsCoherent` | |
| | `BlankPagesAreRestoring` | `BlankOnlyWhileRestoring` | |
| | `StorageAndTabsChangeTogether` | `StorageAndTabsTogether` | |
| | `SessionsReturnByLogin` | `SessionReturnsOnlyByLogin` | |
| | `LoginsLandInside` | `LoginLandsInside` | |
| `NotificationCentre` | `ForgottenAfterTwo` | `TwoFailuresToForget` | |
| | `BellSettles` | `BadgeSettles` | |
| | `ReadIsKept` | `ReadStaysRead` | |
| `EnrolmentPages` | `PagesShowTheirOwn` | `ShownAsAddressed` | |
| | `QueuingAsks` | `QueuingIsPolled` | |
| | `PaidIsPaid` | `PaidWasPaid` | |
| | `RemindersAreTold` | `ReminderTold` | |
| | `PagesWaitForTheirOwn` | `EnrolmentTypeOK` | |
| `MerchantPages` | `FormsSaveTheirOwn` | `SavesItsOwn` | |
| | `PublishedRowsStay` | `PublishedStays` | |
| | `FormsWaitForTheirOwn` | `MerchantTypeOK` | |
| `Pages` | `AtlasCountsWhatIsListed` | `CountedIsListed` | |
| | `ListingTypeCorrect` | `ListingTypeOK` | |
| | `ListsMatchTheirAddress` | `ListMatchesAddress` | |
| | `PagesAreInReach` | `NothingOutOfReach` | |
| | `DrawnMapsAreRegistered` | `DrawnMapRegistered` | |
| | `EveryRowOnOnePage` | as long as its order stays, each row wanted is on exactly one page | |
| | `PagesTypeCorrect` | `PagesTypeOK` | |
| `Copies` | `SettingsSurvive` | `LastSettingKept` and the types | |
| | `RecommendationTypeCorrect` | `RecommendationTypeOK` | |
| | `ListsFollowScores` | `RankedAsScored` | |
| | `CopiesTypeCorrect` | `CopiesTypeOK` | |

Beside these, each module has the theorem that its inductive invariant holds
(`InductiveHolds`, `ClaimsHold`, `PaymentsInTime`, `LifecycleInductiveHolds`,
`SessionInductive`, `CentreInductive`, `PagesInductive`,
`MerchantPagesInductive`, `ListingPagesInductive`). The assumptions are
`UsersAssumption` and `EngineAssumption`, `LifecycleAssumption`,
`SessionAssumption`, `CentreAssumption`, `PreferencesAssumption`,
`RecommendationAssumption`, `EnrolmentPagesAssumption`, `ListingAssumption`,
`MerchantAssumption`, `TablesAssumption` and `MapsAssumption`, and those on the
bounds; TLC evaluates them in the runs.

### TicketEngine: counting seats

`Inductive` is `TypeOK`, `WorkHasOrders` and `SeatConservation`. The part of
`TypeOK` on `job` ties a process's place to having a user, without which the
user in `Take` or `PayWrite` would have no type. `SeatConservation` alone is not
inductive: closing an order frees a seat only if the order is live (so `expired`
has to be a subset of the live orders, even after payments), and a payment
changes the number of live orders as counted only if there is an order row.
`HoldingCount` and `LiveCount` say what one process or one order that changes
does to the cardinalities, and `SeatsNext` has one step per action that adds the
changes up.

### TicketEngine: one claim each

A count of seats does not say whose they are. `ClaimedOnce` does: while
`minted = 0`, the batch and the unread part of the topic name each user at most
once, a user's claim is in one place only (one process, the batch, the topic or
a live order), and a claimant is marked. `MarksHeld` is the converse, without
faults. `SameKeeps` reduces a step to the users it is about, `HasGoto` to what a
process now holds, `UnreadAppend`, `UnreadRead` and `UnreadCommit` to what the
topic does. `SeatsOfClaims` turns the single claim back into the count that
`OneSeatPerUser` speaks of.

`PaysInTime` is what `TimelyPay` buys: the scanner's list has only overdue
PENDING orders, and no `Pay` that has read its order is overdue. `MintsByFault`
follows (the remaining sources of a second claim are faults), and with it
`EveryMarkAccounted`. `FailureTold` says of the worker that it has told everybody
with an order of success except the user in hand, which is what makes
`NoticeTruthful` inductive.

`OversellNeedsFaults` says what `minted` leaves open: how much a fault can cost.
`FaultMints` bounds what one fault mints by `Burst`, the messages handed out
since the last commit, or one; `MintsPerFaultNext` adds it up over the steps, of
which only those of faults mint when payments are in time. With `NoFault` it is
the sentence of docs/SRS.md:160 that `engine_redelivery` refutes without it.

The refinement replaces the count in the mapping by `ClaimNow` (sold,
returning, reserved, none, by the places of the single claim), which `ClaimIsNow`
shows to be the same, and then shows of each action that it changes one user's
claim as a step of `SeatLedger` does, or no claim and no seat on sale.

### ActivityLifecycle

`LifecycleInductive` has two parts. `TypeAndCopies` holds always: `CopyFresh` says
that the copy of a request that is not outdated is true of the row but for what
the request may change, hence a save that changes a locked field saves an
outdated copy, which is `PublishedFrozen`. `Sale` holds until such a copy was
saved; `NotStaleYet` gives its proof that every save so far was a fresh one. Its
parts are `OneWarmUp` (one request at most warms up, a published row with the
capacity it read, since a second one can only come from a second, outdated,
publication), `StockWarmed` (stock and seats taken since the last SET are the
capacity once on sale, nothing before; each sending resold at most the
capacity), `OpenedFirst` (whoever passed the checks did so inside the window of a
published row that cannot move any more) and `MarkedOnce` (each user served is
still marked, unless served during the warm-up; and while a warm-up is under way
all users served are such, so its DEL takes nobody else's mark). From
`StockWarmed` comes `NobodyServedTooMany`: the stock is never negative once a seat
was given, and what was resold is at most the capacity for each repetition.

### FrontendSession

The invariant is `SessionTypeOK`, `SessionsCoherent`, `BlankOnlyWhileRestoring`
and two strengthenings. `RequestsHonest` says what answers bring: that of a
login carries a token signed for its own user, and a restore that still counts
belongs to a tab that still has a token. Without it the answer that completes a
session could mix two users. `WayBack` says that no way kept for after the login
leads to the login page again. Steps are treated by what they do to a tab:
`RenderStep` for those that only draw a page anew (and settle the redirects that
follow), `RequestStep` for those that put a request under way, `LoadStep` for
loading a page. `SessionChange` lists the steps that change a tab's session, and
the action properties follow from it.

### NotificationCentre and UserPreferences

`TwoFailuresToForget` is not inductive, for it does not say which of the two
places a mark is still missing from. `MarkAccounted` keeps an account of each:
the stored ids have the item unless another tab wrote over it, and the server
has it unless it refused it or the PUT is under way. `BadgeSettles` speaks of
tabs that have heard of every write; `BellFollows` says of every tab that its
bell follows what the tab has heard, and `WithinSent` that nothing is stored or
listed before it was sent. `ReadStaysRead` follows step by step.

`LastSettingKept` is inductive with the types. `Patched` is the heart of it: a
patch of one field over what a render showed changes no field that it does not
record as overwritten.

### EnrolmentPages and MerchantPages

What a page shows is right because of what it waits for. `DetailPart`,
`ProgressPart` and `ReceiptPart` say of each page that its loads are for the
address it is at, that the status page has one request at most (so a poll ends
only by setting the timer, by an error or by a result), and `CallPart` that a
call which will say "paid" names a paid row. `ReminderTold` rests on
`DetailPart`: a click on the button stores the activity shown.

`MerchantInductive` adds `FormIsOwn` (the form was mounted with what the address
names, unless crossed), `ShowsThePast` (a board shows rows that were so) and
`NoneOlder` (without an overlap, the one answer under way knows of every
publication the board shows).

The type invariants say more than types: which request a page waits for.
`Waits` is what makes `EnrolmentTypeOK` inductive: `Pressed` (a page has one
call under way at most, and its button is disabled exactly then) and `Polled` (an
activity page that polls shows an activity which calls for it). `MerchantWaits`
does it for `MerchantTypeOK`: a form is being sent exactly while its one request
is under way (`OneSent`), and a board that is loading has a load under way.

### Pages: the atlas and the lists

`CountedIsListed` is about functions of two variables, so nothing has to be
strengthened but types: two features of a map have different names and neither
is the other's short name (`MapsAssumption`), hence their buckets are apart, and
an activity without a feature of its own is under its key, which is what the
click searches for.

`ListMatchesAddress` rests on `ListInductive`: while the list page loads, the
request under way is for the filters of the address as it is, and a list that is
shown is the answer to them. What remains is a fact about `ListActivities`,
that the browser's way (take the first rows, filter, sort, slice) and the
server's both give the rows of the places asked for, and it holds as long as the
browser does not have to cut what it refines. The orders that leave ties become
total by the shuffle or by the server's order under the browser's
(`TiesAreBroken`); a total order gives the rows of a finite set the places from 1
to its size, and none a place before a row of a higher rank (`PlacesGoDown`).
That is all the property says of ties. `EveryRowOnOnePage` is the arithmetic
behind the pager, for one order: slices of equal length cover the places without
overlap. `NothingOutOfReach` is arithmetic about the window of buttons.
Of the maps, `MapsKnown` says that one is registered before
it is known and known before it is drawn.

### Copies: the recommendations

`RankedAsScored` speaks of the moments between two recalculations. `Follow`
carries it to the requests that are half answered then: a request that is not
overtaken has only groups that follow the scores. `Requests` says what a request
has: the groups its mix asks for, in this order, with published activities.
`Merged` shows of `MergeRecommendations` that it keeps groups apart and their
order, that no item comes twice and that no more than asked for are left, hence
what is stored has the order of its groups. `Ranking` says of the ranks being
written that those done are in order and better than those still to come. The
queries, `Merged` and `Ranking` rest on `RowsInOrder`: sorting a finite set by a
strict total order gives each row once, in order. It is proved from
cardinalities (a row's place is one more than the number of rows before it),
without induction over the sort.

### What proving found in the models

Some definitions were CASE expressions with overlapping guards, which in TLA+
choose any branch that holds, while TLC takes the first. They stood for chains
of early returns, and the proofs of `ReminderTold` and `ReadStaysRead` could not
go through: they are IF expressions now, or have disjoint guards. In
`ActivityLifecycle` the seats taken were counted user by user; the sequence
`given` says the same, and its length needs no sum over the users. There, a
hypothesis that requests never overlap went, once the invariant said which copies
are outdated; what it had hidden is now in the properties. Sorting and
merging in `Recommendations` and `ListingPages` were folds of the community
modules, about which nothing can be proved here; as places in an order they say
what the code's ORDER BY, `sort` and `slice` mean and are shorter. On the way the
mix of similar users turned out to be ordered by score alone in the model; the
code counts the users first.

### Only model-checked

The four liveness properties (`PublishedGoesOnSale`, `ReservationSettles`,
`SeatReturns`, `OverdueOrderEnds`): fairness and ENABLED are out of the prover's
reach. Every invariant and every other action property of the passing runs has a
theorem. The violations of section 4 are TLC's alone.

## 6. Not modelled

* Behaviour collection: each request appends rows that only the choice of a
  recommendation mix reads, which `Recommendations` leaves open.
* Rate limiter: one map behind a lock, looked at again under the lock. Its
  refusals are answers that fail in the modules that ask.
* Accounts: hashing, signing, RequireRole and OptionalJWT; two Registers of one
  phone at once, which the unique index decides.
* Metrics, reading the environment, opening connections.
* Frontend: form validation and drafts, notices, footer, chips, the unrouted
  `pages/Activities.tsx`, `types/` and texts.
* The branch of `ActivityDetail.tsx` for a sold-out answer that resolves (lines
  468 to 490): the interceptor rejects every answer with that code.
* Seeds, generators of load-test data, JMeter's report scripts
  (`docs/STRESS_TEST`) and the vendored `public/mockServiceWorker.js`.
* MySQL, Redis, Kafka and the chart library themselves, which are modelled as
  the code uses them.

## 7. Plan

Done: the engine with its ledger, the activity's life, the recommendations, the
frontend's sessions, storage and pages; a theorem for every invariant and every
safety property that a passing run checks.

What could follow: behaviours and scores as state of `Recommendations` instead of
constants and choices, so that the choice of the mix has a history; and the
mutations of several merchants on one activity, once the code locks the row.
