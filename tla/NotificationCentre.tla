--------------------------- MODULE NotificationCentre ---------------------------
(***************************************************************************)
(* What one user sees of the notifications in several tabs: the badge on   *)
(* the bell, the preview under it and the notification page.  Marking as   *)
(* read writes the tab's localStorage first and the server afterwards      *)
(* (notificationState.ts, Notifications.tsx); every list the server sends  *)
(* is merged with the stored ids when it arrives.                          *)
(*                                                                         *)
(* The tabs are processes of the browser: each works on its own copy of    *)
(* localStorage, and another tab's write reaches it some time later, with  *)
(* the storage event.  What a component has asked for when it is unmounted *)
(* changes nothing on arrival and is dropped at once.                      *)
(***************************************************************************)
EXTENDS Browser, Naturals, FiniteSets

CONSTANTS Scenarios, \* bound: what one does in each tab, one scenario at a time
          MaxId,     \* bound: notifications, numbered as they are written
          PageSize,  \* rows of a list the server sends, the newest first
          MaxLoads,  \* bound: lists a badge waits for at once in a hasty tab, else one
          MaxFailed  \* bound: marks that do not reach the server

Habits == {"page", "dialog", "bell", "account", "language", "reload", "haste"}

ASSUME CentreAssumption ==
  /\ Scenarios \subseteq [Tabs -> SUBSET Habits]
  /\ MaxId \in Nat /\ PageSize \in Nat \ {0} /\ MaxLoads \in Nat \ {0} /\ MaxFailed \in Nat

VARIABLES
  does,      \* bound: the scenario this behaviour is part of
  sent,      \* server: how many notifications it has written
  readAt,    \* server: ids with is_read
  kept,      \* uaad.notifications.read.<user>, as last written
  copy,      \* copy[t]: the same as tab t reads it
  page,      \* page[t]: "list", "other" or, without the header, "login"
  signedIn,  \* signedIn[t]
  list,      \* list[t]: the page's items
  opened,    \* opened[t]: the item in the page's dialog, 0 if none
  badge,     \* badge[t]: the ids the bell's number counts
  panel,     \* panel[t]: the header's open panel
  preview,   \* preview[t]: state and items of the notification panel
  asked,     \* asked[t]: the lists t's badge, page and preview wait for
  marks,     \* PUT /notifications/:id/read under way: [tab, id]
  marked,    \* history: ids marked as read
  raced,     \* history: ids a tab's write dropped from kept
  refused    \* history: ids whose PUT failed

tabVars == <<page, signedIn, list, opened, badge, panel, preview>>
history == <<marked, raced, refused>>
serverVars == <<does, sent, readAt>>
storageVars == <<kept, copy>>
centreVars == <<serverVars, storageVars, tabVars, asked, marks, history>>

Items == 1..MaxId
Views == [Items -> {"absent", "unread", "read"}]
Nothing == [i \in Items |-> "absent"]
Unread(view) == {i \in Items : view[i] = "unread"}
Present(view) == {i \in Items : view[i] # "absent"}

\* The newest of n notifications, those in read with is_read.
Rows(n, read) ==
  [i \in Items |-> IF i > n \/ i + PageSize <= n THEN "absent"
                   ELSE IF i \in read THEN "read" ELSE "unread"]

\* The dialog is shown if its item is among the page's, and covers everything.
Covered(t) == opened[t] \in Present(list[t])

\* Faulty variant: the server's rows as they are.
Unmerged(view, t) == view
\* mergeNotificationReadState: an id stored as read is read.
Merge(view, t) ==
  [i \in Items |-> IF view[i] = "unread" /\ i \in copy[t] THEN "read" ELSE view[i]]
-------------------------------------------------------------------------------
(* Requests for a list.  A page and a preview wait for one at most; the    *)
(* badge asks again whatever it still waits for.                           *)

Components == {"badge", "list", "preview"}
CountAgain(t) ==
  IF signedIn[t] /\ page[t] # "login"
  THEN asked[t].badge < (IF "haste" \in does[t] THEN MaxLoads ELSE 1) /\ asked' = [asked EXCEPT ![t].badge = @ + 1]
  ELSE UNCHANGED asked

PreviewLoading == [state |-> "loading", view |-> Nothing] \* faulty NoPreview
NoPreview == [state |-> "idle", view |-> Nothing]
-------------------------------------------------------------------------------
(* Going from page to page.  The header is keyed by the path, so every     *)
(* move mounts a new one: closed panels, no preview, a count of nothing    *)
(* until its list arrives.                                                 *)

Mount(t, to, user) ==
  /\ page' = [page EXCEPT ![t] = to]
  /\ signedIn' = [signedIn EXCEPT ![t] = user]
  /\ list' = [list EXCEPT ![t] = Nothing]
  /\ badge' = [badge EXCEPT ![t] = {}]
  /\ panel' = [panel EXCEPT ![t] = "none"]
  /\ preview' = [preview EXCEPT ![t] = NoPreview]
  /\ asked' = [asked EXCEPT ![t] =
                 [badge |-> IF user /\ to # "login" THEN 1 ELSE 0,
                  list |-> IF to = "list" THEN 1 ELSE 0, preview |-> 0]]

CentreInit ==
  /\ does \in Scenarios
  /\ sent \in 0..MaxId /\ readAt = {} /\ kept = {}
  /\ copy = [t \in Tabs |-> {}]
  /\ page = [t \in Tabs |-> "other"] /\ signedIn = [t \in Tabs |-> TRUE]
  /\ list = [t \in Tabs |-> Nothing] /\ opened = [t \in Tabs |-> 0]
  /\ badge = [t \in Tabs |-> {}] /\ panel = [t \in Tabs |-> "none"]
  /\ preview = [t \in Tabs |-> NoPreview]
  /\ asked = [t \in Tabs |-> [badge |-> 1, list |-> 0, preview |-> 0]]
  /\ marks = {} /\ marked = {} /\ raced = {} /\ refused = {}

\* To the notification page, from the header's button, from the account menu
\* or from a row of the preview, whose item the page then opens: but only a
\* page that is mounted anew looks at what it should open.
Visit(t, item) ==
  /\ signedIn[t] /\ "page" \in does[t]
  /\ IF page[t] = "list"
     THEN /\ panel' = [panel EXCEPT ![t] = "none"] /\ panel[t] # "none"
          /\ UNCHANGED <<page, signedIn, list, opened, badge, preview, asked>>
     ELSE /\ Mount(t, "list", TRUE)
          /\ opened' = [opened EXCEPT ![t] = item]
  /\ UNCHANGED <<serverVars, storageVars, marks, history>>

FromPreview(t, item) ==
  /\ panel[t] = "notifications" /\ preview[t].state = "ready"
  /\ item \in Present(preview[t].view)
  /\ Visit(t, item)

Leave(t) ==
  /\ page[t] = "list"
  /\ Mount(t, "other", TRUE)
  /\ opened' = [opened EXCEPT ![t] = 0]
  /\ UNCHANGED <<serverVars, storageVars, marks, history>>

\* handleLogout, and the login that follows on a page without the header.
LogOut(t) ==
  /\ panel[t] = "account"
  /\ Mount(t, "other", FALSE)
  /\ opened' = [opened EXCEPT ![t] = 0]
  /\ UNCHANGED <<serverVars, storageVars, marks, history>>

GoToLogin(t) ==
  /\ ~signedIn[t] /\ page[t] = "other"
  /\ Mount(t, "login", FALSE)
  /\ UNCHANGED <<serverVars, storageVars, opened, marks, history>>

LogIn(t) ==
  /\ page[t] = "login"
  /\ Mount(t, "other", TRUE)
  /\ UNCHANGED <<serverVars, storageVars, opened, marks, history>>

\* A reload keeps the path; the browser drops what the page was sending.
Reload(t) ==
  /\ page[t] # "login" /\ signedIn[t] /\ "reload" \in does[t]
  /\ Mount(t, page[t], TRUE)
  /\ copy' = [copy EXCEPT ![t] = kept]
  /\ marks' = {m \in marks : m.tab # t}
  /\ refused' = refused \cup {m.id : m \in marks \ marks'}
  /\ Cardinality(refused') <= MaxFailed
  /\ UNCHANGED <<serverVars, kept, opened, marked, raced>>
-------------------------------------------------------------------------------
(* The header.                                                             *)

\* handleNotificationClick: opens or closes the panel; the preview is loaded
\* by the first opening and after an error, never again.
ClickBell(t) ==
  /\ "bell" \in does[t]
  /\ signedIn[t] /\ page[t] # "login" /\ ~Covered(t)
  /\ panel' = [panel EXCEPT ![t] = IF @ = "notifications" THEN "none" ELSE "notifications"]
  /\ IF panel[t] # "notifications" /\ preview[t].state \in {"idle", "error"}
     THEN /\ preview' = [preview EXCEPT ![t].state = "loading"]
          /\ asked' = [asked EXCEPT ![t].preview = 1]
     ELSE UNCHANGED <<preview, asked>>
  /\ UNCHANGED <<serverVars, storageVars, page, signedIn, list, opened, badge, marks, history>>

ClickAccount(t) ==
  /\ "account" \in does[t]
  /\ signedIn[t] /\ page[t] # "login" /\ ~Covered(t)
  /\ panel' = [panel EXCEPT ![t] = IF @ = "account" THEN "none" ELSE "account"]
  /\ UNCHANGED <<serverVars, storageVars, page, signedIn, list, opened, badge, preview,
                 asked, marks, history>>

\* A click anywhere else, or Escape.
ClosePanels(t) ==
  /\ panel[t] # "none"
  /\ panel' = [panel EXCEPT ![t] = "none"]
  /\ UNCHANGED <<serverVars, storageVars, page, signedIn, list, opened, badge, preview,
                 asked, marks, history>>
-------------------------------------------------------------------------------
(* The notification page.                                                  *)

\* Faulty variant: the new ids replace the stored ones.
RememberOver(t, ids) ==
  /\ kept' = ids /\ copy' = [copy EXCEPT ![t] = ids]
  /\ UNCHANGED raced
  /\ CountAgain(t)
\* rememberReadNotifications: read, add and write in one handler, over this
\* tab's copy; the tab's own listeners hear of it at once.
Remember(t, ids) ==
  /\ kept' = copy[t] \cup ids
  /\ copy' = [copy EXCEPT ![t] = kept']
  /\ raced' = raced \cup (kept \ kept')
  /\ CountAgain(t)

\* markItemsAsRead: storage, page, then one PUT for each.
MarkItemsAsRead(t, ids) ==
  /\ page[t] = "list" /\ ids # {} /\ ids \subseteq Unread(list[t])
  /\ Remember(t, ids)
  /\ list' = [list EXCEPT ![t] = [i \in Items |-> IF i \in ids THEN "read" ELSE @[i]]]
  /\ marks' = marks \cup {[tab |-> t, id |-> i] : i \in ids}
  /\ marked' = marked \cup ids
  /\ UNCHANGED <<serverVars, page, signedIn, badge, panel, preview, refused>>

MarkAll(t) == ~Covered(t) /\ MarkItemsAsRead(t, Unread(list[t])) /\ UNCHANGED opened
\* The button of a row or of the dialog.
MarkOne(t, i) ==
  /\ Covered(t) => i = opened[t]
  /\ MarkItemsAsRead(t, {i}) /\ UNCHANGED opened

\* handleOpenNotification.
OpenItem(t, i) ==
  /\ "dialog" \in does[t]
  /\ page[t] = "list" /\ ~Covered(t) /\ i \in Present(list[t])
  /\ opened' = [opened EXCEPT ![t] = i]
  /\ IF i \in Unread(list[t])
     THEN MarkItemsAsRead(t, {i})
     ELSE UNCHANGED <<serverVars, storageVars, page, signedIn, list, badge, panel, preview,
                      asked, marks, history>>

CloseItem(t) ==
  /\ Covered(t)
  /\ opened' = [opened EXCEPT ![t] = 0]
  /\ UNCHANGED <<serverVars, storageVars, page, signedIn, list, badge, panel, preview, asked,
                 marks, history>>

\* Another language is another t(), on which the page's effect depends: it
\* asked its list again.
SwitchLanguage(t) ==
  /\ page[t] = "list" /\ ~Covered(t) /\ "language" \in does[t]
  /\ asked' = [asked EXCEPT ![t].list = 1]
  /\ UNCHANGED <<serverVars, storageVars, tabVars, marks, history>>
-------------------------------------------------------------------------------
(* The server and the browser.                                             *)

Notify ==
  /\ sent < MaxId
  /\ sent' = sent + 1
  /\ UNCHANGED <<does, readAt, storageVars, tabVars, asked, marks, history>>

MarkServed(m) ==
  /\ readAt' = readAt \cup {m.id}
  /\ marks' = marks \ {m}
  /\ UNCHANGED <<does, sent, storageVars, tabVars, asked, history>>

\* The page swallows it.
MarkFailed(m) ==
  /\ refused' = refused \cup {m.id} /\ Cardinality(refused') <= MaxFailed
  /\ marks' = marks \ {m}
  /\ UNCHANGED <<serverVars, storageVars, tabVars, asked, marked, raced>>

\* Faulty variant: the bell listens to its own tab only.
StorageEventUnheard(t) ==
  /\ copy[t] # kept
  /\ copy' = [copy EXCEPT ![t] = kept]
  /\ UNCHANGED <<serverVars, kept, tabVars, asked, marks, history>>
\* Another tab's write reaches t, and t's bell counts again.
StorageEvent(t) ==
  /\ copy[t] # kept
  /\ copy' = [copy EXCEPT ![t] = kept]
  /\ CountAgain(t)
  /\ UNCHANGED <<serverVars, kept, tabVars, marks, history>>
-------------------------------------------------------------------------------
(* Lists arrive.  The server read its rows at some moment since they were  *)
(* asked for: which is left open, and so is any earlier one, so that the   *)
(* answers to several requests come in any order.                          *)

Shows(t, kind, view, state) ==
  /\ asked[t][kind] > 0
  /\ asked' = [asked EXCEPT ![t][kind] = @ - 1]
  /\ badge' = IF kind = "badge" THEN [badge EXCEPT ![t] = Unread(view)] ELSE badge
  /\ list' = IF kind = "list" THEN [list EXCEPT ![t] = view] ELSE list
  /\ preview' = IF kind = "preview"
                THEN [preview EXCEPT ![t] = [state |-> state, view |-> view]]
                ELSE preview
  /\ UNCHANGED <<serverVars, storageVars, page, signedIn, opened, panel, marks, history>>

ListArrived(t, kind) ==
  /\ asked[t][kind] > 0
  /\ \E view \in {Merge(Rows(n, read), t) : n \in 0..sent, read \in SUBSET readAt} :
       Shows(t, kind, view, "ready")
\* An error leaves nothing: a badge of 0, an empty page.
ListFailed(t, kind) == Shows(t, kind, Nothing, "error")
-------------------------------------------------------------------------------
Gesture(t) ==
  \/ Visit(t, 0) \/ Leave(t) \/ LogOut(t) \/ GoToLogin(t) \/ LogIn(t) \/ Reload(t)
  \/ ClickBell(t) \/ ClickAccount(t) \/ ClosePanels(t)
  \/ MarkAll(t) \/ CloseItem(t) \/ SwitchLanguage(t)
  \/ \E i \in Items : FromPreview(t, i) \/ MarkOne(t, i) \/ OpenItem(t, i)
Answer ==
  \/ \E t \in Tabs, kind \in Components : ListArrived(t, kind) \/ ListFailed(t, kind)
  \/ \E m \in marks : MarkServed(m) \/ MarkFailed(m)
CentreNext == (\E t \in Tabs : Gesture(t) \/ StorageEvent(t)) \/ Answer \/ Notify

CentreSpec == CentreInit /\ [][CentreNext]_centreVars
-------------------------------------------------------------------------------
(* Correctness.                                                            *)

CentreTypeOK ==
  /\ sent \in 0..MaxId /\ readAt \subseteq 1..sent /\ kept \subseteq 1..sent
  /\ copy \in [Tabs -> SUBSET Items]
  /\ page \in [Tabs -> {"list", "other", "login"}] /\ signedIn \in [Tabs -> BOOLEAN]
  /\ list \in [Tabs -> Views] /\ opened \in [Tabs -> 0..MaxId]
  /\ badge \in [Tabs -> SUBSET Items]
  /\ panel \in [Tabs -> {"none", "notifications", "account"}]
  /\ preview \in [Tabs -> [state : {"idle", "loading", "ready", "error"}, view : Views]]
  /\ \A t \in Tabs : (preview[t].state = "loading") = (asked[t].preview = 1)
  /\ asked \in [Tabs -> [badge : Nat, list : 0..1, preview : 0..1]]
  /\ marks \subseteq [tab : Tabs, id : Items]
  /\ marked \subseteq Items /\ raced \subseteq Items /\ refused \subseteq Items

(* It takes two failures to forget that something was read: another tab    *)
(* writing over the stored ids at the same time, and a PUT that fails.     *)
(* Whatever else happens in whatever order, an item marked as read is      *)
(* stored, or read at the server, or its PUT is under way.                 *)
TwoFailuresToForget ==
  \A i \in marked :
    \/ i \in kept \cup readAt
    \/ \E m \in marks : m.id = i
    \/ i \in raced \cap refused

(* A list that was on its way, or one the server answers before it has the *)
(* mark, makes nothing unread again in a tab that has heard of the mark    *)
(* (docs/SPRINT/SPRINT3.md:220: bell, page and read state agree).          *)
ShownUnread(t) == badge[t] \cup Unread(list[t]) \cup Unread(preview[t].view)
ReadStaysRead ==
  [][\A t \in Tabs : copy[t] = kept =>
       (ShownUnread(t)' \ ShownUnread(t)) \cap (marked \ raced) = {}]_centreVars

(* A bell that waits for no list counts nothing that is stored as read,    *)
(* whichever tab and whichever of several answers stored and counted it.   *)
BadgeSettles ==
  \A t \in Tabs : copy[t] = kept /\ asked[t].badge = 0 => badge[t] \cap kept = {}
===============================================================================
