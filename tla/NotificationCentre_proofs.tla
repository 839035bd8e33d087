------------------------ MODULE NotificationCentre_proofs ------------------------
(***************************************************************************)
(* Theorems about NotificationCentre, for all sets of tabs and scenarios,  *)
(* any number of notifications and any number of failures.                 *)
(*                                                                         *)
(* TwoFailuresToForget is not inductive: it does not say which of the two  *)
(* places a mark is still missing from.  MarkAccounted keeps an account of *)
(* each place: the stored ids, which only another tab's write shortens,    *)
(* and the server, which only a failed PUT leaves without the mark.        *)
(* BadgeSettles speaks of tabs that have heard of every write; BellFollows *)
(* says of every tab that its bell follows what the tab has heard.         *)
(***************************************************************************)
EXTENDS NotificationCentre, TLAPS

Known == 1..sent

\* Nothing is stored, listed or marked before it was written.
WithinSent ==
  /\ marked \subseteq Known
  /\ \A t \in Tabs : copy[t] \subseteq Known /\ Present(list[t]) \subseteq Known
  /\ \A m \in marks : m.id \in Known

OnServer(i) == i \in readAt \cup refused \/ \E m \in marks : m.id = i
MarkAccounted == \A i \in marked : i \in kept \cup raced /\ OnServer(i)

Quiet(t) ==
  /\ page[t] = "list" => signedIn[t]
  /\ ~signedIn[t] \/ page[t] = "login" => badge[t] = {} /\ asked[t].badge = 0
  /\ asked[t].badge = 0 => badge[t] \cap copy[t] = {}
BellFollows == \A t \in Tabs : Quiet(t)

Inductive == CentreTypeOK /\ WithinSent /\ MarkAccounted /\ BellFollows

\* What CentreTypeOK says of the tabs alone.
TabTypes ==
  /\ page \in [Tabs -> {"list", "other", "login"}] /\ signedIn \in [Tabs -> BOOLEAN]
  /\ list \in [Tabs -> Views]
  /\ badge \in [Tabs -> SUBSET Items]
  /\ panel \in [Tabs -> {"none", "notifications", "account"}]
  /\ preview \in [Tabs -> [state : {"idle", "loading", "ready", "error"}, view : Views]]
  /\ asked \in [Tabs -> [badge : Nat, list : 0..1, preview : 0..1]]
Previewed == \A t \in Tabs : (preview[t].state = "loading") = (asked[t].preview = 1)
-------------------------------------------------------------------------------
(* Views and lists.                                                        *)

LEMMA NothingShown == Nothing \in Views /\ Present(Nothing) = {} /\ Unread(Nothing) = {}
  BY DEF Nothing, Views, Present, Unread

LEMMA UnreadPresent == ASSUME NEW view PROVE Unread(view) \subseteq Present(view)
  BY DEF Unread, Present

\* An id this tab stores as read is never unread in a list it has merged.
LEMMA MergedView ==
  ASSUME CentreAssumption, NEW t \in Tabs, copy \in [Tabs -> SUBSET Items],
         NEW n \in 0..MaxId, NEW read, NEW view, view = Merge(Rows(n, read), t)
  PROVE  /\ view \in Views
         /\ Present(view) \subseteq 1..n
         /\ Unread(view) \cap copy[t] = {}
<1> DEFINE rows == Rows(n, read)
<1>1. rows \in Views
  BY DEF Rows, Views
<1>2. ASSUME NEW i \in Items, rows[i] # "absent" PROVE i <= n
  <2>1. rows[i] = IF i > n \/ i + PageSize <= n THEN "absent"
                  ELSE IF i \in read THEN "read" ELSE "unread"
    BY DEF Rows
  <2>2. ~(i > n)
    BY <1>2, <2>1
  <2> QED BY <2>2 DEF Items, CentreAssumption
<1>3. view = [i \in Items |-> IF rows[i] = "unread" /\ i \in copy[t] THEN "read" ELSE rows[i]]
  BY DEF Merge
<1> HIDE DEF rows
<1>4. view \in Views
  BY <1>1, <1>3 DEF Views
<1>5. \A i \in Items : view[i] # "absent" => rows[i] # "absent"
  BY <1>3
<1>6. ASSUME NEW i \in Present(view) PROVE i \in 1..n
  <2>1. i \in Items /\ i <= n
    BY <1>2, <1>5, <1>6 DEF Present
  <2> QED BY <2>1 DEF Items, CentreAssumption
<1>7. \A i \in Items : i \in copy[t] => view[i] # "unread"
  BY <1>3
<1> QED BY <1>4, <1>6, <1>7 DEF Unread
-------------------------------------------------------------------------------
LEMMA InductiveInit == CentreAssumption /\ CentreInit => Inductive
<1> SUFFICES ASSUME CentreAssumption, CentreInit PROVE Inductive
  OBVIOUS
<1> USE DEF CentreInit
<1>1. NoPreview \in [state : {"idle", "loading", "ready", "error"}, view : Views]
  BY NothingShown DEF NoPreview
<1>2. asked \in [Tabs -> [badge : Nat, list : 0..1, preview : 0..1]]
  OBVIOUS
<1>3. ASSUME NEW t \in Tabs PROVE (preview[t].state = "loading") = (asked[t].preview = 1)
  <2>1. preview[t].state = "idle" /\ asked[t].preview = 0
    BY DEF NoPreview
  <2> QED BY <2>1
<1>4. CentreTypeOK
  BY <1>1, <1>2, <1>3, NothingShown DEF CentreTypeOK, CentreAssumption
<1>5. WithinSent
  BY NothingShown DEF WithinSent
<1>6. MarkAccounted
  BY DEF MarkAccounted
<1>7. BellFollows
  BY DEF BellFollows, Quiet
<1> QED BY <1>4, <1>5, <1>6, <1>7 DEF Inductive
-------------------------------------------------------------------------------
(* What the actions have in common.                                        *)

\* A new page and a new header in one tab.
LEMMA Mounted ==
  ASSUME Inductive, NEW t \in Tabs, NEW to \in {"list", "other", "login"}, NEW user \in BOOLEAN,
         to = "list" => user, Mount(t, to, user),
         copy' \in [Tabs -> SUBSET Items], \A u \in Tabs \ {t} : copy'[u] = copy[u]
  PROVE  /\ TabTypes' /\ Previewed' /\ BellFollows'
         /\ \A u \in Tabs : Present(list'[u]) \subseteq Present(list[u])
         /\ \A u \in Tabs : ShownUnread(u)' \subseteq ShownUnread(u)
<1> DEFINE wait == [badge |-> IF user /\ to # "login" THEN 1 ELSE 0,
                    list |-> IF to = "list" THEN 1 ELSE 0, preview |-> 0]
<1>1. /\ page' = [page EXCEPT ![t] = to] /\ signedIn' = [signedIn EXCEPT ![t] = user]
      /\ list' = [list EXCEPT ![t] = Nothing] /\ badge' = [badge EXCEPT ![t] = {}]
      /\ panel' = [panel EXCEPT ![t] = "none"] /\ preview' = [preview EXCEPT ![t] = NoPreview]
      /\ asked' = [asked EXCEPT ![t] = wait]
  BY DEF Mount
<1>2. TabTypes
  BY DEF Inductive, CentreTypeOK, TabTypes
<1>3. wait \in [badge : Nat, list : 0..1, preview : 0..1]
  OBVIOUS
<1>4. wait.preview = 0 /\ (wait.badge = 0 <=> ~user \/ to = "login")
  OBVIOUS
<1> HIDE DEF wait
<1>5. NoPreview \in [state : {"idle", "loading", "ready", "error"}, view : Views]
  BY NothingShown DEF NoPreview
<1>6. /\ page'[t] = to /\ signedIn'[t] = user /\ list'[t] = Nothing /\ badge'[t] = {}
      /\ preview'[t] = NoPreview /\ asked'[t] = wait
  BY <1>1, <1>2 DEF TabTypes
<1>7. ASSUME NEW u \in Tabs, u # t
      PROVE  /\ page'[u] = page[u] /\ signedIn'[u] = signedIn[u] /\ list'[u] = list[u]
             /\ badge'[u] = badge[u] /\ preview'[u] = preview[u] /\ asked'[u] = asked[u]
  BY <1>1, <1>2, <1>7 DEF TabTypes
<1>8. TabTypes'
  BY <1>1, <1>2, <1>3, <1>5, NothingShown DEF TabTypes
<1>9. Previewed'
  <2>1. Previewed
    BY DEF Inductive, CentreTypeOK, Previewed
  <2>2. NoPreview.state # "loading"
    BY DEF NoPreview
  <2> QED BY <1>4, <1>6, <1>7, <2>1, <2>2 DEF Previewed
<1>10. BellFollows'
  <2>1. BellFollows
    BY DEF Inductive
  <2>2. Quiet(t)'
    BY <1>4, <1>6 DEF Quiet
  <2>3. ASSUME NEW u \in Tabs, u # t PROVE Quiet(u)'
    <3>1. Quiet(u)
      BY <2>1 DEF BellFollows
    <3> QED BY <1>7, <2>3, <3>1 DEF Quiet
  <2> QED BY <2>2, <2>3 DEF BellFollows
<1>11. \A u \in Tabs : Present(list'[u]) \subseteq Present(list[u])
  BY <1>6, <1>7, NothingShown
<1>12. ShownUnread(t)' = {}
  <2>1. Unread(NoPreview.view) = {}
    BY NothingShown DEF NoPreview
  <2> QED BY <1>6, <2>1, NothingShown DEF ShownUnread
<1>13. \A u \in Tabs : u # t => ShownUnread(u)' = ShownUnread(u)
  BY <1>7 DEF ShownUnread
<1> QED BY <1>8, <1>9, <1>10, <1>11, <1>12, <1>13

\* The bell of a tab whose header is mounted asks again.
LEMMA CountedAgain ==
  ASSUME Inductive, NEW t \in Tabs, CountAgain(t)
  PROVE  /\ asked' \in [Tabs -> [badge : Nat, list : 0..1, preview : 0..1]]
         /\ \A u \in Tabs \ {t} : asked'[u] = asked[u]
         /\ asked'[t].preview = asked[t].preview
         /\ IF signedIn[t] /\ page[t] # "login"
            THEN asked'[t].badge # 0 ELSE asked'[t] = asked[t]
<1>1. asked \in [Tabs -> [badge : Nat, list : 0..1, preview : 0..1]]
  BY DEF Inductive, CentreTypeOK
<1>2. CASE signedIn[t] /\ page[t] # "login"
  <2>1. asked' = [asked EXCEPT ![t].badge = @ + 1]
    BY <1>2 DEF CountAgain
  <2> QED BY <1>1, <1>2, <2>1
<1>3. CASE ~(signedIn[t] /\ page[t] # "login")
  BY <1>1, <1>3 DEF CountAgain
<1> QED BY <1>2, <1>3
-------------------------------------------------------------------------------
(* Every action preserves the invariant, and shows nothing unread anew     *)
(* that a tab which has heard of every write knows to be read.             *)

NewlyUnread(t) == ShownUnread(t)' \ ShownUnread(t)
StaysRead(t) == copy[t] = kept => NewlyUnread(t) \cap (marked \ raced) = {}

LEMMA MountSteps ==
  ASSUME Inductive, NEW t \in Tabs, NEW to \in {"list", "other", "login"}, NEW user \in BOOLEAN,
         to = "list" => user, Mount(t, to, user), opened' \in [Tabs -> 0..MaxId],
         UNCHANGED <<serverVars, storageVars, marks, history>>
  PROVE  Inductive' /\ \A u \in Tabs : ShownUnread(u)' \subseteq ShownUnread(u)
<1> USE DEF Inductive
<1>1. UNCHANGED <<does, sent, readAt, kept, copy, marks, marked, raced, refused>>
  BY DEF serverVars, storageVars, history
<1>2. copy' \in [Tabs -> SUBSET Items] /\ \A u \in Tabs : copy'[u] = copy[u]
  BY <1>1 DEF CentreTypeOK
<1>3. /\ TabTypes' /\ Previewed' /\ BellFollows'
      /\ \A u \in Tabs : Present(list'[u]) \subseteq Present(list[u])
      /\ \A u \in Tabs : ShownUnread(u)' \subseteq ShownUnread(u)
  BY <1>2, Mounted
<1>4. CentreTypeOK'
  BY <1>1, <1>2, <1>3 DEF CentreTypeOK, TabTypes, Previewed
<1>5. WithinSent'
  BY <1>1, <1>2, <1>3 DEF WithinSent, Known
<1>6. MarkAccounted'
  BY <1>1 DEF MarkAccounted, OnServer
<1> QED BY <1>3, <1>4, <1>5, <1>6

LEMMA ReloadStep ==
  ASSUME Inductive, NEW t \in Tabs, Reload(t)
  PROVE  Inductive' /\ \A u \in Tabs : ShownUnread(u)' \subseteq ShownUnread(u)
<1> USE DEF Inductive
<1>1. /\ page[t] # "login" /\ signedIn[t] /\ Mount(t, page[t], TRUE)
      /\ copy' = [copy EXCEPT ![t] = kept]
      /\ marks' = {m \in marks : m.tab # t}
      /\ refused' = refused \cup {m.id : m \in marks \ marks'}
      /\ UNCHANGED <<does, sent, readAt, kept, opened, marked, raced>>
  BY DEF Reload, serverVars
<1>2. kept \in SUBSET Items /\ kept \subseteq Known
  BY CentreAssumption DEF CentreTypeOK, Items, Known
<1>3. copy' \in [Tabs -> SUBSET Items] /\ \A u \in Tabs \ {t} : copy'[u] = copy[u]
  BY <1>1, <1>2 DEF CentreTypeOK
<1>4. page[t] \in {"list", "other", "login"} /\ TRUE \in BOOLEAN
  BY DEF CentreTypeOK
<1>5. /\ TabTypes' /\ Previewed' /\ BellFollows'
      /\ \A u \in Tabs : Present(list'[u]) \subseteq Present(list[u])
      /\ \A u \in Tabs : ShownUnread(u)' \subseteq ShownUnread(u)
  BY <1>1, <1>3, <1>4, Mounted
<1>6. marks' \subseteq marks /\ refused' \subseteq Items /\ refused \subseteq refused'
  BY <1>1 DEF CentreTypeOK
<1>7. CentreTypeOK'
  BY <1>1, <1>3, <1>5, <1>6 DEF CentreTypeOK, TabTypes, Previewed
<1>8. WithinSent'
  <2>1. \A u \in Tabs : copy'[u] \subseteq Known
    BY <1>1, <1>2, <1>3 DEF WithinSent, CentreTypeOK
  <2>2. Known' = Known
    BY <1>1 DEF Known
  <2> QED BY <1>1, <1>5, <1>6, <2>1, <2>2 DEF WithinSent
<1>9. MarkAccounted'
  <2> SUFFICES ASSUME NEW i \in marked' PROVE (i \in kept' \cup raced' /\ OnServer(i)')
    BY DEF MarkAccounted
  <2>1. i \in kept' \cup raced' /\ OnServer(i)
    BY <1>1 DEF MarkAccounted
  <2>2. ASSUME NEW m \in marks, m.id = i PROVE OnServer(i)'
    <3>1. CASE m.tab # t
      BY <1>1, <2>2, <3>1 DEF OnServer
    <3>2. CASE m.tab = t
      <4>1. m \in marks \ marks'
        BY <1>1, <3>2
      <4>2. i \in refused'
        BY <1>1, <2>2, <4>1
      <4> QED BY <4>2 DEF OnServer
    <3> QED BY <3>1, <3>2
  <2> QED BY <1>1, <1>6, <2>1, <2>2 DEF OnServer
<1> QED BY <1>5, <1>7, <1>8, <1>9

\* Panels, dialogs and requests: nothing that the tab shows, or stores.
LEMMA PanelSteps ==
  ASSUME Inductive, NEW t \in Tabs,
         \/ ClickBell(t) \/ ClickAccount(t) \/ ClosePanels(t) \/ CloseItem(t) \/ SwitchLanguage(t)
  PROVE  Inductive' /\ \A u \in Tabs : ShownUnread(u)' = ShownUnread(u)
<1> USE DEF Inductive
<1>1. UNCHANGED <<does, sent, readAt, kept, copy, page, signedIn, list, badge, marks, marked, raced, refused>>
  BY DEF ClickBell, ClickAccount, ClosePanels, CloseItem, SwitchLanguage, serverVars,
         storageVars, tabVars, history
<1>2. /\ opened' \in [Tabs -> 0..MaxId]
      /\ panel' \in [Tabs -> {"none", "notifications", "account"}]
  <2>1. panel \in [Tabs -> {"none", "notifications", "account"}] /\ opened \in [Tabs -> 0..MaxId]
    BY DEF CentreTypeOK
  <2>2. opened' = opened \/ opened' = [opened EXCEPT ![t] = 0]
    BY DEF ClickBell, ClickAccount, ClosePanels, CloseItem, SwitchLanguage, tabVars
  <2>3. \E p \in {"none", "notifications", "account"} : panel' = [panel EXCEPT ![t] = p]
    <3>1. panel = [panel EXCEPT ![t] = panel[t]] /\ panel[t] \in {"none", "notifications", "account"}
      BY <2>1
    <3> QED BY <3>1 DEF ClickBell, ClickAccount, ClosePanels, CloseItem, SwitchLanguage, tabVars
  <2>4. 0 \in 0..MaxId
    BY CentreAssumption DEF CentreAssumption
  <2> QED BY <2>1, <2>2, <2>3, <2>4
<1>3. /\ preview' \in [Tabs -> [state : {"idle", "loading", "ready", "error"}, view : Views]]
      /\ asked' \in [Tabs -> [badge : Nat, list : 0..1, preview : 0..1]]
      /\ \A u \in Tabs : /\ preview'[u].view = preview[u].view
                        /\ asked'[u].badge = asked[u].badge
      /\ Previewed'
  <2>1. /\ preview \in [Tabs -> [state : {"idle", "loading", "ready", "error"}, view : Views]]
        /\ asked \in [Tabs -> [badge : Nat, list : 0..1, preview : 0..1]]
        /\ Previewed
    BY DEF CentreTypeOK, Previewed
  <2>2. CASE UNCHANGED <<preview, asked>>
    BY <2>1, <2>2 DEF Previewed
  <2>3. CASE /\ preview' = [preview EXCEPT ![t].state = "loading"]
             /\ asked' = [asked EXCEPT ![t].preview = 1]
    <3>5. preview' \in [Tabs -> [state : {"idle", "loading", "ready", "error"}, view : Views]]
      BY <2>1, <2>3
    <3>6. asked' \in [Tabs -> [badge : Nat, list : 0..1, preview : 0..1]]
      BY <2>1, <2>3
    <3>1. \A u \in Tabs : /\ preview'[u].view = preview[u].view
                         /\ asked'[u].badge = asked[u].badge
      BY <2>1, <2>3
    <3>2. preview'[t].state = "loading" /\ asked'[t].preview = 1
      BY <2>1, <2>3
    <3>3. \A u \in Tabs : u # t => preview'[u] = preview[u] /\ asked'[u] = asked[u]
      BY <2>1, <2>3
    <3>4. Previewed'
      BY <2>1, <3>2, <3>3 DEF Previewed
    <3> QED BY <3>1, <3>4, <3>5, <3>6
  <2>4. CASE preview' = preview /\ asked' = [asked EXCEPT ![t].list = 1]
    <3>1. \A u \in Tabs : /\ preview'[u].view = preview[u].view
                         /\ asked'[u].badge = asked[u].badge
                         /\ asked'[u].preview = asked[u].preview
      BY <2>1, <2>4
    <3> QED BY <2>1, <2>4, <3>1 DEF Previewed
  <2> QED BY <2>2, <2>3, <2>4 DEF ClickBell, ClickAccount, ClosePanels, CloseItem, SwitchLanguage, tabVars
<1>4. CentreTypeOK'
  BY <1>1, <1>2, <1>3 DEF CentreTypeOK, Previewed
<1>5. WithinSent' /\ MarkAccounted' /\ BellFollows'
  BY <1>1, <1>3 DEF WithinSent, Known, MarkAccounted, OnServer, BellFollows, Quiet
<1>6. \A u \in Tabs : ShownUnread(u)' = ShownUnread(u)
  BY <1>1, <1>3 DEF ShownUnread
<1> QED BY <1>4, <1>5, <1>6
-------------------------------------------------------------------------------
\* Ids of the page are stored, and their PUTs are under way.
LEMMA MarkSteps ==
  ASSUME Inductive, NEW t \in Tabs, NEW ids, MarkItemsAsRead(t, ids),
         opened' \in [Tabs -> 0..MaxId]
  PROVE  Inductive' /\ \A u \in Tabs : ShownUnread(u)' \subseteq ShownUnread(u)
<1> USE DEF Inductive
<1>1. /\ page[t] = "list" /\ ids \subseteq Unread(list[t])
      /\ kept' = copy[t] \cup ids /\ copy' = [copy EXCEPT ![t] = kept']
      /\ raced' = raced \cup (kept \ kept')
      /\ CountAgain(t)
      /\ list' = [list EXCEPT ![t] = [i \in Items |-> IF i \in ids THEN "read" ELSE @[i]]]
      /\ marks' = marks \cup {[tab |-> t, id |-> i] : i \in ids}
      /\ marked' = marked \cup ids
      /\ UNCHANGED <<does, sent, readAt, page, signedIn, badge, panel, preview, refused>>
  BY DEF MarkItemsAsRead, Remember, serverVars
<1>2. /\ asked' \in [Tabs -> [badge : Nat, list : 0..1, preview : 0..1]]
      /\ \A u \in Tabs \ {t} : asked'[u] = asked[u]
      /\ asked'[t].preview = asked[t].preview
      /\ asked'[t].badge # 0
  <2>1. signedIn[t] /\ page[t] # "login"
    BY <1>1 DEF BellFollows, Quiet
  <2> QED BY <1>1, <2>1, CountedAgain
<1>3. ids \subseteq Items /\ ids \subseteq Known /\ Known \subseteq Items
  <2>1. ids \subseteq Known
    BY <1>1, UnreadPresent DEF WithinSent
  <2>2. Known \subseteq Items
    BY CentreAssumption DEF CentreTypeOK, CentreAssumption, Known, Items
  <2> QED BY <2>1, <2>2
<1>4. kept' \subseteq Known /\ copy'[t] = kept' /\ copy' \in [Tabs -> SUBSET Items]
      /\ \A u \in Tabs \ {t} : copy'[u] = copy[u]
  <2>1. copy[t] \subseteq Known /\ copy \in [Tabs -> SUBSET Items]
    BY DEF WithinSent, CentreTypeOK
  <2> QED BY <1>1, <1>3, <2>1
<1>5. /\ list' \in [Tabs -> Views]
      /\ \A u \in Tabs : /\ Present(list'[u]) \subseteq Present(list[u])
                        /\ Unread(list'[u]) \subseteq Unread(list[u])
  <2> DEFINE new == [i \in Items |-> IF i \in ids THEN "read" ELSE list[t][i]]
  <2>1. list \in [Tabs -> Views] /\ list' = [list EXCEPT ![t] = new]
    BY <1>1 DEF CentreTypeOK
  <2>2. list[t] \in [Items -> {"absent", "unread", "read"}]
    BY <2>1 DEF Views
  <2>3. new \in Views
    BY <2>2 DEF Views
  <2>4. Unread(new) \subseteq Unread(list[t])
    BY DEF Unread
  <2>5. Present(new) \subseteq Present(list[t])
    <3>1. \A i \in ids : i \in Present(list[t])
      BY <1>1, UnreadPresent
    <3> QED BY <3>1 DEF Present
  <2> HIDE DEF new
  <2>6. list' \in [Tabs -> Views] /\ list'[t] = new /\ \A u \in Tabs : u # t => list'[u] = list[u]
    BY <2>1, <2>3
  <2> QED BY <2>4, <2>5, <2>6
<1>6. marks' \subseteq [tab : Tabs, id : Items] /\ \A m \in marks' : m.id \in Known
  BY <1>1, <1>3 DEF CentreTypeOK, WithinSent
<1>7. Known' = Known
  BY <1>1 DEF Known
<1>8. Previewed'
  <2>1. \A u \in Tabs : preview'[u] = preview[u] /\ asked'[u].preview = asked[u].preview
    BY <1>1, <1>2
  <2> QED BY <2>1 DEF CentreTypeOK, Previewed
<1>9. marked' \subseteq Items /\ marked' \subseteq Known /\ raced' \subseteq Items
  <2>1. kept \subseteq Known
    BY DEF CentreTypeOK, Known
  <2> QED BY <1>1, <1>3, <2>1 DEF CentreTypeOK, WithinSent
<1>10. CentreTypeOK'
  <2>1. sent' \in 0..MaxId /\ readAt' \subseteq 1..sent' /\ kept' \subseteq 1..sent'
    BY <1>1, <1>4 DEF CentreTypeOK, Known
  <2> QED BY <1>1, <1>2, <1>4, <1>5, <1>6, <1>8, <1>9, <2>1 DEF CentreTypeOK, Previewed
<1>11. WithinSent'
  BY <1>4, <1>5, <1>6, <1>7, <1>9 DEF WithinSent
<1>12. MarkAccounted'
  <2> SUFFICES ASSUME NEW i \in marked' PROVE (i \in kept' \cup raced' /\ OnServer(i)')
    BY DEF MarkAccounted
  <2>1. CASE i \in ids
    <3>1. [tab |-> t, id |-> i] \in marks' /\ [tab |-> t, id |-> i].id = i
      BY <1>1, <2>1
    <3>2. OnServer(i)'
      BY <3>1 DEF OnServer
    <3> QED BY <1>1, <2>1, <3>2
  <2>2. CASE i \in marked
    <3>1. i \in kept \cup raced /\ OnServer(i)
      BY <2>2 DEF MarkAccounted
    <3>2. OnServer(i)'
      BY <1>1, <3>1 DEF OnServer
    <3> QED BY <1>1, <3>1, <3>2
  <2> QED BY <1>1, <2>1, <2>2
<1>13. BellFollows'
  <2>1. Quiet(t)'
    BY <1>1, <1>2 DEF BellFollows, Quiet
  <2>2. \A u \in Tabs \ {t} : Quiet(u)'
    BY <1>1, <1>2, <1>4 DEF BellFollows, Quiet
  <2> QED BY <2>1, <2>2 DEF BellFollows
<1>14. \A u \in Tabs : ShownUnread(u)' \subseteq ShownUnread(u)
  BY <1>1, <1>5 DEF ShownUnread
<1> QED BY <1>10, <1>11, <1>12, <1>13, <1>14
-------------------------------------------------------------------------------
LEMMA NotifyStep ==
  ASSUME Inductive, Notify
  PROVE  Inductive' /\ \A u \in Tabs : ShownUnread(u)' = ShownUnread(u)
<1> USE DEF Inductive
<1>1. /\ sent < MaxId /\ sent' = sent + 1
      /\ UNCHANGED <<does, readAt, kept, copy, page, signedIn, list, opened, badge, panel, preview,
                     asked, marks, marked, raced, refused>>
  BY DEF Notify, storageVars, tabVars, history
<1>2. sent' \in 0..MaxId /\ 1..sent \subseteq 1..sent'
  BY <1>1, CentreAssumption DEF CentreTypeOK, CentreAssumption
<1>3. CentreTypeOK'
  BY <1>1, <1>2 DEF CentreTypeOK
<1>4. WithinSent'
  BY <1>1, <1>2 DEF WithinSent, Known
<1>5. MarkAccounted' /\ BellFollows'
  BY <1>1 DEF MarkAccounted, OnServer, BellFollows, Quiet
<1> QED BY <1>1, <1>3, <1>4, <1>5 DEF ShownUnread

\* A PUT served is known to the server; one that fails is known to have.
LEMMA PutSteps ==
  ASSUME Inductive, NEW m \in marks, MarkServed(m) \/ MarkFailed(m)
  PROVE  Inductive' /\ \A u \in Tabs : ShownUnread(u)' = ShownUnread(u)
<1> USE DEF Inductive
<1>1. /\ marks' = marks \ {m}
      /\ \/ readAt' = readAt \cup {m.id} /\ refused' = refused
         \/ refused' = refused \cup {m.id} /\ readAt' = readAt
      /\ UNCHANGED <<does, sent, kept, copy, page, signedIn, list, opened, badge, panel, preview,
                     asked, marked, raced>>
  BY DEF MarkServed, MarkFailed, serverVars, storageVars, tabVars, history
<1>2. m.id \in Known /\ m.id \in Items
  BY DEF WithinSent, CentreTypeOK
<1>3. CentreTypeOK'
  BY <1>1, <1>2 DEF CentreTypeOK, Known
<1>4. WithinSent' /\ BellFollows'
  BY <1>1 DEF WithinSent, Known, BellFollows, Quiet
<1>5. MarkAccounted'
  <2> SUFFICES ASSUME NEW i \in marked' PROVE (i \in kept' \cup raced' /\ OnServer(i)')
    BY DEF MarkAccounted
  <2>1. i \in kept \cup raced /\ OnServer(i)
    BY <1>1 DEF MarkAccounted
  <2>2. CASE m.id = i
    BY <1>1, <2>1, <2>2 DEF OnServer
  <2>3. CASE m.id # i
    BY <1>1, <2>1, <2>3 DEF OnServer
  <2> QED BY <2>2, <2>3
<1> QED BY <1>1, <1>3, <1>4, <1>5 DEF ShownUnread

\* What t reads from now on is new to its bell, unless it has none.
LEMMA StorageStep ==
  ASSUME Inductive, NEW t \in Tabs, StorageEvent(t)
  PROVE  Inductive' /\ \A u \in Tabs : ShownUnread(u)' = ShownUnread(u)
<1> USE DEF Inductive
<1>1. /\ copy' = [copy EXCEPT ![t] = kept] /\ CountAgain(t)
      /\ UNCHANGED <<does, sent, readAt, kept, page, signedIn, list, opened, badge, panel, preview,
                     marks, marked, raced, refused>>
  BY DEF StorageEvent, serverVars, tabVars, history
<1>2. /\ asked' \in [Tabs -> [badge : Nat, list : 0..1, preview : 0..1]]
      /\ \A u \in Tabs \ {t} : asked'[u] = asked[u]
      /\ asked'[t].preview = asked[t].preview
      /\ IF signedIn[t] /\ page[t] # "login"
         THEN asked'[t].badge # 0 ELSE asked'[t] = asked[t]
  BY <1>1, CountedAgain
<1>3. kept \subseteq Known /\ kept \subseteq Items
  BY CentreAssumption DEF CentreTypeOK, CentreAssumption, Known, Items
<1>4. /\ copy' \in [Tabs -> SUBSET Items] /\ copy'[t] = kept
      /\ \A u \in Tabs \ {t} : copy'[u] = copy[u]
  BY <1>1, <1>3 DEF CentreTypeOK
<1>5. Previewed'
  <2>1. \A u \in Tabs : asked'[u].preview = asked[u].preview
    BY <1>2
  <2> QED BY <1>1, <2>1 DEF CentreTypeOK, Previewed
<1>6. CentreTypeOK'
  BY <1>1, <1>2, <1>4, <1>5 DEF CentreTypeOK, Previewed
<1>7. WithinSent'
  BY <1>1, <1>3, <1>4 DEF WithinSent, Known
<1>8. MarkAccounted'
  BY <1>1 DEF MarkAccounted, OnServer
<1>9. BellFollows'
  <2>1. Quiet(t)'
    <3>1. CASE signedIn[t] /\ page[t] # "login"
      BY <1>1, <1>2, <3>1 DEF BellFollows, Quiet
    <3>2. CASE ~(signedIn[t] /\ page[t] # "login")
      BY <1>1, <1>2, <3>2 DEF BellFollows, Quiet
    <3> QED BY <3>1, <3>2
  <2>2. \A u \in Tabs \ {t} : Quiet(u)'
    BY <1>1, <1>2, <1>4 DEF BellFollows, Quiet
  <2> QED BY <2>1, <2>2 DEF BellFollows
<1> QED BY <1>1, <1>6, <1>7, <1>8, <1>9 DEF ShownUnread
-------------------------------------------------------------------------------
\* A list arrives, or nothing does.
LEMMA ShowStep ==
  ASSUME Inductive, NEW t \in Tabs, NEW kind \in Components, NEW view \in Views,
         Present(view) \subseteq Known, Unread(view) \cap copy[t] = {},
         NEW state \in {"ready", "error"}, Shows(t, kind, view, state)
  PROVE  /\ Inductive'
         /\ \A u \in Tabs : NewlyUnread(u) \cap copy[u] = {}
<1> USE DEF Inductive
<1>1. /\ UNCHANGED <<does, sent, readAt, kept, copy, page, signedIn, opened, panel, marks, marked, raced, refused>>
      /\ badge' = IF kind = "badge" THEN [badge EXCEPT ![t] = Unread(view)] ELSE badge
      /\ list' = IF kind = "list" THEN [list EXCEPT ![t] = view] ELSE list
      /\ preview' = IF kind = "preview"
                    THEN [preview EXCEPT ![t] = [state |-> state, view |-> view]] ELSE preview
  BY DEF Shows, serverVars, storageVars, history
<1>2. TabTypes /\ Previewed
  BY DEF CentreTypeOK, TabTypes, Previewed
<1>3. /\ asked' \in [Tabs -> [badge : Nat, list : 0..1, preview : 0..1]]
      /\ \A u \in Tabs \ {t} : asked'[u] = asked[u]
      /\ kind = "badge" => asked[t].badge # 0
      /\ kind # "badge" => asked'[t].badge = asked[t].badge
      /\ kind = "preview" => asked'[t].preview = 0
      /\ kind # "preview" => asked'[t].preview = asked[t].preview
  <2>1. asked[t][kind] > 0 /\ asked' = [asked EXCEPT ![t][kind] = asked[t][kind] - 1]
    BY DEF Shows
  <2>2. CASE kind = "badge"
    <3>1. asked[t].badge \in Nat /\ asked[t].badge > 0
      BY <1>2, <2>1, <2>2 DEF TabTypes
    <3>2. asked[t].badge - 1 \in Nat /\ asked[t].badge # 0
      BY <3>1
    <3>3. asked' = [asked EXCEPT ![t].badge = asked[t].badge - 1]
      BY <2>1, <2>2
    <3>4. asked' \in [Tabs -> [badge : Nat, list : 0..1, preview : 0..1]]
      BY <1>2, <3>2, <3>3 DEF TabTypes
    <3> QED BY <1>2, <2>2, <3>2, <3>3, <3>4 DEF TabTypes
  <2>3. CASE kind = "list"
    <3>1. asked[t].list = 1
      BY <1>2, <2>1, <2>3 DEF TabTypes
    <3>2. asked' = [asked EXCEPT ![t].list = 0]
      <4>1. asked[t].list - 1 = 0
        BY <3>1
      <4>2. asked' = [asked EXCEPT ![t].list = asked[t].list - 1]
        BY <2>1, <2>3
      <4> QED BY <4>1, <4>2, Zenon
    <3>3. asked' \in [Tabs -> [badge : Nat, list : 0..1, preview : 0..1]]
      <4>1. 0 \in 0..1
        OBVIOUS
      <4> QED BY <1>2, <3>2, <4>1 DEF TabTypes
    <3> QED BY <1>2, <2>3, <3>2, <3>3 DEF TabTypes
  <2>4. CASE kind = "preview"
    <3>1. asked[t].preview = 1
      BY <1>2, <2>1, <2>4 DEF TabTypes
    <3>2. asked' = [asked EXCEPT ![t].preview = 0]
      <4>1. asked[t].preview - 1 = 0
        BY <3>1
      <4>2. asked' = [asked EXCEPT ![t].preview = asked[t].preview - 1]
        BY <2>1, <2>4
      <4> QED BY <4>1, <4>2, Zenon
    <3>3. asked' \in [Tabs -> [badge : Nat, list : 0..1, preview : 0..1]]
      <4>1. 0 \in 0..1
        OBVIOUS
      <4> QED BY <1>2, <3>2, <4>1 DEF TabTypes
    <3> QED BY <1>2, <2>4, <3>2, <3>3 DEF TabTypes
  <2> QED BY <2>2, <2>3, <2>4 DEF Components
<1>4. Unread(view) \subseteq Items /\ [state |-> state, view |-> view] \in [state : {"idle", "loading", "ready", "error"}, view : Views]
  BY DEF Unread
<1>5. ASSUME NEW u \in Tabs, u # t
      PROVE  /\ badge'[u] = badge[u] /\ list'[u] = list[u] /\ preview'[u] = preview[u]
             /\ asked'[u] = asked[u]
  BY <1>1, <1>2, <1>3, <1>5 DEF TabTypes
<1>6. /\ badge'[t] = IF kind = "badge" THEN Unread(view) ELSE badge[t]
      /\ list'[t] = IF kind = "list" THEN view ELSE list[t]
      /\ preview'[t] = IF kind = "preview" THEN [state |-> state, view |-> view] ELSE preview[t]
  BY <1>1, <1>2 DEF TabTypes
<1>7. TabTypes'
  <2>1. list' \in [Tabs -> Views]
    BY <1>1, <1>2 DEF TabTypes
  <2>2. badge' \in [Tabs -> SUBSET Items]
    BY <1>1, <1>2, <1>4 DEF TabTypes
  <2>3. preview' \in [Tabs -> [state : {"idle", "loading", "ready", "error"}, view : Views]]
    BY <1>1, <1>2, <1>4 DEF TabTypes
  <2> QED BY <1>1, <1>2, <1>3, <2>1, <2>2, <2>3 DEF TabTypes
<1>8. Previewed'
  <2>1. (preview'[t].state = "loading") = (asked'[t].preview = 1)
    <3>1. CASE kind = "preview"
      BY <1>3, <1>6, <3>1
    <3>2. CASE kind # "preview"
      BY <1>2, <1>3, <1>6, <3>2 DEF Previewed
    <3> QED BY <3>1, <3>2
  <2> QED BY <1>2, <1>5, <2>1 DEF Previewed
<1>9. CentreTypeOK'
  BY <1>1, <1>7, <1>8 DEF CentreTypeOK, TabTypes, Previewed
<1>10. WithinSent'
  <2>1. \A u \in Tabs : Present(list'[u]) \subseteq Known
    BY <1>5, <1>6 DEF WithinSent
  <2> QED BY <1>1, <2>1 DEF WithinSent, Known
<1>11. MarkAccounted'
  BY <1>1 DEF MarkAccounted, OnServer
<1>12. BellFollows'
  <2>1. CASE kind = "badge"
    <3>1. signedIn[t] /\ page[t] # "login"
      BY <1>3, <2>1 DEF BellFollows, Quiet, CentreTypeOK
    <3>2. Quiet(t)'
      BY <1>1, <1>6, <2>1, <3>1 DEF BellFollows, Quiet
    <3> QED BY <1>1, <1>5, <3>2 DEF BellFollows, Quiet
  <2>2. CASE kind # "badge"
    BY <1>1, <1>3, <1>5, <1>6, <2>2 DEF BellFollows, Quiet
  <2> QED BY <2>1, <2>2
<1>13. NewlyUnread(t) \subseteq Unread(view)
  BY <1>6 DEF NewlyUnread, ShownUnread
<1>14. ASSUME NEW u \in Tabs, u # t PROVE NewlyUnread(u) = {}
  BY <1>5, <1>14 DEF NewlyUnread, ShownUnread
<1> QED BY <1>9, <1>10, <1>11, <1>12, <1>13, <1>14
-------------------------------------------------------------------------------
\* What a tab knows to be read covers every mark that no write dropped.
LEMMA KnownRead ==
  ASSUME Inductive, NEW u \in Tabs, NewlyUnread(u) \cap copy[u] = {}
  PROVE  StaysRead(u)
<1>1. marked \ raced \subseteq kept
  BY DEF Inductive, MarkAccounted
<1> QED BY <1>1 DEF StaysRead

LEMMA GestureStep ==
  ASSUME Inductive, NEW t \in Tabs, Gesture(t)
  PROVE  Inductive' /\ \A u \in Tabs : NewlyUnread(u) = {}
<1>1. SUFFICES Inductive' /\ \A u \in Tabs : ShownUnread(u)' \subseteq ShownUnread(u)
  BY DEF NewlyUnread
<1>2. opened \in [Tabs -> 0..MaxId] /\ 0 \in 0..MaxId /\ Items \subseteq 0..MaxId
  BY CentreAssumption DEF Inductive, CentreTypeOK, CentreAssumption, Items
<1>3. ASSUME NEW item \in 0..MaxId, Visit(t, item)
      PROVE  Inductive' /\ \A u \in Tabs : ShownUnread(u)' \subseteq ShownUnread(u)
  <2>1. UNCHANGED <<serverVars, storageVars, marks, history>> /\ signedIn[t]
    BY <1>3 DEF Visit
  <2>2. CASE page[t] = "list"
    <3>1. /\ panel' = [panel EXCEPT ![t] = "none"] /\ panel[t] # "none"
          /\ UNCHANGED <<page, signedIn, list, opened, badge, preview, asked>>
      BY <1>3, <2>2 DEF Visit
    <3>2. ClosePanels(t)
      BY <2>1, <3>1 DEF ClosePanels
    <3> QED BY <3>2, PanelSteps
  <2>3. CASE page[t] # "list"
    <3>1. Mount(t, "list", TRUE) /\ opened' = [opened EXCEPT ![t] = item]
      BY <1>3, <2>3 DEF Visit
    <3>2. opened' \in [Tabs -> 0..MaxId]
      BY <1>2, <3>1
    <3> QED BY <2>1, <3>1, <3>2, MountSteps
  <2> QED BY <2>2, <2>3
<1>4. CASE Visit(t, 0)
  BY <1>2, <1>3, <1>4
<1>5. ASSUME NEW i \in Items, FromPreview(t, i)
      PROVE  Inductive' /\ \A u \in Tabs : ShownUnread(u)' \subseteq ShownUnread(u)
  <2>1. Visit(t, i) /\ i \in 0..MaxId
    BY <1>2, <1>5 DEF FromPreview
  <2> QED BY <1>3, <2>1
<1>6. CASE Leave(t) \/ LogOut(t) \/ GoToLogin(t) \/ LogIn(t)
  <2>1. UNCHANGED <<serverVars, storageVars, marks, history>> /\ opened' \in [Tabs -> 0..MaxId]
    BY <1>2, <1>6 DEF Leave, LogOut, GoToLogin, LogIn
  <2>2. \/ Mount(t, "other", TRUE) \/ Mount(t, "other", FALSE) \/ Mount(t, "login", FALSE)
    BY <1>6 DEF Leave, LogOut, GoToLogin, LogIn
  <2> QED BY <2>1, <2>2, MountSteps
<1>7. CASE Reload(t)
  BY <1>7, ReloadStep
<1>8. CASE ClickBell(t) \/ ClickAccount(t) \/ ClosePanels(t) \/ CloseItem(t) \/ SwitchLanguage(t)
  <2>1. Inductive' /\ \A u \in Tabs : ShownUnread(u)' = ShownUnread(u)
    BY <1>8, PanelSteps
  <2> QED BY <2>1
<1>9. CASE MarkAll(t)
  <2>1. MarkItemsAsRead(t, Unread(list[t])) /\ opened' \in [Tabs -> 0..MaxId]
    BY <1>2, <1>9 DEF MarkAll
  <2> QED BY <2>1, MarkSteps
<1>10. ASSUME NEW i \in Items, MarkOne(t, i)
       PROVE  Inductive' /\ \A u \in Tabs : ShownUnread(u)' \subseteq ShownUnread(u)
  <2>1. MarkItemsAsRead(t, {i}) /\ opened' \in [Tabs -> 0..MaxId]
    BY <1>2, <1>10 DEF MarkOne
  <2> QED BY <2>1, MarkSteps
<1>11. ASSUME NEW i \in Items, OpenItem(t, i)
       PROVE  Inductive' /\ \A u \in Tabs : ShownUnread(u)' \subseteq ShownUnread(u)
  <2>1. opened' = [opened EXCEPT ![t] = i] /\ opened' \in [Tabs -> 0..MaxId]
    BY <1>2, <1>11 DEF OpenItem
  <2>2. CASE i \in Unread(list[t])
    <3>1. MarkItemsAsRead(t, {i})
      BY <1>11, <2>2 DEF OpenItem
    <3> QED BY <2>1, <3>1, MarkSteps
  <2>3. CASE i \notin Unread(list[t])
    <3>1. UNCHANGED <<does, sent, readAt, kept, copy, page, signedIn, list, badge, panel, preview,
                      asked, marks, marked, raced, refused>>
      BY <1>11, <2>3 DEF OpenItem, serverVars, storageVars, history
    <3>2. CentreTypeOK'
      BY <2>1, <3>1 DEF Inductive, CentreTypeOK
    <3>3. WithinSent' /\ MarkAccounted' /\ BellFollows'
      BY <3>1 DEF Inductive, WithinSent, Known, MarkAccounted, OnServer, BellFollows, Quiet
    <3> QED BY <3>1, <3>2, <3>3 DEF Inductive, ShownUnread
  <2> QED BY <2>2, <2>3
<1> QED BY <1>4, <1>5, <1>6, <1>7, <1>8, <1>9, <1>10, <1>11 DEF Gesture

LEMMA AnswerStep ==
  ASSUME Inductive, Answer
  PROVE  Inductive' /\ \A u \in Tabs : NewlyUnread(u) \cap copy[u] = {}
<1>1. ASSUME NEW t \in Tabs, NEW kind \in Components, ListArrived(t, kind)
      PROVE  Inductive' /\ \A u \in Tabs : NewlyUnread(u) \cap copy[u] = {}
  <2>1. PICK n \in 0..sent, read \in SUBSET readAt :
          Shows(t, kind, Merge(Rows(n, read), t), "ready")
    BY <1>1 DEF ListArrived
  <2> DEFINE view == Merge(Rows(n, read), t)
  <2>2. n \in 0..MaxId /\ 1..n \subseteq Known /\ copy \in [Tabs -> SUBSET Items]
    BY CentreAssumption DEF Inductive, CentreTypeOK, CentreAssumption, Known
  <2>3. /\ view \in Views /\ Present(view) \subseteq 1..n
        /\ Unread(view) \cap copy[t] = {}
    BY <2>2, CentreAssumption, MergedView
  <2>4. Present(view) \subseteq Known /\ Shows(t, kind, view, "ready")
    BY <2>1, <2>2, <2>3
  <2> HIDE DEF view
  <2> QED BY <2>3, <2>4, ShowStep
<1>2. ASSUME NEW t \in Tabs, NEW kind \in Components, ListFailed(t, kind)
      PROVE  Inductive' /\ \A u \in Tabs : NewlyUnread(u) \cap copy[u] = {}
  <2>1. Shows(t, kind, Nothing, "error") /\ "error" \in {"ready", "error"}
    BY <1>2 DEF ListFailed
  <2>2. /\ Nothing \in Views /\ Present(Nothing) \subseteq Known
        /\ Unread(Nothing) \cap copy[t] = {}
    BY NothingShown
  <2> QED BY <2>1, <2>2, ShowStep
<1>3. ASSUME NEW m \in marks, MarkServed(m) \/ MarkFailed(m)
      PROVE  Inductive' /\ \A u \in Tabs : NewlyUnread(u) \cap copy[u] = {}
  <2>1. Inductive' /\ \A u \in Tabs : ShownUnread(u)' = ShownUnread(u)
    BY <1>3, PutSteps
  <2> QED BY <2>1 DEF NewlyUnread
<1> QED BY <1>1, <1>2, <1>3 DEF Answer

LEMMA NextStep ==
  ASSUME Inductive, CentreNext
  PROVE  Inductive' /\ \A u \in Tabs : StaysRead(u)
<1>1. SUFFICES Inductive' /\ \A u \in Tabs : NewlyUnread(u) \cap copy[u] = {}
  BY KnownRead
<1>2. ASSUME NEW t \in Tabs, Gesture(t)
      PROVE  Inductive' /\ \A u \in Tabs : NewlyUnread(u) \cap copy[u] = {}
  <2>1. Inductive' /\ \A u \in Tabs : NewlyUnread(u) = {}
    BY <1>2, GestureStep
  <2> QED BY <2>1
<1>3. ASSUME NEW t \in Tabs, StorageEvent(t)
      PROVE  Inductive' /\ \A u \in Tabs : NewlyUnread(u) \cap copy[u] = {}
  <2>1. Inductive' /\ \A u \in Tabs : ShownUnread(u)' = ShownUnread(u)
    BY <1>3, StorageStep
  <2> QED BY <2>1 DEF NewlyUnread
<1>4. CASE Answer
  BY <1>4, AnswerStep
<1>5. CASE Notify
  <2>1. Inductive' /\ \A u \in Tabs : ShownUnread(u)' = ShownUnread(u)
    BY <1>5, NotifyStep
  <2> QED BY <2>1 DEF NewlyUnread
<1> QED BY <1>2, <1>3, <1>4, <1>5 DEF CentreNext

LEMMA Stutter == Inductive /\ UNCHANGED centreVars => Inductive' /\ \A u \in Tabs : StaysRead(u)
<1> SUFFICES ASSUME Inductive, UNCHANGED centreVars
             PROVE  Inductive' /\ \A u \in Tabs : StaysRead(u)
  OBVIOUS
<1>1. UNCHANGED <<does, sent, readAt, kept, copy, page, signedIn, list, opened, badge, panel, preview,
                  asked, marks, marked, raced, refused>>
  BY DEF centreVars, serverVars, storageVars, tabVars, history
<1>2. CentreTypeOK' /\ WithinSent' /\ MarkAccounted' /\ BellFollows'
  BY <1>1 DEF Inductive, CentreTypeOK, WithinSent, Known, MarkAccounted, OnServer, BellFollows, Quiet
<1>3. \A u \in Tabs : NewlyUnread(u) = {}
  BY <1>1 DEF NewlyUnread, ShownUnread
<1> QED BY <1>2, <1>3 DEF Inductive, StaysRead
-------------------------------------------------------------------------------
\* The strengthened invariant, of every behaviour of the tabs and the server.
THEOREM CentreInductive == CentreSpec => []Inductive
<1>1. CentreInit => Inductive
  BY CentreAssumption, InductiveInit
<1>2. Inductive /\ [CentreNext]_centreVars => Inductive'
  BY NextStep, Stutter
<1> QED BY <1>1, <1>2, PTL DEF CentreSpec

\* However many tabs write over each other's ids and however many PUTs fail,
\* an item marked as read is forgotten only where both happened to it.
THEOREM ForgottenAfterTwo == CentreSpec => []TwoFailuresToForget
<1>1. Inductive => TwoFailuresToForget
  BY DEF Inductive, MarkAccounted, OnServer, TwoFailuresToForget
<1> QED BY <1>1, CentreInductive, PTL

\* A bell that waits for nothing counts nothing its tab's storage has as
\* read, however many counts were under way and in whatever order they came.
THEOREM BellSettles == CentreSpec => []BadgeSettles
<1>1. Inductive => BadgeSettles
  BY DEF Inductive, BellFollows, Quiet, BadgeSettles
<1> QED BY <1>1, CentreInductive, PTL

\* No step, neither a late list nor one the server answers without the mark,
\* shows as unread again what a tab has heard to be read.
THEOREM ReadIsKept == CentreSpec => ReadStaysRead
<1>1. Inductive /\ [CentreNext]_centreVars =>
        [\A t \in Tabs : copy[t] = kept =>
           (ShownUnread(t)' \ ShownUnread(t)) \cap (marked \ raced) = {}]_centreVars
  BY NextStep DEF StaysRead, NewlyUnread
<1> QED BY <1>1, CentreInductive, PTL DEF CentreSpec, ReadStaysRead
===============================================================================
