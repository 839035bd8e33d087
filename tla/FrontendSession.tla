---------------------------- MODULE FrontendSession ----------------------------
(***************************************************************************)
(* Who is signed in, as the browser sees it: the session in localStorage,  *)
(* the copy each tab's AuthProvider keeps in React state, the page each    *)
(* tab shows behind its route guard, and the requests under way between    *)
(* the tabs and the server.  axios.ts attaches the stored token when a     *)
(* request is sent and ends the session when an answer is 401, whenever    *)
(* that answer arrives.                                                    *)
(*                                                                         *)
(* The tabs share the storage and nothing tells one of another's change.   *)
(* A handler and the render it causes are one step, and so are a page load *)
(* and the effects of its first render.  A token stands for a session's    *)
(* token and expiry; a user for the id, name and role the server sends.    *)
(***************************************************************************)
EXTENDS Naturals, FiniteSets

CONSTANTS Tabs,        \* browser tabs
          Users,       \* people with a phone number and a password
          Merchants,   \* those whose account has the merchant role
          NoUser,      \* nobody: an identity not known
          Malformed,   \* form input the page itself refuses
          Visits,      \* bound: Visits[t] are the pages one goes to in tab t
          MaxTokens,   \* bound: tokens the server signs; then it answers 429
          MaxExpired,  \* bound: tokens that expire
          MaxRequests  \* bound: requests under way at once

ASSUME SessionAssumption ==
  /\ Merchants \subseteq Users
  /\ NoUser \notin Users /\ Malformed \notin Users /\ NoUser # Malformed
  /\ MaxTokens \in Nat /\ MaxExpired \in Nat /\ MaxRequests \in Nat

VARIABLES
  stored,        \* auth_session and token in localStorage
  session,       \* session[t]: AuthProvider's state
  initializing,  \* initializing[t]: AuthProvider's isInitializing
  loc,           \* loc[t]: path, and the path to go back to after logging in:
                 \* in the router state if kept, otherwise in the query
  form,          \* form[t]: the login or registration form, "ready" elsewhere
  timer,         \* timer[t]: the registration page's timer, with its router state
  requests,      \* requests under way
  registered,    \* server: users with an account
  issued,        \* server: issued[k] is the user token k was signed for
  expired        \* server: tokens not accepted any more

tabVars == <<session, initializing, loc, form>>
serverVars == <<registered, issued, expired>>
sessionVars == <<stored, tabVars, timer, requests, serverVars>>

Tokens == 1..MaxTokens
Identities == Users \cup {NoUser}
Sessions == [token : 0..MaxTokens, user : Identities]
NoSession == [token |-> 0, user |-> NoUser]

\* shouldRestoreSession: a token without the identity it stands for.
Incomplete(s) == s.token # 0 /\ s.user = NoUser
-------------------------------------------------------------------------------
(* Paths, the route guard and the way to the login page and back.          *)

Guarded == {"/profile", "/merchant/dashboard"}
Paths == Guarded \cup {"/", "/login", "/register"}
NoPath == "none"
Urls == Paths \cup {"/app/profile", "/merchant", "/anything"}

\* The route table: legacy paths and unknown ones lead elsewhere.
Route(url) ==
  CASE url \in Paths -> url
    [] url = "/app/profile" -> "/profile"
    [] url = "/merchant" -> "/merchant/dashboard"
    [] OTHER -> "/"

ForMerchants(path) == path = "/merchant/dashboard"

\* What ProtectedRoute renders; "login" is a <Navigate>, followed at once.
Shown(path, s, init) ==
  IF path \notin Guarded THEN "page"
  ELSE IF init THEN "nothing"
  ELSE IF s.token = 0 THEN "login"
  ELSE IF ForMerchants(path) /\ s.user \notin Merchants THEN "guard" ELSE "page"

NormalizeRedirectPath(path) == IF path = "/login" THEN NoPath ELSE path
DefaultPath(user) == IF user \in Merchants THEN "/merchant/dashboard" ELSE "/"

\* Faulty variants: no default; the role not looked at.
PostLoginPathRaw(user, path) == path
PostLoginPathUnchecked(user, path) ==
  IF NormalizeRedirectPath(path) = NoPath THEN DefaultPath(user) ELSE path
PostLoginPath(user, path) ==
  IF \/ NormalizeRedirectPath(path) = NoPath
     \/ ForMerchants(path) /\ user \notin Merchants
  THEN DefaultPath(user)
  ELSE path

At(path) == [path |-> path, back |-> NoPath, kept |-> FALSE]
\* buildLoginPath; the guard hands the path over in the router state too.
LoginPath(back, kept) ==
  [path |-> "/login", back |-> NormalizeRedirectPath(back), kept |-> kept]
\* The links between the two forms hand on the router state alone.
FormLink(path, l) ==
  IF l.kept THEN [path |-> path, back |-> l.back, kept |-> TRUE] ELSE At(path)

Settle(l, s, init) ==
  IF Shown(l.path, s, init) = "login" THEN LoginPath(l.path, TRUE) ELSE l
-------------------------------------------------------------------------------
(* Rendering: tab t shows location l with session s.  Leaving a page       *)
(* unmounts it with its form; a new session runs the cleanup of the        *)
(* restore effect.  A request knows by "on" whether its page, or the       *)
(* effect that sent it, is still there.                                    *)

Kept(r, t, moved, renewed) ==
  IF r.tab = t /\ (IF r.kind = "restore" THEN renewed ELSE moved)
  THEN [r EXCEPT !.on = FALSE] ELSE r

Render(t, s, init, l, pending) ==
  LET to == Settle(l, s, init)
      moved == to.path # loc[t].path
  IN /\ session' = [session EXCEPT ![t] = s]
     /\ initializing' = [initializing EXCEPT ![t] = init]
     /\ loc' = [loc EXCEPT ![t] = to]
     /\ form' = IF moved THEN [form EXCEPT ![t] = "ready"] ELSE form
     /\ requests' = {Kept(r, t, moved, s # session[t]) : r \in pending}

\* The request interceptor attaches the token that is stored now; logging in
\* and registering do not look at it.
Query(t, kind) ==
  [tab |-> t, kind |-> kind, auth |-> stored.token, user |-> NoUser, want |-> NoPath,
   on |-> TRUE, status |-> "sent"]
Credentials(t, kind, user, want) ==
  [tab |-> t, kind |-> kind, auth |-> 0, user |-> user, want |-> want,
   on |-> TRUE, status |-> "sent"]
Send(r) == Cardinality(requests) < MaxRequests /\ requests' = requests \cup {r}

RequestFields == [tab : Tabs, kind : {"login", "register", "restore", "profile", "data"},
  auth : 0..MaxTokens, user : Identities, want : Paths \cup {NoPath}, on : BOOLEAN,
  status : {"sent", "ok", "unauthorized"}]
-------------------------------------------------------------------------------
(* Loading a page and moving between pages.                                *)

\* The restore effect of a load: a token alone is completed from the profile.
Restoring(t) == IF Incomplete(stored) THEN {Query(t, "restore")} ELSE {}

\* Tabs just loaded, over the storage of an earlier visit: nothing, a
\* session, or the bare token that older versions stored.
Init ==
  /\ registered = Merchants
  /\ expired = {}
  /\ issued \in {[k \in Tokens |-> IF k = 1 THEN u ELSE NoUser] : u \in registered \cup {NoUser}}
  /\ stored \in {s \in Sessions : \/ s = NoSession
                                  \/ /\ s.token = 1 /\ issued[1] # NoUser
                                     /\ s.user \in {NoUser, issued[1]}}
  /\ session = [t \in Tabs |-> stored]
  /\ initializing = [t \in Tabs |-> Incomplete(stored)]
  /\ loc = [t \in Tabs |-> At("/")]
  /\ form = [t \in Tabs |-> "ready"]
  /\ timer = [t \in Tabs |-> "off"]
  /\ requests = UNION {Restoring(t) : t \in Tabs}

\* A load by address or reload: the tab starts afresh from the storage, and
\* what it had asked for is dropped.
Load(t, l) ==
  LET others == {r \in requests : r.tab # t}
  IN /\ Cardinality(others) < MaxRequests
     /\ session' = [session EXCEPT ![t] = stored]
     /\ initializing' = [initializing EXCEPT ![t] = Incomplete(stored)]
     /\ loc' = [loc EXCEPT ![t] = Settle(l, stored, Incomplete(stored))]
     /\ form' = [form EXCEPT ![t] = "ready"]
     /\ timer' = [timer EXCEPT ![t] = "off"]
     /\ requests' = others \cup Restoring(t)
     /\ UNCHANGED <<stored, serverVars>>

Open(t, url) == Route(url) \in Visits[t] /\ Load(t, At(Route(url)))

\* A link or button of the page, of the header around it or of the browser,
\* followed inside the application.
Follow(t, path) ==
  /\ path \in Visits[t] \ {loc[t].path}
  /\ Render(t, session[t], initializing[t],
            IF {path, loc[t].path} = {"/login", "/register"}
            THEN FormLink(path, loc[t]) ELSE At(path),
            requests)
  /\ UNCHANGED <<stored, timer, serverVars>>

\* A mounted page asks the API for something.  The profile page asks that a
\* 401 should not redirect.
Fetch(t) ==
  /\ loc[t].path \in Guarded
  /\ Shown(loc[t].path, session[t], initializing[t]) = "page"
  /\ Send([Query(t, IF loc[t].path = "/profile" THEN "profile" ELSE "data")
             EXCEPT !.on = FALSE])
  /\ UNCHANGED <<stored, tabVars, timer, serverVars>>
-------------------------------------------------------------------------------
(* The login and the registration page.                                    *)

\* Typing takes the login form's errors away; the other form keeps its own.
Type(t) ==
  /\ loc[t].path = "/login" /\ form[t] = "error"
  /\ form' = [form EXCEPT ![t] = "ready"]
  /\ UNCHANGED <<stored, session, initializing, loc, timer, requests, serverVars>>

\* A form is sent unless one is under way.  What the page itself refuses (a
\* malformed phone number, two different passwords) stays in the page.
Submit(t, kind, entry) ==
  /\ form[t] \in {"ready", "error"}
  /\ IF entry = Malformed
     THEN form' = [form EXCEPT ![t] = "error"] /\ UNCHANGED requests
     ELSE /\ form' = [form EXCEPT ![t] = "loading"]
          /\ Send(Credentials(t, kind, entry, loc[t].back))
  /\ UNCHANGED <<stored, session, initializing, loc, timer, serverVars>>

SubmitLogin(t, entry) ==
  loc[t].path = "/login" /\ "/login" \in Visits[t] /\ Submit(t, "login", entry)
SubmitRegister(t, entry) == loc[t].path = "/register" /\ Submit(t, "register", entry)

\* The registration page's timer is not cleared when the page is left.
RegisterTimer(t) ==
  /\ timer[t] # "off"
  /\ timer' = [timer EXCEPT ![t] = "off"]
  /\ Render(t, session[t], initializing[t],
            FormLink("/login", [back |-> timer[t], kept |-> timer[t] # NoPath]), requests)
  /\ UNCHANGED <<stored, serverVars>>

\* The header, which is around every page but the two forms, also while the
\* page itself is blank: logout, then home.
LogOut(t) ==
  /\ session[t].token # 0
  /\ loc[t].path \notin {"/login", "/register"}
  /\ stored' = NoSession
  /\ Render(t, NoSession, FALSE, At("/"), requests)
  /\ UNCHANGED <<timer, serverVars>>
-------------------------------------------------------------------------------
(* The server answers.  An answer that changes nothing at the server and   *)
(* may not be overtaken by a change that matters (a refusal, a lost        *)
(* connection, data for a page) is served as it arrives, below.            *)

Answered(r, status, token) ==
  requests' = (requests \ {r}) \cup {[r EXCEPT !.status = status, !.auth = token]}

UnusedTokens == {k \in Tokens : issued[k] = NoUser}

ServeLogin(r) ==
  /\ r.kind = "login" /\ r.status = "sent" /\ r.user \in registered
  /\ \E k \in UnusedTokens :
       /\ \A j \in UnusedTokens : k <= j
       /\ issued' = [issued EXCEPT ![k] = r.user]
       /\ Answered(r, "ok", k)
  /\ UNCHANGED <<stored, tabVars, timer, registered, expired>>

ServeRegister(r) ==
  /\ r.kind = "register" /\ r.status = "sent" /\ r.user \notin registered
  /\ registered' = registered \cup {r.user}
  /\ Answered(r, "ok", r.auth)
  /\ UNCHANGED <<stored, tabVars, timer, issued, expired>>

Accepted(r) == r.auth # 0 /\ r.auth \notin expired

\* The profile's owner is the user the token was signed for.
ServeProfile(r) ==
  /\ r.kind = "restore" /\ r.status = "sent" /\ Accepted(r)
  /\ Answered(r, "ok", r.auth)
  /\ UNCHANGED <<stored, tabVars, timer, serverVars>>

ServeUnauthorized(r) ==
  /\ r.kind \in {"restore", "profile", "data"} /\ r.status = "sent" /\ ~Accepted(r)
  /\ Answered(r, "unauthorized", 0)
  /\ UNCHANGED <<stored, tabVars, timer, serverVars>>

Expire(k) ==
  /\ issued[k] # NoUser /\ k \notin expired /\ Cardinality(expired) < MaxExpired
  /\ expired' = expired \cup {k}
  /\ UNCHANGED <<stored, tabVars, timer, requests, registered, issued>>
-------------------------------------------------------------------------------
(* Answers arrive, in any order.                                           *)

Arrived(r, kind, status) == r.kind = kind /\ r.status = status

\* handleLogin after its await: it does not ask whether the page is still
\* there, and goes where the login page it was sent from was asked to go.
LoggedIn(r) ==
  /\ Arrived(r, "login", "ok")
  /\ LET s == [token |-> r.auth, user |-> r.user]
     IN /\ stored' = s
        /\ Render(r.tab, s, FALSE, At(PostLoginPath(r.user, r.want)), requests \ {r})
  /\ UNCHANGED <<timer, serverVars>>

Registered(r) ==
  /\ Arrived(r, "register", "ok")
  /\ timer' = [timer EXCEPT ![r.tab] = r.want]
  /\ form' = IF r.on THEN [form EXCEPT ![r.tab] = "done"] ELSE form
  /\ requests' = requests \ {r}
  /\ UNCHANGED <<stored, session, initializing, loc, serverVars>>

\* Wrong number or password, a number taken, too many requests, no connection.
FormRefused(r) ==
  /\ r.kind \in {"login", "register"} /\ r.status = "sent"
  /\ form' = IF r.on THEN [form EXCEPT ![r.tab] = "error"] ELSE form
  /\ requests' = requests \ {r}
  /\ UNCHANGED <<stored, session, initializing, loc, timer, serverVars>>

\* Faulty variants: the cleanup's flag is not looked at; the token is read
\* from the storage when the profile arrives.
RestoredLate(r) ==
  /\ Arrived(r, "restore", "ok")
  /\ LET s == [token |-> r.auth, user |-> issued[r.auth]]
     IN /\ stored' = s
        /\ Render(r.tab, s, FALSE, loc[r.tab], requests \ {r})
  /\ UNCHANGED <<timer, serverVars>>
RestoredOverStored(r) ==
  /\ Arrived(r, "restore", "ok")
  /\ IF r.on /\ stored.token # 0
     THEN LET s == [token |-> stored.token, user |-> issued[r.auth]]
          IN /\ stored' = s
             /\ Render(r.tab, s, FALSE, loc[r.tab], requests \ {r})
     ELSE requests' = requests \ {r} /\ UNCHANGED <<stored, tabVars>>
  /\ UNCHANGED <<timer, serverVars>>

Restored(r) ==
  /\ Arrived(r, "restore", "ok")
  /\ IF r.on
     THEN LET s == [token |-> r.auth, user |-> issued[r.auth]]
          IN /\ stored' = s
             /\ Render(r.tab, s, FALSE, loc[r.tab], requests \ {r})
     ELSE requests' = requests \ {r} /\ UNCHANGED <<stored, tabVars>>
  /\ UNCHANGED <<timer, serverVars>>

RestoreFailedSilently(r) ==                             \* faulty RestoreFailed
  /\ Arrived(r, "restore", "sent")
  /\ requests' = requests \ {r}
  /\ UNCHANGED <<stored, tabVars, timer, serverVars>>

\* No answer: the session stays as it is, without an identity.
RestoreFailed(r) ==
  /\ Arrived(r, "restore", "sent")
  /\ IF r.on
     THEN Render(r.tab, session[r.tab], FALSE, loc[r.tab], requests \ {r})
     ELSE requests' = requests \ {r} /\ UNCHANGED tabVars
  /\ UNCHANGED <<stored, timer, serverVars>>

DataArrived(r) ==
  /\ r.kind \in {"profile", "data"} /\ r.status = "sent"
  /\ requests' = requests \ {r}
  /\ UNCHANGED <<stored, tabVars, timer, serverVars>>

\* The header that the restore effect and the profile page send along.
SkipAuthRedirect(r) == r.kind # "data"
UnauthorizedUnheard(r) ==                               \* faulty Unauthorized
  /\ r.status = "unauthorized" /\ r.kind # "data"
  /\ stored' = NoSession
  /\ requests' = requests \ {r}
  /\ UNCHANGED <<tabVars, timer, serverVars>>

\* The response interceptor on a 401 that may not redirect: storage and
\* AuthProvider forget the session, whichever session that is by now.
Unauthorized(r) ==
  /\ r.status = "unauthorized" /\ SkipAuthRedirect(r)
  /\ stored' = NoSession
  /\ Render(r.tab, NoSession, FALSE, loc[r.tab], requests \ {r})
  /\ UNCHANGED <<timer, serverVars>>

\* On a 401 that may: unless it shows the login page already, the tab is
\* loaded anew at the login page, with the way back in the query.
UnauthorizedRedirect(r) ==
  /\ r.status = "unauthorized" /\ ~SkipAuthRedirect(r)
  /\ stored' = NoSession
  /\ IF loc[r.tab].path = "/login"
     THEN /\ Render(r.tab, NoSession, FALSE, loc[r.tab], requests \ {r})
          /\ UNCHANGED timer
     ELSE /\ session' = [session EXCEPT ![r.tab] = NoSession]
          /\ initializing' = [initializing EXCEPT ![r.tab] = FALSE]
          /\ loc' = [loc EXCEPT ![r.tab] = LoginPath(loc[r.tab].path, FALSE)]
          /\ form' = [form EXCEPT ![r.tab] = "ready"]
          /\ timer' = [timer EXCEPT ![r.tab] = "off"]
          /\ requests' = {q \in requests : q.tab # r.tab}
  /\ UNCHANGED serverVars
-------------------------------------------------------------------------------
Receive(r) ==
  \/ LoggedIn(r) \/ Registered(r) \/ FormRefused(r)
  \/ Restored(r) \/ RestoreFailed(r) \/ DataArrived(r)
  \/ Unauthorized(r) \/ UnauthorizedRedirect(r)
Serve(r) == ServeLogin(r) \/ ServeRegister(r) \/ ServeProfile(r) \/ ServeUnauthorized(r)

Next ==
  \/ \E t \in Tabs, entry \in Users \cup {Malformed} :
       SubmitLogin(t, entry) \/ SubmitRegister(t, entry)
  \/ \E t \in Tabs : \/ \E url \in Urls : Open(t, url)
                     \/ \E path \in Paths : Follow(t, path)
                     \/ Type(t) \/ Fetch(t) \/ RegisterTimer(t) \/ LogOut(t)
  \/ \E r \in requests : Serve(r) \/ Receive(r)
  \/ \E k \in Tokens : Expire(k)

Spec == Init /\ [][Next]_sessionVars
-------------------------------------------------------------------------------
(* Correctness.                                                            *)

SessionTypeOK ==
  /\ stored \in Sessions /\ session \in [Tabs -> Sessions]
  /\ initializing \in [Tabs -> BOOLEAN]
  /\ loc \in [Tabs -> [path : Paths, back : Paths \cup {NoPath}, kept : BOOLEAN]]
  /\ form \in [Tabs -> {"ready", "error", "loading", "done"}]
  /\ timer \in [Tabs -> Paths \cup {NoPath, "off"}]
  /\ requests \subseteq RequestFields
  /\ registered \subseteq Users /\ issued \in [Tokens -> Identities]
  /\ expired \subseteq Tokens

(* A session never pairs one user's token with another user's identity, in *)
(* the storage or in a tab, although the identity may come from a profile  *)
(* that was asked for while other tabs log in and out.                     *)
Coherent(s) == s.user # NoUser => s.token # 0 /\ issued[s.token] = s.user
SessionsCoherent == Coherent(stored) /\ \A t \in Tabs : Coherent(session[t])

(* Storage and tabs change together: a tab's session changes only to what  *)
(* the storage then holds, and the storage only to what some tab then      *)
(* shows (docs/SPRINT/walkthrough.md:7: a 401 must not clear the storage   *)
(* and leave the page signed in).                                          *)
StorageAndTabsTogether ==
  [][/\ \A t \in Tabs : session'[t] \in {session[t], stored'}
     /\ stored' # stored => \E t \in Tabs : session'[t] = stored']_sessionVars

(* A tab that shows nobody signed in shows somebody again only through an  *)
(* answer to a login or by being loaded anew: a profile that was on its    *)
(* way at logout, or behind a 401, brings nothing back.                    *)
SessionReturnsOnlyByLogin ==
  [][\A t \in Tabs :
       session[t] = NoSession /\ session'[t] # NoSession =>
         \/ \E r \in requests : r.tab = t /\ LoggedIn(r)
         \/ session'[t] = stored]_sessionVars

(* docs/SPRINT/SPRINT1.md:157: after logging in one is back where one came *)
(* from, whichever way the request took; and on no page that the role      *)
(* guard refuses.                                                          *)
LoginLandsInside ==
  [][\A r \in requests : LoggedIn(r) =>
       LET l == loc'[r.tab]
       IN /\ Shown(l.path, session'[r.tab], FALSE) = "page"
          /\ l.path # "/login"
          /\ r.want \in Paths /\ (ForMerchants(r.want) => r.user \in Merchants)
               => l.path = r.want]_sessionVars

(* A page behind the guard is blank only while the profile that will end   *)
(* it is on its way: no other order of login, logout, 401 and answers      *)
(* leaves isInitializing set for good.                                     *)
BlankOnlyWhileRestoring ==
  \A t \in Tabs : initializing[t] =>
    \E r \in requests : r.tab = t /\ r.kind = "restore" /\ r.on
===============================================================================
