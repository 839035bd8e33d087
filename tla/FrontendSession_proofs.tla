------------------------ MODULE FrontendSession_proofs ------------------------
(***************************************************************************)
(* Theorems about FrontendSession for all sets of tabs, users and visits   *)
(* and all bounds.                                                         *)
(***************************************************************************)
EXTENDS FrontendSession, TLAPS

Locations == [path : Paths, back : Paths \cup {NoPath}, kept : BOOLEAN]

-------------------------------------------------------------------------------
(* Where the helpers lead.                                                 *)

LEMMA PathsApart == NoPath \notin Paths /\ "off" \notin Paths \cup {NoPath}
BY DEF Paths, Guarded, NoPath

LEMMA SettleType ==
  ASSUME NEW l \in Locations, NEW s, NEW init
  PROVE  Settle(l, s, init) \in Locations
BY DEF Settle, LoginPath, NormalizeRedirectPath, Locations, Paths, Guarded, NoPath

LEMMA AtType == ASSUME NEW path \in Paths PROVE At(path) \in Locations
BY DEF At, Locations

LEMMA FormLinkType ==
  ASSUME NEW path \in Paths, NEW l, l.kept => l.back \in Paths \cup {NoPath}
  PROVE  FormLink(path, l) \in Locations
BY AtType DEF FormLink, Locations

(* The page one lands on after a login is one the role may see, and not    *)
(* the login page.                                                         *)
LEMMA PostLoginLands ==
  ASSUME NEW user \in Identities, NEW want \in Paths \cup {NoPath}
  PROVE  LET path == PostLoginPath(user, want)
         IN /\ path \in Paths /\ path # "/login"
            /\ ForMerchants(path) => user \in Merchants
            /\ want \in Paths \ {"/login"} /\ (ForMerchants(want) => user \in Merchants)
                 => path = want
BY DEF PostLoginPath, DefaultPath, NormalizeRedirectPath, ForMerchants, Paths, Guarded, NoPath

LEMMA RouteType == ASSUME NEW url PROVE Route(url) \in Paths
BY DEF Route, Paths, Guarded

LEMMA TokenType == Tokens = (0..MaxTokens) \ {0}
BY SessionAssumption DEF SessionAssumption, Tokens

LEMMA NoSessionType == NoSession \in Sessions
BY SessionAssumption DEF SessionAssumption, NoSession, Sessions, Identities

-------------------------------------------------------------------------------
(* What a step of one kind does to the state, whichever action takes it.   *)

LEMMA RenderType ==
  ASSUME SessionTypeOK, NEW t \in Tabs, NEW s \in Sessions, NEW init \in BOOLEAN,
         NEW l \in Locations, NEW pending \in SUBSET RequestFields,
         Render(t, s, init, l, pending)
  PROVE  /\ session' = [session EXCEPT ![t] = s] /\ session' \in [Tabs -> Sessions]
         /\ initializing' = [initializing EXCEPT ![t] = init]
         /\ initializing' \in [Tabs -> BOOLEAN]
         /\ loc' = [loc EXCEPT ![t] = Settle(l, s, init)] /\ loc' \in [Tabs -> Locations]
         /\ form' \in [Tabs -> {"ready", "error", "loading", "done"}]
         /\ requests' \subseteq RequestFields
<1>1. Settle(l, s, init) \in Locations
  BY SettleType
<1>2. ASSUME NEW r \in RequestFields, NEW moved, NEW renewed
      PROVE  Kept(r, t, moved, renewed) \in RequestFields
  BY DEF Kept, RequestFields
<1>3. requests' \subseteq RequestFields
  BY <1>2 DEF Render
<1> QED BY <1>1, <1>3 DEF Render, SessionTypeOK, Locations

LEMMA QueryType ==
  ASSUME SessionTypeOK, NEW t \in Tabs, NEW kind \in {"restore", "profile", "data"}
  PROVE  Query(t, kind) \in RequestFields
BY DEF Query, RequestFields, SessionTypeOK, Sessions, Identities

LEMMA RestoringType ==
  ASSUME SessionTypeOK, NEW t \in Tabs
  PROVE  Restoring(t) \subseteq RequestFields
BY QueryType DEF Restoring

-------------------------------------------------------------------------------
(* The inductive invariant.                                                *)

\* What a request may be relied on for when its answer arrives.
Honest(r) ==
  /\ r.kind \in {"login", "register"} => r.user \in Users
  /\ r.kind = "login" /\ r.status = "ok" => r.auth \in Tokens /\ issued[r.auth] = r.user
  /\ r.kind = "restore" /\ r.status = "ok" => r.auth \in Tokens
  /\ r.kind = "restore" /\ r.on => session[r.tab].token # 0
  /\ r.want # "/login"
RequestsHonest == \A r \in requests : Honest(r)

\* No way leads back to the login page.
WayBack == \A t \in Tabs : loc[t].back # "/login" /\ timer[t] # "/login"

Inductive ==
  /\ SessionTypeOK /\ SessionsCoherent /\ RequestsHonest /\ WayBack
  /\ BlankOnlyWhileRestoring

LEMMA SettleBack ==
  ASSUME NEW l \in Locations, l.back # "/login", NEW s, NEW init
  PROVE  Settle(l, s, init).back # "/login"
BY DEF Settle, LoginPath, NormalizeRedirectPath, Locations, Paths, Guarded, NoPath

(* A render in tab t keeps the invariant, if the requests it drops are the *)
(* tab's own, and the page stays blank only where nothing else changed.    *)
LEMMA RenderStep ==
  ASSUME Inductive, NEW t \in Tabs, NEW s \in Sessions, NEW init \in BOOLEAN,
         NEW l \in Locations, l.back # "/login",
         NEW pending \in SUBSET requests, \A r \in requests \ pending : r.tab = t,
         init => pending = requests /\ s = session[t] /\ initializing[t],
         Render(t, s, init, l, pending),
         stored' \in Sessions, Coherent(stored'), Coherent(s),
         timer' \in [Tabs -> Paths \cup {NoPath, "off"}],
         \A u \in Tabs : timer'[u] # "/login",
         UNCHANGED serverVars
  PROVE  Inductive'
<1> USE DEF Inductive
<1>1. /\ session' = [session EXCEPT ![t] = s] /\ session' \in [Tabs -> Sessions]
      /\ initializing' = [initializing EXCEPT ![t] = init]
      /\ initializing' \in [Tabs -> BOOLEAN]
      /\ loc' = [loc EXCEPT ![t] = Settle(l, s, init)] /\ loc' \in [Tabs -> Locations]
      /\ form' \in [Tabs -> {"ready", "error", "loading", "done"}]
      /\ requests' \subseteq RequestFields
  <2>1. pending \in SUBSET RequestFields
    BY DEF SessionTypeOK
  <2> QED BY <2>1, RenderType
<1>2. SessionTypeOK'
  BY <1>1 DEF SessionTypeOK, serverVars, Locations
<1>3. SessionsCoherent'
  BY <1>1 DEF SessionsCoherent, Coherent, serverVars, SessionTypeOK
<1>4. PICK moved, renewed : /\ renewed = (s # session[t])
                            /\ requests' = {Kept(r, t, moved, renewed) : r \in pending}
  BY DEF Render
<1>5. RequestsHonest'
  <2> SUFFICES ASSUME NEW r \in pending
               PROVE  Honest(Kept(r, t, moved, renewed))'
    BY <1>4 DEF RequestsHonest
  <2> DEFINE q == Kept(r, t, moved, renewed)
  <2>1. r \in RequestFields /\ Honest(r)
    BY DEF RequestsHonest, SessionTypeOK
  <2>2. /\ q.kind = r.kind /\ q.tab = r.tab /\ q.status = r.status /\ q.auth = r.auth
        /\ q.user = r.user /\ q.want = r.want
        /\ q.on => r.on
        /\ q.on /\ q.kind = "restore" /\ q.tab = t => ~renewed
    BY <2>1 DEF Kept, RequestFields
  <2>3. q.kind = "restore" /\ q.on => session'[q.tab].token # 0
    BY <1>1, <1>4, <2>1, <2>2 DEF Honest, SessionTypeOK, RequestFields
  <2> QED BY <2>1, <2>2, <2>3 DEF Honest, serverVars
<1>6. WayBack'
  BY <1>1, SettleBack DEF WayBack, SessionTypeOK
<1>7. BlankOnlyWhileRestoring'
  <2> SUFFICES ASSUME NEW u \in Tabs, initializing'[u]
               PROVE  \E q \in requests' : q.tab = u /\ q.kind = "restore" /\ q.on
    BY DEF BlankOnlyWhileRestoring
  <2>1. initializing[u] /\ (u = t => pending = requests /\ ~renewed)
    BY <1>1, <1>4 DEF SessionTypeOK
  <2>2. PICK r \in requests : r.tab = u /\ r.kind = "restore" /\ r.on
    BY <2>1 DEF BlankOnlyWhileRestoring
  <2>3. r \in pending /\ Kept(r, t, moved, renewed) = r
    BY <2>1, <2>2 DEF Kept
  <2> QED BY <1>4, <2>2, <2>3
<1> QED BY <1>2, <1>3, <1>5, <1>6, <1>7

(* A request that is sent, answered or done with, while no tab's session   *)
(* and no address changes.                                                 *)
LEMMA RequestStep ==
  ASSUME Inductive, UNCHANGED <<stored, session, initializing, loc, expired>>,
         form' \in [Tabs -> {"ready", "error", "loading", "done"}],
         timer' \in [Tabs -> Paths \cup {NoPath, "off"}],
         \A t \in Tabs : timer'[t] # "/login",
         registered' \subseteq Users, issued' \in [Tokens -> Identities],
         \A k \in Tokens : issued[k] # NoUser => issued'[k] = issued[k],
         requests' \subseteq RequestFields,
         \A q \in requests' : q \in requests \/ Honest(q)',
         \A r \in requests : r.kind = "restore" /\ r.on =>
           \E q \in requests' : q.tab = r.tab /\ q.kind = "restore" /\ q.on
  PROVE  Inductive'
<1> USE DEF Inductive
<1>1. SessionTypeOK'
  BY DEF SessionTypeOK
<1>2. ASSUME NEW s \in Sessions, Coherent(s) PROVE Coherent(s)'
  BY <1>2, TokenType DEF Coherent, Sessions, SessionTypeOK
<1>3. SessionsCoherent'
  BY <1>2 DEF SessionsCoherent, SessionTypeOK
<1>4. RequestsHonest'
  <2> SUFFICES ASSUME NEW r \in requests PROVE Honest(r)'
    BY DEF RequestsHonest
  <2>1. Honest(r)
    BY DEF RequestsHonest
  <2>2. NoUser \notin Users
    BY SessionAssumption DEF SessionAssumption
  <2> QED BY <2>1, <2>2 DEF Honest
<1>5. WayBack'
  BY DEF WayBack
<1>6. BlankOnlyWhileRestoring'
  <2> SUFFICES ASSUME NEW t \in Tabs, initializing[t]
               PROVE  \E q \in requests' : q.tab = t /\ q.kind = "restore" /\ q.on
    BY DEF BlankOnlyWhileRestoring
  <2>1. PICK r \in requests : r.tab = t /\ r.kind = "restore" /\ r.on
    BY DEF BlankOnlyWhileRestoring
  <2> QED BY <2>1
<1> QED BY <1>1, <1>3, <1>4, <1>5, <1>6

(* A tab that is loaded anew: what it had asked for is dropped.            *)
LEMMA LoadStep ==
  ASSUME Inductive, NEW t \in Tabs, NEW l \in Locations, l.back # "/login", Load(t, l)
  PROVE  Inductive'
<1> USE DEF Inductive
<1> DEFINE others == {r \in requests : r.tab # t}
           q == Query(t, "restore")
<1>1. /\ session' = [session EXCEPT ![t] = stored] /\ session' \in [Tabs -> Sessions]
      /\ initializing' = [initializing EXCEPT ![t] = Incomplete(stored)]
      /\ initializing' \in [Tabs -> BOOLEAN]
      /\ loc' = [loc EXCEPT ![t] = Settle(l, stored, Incomplete(stored))]
      /\ loc' \in [Tabs -> Locations]
      /\ requests' = others \cup Restoring(t)
  BY SettleType DEF Load, SessionTypeOK, Incomplete, Locations
<1>2. SessionTypeOK'
  BY <1>1, RestoringType, PathsApart DEF Load, SessionTypeOK, serverVars, Locations
<1>3. SessionsCoherent'
  BY <1>1 DEF Load, SessionsCoherent, Coherent, serverVars, SessionTypeOK
<1>4. RequestsHonest'
  <2>1. ASSUME NEW r \in others PROVE Honest(r)'
    BY <1>1 DEF Load, Honest, RequestsHonest, SessionTypeOK, RequestFields, serverVars
  <2>2. ASSUME NEW r \in Restoring(t) PROVE Honest(r)'
    BY <1>1, <2>2 DEF Restoring, Honest, Query, Incomplete, SessionTypeOK, NoPath
  <2> QED BY <1>1, <2>1, <2>2 DEF RequestsHonest
<1>5. WayBack'
  BY <1>1, SettleBack DEF Load, WayBack, SessionTypeOK
<1>6. BlankOnlyWhileRestoring'
  <2> SUFFICES ASSUME NEW u \in Tabs, initializing'[u]
               PROVE  \E r \in requests' : r.tab = u /\ r.kind = "restore" /\ r.on
    BY DEF BlankOnlyWhileRestoring
  <2>1. CASE u = t
    <3>1. q \in requests'
      BY <1>1, <2>1 DEF Restoring, SessionTypeOK
    <3> QED BY <2>1, <3>1 DEF Query
  <2>2. CASE u # t
    BY <1>1, <2>2 DEF BlankOnlyWhileRestoring, SessionTypeOK
  <2> QED BY <2>1, <2>2
<1> QED BY <1>2, <1>3, <1>4, <1>5, <1>6

-------------------------------------------------------------------------------
(* The invariant holds.                                                    *)

LEMMA InductiveInit == Init => Inductive
<1> SUFFICES ASSUME Init PROVE Inductive
  OBVIOUS
<1>1. stored \in Sessions /\ issued \in [Tokens -> Identities] /\ Coherent(stored)
  <2>1. PICK u \in registered \cup {NoUser} :
          issued = [k \in Tokens |-> IF k = 1 THEN u ELSE NoUser]
    BY DEF Init
  <2>2. u \in Identities /\ issued \in [Tokens -> Identities]
    BY <2>1, SessionAssumption DEF Init, SessionAssumption, Identities
  <2>3. CASE stored = NoSession
    BY <2>2, <2>3, NoSessionType DEF Coherent, NoSession
  <2>4. CASE stored # NoSession
    BY <2>2, <2>4 DEF Init, Coherent
  <2> QED BY <2>3, <2>4
<1>2. loc \in [Tabs -> Locations]
  BY AtType DEF Init, Paths
<1>3. requests = {Query(t, "restore") : t \in {u \in Tabs : Incomplete(stored)}}
  BY DEF Init, Restoring
<1>4. ASSUME NEW t \in Tabs PROVE Query(t, "restore") \in RequestFields
  BY <1>1 DEF Query, RequestFields, Sessions, Identities
<1>5. SessionTypeOK
  BY <1>1, <1>2, <1>3, <1>4, SessionAssumption
  DEF Init, SessionTypeOK, SessionAssumption, Locations, Incomplete
<1>6. SessionsCoherent
  BY <1>1 DEF Init, SessionsCoherent
<1>7. RequestsHonest
  BY <1>3 DEF Init, RequestsHonest, Honest, Query, Incomplete, NoPath
<1>8. WayBack
  BY DEF Init, WayBack, At, NoPath
<1>9. BlankOnlyWhileRestoring
  <2> SUFFICES ASSUME NEW t \in Tabs, initializing[t]
               PROVE  \E r \in requests : r.tab = t /\ r.kind = "restore" /\ r.on
    BY DEF BlankOnlyWhileRestoring
  <2>1. Query(t, "restore") \in requests
    BY <1>3 DEF Init
  <2> QED BY <2>1 DEF Query
<1> QED BY <1>5, <1>6, <1>7, <1>8, <1>9 DEF Inductive

(* Steps of the user.                                                      *)
LEMMA UserNext ==
  ASSUME Inductive, NEW t \in Tabs,
         \/ \E entry \in Users \cup {Malformed} :
              SubmitLogin(t, entry) \/ SubmitRegister(t, entry)
         \/ \E url \in Urls : Open(t, url)
         \/ \E path \in Paths : Follow(t, path)
         \/ Type(t) \/ Fetch(t) \/ RegisterTimer(t) \/ LogOut(t)
  PROVE  Inductive'
<1> USE DEF Inductive
<1>1. loc[t] \in Locations /\ loc[t].back # "/login" /\ session[t] \in Sessions
  BY DEF SessionTypeOK, Locations, WayBack
<1>2. ASSUME NEW entry \in Users \cup {Malformed},
             SubmitLogin(t, entry) \/ SubmitRegister(t, entry)
      PROVE  Inductive'
  <2>1. PICK kind \in {"login", "register"} : Submit(t, kind, entry)
    BY <1>2 DEF SubmitLogin, SubmitRegister
  <2>2. form' \in [Tabs -> {"ready", "error", "loading", "done"}]
    BY <2>1 DEF Submit, SessionTypeOK
  <2>3. CASE entry = Malformed
    BY <2>1, <2>2, <2>3, RequestStep DEF Submit, SessionTypeOK, WayBack, serverVars
  <2>4. CASE entry # Malformed
    <3>1. entry \in Users
      BY <2>4
    <3>2. PICK q : /\ q = Credentials(t, kind, entry, loc[t].back)
                   /\ requests' = requests \cup {q}
      BY <2>1, <2>4 DEF Submit, Send
    <3>3. q \in RequestFields
      BY <1>1, <3>1, <3>2, SessionAssumption
      DEF Credentials, RequestFields, Identities, Locations, SessionAssumption
    <3>4. Honest(q)'
      BY <1>1, <3>1, <3>2 DEF Credentials, Honest
    <3> QED BY <2>1, <2>2, <3>2, <3>3, <3>4, RequestStep
            DEF Submit, SessionTypeOK, WayBack, serverVars
  <2> QED BY <2>3, <2>4
<1>3. ASSUME NEW url \in Urls, Open(t, url) PROVE Inductive'
  <2>1. At(Route(url)) \in Locations /\ At(Route(url)).back # "/login"
    BY RouteType, AtType DEF At, NoPath
  <2> QED BY <1>3, <2>1, LoadStep DEF Open
<1>4. ASSUME NEW path \in Paths, Follow(t, path) PROVE Inductive'
  <2>1. FormLink(path, loc[t]) \in Locations /\ FormLink(path, loc[t]).back # "/login"
    BY <1>1, FormLinkType DEF FormLink, At, NoPath, Locations
  <2>2. At(path) \in Locations /\ At(path).back # "/login"
    BY AtType DEF At, NoPath
  <2>3. PICK l \in Locations : /\ l.back # "/login"
                               /\ Render(t, session[t], initializing[t], l, requests)
    BY <1>4, <2>1, <2>2 DEF Follow
  <2>4. stored' \in Sessions /\ Coherent(stored') /\ Coherent(session[t])
    BY <1>4 DEF Follow, SessionTypeOK, SessionsCoherent
  <2>5. initializing[t] \in BOOLEAN /\ \A r \in requests \ requests : r.tab = t
    BY DEF SessionTypeOK
  <2>6. timer' \in [Tabs -> Paths \cup {NoPath, "off"}] /\ \A u \in Tabs : timer'[u] # "/login"
    BY <1>4 DEF Follow, SessionTypeOK, WayBack
  <2> QED BY <1>1, <1>4, <2>3, <2>4, <2>5, <2>6, RenderStep DEF Follow
<1>5. CASE Type(t)
  <2>1. form' \in [Tabs -> {"ready", "error", "loading", "done"}]
    BY <1>5 DEF Type, SessionTypeOK
  <2> QED BY <1>5, <2>1, RequestStep DEF Type, SessionTypeOK, WayBack, serverVars
<1>6. CASE Fetch(t)
  <2>0. PICK kind \in {"profile", "data"} :
          requests' = requests \cup {[Query(t, kind) EXCEPT !.on = FALSE]}
    BY <1>6 DEF Fetch, Send
  <2>1. PICK q :
          q = [Query(t, kind) EXCEPT !.on = FALSE] /\ requests' = requests \cup {q}
    BY <2>0
  <2>2. q \in RequestFields
    <3> DEFINE w == Query(t, kind)
    <3>1. w \in RequestFields
      BY QueryType
    <3>2. q = [w EXCEPT !.on = FALSE]
      BY <2>1
    <3> HIDE DEF w
    <3> QED BY <3>1, <3>2 DEF RequestFields
  <2>3. Honest(q)'
    BY <2>1 DEF Honest, Query, NoPath
  <2> QED BY <1>6, <2>1, <2>2, <2>3, RequestStep
          DEF Fetch, tabVars, serverVars, SessionTypeOK, WayBack
<1>7. CASE RegisterTimer(t)
  <2> DEFINE l == FormLink("/login", [back |-> timer[t], kept |-> timer[t] # NoPath])
  <2>1. l \in Locations /\ l.back # "/login"
    <3>1. timer[t] \in Paths \cup {NoPath} /\ timer[t] # "/login" /\ "/login" \in Paths
      BY <1>7 DEF RegisterTimer, SessionTypeOK, WayBack, Paths
    <3> QED BY <3>1, FormLinkType DEF FormLink, At, NoPath
  <2>2. timer' \in [Tabs -> Paths \cup {NoPath, "off"}] /\ \A u \in Tabs : timer'[u] # "/login"
    BY <1>7 DEF RegisterTimer, SessionTypeOK, WayBack
  <2> QED BY <1>1, <1>7, <2>1, <2>2, RenderStep
          DEF RegisterTimer, SessionTypeOK, SessionsCoherent
<1>8. CASE LogOut(t)
  <2>1. At("/") \in Locations /\ At("/").back # "/login"
    BY AtType DEF At, NoPath, Paths
  <2> QED BY <1>8, <2>1, NoSessionType, RenderStep
          DEF LogOut, SessionTypeOK, WayBack, Coherent, NoSession
<1> QED BY <1>2, <1>3, <1>4, <1>5, <1>6, <1>7, <1>8

(* Steps of the server.                                                    *)
LEMMA ServerNext ==
  ASSUME Inductive, (\E r \in requests : Serve(r)) \/ (\E k \in Tokens : Expire(k))
  PROVE  Inductive'
<1> USE DEF Inductive
<1>1. ASSUME NEW r \in requests, NEW status \in {"ok", "unauthorized"},
             NEW token \in 0..MaxTokens, Answered(r, status, token)
      PROVE  \E q \in RequestFields :
               /\ requests' = (requests \ {r}) \cup {q}
               /\ q.kind = r.kind /\ q.tab = r.tab /\ q.on = r.on /\ q.want = r.want
               /\ q.user = r.user /\ q.status = status /\ q.auth = token
  <2>1. r \in RequestFields
    BY DEF SessionTypeOK
  <2> [r EXCEPT !.status = status, !.auth = token] \in RequestFields
    BY <2>1 DEF RequestFields
  <2> WITNESS [r EXCEPT !.status = status, !.auth = token] \in RequestFields
  <2> QED BY <1>1, <2>1 DEF Answered, RequestFields
<1>2. ASSUME NEW r \in requests, Serve(r) PROVE Inductive'
  <2>1. Honest(r) /\ r \in RequestFields /\ requests \subseteq RequestFields
    BY DEF RequestsHonest, SessionTypeOK
  <2>2. r.auth \in 0..MaxTokens /\ 0 \in 0..MaxTokens
    BY <2>1, SessionAssumption DEF RequestFields, SessionAssumption
  <2>3. CASE ServeLogin(r)
    <3>1. PICK k \in UnusedTokens : /\ issued' = [issued EXCEPT ![k] = r.user]
                                    /\ Answered(r, "ok", k)
      BY <2>3 DEF ServeLogin
    <3>2. k \in Tokens /\ k \in 0..MaxTokens /\ issued[k] = NoUser
      BY <3>1, TokenType DEF UnusedTokens
    <3>3. PICK q \in RequestFields :
            /\ requests' = (requests \ {r}) \cup {q}
            /\ q.kind = r.kind /\ q.tab = r.tab /\ q.on = r.on /\ q.want = r.want
            /\ q.user = r.user /\ q.status = "ok" /\ q.auth = k
      BY <1>1, <3>1, <3>2
    <3>4. issued' \in [Tokens -> Identities] /\ issued'[k] = r.user
          /\ \A j \in Tokens : issued[j] # NoUser => issued'[j] = issued[j]
      BY <2>1, <3>1, <3>2 DEF SessionTypeOK, RequestFields
    <3>5. Honest(q)'
      BY <2>1, <2>3, <3>2, <3>3, <3>4 DEF Honest, ServeLogin, tabVars
    <3> QED BY <2>1, <2>3, <3>3, <3>4, <3>5, RequestStep
            DEF ServeLogin, tabVars, SessionTypeOK, WayBack
  <2>4. CASE ServeRegister(r)
    <3>1. PICK q \in RequestFields :
            /\ requests' = (requests \ {r}) \cup {q}
            /\ q.kind = r.kind /\ q.tab = r.tab /\ q.on = r.on /\ q.want = r.want
            /\ q.user = r.user
      BY <1>1, <2>2, <2>4 DEF ServeRegister
    <3>2. r.user \in Users
      BY <2>1, <2>4 DEF Honest, ServeRegister
    <3>3. Honest(q)'
      BY <2>1, <2>4, <3>1 DEF Honest, ServeRegister, tabVars
    <3> QED BY <2>1, <2>4, <3>1, <3>2, <3>3, RequestStep
            DEF ServeRegister, tabVars, SessionTypeOK, WayBack
  <2>5. CASE ServeProfile(r)
    <3>1. PICK q \in RequestFields :
            /\ requests' = (requests \ {r}) \cup {q}
            /\ q.kind = r.kind /\ q.tab = r.tab /\ q.on = r.on /\ q.want = r.want
            /\ q.user = r.user /\ q.auth = r.auth
      BY <1>1, <2>2, <2>5 DEF ServeProfile
    <3>2. r.auth \in Tokens
      BY <2>2, <2>5, TokenType DEF ServeProfile, Accepted
    <3>3. Honest(q)'
      BY <2>1, <2>5, <3>1, <3>2 DEF Honest, ServeProfile, tabVars, serverVars
    <3> QED BY <2>1, <2>5, <3>1, <3>3, RequestStep
            DEF ServeProfile, tabVars, serverVars, SessionTypeOK, WayBack
  <2>6. CASE ServeUnauthorized(r)
    <3>1. PICK q \in RequestFields :
            /\ requests' = (requests \ {r}) \cup {q}
            /\ q.kind = r.kind /\ q.tab = r.tab /\ q.on = r.on /\ q.want = r.want
            /\ q.user = r.user /\ q.status = "unauthorized"
      BY <1>1, <2>2, <2>6 DEF ServeUnauthorized
    <3>2. Honest(q)'
      BY <2>1, <2>6, <3>1 DEF Honest, ServeUnauthorized, tabVars, serverVars
    <3> QED BY <2>1, <2>6, <3>1, <3>2, RequestStep
            DEF ServeUnauthorized, tabVars, serverVars, SessionTypeOK, WayBack
  <2> QED BY <1>2, <2>3, <2>4, <2>5, <2>6 DEF Serve
<1>3. ASSUME NEW k \in Tokens, Expire(k) PROVE Inductive'
  BY <1>3
  DEF Expire, tabVars, SessionTypeOK, SessionsCoherent, Coherent, RequestsHonest, Honest,
      WayBack, BlankOnlyWhileRestoring
<1> QED BY <1>2, <1>3

(* Answers that arrive.                                                    *)
LEMMA ReceiveNext ==
  ASSUME Inductive, NEW r \in requests, Receive(r)
  PROVE  Inductive'
<1> USE DEF Inductive
<1> DEFINE others == requests \ {r}
<1>1. /\ Honest(r) /\ r \in RequestFields /\ requests \subseteq RequestFields
      /\ r.tab \in Tabs
      /\ loc[r.tab] \in Locations /\ loc[r.tab].back # "/login"
      /\ session[r.tab] \in Sessions /\ Coherent(session[r.tab])
      /\ initializing[r.tab] \in BOOLEAN
  BY DEF RequestsHonest, SessionTypeOK, RequestFields, Locations, WayBack, SessionsCoherent
<1>2. /\ others \in SUBSET requests /\ \A q \in requests \ others : q.tab = r.tab
      /\ stored \in Sessions /\ Coherent(stored) /\ NoSession \in Sessions /\ Coherent(NoSession)
      /\ timer \in [Tabs -> Paths \cup {NoPath, "off"}] /\ \A u \in Tabs : timer[u] # "/login"
  BY NoSessionType DEF SessionTypeOK, SessionsCoherent, WayBack, NoSession, Coherent
<1>3. CASE LoggedIn(r)
  <2> DEFINE s == [token |-> r.auth, user |-> r.user]
             l == At(PostLoginPath(r.user, r.want))
  <2>1. s \in Sessions /\ Coherent(s)
    BY <1>1, <1>3, TokenType DEF LoggedIn, Arrived, Honest, Sessions, RequestFields, Coherent
  <2>2. l \in Locations /\ l.back # "/login"
    <3>1. r.user \in Identities /\ r.want \in Paths \cup {NoPath}
      BY <1>1 DEF RequestFields
    <3>2. PostLoginPath(r.user, r.want) \in Paths
      BY <3>1, PostLoginLands
    <3> QED BY <3>2, AtType DEF At, NoPath
  <2>3. stored' = s /\ Render(r.tab, s, FALSE, l, others) /\ UNCHANGED <<timer, serverVars>>
    BY <1>3 DEF LoggedIn
  <2> HIDE DEF s, l, others
  <2> QED BY <1>1, <1>2, <2>1, <2>2, <2>3, RenderStep
<1>4. ASSUME r.kind # "restore" \/ ~r.on, requests' = others,
             UNCHANGED <<stored, session, initializing, loc, serverVars>>,
             form' \in [Tabs -> {"ready", "error", "loading", "done"}],
             timer' \in [Tabs -> Paths \cup {NoPath, "off"}],
             \A u \in Tabs : timer'[u] # "/login"
      PROVE  Inductive'
  BY <1>1, <1>4, RequestStep DEF SessionTypeOK, serverVars
<1>5. CASE Registered(r)
  <2>1. form' \in [Tabs -> {"ready", "error", "loading", "done"}]
    BY <1>5 DEF Registered, SessionTypeOK
  <2>2. timer' \in [Tabs -> Paths \cup {NoPath, "off"}] /\ \A u \in Tabs : timer'[u] # "/login"
    BY <1>1, <1>2, <1>5 DEF Registered, Honest, RequestFields
  <2> QED BY <1>4, <1>5, <2>1, <2>2 DEF Registered, Arrived
<1>6. CASE FormRefused(r)
  <2>1. form' \in [Tabs -> {"ready", "error", "loading", "done"}]
    BY <1>6 DEF FormRefused, SessionTypeOK
  <2> QED BY <1>2, <1>4, <1>6, <2>1 DEF FormRefused
<1>7. CASE DataArrived(r)
  BY <1>2, <1>4, <1>7 DEF DataArrived, tabVars, SessionTypeOK
<1>8. CASE Restored(r)
  <2>1. CASE r.on
    <3> DEFINE s == [token |-> r.auth, user |-> issued[r.auth]]
    <3>1. s \in Sessions /\ Coherent(s)
      BY <1>1, <1>8, TokenType
      DEF Restored, Arrived, Honest, Sessions, RequestFields, Coherent, SessionTypeOK
    <3>2. /\ stored' = s /\ Render(r.tab, s, FALSE, loc[r.tab], others)
          /\ UNCHANGED <<timer, serverVars>>
      BY <1>8, <2>1 DEF Restored
    <3> HIDE DEF s, others
    <3> QED BY <1>1, <1>2, <3>1, <3>2, RenderStep
  <2>2. CASE ~r.on
    BY <1>2, <1>4, <1>8, <2>2 DEF Restored, tabVars, SessionTypeOK
  <2> QED BY <2>1, <2>2
<1>9. CASE RestoreFailed(r)
  <2>1. CASE r.on
    <3>1. /\ Render(r.tab, session[r.tab], FALSE, loc[r.tab], others)
          /\ UNCHANGED <<stored, timer, serverVars>>
      BY <1>9, <2>1 DEF RestoreFailed
    <3> HIDE DEF others
    <3> QED BY <1>1, <1>2, <3>1, RenderStep
  <2>2. CASE ~r.on
    BY <1>2, <1>4, <1>9, <2>2 DEF RestoreFailed, tabVars, SessionTypeOK
  <2> QED BY <2>1, <2>2
<1>10. CASE Unauthorized(r)
  <2>1. /\ stored' = NoSession /\ Render(r.tab, NoSession, FALSE, loc[r.tab], others)
        /\ UNCHANGED <<timer, serverVars>>
    BY <1>10 DEF Unauthorized
  <2> HIDE DEF others
  <2> QED BY <1>1, <1>2, <2>1, RenderStep
<1>11. CASE UnauthorizedRedirect(r)
  <2>1. CASE loc[r.tab].path = "/login"
    <3>1. /\ stored' = NoSession /\ Render(r.tab, NoSession, FALSE, loc[r.tab], others)
          /\ UNCHANGED <<timer, serverVars>>
      BY <1>11, <2>1 DEF UnauthorizedRedirect
    <3> HIDE DEF others
    <3> QED BY <1>1, <1>2, <3>1, RenderStep
  <2>2. CASE loc[r.tab].path # "/login"
    <3>1. /\ stored' = NoSession /\ session' = [session EXCEPT ![r.tab] = NoSession]
          /\ initializing' = [initializing EXCEPT ![r.tab] = FALSE]
          /\ loc' = [loc EXCEPT ![r.tab] = LoginPath(loc[r.tab].path, FALSE)]
          /\ form' = [form EXCEPT ![r.tab] = "ready"]
          /\ timer' = [timer EXCEPT ![r.tab] = "off"]
          /\ requests' = {q \in requests : q.tab # r.tab}
          /\ UNCHANGED serverVars
      BY <1>11, <2>2 DEF UnauthorizedRedirect
    <3>2. /\ LoginPath(loc[r.tab].path, FALSE) \in Locations
          /\ LoginPath(loc[r.tab].path, FALSE).back # "/login"
      BY <1>1 DEF LoginPath, NormalizeRedirectPath, Locations, Paths, Guarded, NoPath
    <3>3. SessionTypeOK'
      BY <1>2, <3>1, <3>2 DEF SessionTypeOK, serverVars, Locations
    <3>4. SessionsCoherent'
      BY <1>2, <3>1 DEF SessionsCoherent, Coherent, serverVars, SessionTypeOK
    <3>5. RequestsHonest'
      BY <1>1, <3>1 DEF RequestsHonest, Honest, serverVars, SessionTypeOK, RequestFields
    <3>6. WayBack'
      BY <3>1, <3>2 DEF WayBack, SessionTypeOK
    <3>7. BlankOnlyWhileRestoring'
      BY <3>1 DEF BlankOnlyWhileRestoring, SessionTypeOK
    <3> QED BY <3>3, <3>4, <3>5, <3>6, <3>7
  <2> QED BY <2>1, <2>2
<1> QED BY <1>3, <1>5, <1>6, <1>7, <1>8, <1>9, <1>10, <1>11 DEF Receive

LEMMA InductiveNext == Inductive /\ [Next]_sessionVars => Inductive'
<1> SUFFICES ASSUME Inductive, [Next]_sessionVars PROVE Inductive'
  OBVIOUS
<1>1. CASE \E t \in Tabs : \/ \E entry \in Users \cup {Malformed} :
                                 SubmitLogin(t, entry) \/ SubmitRegister(t, entry)
                           \/ \E url \in Urls : Open(t, url)
                           \/ \E path \in Paths : Follow(t, path)
                           \/ Type(t) \/ Fetch(t) \/ RegisterTimer(t) \/ LogOut(t)
  BY <1>1, UserNext
<1>2. CASE (\E r \in requests : Serve(r)) \/ (\E k \in Tokens : Expire(k))
  BY <1>2, ServerNext
<1>3. CASE \E r \in requests : Receive(r)
  BY <1>3, ReceiveNext
<1>4. CASE UNCHANGED sessionVars
  BY <1>4
  DEF sessionVars, tabVars, serverVars, Inductive, SessionTypeOK, SessionsCoherent, Coherent,
      RequestsHonest, Honest, WayBack, BlankOnlyWhileRestoring
<1> QED BY <1>1, <1>2, <1>3, <1>4 DEF Next

(* The invariant the other theorems rest on: of the browser's state it     *)
(* adds what an answer under way may be relied on for.                     *)
THEOREM SessionInductive == Spec => []Inductive
BY InductiveInit, InductiveNext, PTL DEF Spec

(* Types: the tabs, the storage and the requests keep their shape; no      *)
(* login leads to a page that is none.                                     *)
THEOREM SessionTypeCorrect == Spec => []SessionTypeOK
<1>1. Inductive => SessionTypeOK
  BY DEF Inductive
<1> QED BY <1>1, SessionInductive, PTL

(* No tab and no storage ever pairs a token with somebody else's identity. *)
THEOREM SessionsStayCoherent == Spec => []SessionsCoherent
<1>1. Inductive => SessionsCoherent
  BY DEF Inductive
<1> QED BY <1>1, SessionInductive, PTL

(* No order of answers leaves a page behind the guard blank for good.      *)
THEOREM BlankPagesAreRestoring == Spec => []BlankOnlyWhileRestoring
<1>1. Inductive => BlankOnlyWhileRestoring
  BY DEF Inductive
<1> QED BY <1>1, SessionInductive, PTL

-------------------------------------------------------------------------------
(* What a step may do to a session.                                        *)

(* A step leaves storage and sessions alone, or one tab shows what is then *)
(* stored: after a load, when a session ends, when one that was there is   *)
(* completed, or after a login in that tab.                                *)
LEMMA SessionChange ==
  ASSUME Inductive, Next
  PROVE  \/ UNCHANGED <<stored, session>>
         \/ \E t \in Tabs :
              /\ session' = [session EXCEPT ![t] = stored']
              /\ \/ stored' = stored
                 \/ stored' = NoSession
                 \/ session[t].token # 0
                 \/ \E r \in requests : r.tab = t /\ LoggedIn(r)
<1> DEFINE Change ==
      \E t \in Tabs :
        /\ session' = [session EXCEPT ![t] = stored']
        /\ \/ stored' = stored
           \/ stored' = NoSession
           \/ session[t].token # 0
           \/ \E r \in requests : r.tab = t /\ LoggedIn(r)
           Goal == UNCHANGED <<stored, session>> \/ Change
<1> USE DEF Inductive
<1>1. session \in [Tabs -> Sessions] /\ \A r \in requests : r.tab \in Tabs /\ Honest(r)
  BY DEF SessionTypeOK, RequestsHonest, RequestFields
<1>2. ASSUME NEW t \in Tabs, NEW l, Load(t, l) PROVE Goal
  BY <1>2 DEF Load
<1>3. ASSUME NEW t \in Tabs, NEW init, NEW l, NEW pending,
             Render(t, session[t], init, l, pending), stored' = stored
      PROVE  Goal
  BY <1>1, <1>3 DEF Render
<1>4. ASSUME NEW t \in Tabs, NEW path, Follow(t, path) PROVE Goal
  BY <1>3, <1>4 DEF Follow
<1>5. ASSUME NEW t \in Tabs,
             \/ \E entry : SubmitLogin(t, entry) \/ SubmitRegister(t, entry)
             \/ Type(t) \/ Fetch(t)
      PROVE  Goal
  BY <1>5 DEF SubmitLogin, SubmitRegister, Submit, Type, Fetch, tabVars
<1>6. ASSUME NEW t \in Tabs, RegisterTimer(t) PROVE Goal
  BY <1>3, <1>6 DEF RegisterTimer
<1>7. ASSUME NEW t \in Tabs, LogOut(t) PROVE Goal
  BY <1>7 DEF LogOut, Render
<1>8. ASSUME NEW r \in requests, Serve(r) PROVE Goal
  BY <1>8 DEF Serve, ServeLogin, ServeRegister, ServeProfile, ServeUnauthorized, tabVars
<1>9. ASSUME NEW k, Expire(k) PROVE Goal
  BY <1>9 DEF Expire, tabVars
<1>10. ASSUME NEW r \in requests, Receive(r) PROVE Goal
  <2>1. CASE LoggedIn(r)
    BY <1>1, <2>1 DEF LoggedIn, Render
  <2>2. CASE Registered(r) \/ FormRefused(r) \/ DataArrived(r)
    BY <2>2 DEF Registered, FormRefused, DataArrived, tabVars
  <2>3. CASE Restored(r)
    BY <1>1, <2>3 DEF Restored, Arrived, Render, Honest, tabVars
  <2>4. CASE RestoreFailed(r)
    BY <1>1, <1>3, <2>4 DEF RestoreFailed, tabVars
  <2>5. CASE Unauthorized(r) \/ UnauthorizedRedirect(r)
    BY <1>1, <2>5 DEF Unauthorized, UnauthorizedRedirect, Render
  <2> QED BY <1>10, <2>1, <2>2, <2>3, <2>4, <2>5 DEF Receive
<1> QED BY <1>2, <1>4, <1>5, <1>6, <1>7, <1>8, <1>9, <1>10 DEF Next, Open

(* Storage and tabs change together, in every step of every history.       *)
THEOREM StorageAndTabsChangeTogether == Spec => StorageAndTabsTogether
<1>1. ASSUME Inductive, Next
      PROVE  /\ \A t \in Tabs : session'[t] \in {session[t], stored'}
             /\ stored' # stored => \E t \in Tabs : session'[t] = stored'
  <2>1. session \in [Tabs -> Sessions]
    BY <1>1 DEF Inductive, SessionTypeOK
  <2> QED BY <1>1, <2>1, SessionChange
<1> QED BY <1>1, SessionInductive, PTL DEF Spec, StorageAndTabsTogether

(* A session that ended in a tab comes back by a login in that tab, or by  *)
(* a load of it, only.                                                     *)
THEOREM SessionsReturnByLogin == Spec => SessionReturnsOnlyByLogin
<1>1. ASSUME Inductive, Next
      PROVE  \A t \in Tabs :
               session[t] = NoSession /\ session'[t] # NoSession =>
                 \/ \E r \in requests : r.tab = t /\ LoggedIn(r)
                 \/ session'[t] = stored
  <2>1. session \in [Tabs -> Sessions]
    BY <1>1 DEF Inductive, SessionTypeOK
  <2> QED BY <1>1, <2>1, SessionChange DEF NoSession
<1> QED BY <1>1, SessionInductive, PTL DEF Spec, SessionReturnsOnlyByLogin

(* Whoever logs in lands on a page the role may see: the one asked for, if *)
(* it is one.                                                              *)
THEOREM LoginsLandInside == Spec => LoginLandsInside
<1>1. ASSUME Inductive, Next
      PROVE  \A r \in requests : LoggedIn(r) =>
               LET l == loc'[r.tab]
               IN /\ Shown(l.path, session'[r.tab], FALSE) = "page"
                  /\ l.path # "/login"
                  /\ r.want \in Paths /\ (ForMerchants(r.want) => r.user \in Merchants)
                       => l.path = r.want
  <2> SUFFICES ASSUME NEW r \in requests, LoggedIn(r)
               PROVE  LET l == loc'[r.tab]
                      IN /\ Shown(l.path, session'[r.tab], FALSE) = "page"
                         /\ l.path # "/login"
                         /\ r.want \in Paths /\ (ForMerchants(r.want) => r.user \in Merchants)
                              => l.path = r.want
    OBVIOUS
  <2> DEFINE path == PostLoginPath(r.user, r.want)
             s == [token |-> r.auth, user |-> r.user]
  <2>1. r \in RequestFields /\ r.tab \in Tabs /\ Honest(r) /\ r.want # "/login"
    BY <1>1 DEF Inductive, SessionTypeOK, RequestsHonest, Honest, RequestFields
  <2>2. /\ path \in Paths /\ path # "/login"
        /\ ForMerchants(path) => r.user \in Merchants
        /\ r.want \in Paths /\ (ForMerchants(r.want) => r.user \in Merchants) => path = r.want
    <3>1. r.user \in Identities /\ r.want \in Paths \cup {NoPath}
      BY <2>1 DEF RequestFields
    <3> QED BY <2>1, <3>1, PostLoginLands
  <2>3. s.token # 0 /\ s.user = r.user
    BY <2>1, TokenType DEF LoggedIn, Arrived, Honest
  <2>4. Shown(path, s, FALSE) = "page"
    BY <2>2, <2>3 DEF Shown
  <2>5. loc'[r.tab] = Settle(At(path), s, FALSE) /\ session'[r.tab] = s
    BY <1>1, <2>1 DEF LoggedIn, Render, Inductive, SessionTypeOK
  <2>6. loc'[r.tab] = At(path)
    BY <2>4, <2>5 DEF Settle, At
  <2>7. loc'[r.tab].path = path
    BY <2>6 DEF At
  <2> HIDE DEF path, s
  <2> QED BY <2>2, <2>4, <2>5, <2>7
<1> QED BY <1>1, SessionInductive, PTL DEF Spec, LoginLandsInside
===============================================================================
