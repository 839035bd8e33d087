---------------------------- MODULE Copies_proofs -----------------------------
(***************************************************************************)
(* Theorems about copies that go stale: a user's preferences in several    *)
(* tabs (UserPreferences), for all sets of tabs, addresses, images, cities *)
(* and trips; and the lists of recommendations in the server's map         *)
(* (Recommendations), for all sets of activities, scores, callers and      *)
(* lists asked for.                                                        *)
(***************************************************************************)
EXTENDS MCCopies, NotificationCentre_proofs, FiniteSetTheorems, SequenceTheorems, TLAPS

-------------------------------------------------------------------------------
(* Preferences.                                                            *)

PreferenceInductive == PreferencesTypeOK /\ LastSettingKept

-------------------------------------------------------------------------------
(* A patch of one field, whatever it goes over.                            *)
LEMMA Patched ==
  ASSUME PreferenceInductive, NEW t \in Tabs, NEW base \in Preferences, NEW field \in Fields, NEW value,
         [base EXCEPT ![field] = value] \in Preferences,
         [wanted EXCEPT ![field] = value] \in Preferences,
         UpdatePreferences(t, base, field, value)
  PROVE  /\ prefs' \in Preferences /\ seen' \in [Tabs -> Preferences]
         /\ wanted' \in Preferences /\ overwritten' \subseteq Fields
         /\ LastSettingKept'
<1> USE DEF PreferenceInductive
<1> DEFINE next == [base EXCEPT ![field] = value]
<1>1. /\ prefs' = next /\ seen' = [seen EXCEPT ![t] = next]
      /\ wanted' = [wanted EXCEPT ![field] = value]
      /\ overwritten' =
           {f \in Fields : next[f] # wanted'[f] /\ (base # prefs \/ f \in overwritten)}
  BY DEF UpdatePreferences, Store
<1>2. prefs' \in Preferences /\ seen' \in [Tabs -> Preferences] /\ wanted' \in Preferences
  BY <1>1 DEF PreferencesTypeOK
<1>3. DOMAIN base = Fields /\ DOMAIN wanted = Fields /\ DOMAIN prefs = Fields
  BY DEF Preferences, Fields, PreferencesTypeOK
<1>4. ASSUME NEW f \in Fields \ overwritten' PROVE prefs'[f] = wanted'[f]
  <2>1. CASE next[f] = wanted'[f]
    BY <1>1, <2>1
  <2>2. CASE base = prefs /\ f \notin overwritten
    <3>1. prefs[f] = wanted[f]
      BY <2>2 DEF LastSettingKept
    <3>2. base[f] = wanted[f]
      BY <2>2, <3>1
    <3> QED BY <1>1, <1>3, <3>2
  <2> QED BY <1>1, <1>4, <2>1, <2>2
<1> QED BY <1>1, <1>2, <1>4 DEF LastSettingKept
-------------------------------------------------------------------------------
LEMMA DefaultsType == Defaults \in Preferences
  BY DEF Defaults, Preferences

LEMMA FirstPreferences == PreferenceInit => PreferenceInductive
<1> SUFFICES ASSUME PreferenceInit PROVE PreferenceInductive
  OBVIOUS
<1>1. upload \in [Tabs -> [file : Avatars \cup {NoValue}, base : Preferences]]
  BY DefaultsType DEF PreferenceInit, NoUpload
<1> QED BY <1>1, DefaultsType DEF PreferenceInit, PreferenceInductive, PreferencesTypeOK, LastSettingKept

\* One field of what a tab shows, by one of its controls.
LEMMA SetStep ==
  ASSUME PreferenceInductive, NEW t \in Tabs, NEW field \in Fields, NEW value,
         \A p \in Preferences : [p EXCEPT ![field] = value] \in Preferences,
         Set(t, field, value)
  PROVE  PreferenceInductive'
<1> USE DEF PreferenceInductive
<1>1. /\ UpdatePreferences(t, seen[t], field, value)
      /\ UNCHANGED <<upload, where, city, layoutCity, settingsCity>>
  BY DEF Set, cityVars
<1>2. seen[t] \in Preferences /\ wanted \in Preferences
  BY DEF PreferencesTypeOK
<1>3. /\ [seen[t] EXCEPT ![field] = value] \in Preferences
      /\ [wanted EXCEPT ![field] = value] \in Preferences
  BY <1>2
<1>4. /\ prefs' \in Preferences /\ seen' \in [Tabs -> Preferences]
      /\ wanted' \in Preferences /\ overwritten' \subseteq Fields
      /\ LastSettingKept'
  BY <1>1, <1>2, <1>3, Patched
<1> QED BY <1>1, <1>4 DEF PreferencesTypeOK

\* The values the controls set fit their fields.
LEMMA Fitting ==
  ASSUME NEW p \in Preferences
  PROVE  /\ \A v \in Emails \cup {NoValue} : [p EXCEPT !["email"] = v] \in Preferences
         /\ \A v \in Avatars \cup {NoValue} : [p EXCEPT !["avatarDataUrl"] = v] \in Preferences
         /\ \A f \in {"emailNotifications", "smsNotifications"}, b \in BOOLEAN :
              [p EXCEPT ![f] = b] \in Preferences
<1>1. \A v \in Emails \cup {NoValue} : [p EXCEPT !["email"] = v] \in Preferences
  BY DEF Preferences
<1>2. \A v \in Avatars \cup {NoValue} : [p EXCEPT !["avatarDataUrl"] = v] \in Preferences
  BY DEF Preferences
<1>3. \A b \in BOOLEAN : [p EXCEPT !["emailNotifications"] = b] \in Preferences
  BY DEF Preferences
<1>4. \A b \in BOOLEAN : [p EXCEPT !["smsNotifications"] = b] \in Preferences
  BY DEF Preferences
<1> QED BY <1>1, <1>2, <1>3, <1>4
-------------------------------------------------------------------------------
(* One step of the conjunction for each control of the two pages, the      *)
(* file reader, the storage event and the navigation.                      *)
LEMMA PreferenceStep == PreferenceInductive /\ [PreferenceNext]_preferenceVars => PreferenceInductive'
<1> SUFFICES ASSUME PreferenceInductive, [PreferenceNext]_preferenceVars PROVE PreferenceInductive'
  OBVIOUS
<1> USE DEF PreferenceInductive
<1>0. {"email", "avatarDataUrl", "emailNotifications", "smsNotifications"} \subseteq Fields
  BY DEF Fields
<1>1. CASE UNCHANGED preferenceVars
  BY <1>1 DEF preferenceVars, prefVars, cityVars, PreferencesTypeOK, LastSettingKept
<1>2. ASSUME NEW t \in Tabs, Hear(t) PROVE PreferenceInductive'
  BY <1>2 DEF Hear, cityVars, PreferencesTypeOK, LastSettingKept
<1>3. ASSUME NEW t \in Tabs, Remount(t) PROVE PreferenceInductive'
  <2>1. NoUpload \in [file : Avatars \cup {NoValue}, base : Preferences]
    BY DefaultsType DEF NoUpload
  <2> QED BY <1>3, <2>1 DEF Remount, PreferencesTypeOK, LastSettingKept
<1>4. ASSUME NEW t \in Tabs, EmailSave(t) PROVE PreferenceInductive'
  <2>1. PICK v \in Emails : Set(t, "email", v)
    BY <1>4 DEF EmailSave
  <2>2. \A p \in Preferences : [p EXCEPT !["email"] = v] \in Preferences
    BY Fitting
  <2> QED BY <1>0, <2>1, <2>2, SetStep
<1>5. ASSUME NEW t \in Tabs, AvatarUpload(t) PROVE PreferenceInductive'
  BY <1>5 DEF AvatarUpload, cityVars, PreferencesTypeOK, LastSettingKept
<1>6. ASSUME NEW t \in Tabs, AvatarRead(t) PROVE PreferenceInductive'
  <2> DEFINE file == upload[t].file
             base == upload[t].base
  <2>1. /\ file \in Avatars \cup {NoValue} /\ base \in Preferences /\ wanted \in Preferences
    BY DEF PreferencesTypeOK
  <2>2. /\ [base EXCEPT !["avatarDataUrl"] = file] \in Preferences
        /\ [wanted EXCEPT !["avatarDataUrl"] = file] \in Preferences
    BY <2>1, Fitting
  <2>3. /\ UpdatePreferences(t, base, "avatarDataUrl", file)
        /\ upload' = [upload EXCEPT ![t] = NoUpload]
        /\ UNCHANGED <<where, city, layoutCity, settingsCity>>
    BY <1>6 DEF AvatarRead, cityVars
  <2>4. /\ prefs' \in Preferences /\ seen' \in [Tabs -> Preferences]
        /\ wanted' \in Preferences /\ overwritten' \subseteq Fields
        /\ LastSettingKept'
    BY <1>0, <2>1, <2>2, <2>3, Patched
  <2>5. upload' \in [Tabs -> [file : Avatars \cup {NoValue}, base : Preferences]]
    BY <2>3, DefaultsType DEF NoUpload, PreferencesTypeOK
  <2> QED BY <2>3, <2>4, <2>5 DEF PreferencesTypeOK
<1>7. ASSUME NEW t \in Tabs, RemoveAvatar(t) PROVE PreferenceInductive'
  <2>1. \A p \in Preferences : [p EXCEPT !["avatarDataUrl"] = NoValue] \in Preferences
    BY Fitting
  <2> QED BY <1>0, <1>7, <2>1, SetStep DEF RemoveAvatar
<1>8. ASSUME NEW t \in Tabs, Toggle(t) PROVE PreferenceInductive'
  <2>1. PICK f \in {"emailNotifications", "smsNotifications"}, v \in BOOLEAN : Set(t, f, v)
    BY <1>8 DEF Toggle
  <2>2. \A p \in Preferences : [p EXCEPT ![f] = v] \in Preferences
    BY Fitting
  <2> QED BY <1>0, <2>1, <2>2, SetStep
<1>9. ASSUME NEW t \in Tabs, ChooseCity(t) PROVE PreferenceInductive'
  BY <1>9 DEF ChooseCity, prefVars, PreferencesTypeOK, LastSettingKept
<1>10. ASSUME NEW t \in Tabs, ResetPersonalization(t) PROVE PreferenceInductive'
  BY <1>10, DefaultsType DEF ResetPersonalization, Store, PreferencesTypeOK, LastSettingKept
<1>11. ASSUME NEW t \in Tabs, FilterByCity(t) PROVE PreferenceInductive'
  BY <1>11 DEF FilterByCity, prefVars, PreferencesTypeOK, LastSettingKept
<1>12. ASSUME NEW t \in Tabs, NEW p \in Trips[t], GoTo(t, p) PROVE PreferenceInductive'
  <2>1. p \in {"profile", "settings", "activities"}
    BY PreferencesAssumption
  <2> QED BY <1>12, <2>1 DEF GoTo, prefVars, PreferencesTypeOK, LastSettingKept
<1> QED
  BY <1>1, <1>2, <1>3, <1>4, <1>5, <1>6, <1>7, <1>8, <1>9, <1>10, <1>11, <1>12
  DEF PreferenceNext
-------------------------------------------------------------------------------
(* Preferences and city keep their types, and what the user set last is    *)
(* stored, field by field, except where a patch went over preferences      *)
(* older than the stored ones (updatePreferences): no other interleaving   *)
(* of the tabs, the file reader and the storage events loses a setting.    *)
THEOREM SettingsSurvive == PreferenceSpec => [](PreferencesTypeOK /\ LastSettingKept)
<1>1. PreferenceInit => PreferenceInductive
  BY FirstPreferences
<1>2. PreferenceInductive /\ [PreferenceNext]_preferenceVars => PreferenceInductive'
  BY PreferenceStep
<1> QED BY <1>1, <1>2, PTL DEF PreferenceSpec, PreferenceInductive
-------------------------------------------------------------------------------
(* What a query and mergeRecommendations return.                           *)

(* ORDER BY a strict total order lists every row once, each one after all  *)
(* that the order puts before it.                                          *)
LEMMA RowsInOrder ==
  ASSUME NEW S, IsFiniteSet(S), NEW R,
         \A a \in S : <<a, a>> \notin R,
         \A a, b \in S : a # b => <<a, b>> \in R \/ <<b, a>> \in R,
         \A a, b, c \in S : <<a, b>> \in R /\ <<b, c>> \in R => <<a, c>> \in R
  PROVE  LET out == OrderBy(R, S)
         IN  /\ Cardinality(S) \in Nat
             /\ out \in Bijection(1..Cardinality(S), S)
             /\ \A i, j \in 1..Cardinality(S) : i < j => <<out[i], out[j]>> \in R
<1> DEFINE n == Cardinality(S)
           before(a) == {b \in S : <<b, a>> \in R}
           place == [a \in S |-> Cardinality(before(a)) + 1]
           out == OrderBy(R, S)
<1>1. n \in Nat
  BY FS_CardinalityType
<1>2. \A a \in S : Cardinality(before(a)) \in Nat /\ IsFiniteSet(before(a)) /\ place[a] \in 1..n
  <2>1. TAKE a \in S
  <2>2. IsFiniteSet(S \ {a}) /\ Cardinality(S \ {a}) = n - 1
    BY FS_RemoveElement
  <2>3. before(a) \in SUBSET (S \ {a})
    OBVIOUS
  <2>4. place[a] = Cardinality(before(a)) + 1
    OBVIOUS
  <2> HIDE DEF before, place
  <2>5. IsFiniteSet(before(a)) /\ Cardinality(before(a)) <= Cardinality(S \ {a})
    BY <2>2, <2>3, FS_Subset
  <2>6. Cardinality(before(a)) \in Nat
    BY <2>5, FS_CardinalityType
  <2> QED
    BY <2>2, <2>4, <2>5, <2>6, <1>1
<1>3. \A a, b \in S : <<a, b>> \in R => place[a] < place[b]
  <2>1. TAKE a, b \in S
  <2>2. HAVE <<a, b>> \in R
  <2>3. before(a) \in SUBSET before(b) /\ a \in before(b) /\ a \notin before(a)
    BY <2>2
  <2>4. before(a) # before(b) /\ IsFiniteSet(before(b))
    BY <2>3, <1>2
  <2> HIDE DEF before
  <2>5. Cardinality(before(a)) <= Cardinality(before(b)) /\ Cardinality(before(b)) # Cardinality(before(a))
    BY <2>3, <2>4, FS_Subset
  <2>6. Cardinality(before(a)) \in Nat /\ Cardinality(before(b)) \in Nat
    BY <1>2
  <2> QED
    BY <2>5, <2>6
<1>4. \A a, b \in S : place[a] = place[b] => a = b
  <2>1. SUFFICES ASSUME NEW a \in S, NEW b \in S, a # b PROVE place[a] # place[b]
    OBVIOUS
  <2>2. place[a] < place[b] \/ place[b] < place[a]
    BY <2>1, <1>3
  <2>3. place[a] \in Nat /\ place[b] \in Nat
    BY <1>1, <1>2
  <2> HIDE DEF place
  <2> QED
    BY <2>2, <2>3
<1>5. place \in Injection(S, 1..n)
  BY <1>2, <1>4 DEF Injection, IsInjective
<1>6. place \in Surjection(S, 1..n)
  <2>1. IsFiniteSet(1..n) /\ Cardinality(1..n) = n
    BY <1>1, FS_Interval
  <2> QED
    BY <2>1, <1>5, FS_Injection
<1>7. \A p \in 1..n : out[p] \in S /\ place[out[p]] = p
  <2>1. TAKE p \in 1..n
  <2>2. PICK a \in S : place[a] = p
    BY <1>6 DEF Surjection
  <2>3. Cardinality(before(a)) = p - 1
    BY <2>2, <1>1, <1>2
  <2>4. out[p] = CHOOSE c \in S : Cardinality(before(c)) = p - 1
    BY DEF OrderBy
  <2> HIDE DEF before, out
  <2>5. out[p] \in S /\ Cardinality(before(out[p])) = p - 1
    BY <2>3, <2>4
  <2> QED
    BY <2>5, <1>1
<1>8. out \in [1..n -> S]
  <2> DEFINE row(p) == CHOOSE a \in S : Cardinality(before(a)) = p - 1
  <2>1. out = [p \in 1..n |-> row(p)]
    BY DEF OrderBy
  <2>2. \A p \in 1..n : row(p) = out[p]
    BY <2>1
  <2> HIDE DEF row, out
  <2> QED
    BY <2>1, <2>2, <1>7
<1> HIDE DEF out, place
<1>9. \A i, j \in 1..n : out[i] = out[j] => i = j
  BY <1>7
<1>10. \A a \in S : \E p \in 1..n : out[p] = a
  <2>1. TAKE a \in S
  <2>2. place[a] \in 1..n
    BY <1>2 DEF place
  <2>3. out[place[a]] = a
    BY <2>2, <1>4, <1>7
  <2> QED
    BY <2>2, <2>3
<1>11. \A i, j \in 1..n : i < j => <<out[i], out[j]>> \in R
  <2>1. SUFFICES ASSUME NEW i \in 1..n, NEW j \in 1..n, i < j, <<out[i], out[j]>> \notin R
                 PROVE  FALSE
    OBVIOUS
  <2>2. out[i] \in S /\ out[j] \in S /\ out[i] # out[j]
    BY <2>1, <1>7, <1>9
  <2>3. place[out[j]] < place[out[i]]
    BY <2>1, <2>2, <1>3
  <2> QED
    BY <2>1, <2>3, <1>7
<1> QED
  BY <1>1, <1>7, <1>8, <1>9, <1>10, <1>11 DEF Bijection, Injection, IsInjective, Surjection, out

(* A cut of a sequence has its elements, in its order.                     *)
LEMMA CutElements ==
  ASSUME NEW T, NEW s \in Seq(T), NEW from \in Nat, NEW to \in Nat, from <= to
  PROVE  LET c == Cut(s, from, to)
         IN  /\ c \in Seq(T) /\ Len(c) \in Nat /\ Len(c) <= to - from
             /\ Len(c) <= Len(s)
             /\ \A i \in DOMAIN c : from + i \in DOMAIN s /\ c[i] = s[from + i]
<1> DEFINE last == IF to < Len(s) THEN to ELSE Len(s)
           c == Cut(s, from, to)
<1>1. Len(s) \in Nat /\ last \in Nat /\ last <= Len(s) /\ last <= to /\ DOMAIN s = 1..Len(s)
  OBVIOUS
<1>2. \A i \in (from + 1)..last : s[i] \in T
  BY <1>1
<1>3. c = SubSeq(s, from + 1, last)
  BY DEF Cut
<1> HIDE DEF last, c
<1>4. /\ c \in Seq(T)
      /\ Len(c) = IF from + 1 <= last THEN last - (from + 1) + 1 ELSE 0
      /\ \A i \in 1..(last - (from + 1) + 1) : c[i] = s[from + 1 + i - 1]
  BY <1>1, <1>2, <1>3, SubSeqProperties
<1>5. DOMAIN c = 1..Len(c)
  BY <1>4
<1>6. \A i \in DOMAIN c : from + i \in DOMAIN s /\ c[i] = s[from + i]
  <2>1. TAKE i \in DOMAIN c
  <2>2. i \in 1..(last - (from + 1) + 1) /\ i \in Nat
    BY <1>1, <1>4, <1>5
  <2>3. from + 1 + i - 1 = from + i
    BY <2>2
  <2>4. from + i \in 1..Len(s)
    BY <2>2, <1>1
  <2> QED
    BY <2>2, <2>3, <2>4, <1>1, <1>4
<1> QED
  BY <1>1, <1>4, <1>6 DEF c

Distinct(l) == \A i, j \in DOMAIN l : l[i].id = l[j].id => i = j
GroupByGroup(out, groups) ==
  \A i, j \in DOMAIN out : i < j =>
    \E g, h \in DOMAIN groups :
      \E k \in DOMAIN groups[g].found, l \in DOMAIN groups[h].found :
        /\ out[i].id = groups[g].found[k] /\ out[i].reason = groups[g].reason
        /\ out[j].id = groups[h].found[l] /\ out[j].reason = groups[h].reason
        /\ g < h \/ (g = h /\ k < l)

(* mergeRecommendations lists no activity twice and invents none, and two  *)
(* of its items stand in the order of their groups and their places there. *)
LEMMA Merged ==
  ASSUME NEW T, IsFiniteSet(T), NEW Causes, NEW n \in Nat,
         NEW groups \in Seq([reason : Causes, found : Seq(T)])
  PROVE  LET out == MergeRecommendations(n, groups)
         IN  /\ out \in Seq([id : T, reason : Causes]) /\ Len(out) <= n
             /\ Len(groups) = 1 => Len(out) <= Len(groups[1].found)
             /\ Distinct(out)
             /\ GroupByGroup(out, groups)
<1> DEFINE Slots == UNION {{g} \X DOMAIN groups[g].found : g \in DOMAIN groups}
           Id(r) == groups[r[1]].found[r[2]]
           Ahead(r, s) == r[1] < s[1] \/ (r[1] = s[1] /\ r[2] < s[2])
           firsts == {r \in Slots : \A s \in Slots : Ahead(s, r) => Id(s) # Id(r)}
           R == {pair \in firsts \X firsts : Ahead(pair[1], pair[2])}
           order == OrderBy(R, firsts)
           item(p) == [id |-> Id(order[p]), reason |-> groups[order[p][1]].reason]
           all == [p \in DOMAIN order |-> item(p)]
           out == MergeRecommendations(n, groups)
<1>1. out = First(n, all)
  BY DEF MergeRecommendations
<1>2. \A g \in DOMAIN groups :
        /\ g \in Nat /\ groups[g].reason \in Causes /\ groups[g].found \in Seq(T)
        /\ Len(groups[g].found) \in Nat /\ DOMAIN groups[g].found = 1..Len(groups[g].found)
  <2>1. TAKE g \in DOMAIN groups
  <2> DEFINE Group == [reason : Causes, found : Seq(T)]
  <2>2. \A x \in Group : x.reason \in Causes /\ x.found \in Seq(T)
    OBVIOUS
  <2>3. groups \in Seq(Group)
    OBVIOUS
  <2> HIDE DEF Group
  <2>4. g \in Nat /\ groups[g] \in Group
    BY <2>3
  <2> QED
    BY <2>2, <2>4
<1>3. \A r \in Slots : /\ r[1] \in DOMAIN groups /\ r[2] \in DOMAIN groups[r[1]].found
                      /\ r = <<r[1], r[2]>> /\ r[1] \in Nat /\ r[2] \in Nat /\ Id(r) \in T
  <2>1. TAKE r \in Slots
  <2>2. PICK g \in DOMAIN groups : r \in {g} \X DOMAIN groups[g].found
    OBVIOUS
  <2>3. r[1] = g /\ r[2] \in DOMAIN groups[g].found /\ r = <<r[1], r[2]>>
    BY <2>2
  <2>4. groups[g].found \in Seq(T) /\ g \in Nat /\ r[2] \in 1..Len(groups[g].found)
    BY <2>3, <1>2
  <2> HIDE DEF Slots
  <2> QED
    BY <2>3, <2>4
<1>4. firsts \subseteq Slots
  OBVIOUS
<1>5. \A r, s \in firsts : r # s => Ahead(r, s) \/ Ahead(s, r)
  <2>1. SUFFICES ASSUME NEW r \in firsts, NEW s \in firsts, r # s PROVE Ahead(r, s) \/ Ahead(s, r)
    OBVIOUS
  <2>2. /\ r = <<r[1], r[2]>> /\ r[1] \in Nat /\ r[2] \in Nat
        /\ s = <<s[1], s[2]>> /\ s[1] \in Nat /\ s[2] \in Nat
    BY <1>3, <1>4
  <2>3. r[1] # s[1] \/ r[2] # s[2]
    BY <2>1, <2>2
  <2> HIDE DEF firsts
  <2> QED
    BY <2>2, <2>3
<1>6. \A r, s \in firsts : Id(r) = Id(s) => r = s
  <2>1. SUFFICES ASSUME NEW r \in firsts, NEW s \in firsts, r # s PROVE Id(r) # Id(s)
    OBVIOUS
  <2>2. Ahead(r, s) \/ Ahead(s, r)
    BY <2>1, <1>5
  <2>3. /\ r \in Slots /\ \A q \in Slots : Ahead(q, r) => Id(q) # Id(r)
        /\ s \in Slots /\ \A q \in Slots : Ahead(q, s) => Id(q) # Id(s)
    OBVIOUS
  <2> HIDE DEF firsts, Slots, Ahead, Id
  <2> QED
    BY <2>2, <2>3
<1>7. IsFiniteSet(firsts)
  <2> DEFINE f == [r \in firsts |-> Id(r)]
  <2>1. \A r \in firsts : f[r] \in T
    BY <1>3, <1>4
  <2> HIDE DEF firsts, Id
  <2>2. f \in Injection(firsts, T)
    BY <2>1, <1>6 DEF Injection, IsInjective
  <2> HIDE DEF f
  <2> QED
    BY <2>2, FS_Injection
<1>8. /\ \A a \in firsts : <<a, a>> \notin R
      /\ \A a, b \in firsts : a # b => <<a, b>> \in R \/ <<b, a>> \in R
      /\ \A a, b, c \in firsts : <<a, b>> \in R /\ <<b, c>> \in R => <<a, c>> \in R
  <2>1. \A a, b \in firsts : <<a, b>> \in R <=> Ahead(a, b)
    <3> HIDE DEF firsts, Ahead
    <3> QED OBVIOUS
  <2>2. \A a \in firsts : a[1] \in Nat /\ a[2] \in Nat
    BY <1>3, <1>4
  <2> HIDE DEF firsts, R
  <2>3. \A a \in firsts : <<a, a>> \notin R
    BY <2>1, <2>2
  <2>4. \A a, b \in firsts : a # b => <<a, b>> \in R \/ <<b, a>> \in R
    BY <2>1, <1>5
  <2>5. \A a, b, c \in firsts : Ahead(a, b) /\ Ahead(b, c) => Ahead(a, c)
    BY <2>2
  <2>6. \A a, b, c \in firsts : <<a, b>> \in R /\ <<b, c>> \in R => <<a, c>> \in R
    <3> HIDE DEF Ahead
    <3> QED BY <2>1, <2>5
  <2> QED
    BY <2>3, <2>4, <2>6
<1> DEFINE m == Cardinality(firsts)
<1>9. /\ m \in Nat /\ order \in Bijection(1..m, firsts)
      /\ \A i, j \in 1..m : i < j => <<order[i], order[j]>> \in R
  <2> HIDE DEF firsts, R
  <2> QED
    BY <1>7, <1>8, RowsInOrder
<1>10. \A i, j \in 1..m : i < j => Ahead(order[i], order[j])
  <2> HIDE DEF firsts, Ahead, order
  <2> QED BY <1>9
<1> HIDE DEF firsts, R, order, m
<1>11. /\ DOMAIN order = 1..m /\ \A p \in 1..m : order[p] \in firsts /\ order[p] \in Slots
       /\ \A i, j \in 1..m : order[i] = order[j] => i = j
  BY <1>4, <1>9 DEF Bijection, Injection, IsInjective
<1>12. \A p \in 1..m : all[p] = item(p) /\ item(p) \in [id : T, reason : Causes]
  <2>1. TAKE p \in 1..m
  <2>2. order[p] \in Slots
    BY <1>11
  <2>3. Id(order[p]) \in T /\ groups[order[p][1]].reason \in Causes
    BY <2>2, <1>2, <1>3
  <2> HIDE DEF Id, Slots
  <2> QED BY <2>3, <1>11
<1>13. all \in Seq([id : T, reason : Causes]) /\ Len(all) = m
  <2> HIDE DEF item
  <2> QED BY <1>9, <1>11, <1>12
<1>14. /\ out \in Seq([id : T, reason : Causes]) /\ Len(out) \in Nat /\ Len(out) <= n /\ Len(out) <= m
       /\ \A i \in DOMAIN out : i \in 1..m /\ out[i] = item(i)
  <2> DEFINE Entries == [id : T, reason : Causes]
  <2> HIDE DEF all, out, Entries
  <2>1. /\ out \in Seq(Entries) /\ Len(out) \in Nat /\ Len(out) <= n - 0 /\ Len(out) <= Len(all)
        /\ \A i \in DOMAIN out : 0 + i \in DOMAIN all /\ out[i] = all[0 + i]
    BY <1>1, <1>13, CutElements DEF First, Entries
  <2>2. DOMAIN all = 1..m
    BY <1>13
  <2> QED BY <2>1, <2>2, <1>9, <1>12, <1>13 DEF Entries
<1> HIDE DEF out, all
<1>15. ASSUME Len(groups) = 1 PROVE Len(out) <= Len(groups[1].found)
  <2> DEFINE len == Len(groups[1].found)
             f == [r \in firsts |-> r[2]]
  <2>1. 1 \in DOMAIN groups /\ DOMAIN groups = {1} /\ len \in Nat /\ DOMAIN groups[1].found = 1..len
    BY <1>2, <1>15
  <2>2. \A r \in firsts : r[2] \in 1..len /\ r = <<1, r[2]>>
    BY <2>1, <1>3, <1>4
  <2>3. f \in Injection(firsts, 1..len)
    BY <2>2 DEF Injection, IsInjective
  <2>4. IsFiniteSet(1..len) /\ Cardinality(1..len) = len
    BY <2>1, FS_Interval
  <2> HIDE DEF f
  <2>5. m <= len
    BY <2>3, <2>4, FS_Injection DEF m
  <2> QED
    BY <2>1, <2>5, <1>9, <1>14
<1>16. \A i, j \in DOMAIN out : out[i].id = out[j].id => i = j
  <2>1. SUFFICES ASSUME NEW i \in DOMAIN out, NEW j \in DOMAIN out, out[i].id = out[j].id
                 PROVE  i = j
    OBVIOUS
  <2>2. i \in 1..m /\ j \in 1..m /\ out[i] = item(i) /\ out[j] = item(j)
    BY <1>14
  <2>3. Id(order[i]) = Id(order[j])
    <3>1. \A p : item(p).id = Id(order[p])
      OBVIOUS
    <3> HIDE DEF item, Id
    <3> QED BY <2>1, <2>2, <3>1
  <2> HIDE DEF Id
  <2> QED
    BY <2>2, <2>3, <1>6, <1>11
<1>17. \A i, j \in DOMAIN out : i < j =>
         \E g, h \in DOMAIN groups :
           \E k \in DOMAIN groups[g].found, l \in DOMAIN groups[h].found :
             /\ out[i].id = groups[g].found[k] /\ out[i].reason = groups[g].reason
             /\ out[j].id = groups[h].found[l] /\ out[j].reason = groups[h].reason
             /\ g < h \/ (g = h /\ k < l)
  <2>1. TAKE i, j \in DOMAIN out
  <2>2. HAVE i < j
  <2> DEFINE g == order[i][1]
             h == order[j][1]
             k == order[i][2]
             l == order[j][2]
  <2>3. i \in 1..m /\ j \in 1..m /\ order[i] \in Slots /\ order[j] \in Slots
    BY <1>11, <1>14
  <2>4. /\ g \in DOMAIN groups /\ h \in DOMAIN groups
        /\ k \in DOMAIN groups[g].found /\ l \in DOMAIN groups[h].found
    BY <2>3, <1>3
  <2>5. g < h \/ (g = h /\ k < l)
    BY <2>2, <2>3, <1>10
  <2>6. /\ out[i].id = groups[g].found[k] /\ out[i].reason = groups[g].reason
        /\ out[j].id = groups[h].found[l] /\ out[j].reason = groups[h].reason
    <3>1. out[i] = item(i) /\ out[j] = item(j)
      BY <1>14
    <3>2. \A p : /\ item(p).id = groups[order[p][1]].found[order[p][2]]
                 /\ item(p).reason = groups[order[p][1]].reason
      OBVIOUS
    <3> HIDE DEF item
    <3> QED BY <3>1, <3>2
  <2> HIDE DEF g, h, k, l, m, out, order, item, Id, Slots
  <2>7. \E a \in DOMAIN groups[g].found, b \in DOMAIN groups[h].found :
          /\ out[i].id = groups[g].found[a] /\ out[i].reason = groups[g].reason
          /\ out[j].id = groups[h].found[b] /\ out[j].reason = groups[h].reason
          /\ g < h \/ (g = h /\ a < b)
    BY <2>4, <2>5, <2>6, ZenonT(20)
  <2> QED
    BY <2>4, <2>7, ZenonT(20)
<1> QED
  BY <1>14, <1>15, <1>16, <1>17 DEF out, Distinct, GroupByGroup
-------------------------------------------------------------------------------
(* Requests.                                                               *)

Why == {"hot", "fresh", "preferred", "similar"}
Group == [reason : Why, found : Seq(published)]
Entry == [id : published, reason : Why]
AllMixes == {"hot", "anonymous", "cold", "collaborative"}
Request == [key : Asked, mix : AllMixes, got : Seq(Group), overtaken : BOOLEAN]

\* The reasons of a mix's queries, in the order it asks them.
ReasonsOf(mix) ==
  CASE mix = "hot" -> <<"hot">>
    [] mix = "anonymous" -> <<"hot", "fresh">>
    [] mix = "cold" -> <<"hot", "preferred">>
    [] mix = "collaborative" -> <<"similar", "hot", "fresh">>

SortedFor(why, found) == \A i, j \in DOMAIN found : i < j => Precedes(why, found[i], found[j])
AsScored(groups) == \A k \in DOMAIN groups : SortedFor(groups[k].reason, groups[k].found)
Answered(call) ==
  /\ Len(call.got) <= Len(ReasonsOf(call.mix))
  /\ \A k \in DOMAIN call.got : call.got[k].reason = ReasonsOf(call.mix)[k]
  /\ call.mix = "hot" => \A k \in DOMAIN call.got : Len(call.got[k].found) <= call.key.limit

LEMMA PublishedFinite ==
  ASSUME RecommendationTypeOK
  PROVE  /\ IsFiniteSet(published) /\ published \subseteq Nat
         /\ \A a \in Activities : ScoreOf(a) \in Int
<1>1. published \in SUBSET Activities /\ IsFiniteSet(Activities) /\ Activities \subseteq Nat
  BY RecommendationAssumption DEF RecommendationTypeOK
<1>2. IsFiniteSet(published)
  BY <1>1, FS_Subset
<1>3. \A a \in Activities : ScoreOf(a) \in Int
  <2>1. TAKE a \in Activities
  <2>2. score[a] \in Scores \cup {NoScore} /\ Scores \subseteq Int
    BY RecommendationAssumption DEF RecommendationTypeOK
  <2>3. CASE score[a] = NoScore
    BY <2>3 DEF ScoreOf
  <2>4. CASE score[a] # NoScore
    <3>1. score[a] \in Int /\ ScoreOf(a) = score[a]
      BY <2>2, <2>4 DEF ScoreOf
    <3> QED BY <3>1
  <2> QED
    BY <2>3, <2>4
<1> QED
  BY <1>1, <1>2, <1>3

\* A list of hot activities has published ones, the best first.
LEMMA HotFirst ==
  ASSUME RecommendationTypeOK, NEW among, NEW n \in Nat
  PROVE  /\ Hot(among, n) \in Seq(published) /\ Len(Hot(among, n)) <= n
         /\ \A why : why # "similar" => SortedFor(why, Hot(among, n))
<1> DEFINE S == published \cap among
           all == OrderBy(Heat, S)
           m == Cardinality(S)
           s == Hot(among, n)
<1>1. IsFiniteSet(published) /\ S \in SUBSET published
  BY PublishedFinite
<1>2. IsFiniteSet(S)
  BY <1>1, FS_Subset
<1>3. \A a \in S : a \in Nat /\ a \in Activities /\ ScoreOf(a) \in Int
  BY PublishedFinite DEF RecommendationTypeOK
<1>4. \A a, b \in S : <<a, b>> \in Heat <=>
        \/ ScoreOf(a) > ScoreOf(b)
        \/ (ScoreOf(a) = ScoreOf(b) /\ a > b)
  BY <1>3 DEF Heat, Pairs
<1>5. /\ \A a \in S : <<a, a>> \notin Heat
      /\ \A a, b \in S : a # b => <<a, b>> \in Heat \/ <<b, a>> \in Heat
      /\ \A a, b, c \in S : <<a, b>> \in Heat /\ <<b, c>> \in Heat => <<a, c>> \in Heat
  <2> HIDE DEF S
  <2>1. \A a \in S : <<a, a>> \notin Heat
    BY <1>3, <1>4
  <2>2. \A a, b \in S : a # b => <<a, b>> \in Heat \/ <<b, a>> \in Heat
    BY <1>3, <1>4
  <2>3. \A a, b, c \in S : <<a, b>> \in Heat /\ <<b, c>> \in Heat => <<a, c>> \in Heat
    BY <1>3, <1>4
  <2> QED
    BY <2>1, <2>2, <2>3
<1>6. s = Cut(all, 0, n)
  BY DEF Hot, First
<1> HIDE DEF S, all, s, m
<1>7. /\ m \in Nat /\ all \in Bijection(1..m, S)
      /\ \A i, j \in 1..m : i < j => <<all[i], all[j]>> \in Heat
  BY <1>2, <1>5, RowsInOrder DEF all, m
<1>8. all \in Seq(published) /\ Len(all) = m /\ DOMAIN all = 1..m /\ \A i \in 1..m : all[i] \in S
  BY <1>1, <1>7 DEF Bijection, Injection
<1>9. /\ s \in Seq(published) /\ Len(s) <= n - 0
      /\ \A i \in DOMAIN s : 0 + i \in DOMAIN all /\ s[i] = all[0 + i]
  <2>1. all \in Seq(published) /\ 0 \in Nat /\ n \in Nat /\ 0 <= n
    BY <1>8
  <2>2. LET c == Cut(all, 0, n)
        IN  /\ c \in Seq(published) /\ Len(c) <= n - 0
            /\ \A i \in DOMAIN c : 0 + i \in DOMAIN all /\ c[i] = all[0 + i]
    BY <2>1, CutElements
  <2> QED
    BY <1>6, <2>2
<1>10. \A i \in DOMAIN s : i \in 1..m /\ s[i] = all[i] /\ s[i] \in S
  BY <1>7, <1>8, <1>9
<1>11. \A i, j \in DOMAIN s : i < j => ScoreOf(s[i]) >= ScoreOf(s[j])
  <2>1. TAKE i, j \in DOMAIN s
  <2>2. HAVE i < j
  <2>3. <<s[i], s[j]>> \in Heat /\ s[i] \in S /\ s[j] \in S
    BY <2>2, <1>7, <1>10
  <2> QED
    BY <2>3, <1>3, <1>4
<1> QED
  BY <1>9, <1>11 DEF SortedFor, Precedes, s

LEMMA FreshFirst ==
  ASSUME RecommendationTypeOK, NEW n \in Nat
  PROVE  Fresh(n) \in Seq(published)
<1> DEFINE S == published
           all == OrderBy(Newest, S)
           m == Cardinality(S)
<1>1. IsFiniteSet(S) /\ \A a \in S : a \in Nat /\ a \in Activities
  BY PublishedFinite DEF RecommendationTypeOK
<1>2. \A a, b \in S : <<a, b>> \in Newest <=> a > b
  BY <1>1 DEF Newest, Pairs
<1>3. /\ \A a \in S : <<a, a>> \notin Newest
      /\ \A a, b \in S : a # b => <<a, b>> \in Newest \/ <<b, a>> \in Newest
      /\ \A a, b, c \in S : <<a, b>> \in Newest /\ <<b, c>> \in Newest => <<a, c>> \in Newest
  BY <1>1, <1>2
<1>4. m \in Nat /\ all \in Bijection(1..m, S)
  BY <1>1, <1>3, RowsInOrder
<1> HIDE DEF all, m
<1>5. all \in Seq(published)
  BY <1>4 DEF Bijection, Injection
<1>6. Fresh(n) = Cut(all, 0, n)
  BY DEF Fresh, First, all
<1> QED
  BY <1>5, <1>6, CutElements

\* A cut of a sorted result is sorted.
LEMMA CutSorted ==
  ASSUME RecommendationTypeOK, NEW s \in Seq(published), NEW why, SortedFor(why, s),
         NEW from \in Nat, NEW to \in Nat, from <= to
  PROVE  SortedFor(why, Cut(s, from, to))
<1> DEFINE c == Cut(s, from, to)
<1>1. c \in Seq(published) /\ \A i \in DOMAIN c : from + i \in DOMAIN s /\ c[i] = s[from + i]
  BY CutElements
<1> HIDE DEF c
<1>2. \A i, j \in DOMAIN c : i < j => Precedes(why, c[i], c[j])
  <2>1. TAKE i, j \in DOMAIN c
  <2>2. HAVE i < j
  <2>3. i \in Nat /\ j \in Nat /\ from + i < from + j
    BY <1>1, <2>2
  <2> QED
    BY <1>1, <2>3 DEF SortedFor
<1> QED
  BY <1>2 DEF SortedFor, c

\* A list of similar activities has published ones, the best known first.
LEMMA SimilarFirst ==
  ASSUME RecommendationTypeOK, NEW n
  PROVE  SimilarTo(n) \in Seq(published) /\ SortedFor("similar", SimilarTo(n))
<1> DEFINE S == published \cap ToSet(First(n, OrderBy(Nearest, {a \in Activities : Common[a] > 0})))
           m == Cardinality(S)
           s == SimilarTo(n)
<1>1. IsFiniteSet(published) /\ S \in SUBSET published
  BY PublishedFinite
<1>2. IsFiniteSet(S)
  BY <1>1, FS_Subset
<1>3. \A a \in S : a \in Nat /\ a \in Activities /\ ScoreOf(a) \in Int /\ Common[a] \in Nat
  BY PublishedFinite, RecommendationAssumption DEF RecommendationTypeOK
<1>4. \A a, b \in S : <<a, b>> \in NearestHot <=>
        \/ Common[a] > Common[b]
        \/ Common[a] = Common[b] /\ (ScoreOf(a) > ScoreOf(b) \/ (ScoreOf(a) = ScoreOf(b) /\ a > b))
  BY <1>3 DEF NearestHot, Heat, Pairs
<1>5. s = OrderBy(NearestHot, S)
  BY DEF SimilarTo
<1> HIDE DEF S, s, m
<1>6. \A a \in S : <<a, a>> \notin NearestHot
  BY <1>3, <1>4
<1>7. \A a, b \in S : a # b => <<a, b>> \in NearestHot \/ <<b, a>> \in NearestHot
  BY <1>3, <1>4
<1>8. \A a, b, c \in S : <<a, b>> \in NearestHot /\ <<b, c>> \in NearestHot => <<a, c>> \in NearestHot
  BY <1>3, <1>4
<1>9. /\ m \in Nat /\ s \in Bijection(1..m, S)
      /\ \A i, j \in 1..m : i < j => <<s[i], s[j]>> \in NearestHot
  BY <1>2, <1>5, <1>6, <1>7, <1>8, RowsInOrder DEF m
<1>10. s \in Seq(published) /\ DOMAIN s = 1..m /\ \A i \in 1..m : s[i] \in S
  BY <1>1, <1>9 DEF Bijection, Injection
<1>11. \A i, j \in DOMAIN s : i < j => Precedes("similar", s[i], s[j])
  <2>1. TAKE i, j \in DOMAIN s
  <2>2. HAVE i < j
  <2>3. <<s[i], s[j]>> \in NearestHot /\ s[i] \in S /\ s[j] \in S
    BY <2>2, <1>9, <1>10
  <2> QED
    BY <2>3, <1>3, <1>4 DEF Precedes
<1> QED
  BY <1>10, <1>11 DEF SortedFor, s

\* What a mix asks the database, and what it gets.
LEMMA QueriesOfMix ==
  ASSUME RecommendationTypeOK, NEW key \in Asked, NEW mix \in AllMixes
  PROVE  LET q == Queries(mix, key.limit, key.offset)
         IN  /\ q \in Seq(Group) /\ Len(q) = Len(ReasonsOf(mix)) /\ AsScored(q)
             /\ \A k \in DOMAIN q : q[k].reason = ReasonsOf(mix)[k]
             /\ mix = "hot" => \A k \in DOMAIN q : Len(q[k].found) <= key.limit
<1> DEFINE limit == key.limit
           offset == key.offset
           n == limit + offset
           q == Queries(mix, limit, offset)
           Good(g) == g \in Group /\ SortedFor(g.reason, g.found)
<1>1. limit \in Nat /\ offset \in Nat /\ n \in Nat
  BY RecommendationAssumption
<1>2. \A why \in Why : \A found : found \in Seq(published) /\ SortedFor(why, found)
        => Good([reason |-> why, found |-> found])
  BY DEF Group
<1> HIDE DEF Good
<1>3. \A among, m : m \in Nat =>
        /\ Hot(among, m) \in Seq(published)
        /\ SortedFor("hot", Hot(among, m)) /\ SortedFor("preferred", Hot(among, m))
  BY HotFirst
<1>4. \A m \in Nat : Fresh(m) \in Seq(published) /\ SortedFor("fresh", Fresh(m))
  BY FreshFirst DEF SortedFor, Precedes
<1>5. CASE mix = "hot"
  <2> DEFINE found == Cut(Hot(Activities, n), offset, n)
  <2>1. q = <<[reason |-> "hot", found |-> found]>>
    BY <1>5 DEF Queries
  <2>2. found \in Seq(published) /\ SortedFor("hot", found) /\ Len(found) <= n - offset
    BY <1>1, <1>3, CutElements, CutSorted
  <2> HIDE DEF found
  <2>3. Good(q[1]) /\ q[1].reason = "hot" /\ q[1].found = found
    BY <1>2, <2>1, <2>2 DEF Why
  <2>4. q \in Seq(Group) /\ Len(q) = 1 /\ DOMAIN q = {1}
    BY <2>1, <2>3 DEF Good
  <2>5. ReasonsOf(mix) = <<"hot">>
    BY <1>5 DEF ReasonsOf
  <2>6. Len(q[1].found) <= limit
    BY <1>1, <2>2, <2>3
  <2> HIDE DEF q
  <2>7. Len(q) = Len(ReasonsOf(mix)) /\ \A k \in DOMAIN q : q[k].reason = ReasonsOf(mix)[k]
    BY <2>3, <2>4, <2>5
  <2>8. AsScored(q)
    BY <2>3, <2>4 DEF AsScored, Good
  <2> QED
    BY <2>4, <2>6, <2>7, <2>8 DEF q
<1>6. CASE mix = "anonymous"
  <2> DEFINE few == IF limit < 5 THEN 1 ELSE limit \div 5
             hot == Hot(Activities, n)
             new == Fresh(few)
  <2>1. q = <<[reason |-> "hot", found |-> hot], [reason |-> "fresh", found |-> new]>>
    BY <1>6 DEF Queries
  <2>2. few \in Nat
    BY <1>1
  <2>3. /\ hot \in Seq(published) /\ SortedFor("hot", hot)
        /\ new \in Seq(published) /\ SortedFor("fresh", new)
    BY <1>1, <1>3, <1>4, <2>2
  <2> HIDE DEF hot, new
  <2>4. Good(q[1]) /\ Good(q[2])
    BY <1>2, <2>1, <2>3 DEF Why
  <2>5. q[1].reason = "hot" /\ q[2].reason = "fresh"
    BY <2>1
  <2>6. q \in Seq(Group) /\ Len(q) = 2 /\ DOMAIN q = 1..2
    BY <2>1, <2>4 DEF Good
  <2>7. ReasonsOf(mix) = <<"hot", "fresh">>
    BY <1>6 DEF ReasonsOf
  <2> HIDE DEF q
  <2>8. Len(q) = Len(ReasonsOf(mix)) /\ \A k \in DOMAIN q : q[k].reason = ReasonsOf(mix)[k]
    BY <2>5, <2>6, <2>7
  <2>9. AsScored(q)
    BY <2>4, <2>6 DEF AsScored, Good
  <2> QED
    BY <1>6, <2>6, <2>8, <2>9 DEF q
<1>7. CASE mix = "cold"
  <2> DEFINE hot == Hot(Activities, 2 * limit + offset)
             preferred == Hot(Preferred, 2 * limit)
  <2>1. q = <<[reason |-> "hot", found |-> hot], [reason |-> "preferred", found |-> preferred]>>
    BY <1>7 DEF Queries
  <2>2. 2 * limit + offset \in Nat /\ 2 * limit \in Nat
    BY <1>1
  <2>3. /\ hot \in Seq(published) /\ SortedFor("hot", hot)
        /\ preferred \in Seq(published) /\ SortedFor("preferred", preferred)
    BY <1>3, <2>2
  <2> HIDE DEF hot, preferred
  <2>4. Good(q[1]) /\ Good(q[2])
    BY <1>2, <2>1, <2>3 DEF Why
  <2>5. q[1].reason = "hot" /\ q[2].reason = "preferred"
    BY <2>1
  <2>6. q \in Seq(Group) /\ Len(q) = 2 /\ DOMAIN q = 1..2
    BY <2>1, <2>4 DEF Good
  <2>7. ReasonsOf(mix) = <<"hot", "preferred">>
    BY <1>7 DEF ReasonsOf
  <2> HIDE DEF q
  <2>8. Len(q) = Len(ReasonsOf(mix)) /\ \A k \in DOMAIN q : q[k].reason = ReasonsOf(mix)[k]
    BY <2>5, <2>6, <2>7
  <2>9. AsScored(q)
    BY <2>4, <2>6 DEF AsScored, Good
  <2> QED
    BY <1>7, <2>6, <2>8, <2>9 DEF q
<1>8. CASE mix = "collaborative"
  <2> DEFINE similar == SimilarTo(3 * FourTenths(n))
             hot == Hot(Activities, 2 * FourTenths(n))
             new == Fresh(2 * TwoTenths(n))
  <2>1. q = <<[reason |-> "similar", found |-> similar], [reason |-> "hot", found |-> hot],
              [reason |-> "fresh", found |-> new]>>
    BY <1>8 DEF Queries
  <2>2. FourTenths(n) \in Nat /\ TwoTenths(n) \in Nat
    BY <1>1 DEF FourTenths, TwoTenths
  <2>3. 3 * FourTenths(n) \in Nat /\ 2 * FourTenths(n) \in Nat /\ 2 * TwoTenths(n) \in Nat
    BY <2>2
  <2>4. /\ similar \in Seq(published) /\ SortedFor("similar", similar)
        /\ hot \in Seq(published) /\ SortedFor("hot", hot)
        /\ new \in Seq(published) /\ SortedFor("fresh", new)
    BY <1>3, <1>4, <2>3, SimilarFirst
  <2> HIDE DEF similar, hot, new
  <2>5. Good(q[1]) /\ Good(q[2]) /\ Good(q[3])
    BY <1>2, <2>1, <2>4 DEF Why
  <2>6. q[1].reason = "similar" /\ q[2].reason = "hot" /\ q[3].reason = "fresh"
    BY <2>1
  <2>7. q \in Seq(Group) /\ Len(q) = 3 /\ DOMAIN q = 1..3
    BY <2>1, <2>5 DEF Good
  <2>8. ReasonsOf(mix) = <<"similar", "hot", "fresh">>
    BY <1>8 DEF ReasonsOf
  <2> HIDE DEF q
  <2>9. Len(q) = Len(ReasonsOf(mix)) /\ \A k \in DOMAIN q : q[k].reason = ReasonsOf(mix)[k]
    BY <2>6, <2>7, <2>8
  <2>10. AsScored(q)
    BY <2>5, <2>7 DEF AsScored, Good
  <2> QED
    BY <1>8, <2>7, <2>9, <2>10 DEF q
<1> QED
  BY <1>5, <1>6, <1>7, <1>8 DEF AllMixes
-------------------------------------------------------------------------------
(* Answers.                                                                *)

LEMMA CutList ==
  ASSUME RecommendationTypeOK, NEW l \in Seq(Entry), Distinct(l),
         NEW from \in Nat, NEW to \in Nat, from <= to
  PROVE  LET c == Cut(l, from, to)
         IN  /\ c \in Seq(Entry) /\ Len(c) \in Nat /\ Len(c) <= to - from
             /\ Distinct(c) /\ (Ordered(l) => Ordered(c))
<1> DEFINE c == Cut(l, from, to)
<1>1. /\ c \in Seq(Entry) /\ Len(c) \in Nat /\ Len(c) <= to - from
      /\ \A i \in DOMAIN c : from + i \in DOMAIN l /\ c[i] = l[from + i]
  BY CutElements
<1> HIDE DEF c
<1>2. \A i \in DOMAIN c : i \in Nat
  BY <1>1
<1>3. Distinct(c)
  <2>1. SUFFICES ASSUME NEW i \in DOMAIN c, NEW j \in DOMAIN c, c[i].id = c[j].id PROVE i = j
    BY DEF Distinct
  <2>2. from + i = from + j
    BY <1>1, <2>1 DEF Distinct
  <2> QED BY <1>2, <2>2
<1>4. ASSUME Ordered(l) PROVE Ordered(c)
  <2>1. SUFFICES ASSUME NEW i \in DOMAIN c, NEW j \in DOMAIN c, i < j,
                        c[i].reason = c[j].reason
                 PROVE  Precedes(c[i].reason, c[i].id, c[j].id)
    BY DEF Ordered
  <2>2. from + i < from + j
    BY <1>2, <2>1
  <2> QED BY <1>1, <1>4, <2>1, <2>2 DEF Ordered
<1> QED
  BY <1>1, <1>3, <1>4 DEF c

\* Groups with different reasons, each as scored, merge into a list as scored.
LEMMA MergedList ==
  ASSUME RecommendationTypeOK, NEW groups \in Seq(Group), NEW n \in Nat,
         \A g, h \in DOMAIN groups : groups[g].reason = groups[h].reason => g = h
  PROVE  LET out == MergeRecommendations(n, groups)
         IN  /\ out \in Seq(Entry) /\ Len(out) \in Nat /\ Len(out) <= n /\ Distinct(out)
             /\ Len(groups) = 1 => Len(out) <= Len(groups[1].found)
             /\ AsScored(groups) => Ordered(out)
<1> DEFINE out == MergeRecommendations(n, groups)
<1>1. IsFiniteSet(published)
  BY PublishedFinite
<1>2. /\ out \in Seq(Entry) /\ Len(out) <= n
      /\ Len(groups) = 1 => Len(out) <= Len(groups[1].found)
      /\ Distinct(out) /\ GroupByGroup(out, groups)
  BY <1>1, Merged DEF Group, Entry
<1> HIDE DEF out
<1>3. ASSUME AsScored(groups) PROVE Ordered(out)
  <2>1. SUFFICES ASSUME NEW i \in DOMAIN out, NEW j \in DOMAIN out, i < j,
                        out[i].reason = out[j].reason
                 PROVE  Precedes(out[i].reason, out[i].id, out[j].id)
    BY DEF Ordered
  <2>2. PICK g, h \in DOMAIN groups :
          \E k \in DOMAIN groups[g].found, l \in DOMAIN groups[h].found :
            /\ out[i].id = groups[g].found[k] /\ out[i].reason = groups[g].reason
            /\ out[j].id = groups[h].found[l] /\ out[j].reason = groups[h].reason
            /\ g < h \/ (g = h /\ k < l)
    BY <1>2, <2>1 DEF GroupByGroup
  <2>3. PICK k \in DOMAIN groups[g].found, l \in DOMAIN groups[h].found :
            /\ out[i].id = groups[g].found[k] /\ out[i].reason = groups[g].reason
            /\ out[j].id = groups[h].found[l] /\ out[j].reason = groups[h].reason
            /\ g < h \/ (g = h /\ k < l)
    BY <2>2
  <2>4. g = h /\ g \in Nat
    <3>1. groups[g].reason = groups[h].reason
      BY <2>1, <2>3
    <3>2. \A x \in DOMAIN groups : x \in Nat
      OBVIOUS
    <3> QED BY <3>1, <3>2
  <2>5. k < l /\ SortedFor(groups[g].reason, groups[g].found)
    BY <1>3, <2>1, <2>3, <2>4 DEF AsScored
  <2> QED
    BY <2>3, <2>4, <2>5 DEF SortedFor
<1>4. Len(out) \in Nat
  BY <1>2
<1> QED
  BY <1>2, <1>3, <1>4 DEF out

LEMMA ReasonsDiffer ==
  ASSUME NEW mix \in AllMixes
  PROVE  /\ Len(ReasonsOf(mix)) \in Nat /\ DOMAIN ReasonsOf(mix) = 1..Len(ReasonsOf(mix))
         /\ mix = "hot" => Len(ReasonsOf(mix)) = 1
         /\ \A g, h \in DOMAIN ReasonsOf(mix) : ReasonsOf(mix)[g] = ReasonsOf(mix)[h] => g = h
<1> DEFINE reasons == ReasonsOf(mix)
<1>1. CASE mix = "hot"
  <2>1. reasons = <<"hot">>
    BY <1>1 DEF ReasonsOf
  <2> HIDE DEF reasons
  <2> QED BY <2>1 DEF reasons
<1>2. CASE mix = "anonymous"
  <2>1. reasons = <<"hot", "fresh">>
    BY <1>2 DEF ReasonsOf
  <2> HIDE DEF reasons
  <2> QED BY <1>2, <2>1 DEF reasons
<1>3. CASE mix = "cold"
  <2>1. reasons = <<"hot", "preferred">>
    BY <1>3 DEF ReasonsOf
  <2> HIDE DEF reasons
  <2> QED BY <1>3, <2>1 DEF reasons
<1>4. CASE mix = "collaborative"
  <2>1. reasons = <<"similar", "hot", "fresh">>
    BY <1>4 DEF ReasonsOf
  <2> HIDE DEF reasons
  <2> QED BY <1>4, <2>1 DEF reasons
<1> QED
  BY <1>1, <1>2, <1>3, <1>4 DEF AllMixes

\* The list that a request with all its answers puts in the map.
LEMMA ListOfCall ==
  ASSUME RecommendationTypeOK, NEW call \in Request, Answered(call),
         Len(call.got) = Len(ReasonsOf(call.mix))
  PROVE  LET out == ListOf(call)
         IN  /\ out \in Seq(Entry) /\ Len(out) <= call.key.limit /\ Distinct(out)
             /\ AsScored(call.got) => Ordered(out)
<1> DEFINE got == call.got
           back == Reverse(got)
           limit == call.key.limit
           offset == call.key.offset
           n == limit + offset
           m == Len(got)
<1>1. /\ call.key \in Asked /\ call.mix \in AllMixes /\ got \in Seq(Group)
      /\ m \in Nat /\ DOMAIN got = 1..m
  BY DEF Request
<1>2. limit \in Nat /\ offset \in Nat /\ n \in Nat /\ offset <= n /\ n - offset = limit
  <2>1. call.key \in [endpoint : {"hot", "mix"}, guest : BOOLEAN, limit : 1..100, offset : Nat]
    BY <1>1, RecommendationAssumption
  <2>2. limit \in 1..100 /\ offset \in Nat
    BY <2>1
  <2> HIDE DEF limit, offset
  <2> QED BY <2>2
<1>3. \A g, h \in DOMAIN got : got[g].reason = got[h].reason => g = h
  <2>1. \A g \in DOMAIN got : got[g].reason = ReasonsOf(call.mix)[g] /\ g \in DOMAIN ReasonsOf(call.mix)
    BY <1>1, ReasonsDiffer DEF Answered
  <2> QED BY <1>1, <2>1, ReasonsDiffer
<1>4. CASE call.mix = "hot"
  <2> DEFINE out == MergeRecommendations(n, got)
  <2>1. m = 1 /\ Len(got[1].found) <= limit
    BY <1>1, <1>4, ReasonsDiffer DEF Answered
  <2>2. /\ out \in Seq(Entry) /\ Len(out) \in Nat /\ Len(out) <= Len(got[1].found) /\ Distinct(out)
        /\ AsScored(got) => Ordered(out)
    BY <1>1, <1>2, <1>3, <2>1, MergedList
  <2>3. ListOf(call) = out
    BY <1>4 DEF ListOf
  <2>4. Len(got[1].found) \in Nat
    BY <1>1, <2>1 DEF Group
  <2> HIDE DEF out
  <2> QED BY <1>2, <2>1, <2>2, <2>3, <2>4
<1>5. CASE call.mix = "cold"
  <2> DEFINE all == MergeRecommendations(n, back)
             out == Cut(all, offset, n)
  <2>1. /\ back \in Seq(Group) /\ Len(back) = m /\ DOMAIN back = 1..m
        /\ \A g \in 1..m : m - g + 1 \in 1..m /\ back[g] = got[m - g + 1]
    BY <1>1 DEF Reverse
  <2> HIDE DEF back
  <2>2. \A g, h \in DOMAIN back : back[g].reason = back[h].reason => g = h
    <3>1. SUFFICES ASSUME NEW g \in 1..m, NEW h \in 1..m, back[g].reason = back[h].reason PROVE g = h
      BY <2>1
    <3>2. /\ m - g + 1 \in DOMAIN got /\ m - h + 1 \in DOMAIN got
          /\ got[m - g + 1].reason = got[m - h + 1].reason
      BY <1>1, <2>1, <3>1
    <3>3. m - g + 1 = m - h + 1
      BY <1>3, <3>2
    <3> QED BY <1>1, <3>3
  <2>3. AsScored(got) => AsScored(back)
    BY <1>1, <2>1 DEF AsScored
  <2>4. /\ all \in Seq(Entry) /\ Distinct(all)
        /\ AsScored(back) => Ordered(all)
    BY <1>2, <2>1, <2>2, MergedList
  <2> HIDE DEF all
  <2>5. /\ out \in Seq(Entry) /\ Len(out) <= limit /\ Distinct(out)
        /\ Ordered(all) => Ordered(out)
    BY <1>2, <2>4, CutList
  <2>6. ListOf(call) = out
    BY <1>5 DEF ListOf, back, all
  <2> HIDE DEF out
  <2> QED BY <2>3, <2>4, <2>5, <2>6
<1>6. CASE call.mix \notin {"hot", "cold"}
  <2> DEFINE all == MergeRecommendations(n, got)
             out == Cut(all, offset, n)
  <2>1. /\ all \in Seq(Entry) /\ Distinct(all)
        /\ AsScored(got) => Ordered(all)
    BY <1>1, <1>2, <1>3, MergedList
  <2> HIDE DEF all
  <2>2. /\ out \in Seq(Entry) /\ Len(out) <= limit /\ Distinct(out)
        /\ Ordered(all) => Ordered(out)
    BY <1>2, <2>1, CutList
  <2>3. ListOf(call) = out
    BY <1>6 DEF ListOf, all
  <2> HIDE DEF out
  <2> QED BY <2>1, <2>2, <2>3
<1> QED
  BY <1>4, <1>5, <1>6
-------------------------------------------------------------------------------
(* The lists and the ranks follow the scores because the answers of a      *)
(* request that is not overtaken do, and because the ranks written so far  *)
(* are those of activities before all that are still to be ranked.         *)

Requests ==
  /\ calls \in [Callers -> {NoCall} \cup Request]
  /\ \A c \in Callers : calls[c] # NoCall => Answered(calls[c])
Follow == phase = "idle" /\ ~halfDone =>
  \A c \in Callers : calls[c] # NoCall => calls[c].overtaken \/ AsScored(calls[c].got)

Ranked == Scored \ ToSet(rows)
InOrder(s, R) == \A i, j \in DOMAIN s : i < j => <<s[i], s[j]>> \in R
Ranking ==
  /\ rows \in Seq(Scored) /\ InOrder(rows, BestFirst)
  /\ phase # "ranking" => rows = <<>>
  /\ phase = "ranking" =>
       /\ \A a \in Ranked, b \in ToSet(rows) : <<a, b>> \in BestFirst
       /\ \A a \in Ranked : ranks[a] \in 1..Cardinality(Ranked)
       /\ \A a, b \in Ranked : <<a, b>> \in BestFirst => ranks[a] < ranks[b]

RecommendationInductive ==
  RecommendationTypeOK /\ RankedAsScored /\ Requests /\ Follow /\ Ranking

\* What a request has been told is still so when more is published.
LEMMA MorePublished ==
  ASSUME Requests, published \subseteq published', calls' = calls
  PROVE  Requests'
<1>1. Seq(published) \subseteq Seq(published')
  OBVIOUS
<1>2. Group \subseteq Group'
  BY <1>1 DEF Group
<1>3. Seq(Group) \subseteq Seq(Group')
  BY <1>2
<1>4. Request \subseteq Request'
  BY <1>3 DEF Request
<1> HIDE DEF Request
<1> QED
  BY <1>4 DEF Requests, Answered

\* A step of one request.
LEMMA CallStep ==
  ASSUME Requests, Follow, UNCHANGED <<scoreVars, runVars>>,
         NEW c \in Callers, NEW new \in {NoCall} \cup Request,
         new # NoCall => Answered(new),
         new # NoCall /\ phase = "idle" /\ ~halfDone => new.overtaken \/ AsScored(new.got),
         calls' = [calls EXCEPT ![c] = new]
  PROVE  Requests' /\ Follow'
<1>1. published' = published /\ score' = score /\ phase' = phase /\ halfDone' = halfDone
  BY DEF scoreVars, runVars
<1>2. Request' = Request
  BY <1>1 DEF Request, Group
<1>3. \A d \in Callers : calls'[d] = IF d = c THEN new ELSE calls[d]
  BY DEF Requests
<1>4. calls' \in [Callers -> {NoCall} \cup Request]
  BY DEF Requests
<1>5. Requests'
  BY <1>2, <1>3, <1>4 DEF Requests, Answered
<1>6. Follow'
  <2>1. SUFFICES ASSUME phase = "idle" /\ ~halfDone, NEW d \in Callers, calls'[d] # NoCall
                 PROVE  calls'[d].overtaken \/ AsScored(calls[d].got)'
    BY <1>1 DEF Follow
  <2>2. calls'[d].overtaken \/ AsScored(calls'[d].got)
    BY <1>3, <2>1 DEF Follow
  <2>3. AsScored(calls[d].got)' <=> AsScored(calls'[d].got)
    BY <1>1 DEF AsScored, SortedFor, Precedes, ScoreOf
  <2> QED BY <2>2, <2>3
<1> QED
  BY <1>5, <1>6

LEMMA RecommendationRest ==
  ASSUME RecommendationInductive, UNCHANGED <<scoreVars, runVars>>
  PROVE  /\ Ranking'
         /\ cache' = cache /\ Requests' => RecommendationTypeOK' /\ RankedAsScored'
<1> USE DEF RecommendationInductive
<1>1. /\ published' = published /\ score' = score /\ ranks' = ranks
      /\ phase' = phase /\ todo' = todo /\ rows' = rows /\ halfDone' = halfDone
  BY DEF scoreVars, runVars
<1>2. Ranking'
  BY <1>1 DEF Ranking, Ranked, InOrder, Scored, BestFirst
<1>3. ASSUME cache' = cache, Requests' PROVE RecommendationTypeOK' /\ RankedAsScored'
  <2>1. \A c \in Callers : calls'[c] # NoCall => calls'[c].key \in Asked
    BY <1>3 DEF Requests, Request
  <2>2. RecommendationTypeOK'
    BY <1>1, <1>3, <2>1 DEF RecommendationTypeOK, Lists
  <2>3. RankedAsScored'
    BY <1>1, <1>3 DEF RankedAsScored, Scored, Ordered, Precedes, ScoreOf
  <2> QED BY <2>2, <2>3
<1> QED
  BY <1>2, <1>3

LEMMA GetStep ==
  ASSUME RecommendationInductive, NEW c \in Callers, GetRecommendations(c)
  PROVE  RecommendationInductive'
<1>0. PICK key \in Asked : \E mix \in Mixes(key) :
        calls' = [calls EXCEPT ![c] = [key |-> key, mix |-> mix, got |-> <<>>, overtaken |-> FALSE]]
  BY DEF GetRecommendations
<1>1. PICK mix \in Mixes(key) :
        calls' = [calls EXCEPT ![c] = [key |-> key, mix |-> mix, got |-> <<>>, overtaken |-> FALSE]]
  BY <1>0
<1> DEFINE new == [key |-> key, mix |-> mix, got |-> <<>>, overtaken |-> FALSE]
<1>2. mix \in AllMixes
  BY DEF Mixes, AllMixes
<1>3. <<>> \in Seq(Group) /\ Len(<<>>) = 0 /\ DOMAIN <<>> = {}
  OBVIOUS
<1>4. new \in Request
  BY <1>2, <1>3 DEF Request
<1>5. Answered(new)
  BY <1>2, <1>3, ReasonsDiffer DEF Answered
<1>6. AsScored(new.got)
  BY <1>3 DEF AsScored
<1>7. UNCHANGED <<scoreVars, runVars>> /\ cache' = cache
  BY DEF GetRecommendations
<1>8. calls' = [calls EXCEPT ![c] = new]
  BY <1>1
<1> HIDE DEF new
<1>9. Requests' /\ Follow'
  BY <1>4, <1>5, <1>6, <1>7, <1>8, CallStep DEF RecommendationInductive
<1> QED
  BY <1>7, <1>9, RecommendationRest DEF RecommendationInductive

LEMMA QueryStep ==
  ASSUME RecommendationInductive, NEW c \in Callers, Query(c)
  PROVE  RecommendationInductive'
<1> DEFINE call == calls[c]
           queries == Queries(call.mix, call.key.limit, call.key.offset)
           k == Len(call.got) + 1
           got == Append(call.got, queries[k])
           new == [call EXCEPT !.got = got]
<1>1. /\ call # NoCall /\ k <= Len(queries)
      /\ calls' = [calls EXCEPT ![c].got = got]
      /\ UNCHANGED <<scoreVars, runVars>> /\ cache' = cache
  BY DEF Query
<1>2. call \in Request /\ Answered(call)
  BY <1>1 DEF RecommendationInductive, Requests
<1>3. /\ call.key \in Asked /\ call.mix \in AllMixes /\ call.got \in Seq(Group)
      /\ call.overtaken \in BOOLEAN /\ Len(call.got) \in Nat /\ DOMAIN call.got = 1..Len(call.got)
      /\ call = [key |-> call.key, mix |-> call.mix, got |-> call.got, overtaken |-> call.overtaken]
  BY <1>2 DEF Request
<1>4. /\ queries \in Seq(Group) /\ Len(queries) = Len(ReasonsOf(call.mix)) /\ AsScored(queries)
      /\ \A i \in DOMAIN queries : queries[i].reason = ReasonsOf(call.mix)[i]
      /\ call.mix = "hot" => \A i \in DOMAIN queries : Len(queries[i].found) <= call.key.limit
  BY <1>3, QueriesOfMix DEF RecommendationInductive
<1>5. k \in DOMAIN queries /\ queries[k] \in Group
  BY <1>1, <1>3, <1>4
<1> HIDE DEF queries
<1>6. /\ got \in Seq(Group) /\ Len(got) = k /\ DOMAIN got = 1..k
      /\ \A i \in 1..k : got[i] = IF i = k THEN queries[k] ELSE call.got[i]
  BY <1>3, <1>5
<1> HIDE DEF got
<1>7. /\ new = [key |-> call.key, mix |-> call.mix, got |-> got, overtaken |-> call.overtaken]
      /\ calls' = [calls EXCEPT ![c] = new]
  BY <1>1, <1>3
<1>8. /\ new \in Request /\ new.got = got /\ new.key = call.key /\ new.mix = call.mix
      /\ new.overtaken = call.overtaken
  BY <1>3, <1>6, <1>7 DEF Request
<1> HIDE DEF new
<1>9. \A i \in 1..k : i # k => i \in DOMAIN call.got
  BY <1>3
<1>10. Answered(new)
  <2>1. \A i \in DOMAIN got : got[i].reason = ReasonsOf(call.mix)[i]
    BY <1>2, <1>4, <1>5, <1>6, <1>9 DEF Answered
  <2>2. call.mix = "hot" => \A i \in DOMAIN got : Len(got[i].found) <= call.key.limit
    BY <1>2, <1>4, <1>5, <1>6, <1>9 DEF Answered
  <2> QED BY <1>1, <1>4, <1>6, <1>8, <2>1, <2>2 DEF Answered
<1>11. ASSUME phase = "idle" /\ ~halfDone PROVE new.overtaken \/ AsScored(new.got)
  <2>1. call.overtaken \/ AsScored(call.got)
    BY <1>1, <1>11 DEF RecommendationInductive, Follow
  <2>2. AsScored(call.got) => AsScored(got)
    BY <1>4, <1>5, <1>6, <1>9 DEF AsScored
  <2> QED BY <1>8, <2>1, <2>2
<1>12. Requests' /\ Follow'
  BY <1>1, <1>7, <1>8, <1>10, <1>11, CallStep DEF RecommendationInductive
<1> QED
  BY <1>1, <1>12, RecommendationRest DEF RecommendationInductive

LEMMA QueryFailsStep ==
  ASSUME RecommendationInductive, NEW c \in Callers, QueryFails(c)
  PROVE  RecommendationInductive'
<1>1. UNCHANGED <<scoreVars, runVars>> /\ cache' = cache /\ calls' = [calls EXCEPT ![c] = NoCall]
  BY DEF QueryFails
<1>2. Requests' /\ Follow'
  BY <1>1, CallStep DEF RecommendationInductive
<1> QED
  BY <1>1, <1>2, RecommendationRest DEF RecommendationInductive

LEMMA SetCacheStep ==
  ASSUME RecommendationInductive, NEW c \in Callers, SetCache(c)
  PROVE  RecommendationInductive'
<1> USE DEF RecommendationInductive
<1> DEFINE call == calls[c]
           new == ListOf(call)
           entry == [list |-> new, overtaken |-> call.overtaken]
<1>1. /\ call # NoCall /\ UNCHANGED <<scoreVars, runVars>>
      /\ Len(call.got) = Len(Queries(call.mix, call.key.limit, call.key.offset))
      /\ cache' = [k \in DOMAIN cache \cup {call.key} |-> IF k = call.key THEN entry ELSE cache[k]]
      /\ calls' = [calls EXCEPT ![c] = NoCall]
  BY DEF SetCache
<1>2. /\ published' = published /\ score' = score /\ ranks' = ranks
      /\ phase' = phase /\ todo' = todo /\ rows' = rows /\ halfDone' = halfDone
  BY <1>1 DEF scoreVars, runVars
<1>3. call \in Request /\ Answered(call) /\ call.key \in Asked /\ call.mix \in AllMixes
  BY <1>1 DEF Requests, Request
<1>4. Len(call.got) = Len(ReasonsOf(call.mix))
  BY <1>1, <1>3, QueriesOfMix
<1>5. /\ new \in Seq(Entry) /\ Len(new) <= call.key.limit /\ Distinct(new)
      /\ AsScored(call.got) => Ordered(new)
  BY <1>3, <1>4, ListOfCall
<1>6. \A i \in DOMAIN new : new[i].id \in published
  <2>1. \A e \in Entry : e.id \in published
    BY DEF Entry
  <2>2. \A i \in DOMAIN new : new[i] \in Entry
    BY <1>5
  <2> QED BY <2>1, <2>2
<1>7. /\ DOMAIN cache' = DOMAIN cache \cup {call.key}
      /\ \A k \in DOMAIN cache' : cache'[k] = IF k = call.key THEN entry ELSE cache[k]
      /\ \A k \in DOMAIN cache' : k # call.key => k \in DOMAIN cache
      /\ entry.list = new /\ entry.overtaken = call.overtaken
  BY <1>1
<1> HIDE DEF new, entry
<1>8. Requests' /\ Follow'
  BY <1>1, CallStep
<1>9. RecommendationTypeOK'
  <2>1. DOMAIN cache' \subseteq Asked /\ \A k \in DOMAIN cache' : Len(cache'[k].list) <= k.limit
    BY <1>3, <1>5, <1>7 DEF RecommendationTypeOK
  <2>2. ASSUME NEW l \in Lists', NEW i \in DOMAIN l, NEW j \in DOMAIN l
        PROVE  l[i].id \in published /\ (l[i].id = l[j].id => i = j)
    <3>1. PICK k \in DOMAIN cache' : l = cache'[k].list
      BY <2>2 DEF Lists
    <3>2. CASE k = call.key
      BY <1>5, <1>6, <1>7, <2>2, <3>1, <3>2 DEF Distinct
    <3>3. CASE k # call.key
      BY <1>7, <2>2, <3>1, <3>3 DEF RecommendationTypeOK, Lists
    <3> QED BY <3>2, <3>3
  <2>3. \A d \in Callers : calls'[d] # NoCall => calls'[d].key \in Asked
    BY <1>8 DEF Requests, Request
  <2> QED
    BY <1>2, <2>1, <2>2, <2>3 DEF RecommendationTypeOK
<1>10. RankedAsScored'
  <2>1. SUFFICES ASSUME phase = "idle" /\ ~halfDone
                 PROVE  \A k \in DOMAIN cache' : cache'[k].overtaken \/ Ordered(cache'[k].list)
    BY <1>2 DEF RankedAsScored, Scored, Ordered, Precedes, ScoreOf
  <2>2. call.overtaken \/ AsScored(call.got)
    BY <1>1, <2>1 DEF Follow
  <2>3. entry.overtaken \/ Ordered(entry.list)
    BY <1>5, <1>7, <2>2
  <2>4. \A k \in DOMAIN cache : cache[k].overtaken \/ Ordered(cache[k].list)
    BY <2>1 DEF RankedAsScored
  <2> QED BY <1>7, <2>3, <2>4
<1> QED
  BY <1>1, <1>8, <1>9, <1>10, RecommendationRest

LEMMA ExpireStep ==
  ASSUME RecommendationInductive, NEW key, Expire(key)
  PROVE  RecommendationInductive'
<1> USE DEF RecommendationInductive
<1>1. /\ cache' = [k \in DOMAIN cache \ {key} |-> cache[k]]
      /\ UNCHANGED <<scoreVars, runVars>> /\ calls' = calls
  BY DEF Expire
<1>2. /\ published' = published /\ score' = score /\ ranks' = ranks
      /\ phase' = phase /\ todo' = todo /\ rows' = rows /\ halfDone' = halfDone
  BY <1>1 DEF scoreVars, runVars
<1>3. DOMAIN cache' \subseteq DOMAIN cache /\ \A k \in DOMAIN cache' : cache'[k] = cache[k]
  BY <1>1
<1>4. Lists' \subseteq Lists
  BY <1>3 DEF Lists
<1>5. RecommendationTypeOK'
  BY <1>1, <1>2, <1>3, <1>4 DEF RecommendationTypeOK
<1>6. RankedAsScored'
  BY <1>2, <1>3 DEF RankedAsScored, Scored, Ordered, Precedes, ScoreOf
<1>7. Requests'
  BY <1>1, <1>2, MorePublished
<1>8. Follow'
  BY <1>1, <1>2 DEF Follow, AsScored, SortedFor, Precedes, ScoreOf
<1> QED
  BY <1>1, <1>5, <1>6, <1>7, <1>8, RecommendationRest

LEMMA PublishStep ==
  ASSUME RecommendationInductive, NEW a \in Activities, Publish(a)
  PROVE  RecommendationInductive'
<1> USE DEF RecommendationInductive
<1>1. /\ published' = published \cup {a} /\ score' = score /\ ranks' = ranks
      /\ phase' = phase /\ todo' = todo /\ rows' = rows /\ halfDone' = halfDone
      /\ cache' = cache /\ calls' = calls
  BY DEF Publish, runVars
<1>2. RecommendationTypeOK'
  <2>1. published' \subseteq Activities /\ todo' \subseteq published'
    BY <1>1 DEF RecommendationTypeOK
  <2>2. Lists' = Lists
    BY <1>1 DEF Lists
  <2>3. \A l \in Lists' : \A i, j \in DOMAIN l :
          l[i].id \in published' /\ (l[i].id = l[j].id => i = j)
    BY <1>1, <2>2 DEF RecommendationTypeOK
  <2> QED BY <1>1, <2>1, <2>3 DEF RecommendationTypeOK
<1>3. RankedAsScored'
  BY <1>1 DEF RankedAsScored, Scored, Ordered, Precedes, ScoreOf
<1>4. Requests'
  BY <1>1, MorePublished
<1>5. Follow'
  BY <1>1 DEF Follow, AsScored, SortedFor, Precedes, ScoreOf
<1>6. Ranking'
  BY <1>1 DEF Ranking, Ranked, InOrder, Scored, BestFirst
<1> QED
  BY <1>2, <1>3, <1>4, <1>5, <1>6

LEMMA StartStep ==
  ASSUME RecommendationInductive, RecalculateAllScores
  PROVE  RecommendationInductive'
<1> USE DEF RecommendationInductive
<1>1. /\ phase = "idle" /\ phase' = "scoring" /\ todo' = published
      /\ published' = published /\ score' = score /\ ranks' = ranks
      /\ rows' = rows /\ halfDone' = halfDone /\ cache' = cache /\ calls' = calls
  BY DEF RecalculateAllScores, scoreVars
<1>2. RecommendationTypeOK'
  BY <1>1 DEF RecommendationTypeOK, Lists
<1>3. RankedAsScored' /\ Follow'
  BY <1>1 DEF RankedAsScored, Follow
<1>4. Requests'
  BY <1>1, MorePublished
<1>5. Ranking'
  BY <1>1 DEF Ranking, Ranked, InOrder, Scored, BestFirst
<1> QED
  BY <1>2, <1>3, <1>4, <1>5

LEMMA UpsertStep ==
  ASSUME RecommendationInductive, NEW a \in Activities, UpsertActivityScore(a)
  PROVE  RecommendationInductive'
<1> USE DEF RecommendationInductive
<1>1. PICK s \in Scores : score' = [score EXCEPT ![a] = s]
  BY DEF UpsertActivityScore
<1>2. /\ phase = "scoring" /\ phase' = phase /\ todo' = todo \ {a}
      /\ published' = published /\ ranks' = ranks
      /\ rows' = rows /\ halfDone' = halfDone /\ cache' = cache /\ calls' = calls
  BY DEF UpsertActivityScore
<1>3. RecommendationTypeOK'
  <2>1. score' \in [Activities -> Scores \cup {NoScore}]
    BY <1>1 DEF RecommendationTypeOK
  <2> QED BY <1>2, <2>1 DEF RecommendationTypeOK, Lists
<1>4. RankedAsScored' /\ Follow'
  BY <1>2 DEF RankedAsScored, Follow
<1>5. Requests'
  BY <1>2, MorePublished
<1>6. rows' = <<>> /\ rows' \in Seq(Scored') /\ DOMAIN rows' = {}
  BY <1>2 DEF Ranking
<1>7. Ranking'
  BY <1>2, <1>6 DEF Ranking, InOrder
<1> QED
  BY <1>3, <1>4, <1>5, <1>7

\* The order of the ranks is a strict total order of the rows with a score.
LEMMA BestFirstOrders ==
  ASSUME RecommendationTypeOK
  PROVE  /\ IsFiniteSet(Scored) /\ Scored \in SUBSET Activities
         /\ \A a \in Scored : <<a, a>> \notin BestFirst
         /\ \A a, b \in Scored : a # b => <<a, b>> \in BestFirst \/ <<b, a>> \in BestFirst
         /\ \A a, b, c \in Scored : <<a, b>> \in BestFirst /\ <<b, c>> \in BestFirst => <<a, c>> \in BestFirst
         /\ \A a, b \in Scored : score[a] > score[b] => <<a, b>> \in BestFirst
<1>1. Scored \in SUBSET Activities /\ IsFiniteSet(Activities) /\ Activities \subseteq Nat
  BY RecommendationAssumption DEF Scored
<1>2. IsFiniteSet(Scored)
  BY <1>1, FS_Subset
<1>3. \A a \in Scored : score[a] \in Int /\ a \in Nat
  <2>1. TAKE a \in Scored
  <2>2. a \in Activities /\ score[a] # NoScore
    BY DEF Scored
  <2>3. score[a] \in Scores \cup {NoScore} /\ Scores \subseteq Int
    BY <2>2, RecommendationAssumption DEF RecommendationTypeOK
  <2> QED BY <1>1, <2>2, <2>3
<1>4. \A a, b \in Scored : <<a, b>> \in BestFirst <=>
        \/ score[a] > score[b]
        \/ (score[a] = score[b] /\ a < b)
  BY DEF BestFirst
<1>5. \A a \in Scored : <<a, a>> \notin BestFirst
  BY <1>3, <1>4
<1>6. \A a, b \in Scored : a # b => <<a, b>> \in BestFirst \/ <<b, a>> \in BestFirst
  BY <1>3, <1>4
<1>7. \A a, b, c \in Scored : <<a, b>> \in BestFirst /\ <<b, c>> \in BestFirst => <<a, c>> \in BestFirst
  BY <1>3, <1>4
<1> QED
  BY <1>1, <1>2, <1>4, <1>5, <1>6, <1>7

LEMMA RanksStep ==
  ASSUME RecommendationInductive, UpdateScoreRanks
  PROVE  RecommendationInductive'
<1> USE DEF RecommendationInductive
<1> DEFINE all == OrderBy(BestFirst, Scored)
           m == Cardinality(Scored)
<1>1. /\ phase = "scoring" /\ phase' = "ranking" /\ rows' = all
      /\ published' = published /\ score' = score /\ ranks' = ranks
      /\ todo' = todo /\ halfDone' = halfDone /\ cache' = cache /\ calls' = calls
  BY DEF UpdateScoreRanks, scoreVars
<1>2. RecommendationTypeOK'
  BY <1>1 DEF RecommendationTypeOK, Lists
<1>3. RankedAsScored' /\ Follow'
  BY <1>1 DEF RankedAsScored, Follow
<1>4. Requests'
  BY <1>1, MorePublished
<1>5. /\ m \in Nat /\ all \in Bijection(1..m, Scored)
      /\ \A i, j \in 1..m : i < j => <<all[i], all[j]>> \in BestFirst
  BY BestFirstOrders, RowsInOrder
<1> HIDE DEF all, m
<1>6. /\ all \in Seq(Scored) /\ DOMAIN all = 1..m /\ \A a \in Scored : \E i \in 1..m : all[i] = a
  BY <1>5 DEF Bijection, Injection, Surjection
<1>7. Scored' = Scored /\ BestFirst' = BestFirst
  BY <1>1 DEF Scored, BestFirst
<1>8. Ranked' = {}
  BY <1>1, <1>6, <1>7 DEF Ranked, ToSet
<1>9. InOrder(rows', BestFirst')
  BY <1>1, <1>5, <1>6, <1>7 DEF InOrder
<1>10. Ranking'
  BY <1>1, <1>6, <1>7, <1>8, <1>9 DEF Ranking, InOrder
<1> QED
  BY <1>2, <1>3, <1>4, <1>10

LEMMA RankStep ==
  ASSUME RecommendationInductive, UpdateRank
  PROVE  RecommendationInductive'
<1> USE DEF RecommendationInductive
<1> DEFINE h == Head(rows)
           n == Cardinality(Ranked)
<1>1. /\ phase = "ranking" /\ rows # <<>> /\ phase' = phase /\ rows' = Tail(rows)
      /\ ranks' = [ranks EXCEPT ![h] = n + 1]
      /\ published' = published /\ score' = score
      /\ todo' = todo /\ halfDone' = halfDone /\ cache' = cache /\ calls' = calls
  BY DEF UpdateRank, Ranked
<1>2. /\ rows \in Seq(Scored) /\ InOrder(rows, BestFirst)
      /\ \A a \in Ranked, b \in ToSet(rows) : <<a, b>> \in BestFirst
      /\ \A a \in Ranked : ranks[a] \in 1..n
      /\ \A a, b \in Ranked : <<a, b>> \in BestFirst => ranks[a] < ranks[b]
  BY <1>1 DEF Ranking
<1>3. /\ Len(rows) \in Nat /\ Len(rows) > 0 /\ DOMAIN rows = 1..Len(rows)
      /\ h = rows[1] /\ h \in Scored /\ h \in ToSet(rows)
      /\ rows' \in Seq(Scored) /\ DOMAIN rows' = 1..(Len(rows) - 1)
      /\ \A i \in DOMAIN rows' : i + 1 \in DOMAIN rows /\ rows'[i] = rows[i + 1]
  BY <1>1, <1>2 DEF ToSet
<1>4. Scored' = Scored /\ BestFirst' = BestFirst
  BY <1>1 DEF Scored, BestFirst
<1>5. \A b \in ToSet(rows') : b \in Scored /\ b \in ToSet(rows) /\ <<h, b>> \in BestFirst
  <2>1. TAKE b \in ToSet(rows')
  <2>2. PICK i \in DOMAIN rows' : b = rows'[i]
    BY DEF ToSet
  <2>3. i + 1 \in DOMAIN rows /\ b = rows[i + 1] /\ 1 < i + 1 /\ 1 \in DOMAIN rows
    BY <1>3, <2>2
  <2>4. <<rows[1], rows[i + 1]>> \in BestFirst
    BY <1>2, <2>3 DEF InOrder
  <2> QED BY <1>2, <1>3, <2>3, <2>4 DEF ToSet
<1>6. \A b \in ToSet(rows) : b = h \/ b \in ToSet(rows')
  <2>1. SUFFICES ASSUME NEW i \in DOMAIN rows, rows[i] # h PROVE rows[i] \in ToSet(rows')
    BY DEF ToSet
  <2>2. i # 1 /\ i - 1 \in DOMAIN rows' /\ i - 1 + 1 = i
    BY <1>3, <2>1
  <2> QED BY <1>3, <2>2 DEF ToSet
<1>7. h \notin ToSet(rows') /\ h \notin Ranked
  BY <1>3, <1>5, BestFirstOrders DEF Ranked
<1>8. Ranked' = Ranked \cup {h}
  BY <1>3, <1>4, <1>5, <1>6, <1>7 DEF Ranked
<1>9. IsFiniteSet(Ranked) /\ n \in Nat
  <2>1. Ranked \in SUBSET Scored
    BY DEF Ranked
  <2> QED BY <2>1, BestFirstOrders, FS_Subset, FS_CardinalityType
<1>10. Cardinality(Ranked') = n + 1
  BY <1>7, <1>8, <1>9, FS_AddElement
<1>11. n + 1 \in 0..Cardinality(Activities)
  <2>1. Ranked' \in SUBSET Activities /\ IsFiniteSet(Activities)
    BY <1>4, BestFirstOrders, RecommendationAssumption DEF Ranked
  <2>2. Cardinality(Ranked') <= Cardinality(Activities) /\ Cardinality(Activities) \in Nat
    BY <2>1, FS_Subset, FS_CardinalityType
  <2> QED BY <1>9, <1>10, <2>2
<1> HIDE DEF h, n
<1>12. RecommendationTypeOK'
  <2>1. ranks' \in [Activities -> 0..Cardinality(Activities)]
    BY <1>1, <1>11 DEF RecommendationTypeOK
  <2> QED BY <1>1, <2>1 DEF RecommendationTypeOK, Lists
<1>13. RankedAsScored' /\ Follow'
  BY <1>1 DEF RankedAsScored, Follow
<1>14. Requests'
  BY <1>1, MorePublished
<1>15. \A a \in Ranked : a \in Scored /\ a \in Activities /\ ranks'[a] = ranks[a] /\ a # h
  BY <1>1, <1>7, BestFirstOrders DEF Ranked, RecommendationTypeOK
<1>16. ranks'[h] = n + 1
  BY <1>1, <1>3, BestFirstOrders DEF RecommendationTypeOK
<1>17. \A a \in Ranked', b \in ToSet(rows') : <<a, b>> \in BestFirst
  BY <1>2, <1>5, <1>8
<1>18. \A a \in Ranked' : ranks'[a] \in 1..(n + 1)
  BY <1>2, <1>8, <1>9, <1>15, <1>16
<1>19. \A a, b \in Ranked' : <<a, b>> \in BestFirst => ranks'[a] < ranks'[b]
  <2>1. SUFFICES ASSUME NEW a \in Ranked', NEW b \in Ranked', <<a, b>> \in BestFirst
                 PROVE  ranks'[a] < ranks'[b]
    OBVIOUS
  <2>2. a # h \/ b # h
    BY <1>3, <2>1, BestFirstOrders
  <2>3. CASE a # h /\ b # h
    BY <1>2, <1>8, <1>15, <2>1, <2>3
  <2>4. CASE a # h /\ b = h
    BY <1>2, <1>8, <1>9, <1>15, <1>16, <2>4
  <2>5. CASE a = h /\ b # h
    <3>1. <<b, h>> \in BestFirst /\ b \in Scored
      BY <1>2, <1>3, <1>8, <1>15, <2>5
    <3> QED BY <1>3, <2>1, <2>5, <3>1, BestFirstOrders
  <2> QED BY <2>2, <2>3, <2>4, <2>5
<1>20. InOrder(rows', BestFirst)
  <2>1. SUFFICES ASSUME NEW i \in DOMAIN rows', NEW j \in DOMAIN rows', i < j
                 PROVE  <<rows'[i], rows'[j]>> \in BestFirst
    BY DEF InOrder
  <2>2. i + 1 < j + 1
    BY <1>3, <2>1
  <2> QED BY <1>2, <1>3, <2>2 DEF InOrder
<1>21. Ranking'
  BY <1>1, <1>3, <1>4, <1>10, <1>17, <1>18, <1>19, <1>20 DEF Ranking, InOrder
<1> QED
  BY <1>12, <1>13, <1>14, <1>21

LEMMA StopStep ==
  ASSUME RecommendationInductive, RecalculationFails
  PROVE  RecommendationInductive'
<1> USE DEF RecommendationInductive
<1>1. /\ phase' = "idle" /\ todo' = {} /\ rows' = <<>> /\ halfDone' = TRUE
      /\ published' = published /\ score' = score /\ ranks' = ranks
      /\ cache' = cache /\ calls' = calls
  BY DEF RecalculationFails, Over, scoreVars
<1>2. RecommendationTypeOK'
  BY <1>1 DEF RecommendationTypeOK, Lists
<1>3. RankedAsScored' /\ Follow'
  BY <1>1 DEF RankedAsScored, Follow
<1>4. Requests'
  BY <1>1, MorePublished
<1>5. rows' \in Seq(Scored') /\ DOMAIN rows' = {}
  BY <1>1
<1>6. Ranking'
  BY <1>1, <1>5 DEF Ranking, InOrder
<1> QED
  BY <1>2, <1>3, <1>4, <1>6

LEMMA ClearStep ==
  ASSUME RecommendationInductive, ClearCache
  PROVE  RecommendationInductive'
<1> USE DEF RecommendationInductive
<1>1. /\ phase = "ranking" /\ rows = <<>> /\ cache' = <<>>
      /\ phase' = "idle" /\ todo' = {} /\ rows' = <<>> /\ halfDone' = FALSE
      /\ published' = published /\ score' = score /\ ranks' = ranks
      /\ calls' = [c \in Callers |->
           IF calls[c] # NoCall /\ calls[c].got # <<>>
           THEN [calls[c] EXCEPT !.overtaken = TRUE] ELSE calls[c]]
  BY DEF ClearCache, Over, Overtake, scoreVars
<1>2. DOMAIN cache' = {} /\ Lists' = {}
  <2>1. DOMAIN cache' = {}
    BY <1>1
  <2> QED BY <2>1 DEF Lists
<1>3. Request' = Request
  BY <1>1 DEF Request, Group
<1>4. \A c \in Callers : calls[c] # NoCall =>
        /\ calls'[c] \in Request /\ calls'[c].key = calls[c].key /\ calls'[c].mix = calls[c].mix
        /\ calls'[c].got = calls[c].got
        /\ calls'[c].overtaken \/ calls[c].got = <<>>
  <2>1. SUFFICES ASSUME NEW c \in Callers, calls[c] # NoCall
                 PROVE  /\ calls'[c] \in Request /\ calls'[c].key = calls[c].key
                        /\ calls'[c].mix = calls[c].mix /\ calls'[c].got = calls[c].got
                        /\ calls'[c].overtaken \/ calls[c].got = <<>>
    OBVIOUS
  <2>2. calls[c] \in Request
    BY <2>1 DEF Requests
  <2>3. CASE calls[c].got = <<>>
    BY <1>1, <2>2, <2>3
  <2>4. CASE calls[c].got # <<>>
    <3>1. calls'[c] = [calls[c] EXCEPT !.overtaken = TRUE]
      BY <1>1, <2>1, <2>4
    <3> QED BY <2>2, <3>1 DEF Request
  <2> QED BY <2>3, <2>4
<1>5. \A c \in Callers : calls[c] = NoCall => calls'[c] = NoCall
  BY <1>1
<1>6. Requests'
  <2>1. calls' = [c \in Callers |-> calls'[c]]
    BY <1>1
  <2>2. \A c \in Callers : calls'[c] \in {NoCall} \cup Request
    BY <1>4, <1>5
  <2>3. calls' \in [Callers -> {NoCall} \cup Request]
    BY <2>1, <2>2
  <2>4. \A c \in Callers : calls'[c] # NoCall => Answered(calls'[c])
    BY <1>4, <1>5 DEF Requests, Answered
  <2> QED BY <1>3, <2>3, <2>4 DEF Requests, Answered
<1>7. Follow'
  BY <1>4, <1>5 DEF Follow, AsScored
<1>8. RecommendationTypeOK'
  <2>1. \A c \in Callers : calls'[c] # NoCall => calls'[c].key \in Asked
    BY <1>6 DEF Requests, Request
  <2> QED BY <1>1, <1>2, <2>1 DEF RecommendationTypeOK
<1>9. Ranked = Scored
  BY <1>1 DEF Ranked, ToSet
<1>10. \A a, b \in Scored : score[a] > score[b] => ranks[a] < ranks[b]
  BY <1>1, <1>9, BestFirstOrders DEF Ranking
<1>11. RankedAsScored'
  <2>1. Scored' = Scored
    BY <1>1 DEF Scored
  <2> QED BY <1>1, <1>2, <1>10, <2>1 DEF RankedAsScored
<1>12. rows' \in Seq(Scored') /\ DOMAIN rows' = {}
  BY <1>1
<1>13. Ranking'
  BY <1>1, <1>12 DEF Ranking, InOrder
<1> QED
  BY <1>6, <1>7, <1>8, <1>11, <1>13
-------------------------------------------------------------------------------
LEMMA FirstRecommendations == RecommendationInit => RecommendationInductive
<1> SUFFICES ASSUME RecommendationInit PROVE RecommendationInductive
  OBVIOUS
<1>1. /\ published \subseteq Activities /\ score = [a \in Activities |-> NoScore]
      /\ ranks = [a \in Activities |-> 0] /\ cache = <<>> /\ calls = [c \in Callers |-> NoCall]
      /\ phase = "idle" /\ todo = {} /\ rows = <<>> /\ halfDone = FALSE
  BY DEF RecommendationInit
<1>2. DOMAIN cache = {} /\ Lists = {}
  <2>1. DOMAIN cache = {}
    BY <1>1
  <2> QED BY <2>1 DEF Lists
<1>3. Cardinality(Activities) \in Nat
  BY RecommendationAssumption, FS_CardinalityType
<1>4. RecommendationTypeOK
  <2>1. ranks \in [Activities -> 0..Cardinality(Activities)]
    BY <1>1, <1>3
  <2> QED BY <1>1, <1>2, <2>1 DEF RecommendationTypeOK
<1>5. RankedAsScored
  BY <1>1, <1>2 DEF RankedAsScored, Scored
<1>6. Requests /\ Follow
  BY <1>1 DEF Requests, Follow
<1>7. rows \in Seq(Scored) /\ DOMAIN rows = {}
  BY <1>1
<1>8. Ranking
  BY <1>1, <1>7 DEF Ranking, InOrder
<1> QED
  BY <1>4, <1>5, <1>6, <1>8 DEF RecommendationInductive

LEMMA RecommendationStep ==
  RecommendationInductive /\ [RecommendationNext]_recommendationVars => RecommendationInductive'
<1> SUFFICES ASSUME RecommendationInductive, [RecommendationNext]_recommendationVars
             PROVE  RecommendationInductive'
  OBVIOUS
<1>1. CASE UNCHANGED recommendationVars
  <2>1. UNCHANGED <<scoreVars, runVars>> /\ cache' = cache /\ calls' = calls /\ published' = published
    BY <1>1 DEF recommendationVars, scoreVars
  <2>2. score' = score /\ phase' = phase /\ halfDone' = halfDone
    BY <2>1 DEF scoreVars, runVars
  <2>3. Requests'
    BY <2>1, MorePublished DEF RecommendationInductive
  <2>4. Follow'
    BY <2>1, <2>2 DEF RecommendationInductive, Follow, AsScored, SortedFor, Precedes, ScoreOf
  <2> QED BY <2>1, <2>3, <2>4, RecommendationRest DEF RecommendationInductive
<1>2. CASE \E c \in Callers : GetRecommendations(c) \/ Query(c) \/ QueryFails(c) \/ SetCache(c)
  BY <1>2, GetStep, QueryStep, QueryFailsStep, SetCacheStep
<1>3. CASE \E key \in Asked : Expire(key)
  BY <1>3, ExpireStep
<1>4. CASE \E a \in Activities : Publish(a) \/ UpsertActivityScore(a)
  BY <1>4, PublishStep, UpsertStep
<1>5. CASE RecalculateAllScores \/ UpdateScoreRanks \/ UpdateRank \/ RecalculationFails \/ ClearCache
  BY <1>5, StartStep, RanksStep, RankStep, StopStep, ClearStep
<1> QED
  BY <1>1, <1>2, <1>3, <1>4, <1>5 DEF RecommendationNext

LEMMA RecommendationInvariant == RecommendationSpec => []RecommendationInductive
<1> QED BY FirstRecommendations, RecommendationStep, PTL DEF RecommendationSpec
-------------------------------------------------------------------------------
(* No list in the map, whichever mix and however the queries interleaved   *)
(* with publications and recalculations, has an activity twice, one that   *)
(* is not published, or more than were asked for.                          *)
THEOREM RecommendationTypeCorrect == RecommendationSpec => []RecommendationTypeOK
<1>1. RecommendationInductive => RecommendationTypeOK
  BY DEF RecommendationInductive
<1> QED BY <1>1, RecommendationInvariant, PTL

(* Between two complete recalculations the ranks follow the scores, and so *)
(* does every list but those of requests that had queried before the map   *)
(* was emptied: RecalculateAllScores, row by row and without a             *)
(* transaction, lets no other stale list survive it.                       *)
THEOREM ListsFollowScores == RecommendationSpec => []RankedAsScored
<1>1. RecommendationInductive => RankedAsScored
  BY DEF RecommendationInductive
<1> QED BY <1>1, RecommendationInvariant, PTL

(* The three modules side by side, as TLC runs them: the notifications of  *)
(* several tabs, the preferences and the recommendations keep their types  *)
(* and shapes, the lists of recommendations have no item twice.            *)
THEOREM CopiesTypeCorrect == Spec => []CopiesTypeOK
<1>1. Init => CentreInit /\ PreferenceInit /\ RecommendationInit
  BY DEF Init
<1>2. [Next]_mcVars => [CentreNext]_centreVars
  BY DEF Next, mcVars
<1>3. [Next]_mcVars => [PreferenceNext]_preferenceVars
  BY DEF Next, mcVars
<1>4. [Next]_mcVars => [RecommendationNext]_recommendationVars
  BY DEF Next, mcVars
<1>5. Spec => CentreSpec /\ PreferenceSpec /\ RecommendationSpec
  BY <1>1, <1>2, <1>3, <1>4, PTL DEF Spec, CentreSpec, PreferenceSpec, RecommendationSpec
<1>6. Inductive => CentreTypeOK
  BY DEF Inductive
<1>7. CentreTypeOK /\ PreferencesTypeOK /\ RecommendationTypeOK => CopiesTypeOK
  BY DEF CopiesTypeOK
<1> QED
  BY <1>5, <1>6, <1>7, CentreInductive, SettingsSurvive, RecommendationTypeCorrect, PTL
===============================================================================
