---------------------------- MODULE UserPreferences ----------------------------
(***************************************************************************)
(* One user's preferences in localStorage, as the profile page, the        *)
(* settings page and the header of several tabs show and change them       *)
(* (useUserPreferences.ts), and the preferred city beside them             *)
(* (usePreferredCity.ts), of which every component keeps a copy of its     *)
(* own.  As in NotificationCentre, another tab's write reaches a tab some  *)
(* time later.  A change is a patch of what the tab shows; an avatar is    *)
(* patched in when its file has been read, into what was shown when the    *)
(* file was chosen.                                                        *)
(***************************************************************************)
EXTENDS Browser, Naturals

CONSTANTS Emails,   \* valid addresses
          Avatars,  \* images, as data URLs
          Cities,   \* cities one may prefer to "ALL"
          NoValue,  \* the empty string
          Trips     \* bound: Trips[t] are the pages one goes to in tab t

ASSUME PreferencesAssumption ==
  /\ NoValue \notin Emails \cup Avatars /\ "ALL" \notin Cities
  /\ Trips \in [Tabs -> SUBSET {"profile", "settings", "activities"}]

VARIABLES
  prefs,        \* uaad.user-preferences.<user>, as last written
  seen,         \* seen[t]: the same as tab t reads and shows it
  where,        \* where[t]: the page
  upload,       \* upload[t]: the file being read, and the preferences to patch
  city,         \* uaad.preferred-city
  layoutCity,   \* layoutCity[t]: the city of PublicLayout, which the list filters by
  settingsCity, \* settingsCity[t]: the city the settings page shows
  wanted,       \* history: what the user set last, field by field
  overwritten   \* history: fields a patch of something older set back

cityVars == <<city, layoutCity, settingsCity>>
prefVars == <<prefs, seen, upload, wanted, overwritten>>
preferenceVars == <<prefVars, where, cityVars>>

Fields == {"avatarDataUrl", "email", "emailNotifications", "smsNotifications"}
Preferences == [avatarDataUrl : Avatars \cup {NoValue}, email : Emails \cup {NoValue},
                emailNotifications : BOOLEAN, smsNotifications : BOOLEAN]
Defaults == [avatarDataUrl |-> NoValue, email |-> NoValue,
             emailNotifications |-> TRUE, smsNotifications |-> FALSE]
NoUpload == [file |-> NoValue, base |-> Defaults]

PreferenceInit ==
  /\ prefs = Defaults /\ seen = [t \in Tabs |-> Defaults]
  /\ where = [t \in Tabs |-> "activities"]
  /\ upload = [t \in Tabs |-> NoUpload]
  /\ city \in Cities \cup {"ALL"}
  /\ layoutCity = [t \in Tabs |-> city] /\ settingsCity = [t \in Tabs |-> city]
  /\ wanted = Defaults /\ overwritten = {}
-------------------------------------------------------------------------------
(* The store.                                                              *)

Store(t, next) ==
  /\ prefs' = next
  /\ seen' = [seen EXCEPT ![t] = next]

\* updatePreferences: the patch over base, what its render showed.
UpdatePreferences(t, base, field, value) ==
  LET next == [base EXCEPT ![field] = value]
  IN /\ Store(t, next)
     /\ wanted' = [wanted EXCEPT ![field] = value]
     /\ overwritten' = {f \in Fields : next[f] # wanted'[f] /\ (base # prefs \/ f \in overwritten)}

\* Faulty variant: the patch goes over the defaults.
SetOverDefaults(t, field, value) ==
  /\ Store(t, [Defaults EXCEPT ![field] = value])
  /\ wanted' = [wanted EXCEPT ![field] = value]
  /\ UNCHANGED <<overwritten, upload, where, cityVars>>
Set(t, field, value) ==
  UpdatePreferences(t, seen[t], field, value) /\ UNCHANGED <<upload, where, cityVars>>

\* The storage event: every component of the tab reads the new value.
Hear(t) ==
  /\ seen[t] # prefs
  /\ seen' = [seen EXCEPT ![t] = prefs]
  /\ UNCHANGED <<prefs, upload, wanted, overwritten, where, cityVars>>
-------------------------------------------------------------------------------
(* Pages.                                                                  *)

\* A page inside the layout; the settings page reads the city anew.
GoTo(t, p) ==
  /\ p \in Trips[t] \ {where[t]}
  /\ where' = [where EXCEPT ![t] = p]
  /\ settingsCity' = IF p = "settings" THEN [settingsCity EXCEPT ![t] = city] ELSE settingsCity
  /\ UNCHANGED <<prefVars, city, layoutCity>>

\* A reload, or coming back from the login page: the layout reads it anew.
Remount(t) ==
  /\ layoutCity' = [layoutCity EXCEPT ![t] = city]
  /\ settingsCity' = [settingsCity EXCEPT ![t] = city]
  /\ seen' = [seen EXCEPT ![t] = prefs]
  /\ upload' = [upload EXCEPT ![t] = NoUpload]
  /\ UNCHANGED <<prefs, where, city, wanted, overwritten>>

\* What the two pages let one do; the rest of them shows the profile, the
\* preferences and the city.
ProfileOffers(p) ==
  {"file", "email"} \cup (IF p.avatarDataUrl # NoValue THEN {"remove"} ELSE {})
SettingsOffers == {"emailNotifications", "smsNotifications", "city", "reset"}
Offers(t) ==
  CASE where[t] = "profile" -> ProfileOffers(seen[t])
    [] where[t] = "settings" -> SettingsOffers
    [] OTHER -> {"region"}

\* An address that is not valid is refused with a message.
EmailSave(t) ==
  "email" \in Offers(t) /\ \E v \in Emails : Set(t, "email", v)

AvatarUpload(t) ==
  /\ "file" \in Offers(t) /\ upload[t] = NoUpload
  /\ \E f \in Avatars : upload' = [upload EXCEPT ![t] = [file |-> f, base |-> seen[t]]]
  /\ UNCHANGED <<prefs, seen, wanted, overwritten, where, cityVars>>

\* reader.onload, on whatever page the tab is by then.
AvatarRead(t) ==
  /\ upload[t] # NoUpload
  /\ UpdatePreferences(t, upload[t].base, "avatarDataUrl", upload[t].file)
  /\ upload' = [upload EXCEPT ![t] = NoUpload]
  /\ UNCHANGED <<where, cityVars>>

RemoveAvatarAsNull(t) ==                                \* faulty RemoveAvatar
  "remove" \in Offers(t) /\ Set(t, "avatarDataUrl", "null")
RemoveAvatar(t) ==
  /\ "remove" \in Offers(t)
  /\ Set(t, "avatarDataUrl", NoValue)

\* The settings page.
Toggle(t) ==
  \E f \in {"emailNotifications", "smsNotifications"} \cap Offers(t) :
    \E value \in BOOLEAN \ {seen[t][f]} : Set(t, f, value)

ChooseCity(t) ==
  /\ "city" \in Offers(t)
  /\ city' \in Cities \cup {"ALL"}
  /\ settingsCity' = [settingsCity EXCEPT ![t] = city']
  /\ UNCHANGED <<prefVars, where, layoutCity>>

ResetPersonalization(t) ==
  /\ "reset" \in Offers(t)
  /\ Store(t, Defaults)
  /\ wanted' = Defaults /\ overwritten' = {}
  /\ city' = "ALL" /\ settingsCity' = [settingsCity EXCEPT ![t] = "ALL"]
  /\ UNCHANGED <<upload, where, layoutCity>>

\* A city of the activity list's filter, which goes through the layout.
FilterByCity(t) ==
  /\ "region" \in Offers(t)
  /\ city' \in Cities \cup {"ALL"}
  /\ layoutCity' = [layoutCity EXCEPT ![t] = city']
  /\ UNCHANGED <<prefVars, where, settingsCity>>

PreferenceNext == \E t \in Tabs :
  \/ Hear(t) \/ Remount(t) \/ EmailSave(t) \/ AvatarUpload(t) \/ AvatarRead(t)
  \/ RemoveAvatar(t) \/ Toggle(t) \/ ChooseCity(t) \/ ResetPersonalization(t)
  \/ FilterByCity(t) \/ \E p \in Trips[t] : GoTo(t, p)

PreferenceSpec == PreferenceInit /\ [][PreferenceNext]_preferenceVars
-------------------------------------------------------------------------------
(* Correctness.                                                            *)

PreferencesTypeOK ==
  /\ prefs \in Preferences /\ seen \in [Tabs -> Preferences] /\ wanted \in Preferences
  /\ where \in [Tabs -> {"profile", "settings", "activities"}]
  /\ upload \in [Tabs -> [file : Avatars \cup {NoValue}, base : Preferences]]
  /\ city \in Cities \cup {"ALL"}
  /\ layoutCity \in [Tabs -> Cities \cup {"ALL"}] /\ settingsCity \in [Tabs -> Cities \cup {"ALL"}]
  /\ overwritten \subseteq Fields

(* What the user set last is what is stored, field by field, except where  *)
(* a patch went over preferences older than the stored ones: an avatar     *)
(* whose file took its time, or another tab that had not heard.            *)
LastSettingKept == \A f \in Fields \ overwritten : prefs[f] = wanted[f]
===============================================================================
