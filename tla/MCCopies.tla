-------------------------------- MODULE MCCopies --------------------------------
(***************************************************************************)
(* Instances for TLC of the modules about copies that go stale: the two    *)
(* about localStorage in several tabs, and the recommendations' cache.  No *)
(* step of one reads the state of another, so a behaviour is about one of  *)
(* them, and the others rest.                                              *)
(***************************************************************************)
EXTENDS NotificationCentre, UserPreferences, Recommendations, TLC

CONSTANTS t1, t2, c1

VARIABLE about
mcVars == <<about, centreVars, preferenceVars, recommendationVars>>

\* Two tabs with the page; one tab that does everything and one with a bell.
TwoPages == t1 :> {"page"} @@ t2 :> {"page"}
OneOfEach == t1 :> Habits @@ t2 :> {}
BothScenarios == {TwoPages, OneOfEach}

TripsOfTabs == t1 :> {"profile"} @@ t2 :> {"settings"}

\* The second page of the hot list, and the first of one user's mix.
Key(e, g, n, from) == [endpoint |-> e, guest |-> g, limit |-> n, offset |-> from]
LowAndHigh == {-1, 1}
NotByScore == 1 :> 2 @@ 2 :> 1
TwoLists == {Key("hot", TRUE, 1, 1), Key("mix", FALSE, 2, 0)}

Init ==
  /\ about \in {"notifications", "preferences", "recommendations"}
  /\ CentreInit /\ PreferenceInit /\ RecommendationInit
  /\ about # "notifications" => sent = 0 /\ does = TwoPages
  /\ about # "preferences" => city = "ALL"
  /\ published = {1}
Next ==
  /\ UNCHANGED about
  /\ \/ /\ about = "notifications" /\ CentreNext
        /\ UNCHANGED <<preferenceVars, recommendationVars>>
     \/ /\ about = "preferences" /\ PreferenceNext
        /\ UNCHANGED <<centreVars, recommendationVars>>
     \/ /\ about = "recommendations" /\ RecommendationNext
        /\ UNCHANGED <<centreVars, preferenceVars>>
Spec == Init /\ [][Next]_mcVars

(* What the three modules say of the shape of their states.                *)
CopiesTypeOK == CentreTypeOK /\ PreferencesTypeOK /\ RecommendationTypeOK
===============================================================================
