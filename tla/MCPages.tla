------------------------------- MODULE MCPages -------------------------------
(***************************************************************************)
(* Instances of the modules about the pages for TLC.  A tab shows one page *)
(* at a time and no page of one module shares state with one of another:   *)
(* a behaviour is about one of the four, and the others rest.             *)
(***************************************************************************)
EXTENDS EnrolmentPages, ListingPages, MerchantPages, CityAtlas, TLC

VARIABLE about
pagesVars == <<about, enrolmentVars, listingVars, merchantVars, atlasVars>>

\* Seven activities, most of them tied: more pages than Pagination shows at
\* once, and one row more than the browser is given to refine.  Views outweigh
\* the keyword once; the database returns ties either way round.
Row(r, n, enrolled, viewed, created) ==
  [region |-> r, named |-> n, enrolled |-> enrolled, viewed |-> viewed, created |-> created]
SevenRows ==
  <<Row("a", "text", 0, 0, 1), Row("b", "title", 0, 0, 1), Row("a", "nowhere", 0, 7, 2),
    Row("b", "nowhere", 0, 0, 2), Row("a", "exact", 0, 0, 2), Row("a", "text", 0, 50000, 1),
    Row("b", "nowhere", 2, 0, 1)>>
EitherWay == {[i \in 1..7 |-> i], [i \in 1..7 |-> 7 - i]}

\* Two provinces and a municipality.  A city shares its province's name, one
\* has a name of two words, one is in no table, one names a street elsewhere,
\* and a feature has no name.
ThreeProvinces == <<"jilin", "yunnan", "hongkong">>
TwoCities == <<[word |-> "changchun", province |-> "jilin"],
               [word |-> "dali", province |-> "yunnan"],
               [word |-> "hongkong", province |-> "hongkong"]>>
ThreeMaps ==
  "jilin" :> <<{}, {"changchun", "city"}, {"jilin", "city"}, {"yanbian", "zhou"}>>
  @@ "yunnan" :> <<{"dali", "bai", "zhou"}, {"kunming", "city"}>>
  @@ "hongkong" :> <<{"wanchai"}, {"sansha", "city"}>>
Names == UNION {{ThreeMaps[p][i] : i \in DOMAIN ThreeMaps[p]} : p \in DOMAIN ThreeMaps}
Hashes == [name \in Names |-> 3 * Cardinality(name)]
Country == <<"jilin", "yunnan", "hongkong", "line">>
Heats == "yunnan" :> 7
LeftOut == {{"sansha", "city"}}
Locations == {{"jilin", "province", "yanbian"}, {"changchun", "stadium"}, {"jilin", "city"},
              {"dali", "oldtown"}, {"yunnan", "kunming"}, {"kunming"},
              {"changchun", "hongkong", "road"}}

Init ==
  /\ about \in {"enrolment", "listing", "merchant", "atlas"}
  /\ EnrolmentInit /\ ListingInit /\ MerchantInit /\ AtlasInit
  /\ about # "enrolment" =>
       clock = [a \in Activities |-> "open"] /\ trip = "activity" /\ ~signedIn
  /\ about # "listing" => tour = "list"
  /\ about # "merchant" => owned = <<>>
Next ==
  /\ UNCHANGED about
  /\ \/ about = "enrolment" /\ EnrolmentNext /\ UNCHANGED <<listingVars, merchantVars, atlasVars>>
     \/ about = "listing" /\ ListingNext /\ UNCHANGED <<enrolmentVars, merchantVars, atlasVars>>
     \/ about = "merchant" /\ MerchantNext /\ UNCHANGED <<enrolmentVars, listingVars, atlasVars>>
     \/ about = "atlas" /\ AtlasNext /\ UNCHANGED <<enrolmentVars, listingVars, merchantVars>>
Spec == Init /\ [][Next]_pagesVars

(* What the three modules say of the shape of their states: a page has the *)
(* requests under way that its state says it waits for, and no other.      *)
PagesTypeOK == EnrolmentTypeOK /\ ListingTypeOK /\ MerchantTypeOK
===============================================================================
