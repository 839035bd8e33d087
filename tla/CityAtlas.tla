------------------------------- MODULE CityAtlas -------------------------------
(***************************************************************************)
(* What the map on the home page counts, and where a click on it leads:    *)
(* the provinces of the activities' locations, the cities of the province  *)
(* one has drilled into, and the list of activities of the city clicked    *)
(* (HomeCityAtlas.tsx, data/geo.ts).  When its maps arrive is the matter   *)
(* of ListingPages.                                                        *)
(*                                                                         *)
(* Everything is guessed from texts: a location is written by a merchant,  *)
(* the names of a map's features end in words like "city" or "province".   *)
(* A text is the set of the words it is made of; one text includes another *)
(* if it has all its words.                                                *)
(***************************************************************************)
EXTENDS Naturals, Sequences, FiniteSets

CONSTANTS
  Provinces,    \* PROVINCES in their order, each as the word its aliases share
  Municipal,    \* MUNICIPALITY_CODES
  Cities,       \* CITY_TO_PROVINCE_MAP in its order: [word, province]
  Suffixes,     \* the words simplifyRegionName strips
  CountryMap,   \* features of the country's map: a province, or a line without one
  MapOf,        \* MapOf[p]: the names of the features of province p's map
  Remote,       \* names left out of a province's map
  FallbackHeat, \* FALLBACK_PROVINCE_HEAT, of some provinces
  Hash,         \* Hash[name]: hashText
  Places,       \* locations merchants write
  MaxHeat,      \* bound: how hot an activity gets
  MaxOnMap      \* bound: activities the home page loads

\* sanitizeChinaGeoJson: without the line in the south.
ProvincesDrawn == {CountryMap[i] : i \in DOMAIN CountryMap} \ {"line"}

AllWords == {Provinces[i] : i \in DOMAIN Provinces} \cup {Cities[i].word : i \in DOMAIN Cities}

\* data/geo.ts:45 and 47: a city of a municipality is the municipality itself.
ASSUME TablesAssumption ==
  /\ DOMAIN Provinces \subseteq Nat /\ DOMAIN Cities \subseteq Nat
  /\ \A i \in DOMAIN Cities : Cities[i].province \in Municipal => Cities[i].word = Cities[i].province
  /\ AllWords \cap Suffixes = {}
\* Every province drawn has a map.  A map names every feature once and none by
\* another one's short name; no name is made of suffixes only.
ASSUME MapsAssumption ==
  /\ ProvincesDrawn \subseteq DOMAIN MapOf
  /\ \A p \in DOMAIN MapOf : DOMAIN MapOf[p] \subseteq Nat
  /\ \A p \in DOMAIN MapOf : \A i \in DOMAIN MapOf[p] :
       /\ IsFiniteSet(MapOf[p][i])
       /\ MapOf[p][i] # {} => MapOf[p][i] \ Suffixes # {}
       /\ \A j \in DOMAIN MapOf[p] \ {i} : MapOf[p][i] # {} =>
            MapOf[p][i] \notin {MapOf[p][j], MapOf[p][j] \ Suffixes}
ASSUME AtlasBounds == MaxHeat \in Nat /\ MaxOnMap \in Nat

VARIABLES
  onMap, \* the activities shown: [at, heat], as the server orders them
  drill  \* the province drilled into, or "none"

atlasVars == <<onMap, drill>>

Includes(text, part) == part \subseteq text
Earliest(S) == CHOOSE i \in S : \A j \in S : i <= j
-------------------------------------------------------------------------------
(* Guessing from a location (data/geo.ts).                                 *)

SimplifyRegionName(name) == name \ Suffixes

ProvincesIn(place) == {i \in DOMAIN Provinces : Includes(place, {Provinces[i]})}
CitiesIn(place) == {i \in DOMAIN Cities : Includes(place, {Cities[i].word})}

\* A province that is named, or else the province of a city that is.
InferProvinceByLocation(place) ==
  CASE ProvincesIn(place) # {} -> Provinces[Earliest(ProvincesIn(place))]
    [] ProvincesIn(place) = {} /\ CitiesIn(place) # {} -> Cities[Earliest(CitiesIn(place))].province
    [] OTHER -> "none"

InferCitySearchKey(place, p) ==
  CASE p \in Municipal -> {p}
    [] p \notin Municipal /\ CitiesIn(place) # {} -> {Cities[Earliest(CitiesIn(place))].word}
    [] OTHER -> SimplifyRegionName(place)
-------------------------------------------------------------------------------
(* The maps, as they are registered.                                       *)

\* sanitizeProvinceGeoJson, as the positions that it keeps.
SanitizeProvinceGeoJson(p) ==
  {i \in DOMAIN MapOf[p] : MapOf[p][i] # {} /\ MapOf[p][i] \notin Remote}
-------------------------------------------------------------------------------
(* The numbers.                                                            *)

\* The hottest of some activities, and of those the first.
TopActivity(group) ==
  CHOOSE k \in group : \A l \in group \ {k} :
    onMap[l].heat < onMap[k].heat \/ (onMap[l].heat = onMap[k].heat /\ k < l)

ActivitiesOf(p) == {k \in DOMAIN onMap : InferProvinceByLocation(onMap[k].at) = p}
\* With no activity at all, numbers that were made up, for the larger ones.
FallbackProvinceHeat(p) == IF p \in DOMAIN FallbackHeat THEN FallbackHeat[p] ELSE 0
\* normalizeProvinceDatum.
ProvinceValue(p) ==
  IF onMap = <<>> THEN FallbackProvinceHeat(p) ELSE Cardinality(ActivitiesOf(p))

\* buildCityHeatData: the first feature whose name fits the key, or the key.
Fits(name, key) ==
  \/ Includes(name, key)
  \/ Includes(key, SimplifyRegionName(name))
  \/ Includes(SimplifyRegionName(name), key)
Fitting(p, place) ==
  {i \in SanitizeProvinceGeoJson(p) : Fits(MapOf[p][i], InferCitySearchKey(place, p))}
BucketKey(p, place) ==
  IF Fitting(p, place) = {} THEN InferCitySearchKey(place, p)
  ELSE MapOf[p][Earliest(Fitting(p, place))]
Bucket(p, name) == {k \in ActivitiesOf(p) : BucketKey(p, onMap[k].at) = name}

\* A share of the province's number, for a city without activities.
GeneratedValue(p, i, name) ==
  LET total == IF ProvinceValue(p) = 0 THEN 6 ELSE ProvinceValue(p)
      index == Cardinality({j \in SanitizeProvinceGeoJson(p) : j < i})
      share == (total * (18 + 10 * ((Hash[name] + index) % 7)) + 50) \div 100
  IN  IF share = 0 /\ ProvinceValue(p) > 0 THEN 1 ELSE share

ShortName(name) == IF SimplifyRegionName(name) = {} THEN name ELSE SimplifyRegionName(name)
Grouped(p, name) == IF Bucket(p, name) # {} THEN Bucket(p, name) ELSE Bucket(p, ShortName(name))
\* Faulty variant: the list is searched for the name on the map.
SearchKeyUnsimplified(p, name) == name
SearchKey(p, name) == IF p \in Municipal THEN {p} ELSE ShortName(name)
CityDatum(p, i) ==
  LET name == MapOf[p][i]
      group == Grouped(p, name)
  IN  [name |-> name, counted |-> group, searchKey |-> SearchKey(p, name),
       value |-> IF group # {} THEN Cardinality(group) ELSE GeneratedValue(p, i, name),
       top |-> IF group # {} THEN TopActivity(group) ELSE 0]
CityData == IF drill = "none" THEN <<>>
            ELSE [i \in SanitizeProvinceGeoJson(drill) |-> CityDatum(drill, i)]

\* filterActivities: what the list for a region shows of the same activities.
MatchesCity(place, region) == Includes(place, region)
-------------------------------------------------------------------------------
AtlasInit == onMap = <<>> /\ drill = "none"

\* The home page's one request for activities; an error leaves none.
ActivitiesArrived ==
  /\ onMap = <<>>
  /\ \E n \in 1..MaxOnMap : onMap' \in [1..n -> [at : Places, heat : 0..MaxHeat]]
  /\ UNCHANGED drill
\* handleMapClick on a province, once its map is there, and the way back.
DrillInto(p) ==
  /\ drill = "none" /\ p \in ProvincesDrawn /\ drill' = p
  /\ UNCHANGED onMap
DrillOut ==
  /\ drill # "none" /\ drill' = "none"
  /\ UNCHANGED onMap

AtlasNext == ActivitiesArrived \/ DrillOut \/ \E p \in ProvincesDrawn : DrillInto(p)
AtlasSpec == AtlasInit /\ [][AtlasNext]_atlasVars
-------------------------------------------------------------------------------
(* Correctness.                                                            *)

(* A number on the map that counts activities keeps its word: the list one *)
(* gets by clicking the city has every activity counted, no activity is    *)
(* counted for two cities, and none for a city of a province that does not *)
(* count it.  Cities whose short name is of several words are excepted:    *)
(* they are searched for by all of them, which no location needs to have.  *)
CountedIsListed ==
  \A i \in DOMAIN CityData :
    LET city == CityData[i]
    IN  /\ city.counted \subseteq ActivitiesOf(drill)
        /\ Cardinality(ShortName(city.name)) > 1
           \/ \A k \in city.counted : MatchesCity(onMap[k].at, city.searchKey)
        /\ \A j \in DOMAIN CityData \ {i} : city.counted \cap CityData[j].counted = {}
===============================================================================
