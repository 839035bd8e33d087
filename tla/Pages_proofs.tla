------------------------------ MODULE Pages_proofs ------------------------------
(***************************************************************************)
(* Theorems about the public pages.  What the home page's map counts is    *)
(* what its cities' lists show, for any tables, any maps that name their   *)
(* features apart, and any locations (CityAtlas).  The list of activities  *)
(* is the page its address names, its pages can be reached, and maps are   *)
(* stored before they are drawn, for any catalogue (ListingPages).         *)
(***************************************************************************)
EXTENDS MCPages, EnrolmentPages_proofs, MerchantPages_proofs, FiniteSetTheorems,
        WellFoundedInduction, TLAPS

(* A set of positions that is not empty has a first one.                   *)
LEMMA EarliestIn ==
  ASSUME NEW S, S \subseteq Nat, S # {}
  PROVE  Earliest(S) \in S
<1>1. PICK x \in S : \A y \in S : ~ (<<y, x>> \in OpToRel(<, Nat))
  BY NatLessThanWellFounded, WFMin
<1>2. \A y \in S : x <= y
  <2>1. TAKE y \in S
  <2>2. x \in Nat /\ y \in Nat /\ ~(y < x)
    BY <1>1 DEF OpToRel
  <2> QED
    BY <2>2
<1> QED
  BY <1>2 DEF Earliest

(* A location that puts an activity in a province names it or one of its   *)
(* cities: in a municipality the name is the municipality's either way.    *)
LEMMA ProvinceNamed ==
  ASSUME NEW place, NEW p, p # "none", InferProvinceByLocation(place) = p
  PROVE  /\ p \in Municipal => p \in place
         /\ \E w \in AllWords : w \in place
<1>1. CASE ProvincesIn(place) # {}
  <2> DEFINE e == Earliest(ProvincesIn(place))
  <2>1. e \in ProvincesIn(place)
    BY <1>1, EarliestIn, TablesAssumption DEF ProvincesIn
  <2>2. Provinces[e] \in place /\ Provinces[e] \in AllWords
    BY <2>1 DEF ProvincesIn, Includes, AllWords
  <2>3. p = Provinces[e]
    BY <1>1 DEF InferProvinceByLocation
  <2> QED
    BY <2>2, <2>3
<1>2. CASE ProvincesIn(place) = {} /\ CitiesIn(place) # {}
  <2> DEFINE e == Earliest(CitiesIn(place))
  <2>1. e \in CitiesIn(place)
    BY <1>2, EarliestIn, TablesAssumption DEF CitiesIn
  <2>2. Cities[e].word \in place /\ Cities[e].word \in AllWords
    BY <2>1 DEF CitiesIn, Includes, AllWords
  <2>3. p = Cities[e].province
    BY <1>2 DEF InferProvinceByLocation
  <2>4. p \in Municipal => Cities[e].word = p
    BY <2>1, <2>3, TablesAssumption DEF CitiesIn
  <2> QED
    BY <2>2, <2>4
<1>3. CASE ProvincesIn(place) = {} /\ CitiesIn(place) = {}
  BY <1>3 DEF InferProvinceByLocation
<1> QED
  BY <1>1, <1>2, <1>3

(* The key a location is sorted by: outside the municipalities it is a     *)
(* part of the location, without suffixes, and not empty.                  *)
LEMMA KeyOfPlace ==
  ASSUME NEW place, NEW p, p # "none", p \notin Municipal,
         InferProvinceByLocation(place) = p
  PROVE  LET key == InferCitySearchKey(place, p)
         IN  key # {} /\ key \subseteq place /\ key \cap Suffixes = {}
<1>1. CASE CitiesIn(place) # {}
  <2> DEFINE e == Earliest(CitiesIn(place))
  <2>1. e \in CitiesIn(place)
    BY <1>1, EarliestIn, TablesAssumption DEF CitiesIn
  <2>2. Cities[e].word \in place /\ Cities[e].word \in AllWords
    BY <2>1 DEF CitiesIn, Includes, AllWords
  <2>3. InferCitySearchKey(place, p) = {Cities[e].word}
    BY <1>1 DEF InferCitySearchKey
  <2> QED
    BY <2>2, <2>3, TablesAssumption
<1>2. CASE CitiesIn(place) = {}
  <2>1. InferCitySearchKey(place, p) = place \ Suffixes
    BY <1>2 DEF InferCitySearchKey, SimplifyRegionName
  <2>2. PICK w \in AllWords : w \in place
    BY ProvinceNamed
  <2> QED
    BY <2>1, <2>2, TablesAssumption
<1> QED
  BY <1>1, <1>2

(* An activity counted for a feature of the map was put there because the  *)
(* feature is the first whose name fits its location.                      *)
LEMMA CountedFits ==
  ASSUME NEW p, p \in DOMAIN MapOf, NEW i \in SanitizeProvinceGeoJson(p),
         NEW k \in Grouped(p, MapOf[p][i])
  PROVE  /\ k \in ActivitiesOf(p)
         /\ i \in Fitting(p, onMap[k].at)
         /\ i = Earliest(Fitting(p, onMap[k].at))
<1> DEFINE name == MapOf[p][i]
           place == onMap[k].at
           key == InferCitySearchKey(place, p)
           e == Earliest(Fitting(p, place))
<1>1. /\ i \in DOMAIN MapOf[p] /\ name # {}
      /\ DOMAIN MapOf[p] \subseteq Nat
      /\ name \ Suffixes # {}
  BY MapsAssumption DEF SanitizeProvinceGeoJson
<1>2. ShortName(name) = name \ Suffixes
  BY <1>1 DEF ShortName, SimplifyRegionName
<1>3. k \in ActivitiesOf(p) /\ BucketKey(p, place) \in {name, name \ Suffixes}
  BY <1>2 DEF Grouped, Bucket
<1>4. Fitting(p, place) # {}
  <2>1. SUFFICES ASSUME Fitting(p, place) = {} PROVE FALSE
    OBVIOUS
  <2>2. key \in {name, name \ Suffixes}
    BY <1>3, <2>1 DEF BucketKey
  <2>3. Fits(name, key)
    BY <2>2 DEF Fits, Includes, SimplifyRegionName
  <2> QED
    BY <2>1, <2>3 DEF Fitting
<1>5. e \in Fitting(p, place)
  <2>1. Fitting(p, place) \subseteq Nat
    BY <1>1 DEF Fitting, SanitizeProvinceGeoJson
  <2> QED
    BY <2>1, <1>4, EarliestIn
<1>6. e \in DOMAIN MapOf[p] /\ MapOf[p][e] # {}
  BY <1>5 DEF Fitting, SanitizeProvinceGeoJson
<1>7. MapOf[p][e] \in {name, name \ Suffixes}
  BY <1>3, <1>4 DEF BucketKey
<1>8. e = i
  BY <1>1, <1>6, <1>7, MapsAssumption
<1> QED
  BY <1>3, <1>5, <1>8

(* The list of the city has what is counted for it: with a short name of   *)
(* one word, fitting the location means being named by it.                 *)
LEMMA CountedNamed ==
  ASSUME NEW p, p \in DOMAIN MapOf, p # "none", NEW i \in SanitizeProvinceGeoJson(p),
         NEW k \in Grouped(p, MapOf[p][i]),
         ~(Cardinality(ShortName(MapOf[p][i])) > 1)
  PROVE  MatchesCity(onMap[k].at, SearchKey(p, MapOf[p][i]))
<1> DEFINE name == MapOf[p][i]
           place == onMap[k].at
           key == InferCitySearchKey(place, p)
           short == ShortName(name)
<1>1. /\ InferProvinceByLocation(place) = p
      /\ Fits(name, key)
  BY CountedFits DEF ActivitiesOf, Fitting
<1>2. CASE p \in Municipal
  BY <1>1, <1>2, ProvinceNamed DEF SearchKey, MatchesCity, Includes
<1>3. CASE p \notin Municipal
  <2>1. key # {} /\ key \subseteq place /\ key \cap Suffixes = {}
    BY <1>1, <1>3, KeyOfPlace
  <2>2. name # {} /\ name \ Suffixes # {} /\ IsFiniteSet(name)
    BY MapsAssumption DEF SanitizeProvinceGeoJson
  <2>3. short = name \ Suffixes /\ short # {}
    BY <2>2 DEF ShortName, SimplifyRegionName
  <2>4. PICK w : short = {w}
    <3>1. IsFiniteSet(short)
      BY <2>2, <2>3, FS_Subset
    <3>2. Cardinality(short) \in Nat /\ Cardinality(short) # 0
      BY <3>1, <2>3, FS_CardinalityType, FS_EmptySet
    <3>3. Cardinality(short) = 1
      BY <3>2
    <3> QED
      BY <3>1, <3>3, FS_Singleton
  <2>5. key \subseteq name \/ short \subseteq key \/ key \subseteq short
    BY <1>1, <2>3 DEF Fits, Includes, SimplifyRegionName
  <2>6. short \subseteq place
    BY <2>1, <2>3, <2>4, <2>5
  <2> QED
    BY <1>3, <2>6 DEF SearchKey, MatchesCity, Includes
<1> QED
  BY <1>2, <1>3

(* Nothing is drawn but the provinces there are maps of.                   *)
LEMMA CountedOnce ==
  ASSUME NEW p, p \in DOMAIN MapOf,
         NEW i \in SanitizeProvinceGeoJson(p), NEW j \in SanitizeProvinceGeoJson(p), i # j
  PROVE  Grouped(p, MapOf[p][i]) \cap Grouped(p, MapOf[p][j]) = {}
<1>1. SUFFICES ASSUME NEW k, k \in Grouped(p, MapOf[p][i]), k \in Grouped(p, MapOf[p][j])
               PROVE  FALSE
  OBVIOUS
<1>2. i = Earliest(Fitting(p, onMap[k].at)) /\ j = Earliest(Fitting(p, onMap[k].at))
  BY <1>1, CountedFits
<1> QED
  BY <1>2

DrillTypeOK == drill = "none" \/ drill \in ProvincesDrawn

(* The numbers of the cities keep their word in every state.               *)
LEMMA NumbersKeepTheirWord == DrillTypeOK => CountedIsListed
<1>1. SUFFICES ASSUME DrillTypeOK, NEW i \in DOMAIN CityData
               PROVE  LET datum == CityData[i]
                      IN  /\ datum.counted \subseteq ActivitiesOf(drill)
                          /\ \/ Cardinality(ShortName(datum.name)) > 1
                             \/ \A k \in datum.counted : MatchesCity(onMap[k].at, datum.searchKey)
                          /\ \A j \in DOMAIN CityData \ {i} :
                               datum.counted \cap CityData[j].counted = {}
  BY DEF CountedIsListed
<1>2. drill # "none"
  BY <1>1 DEF CityData
<1>3. drill \in DOMAIN MapOf
  BY <1>1, <1>2, MapsAssumption DEF DrillTypeOK
<1>4. DOMAIN CityData = SanitizeProvinceGeoJson(drill)
  BY <1>2 DEF CityData
<1>5. \A j \in DOMAIN CityData :
        /\ CityData[j].name = MapOf[drill][j]
        /\ CityData[j].counted = Grouped(drill, MapOf[drill][j])
        /\ CityData[j].searchKey = SearchKey(drill, MapOf[drill][j])
  BY <1>2 DEF CityData, CityDatum
<1>6. CityData[i].counted \subseteq ActivitiesOf(drill)
  BY <1>3, <1>4, <1>5, CountedFits
<1>7. \/ Cardinality(ShortName(CityData[i].name)) > 1
      \/ \A k \in CityData[i].counted : MatchesCity(onMap[k].at, CityData[i].searchKey)
  BY <1>2, <1>3, <1>4, <1>5, CountedNamed
<1>8. \A j \in DOMAIN CityData \ {i} : CityData[i].counted \cap CityData[j].counted = {}
  BY <1>3, <1>4, <1>5, CountedOnce
<1> QED
  BY <1>6, <1>7, <1>8

(* A number on the map that counts activities keeps its word, whatever the *)
(* tables, the maps and the locations are (buildCityHeatData).             *)
THEOREM AtlasCountsWhatIsListed == AtlasSpec => []CountedIsListed
<1>1. AtlasInit => DrillTypeOK
  BY DEF AtlasInit, DrillTypeOK
<1>2. DrillTypeOK /\ [AtlasNext]_atlasVars => DrillTypeOK'
  BY DEF DrillTypeOK, AtlasNext, ActivitiesArrived, DrillOut, DrillInto, atlasVars
<1> QED
  BY <1>1, <1>2, NumbersKeepTheirWord, PTL DEF AtlasSpec
-------------------------------------------------------------------------------
(* The order of the rows of a list, and its pages.                         *)

LEMMA PlacesAreFinite ==
  ASSUME NEW n \in Nat
  PROVE  IsFiniteSet(1..n) /\ Cardinality(1..n) = n
<1>1. 1 \in Int /\ n \in Int
  OBVIOUS
<1> QED
  BY <1>1, FS_Interval

(* Rows are finitely many, and so are those of them that a filter leaves.  *)
LEMMA RowsAreFinite ==
  ASSUME NEW found, found \subseteq Rows
  PROVE  /\ found \subseteq Nat /\ IsFiniteSet(found)
         /\ Cardinality(found) \in Nat /\ Cardinality(found) <= Len(Catalogue)
<1>1. Len(Catalogue) \in Nat /\ Rows = 1..Len(Catalogue)
  BY ListingAssumption DEF Rows
<1>2. IsFiniteSet(1..Len(Catalogue)) /\ Cardinality(1..Len(Catalogue)) = Len(Catalogue)
  BY <1>1, PlacesAreFinite
<1>3. IsFiniteSet(found) /\ Cardinality(found) <= Len(Catalogue)
  <2>1. found \in SUBSET (1..Len(Catalogue))
    BY <1>1
  <2> QED
    BY <2>1, <1>2, FS_Subset
<1>4. Cardinality(found) \in Nat
  BY <1>3, FS_CardinalityType
<1> QED
  BY <1>1, <1>3, <1>4

(* An order without ties, and one whose ties are classes of equal rows.    *)
TotalOrder(order) ==
  /\ \A i, j \in Rows : <<i, j>> \in order \/ <<j, i>> \in order
  /\ \A i, j \in Rows : <<i, j>> \in order /\ <<j, i>> \in order => i = j
  /\ \A i, j, k \in Rows : <<i, j>> \in order /\ <<j, k>> \in order => <<i, k>> \in order
WeakOrder(first) ==
  /\ \A i, j \in Rows : <<i, j>> \in first => <<j, i>> \notin first
  /\ \A i, j, k \in Rows : <<i, k>> \in first => <<i, j>> \in first \/ <<j, k>> \in first

(* A stable sort breaks the ties of one order by another.                  *)
LEMMA TiesAreBroken ==
  ASSUME NEW first, NEW rest, WeakOrder(first), TotalOrder(rest)
  PROVE  TotalOrder(ThenBy(first, rest))
<1> DEFINE order == ThenBy(first, rest)
<1>1. \A i, j \in Rows : <<i, j>> \in order <=>
        <<i, j>> \in first \/ (<<j, i>> \notin first /\ <<i, j>> \in rest)
  BY DEF ThenBy
<1> HIDE DEF order
<1>2. \A i, j \in Rows : <<i, j>> \in order \/ <<j, i>> \in order
  BY <1>1 DEF WeakOrder, TotalOrder
<1>3. \A i, j \in Rows : <<i, j>> \in order /\ <<j, i>> \in order => i = j
  BY <1>1 DEF WeakOrder, TotalOrder
<1>4. \A i, j, k \in Rows : <<i, j>> \in order /\ <<j, k>> \in order => <<i, k>> \in order
  <2>1. TAKE i, j, k \in Rows
  <2>2. HAVE <<i, j>> \in order /\ <<j, k>> \in order
  <2>3. <<j, i>> \notin first /\ <<k, j>> \notin first
    BY <2>2, <1>1 DEF WeakOrder
  <2>4. <<k, i>> \notin first
    BY <2>3 DEF WeakOrder
  <2>5. CASE <<i, k>> \in first
    BY <2>5, <1>1
  <2>6. CASE <<i, k>> \notin first
    <3>1. <<i, j>> \notin first
      BY <2>3, <2>6 DEF WeakOrder
    <3>2. <<j, k>> \notin first
      BY <2>3, <2>6 DEF WeakOrder
    <3>3. <<i, k>> \in rest
      BY <2>2, <1>1, <3>1, <3>2 DEF TotalOrder
    <3> QED
      BY <3>3, <2>4, <1>1
  <2> QED
    BY <2>5, <2>6
<1> QED
  BY <1>2, <1>3, <1>4 DEF TotalOrder, order

LEMMA RowsHaveNumbers ==
  ASSUME NEW i \in Rows
  PROVE  /\ Catalogue[i].enrolled \in Nat /\ Catalogue[i].viewed \in Nat
         /\ Catalogue[i].created \in Nat
         /\ \A f : Relevance(i, f) \in Nat
<1>1. Catalogue[i] \in [region : Regions, named : {"exact", "title", "text", "nowhere"},
                        enrolled : Nat, viewed : Nat, created : Nat]
  <2> DEFINE Activity == [region : Regions, named : {"exact", "title", "text", "nowhere"},
                          enrolled : Nat, viewed : Nat, created : Nat]
  <2>1. Catalogue \in Seq(Activity) /\ i \in DOMAIN Catalogue
    BY ListingAssumption DEF Rows
  <2> HIDE DEF Activity
  <2>2. Catalogue[i] \in Activity
    BY <2>1
  <2> QED
    BY <2>2 DEF Activity
<1>2. Weight[Catalogue[i].named] \in Nat
  BY <1>1 DEF Weight
<1> QED
  BY <1>1, <1>2 DEF Relevance

(* However the database breaks ties, the server's order and the browser's  *)
(* order have none.                                                        *)
LEMMA ServerHasOrder ==
  ASSUME NEW f, NEW shuffle \in Shuffles
  PROVE  TotalOrder(ServerOrder(f, shuffle))
<1> DEFINE rest == {p \in Rows \X Rows : shuffle[p[1]] <= shuffle[p[2]]}
<1>1. \A i, j \in Rows : <<i, j>> \in rest <=> shuffle[i] <= shuffle[j]
  OBVIOUS
<1>2. /\ \A i \in Rows : shuffle[i] \in Nat
      /\ \A i, j \in Rows : shuffle[i] = shuffle[j] => i = j
  BY ListingAssumption DEF Rows
<1> HIDE DEF rest
<1>3. TotalOrder(rest)
  BY <1>1, <1>2 DEF TotalOrder
<1>4. WeakOrder(ServerAhead(f))
  BY RowsHaveNumbers DEF ServerAhead, WeakOrder
<1>5. ServerOrder(f, shuffle) = ThenBy(ServerAhead(f), rest)
  BY DEF ServerOrder, rest
<1> QED
  BY <1>3, <1>4, <1>5, TiesAreBroken

LEMMA BrowserIsWeak ==
  ASSUME NEW f
  PROVE  WeakOrder(BrowserAhead(f))
<1>1. \A i \in Rows : Relevance(i, f) \in Nat
  BY RowsHaveNumbers
<1>2. CASE f.sort = "hot"
  <2>1. \A i, j \in Rows : <<i, j>> \in BrowserAhead(f) <=>
          \/ Catalogue[i].enrolled > Catalogue[j].enrolled
          \/ /\ Catalogue[i].enrolled = Catalogue[j].enrolled
             /\ Catalogue[i].viewed > Catalogue[j].viewed
    BY <1>2 DEF BrowserAhead
  <2> QED
    BY <2>1, RowsHaveNumbers DEF WeakOrder
<1>3. CASE f.sort # "hot"
  <2>1. \A i, j \in Rows :
          <<i, j>> \in BrowserAhead(f) <=> Relevance(i, f) > Relevance(j, f)
    BY <1>3 DEF BrowserAhead
  <2> QED
    BY <2>1, <1>1 DEF WeakOrder
<1> QED
  BY <1>2, <1>3

LEMMA BrowserHasOrder ==
  ASSUME NEW f, NEW shuffle \in Shuffles
  PROVE  TotalOrder(BrowserOrder(f, shuffle))
BY BrowserIsWeak, ServerHasOrder, TiesAreBroken DEF BrowserOrder

(* Sorting gives n rows the places from 1 to n, every one its own.         *)
LEMMA PlacesOfRows ==
  ASSUME NEW found, found \subseteq Rows, NEW order, TotalOrder(order)
  PROVE  PlacesIn(found, order) \in Bijection(found, 1..Cardinality(found))
<1> DEFINE place == PlacesIn(found, order)
           UpTo(i) == {j \in found : <<j, i>> \in order}
           n == Cardinality(found)
<1>1. IsFiniteSet(found) /\ n \in Nat
  BY RowsAreFinite
<1>2. place = [i \in found |-> Cardinality(UpTo(i))]
  BY DEF PlacesIn
<1>3. \A i \in found : /\ UpTo(i) \in SUBSET found /\ i \in UpTo(i)
                      /\ IsFiniteSet(UpTo(i)) /\ Cardinality(UpTo(i)) \in 1..n
  <2>1. TAKE i \in found
  <2>2. UpTo(i) \in SUBSET found
    OBVIOUS
  <2>3. i \in UpTo(i)
    BY DEF TotalOrder
  <2>4. IsFiniteSet(UpTo(i)) /\ Cardinality(UpTo(i)) <= n
    BY <1>1, <2>2, FS_Subset
  <2>5. Cardinality(UpTo(i)) \in Nat /\ Cardinality(UpTo(i)) # 0
    BY <2>3, <2>4, FS_CardinalityType, FS_EmptySet
  <2> QED
    BY <2>2, <2>3, <2>4, <2>5, <1>1
<1>4. \A i, j \in found : <<i, j>> \in order =>
        (Cardinality(UpTo(j)) = Cardinality(UpTo(i)) => UpTo(j) = UpTo(i))
  <2>1. TAKE i, j \in found
  <2>2. HAVE <<i, j>> \in order
  <2>3. UpTo(i) \in SUBSET UpTo(j)
    BY <2>2 DEF TotalOrder
  <2>4. IsFiniteSet(UpTo(j))
    BY <1>3
  <2> HIDE DEF UpTo
  <2> QED
    BY <2>3, <2>4, FS_Subset
<1>5. \A i, j \in found : place[i] = place[j] => i = j
  <2>1. SUFFICES ASSUME NEW i \in found, NEW j \in found, place[i] = place[j],
                        <<i, j>> \in order
                 PROVE  i = j
    BY DEF TotalOrder
  <2>2. UpTo(i) = UpTo(j)
    BY <2>1, <1>2, <1>4
  <2>3. j \in UpTo(i)
    BY <2>2, <1>3
  <2> QED
    BY <2>1, <2>3 DEF TotalOrder
<1>6. place \in Injection(found, 1..n)
  BY <1>2, <1>3, <1>5 DEF Injection, IsInjective
<1>7. IsFiniteSet(1..n) /\ Cardinality(1..n) = n
  BY <1>1, PlacesAreFinite
<1>8. place \in Surjection(found, 1..n)
  BY <1>6, <1>7, FS_Injection
<1> QED
  BY <1>6, <1>8 DEF Bijection

(* An order goes down a rank, if no row comes before one of a higher rank. *)
GoesDown(order, rank) ==
  /\ rank \in [Rows -> Int]
  /\ \A i, j \in Rows : rank[j] > rank[i] => <<i, j>> \notin order

Above(found, rank, i) == {j \in found : rank[j] > rank[i]}
NotBelow(found, rank, i) == {j \in found : rank[j] >= rank[i]}

(* Rows of a higher rank have places before a row's, those of a lower rank *)
(* places after it.                                                        *)
LEMMA PlacesGoDown ==
  ASSUME NEW found, found \subseteq Rows, NEW order, TotalOrder(order),
         NEW rank, GoesDown(order, rank), NEW i \in found
  PROVE  /\ Cardinality(Above(found, rank, i)) < PlacesIn(found, order)[i]
         /\ PlacesIn(found, order)[i] <= Cardinality(NotBelow(found, rank, i))
<1> DEFINE upTo == {j \in found : <<j, i>> \in order}
           above == {j \in found : rank[j] > rank[i]}
           level == {j \in found : rank[j] >= rank[i]}
<1>1. IsFiniteSet(found) /\ i \in Rows
  BY RowsAreFinite
<1>2. i \in upTo /\ i \notin above /\ above \subseteq upTo /\ upTo \subseteq level
  <2>1. <<i, i>> \in order
    BY <1>1 DEF TotalOrder
  <2>2. rank[i] \in Int /\ \A j \in found : rank[j] \in Int
    BY <1>1 DEF GoesDown
  <2>3. ASSUME NEW j \in above PROVE <<j, i>> \in order
    BY <1>1 DEF GoesDown, TotalOrder
  <2>4. ASSUME NEW j \in upTo PROVE rank[j] >= rank[i]
    <3>1. ~(rank[i] > rank[j])
      BY <1>1 DEF GoesDown
    <3> QED
      BY <3>1, <2>2
  <2>5. ~(rank[i] > rank[i])
    BY <2>2
  <2> QED
    BY <2>1, <2>3, <2>4, <2>5
<1>3. upTo \in SUBSET found /\ level \in SUBSET found /\ above \in SUBSET found
  OBVIOUS
<1>4. PlacesIn(found, order)[i] = Cardinality(upTo)
  BY DEF PlacesIn
<1> HIDE DEF upTo, above, level
<1>5. IsFiniteSet(upTo) /\ IsFiniteSet(level) /\ IsFiniteSet(above)
  BY <1>1, <1>3, FS_Subset
<1>6. /\ Cardinality(above) \in Nat /\ Cardinality(upTo) \in Nat /\ Cardinality(level) \in Nat
  BY <1>5, FS_CardinalityType
<1>7. above \in SUBSET upTo /\ upTo \in SUBSET level
  BY <1>2
<1>8. Cardinality(above) <= Cardinality(upTo) /\ Cardinality(upTo) <= Cardinality(level)
  BY <1>5, <1>7, FS_Subset
<1>9. Cardinality(above) # Cardinality(upTo)
  <2>1. Cardinality(upTo) = Cardinality(above) => upTo = above
    BY <1>5, <1>7, FS_Subset
  <2> QED
    BY <2>1, <1>2
<1>10. Above(found, rank, i) = above /\ NotBelow(found, rank, i) = level
  BY DEF Above, NotBelow, above, level
<1> QED
  BY <1>4, <1>6, <1>8, <1>9, <1>10

(* A page has at most as many rows as a page is long, whatever its number. *)
LEMMA PageOfRows ==
  ASSUME NEW found, found \subseteq Rows,
         NEW places \in Injection(found, 1..Cardinality(found)),
         NEW p \in PageNumbers, NEW size \in Nat \ {0}
  PROVE  LET shown == DOMAIN Slice(places, p, size)
         IN  /\ shown \subseteq found /\ IsFiniteSet(shown)
             /\ Cardinality(shown) \in Nat
             /\ Cardinality(shown) <= size /\ Cardinality(shown) <= Cardinality(found)
<1> DEFINE shown == DOMAIN Slice(places, p, size)
           n == Cardinality(found)
           FromEnd(k) == IF k < 0 THEN n + k ELSE k
<1>1. /\ places \in [found -> 1..n]
      /\ \A i, j \in found : places[i] = places[j] => i = j
      /\ n \in Nat /\ IsFiniteSet(found)
  BY RowsAreFinite DEF Injection, IsInjective
<1>2. shown = {i \in found : p # NaN /\ FromEnd((p - 1) * size) < places[i]
                                    /\ places[i] <= FromEnd(p * size)}
  BY <1>1 DEF Slice
<1>3. PICK from \in Int : \A i \in shown : from < places[i] /\ places[i] <= from + size
  <2>1. CASE p = NaN
    BY <1>2, <2>1
  <2>2. CASE p # NaN
    <3> DEFINE a == (p - 1) * size
    <3>1. p \in Int
      BY <2>2, ListingAssumption DEF PageNumbers
    <3>2. a \in Int /\ p * size = a + size
      BY <3>1
    <3>3. p >= 1 => a >= 0
      BY <3>1
    <3>4. p = 0 => a = -size
      BY <3>1
    <3>5. p <= -1 => a + size < 0
      <4>1. p <= -1 => p * size <= (-1) * size
        BY <3>1
      <4> QED
        BY <4>1, <3>2
    <3> HIDE DEF a, shown
    <3>6. \A i \in shown : FromEnd(a) < places[i] /\ places[i] <= FromEnd(a + size)
      BY <1>2, <3>2 DEF a
    <3>7. FromEnd(a) \in Int
      BY <1>1, <3>2
    <3>8. \A i \in shown : places[i] \in Nat /\ places[i] > 0
      BY <1>1, <1>2
    <3>9. p >= 1 \/ p = 0 \/ p <= -1
      BY <3>1
    <3>10. \A i \in shown : FromEnd(a) < places[i] /\ places[i] <= FromEnd(a) + size
      BY <3>2, <3>3, <3>4, <3>5, <3>6, <3>8, <3>9, <1>1
    <3> QED
      BY <3>7, <3>10
  <2> QED
    BY <2>1, <2>2
<1> HIDE DEF shown, n
<1>4. IsFiniteSet(shown) /\ Cardinality(shown) <= n /\ Cardinality(shown) \in Nat
  <2>1. shown \in SUBSET found
    BY <1>2
  <2>2. IsFiniteSet(shown) /\ Cardinality(shown) <= Cardinality(found)
    BY <2>1, <1>1, FS_Subset
  <2> QED
    BY <2>2, FS_CardinalityType DEF n
<1>5. Cardinality(shown) <= size
  <2> DEFINE g == [i \in shown |-> places[i]]
             T == (from + 1)..(from + size)
  <2>1. g \in Injection(shown, T)
    <3>1. \A i \in shown : places[i] \in T
      <4>1. \A i \in shown : places[i] \in Int
        BY <1>1, <1>2
      <4> QED
        BY <1>3, <4>1
    <3>2. \A i, j \in shown : places[i] = places[j] => i = j
      BY <1>1, <1>2
    <3> QED
      BY <3>1, <3>2 DEF Injection, IsInjective
  <2>2. IsFiniteSet(T) /\ Cardinality(T) = size
    <3>1. from + 1 \in Int /\ from + size \in Int
      OBVIOUS
    <3>2. /\ IsFiniteSet(T)
          /\ Cardinality(T) = IF from + 1 > from + size THEN 0 ELSE (from + size) - (from + 1) + 1
      BY <3>1, FS_Interval
    <3> QED
      BY <3>2
  <2> HIDE DEF g, T
  <2> QED
    BY <2>1, <2>2, FS_Injection
<1> QED
  BY <1>2, <1>4, <1>5 DEF shown, n

(* From the first page on, a page has the rows of its places.              *)
LEMMA NumberedPage ==
  ASSUME NEW places, NEW p \in Nat \ {0}, NEW size \in Nat \ {0}
  PROVE  /\ \A i : i \in DOMAIN Slice(places, p, size) <=>
                     i \in DOMAIN places /\ (p - 1) * size < places[i] /\ places[i] <= p * size
         /\ \A i \in DOMAIN Slice(places, p, size) : Slice(places, p, size)[i] = places[i]
<1>1. p \in Int /\ p # NaN
  BY ListingAssumption
<1>2. (p - 1) * size >= 0 /\ p * size >= 0
  OBVIOUS
<1> QED
  BY <1>1, <1>2 DEF Slice
-------------------------------------------------------------------------------
(* The answers.                                                            *)

RowFilters == [region : Regions \cup {"ALL"}, keyword : BOOLEAN, sort : {"relevance", "hot"},
               page : PageNumbers]

Wanted(f) == FilterActivities(Rows, f)
GivenAll(f) == NeedsRefine(f) => Cardinality(ServerRows(f)) <= RefineRows
RankOf(f) == [i \in Rows |-> IF f.sort = "hot" THEN Catalogue[i].enrolled ELSE Relevance(i, f)]

(* Either way an answer is a page of rows that are wanted, sorted: of all  *)
(* of them, if the browser was given all the rows it had to refine.        *)
AnswerForm(answer, f, kept, order, p) ==
  /\ kept \subseteq Wanted(f) /\ (GivenAll(f) => kept = Wanted(f))
  /\ TotalOrder(order) /\ GoesDown(order, RankOf(f))
  /\ p \in PageNumbers /\ (f.page # NaN /\ f.page > 0 => p = f.page)
  /\ answer = [items |-> Slice(PlacesIn(kept, order), p, PageSize), total |-> Cardinality(kept)]

LEMMA WantedAreRows ==
  ASSUME NEW f
  PROVE  /\ Wanted(f) \subseteq ServerRows(f) /\ ServerRows(f) \subseteq Rows
         /\ \A found : found \subseteq ServerRows(f) => FilterActivities(found, f) \subseteq Wanted(f)
         /\ FilterActivities(ServerRows(f), f) = Wanted(f)
BY DEF Wanted, ServerRows, FilterActivities

LEMMA OrdersGoDown ==
  ASSUME NEW f \in RowFilters, NEW shuffle \in Shuffles
  PROVE  /\ f.sort = "hot" => GoesDown(ServerOrder(f, shuffle), RankOf(f))
         /\ GoesDown(BrowserOrder(f, shuffle), RankOf(f))
<1> DEFINE rank == RankOf(f)
<1>1. rank \in [Rows -> Int]
  BY RowsHaveNumbers DEF RankOf
<1>2. ASSUME NEW first, NEW rest, \A i, j \in Rows : rank[j] > rank[i] => <<j, i>> \in first,
             WeakOrder(first)
      PROVE  GoesDown(ThenBy(first, rest), rank)
  <2>1. ASSUME NEW i \in Rows, NEW j \in Rows, rank[j] > rank[i]
        PROVE  <<i, j>> \notin ThenBy(first, rest)
    BY <2>1, <1>2 DEF ThenBy, WeakOrder
  <2> QED
    BY <1>1, <2>1 DEF GoesDown
<1>3. ASSUME f.sort = "hot"
      PROVE  GoesDown(ServerOrder(f, shuffle), rank)
  <2>1. \A i, j \in Rows : rank[j] > rank[i] => <<j, i>> \in ServerAhead(f)
    BY <1>3 DEF RankOf, ServerAhead
  <2>2. WeakOrder(ServerAhead(f))
    BY RowsHaveNumbers DEF ServerAhead, WeakOrder
  <2> QED
    BY <1>2, <2>1, <2>2 DEF ServerOrder
<1>4. GoesDown(BrowserOrder(f, shuffle), rank)
  <2>1. \A i, j \in Rows : rank[j] > rank[i] => <<j, i>> \in BrowserAhead(f)
    BY DEF RankOf, BrowserAhead
  <2>2. WeakOrder(BrowserAhead(f))
    BY BrowserIsWeak
  <2> QED
    BY <1>2, <2>1, <2>2 DEF BrowserOrder
<1> QED
  BY <1>3, <1>4

LEMMA AnswersHaveForm ==
  ASSUME NEW f \in RowFilters, NEW shuffle \in Shuffles
  PROVE  \E kept, order, p : AnswerForm(ListActivities(f, shuffle), f, kept, order, p)
<1> DEFINE served == ServerRows(f)
           found == PlacesIn(served, ServerOrder(f, shuffle))
<1>1. f.page \in PageNumbers /\ 1 \in PageNumbers
  BY ListingAssumption DEF RowFilters, PageNumbers
<1>2. CASE NeedsRefine(f)
  <2> DEFINE given == DOMAIN Slice(found, 1, RefineRows)
             refined == FilterActivities(given, f)
  <2>1. given \subseteq served
    BY DEF Slice, PlacesIn
  <2>2. refined \subseteq Wanted(f)
    BY <2>1, WantedAreRows
  <2>3. ASSUME Cardinality(served) <= RefineRows
        PROVE  given = served
    <3>1. found \in Bijection(served, 1..Cardinality(served))
      <4>1. served \subseteq Rows /\ TotalOrder(ServerOrder(f, shuffle))
        BY WantedAreRows, ServerHasOrder
      <4> QED
        BY <4>1, PlacesOfRows
    <3>2. Cardinality(served) \in Nat
      BY WantedAreRows, RowsAreFinite
    <3>3. found \in [served -> 1..Cardinality(served)]
      BY <3>1 DEF Bijection, Injection
    <3>4. RefineRows \in Nat
      BY ListingAssumption
    <3>5. 1 # NaN
      BY ListingAssumption
    <3> HIDE DEF found, served
    <3>6. (1 - 1) * RefineRows = 0 /\ 1 * RefineRows = RefineRows
      BY <3>4
    <3>7. \A i \in served : 0 < found[i] /\ found[i] <= RefineRows
      BY <2>3, <3>2, <3>3, <3>4
    <3>8. given = {i \in served : 0 < found[i] /\ found[i] <= RefineRows}
      BY <3>3, <3>4, <3>5, <3>6 DEF Slice
    <3> QED
      BY <3>7, <3>8
  <2>4. GivenAll(f) => refined = Wanted(f)
    BY <1>2, <2>3, WantedAreRows DEF GivenAll
  <2>5. ListActivities(f, shuffle) =
          [items |-> Slice(PlacesIn(refined, BrowserOrder(f, shuffle)), f.page, PageSize),
           total |-> Cardinality(refined)]
    BY <1>2 DEF ListActivities
  <2>6. /\ TotalOrder(BrowserOrder(f, shuffle))
        /\ GoesDown(BrowserOrder(f, shuffle), RankOf(f))
    BY BrowserHasOrder, OrdersGoDown
  <2> HIDE DEF refined
  <2>7. AnswerForm(ListActivities(f, shuffle), f, refined, BrowserOrder(f, shuffle), f.page)
    BY <1>1, <2>2, <2>4, <2>5, <2>6 DEF AnswerForm
  <2> QED
    BY <2>7
<1>3. CASE ~NeedsRefine(f)
  <2> DEFINE p == IF f.page = NaN \/ f.page < 1 THEN 1 ELSE f.page
  <2>1. f.region = "ALL" /\ f.sort = "hot"
    BY <1>3 DEF NeedsRefine, RowFilters
  <2>2. served = Wanted(f)
    BY <2>1 DEF Wanted, ServerRows, FilterActivities, MatchesRegion
  <2>3. ListActivities(f, shuffle) =
          [items |-> Slice(found, p, PageSize), total |-> Cardinality(served)]
    BY <1>3 DEF ListActivities, ServerSlice
  <2>4. p \in PageNumbers /\ (f.page # NaN /\ f.page > 0 => p = f.page)
    <3>1. f.page # NaN => f.page \in Int
      BY <1>1 DEF PageNumbers
    <3>2. f.page # NaN /\ f.page > 0 => ~(f.page < 1)
      BY <3>1
    <3> QED
      BY <1>1, <3>2
  <2>5. /\ TotalOrder(ServerOrder(f, shuffle))
        /\ GoesDown(ServerOrder(f, shuffle), RankOf(f))
    BY <2>1, ServerHasOrder, OrdersGoDown
  <2> HIDE DEF p, served
  <2>6. AnswerForm(ListActivities(f, shuffle), f, served, ServerOrder(f, shuffle), p)
    BY <2>2, <2>3, <2>4, <2>5 DEF AnswerForm
  <2> QED
    BY <2>6
<1> QED
  BY <1>2, <1>3

(* Every answer has the shape of a page, however the page was asked for.   *)
PageShape(items, total) ==
  /\ total \in 0..Len(Catalogue)
  /\ Cardinality(DOMAIN items) <= Least(PageSize, total)

LEMMA AnswersHaveShape ==
  ASSUME NEW f \in RowFilters, NEW shuffle \in Shuffles
  PROVE  PageShape(ListActivities(f, shuffle).items, ListActivities(f, shuffle).total)
<1> DEFINE answer == ListActivities(f, shuffle)
<1>1. PICK kept, order, p : AnswerForm(answer, f, kept, order, p)
  BY AnswersHaveForm
<1>2. kept \subseteq Rows
  BY <1>1, WantedAreRows DEF AnswerForm
<1>3. PlacesIn(kept, order) \in Injection(kept, 1..Cardinality(kept))
  BY <1>1, <1>2, PlacesOfRows DEF AnswerForm, Bijection
<1> DEFINE shown == DOMAIN Slice(PlacesIn(kept, order), p, PageSize)
<1>4. PageSize \in Nat \ {0} /\ p \in PageNumbers
  BY <1>1, ListingAssumption DEF AnswerForm
<1>5. /\ Cardinality(shown) \in Nat /\ Cardinality(shown) <= PageSize
      /\ Cardinality(shown) <= Cardinality(kept)
  BY <1>2, <1>3, <1>4, PageOfRows
<1>6. Cardinality(kept) \in Nat /\ Cardinality(kept) <= Len(Catalogue) /\ Len(Catalogue) \in Nat
  BY <1>2, RowsAreFinite, ListingAssumption
<1>7. answer.items = Slice(PlacesIn(kept, order), p, PageSize) /\ answer.total = Cardinality(kept)
  BY <1>1 DEF AnswerForm
<1> HIDE DEF shown, answer
<1>8. Cardinality(shown) <= Least(PageSize, Cardinality(kept))
  BY <1>4, <1>5 DEF Least
<1>9. Cardinality(kept) \in 0..Len(Catalogue)
  BY <1>6
<1> QED
  BY <1>7, <1>8, <1>9 DEF PageShape, shown, answer

(* What ListMatchesAddress says of an answer, whether it is shown or not.  *)
Matches(items, total, f) ==
  LET wanted == Wanted(f)
      shown == DOMAIN items
      rank == RankOf(f)
  IN  /\ shown \subseteq wanted /\ total <= Cardinality(wanted)
      /\ GivenAll(f) =>
           /\ total = Cardinality(wanted)
           /\ f.page # NaN /\ f.page > 0 =>
                /\ {items[i] : i \in shown}
                     = {n \in 1..total : (f.page - 1) * PageSize < n /\ n <= f.page * PageSize}
                /\ \A i, j \in shown : items[i] = items[j] => i = j
                /\ \A i \in shown :
                     /\ Cardinality(Above(wanted, rank, i)) < items[i]
                     /\ items[i] <= Cardinality(NotBelow(wanted, rank, i))

LEMMA AnswersMatch ==
  ASSUME NEW f \in RowFilters, NEW shuffle \in Shuffles
  PROVE  Matches(ListActivities(f, shuffle).items, ListActivities(f, shuffle).total, f)
<1> DEFINE answer == ListActivities(f, shuffle)
           wanted == Wanted(f)
           rank == RankOf(f)
<1>1. PICK kept, order, p : AnswerForm(answer, f, kept, order, p)
  BY AnswersHaveForm
<1> DEFINE places == PlacesIn(kept, order)
           items == Slice(places, p, PageSize)
<1>2. /\ answer.items = items /\ answer.total = Cardinality(kept)
      /\ kept \subseteq wanted /\ (GivenAll(f) => kept = wanted)
      /\ TotalOrder(order) /\ GoesDown(order, rank)
      /\ f.page # NaN /\ f.page > 0 => p = f.page
  BY <1>1 DEF AnswerForm
<1>3. wanted \subseteq Rows /\ kept \subseteq Rows
  BY <1>2, WantedAreRows
<1>4. DOMAIN items \subseteq kept
  BY DEF Slice, PlacesIn
<1>5. Cardinality(kept) <= Cardinality(wanted)
  <2>1. kept \in SUBSET wanted /\ IsFiniteSet(wanted)
    BY <1>2, <1>3, RowsAreFinite
  <2> QED
    BY <2>1, FS_Subset
<1>6. ASSUME GivenAll(f), f.page # NaN, f.page > 0
      PROVE  /\ {items[i] : i \in DOMAIN items}
                  = {n \in 1..Cardinality(kept) :
                       (f.page - 1) * PageSize < n /\ n <= f.page * PageSize}
             /\ \A i, j \in DOMAIN items : items[i] = items[j] => i = j
             /\ \A i \in DOMAIN items :
                  /\ Cardinality(Above(wanted, rank, i)) < items[i]
                  /\ items[i] <= Cardinality(NotBelow(wanted, rank, i))
  <2>1. p = f.page /\ kept = wanted
    BY <1>6, <1>2
  <2>2. p \in Nat \ {0} /\ PageSize \in Nat \ {0}
    <3>1. f.page \in Int
      BY <1>6 DEF RowFilters, PageNumbers
    <3>2. f.page \in Nat \ {0}
      BY <1>6, <3>1
    <3> QED
      BY <3>2, <2>1, ListingAssumption
  <2>3. DOMAIN places = kept
    BY DEF PlacesIn
  <2> DEFINE OnPage(n) == (p - 1) * PageSize < n /\ n <= p * PageSize
  <2>4. /\ \A i : i \in DOMAIN items <=> i \in kept /\ OnPage(places[i])
        /\ \A i \in DOMAIN items : items[i] = places[i]
    <3> HIDE DEF places
    <3> QED
      BY <2>2, <2>3, NumberedPage
  <2>5. places \in Bijection(kept, 1..Cardinality(kept))
    BY <1>2, <1>3, PlacesOfRows
  <2>6. /\ \A i, j \in kept : places[i] = places[j] => i = j
        /\ \A i \in kept : places[i] \in 1..Cardinality(kept)
        /\ \A n \in 1..Cardinality(kept) : \E i \in kept : places[i] = n
    BY <2>5 DEF Bijection, Injection, Surjection, IsInjective
  <2>7. ASSUME NEW i \in kept
        PROVE  /\ Cardinality(Above(kept, rank, i)) < places[i]
               /\ places[i] <= Cardinality(NotBelow(kept, rank, i))
    <3>1. /\ kept \subseteq Rows /\ TotalOrder(order) /\ GoesDown(order, rank) /\ i \in kept
      BY <1>2, <1>3, <2>7
    <3> HIDE DEF rank
    <3> QED
      BY <3>1, PlacesGoDown
  <2> HIDE DEF items, places, OnPage, rank, wanted
  <2>8. DOMAIN items = {j \in kept : OnPage(places[j])}
        /\ \A i \in DOMAIN items : items[i] = places[i]
    BY <2>4
  <2>9. {items[i] : i \in DOMAIN items} = {n \in 1..Cardinality(kept) : OnPage(n)}
    BY <2>6, <2>8
  <2>10. \A i, j \in DOMAIN items : items[i] = items[j] => i = j
    BY <2>6, <2>8
  <2>11. \A i \in DOMAIN items :
           /\ Cardinality(Above(wanted, rank, i)) < items[i]
           /\ items[i] <= Cardinality(NotBelow(wanted, rank, i))
    BY <2>1, <2>7, <2>8
  <2> QED
    BY <2>1, <2>9, <2>10, <2>11 DEF OnPage
<1> HIDE DEF answer, items, wanted, rank
<1>7. DOMAIN items \subseteq wanted
  BY <1>2, <1>4
<1> QED
  BY <1>2, <1>5, <1>6, <1>7 DEF Matches, answer, wanted, rank
-------------------------------------------------------------------------------
(* Home and its map.                                                       *)

AtlasShape == [china : BOOLEAN, error : BOOLEAN, busy : Regions \cup {"none"},
               drill : Regions \cup {"none"}, known : SUBSET Regions]
Fetch == [of : Regions \cup {"china"}, here : BOOLEAN]
HomeShape ==
  /\ home \in [loading : BOOLEAN, banner : 1..Banners] /\ atlas \in AtlasShape
  /\ registered \subseteq Regions \cup {"china"} /\ fetches \subseteq Fetch

(* A map is registered before it is known, and known before it is drawn.   *)
MapsKnown ==
  /\ atlas.known \subseteq registered
  /\ atlas.china => "china" \in registered
  /\ atlas.drill # "none" => atlas.drill \in atlas.known

HomeInductive == HomeShape /\ MapsKnown

LEMMA FetchesStayFetches ==
  /\ \A f \in Fetch : [f EXCEPT !.here = FALSE] \in Fetch
  /\ \A p \in Regions \cup {"china"} : [of |-> p, here |-> TRUE] \in Fetch
BY DEF Fetch

LEMMA FreshHome ==
  /\ NoHome \in [loading : BOOLEAN, banner : 1..Banners]
  /\ NoAtlas \in AtlasShape
<1>1. 1 \in 1..Banners
  BY ListingAssumption
<1> QED
  BY <1>1 DEF NoHome, NoAtlas, AtlasShape

LEMMA FirstHome == ListingInit => HomeInductive
<1> SUFFICES ASSUME ListingInit PROVE HomeInductive
  OBVIOUS
<1>1. HomeShape
  BY FreshHome DEF ListingInit, HomeShape
<1>2. MapsKnown
  BY DEF ListingInit, MapsKnown, NoAtlas
<1> QED
  BY <1>1, <1>2 DEF HomeInductive

LEMMA VisitKeepsHome ==
  ASSUME HomeInductive, NEW to, NEW u, Visit(to, u)
  PROVE  HomeInductive'
<1>1. home' = NoHome /\ atlas' = NoAtlas /\ registered' = registered
  BY DEF Visit
<1>2. fetches' \subseteq Fetch
  <2>1. Gone \subseteq Fetch
    BY FetchesStayFetches DEF Gone, HomeInductive, HomeShape
  <2> QED
    BY <2>1, FetchesStayFetches DEF Visit
<1>3. HomeShape'
  BY <1>1, <1>2, FreshHome DEF HomeShape, HomeInductive
<1>4. MapsKnown'
  BY <1>1 DEF MapsKnown, NoAtlas
<1> QED
  BY <1>3, <1>4 DEF HomeInductive

LEMMA HomeStep == HomeInductive /\ [ListingNext]_listingVars => HomeInductive'
<1> SUFFICES ASSUME HomeInductive, [ListingNext]_listingVars PROVE HomeInductive'
  OBVIOUS
<1>1. /\ home \in [loading : BOOLEAN, banner : 1..Banners] /\ atlas \in AtlasShape
      /\ registered \subseteq Regions \cup {"china"} /\ fetches \subseteq Fetch
      /\ MapsKnown
  BY DEF HomeInductive, HomeShape
<1>2. SUFFICES /\ home' \in [loading : BOOLEAN, banner : 1..Banners] /\ atlas' \in AtlasShape
               /\ registered' \subseteq Regions \cup {"china"} /\ fetches' \subseteq Fetch
               /\ MapsKnown'
  BY DEF HomeInductive, HomeShape
<1>3. CASE GoHome \/ GoAway \/ ClickCity \/ \E u \in KnownUrls : GoToList(u)
  <2>1. HomeInductive'
    BY <1>3, VisitKeepsHome DEF GoHome, GoAway, GoToList, ClickCity
  <2> QED
    BY <2>1 DEF HomeInductive, HomeShape
<1>4. CASE \/ ByHand \/ (\E f : ListFailed(f)) \/ (\E f, answer : ListArrived(f, answer))
           \/ UNCHANGED listingVars
  <2>1. UNCHANGED <<home, atlas, registered, fetches>>
    BY <1>4
       DEF ByHand, ChooseCity, ChooseSort, HandleSubmit, ChoosePage, SearchFor, Search,
           LanguageOfList, ListFailed, ListArrived, listingVars
  <2> QED
    BY <1>1, <2>1 DEF MapsKnown
<1>5. CASE HomeArrived \/ TurnBanner(NextBanner) \/ \E b \in 1..Banners : TurnBanner(b)
  <2>1. UNCHANGED <<atlas, registered, fetches>>
    BY <1>5 DEF HomeArrived, TurnBanner
  <2>2. NextBanner \in 1..Banners
    BY <1>1, ListingAssumption DEF NextBanner
  <2>3. home' \in [loading : BOOLEAN, banner : 1..Banners]
    BY <1>1, <1>5, <2>2 DEF HomeArrived, TurnBanner
  <2> QED
    BY <1>1, <2>1, <2>3 DEF MapsKnown
<1>6. CASE LanguageOfAtlas
  <2>1. fetches' \subseteq Fetch
    BY <1>1, <1>6, FetchesStayFetches DEF LanguageOfAtlas
  <2>2. UNCHANGED <<home, atlas, registered>>
    BY <1>6 DEF LanguageOfAtlas, InAtlas
  <2> QED
    BY <1>1, <2>1, <2>2 DEF MapsKnown
<1>7. CASE BackToCountry
  <2>1. UNCHANGED <<home, registered, fetches>> /\ atlas' = [atlas EXCEPT !.drill = "none"]
    BY <1>7 DEF BackToCountry, InAtlas
  <2> QED
    BY <1>1, <2>1 DEF MapsKnown, AtlasShape
<1>8. CASE \E p \in Regions : ClickProvince(p)
  <2>1. PICK p \in Regions : ClickProvince(p)
    BY <1>8
  <2>2. UNCHANGED <<home, registered>> /\ fetches' \subseteq Fetch
    BY <1>1, <2>1, FetchesStayFetches DEF ClickProvince, InAtlas
  <2>3. CASE p \in atlas.known
    <3>1. atlas' = [atlas EXCEPT !.drill = p]
      BY <2>1, <2>3 DEF ClickProvince
    <3> QED
      BY <1>1, <2>2, <2>3, <3>1 DEF MapsKnown, AtlasShape
  <2>4. CASE p \notin atlas.known
    <3>1. atlas' = [atlas EXCEPT !.busy = p]
      BY <2>1, <2>4 DEF ClickProvince
    <3> QED
      BY <1>1, <2>2, <3>1 DEF MapsKnown, AtlasShape
  <2> QED
    BY <2>3, <2>4
<1>9. CASE \E f \in fetches : ChinaArrived(f)
  <2>1. PICK f \in fetches : ChinaArrived(f)
    BY <1>9
  <2>2. /\ UNCHANGED home /\ fetches' \subseteq Fetch
        /\ registered' = registered \cup {"china"}
        /\ atlas' = IF f.here THEN [atlas EXCEPT !.china = TRUE] ELSE atlas
    BY <1>1, <2>1 DEF ChinaArrived, InAtlas
  <2> QED
    BY <1>1, <2>2 DEF MapsKnown, AtlasShape
<1>10. CASE \E f \in fetches : ProvinceArrived(f)
  <2>1. PICK f \in fetches : ProvinceArrived(f)
    BY <1>10
  <2>2. /\ UNCHANGED home /\ fetches' \subseteq Fetch /\ f.of \in Regions
        /\ registered' = registered \cup {f.of}
    BY <1>1, <2>1 DEF ProvinceArrived, InAtlas
  <2>3. CASE ~f.here
    <3>1. atlas' = atlas
      BY <2>1, <2>3 DEF ProvinceArrived
    <3> QED
      BY <1>1, <2>2, <3>1 DEF MapsKnown
  <2>4. CASE f.here
    <3>1. atlas' = [atlas EXCEPT !.known = @ \cup {f.of}, !.drill = f.of, !.busy = "none"]
      BY <2>1, <2>4 DEF ProvinceArrived
    <3>2. /\ atlas'.china = atlas.china /\ atlas'.drill = f.of
          /\ atlas'.known = atlas.known \cup {f.of}
      BY <1>1, <3>1 DEF AtlasShape
    <3>3. atlas' \in AtlasShape
      BY <1>1, <2>2, <3>1 DEF AtlasShape
    <3> QED
      BY <1>1, <2>2, <3>2, <3>3 DEF MapsKnown
  <2> QED
    BY <2>3, <2>4
<1>11. CASE \E f \in fetches : MapFailed(f)
  <2>1. PICK f \in fetches : MapFailed(f)
    BY <1>11
  <2>2. UNCHANGED <<home, registered>> /\ fetches' \subseteq Fetch
    BY <1>1, <2>1 DEF MapFailed, InAtlas
  <2>3. CASE ~f.here
    <3>1. atlas' = atlas
      BY <2>1, <2>3 DEF MapFailed
    <3> QED
      BY <1>1, <2>2, <3>1 DEF MapsKnown
  <2>4. CASE f.here
    <3>1. PICK b \in Regions \cup {"none"} : atlas' = [atlas EXCEPT !.error = TRUE, !.busy = b]
      BY <1>1, <2>1, <2>4 DEF MapFailed, AtlasShape
    <3>2. /\ atlas'.china = atlas.china /\ atlas'.drill = atlas.drill
          /\ atlas'.known = atlas.known /\ atlas' \in AtlasShape
      BY <1>1, <3>1 DEF AtlasShape
    <3> QED
      BY <1>1, <2>2, <3>2 DEF MapsKnown
  <2> QED
    BY <2>3, <2>4
<1> QED
  BY <1>3, <1>4, <1>5, <1>6, <1>7, <1>8, <1>9, <1>10, <1>11 DEF ListingNext, OnList, OnHome
-------------------------------------------------------------------------------
(* The list.                                                               *)

ListShape ==
  /\ list = [loading |-> list.loading, error |-> list.error, items |-> list.items,
             total |-> list.total]
  /\ list.loading \in BOOLEAN /\ list.error \in BOOLEAN
  /\ PageShape(list.items, list.total)

(* Requests under way were asked for the filters of the address as it is,  *)
(* and a list that is shown is an answer to them.                          *)
ListInductive ==
  /\ page \in {"home", "list", "other"} /\ url \in Urls /\ city \in Regions \cup {"ALL"}
  /\ ListShape
  /\ asked \subseteq {Filters} /\ (asked # {} => page = "list" /\ list.loading)
  /\ page # "list" => list.loading
  /\ page = "list" /\ ~list.loading /\ ~list.error =>
       \E s \in Shuffles : /\ list.items = ListActivities(Filters, s).items
                          /\ list.total = ListActivities(Filters, s).total

LEMMA FirstIsAPage == 1 \in PageNumbers
BY ListingAssumption DEF PageNumbers

LEMMA UrlsAreRecords ==
  Urls = [region : Regions \cup {"none"}, keyword : BOOLEAN, sort : {"relevance", "hot"},
          page : PageNumbers]
<1> DEFINE R == [region : Regions \cup {"none"}, keyword : BOOLEAN,
                 sort : {"relevance", "hot"}, page : PageNumbers]
<1>1. ASSUME NEW x \in Urls PROVE x \in R
  BY DEF Urls, Url
<1>2. ASSUME NEW x \in R PROVE x \in Urls
  <2>1. x = Url(x.region, x.keyword, x.sort, x.page)
    BY DEF Url
  <2>2. /\ x.region \in Regions \cup {"none"} /\ x.keyword \in BOOLEAN
        /\ x.sort \in {"relevance", "hot"} /\ x.page \in PageNumbers
    OBVIOUS
  <2> QED
    BY <2>1, <2>2 DEF Urls
<1> QED
  BY <1>1, <1>2

LEMMA FiltersHaveShape ==
  ASSUME NEW u \in Urls, city \in Regions \cup {"ALL"}
  PROVE  ReadParams(u) \in RowFilters
BY UrlsAreRecords DEF ReadParams, RowFilters

LEMMA ParamsAreUrls ==
  ASSUME NEW f \in RowFilters
  PROVE  /\ \A r \in Regions \cup {"ALL"} :
              WithParams([f EXCEPT !.region = r, !.page = 1]) \in Urls
         /\ \A s \in {"relevance", "hot"} :
              WithParams([f EXCEPT !.sort = s, !.page = 1]) \in Urls
         /\ \A k \in BOOLEAN : WithParams([f EXCEPT !.keyword = k, !.page = 1]) \in Urls
         /\ \A p \in PageNumbers : WithParams([f EXCEPT !.page = p]) \in Urls
<1>1. 1 \in PageNumbers
  BY FirstIsAPage
<1>2. ASSUME NEW g \in RowFilters
      PROVE  WithParams(g) \in Urls
  <2>1. ToPage(g.page) \in PageNumbers
    BY <1>1 DEF RowFilters, ToPage
  <2>2. WithParams(g).page = ToPage(g.page)
    BY DEF RowFilters, WithParams
  <2> QED
    BY <2>1, UrlsAreRecords DEF RowFilters, WithParams
<1> QED
  BY <1>1, <1>2 DEF RowFilters

LEMMA EmptyPage == PageShape(<<>>, 0)
<1>1. DOMAIN <<>> = {}
  OBVIOUS
<1>2. Cardinality({}) = 0
  BY FS_EmptySet
<1>3. Len(Catalogue) \in Nat /\ PageSize \in Nat
  BY ListingAssumption
<1>4. Least(PageSize, 0) = 0
  BY <1>3 DEF Least
<1> QED
  BY <1>1, <1>2, <1>3, <1>4 DEF PageShape

LEMMA FirstList == ListingInit => ListInductive
<1> SUFFICES ASSUME ListingInit PROVE ListInductive
  OBVIOUS
<1>1. NoUrl \in Urls
  BY FirstIsAPage, UrlsAreRecords DEF NoUrl, Url
<1>2. ListShape
  BY EmptyPage DEF ListShape, ListingInit, NoList
<1> QED
  BY <1>1, <1>2 DEF ListingInit, ListInductive, NoList

LEMMA LoadingKeepsShape ==
  ASSUME ListShape, NEW f, LoadList(f)
  PROVE  ListShape' /\ list'.loading = TRUE
BY DEF ListShape, LoadList, PageShape

LEMMA OtherKeepsList ==
  ASSUME ListInductive, UNCHANGED <<page, url, city, list, asked>>
  PROVE  ListInductive'
<1>1. Filters' = Filters
  BY DEF Filters, ReadParams
<1>2. \A f, knows : ListActivities(f, knows)' = ListActivities(f, knows)
  OBVIOUS
<1> QED
  BY <1>1, <1>2 DEF ListInductive, ListShape, PageShape

LEMMA SearchKeepsList ==
  ASSUME ListInductive, NEW u, u \in Urls, city' \in Regions \cup {"ALL"}, Search(u)
  PROVE  ListInductive'
<1>1. page = "list" /\ page' = "list" /\ url' = u /\ ReadParams(u)' = Filters'
  BY DEF Search, Filters, ReadParams
<1>2. CASE url' = url /\ city' = city
  <2>1. UNCHANGED <<list, asked, page, url, city>>
    BY <1>1, <1>2 DEF Search
  <2> QED
    BY <2>1, OtherKeepsList
<1>3. CASE ~(url' = url /\ city' = city)
  <2>1. LoadList(ReadParams(u)')
    BY <1>3 DEF Search
  <2>2. ListShape' /\ list'.loading = TRUE
    BY <2>1, LoadingKeepsShape DEF ListInductive
  <2>3. asked' = {Filters'}
    BY <1>1, <2>1 DEF LoadList
  <2> QED
    BY <1>1, <2>2, <2>3 DEF ListInductive
<1> QED
  BY <1>2, <1>3

LEMMA VisitKeepsList ==
  ASSUME ListInductive, NEW to \in {"home", "list", "other"}, NEW u \in Urls, Visit(to, u)
  PROVE  ListInductive'
<1>1. /\ page' = to /\ url' = u /\ city' = city /\ list' = NoList
      /\ asked' = IF to = "list" THEN {ReadParams(u)} ELSE {}
  BY DEF Visit
<1>2. Filters' = ReadParams(u)
  BY <1>1 DEF Filters, ReadParams
<1>3. ListShape' /\ list'.loading = TRUE
  BY <1>1, EmptyPage DEF ListShape, NoList, PageShape
<1> QED
  BY <1>1, <1>2, <1>3 DEF ListInductive

LEMMA ListStep == ListInductive /\ HomeInductive /\ [ListingNext]_listingVars => ListInductive'
<1> SUFFICES ASSUME ListInductive, HomeInductive, [ListingNext]_listingVars PROVE ListInductive'
  OBVIOUS
<1>1. city \in Regions \cup {"ALL"} /\ url \in Urls
  BY DEF ListInductive
<1>2. Filters \in RowFilters
  BY <1>1, FiltersHaveShape DEF Filters
<1>3. /\ Filters.region \in Regions \cup {"ALL"} /\ Filters.keyword \in BOOLEAN
      /\ Filters.sort \in {"relevance", "hot"} /\ Filters.page \in PageNumbers
  BY <1>2 DEF RowFilters
<1>4. KnownUrls \subseteq Urls /\ NoUrl \in KnownUrls
  <2>1. 1 \in PageNumbers /\ MaxPage \in PageNumbers /\ NaN \in PageNumbers
        /\ -1 \in PageNumbers
    BY ListingAssumption DEF PageNumbers
  <2> QED
    BY <2>1, UrlsAreRecords DEF KnownUrls, NoUrl, Url
<1>5. CASE \E r \in Regions \cup {"ALL"} : ChooseCity(r)
  <2>1. PICK r \in Regions \cup {"ALL"} : ChooseCity(r)
    BY <1>5
  <2>2. WithParams([Filters EXCEPT !.region = r, !.page = 1]) \in Urls
    BY <1>2, ParamsAreUrls
  <2> QED
    BY <2>1, <2>2, SearchKeepsList DEF ChooseCity
<1>6. CASE \E s \in {"relevance", "hot"} : ChooseSort(s)
  <2>1. PICK s \in {"relevance", "hot"} : ChooseSort(s)
    BY <1>6
  <2>2. WithParams([Filters EXCEPT !.sort = s, !.page = 1]) \in Urls
    BY <1>2, ParamsAreUrls
  <2> QED
    BY <2>1, <2>2, <1>1, SearchKeepsList DEF ChooseSort
<1>7. CASE \E k \in BOOLEAN : HandleSubmit(k)
  <2>1. PICK k \in BOOLEAN : HandleSubmit(k)
    BY <1>7
  <2>2. WithParams([Filters EXCEPT !.keyword = k, !.page = 1]) \in Urls
    BY <1>2, ParamsAreUrls
  <2> QED
    BY <2>1, <2>2, <1>1, SearchKeepsList DEF HandleSubmit
<1>8. CASE \E p \in PageNumbers : ChoosePage(p)
  <2>1. PICK p \in PageNumbers : ChoosePage(p)
    BY <1>8
  <2>2. WithParams([Filters EXCEPT !.page = p]) \in Urls
    BY <1>2, ParamsAreUrls
  <2> QED
    BY <2>1, <2>2, <1>1, SearchKeepsList DEF ChoosePage
<1>9. CASE \E u \in KnownUrls : SearchFor(u)
  BY <1>9, <1>1, <1>4, SearchKeepsList DEF SearchFor
<1>10. CASE LanguageOfList
  <2>1. /\ LoadList(Filters) /\ UNCHANGED <<page, url, city>> /\ page = "list"
    BY <1>10 DEF LanguageOfList
  <2>2. Filters' = Filters
    BY <2>1 DEF Filters, ReadParams
  <2>3. ListShape' /\ list'.loading = TRUE /\ asked' = {Filters}
    BY <2>1, LoadingKeepsShape DEF ListInductive, LoadList
  <2> QED
    BY <2>1, <2>2, <2>3 DEF ListInductive
<1>11. CASE \E f \in asked : ListFailed(f)
  <2>1. PICK f \in asked : ListFailed(f)
    BY <1>11
  <2>2. /\ UNCHANGED <<page, url, city>> /\ asked' = {}
        /\ list' = [loading |-> FALSE, error |-> TRUE, items |-> <<>>, total |-> 0]
    BY <2>1 DEF ListFailed, ListInductive
  <2>3. ListShape' /\ list'.error = TRUE
    BY <2>2, EmptyPage DEF ListShape, PageShape
  <2> QED
    BY <2>2, <2>3 DEF ListInductive
<1>12. CASE \E f \in asked, s \in Shuffles : ListArrived(f, ListActivities(f, s))
  <2>1. PICK f \in asked, s \in Shuffles : ListArrived(f, ListActivities(f, s))
    BY <1>12
  <2> DEFINE answer == ListActivities(Filters, s)
  <2>2. f = Filters
    BY DEF ListInductive
  <2>3. /\ UNCHANGED <<page, url, city>> /\ asked' = {}
        /\ list' = [loading |-> FALSE, error |-> FALSE, items |-> answer.items, total |-> answer.total]
    BY <2>1, <2>2 DEF ListArrived, ListInductive
  <2>4. PageShape(answer.items, answer.total)
    BY <1>2, AnswersHaveShape
  <2>5. Filters' = Filters
    BY <2>3 DEF Filters, ReadParams
  <2> HIDE DEF answer
  <2>6. /\ ListShape' /\ list'.loading = FALSE
        /\ list'.items = answer.items /\ list'.total = answer.total
    BY <2>3, <2>4 DEF ListShape, PageShape
  <2>7. \E k \in Shuffles : /\ list'.items = ListActivities(Filters', k).items
                            /\ list'.total = ListActivities(Filters', k).total
    BY <2>5, <2>6 DEF answer
  <2> QED
    BY <2>3, <2>6, <2>7 DEF ListInductive
<1>13. CASE GoHome \/ GoAway \/ ClickCity \/ \E u \in KnownUrls : GoToList(u)
  <2>1. CASE ClickCity
    <3>1. Visit("list", Url(atlas.drill, FALSE, "hot", 1))
      BY <2>1 DEF ClickCity
    <3>2. atlas.drill \in Regions /\ 1 \in PageNumbers
      BY <2>1, FirstIsAPage DEF ClickCity, HomeInductive, HomeShape, AtlasShape
    <3>3. Url(atlas.drill, FALSE, "hot", 1) \in Urls
      BY <3>2, UrlsAreRecords DEF Url
    <3> QED
      BY <3>1, <3>3, VisitKeepsList
  <2> QED
    BY <1>13, <1>4, <2>1, VisitKeepsList DEF GoHome, GoAway, GoToList
<1>14. CASE \/ HomeArrived \/ (\E b : TurnBanner(b)) \/ LanguageOfAtlas \/ BackToCountry
            \/ (\E p : ClickProvince(p))
            \/ (\E f : ChinaArrived(f) \/ ProvinceArrived(f) \/ MapFailed(f))
            \/ UNCHANGED listingVars
  BY <1>14, OtherKeepsList
     DEF HomeArrived, TurnBanner, LanguageOfAtlas, BackToCountry, ClickProvince, ChinaArrived,
         ProvinceArrived, MapFailed, InAtlas, listingVars
<1> QED
  BY <1>5, <1>6, <1>7, <1>8, <1>9, <1>10, <1>11, <1>12, <1>13, <1>14
     DEF ListingNext, OnList, ByHand, OnHome
-------------------------------------------------------------------------------
(* The theorems.                                                           *)

(* In every reachable state requests are for the filters of the address,   *)
(* lists are answers to them, and maps are drawn after they were stored.   *)
THEOREM ListingPagesInductive == ListingSpec => [](ListInductive /\ HomeInductive)
<1>1. ListingInit => ListInductive /\ HomeInductive
  BY FirstList, FirstHome
<1>2. ListInductive /\ HomeInductive /\ [ListingNext]_listingVars
        => (ListInductive /\ HomeInductive)'
  BY ListStep, HomeStep
<1> QED
  BY <1>1, <1>2, PTL DEF ListingSpec

(* The states of the list and of the home page have the shape the code     *)
(* gives them: never more rows than a page is long, nor than there are.    *)
THEOREM ListingTypeCorrect == ListingSpec => []ListingTypeOK
<1>1. ListInductive /\ HomeInductive => ListingTypeOK
  <2> SUFFICES ASSUME ListInductive, HomeInductive PROVE ListingTypeOK
    OBVIOUS
  <2>1. home.banner \in 1..Banners /\ atlas.known \subseteq registered \cap Regions
    BY DEF HomeInductive, HomeShape, AtlasShape, MapsKnown
  <2> QED
    BY <2>1
       DEF ListInductive, ListShape, PageShape, HomeInductive, HomeShape, Fetch, ListingTypeOK
<1> QED
  BY <1>1, ListingPagesInductive, PTL

(* A list that is shown has rows its filters want, as many as it counts,   *)
(* at the places of its page and in their order, whoever filtered and      *)
(* sorted and however the database broke ties (listActivities).            *)
THEOREM ListsMatchTheirAddress == ListingSpec => []ListMatchesAddress
<1>1. ListInductive => ListMatchesAddress
  <2> SUFFICES ASSUME ListInductive, page = "list", ~list.loading, ~list.error
               PROVE  ListMatchesAddress
    BY DEF ListMatchesAddress
  <2>1. PICK s \in Shuffles : /\ list.items = ListActivities(Filters, s).items
                             /\ list.total = ListActivities(Filters, s).total
    BY DEF ListInductive
  <2>2. Filters \in RowFilters
    BY FiltersHaveShape DEF ListInductive, Filters
  <2>3. Matches(list.items, list.total, Filters)
    BY <2>1, <2>2, AnswersMatch
  <2> DEFINE f == Filters
             rank == RankOf(f)
             Rank(i) == IF f.sort = "hot" THEN Catalogue[i].enrolled ELSE Relevance(i, f)
             wanted == Wanted(f)
  <2>4. wanted \subseteq Rows /\ wanted = FilterActivities(Rows, f)
    BY WantedAreRows DEF Wanted
  <2>5. \A i \in wanted : rank[i] = Rank(i)
    BY <2>4 DEF RankOf
  <2> HIDE DEF rank, Rank, wanted, f
  <2>6. ASSUME NEW i \in wanted
        PROVE  /\ Above(wanted, rank, i) = {j \in wanted : Rank(j) > Rank(i)}
               /\ NotBelow(wanted, rank, i) = {j \in wanted : Rank(j) >= Rank(i)}
    BY <2>5 DEF Above, NotBelow
  <2> DEFINE shown == DOMAIN list.items
  <2>7. shown \subseteq wanted
    BY <2>3 DEF Matches, wanted, f
  <2>8. \A i \in shown :
          /\ Above(wanted, rank, i) = {j \in wanted : Rank(j) > Rank(i)}
          /\ NotBelow(wanted, rank, i) = {j \in wanted : Rank(j) >= Rank(i)}
    BY <2>6, <2>7
  <2>9. /\ list.total <= Cardinality(wanted)
        /\ GivenAll(f) =>
             /\ list.total = Cardinality(wanted)
             /\ f.page # NaN /\ f.page > 0 =>
                  /\ {list.items[i] : i \in shown}
                       = {n \in 1..list.total : (f.page - 1) * PageSize < n /\ n <= f.page * PageSize}
                  /\ \A i, j \in shown : list.items[i] = list.items[j] => i = j
                  /\ \A i \in shown :
                       /\ Cardinality({j \in wanted : Rank(j) > Rank(i)}) < list.items[i]
                       /\ list.items[i] <= Cardinality({j \in wanted : Rank(j) >= Rank(i)})
    BY <2>3, <2>8 DEF Matches, rank, wanted, f
  <2> QED
    BY <2>4, <2>7, <2>9 DEF ListMatchesAddress, GivenAll, Rank, f
<1> QED
  BY <1>1, ListingPagesInductive, PTL

(* A page that shows rows is one of those Pagination counts.               *)
LEMMA ShownPagesExist ==
  ASSUME ListInductive, Listed, Filters.page \in Int, Filters.page > 0
  PROVE  Filters.page <= LastPage
<1> DEFINE f == Filters
<1>1. page = "list" /\ ~list.loading /\ ~list.error
  BY DEF ListInductive, Listed
<1>2. PICK s \in Shuffles : /\ list.items = ListActivities(f, s).items
                           /\ list.total = ListActivities(f, s).total
  BY <1>1 DEF ListInductive
<1>3. f \in RowFilters
  BY FiltersHaveShape DEF ListInductive, Filters
<1>4. PICK kept, order, p : AnswerForm(ListActivities(f, s), f, kept, order, p)
  BY <1>3, AnswersHaveForm
<1> DEFINE places == PlacesIn(kept, order)
<1>5. f.page \in Nat \ {0} /\ f.page # NaN /\ PageSize \in Nat \ {0}
  BY ListingAssumption
<1> HIDE DEF f
<1>6. /\ p = f.page /\ list.items = Slice(places, p, PageSize)
      /\ list.total = Cardinality(kept) /\ kept \subseteq Rows /\ TotalOrder(order)
  BY <1>2, <1>4, <1>5, WantedAreRows DEF AnswerForm
<1>7. places \in [kept -> 1..Cardinality(kept)] /\ Cardinality(kept) \in Nat
  BY <1>6, PlacesOfRows, RowsAreFinite DEF Bijection, Injection
<1>8. PICK i : i \in DOMAIN list.items
  BY DEF Listed
<1> HIDE DEF places
<1>9. i \in kept /\ (p - 1) * PageSize < places[i]
  <2>1. DOMAIN places = kept /\ p \in Nat \ {0} /\ i \in DOMAIN Slice(places, p, PageSize)
    BY <1>5, <1>6, <1>7, <1>8
  <2> QED
    BY <1>5, <2>1, NumberedPage
<1>10. places[i] <= list.total /\ places[i] \in Nat /\ list.total \in Nat
  BY <1>6, <1>7, <1>9
<1>11. p \in Nat \ {0} /\ (p - 1) * PageSize < list.total
  BY <1>5, <1>6, <1>9, <1>10
<1>12. ASSUME NEW n \in Nat, (p - 1) * PageSize < n PROVE p <= (n + PageSize - 1) \div PageSize
  <2> DEFINE a == n + PageSize - 1
             L == a \div PageSize
  <2>1. a \in Nat /\ p * PageSize <= a
    <3>1. p * PageSize = (p - 1) * PageSize + PageSize /\ (p - 1) * PageSize \in Int
      BY <1>5, <1>11
    <3> QED
      BY <3>1, <1>5, <1>12
  <2>2. L \in Nat /\ PageSize * L <= a /\ a < PageSize * L + PageSize
    BY <2>1, <1>5
  <2> HIDE DEF L, a
  <2>3. SUFFICES ASSUME p >= L + 1 PROVE FALSE
    BY <2>2, <1>11 DEF L, a
  <2>4. p * PageSize >= (L + 1) * PageSize
    BY <2>2, <2>3, <1>5, <1>11
  <2>5. (L + 1) * PageSize = PageSize * L + PageSize
    BY <2>2, <1>5
  <2> QED
    BY <2>1, <2>2, <2>4, <2>5, <1>5, <1>11
<1> QED
  BY <1>6, <1>10, <1>11, <1>12 DEF LastPage, f

(* Pagination leads from a page to those beside it, and to none that is    *)
(* not there; where the address has no number, to the first page.          *)
THEOREM PagesAreInReach == ListingSpec => []NothingOutOfReach
<1>1. ListInductive => NothingOutOfReach
  <2> SUFFICES ASSUME ListInductive, Listed, LastPage > 1 PROVE NothingOutOfReach
    BY DEF NothingOutOfReach
  <2> DEFINE here == Filters.page
             last == LastPage
             reached == {ToPage(p) : p \in PagesOffered}
  <2>1. here = NaN \/ here \in Int
    <3>1. Filters \in RowFilters
      BY FiltersHaveShape DEF ListInductive, Filters
    <3> QED
      BY <3>1 DEF RowFilters, PageNumbers
  <2>2. last \in Int /\ last > 1
    <3>1. list.total \in Int
      BY ListingAssumption DEF ListInductive, ListShape, PageShape
    <3> QED
      BY <3>1, ListingAssumption DEF LastPage
  <2>3. Window = IF last <= 5 THEN 1..last
                 ELSE IF here = NaN THEN {NaN}
                 ELSE LET start == Greater(1, Least(here - 2, last - 4))
                      IN  start..(start + 4)
    BY DEF Window, FiveFrom
  <2>4. PagesOffered = Window \cup Beside
    BY DEF PagesOffered
  <2>5. Beside = IF here = NaN THEN {NaN}
                 ELSE {p \in {here - 1} : here > 1} \cup {p \in {here + 1} : here < last}
    BY DEF Beside
  <2>6. NaN \notin Int
    BY ListingAssumption
  <2>9. here \in Int /\ here > 0 => here <= last
    BY ShownPagesExist
  <2> HIDE DEF here, last
  <2>7. CASE here = NaN
    <3>1. \A p \in PagesOffered : p = NaN \/ p \in 1..last
      BY <2>2, <2>3, <2>4, <2>5, <2>7
    <3>2. NaN \in PagesOffered /\ ToPage(NaN) = 1
      BY <2>4, <2>5, <2>7 DEF ToPage
    <3>3. 1 \in reached
      BY <3>2
    <3>4. \A p \in 1..last : ToPage(p) \in 1..last
      BY <2>2, <2>6 DEF ToPage
    <3>5. 1 \in 1..last
      BY <2>2
    <3>6. reached \subseteq 1..last
      BY <3>1, <3>2, <3>4, <3>5
    <3> QED
      BY <3>3, <3>6, <2>7 DEF NothingOutOfReach, here, last
  <2>8. CASE here \in Int
    <3>1. here # NaN
      BY <2>6, <2>8
    <3>2. Window \subseteq 1..last
      BY <2>2, <2>3, <2>8, <3>1 DEF Least, Greater
    <3>3. \A p \in Beside : p \in Int /\ p <= last
      <4>1. here > 1 => here <= last
        BY <2>9, <2>8
      <4>2. TAKE p \in Beside
      <4>3. (p = here - 1 /\ here > 1) \/ (p = here + 1 /\ here < last)
        BY <4>2, <2>5, <3>1
      <4> QED
        BY <4>1, <4>3, <2>2, <2>8
    <3>4. \A p \in Int : p <= last => ToPage(p) \in 1..last
      BY <2>2, <2>6 DEF ToPage
    <3>5. \A p \in PagesOffered : p \in Int /\ p <= last
      BY <2>2, <2>4, <3>2, <3>3
    <3>6. reached \subseteq 1..last
      BY <3>4, <3>5
    <3>7. ASSUME NEW p \in {here - 1, here, here + 1} \cap 1..last
          PROVE  p \in PagesOffered
      <4>1. ASSUME p = here PROVE p \in Window
        BY <4>1, <3>7, <2>2, <2>3, <2>8, <3>1 DEF Least, Greater
      <4>2. ASSUME p = here - 1 PROVE p \in Beside
        BY <4>2, <3>7, <2>2, <2>5, <2>8, <3>1
      <4>3. ASSUME p = here + 1 PROVE p \in Beside
        BY <4>3, <3>7, <2>2, <2>5, <2>8, <3>1
      <4> QED
        BY <3>7, <4>1, <4>2, <4>3, <2>4
    <3>8. ASSUME NEW p \in {here - 1, here, here + 1} \cap 1..last
          PROVE  p \in reached
      <4>1. ToPage(p) = p
        BY <3>8, <2>2, <2>6 DEF ToPage
      <4> QED
        BY <4>1, <3>7
    <3> QED
      BY <3>1, <3>6, <3>8 DEF NothingOutOfReach, here, last
  <2> QED
    BY <2>1, <2>7, <2>8
<1> QED
  BY <1>1, ListingPagesInductive, PTL

(* A map that is drawn is registered with the chart library, and a map of  *)
(* a province was fetched by this component (chartOption, loadProvince).   *)
THEOREM DrawnMapsAreRegistered == ListingSpec => []DrawnMapRegistered
<1>1. HomeInductive => DrawnMapRegistered
  BY DEF HomeInductive, MapsKnown, DrawnMapRegistered, ChartDrawn, ChartMap
<1> QED
  BY <1>1, ListingPagesInductive, PTL

(* As long as an order stays, Pagination cuts it without gaps and without  *)
(* overlaps: each row is on one page, from the first to the last.  Two     *)
(* answers may break ties by different orders: this does not relate them.  *)
THEOREM EveryRowOnOnePage ==
  ASSUME NEW found, found \subseteq Rows, NEW order, TotalOrder(order), NEW i \in found
  PROVE  LET sorted == PlacesIn(found, order)
             last == (Cardinality(found) + PageSize - 1) \div PageSize
         IN  \E p \in 1..last : \A q \in Nat \ {0} :
               i \in DOMAIN Slice(sorted, q, PageSize) <=> q = p
<1> DEFINE sorted == PlacesIn(found, order)
           n == Cardinality(found)
           last == (n + PageSize - 1) \div PageSize
           p == (sorted[i] + PageSize - 1) \div PageSize
<1>1. sorted[i] \in 1..n /\ DOMAIN sorted = found /\ n \in Nat
  <2>1. sorted \in Bijection(found, 1..n)
    BY PlacesOfRows
  <2> QED
    BY <2>1, RowsAreFinite DEF Bijection, Injection
<1>2. PageSize \in Nat \ {0}
  BY ListingAssumption
<1>3. \A a \in Nat : /\ a \div PageSize \in Nat
                    /\ PageSize * (a \div PageSize) <= a
                    /\ a < PageSize * (a \div PageSize) + PageSize
  BY <1>2
<1>4. ASSUME NEW q \in Nat \ {0}
      PROVE  i \in DOMAIN Slice(sorted, q, PageSize) <=>
               (q - 1) * PageSize < sorted[i] /\ sorted[i] <= q * PageSize
  <2> HIDE DEF sorted
  <2> QED
    BY <1>1, <1>2, NumberedPage
<1>5. p \in 1..last
  <2> DEFINE a == sorted[i] + PageSize - 1
             b == n + PageSize - 1
             P == a \div PageSize
             L == b \div PageSize
  <2>1. a \in Nat /\ b \in Nat /\ PageSize <= a /\ a <= b
    BY <1>1, <1>2
  <2>2. /\ P \in Nat /\ PageSize * P <= a /\ a < PageSize * P + PageSize
        /\ L \in Nat /\ PageSize * L <= b /\ b < PageSize * L + PageSize
    BY <2>1, <1>3
  <2> HIDE DEF P, L, a, b
  <2>3. P >= 1
    <3>1. SUFFICES ASSUME P = 0 PROVE FALSE
      BY <2>2
    <3>2. PageSize * P = 0
      BY <3>1, <1>2
    <3> QED
      BY <3>2, <2>1, <2>2, <1>2
  <2>4. P <= L
    <3>1. SUFFICES ASSUME P >= L + 1 PROVE FALSE
      BY <2>2
    <3>2. PageSize * P >= PageSize * (L + 1)
      BY <3>1, <2>2, <1>2
    <3>3. PageSize * (L + 1) = PageSize * L + PageSize
      BY <2>2, <1>2
    <3> QED
      BY <3>2, <3>3, <2>1, <2>2, <1>2
  <2> QED
    BY <2>2, <2>3, <2>4 DEF P, L, a, b
<1>6. \A q \in Nat \ {0} : i \in DOMAIN Slice(sorted, q, PageSize) <=> q = p
  <2> DEFINE a == sorted[i] + PageSize - 1
             P == a \div PageSize
  <2>1. a \in Nat
    BY <1>1, <1>2
  <2>2. P \in Nat /\ PageSize * P <= a /\ a < PageSize * P + PageSize
    BY <2>1, <1>3
  <2>3. p = P
    OBVIOUS
  <2> HIDE DEF P, p
  <2>4. ASSUME NEW q \in Nat \ {0}
        PROVE  /\ (q - 1) * PageSize = PageSize * q - PageSize
               /\ q * PageSize = PageSize * q
    BY <1>2
  <2>5. ASSUME NEW q \in Nat \ {0}, q = P
        PROVE  i \in DOMAIN Slice(sorted, q, PageSize)
    BY <2>5, <2>4, <2>2, <1>1, <1>2, <1>4
  <2>6. ASSUME NEW q \in Nat \ {0}, q # P, i \in DOMAIN Slice(sorted, q, PageSize)
        PROVE  FALSE
    <3>1. PageSize * q < a + 1 /\ a + 1 <= PageSize * q + PageSize
      BY <2>6, <2>4, <1>1, <1>2, <1>4
    <3>2. CASE q >= P + 1
      <4>1. PageSize * q >= PageSize * P + PageSize
        BY <3>2, <2>2, <1>2
      <4> QED
        BY <4>1, <3>1, <2>1, <2>2, <1>2
    <3>3. CASE P >= q + 1
      <4>1. PageSize * P >= PageSize * q + PageSize
        BY <3>3, <2>2, <1>2
      <4> QED
        BY <4>1, <3>1, <2>1, <2>2, <1>2
    <3> QED
      BY <3>2, <3>3, <2>2, <2>6
  <2> QED
    BY <2>3, <2>5, <2>6
<1> QED
  BY <1>5, <1>6
-------------------------------------------------------------------------------
(* The three modules together, as the run over the pages checks them: each *)
(* page waits for the requests its state names, and for no other, whatever *)
(* the catalogue, the activities and the bounds are.                       *)
THEOREM PagesTypeCorrect == Spec => []PagesTypeOK
<1>1. Init => EnrolmentInit /\ ListingInit /\ MerchantInit
  BY DEF Init
<1>2. [Next]_pagesVars => [EnrolmentNext]_enrolmentVars
  BY DEF Next, pagesVars
<1>3. [Next]_pagesVars => [ListingNext]_listingVars
  BY DEF Next, pagesVars
<1>4. [Next]_pagesVars => [MerchantNext]_merchantVars
  BY DEF Next, pagesVars
<1>5. Spec => EnrolmentSpec /\ ListingSpec /\ MerchantSpec
  BY <1>1, <1>2, <1>3, <1>4, PTL DEF Spec, EnrolmentSpec, ListingSpec, MerchantSpec
<1>6. EnrolmentTypeOK /\ ListingTypeOK /\ MerchantTypeOK => PagesTypeOK
  BY DEF PagesTypeOK
<1> QED
  BY <1>5, <1>6, PagesWaitForTheirOwn, ListingTypeCorrect, FormsWaitForTheirOwn, PTL
===============================================================================
