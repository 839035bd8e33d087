----------------------------- MODULE ListingPages -----------------------------
(***************************************************************************)
(* One tab on the public lists: the home page with its banners and its map *)
(* of provinces (Home.tsx, HomeCityAtlas.tsx), and the list of activities, *)
(* whose filters live in the address (PublicActivities.tsx).               *)
(*                                                                         *)
(* listActivities has two ways to a page of rows.  By default the server   *)
(* filters, orders and cuts.  A region, an artist or the order by          *)
(* relevance is beyond it: then the browser takes its first RefineRows     *)
(* rows and does all three itself.  Of the filters, keyword stands for     *)
(* those the server knows (keyword, category) and region for those it does *)
(* not know (region, artist); of the orders, hot for those that both know. *)
(***************************************************************************)
EXTENDS Integers, Sequences, FiniteSets

CONSTANTS Catalogue,   \* the activities: [region, named, enrolled, viewed, created],
                       \* where the keyword is the title, in it, in the text or nowhere
          Shuffles,    \* orders the database may give rows that its own leaves tied
          NaN,         \* what Number() makes of a page that is no number
          Regions,     \* cities, each with a province of the same name
          PageSize,    \* DEFAULT_ACTIVITY_SEARCH.pageSize
          RefineRows,  \* the 80 rows the browser asks for to refine
          Banners,     \* how many banners the carousel turns
          MaxPage,     \* bound: pages an address may name
          Tours        \* bound: whether a behaviour is about the "list" or "home"

ASSUME ListingAssumption ==
  /\ Catalogue \in Seq([region : Regions, named : {"exact", "title", "text", "nowhere"},
                        enrolled : Nat, viewed : Nat, created : Nat])
  /\ Shuffles \subseteq [DOMAIN Catalogue -> Nat] /\ Shuffles # {}
  /\ \A s \in Shuffles : \A i, j \in DOMAIN Catalogue : s[i] = s[j] => i = j
  /\ NaN \notin Int
  /\ "ALL" \notin Regions /\ "china" \notin Regions
  /\ PageSize \in Nat \ {0} /\ RefineRows \in Nat /\ Banners \in Nat \ {0}
  /\ MaxPage \in Nat \ {0}
  /\ Tours \subseteq {"list", "home"}

VARIABLES
  tour,       \* bound: one of Tours
  page,       \* "home", "list" or "other"
  url,        \* the parameters of the list's address
  city,       \* the preferred city, as PublicLayout keeps it
  list,       \* the list: [loading, error, items, total], items mapping
              \* each row shown to its place among all that are wanted
  asked,      \* the filters of the list's requests under way
  home,       \* home: [loading, banner]
  atlas,      \* the map: [china, error, busy, drill, known]
  registered, \* REGISTERED_MAP_KEYS, which outlives every component
  fetches     \* maps under way: [of, here], not here after the atlas is gone

listingVars == <<tour, page, url, city, list, asked, home, atlas, registered, fetches>>

Url(region, keyword, sort, p) ==
  [region |-> region, keyword |-> keyword, sort |-> sort, page |-> p]
NoUrl == Url("none", FALSE, "relevance", 1)
\* A typed page may be none, zero or negative; fractions are left out.
PageNumbers == {NaN} \cup (-MaxPage)..MaxPage
Urls == {Url(r, k, s, p) : r \in Regions \cup {"none"}, k \in BOOLEAN,
                           s \in {"relevance", "hot"}, p \in PageNumbers}

\* readParams: the address, and the preferred city if it names no region.
ReadParams(u) == IF u.region = "none" THEN [u EXCEPT !.region = city] ELSE u
Filters == ReadParams(url)

Least(m, n) == IF m < n THEN m ELSE n
Greater(m, n) == IF m > n THEN m ELSE n
-------------------------------------------------------------------------------
(* The orders of the rows, and pages of them.  Rows are a set of positions *)
(* in Catalogue, an order is a set of pairs of them; it gives each row its *)
(* place, from 1 on, and a page has the rows of its places.                *)

Rows == DOMAIN Catalogue
ThenBy(first, rest) ==
  {p \in Rows \X Rows : p \in first \/ (<<p[2], p[1]>> \notin first /\ p \in rest)}
PlacesIn(rows, order) == [i \in rows |-> Cardinality({j \in rows : <<j, i>> \in order})]

\* What the server orders by; how it returns rows that are equal is open.
ServerAhead(f) ==
  {p \in Rows \X Rows : IF f.sort = "hot" THEN Catalogue[p[1]].enrolled > Catalogue[p[2]].enrolled
                        ELSE Catalogue[p[1]].created > Catalogue[p[2]].created}
ServerOrder(f, shuffle) ==
  ThenBy(ServerAhead(f), {p \in Rows \X Rows : shuffle[p[1]] <= shuffle[p[2]]})

\* computeRelevance, 500 times.  What a region or an artist adds is the same
\* for all rows that match it, and only those are sorted.
Weight == [exact |-> 120, title |-> 90, text |-> 30, nowhere |-> 0]
Relevance(i, f) ==
  500 * (IF f.keyword THEN Weight[Catalogue[i].named] ELSE 0)
  + 5 * Catalogue[i].enrolled + Catalogue[i].viewed
BrowserAhead(f) ==
  {p \in Rows \X Rows :
     LET left == Catalogue[p[1]]
         right == Catalogue[p[2]]
     IN  IF f.sort = "hot"
         THEN left.enrolled > right.enrolled \/ (left.enrolled = right.enrolled /\ left.viewed > right.viewed)
         ELSE Relevance(p[1], f) > Relevance(p[2], f)}
\* sortActivities is stable: rows that are equal stay as the server gave them.
BrowserOrder(f, shuffle) == ThenBy(BrowserAhead(f), ServerOrder(f, shuffle))

\* slice: an end that is negative counts from the end, and no page is empty.
Slice(places, p, size) ==
  LET n == Cardinality(DOMAIN places)
      FromEnd(k) == IF k < 0 THEN n + k ELSE k
      shown == {i \in DOMAIN places : /\ p # NaN
                                      /\ FromEnd((p - 1) * size) < places[i]
                                      /\ places[i] <= FromEnd(p * size)}
  IN  [i \in shown |-> places[i]]
-------------------------------------------------------------------------------
(* listActivities, and the server's answer to it.                          *)

MatchesKeyword(i, f) == f.keyword => Catalogue[i].named # "nowhere"
MatchesRegion(i, f) == f.region # "ALL" => Catalogue[i].region = f.region
FilterActivities(rows, f) == {i \in rows : MatchesKeyword(i, f) /\ MatchesRegion(i, f)}

\* The server reads no region.  A page it cannot read is 0, and that the first.
ServerRows(f) == {i \in Rows : MatchesKeyword(i, f)}
ServerSlice(f, shuffle) ==
  Slice(PlacesIn(ServerRows(f), ServerOrder(f, shuffle)),
        IF f.page = NaN \/ f.page < 1 THEN 1 ELSE f.page, PageSize)

NeedsRefine(f) == f.region # "ALL" \/ f.sort = "relevance"
\* Faulty variant: what the server cannot do is left undone.
ListUnrefined(f, shuffle) ==
  [items |-> ServerSlice(f, shuffle), total |-> Cardinality(ServerRows(f))]
ListActivities(f, shuffle) ==
  LET found == PlacesIn(ServerRows(f), ServerOrder(f, shuffle))
      refined == FilterActivities(DOMAIN Slice(found, 1, RefineRows), f)
      sorted == PlacesIn(refined, BrowserOrder(f, shuffle))
  IN  IF NeedsRefine(f)
      THEN [items |-> Slice(sorted, f.page, PageSize), total |-> Cardinality(refined)]
      ELSE [items |-> ServerSlice(f, shuffle), total |-> Cardinality(ServerRows(f))]
-------------------------------------------------------------------------------
(* The list.                                                               *)

NoList == [loading |-> TRUE, error |-> FALSE, items |-> <<>>, total |-> 0]
NoHome == [loading |-> TRUE, banner |-> 1]
NoAtlas == [china |-> FALSE, error |-> FALSE, busy |-> "none", drill |-> "none", known |-> {}]

\* The list's effect runs for other filters: the last answer is unwelcome.
LoadList(f) ==
  /\ list' = [list EXCEPT !.loading = TRUE, !.error = FALSE]
  /\ asked' = {f}
\* Another address of the list or another city, in the same component: the
\* filters are read anew, and loaded even if they are the same.
Search(u) ==
  /\ page = "list" /\ url' = u
  /\ IF url' = url /\ city' = city THEN UNCHANGED <<list, asked>>
     ELSE LoadList(ReadParams(u)')
  /\ UNCHANGED <<tour, page, home, atlas, registered, fetches>>

\* updateParams: everything the list shows goes to the address, the page only
\* if it is not the first; another filter starts from the first page.
ToPage(p) == IF p = NaN \/ p <= 1 THEN 1 ELSE p
WithParams(f) == [f EXCEPT !.region = IF @ = "ALL" THEN "none" ELSE @, !.page = ToPage(@)]
ChooseCity(r) ==
  /\ city' = r /\ Search(WithParams([Filters EXCEPT !.region = r, !.page = 1]))
ChooseSort(s) ==
  /\ UNCHANGED city /\ Search(WithParams([Filters EXCEPT !.sort = s, !.page = 1]))
\* The form, with the keyword or without; the draft is not looked at before.
HandleSubmit(k) ==
  /\ UNCHANGED city /\ Search(WithParams([Filters EXCEPT !.keyword = k, !.page = 1]))

\* Pagination: the previous, the next, and five pages around the present one.
\* Where the page is no number, the buttons of a long list have none either.
LastPage == (list.total + PageSize - 1) \div PageSize
FiveFrom(start) == start..(start + 4)
\* Faulty variant: the window may run past the last page.
WindowAhead ==
  IF LastPage <= 5 THEN 1..LastPage ELSE
  IF Filters.page = NaN THEN {NaN} ELSE FiveFrom(Greater(1, Filters.page - 2))
Window ==
  IF LastPage <= 5 THEN 1..LastPage ELSE
  IF Filters.page = NaN THEN {NaN} ELSE FiveFrom(Greater(1, Least(Filters.page - 2, LastPage - 4)))
Beside ==
  IF Filters.page = NaN THEN {NaN}
  ELSE {p \in {Filters.page - 1} : Filters.page > 1} \cup {p \in {Filters.page + 1} : Filters.page < LastPage}
Listed == ~list.loading /\ ~list.error /\ DOMAIN list.items # {}
PagesOffered == IF Listed /\ LastPage > 1 THEN Window \cup Beside ELSE {}
ChoosePage(p) ==
  /\ p \in PagesOffered /\ UNCHANGED city
  /\ Search(WithParams([Filters EXCEPT !.page = p]))

\* A recommended activity below the list searches for its title; a category
\* of the home page or of a banner is an address as well.
SearchFor(u) == UNCHANGED city /\ u # url /\ Search(u)

LanguageOfList ==
  /\ page = "list" /\ LoadList(Filters)
  /\ UNCHANGED <<tour, page, url, city, home, atlas, registered, fetches>>

\* The recommendations beside it never fail the list.
ListArrived(f, answer) ==
  /\ f \in asked /\ asked' = asked \ {f}
  /\ list' = [loading |-> FALSE, error |-> FALSE, items |-> answer.items, total |-> answer.total]
  /\ UNCHANGED <<tour, page, url, city, home, atlas, registered, fetches>>
ListFailed(f) ==
  /\ f \in asked /\ asked' = asked \ {f}
  /\ list' = [loading |-> FALSE, error |-> TRUE, items |-> <<>>, total |-> 0]
  /\ UNCHANGED <<tour, page, url, city, home, atlas, registered, fetches>>
-------------------------------------------------------------------------------
(* Home and its map.                                                       *)

Gone == {[f EXCEPT !.here = FALSE] : f \in fetches}
Visit(to, u) ==
  /\ page' = to /\ url' = u
  /\ IF to = "list" THEN asked' = {ReadParams(u)} ELSE asked' = {}
  /\ list' = NoList /\ home' = NoHome /\ atlas' = NoAtlas
  /\ fetches' = Gone \cup IF to = "home" THEN {[of |-> "china", here |-> TRUE]} ELSE {}
  /\ UNCHANGED <<tour, city, registered>>

\* KnownUrls, history and typed addresses of the list; links to the home page.
GoToList(u) == page # "list" /\ Visit("list", u)
GoHome == tour = "home" /\ page # "home" /\ Visit("home", NoUrl)
GoAway == page # "other" /\ Visit("other", NoUrl)

\* Activities and recommendations are each replaced by none if they fail.
HomeArrived ==
  /\ page = "home" /\ home.loading
  /\ home' = [home EXCEPT !.loading = FALSE]
  /\ UNCHANGED <<tour, page, url, city, list, asked, atlas, registered, fetches>>
\* Every five seconds, or under the pointer.
TurnBanner(next) ==
  /\ page = "home" /\ home' = [home EXCEPT !.banner = next]
  /\ UNCHANGED <<tour, page, url, city, list, asked, atlas, registered, fetches>>
NextBanner == (home.banner % Banners) + 1

\* chartOption: the registered map that is drawn.
ChartMap == IF atlas.drill = "none" THEN "china" ELSE atlas.drill
ChartDrawn == page = "home" /\ ~home.loading /\ atlas.china /\ ~atlas.error
InAtlas == UNCHANGED <<tour, page, url, city, list, asked, home>>

\* The map of the country, again on every mount and in every language; the
\* cleanup of its effect makes an earlier answer unwelcome, not a province's.
LanguageOfAtlas ==
  /\ page = "home"
  /\ fetches' = {f \in fetches : f.of # "china"}
                 \cup {[f EXCEPT !.here = FALSE] : f \in {g \in fetches : g.of = "china"}}
                 \cup {[of |-> "china", here |-> TRUE]}
  /\ InAtlas /\ UNCHANGED <<atlas, registered>>
ChinaArrived(f) ==
  /\ f.of = "china" /\ fetches' = fetches \ {f}
  /\ registered' = registered \cup {"china"}
  /\ atlas' = IF f.here THEN [atlas EXCEPT !.china = TRUE] ELSE atlas
  /\ InAtlas

\* Faulty variant: the province is shown while its map is fetched.
ClickProvinceAtOnce(p) ==
  /\ ChartDrawn /\ atlas.drill = "none"
  /\ atlas' = [atlas EXCEPT !.drill = p, !.busy = p]
  /\ fetches' = fetches \cup {[of |-> p, here |-> TRUE]}
  /\ InAtlas /\ UNCHANGED registered
\* handleMapClick on the country: the province's map is fetched before the
\* province is shown, once in the life of the component.
ClickProvince(p) ==
  /\ ChartDrawn /\ atlas.drill = "none"
  /\ IF p \in atlas.known
     THEN atlas' = [atlas EXCEPT !.drill = p] /\ UNCHANGED fetches
     ELSE /\ atlas' = [atlas EXCEPT !.busy = p]
          /\ fetches' = fetches \cup {[of |-> p, here |-> TRUE]}
  /\ InAtlas /\ UNCHANGED registered
\* Whatever is shown by now, the answer shows its own province.
ProvinceArrived(f) ==
  /\ f.of \in Regions /\ fetches' = fetches \ {f}
  /\ registered' = registered \cup {f.of}
  /\ atlas' = IF f.here
              THEN [atlas EXCEPT !.known = @ \cup {f.of}, !.drill = f.of, !.busy = "none"]
              ELSE atlas
  /\ InAtlas
\* The error replaces the map, until the atlas is mounted anew.
MapFailed(f) ==
  /\ fetches' = fetches \ {f}
  /\ atlas' = IF f.here
              THEN [atlas EXCEPT !.error = TRUE, !.busy = IF f.of = "china" THEN @ ELSE "none"]
              ELSE atlas
  /\ InAtlas /\ UNCHANGED registered
BackToCountry ==
  /\ ChartDrawn /\ atlas.drill # "none"
  /\ atlas' = [atlas EXCEPT !.drill = "none"]
  /\ InAtlas /\ UNCHANGED <<registered, fetches>>
\* handleMapClick on a province: its city's hottest activities.
ClickCity ==
  /\ ChartDrawn /\ atlas.drill # "none"
  /\ Visit("list", Url(atlas.drill, FALSE, "hot", 1))
-------------------------------------------------------------------------------
ListingInit ==
  /\ tour \in Tours /\ page = "other" /\ url = NoUrl /\ city = "ALL"
  /\ list = NoList /\ asked = {} /\ home = NoHome /\ atlas = NoAtlas
  /\ registered = {} /\ fetches = {}

\* Addresses that other pages link to, and what a typed one may ask for.
KnownUrls == {NoUrl, Url("none", TRUE, "relevance", 1), Url("none", FALSE, "hot", 1),
          Url("none", TRUE, "relevance", MaxPage), Url("none", FALSE, "hot", NaN),
          Url("none", TRUE, "relevance", NaN), Url("none", FALSE, "hot", -1),
          Url("none", FALSE, "relevance", -1)}
ByHand ==
  \/ \E r \in Regions \cup {"ALL"} : ChooseCity(r)
  \/ \E s \in {"relevance", "hot"} : ChooseSort(s)
  \/ \E k \in BOOLEAN : HandleSubmit(k)
  \/ \E p \in PageNumbers : ChoosePage(p)
  \/ \E u \in KnownUrls : SearchFor(u)
  \/ LanguageOfList
OnList ==
  \/ tour = "list" /\ ByHand
  \/ \E f \in asked : ListFailed(f) \/ \E s \in Shuffles : ListArrived(f, ListActivities(f, s))
OnHome ==
  \/ HomeArrived \/ TurnBanner(NextBanner) \/ (\E b \in 1..Banners : TurnBanner(b))
  \/ LanguageOfAtlas \/ BackToCountry \/ ClickCity
  \/ \E p \in Regions : ClickProvince(p)
  \/ \E f \in fetches : ChinaArrived(f) \/ ProvinceArrived(f) \/ MapFailed(f)
ListingNext == OnList \/ OnHome \/ GoHome \/ GoAway \/ \E u \in KnownUrls : GoToList(u)

ListingSpec == ListingInit /\ [][ListingNext]_listingVars
-------------------------------------------------------------------------------
(* Correctness.                                                            *)

ListingTypeOK ==
  /\ page \in {"home", "list", "other"} /\ url \in Urls /\ city \in Regions \cup {"ALL"}
  /\ list.total \in 0..Len(Catalogue) /\ Cardinality(DOMAIN list.items) <= Least(PageSize, list.total)
  /\ asked # {} => page = "list" /\ list.loading
  /\ home.banner \in 1..Banners
  /\ atlas.known \subseteq registered \cap Regions /\ registered \subseteq Regions \cup {"china"}
  /\ fetches \subseteq [of : Regions \cup {"china"}, here : BOOLEAN]

(* The list shows rows its filters want and counts no others, whether the  *)
(* server or the browser filtered and ordered them, in whatever order      *)
(* answers to several addresses arrive, and wherever the database puts     *)
(* rows that are equal to it.  If the browser was given all rows it had to *)
(* choose from, the count is exact, and on a page that has a number the    *)
(* rows are those of its places: none has a place before one it has to     *)
(* follow, by enrolments or by relevance.                                  *)
ListMatchesAddress ==
  page = "list" /\ ~list.loading /\ ~list.error =>
    LET f == Filters
        wanted == FilterActivities(Rows, f)
        shown == DOMAIN list.items
        Rank(i) == IF f.sort = "hot" THEN Catalogue[i].enrolled ELSE Relevance(i, f)
    IN  /\ shown \subseteq wanted /\ list.total <= Cardinality(wanted)
        /\ (NeedsRefine(f) => Cardinality(ServerRows(f)) <= RefineRows) =>
             /\ list.total = Cardinality(wanted)
             /\ f.page # NaN /\ f.page > 0 =>
                  /\ {list.items[i] : i \in shown}
                       = {n \in 1..list.total : (f.page - 1) * PageSize < n /\ n <= f.page * PageSize}
                  /\ \A i, j \in shown : list.items[i] = list.items[j] => i = j
                  /\ \A i \in shown :
                       /\ Cardinality({j \in wanted : Rank(j) > Rank(i)}) < list.items[i]
                       /\ list.items[i] <= Cardinality({j \in wanted : Rank(j) >= Rank(i)})

(* From any page of a list that has one, those beside it can be reached,   *)
(* and every button leads to a page there is.  Where the address has no    *)
(* number, and so perhaps no button has one, the first page can be.        *)
NothingOutOfReach ==
  Listed /\ LastPage > 1 =>
    LET reached == {ToPage(p) : p \in PagesOffered}
    IN  /\ reached \subseteq 1..LastPage
        /\ Filters.page = NaN => 1 \in reached
        /\ Filters.page # NaN =>
             \A p \in {Filters.page - 1, Filters.page, Filters.page + 1} \cap 1..LastPage : p \in reached

(* The map that is drawn is registered with the chart library, and it was  *)
(* fetched by this component if it is a province's: whichever answers come *)
(* late, and however often the page was left and visited again.            *)
DrawnMapRegistered ==
  ChartDrawn => /\ ChartMap \in registered
                /\ ChartMap # "china" => ChartMap \in atlas.known
===============================================================================
