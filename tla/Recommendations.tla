---------------------------- MODULE Recommendations ----------------------------
(***************************************************************************)
(* recommendation_service.go: lists of activities kept in a map for five   *)
(* minutes, computed from the scores a goroutine of main.go recalculates,  *)
(* row by row and without a transaction.  The map is locked while it is    *)
(* read or written and not in between: the queries of a request interleave *)
(* with a recalculation and with those of other requests.  There is one    *)
(* process; the text of an item and the parts of its score are left out.   *)
(***************************************************************************)
EXTENDS Integers, SequencesExt

CONSTANTS Activities,  \* a later one has a larger number and is created later
          Scores,      \* what an activity may score; a weight can be negative
          NoScore,     \* there is no row in activity_scores
          Callers,     \* requests that may be under way at once
          NoCall,
          Asked,       \* bound: the lists asked for, of the Keys below
          Preferred,   \* the activities of categories the user looked at
          Common       \* how many users of the same taste looked at it; 0 is none

ASSUME RecommendationAssumption ==
  /\ Activities \subseteq Nat /\ IsFiniteSet(Activities) /\ Scores \subseteq Int /\ NoScore \notin Scores
  /\ Preferred \subseteq Activities /\ Common \in [Activities -> Nat]
  /\ Asked \subseteq [endpoint : {"hot", "mix"}, guest : BOOLEAN, limit : 1..100, offset : Nat]

VARIABLES
  published,  \* the activities with status PUBLISHED
  score,      \* activity_scores.score
  ranks,      \* activity_scores.rank
  cache,      \* the map: a list under each key it holds and that is not over
  calls,      \* calls[c]: the request that caller c waits for, or NoCall
  phase,      \* where RecalculateAllScores is
  todo,       \* the activities it has still to score
  rows,       \* the activities it has still to rank, the best first
  halfDone    \* history: the last one stopped at an error

scoreVars == <<published, score, ranks>>
runVars == <<phase, todo, rows, halfDone>>
recommendationVars == <<scoreVars, runVars, cache, calls>>

RecommendationInit ==
  /\ published \in SUBSET Activities
  /\ score = [a \in Activities |-> NoScore] /\ ranks = [a \in Activities |-> 0]
  /\ cache = <<>> /\ calls = [c \in Callers |-> NoCall]
  /\ phase = "idle" /\ todo = {} /\ rows = <<>>
  /\ halfDone = FALSE
-------------------------------------------------------------------------------
(* The queries, of published activities only.  The number of an activity   *)
(* stands for everything that breaks a tie.                                *)

ScoreOf(a) == IF score[a] = NoScore THEN 0 ELSE score[a]
Cut(s, from, to) == SubSeq(s, from + 1, IF to < Len(s) THEN to ELSE Len(s))
First(n, s) == Cut(s, 0, n)
\* ORDER BY: a row's place is behind all that the order pairs before it.
OrderBy(order, S) ==
  [p \in 1..Cardinality(S) |->
     CHOOSE a \in S : Cardinality({b \in S : <<b, a>> \in order}) = p - 1]
Pairs == Activities \X Activities
Heat == {r \in Pairs : \/ ScoreOf(r[1]) > ScoreOf(r[2])
                      \/ (ScoreOf(r[1]) = ScoreOf(r[2]) /\ r[1] > r[2])}
Newest == {r \in Pairs : r[1] > r[2]}

Hot(among, n) == First(n, OrderBy(Heat, published \cap among))
Fresh(n) == First(n, OrderBy(Newest, published))

\* ListSimilarActivitiesBySeed: the subquery's rows, and those published of them.
Nearest == {r \in Pairs : \/ Common[r[1]] > Common[r[2]]
                         \/ (Common[r[1]] = Common[r[2]] /\ r[1] > r[2])}
NearestHot == {r \in Pairs : \/ Common[r[1]] > Common[r[2]]
                            \/ (Common[r[1]] = Common[r[2]] /\ r \in Heat)}
SimilarTo(n) ==
  LET looked == First(n, OrderBy(Nearest, {a \in Activities : Common[a] > 0}))
  IN OrderBy(NearestHot, published \cap ToSet(looked))

\* What each mix asks the database, in order, and how many rows of it.
FourTenths(n) == (4 * n + 9) \div 10
TwoTenths(n) == (2 * n + 9) \div 10
Queries(mix, limit, offset) ==
  LET n == limit + offset
      Ask(reason, found) == [reason |-> reason, found |-> found]
  IN CASE mix = "hot" -> <<Ask("hot", Cut(Hot(Activities, n), offset, n))>>
       [] mix = "anonymous" ->
            <<Ask("hot", Hot(Activities, n)),
              Ask("fresh", Fresh(IF limit < 5 THEN 1 ELSE limit \div 5))>>
       [] mix = "cold" ->
            <<Ask("hot", Hot(Activities, 2 * limit + offset)),
              Ask("preferred", Hot(Preferred, 2 * limit))>>
       [] mix = "collaborative" ->
            <<Ask("similar", SimilarTo(3 * FourTenths(n))),
              Ask("hot", Hot(Activities, 2 * FourTenths(n))),
              Ask("fresh", Fresh(2 * TwoTenths(n)))>>

\* mergeRecommendations: group after group, no activity twice.  A row is known
\* by its group and its place in it.
MergeRecommendations(n, groups) ==
  LET Rows == UNION {{g} \X DOMAIN groups[g].found : g \in DOMAIN groups}
      Id(r) == groups[r[1]].found[r[2]]
      Before(r, s) == r[1] < s[1] \/ (r[1] = s[1] /\ r[2] < s[2])
      kept == {r \in Rows : \A s \in Rows : Before(s, r) => Id(s) # Id(r)}
      out == OrderBy({pair \in kept \X kept : Before(pair[1], pair[2])}, kept)
  IN First(n, [p \in DOMAIN out |-> [id |-> Id(out[p]), reason |-> groups[out[p][1]].reason]])

\* The cold mix puts what it asked for last before the rest.
ListOf(call) ==
  LET key == call.key
      n == key.limit + key.offset
  IN CASE call.mix = "hot" -> MergeRecommendations(n, call.got)
       [] call.mix = "cold" -> Cut(MergeRecommendations(n, Reverse(call.got)), key.offset, n)
       [] OTHER -> Cut(MergeRecommendations(n, call.got), key.offset, n)
-------------------------------------------------------------------------------
(* GetHotRecommendations and GetRecommendations.                           *)

\* How many behaviours a user left decides the mix; a guest left none.
Mixes(key) == IF key.endpoint = "hot" THEN {"hot"}
              ELSE IF key.guest THEN {"anonymous"}
                   ELSE {"anonymous", "cold", "collaborative"}

\* A limit or an offset out of range is refused.  A list that is in the map
\* is the answer, unless the caller wants it computed: nothing changes.
GetRecommendations(c) ==
  /\ calls[c] = NoCall
  /\ \E key \in Asked, needRefresh \in BOOLEAN :
       /\ needRefresh \/ key \notin DOMAIN cache
       /\ \E mix \in Mixes(key) :
            calls' = [calls EXCEPT ![c] = [key |-> key, mix |-> mix, got |-> <<>>, overtaken |-> FALSE]]
  /\ UNCHANGED <<scoreVars, runVars, cache>>

Query(c) ==
  /\ calls[c] # NoCall
  /\ LET call == calls[c]
         queries == Queries(call.mix, call.key.limit, call.key.offset)
         k == Len(call.got) + 1
     IN /\ k <= Len(queries)
        /\ calls' = [calls EXCEPT ![c].got = Append(@, queries[k])]
  /\ UNCHANGED <<scoreVars, runVars, cache>>

\* The answer is an error and nothing is kept.
QueryFails(c) ==
  /\ calls[c] # NoCall
  /\ calls' = [calls EXCEPT ![c] = NoCall]
  /\ UNCHANGED <<scoreVars, runVars, cache>>

SetCache(c) ==
  /\ calls[c] # NoCall
  /\ LET call == calls[c]
         entry == [list |-> ListOf(call), overtaken |-> call.overtaken]
     IN /\ Len(call.got) = Len(Queries(call.mix, call.key.limit, call.key.offset))
        /\ cache' = [k \in DOMAIN cache \cup {call.key} |-> IF k = call.key THEN entry ELSE cache[k]]
  /\ calls' = [calls EXCEPT ![c] = NoCall]
  /\ UNCHANGED <<scoreVars, runVars>>

\* The five minutes are over: getCache does not answer with it any more.
Expire(key) ==
  /\ key \in DOMAIN cache
  /\ cache' = [k \in DOMAIN cache \ {key} |-> cache[k]]
  /\ UNCHANGED <<scoreVars, runVars, calls>>

\* activity_service.go: an activity is published, and the map stays.
Publish(a) ==
  /\ a \notin published
  /\ published' = published \cup {a}
  /\ UNCHANGED <<score, ranks, runVars, cache, calls>>
-------------------------------------------------------------------------------
(* RecalculateAllScores, at the start and on a ticker; never two at once.  *)

RecalculateAllScores ==
  /\ phase = "idle"
  /\ phase' = "scoring" /\ todo' = published
  /\ UNCHANGED <<scoreVars, rows, halfDone, cache, calls>>

UpsertActivityScore(a) ==
  /\ phase = "scoring" /\ a \in todo
  /\ \E s \in Scores : score' = [score EXCEPT ![a] = s]
  /\ todo' = todo \ {a}
  /\ UNCHANGED <<published, ranks, phase, rows, halfDone, cache, calls>>

Scored == {a \in Activities : score[a] # NoScore}
BestFirst == {r \in Scored \X Scored : \/ score[r[1]] > score[r[2]]
                                      \/ (score[r[1]] = score[r[2]] /\ r[1] < r[2])}
\* UpdateScoreRanks reads all the rows, which is not the order of Heat ...
UpdateScoreRanks ==
  /\ phase = "scoring" /\ todo = {}
  /\ phase' = "ranking"
  /\ rows' = OrderBy(BestFirst, Scored)
  /\ UNCHANGED <<scoreVars, todo, halfDone, cache, calls>>

\* ... and writes them one by one.
UpdateRank ==
  /\ phase = "ranking" /\ rows # <<>>
  /\ LET ranked == Scored \ ToSet(rows)
     IN ranks' = [ranks EXCEPT ![Head(rows)] = Cardinality(ranked) + 1]
  /\ rows' = Tail(rows)
  /\ UNCHANGED <<published, score, phase, todo, halfDone, cache, calls>>

Over == phase' = "idle" /\ todo' = {} /\ rows' = <<>>

\* The error is logged: the map is not emptied, and the next run is due later.
RecalculationFails ==
  /\ phase # "idle"
  /\ Over /\ halfDone' = TRUE
  /\ UNCHANGED <<scoreVars, cache, calls>>

\* history: the requests that have queried already are overtaken.
Overtake == calls' = [c \in Callers |->
  IF calls[c] # NoCall /\ calls[c].got # <<>> THEN [calls[c] EXCEPT !.overtaken = TRUE] ELSE calls[c]]

ClearCacheForgotten ==                                 \* faulty ClearCache
  /\ phase = "ranking" /\ rows = <<>>
  /\ Over /\ halfDone' = FALSE /\ Overtake
  /\ UNCHANGED <<scoreVars, cache>>
ClearCache ==
  /\ phase = "ranking" /\ rows = <<>>
  /\ cache' = <<>>
  /\ Over /\ halfDone' = FALSE /\ Overtake
  /\ UNCHANGED scoreVars

RecommendationNext ==
  \/ \E c \in Callers : GetRecommendations(c) \/ Query(c) \/ QueryFails(c) \/ SetCache(c)
  \/ \E key \in Asked : Expire(key)
  \/ \E a \in Activities : Publish(a) \/ UpsertActivityScore(a)
  \/ RecalculateAllScores \/ UpdateScoreRanks \/ UpdateRank
  \/ RecalculationFails \/ ClearCache

RecommendationSpec == RecommendationInit /\ [][RecommendationNext]_recommendationVars
-------------------------------------------------------------------------------
(* Correctness.                                                            *)

Lists == {cache[k].list : k \in DOMAIN cache}

\* No list has an activity twice, or one that is not published.
RecommendationTypeOK ==
  /\ published \subseteq Activities
  /\ score \in [Activities -> Scores \cup {NoScore}]
  /\ ranks \in [Activities -> 0..Cardinality(Activities)]
  /\ DOMAIN cache \subseteq Asked
  /\ \A k \in DOMAIN cache : Len(cache[k].list) <= k.limit
  /\ \A list \in Lists : \A i, j \in DOMAIN list :
       list[i].id \in published /\ (list[i].id = list[j].id => i = j)
  /\ \A c \in Callers : calls[c] # NoCall => calls[c].key \in Asked
  /\ phase \in {"idle", "scoring", "ranking"} /\ todo \subseteq published
  /\ halfDone \in BOOLEAN

\* Whether a may stand before b among the rows with one reason.
Precedes(reason, a, b) ==
  \/ reason = "fresh"
  \/ reason = "similar" /\ Common[a] > Common[b]
  \/ (reason = "similar" => Common[a] = Common[b]) /\ ScoreOf(a) >= ScoreOf(b)
Ordered(list) == \A i, j \in DOMAIN list :
  i < j /\ list[i].reason = list[j].reason
    => Precedes(list[i].reason, list[i].id, list[j].id)

(* Between two recalculations, if the last one came to its end, the stored *)
(* ranks and every list a user may be given follow the stored scores: of   *)
(* similar users' activities, among those that as many of them looked at.  *)
(* The one exception is a list whose request had queried before the map    *)
(* was emptied and stored its answer afterwards: it stays five minutes.    *)
RankedAsScored == phase = "idle" /\ ~halfDone =>
  /\ \A k \in DOMAIN cache : cache[k].overtaken \/ Ordered(cache[k].list)
  /\ \A a, b \in Activities :
       {a, b} \subseteq Scored /\ score[a] > score[b] => ranks[a] < ranks[b]
===============================================================================
