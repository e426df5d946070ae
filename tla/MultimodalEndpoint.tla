-------------------------- MODULE MultimodalEndpoint --------------------------
(***************************************************************************)
(* POST /itinerary/multimodal: the complexity score that chooses the       *)
(* optimiser, the fall from OR-Tools to the hybrid dispatcher, and the     *)
(* suggestions that fill the days the optimiser has left empty, one search *)
(* after another with a memory of what earlier days were given.            *)
(*                                                                         *)
(* A call shares nothing with other calls but the services it awaits       *)
(* (HybridDispatch, NearbySearch), so one call at a time is modelled. The  *)
(* classic method returns a day for every date of the trip (ClassicPlan):  *)
(* the branch that creates missing days never runs, nor does the handler   *)
(* around the suggestions, whose function lets no exception out.           *)
(***************************************************************************)
EXTENDS Integers, Sequences, FiniteSets, SequencesExt, FiniteSetsExt

CONSTANTS Journeys,    \* requests: [places : Seq([km, type]), days, preferences]; km places them on a line
          Categories,  \* all_categories of the interests, in their order
          PlacesNear,  \* category -> the places Google has for it, best first: [id, name]
          Semantic,    \* the types that profit from semantic analysis
          MinPlaces,   \* settings.CITY2GRAPH_MIN_PLACES
          MinDays,     \* settings.CITY2GRAPH_MIN_DAYS
          MinTypes,    \* settings.CITY2GRAPH_SEMANTIC_TYPES_THRESHOLD
          MinSpread,   \* settings.CITY2GRAPH_GEO_SPREAD_THRESHOLD_KM
          Threshold    \* settings.CITY2GRAPH_COMPLEXITY_THRESHOLD

ASSUME MultimodalAssumption ==
    /\ Categories \in Seq(DOMAIN PlacesNear) \ {<<>>}
    /\ \A c \in DOMAIN PlacesNear :
          PlacesNear[c] \in Seq({PlacesNear[c][i] : i \in DOMAIN PlacesNear[c]})
    /\ \A j \in Journeys : j.days \in Nat

VARIABLES switches,    \* ENABLE_CITY2GRAPH, ENABLE_ORTOOLS, CITY2GRAPH_CITIES not empty
          journey      \* what the call does

multimodalVars == <<switches, journey>>

PerDay == 3
NoId == ""   \* the id of a place that is not Google's
NoJourney == [at |-> "idle"]

-----------------------------------------------------------------------------
(* The decision *)

Capped(n, cap) == IF n < cap THEN n ELSE cap
Kms(j) == {j.places[p].km : p \in DOMAIN j.places}

\* The clusters of DBSCAN within 100 km, named after their centres; none for a
\* single place.
_detect_multiple_cities_from_places(j) ==
    IF Len(j.places) < 2 THEN {}
    ELSE {k \in Kms(j) : \A l \in Kms(j) : l < k => k - l > 100}

_count_semantic_place_types(j) == {j.places[p].type : p \in DOMAIN j.places} \cap Semantic

\* The largest distance between two places.
_calculate_geographic_spread(j) ==
    IF Len(j.places) < 2 THEN 0 ELSE Max(Kms(j)) - Min(Kms(j))

\* In units of 1 / Unit: the five factors weigh 6, 6, 2, 1 and 1 at most.
Unit == MinPlaces * MinDays * MinTypes * MinSpread

complexity_score(j) ==
      3 * Capped(Len(j.places), 2 * MinPlaces) * (Unit \div MinPlaces)
    + 3 * Capped(j.days, 2 * MinDays) * (Unit \div MinDays)
    + (IF Cardinality(_detect_multiple_cities_from_places(j)) > 1 THEN 2 * Unit ELSE 0)
    + Capped(Cardinality(_count_semantic_place_types(j)), MinTypes) * (Unit \div MinTypes)
    + Capped(_calculate_geographic_spread(j), MinSpread) * (Unit \div MinSpread)

\* The detected cities are names of clusters ("cluster_-33.4_-70.7"), never those
\* of cities: a list of enabled cities enables none.
should_use_city2graph(j) ==
    /\ switches.city2graph
    /\ complexity_score(j) >= Threshold * Unit
    /\ ~switches.cities

-----------------------------------------------------------------------------
(* The optimisation *)

Error(j) == [at |-> "answered", request |-> j, status |-> 500]

\* Without OR-Tools a complex request runs no optimiser at all, and reading
\* optimization_result raises.
Begin(j) ==
    /\ journey.at \in {"idle", "answered"}
    /\ journey' = IF ~should_use_city2graph(j) THEN [at |-> "legacy", request |-> j]
                  ELSE IF switches.ortools THEN [at |-> "ortools", request |-> j]
                  ELSE Error(j)
    /\ UNCHANGED switches

\* optimize_with_ortools always raises (see ORToolsService).
ORToolsFails ==
    /\ journey.at = "ortools"
    /\ journey' = [at |-> "legacy", request |-> journey.request]
    /\ UNCHANGED switches

\* The places of a day, or its suggestions; the next empty day follows.
FreeDays(own, suggested) == {d \in DOMAIN own : own[d] = {} /\ suggested[d] = <<>>}

Continue(j, own, suggested, used, filled) ==
    IF FreeDays(own, suggested) = {}
    THEN [at |-> "answered", request |-> j, status |-> 200, own |-> own, suggested |-> suggested]
    ELSE [at |-> "suggesting", request |-> j, own |-> own, suggested |-> suggested,
          used |-> used, day_number |-> filled + 1, found |-> <<>>, searched |-> 0]

\* optimize_itinerary_hybrid_v31 raises, or gives every date some of the places.
LegacyAnswers ==
    /\ journey.at = "legacy"
    /\ LET j == journey.request
       IN  \/ journey' = Error(j)
           \/ \E day \in [DOMAIN j.places -> 0..j.days] :
                  journey' = Continue(j, [d \in 1..j.days |-> {p \in DOMAIN j.places : day[p] = d}],
                                      [d \in 1..j.days |-> <<>>], {}, 0)
    /\ UNCHANGED switches

-----------------------------------------------------------------------------
(* The suggestions of one day *)

\* Three categories a day, going round the list.
Category(n, i) == Categories[((((n - 1) * PerDay) + i) % Len(Categories)) + 1]

FirstAt(answer, new) ==
    IF new = {} THEN <<>> ELSE <<answer[CHOOSE k \in new : \A l \in new : k <= l]>>

Renamed(p, found) == \A i \in DOMAIN found : found[i].name # p.name

\* Mutant of FirstNew: what other days were given is not looked at.
FirstNewToday(answer, used, found) ==
    FirstAt(answer, {k \in DOMAIN answer : answer[k].id # NoId /\ Renamed(answer[k], found)})

\* One place of an answer at most: neither its id used on any day nor its name
\* on this one. Invented places have no id and never pass.
FirstNew(answer, used, found) ==
    FirstAt(answer, {k \in DOMAIN answer : /\ answer[k].id # NoId /\ answer[k].id \notin used
                                          /\ Renamed(answer[k], found)})

\* Mutant of Padded: one option at most.
PaddedOnce(found, n) == IF Len(found) = PerDay THEN found ELSE Append(found, [id |-> NoId, name |-> <<n, 1>>])

\* The options of the day fill what is missing; there are four sets of them.
Padded(found, n) ==
    found \o [i \in 1..(PerDay - Len(found)) |-> [id |-> NoId, name |-> <<(n - 1) % 4, i>>]]

Emergency == [i \in 1..PerDay |-> [id |-> NoId, name |-> <<"emergency", i>>]]

Today == CHOOSE d \in FreeDays(journey.own, journey.suggested) :
             \A e \in FreeDays(journey.own, journey.suggested) : d <= e

EndDay(places, used) ==
    journey' = Continue(journey.request, journey.own, [journey.suggested EXCEPT ![Today] = places],
                        used, journey.day_number)

\* search_nearby answers for one category; without Google there are only
\* invented places. The third search ends the day.
SearchCategory ==
    /\ journey.at = "suggesting" /\ journey.request.preferences
    /\ LET n == journey.day_number
       IN \E answer \in {PlacesNear[Category(n, journey.searched)], <<>>} :
            LET new == FirstNew(answer, journey.used, journey.found)
                found == journey.found \o new
                used == journey.used \cup {new[i].id : i \in DOMAIN new}
            IN  IF journey.searched + 1 = PerDay THEN EndDay(Padded(found, n), used)
                ELSE journey' = [journey EXCEPT !.searched = @ + 1, !.found = found, !.used = used]
    /\ UNCHANGED switches

\* Preferences that cannot be read raise before the first search.
SuggestEmergency ==
    /\ journey.at = "suggesting" /\ ~journey.request.preferences
    /\ EndDay(Emergency, journey.used)
    /\ UNCHANGED switches

-----------------------------------------------------------------------------
MultimodalInit ==
    /\ switches \in [city2graph : BOOLEAN, ortools : BOOLEAN, cities : BOOLEAN]
    /\ journey = NoJourney

MultimodalNext ==
    \/ \E j \in Journeys : Begin(j)
    \/ ORToolsFails \/ LegacyAnswers \/ SearchCategory \/ SuggestEmergency

MultimodalSpec == MultimodalInit /\ [][MultimodalNext]_multimodalVars

-----------------------------------------------------------------------------
(* Properties *)

Itinerary == journey.at = "answered" /\ journey.status = 200

\* "Cache global para evitar sugerencias repetidas entre dias": however the
\* categories come round again and overlap, no place of Google's is suggested
\* on two days or twice on one, nor a made-up option twice on one. (Google may
\* know a place by the name of a made-up option.)
SuggestedOnce ==
    Itinerary =>
        \A d, e \in DOMAIN journey.suggested :
            \A i \in DOMAIN journey.suggested[d], k \in DOMAIN journey.suggested[e] :
                LET p == journey.suggested[d][i]
                    q == journey.suggested[e][k]
                IN  /\ (p.id # NoId /\ p.id = q.id) => <<d, i>> = <<e, k>>
                    /\ (d = e /\ p.name = q.name /\ (p.id = NoId) = (q.id = NoId)) => i = k

\* An itinerary has something to do on every date, whatever Google answers: a day
\* with places keeps exactly these, and a day without gets three suggestions.
EveryDayHasPlans ==
    Itinerary =>
        /\ Len(journey.suggested) = journey.request.days
        /\ \A d \in 1..journey.request.days :
               Len(journey.suggested[d]) = (IF journey.own[d] = {} THEN PerDay ELSE 0)

\* The endpoint's comments promise the legacy system "para casos simples o
\* fallback": whatever the master switches are, a request reaches some optimiser.
SomeOptimiserRuns == [][journey'.at = "answered" /\ journey'.status = 500 => journey.at = "legacy"]_multimodalVars
==============================================================================
