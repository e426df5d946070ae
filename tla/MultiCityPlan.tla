---------------------------- MODULE MultiCityPlan ----------------------------
(***************************************************************************)
(* A journey through several cities (POST /api/v3/multi-city/optimize):    *)
(* CityClusteringService groups the places into cities, the optimizer      *)
(* orders the cities, divides the days among them and fills a calendar,    *)
(* and HotelRecommender plans the nights. Full is MultiCityOptimizer,      *)
(* otherwise the MultiCityOptimizerSimple that the endpoint uses.          *)
(*                                                                         *)
(* A place is its index in the request. Its area stands for the H3 cell    *)
(* and the DBSCAN group in it, its spot for a circle of 100 m. Distances   *)
(* between cities are any.                                                 *)
(***************************************************************************)
EXTENDS Integers, Sequences, FiniteSets, SequencesExt, FiniteSetsExt, Lists

CONSTANTS Journeys,   \* requests, as [pois, duration, start, spread] records
          Famous,     \* city names whose weight the full optimizer raises
          Full        \* whether the optimizer may be the full one

\* A journey lasts a day (duration_days is positive) and has a place: without
\* one the optimizers divide by the number of places and fail.
ASSUME JourneysAssumption ==
    \A x \in Journeys : /\ x.pois \in Seq({x.pois[i] : i \in DOMAIN x.pois}) /\ x.pois # <<>>
                        /\ x.duration \in Nat \ {0}

VARIABLES phase,      \* the next step of the optimizer
          full,       \* which optimizer it is
          journey,    \* the request
          cities,     \* the clusters, as [name, country, pois] records
          regions,    \* groups of cities still to be planned, the one under way first
          remaining,  \* cities of the region under way not ordered yet
          sequence,   \* cities in the order they are visited
          shares,     \* city name -> days
          base,       \* first day of the region under way
          to_fill,    \* cities whose days (or nights) are not planned yet, in order
          today,      \* current_day
          calendar,   \* day -> places
          lodgings    \* nights planned, as [city, nights, check_in] records

journeyVars == <<phase, full, journey, cities, regions, remaining, sequence, shares, to_fill,
                 base, today, calendar, lodgings>>

Poi(i) == journey.pois[i]
PoiIndices == [i \in DOMAIN journey.pois |-> i]

\* sum(f.values()) of numbers that are not negative: their units, all counted.
SumOver(f) == Cardinality(UNION {{x} \X (1..f[x]) : x \in DOMAIN f})

\* f.update(g)
Updated(f, g) == [x \in (DOMAIN f) \cup (DOMAIN g) |-> IF x \in DOMAIN g THEN g[x] ELSE f[x]]

\* The places that say their city.
Told(ps) == Kept(ps, {i \in ToSet(ps) : Poi(i).city # ""})

-----------------------------------------------------------------------------
(* Cities *)

_h3_initial_clustering ==
    LET areas == [i \in DOMAIN journey.pois |-> Poi(i).area]
        found == Kept(PoiIndices, {i \in DOMAIN areas : \A j \in 1..(i - 1) : areas[j] # areas[i]})
    IN [k \in DOMAIN found |->
          Kept(PoiIndices, {i \in DOMAIN areas : areas[i] = areas[found[k]]})]

\* Two or more places within 100 m are discarded, a single one is not.
_validate_clusters(ps) == Len(ps) = 1 \/ \E i, j \in ToSet(ps) : Poi(i).spot # Poi(j).spot

\* The first of the most frequent values.
MostCommon(s) ==
    LET Count(x) == Cardinality({i \in DOMAIN s : s[i] = x})
        most == {i \in DOMAIN s : \A j \in DOMAIN s : Count(s[i]) >= Count(s[j])}
    IN s[Min(most)]

_determine_cluster_name(ps) ==
    IF Told(ps) = <<>> THEN Poi(ps[1]).title
    ELSE MostCommon([k \in DOMAIN Told(ps) |-> Poi(Told(ps)[k]).city])

City(ps) == [name |-> _determine_cluster_name(ps), pois |-> ps,
             country |-> MostCommon([k \in DOMAIN ps |-> Poi(ps[k]).country])]

Cities == LET found == _h3_initial_clustering
              kept == Kept(found, {ps \in ToSet(found) : _validate_clusters(ps)})
          IN [k \in DOMAIN kept |-> City(kept[k])]

cluster_pois_advanced ==
    /\ phase = "cluster"
    /\ cities' = Cities
    /\ phase' = "strategy"
    /\ UNCHANGED <<full, journey, regions, remaining, sequence, shares, to_fill, base, today, calendar,
                   lodgings>>

-----------------------------------------------------------------------------
(* Days *)

RoundHalfEven(a, b) ==
    LET q == a \div b   r == 2 * (a % b)
    IN IF r < b THEN q ELSE IF r > b THEN q + 1 ELSE q + (q % 2)

Slice(s, from, to) == SubSeq(s, from, IF to < Len(s) THEN to ELSE Len(s))

\* Equal slices; the last day takes the rest.
_simple_daily_distribution(ps, n) ==
    LET per_day == IF n > 0 /\ Len(ps) \div n > 1 THEN Len(ps) \div n ELSE 1
    IN [d \in 1..n |-> Slice(ps, (d - 1) * per_day + 1, IF d < n THEN d * per_day ELSE Len(ps))]

\* Doubled, so that the bonus of one half stays an integer.
Weight(c) == IF full /\ c.name \in Famous THEN 3 * Len(c.pois) ELSE 2 * Len(c.pois)

\* Mutant of _distribute_days_among_cities: the difference goes nowhere.
DistributeRounded(cs, n) ==
    LET names == {cs[k].name : k \in DOMAIN cs}
        weight == [x \in names |-> Weight(cs[Max({k \in DOMAIN cs : cs[k].name = x})])]
    IN [x \in names |-> Max({1, RoundHalfEven(weight[x] * n, SumOver(weight))})]

\* By name: the last city of a name gives the weight, the first the place in
\* the dictionary. What rounding leaves over or short goes to the heaviest.
_distribute_days_among_cities(cs, n) ==
    LET names == {cs[k].name : k \in DOMAIN cs}
        First(x) == Min({k \in DOMAIN cs : cs[k].name = x})
        weight == [x \in names |-> Weight(cs[Max({k \in DOMAIN cs : cs[k].name = x})])]
        rounded == [x \in names |-> Max({1, RoundHalfEven(weight[x] * n, SumOver(weight))})]
        heaviest == CHOOSE x \in names : \A y \in names :
                        weight[x] > weight[y] \/ (weight[x] = weight[y] /\ First(x) <= First(y))
    IN [rounded EXCEPT ![heaviest] = @ + n - SumOver(rounded)]

_distribute_days_among_countries ==
    LET countries == {cities[k].country : k \in DOMAIN cities}
        weight == [x \in countries |->
                      SumOver([k \in {j \in DOMAIN cities : cities[j].country = x} |->
                                  Len(cities[k].pois)])]
    IN [x \in countries |-> Max({1, RoundHalfEven(weight[x] * journey.duration, SumOver(weight))})]

-----------------------------------------------------------------------------
(* Strategy *)

Countries == {cities[k].country : k \in DOMAIN cities}

\* The full optimizer goes country by country unless the cities are few, near
\* and in at most two countries; the simple one treats every journey alike.
ByCountry ==
    /\ full
    /\ ~(Len(cities) = 2 /\ journey.spread = "near")
    /\ Cardinality(Countries) > 2 \/ journey.spread = "far" \/ Len(cities) > 4

\* Countries in order of appearance, but the start's first.
_optimize_country_sequence ==
    LET firsts == Kept([k \in DOMAIN cities |-> k],
                       {k \in DOMAIN cities : \A j \in 1..(k - 1) :
                                                cities[j].country # cities[k].country})
        order == [k \in DOMAIN firsts |-> cities[firsts[k]].country]
        starts == Kept(order, {c.country : c \in {e \in ToSet(cities) : e.name = journey.start}})
        leading == IF starts = <<>> THEN {} ELSE {starts[1]}
    IN Kept(order, leading) \o Kept(order, ToSet(order) \ leading)

\* A region of the full optimizer starts where its first city is.
Anywhere == ""

Region(members, n, start) == [members |-> members, duration |-> n, start |-> start]

\* One city: all the places of the request, discarded or not. OR-Tools is
\* asked through a method that does not exist, so the full one falls back too.
_optimize_single_city ==
    /\ phase = "strategy" /\ Len(cities) <= 1
    /\ LET told == Told(PoiIndices)
           city == [name |-> IF told = <<>> THEN "City" ELSE Poi(told[1]).city,
                    country |-> Poi(1).country, pois |-> PoiIndices]
       IN /\ cities' = <<city>>
          /\ sequence' = <<city>>
          /\ to_fill' = <<city>>
          /\ calendar' = _simple_daily_distribution(PoiIndices, journey.duration)
    /\ phase' = IF full THEN "done" ELSE "stays"
    /\ UNCHANGED <<full, journey, regions, remaining, shares, base, today, lodgings>>

_determine_optimization_strategy ==
    /\ phase = "strategy" /\ Len(cities) > 1
    /\ regions' = IF ByCountry
                  THEN LET order == _optimize_country_sequence
                           given == _distribute_days_among_countries
                       IN [k \in DOMAIN order |->
                             Region(Kept(cities, {c \in ToSet(cities) : c.country = order[k]}),
                                    given[order[k]], Anywhere)]
                  ELSE <<Region(cities, journey.duration, journey.start)>>
    /\ phase' = "start"
    /\ UNCHANGED <<full, journey, cities, remaining, sequence, shares, to_fill, base, today,
                   calendar, lodgings>>

-----------------------------------------------------------------------------
(* A region: its cities in order, their days, their places *)

\* The cities that share the start's name are left out with the start itself.
StartCity ==
    /\ phase = "start"
    /\ LET members == Head(regions).members
           named == Kept(members, {c \in ToSet(members) : c.name = Head(regions).start})
           start == IF named = <<>> THEN members[1] ELSE named[1]
       IN /\ to_fill' = <<start>>
          /\ remaining' = {c \in ToSet(members) : c.name # start.name}
    /\ today' = base
    /\ phase' = "order"
    /\ UNCHANGED <<full, journey, cities, regions, sequence, shares, base, calendar, lodgings>>

\* The nearest of the cities that remain, whichever that is.
NearestCity ==
    /\ phase = "order"
    /\ \E c \in remaining :
          /\ to_fill' = Append(to_fill, c)
          /\ remaining' = remaining \ {c}
    /\ UNCHANGED <<phase, full, journey, cities, regions, sequence, shares, base, today,
                   calendar, lodgings>>

\* The simple optimizer divides the days among the cities in order, the full
\* one among all those of the region.
DistributeDays ==
    /\ phase = "order" /\ remaining = {}
    /\ shares' = Updated(shares, _distribute_days_among_cities(
                                   IF full THEN Head(regions).members ELSE to_fill,
                                   Head(regions).duration))
    /\ sequence' = sequence \o to_fill
    /\ phase' = "fill"
    /\ UNCHANGED <<full, journey, cities, regions, remaining, to_fill, base, today, calendar,
                   lodgings>>

\* A city with no day makes the full optimizer divide by zero; one with less
\* than none sends current_day back over days already filled.
FillCity ==
    /\ phase = "fill" /\ to_fill # <<>>
    /\ LET city == Head(to_fill)
           n == shares[city.name]
           daily == _simple_daily_distribution(city.pois, n)
           filled == today..(today + n - 1)
       IN IF full /\ n = 0
          THEN phase' = "failed" /\ UNCHANGED <<calendar, today, to_fill>>
          ELSE /\ calendar' = Updated(calendar, [d \in filled |-> daily[d - today + 1]])
               /\ today' = today + n
               /\ to_fill' = Tail(to_fill)
               /\ UNCHANGED phase
    /\ UNCHANGED <<full, journey, cities, regions, remaining, sequence, shares, base, lodgings>>

EndRegion ==
    /\ phase = "fill" /\ to_fill = <<>>
    /\ base' = base + Head(regions).duration
    /\ regions' = Tail(regions)
    /\ phase' = IF Len(regions) > 1 THEN "start" ELSE IF full THEN "done" ELSE "stays"
    /\ today' = 1
    /\ to_fill' = IF Len(regions) > 1 THEN <<>> ELSE sequence
    /\ UNCHANGED <<full, journey, cities, remaining, sequence, shares, calendar, lodgings>>

-----------------------------------------------------------------------------
(* Nights *)

\* Days on which some place says it is in the city, at least one.
DaysPerCity(name) ==
    Max({1, Cardinality({d \in DOMAIN calendar :
                            \E i \in ToSet(calendar[d]) : Poi(i).city = name})})

\* Mutant of plan_city_accommodation: the day of travel is forgotten.
PlanWithoutTravelDay ==
    /\ phase = "stays" /\ to_fill # <<>>
    /\ LET name == Head(to_fill).name   n == DaysPerCity(name)
       IN IF n <= 1 THEN UNCHANGED <<today, lodgings>>
          ELSE /\ lodgings' = Append(lodgings, [city |-> name, nights |-> n - 1, check_in |-> today])
               /\ today' = today + n - 1
    /\ to_fill' = Tail(to_fill)
    /\ UNCHANGED <<phase, full, journey, cities, regions, remaining, sequence, shares, base,
                   calendar>>

\* A city of a single day needs no night, and is skipped with its day.
plan_city_accommodation ==
    /\ phase = "stays" /\ to_fill # <<>>
    /\ LET name == Head(to_fill).name   n == DaysPerCity(name)
       IN IF n <= 1 THEN UNCHANGED <<today, lodgings>>
          ELSE /\ lodgings' = Append(lodgings, [city |-> name, nights |-> n - 1, check_in |-> today])
               /\ today' = today + n
    /\ to_fill' = Tail(to_fill)
    /\ UNCHANGED <<phase, full, journey, cities, regions, remaining, sequence, shares, base,
                   calendar>>

AnswerJourney ==
    /\ phase = "stays" /\ to_fill = <<>>
    /\ phase' = "done"
    /\ UNCHANGED <<full, journey, cities, regions, remaining, sequence, shares, to_fill, base,
                   today, calendar, lodgings>>

-----------------------------------------------------------------------------
NothingPlanned ==
    /\ phase = "cluster"
    /\ cities = <<>> /\ regions = <<>> /\ remaining = {} /\ sequence = <<>> /\ shares = <<>>
    /\ to_fill = <<>> /\ base = 1 /\ today = 1 /\ calendar = <<>> /\ lodgings = <<>>

JourneyInit == full \in {FALSE, Full} /\ journey \in Journeys /\ NothingPlanned

JourneyNext ==
    \/ cluster_pois_advanced \/ _optimize_single_city \/ _determine_optimization_strategy
    \/ StartCity \/ NearestCity \/ DistributeDays \/ FillCity \/ EndRegion
    \/ plan_city_accommodation \/ AnswerJourney

JourneySpec == JourneyInit /\ [][JourneyNext]_journeyVars

-----------------------------------------------------------------------------
(* Properties *)

\* The positions of the calendar, as pairs of a day and an index in it.
Positions == UNION {{d} \X DOMAIN calendar[d] : d \in DOMAIN calendar}
Visits(i) == Cardinality({e \in Positions : calendar[e[1]][e[2]] = i})

\* The causes for which a place is left out: its cluster was discarded as too
\* small, a city of the same name is the start, a city got no day.
Discarded == \E i \in DOMAIN journey.pois : \A k \in DOMAIN cities : i \notin ToSet(cities[k].pois)
Namesakes == \E j, k \in DOMAIN cities : j # k /\ cities[j].name = cities[k].name
Squeezed == \E x \in DOMAIN shares : shares[x] < 1

\* No place is visited twice, whatever happens to the days; and when none of
\* the three causes applies every place is visited once, on consecutive days
\* from the first, and a journey planned as one region takes just its days
\* (_distribute_days_among_cities, _simple_daily_distribution, current_day).
EveryPoiVisitedOnce ==
    phase \in {"stays", "done"} =>
        /\ \A i \in DOMAIN journey.pois : Visits(i) <= 1
        /\ ~Discarded /\ ~Namesakes /\ ~Squeezed =>
              /\ \A i \in DOMAIN journey.pois : Visits(i) = 1
              /\ DOMAIN calendar = 1..Cardinality(DOMAIN calendar)
              /\ ~ByCountry => DOMAIN calendar = 1..journey.duration

\* When every city has two days with places or more and no day without, the
\* traveller checks in where the calendar says: the day of the check-in and
\* the nights after it are spent on that city's places
\* (plan_multi_city_accommodations against daily_schedules).
StaysFollowCalendar ==
    /\ phase = "done" /\ ~full /\ ~Namesakes
    /\ \A k \in DOMAIN sequence : \A i \in ToSet(sequence[k].pois) : Poi(i).city = sequence[k].name
    /\ \A d \in DOMAIN calendar : calendar[d] # <<>>
    /\ \A k \in DOMAIN sequence : DaysPerCity(sequence[k].name) >= 2
    => \A k \in DOMAIN lodgings :
          \A d \in lodgings[k].check_in..(lodgings[k].check_in + lodgings[k].nights) :
              d \in DOMAIN calendar /\ \A i \in ToSet(calendar[d]) : Poi(i).city = lodgings[k].city
==============================================================================
