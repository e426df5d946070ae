----------------------------- MODULE ClassicPlan -----------------------------
(***************************************************************************)
(* The planning half of _optimize_classic_method, before the days are      *)
(* routed (DayRouter): the places are validated and clustered, every       *)
(* cluster gets a home base, the clusters are dealt to the days and packed.*)
(*                                                                         *)
(* Geography is abstract: which clusters DBSCAN finds, which cluster is    *)
(* closest to a hotel and how far apart the places of a cluster are is any *)
(* answer that haversine_km could give. A place is its index in the input. *)
(* One optimizer serves one request, so the awaits in between let nobody   *)
(* else touch this state.                                                  *)
(***************************************************************************)
EXTENDS Naturals, Sequences, FiniteSets, SequencesExt, Lists

CONSTANTS Inputs,       \* the requests' lists of places, as [type, coords] records
          DayCounts,    \* lengths of the trip
          MaxPerDay     \* MAX_ACTIVITIES_PER_DAY

\* Lists are finite; the last day of a trip is not before its first.
ASSUME PlanAssumption ==
    /\ \A x \in Inputs : x \in Seq({x[i] : i \in DOMAIN x})
    /\ DayCounts \subseteq Nat \ {0} /\ MaxPerDay \in Nat \ {0}

VARIABLES stage,    \* the next step of the method
          input,    \* places of the request
          valid,    \* indices that passed the validation, in order
          clusters, \* sequence of [places, base]
          days,     \* what is assigned to each day: a sequence of clusters
          strategy, \* packing_strategy
          hotels    \* the request has accommodations of its own

planVars == <<stage, input, valid, clusters, days, strategy, hotels>>

Indices(s) == [i \in 1..Len(s) |-> i]
Stays == UNCHANGED <<input, strategy, hotels>>

-----------------------------------------------------------------------------
(* Validation *)

\* A latitude up to five degrees out of range is clamped; a longitude is moved
\* by a whole turn, which is never a small correction.
_attempt_coordinate_correction(c) == c = "lat_slightly_out"

\* In range and not at the origin, or correctable. Text that float() rejects
\* is caught and left out.
Accepted(c) == c = "in_range" \/ _attempt_coordinate_correction(c)

validate_coordinates ==
    /\ stage = "validate"
    /\ valid' = Kept(Indices(input), {i \in DOMAIN input : Accepted(input[i].coords)})
    /\ stage' = IF valid' = <<>> THEN "free_days" ELSE "cluster"
    /\ UNCHANGED <<clusters, days>> /\ Stays

-----------------------------------------------------------------------------
(* Clusters and their bases *)

POIs == Kept(valid, {i \in DOMAIN input : input[i].type # "accommodation"})
Accommodations == {i \in ToSet(valid) : input[i].type = "accommodation"}

\* What DBSCAN may label n points: labels appear in order, noise points have
\* one of their own.
Labelings(n) ==
    {l \in [1..n -> 1..n] :
        \A i \in 1..n : l[i] = 1 \/ \E j \in 1..(i - 1) : l[j] >= l[i] - 1}

cluster_pois ==
    /\ stage = "cluster"
    /\ IF POIs = <<>> THEN stage' = "free_days" /\ UNCHANGED clusters
       ELSE /\ \E l \in Labelings(Len(POIs)) :
                   clusters' = [k \in 1..Cardinality({l[i] : i \in DOMAIN l}) |->
                       [places |-> Kept(POIs, {POIs[i] : i \in {j \in DOMAIN POIs : l[j] = k}}),
                        base |-> "none"]]
            /\ stage' = "bases"
    /\ UNCHANGED <<valid, days>> /\ Stays

\* An accommodation among the places is the base of the cluster closest to it,
\* unless an earlier one is already.
OriginalBases(near) ==
    [k \in DOMAIN clusters |->
        [clusters[k] EXCEPT !.base = IF \E a \in DOMAIN near : near[a] = k
                                     THEN "original" ELSE "none"]]

\* The request's own accommodations: every cluster without a base gets the
\* closest of them.
_assign_user_hotels_to_clusters(cs) ==
    [k \in DOMAIN cs |-> IF hotels /\ cs[k].base = "none"
                         THEN [cs[k] EXCEPT !.base = "user_provided"] ELSE cs[k]]

\* What is left over: the recommender's hotel, a hotel near a remote cluster, or
\* a virtual base made of the cluster's places, also when a service raises.
Recommendations == {"recommended", "google_places_hotel", "enhanced_fallback"}

_recommend_hotels_for_clusters(cs, found) ==
    [k \in DOMAIN cs |-> IF cs[k].base = "none" THEN [cs[k] EXCEPT !.base = found[k]] ELSE cs[k]]

assign_home_base_to_clusters ==
    /\ stage = "bases"
    /\ \E near \in [Accommodations -> DOMAIN clusters], found \in [DOMAIN clusters -> Recommendations] :
           clusters' = _recommend_hotels_for_clusters(
                           _assign_user_hotels_to_clusters(OriginalBases(near)), found)
    /\ stage' = "allocate"
    /\ UNCHANGED <<valid, days>> /\ Stays

-----------------------------------------------------------------------------
(* Allocation to days *)

NDays == Len(days)
AddTo(ds, d, c) == [ds EXCEPT ![d] = Append(@, c)]
Part(c, ps) == [places |-> ps, base |-> c.base]
Singles(c, ps) == [i \in DOMAIN ps |-> Part(c, <<ps[i]>>)]

\* min() over the days: the first of the least loaded ones.
LeastLoaded(ds) ==
    CHOOSE d \in DOMAIN ds :
        \A e \in DOMAIN ds : /\ Len(ds[d]) <= Len(ds[e])
                             /\ e < d => Len(ds[d]) < Len(ds[e])

\* A turn of a loop: a part to be appended to a day, or to the least loaded one of
\* the days as they are when its turn comes.
Least == 0
Turn(part, d) == [part |-> part, day |-> d]
AddTurn(ds, turn) ==
    AddTo(ds, IF turn.day = Least THEN LeastLoaded(ds) ELSE turn.day, turn.part)

Dealt(ds, turns) ==
    LET dealt[n \in 0..Len(turns)] ==
            IF n = 0 THEN ds ELSE AddTurn(dealt[n - 1], turns[n])
    IN  dealt[Len(turns)]

\* i % len(day_keys), where i counts from 0
RoundRobin(i) == ((i - 1) % NDays) + 1

\* One place a day while there are days, then the least loaded one.
_distribute_relaxed_mode ==
    LET singles == Joined([k \in DOMAIN clusters |-> Singles(clusters[k], clusters[k].places)])
    IN  Dealt(days, [i \in DOMAIN singles |-> Turn(singles[i], IF i <= NDays THEN i ELSE Least)])

\* Up to two places stay together; how far apart more of them are decides.
_evaluate_route_sequences(ps) ==
    IF Len(ps) <= 2 THEN {"group_same_day"}
    ELSE {"group_same_day", "group_pairs", "distribute", "distribute_far"}
SeveralWays == {k \in DOMAIN clusters : Cardinality(_evaluate_route_sequences(clusters[k].places)) > 1}

\* Mutant of Pairs: steps of two, slices of one.
PairsTruncated(ps) == [n \in 1..((Len(ps) + 1) \div 2) |-> SubSeq(ps, 2 * n - 1, 2 * n - 1)]

Pairs(ps) == [n \in 1..((Len(ps) + 1) \div 2) |->
                 SubSeq(ps, 2 * n - 1, IF 2 * n <= Len(ps) THEN 2 * n ELSE Len(ps))]

\* Single places go round the days from the first one, whatever is there.
OneByOne(c, ps) == [i \in DOMAIN ps |-> Turn(Singles(c, ps)[i], RoundRobin(i))]

\* ranking: the places sorted by their distance to the others.
DealCluster(c, suggestion, ranking) ==
    CASE suggestion = "group_same_day" -> <<Turn(c, Least)>>
      [] suggestion = "group_pairs" ->
             [n \in DOMAIN Pairs(c.places) |-> Turn(Part(c, Pairs(c.places)[n]), Least)]
      [] suggestion = "distribute" -> OneByOne(c, c.places)
      [] suggestion = "distribute_far" -> OneByOne(c, Kept(ranking, ToSet(c.places)))

_distribute_balanced_mode(suggested, ranking) ==
    Dealt(days, Joined([k \in DOMAIN clusters |->
                            DealCluster(clusters[k],
                                        IF k \in SeveralWays THEN suggested[k] ELSE "group_same_day",
                                        ranking)]))

_distribute_intensive_mode == Dealt(days, [k \in DOMAIN clusters |-> Turn(clusters[k], Least)])

TotalPlaces == Len(POIs)
Rankings == {q \in [DOMAIN POIs -> ToSet(POIs)] : ToSet(q) = ToSet(POIs)}

\* Days per place: 1.5 and more, 0.8 and more, fewer.
allocate_clusters_to_days ==
    /\ stage = "allocate"
    /\ IF 2 * NDays >= 3 * TotalPlaces THEN days' = _distribute_relaxed_mode
       ELSE IF 10 * NDays >= 8 * TotalPlaces
       THEN \E suggested \in [SeveralWays -> UNION {_evaluate_route_sequences(clusters[k].places) :
                                                    k \in SeveralWays}],
               ranking \in Rankings :
                   days' = _distribute_balanced_mode(suggested, ranking)
       ELSE days' = _distribute_intensive_mode
    /\ stage' = "pack"
    /\ UNCHANGED <<valid, clusters>> /\ Stays

-----------------------------------------------------------------------------
(* Packing *)

AllClusters == Joined(days)
NoDays == [d \in 1..NDays |-> <<>>]

\* From the first day on, MaxPerDay clusters a day; what is left after the last
\* day is dropped.
Packed(acc, c) ==
    IF acc.day > NDays THEN acc
    ELSE LET ds == AddTo(acc.days, acc.day, c)
         IN  [days |-> ds, day |-> IF Len(ds[acc.day]) >= MaxPerDay THEN acc.day + 1 ELSE acc.day]

_pack_compact ==
    LET packed[n \in 0..Len(AllClusters)] ==
            IF n = 0 THEN [days |-> NoDays, day |-> 1]
            ELSE Packed(packed[n - 1], AllClusters[n])
    IN  packed[Len(AllClusters)].days

\* Round robin, whatever the allocation has decided.
_pack_balanced ==
    Dealt(NoDays, [i \in DOMAIN AllClusters |-> Turn(AllClusters[i], RoundRobin(i))])

_pack_cluster_first == days

pack_activities_by_strategy ==
    /\ stage = "pack"
    /\ days' = CASE strategy = "compact" -> _pack_compact
                 [] strategy = "cluster_first" -> _pack_cluster_first
                 [] OTHER -> _pack_balanced
    /\ stage' = "route"
    /\ UNCHANGED <<valid, clusters>> /\ Stays

\* Nothing to plan: all days are free.
_generate_free_days_with_suggestions ==
    /\ stage = "free_days"
    /\ days' = NoDays
    /\ stage' = "route"
    /\ UNCHANGED <<valid, clusters>> /\ Stays

-----------------------------------------------------------------------------
PlanInit ==
    /\ stage = "validate"
    /\ input \in Inputs
    /\ valid = <<>> /\ clusters = <<>>
    /\ days \in {[d \in 1..n |-> <<>>] : n \in DayCounts}
    /\ strategy \in {"balanced", "compact", "cluster_first"}
    /\ hotels \in BOOLEAN

PlanNext ==
    \/ validate_coordinates \/ cluster_pois \/ assign_home_base_to_clusters
    \/ allocate_clusters_to_days \/ pack_activities_by_strategy
    \/ _generate_free_days_with_suggestions

PlanSpec == PlanInit /\ [][PlanNext]_planVars

-----------------------------------------------------------------------------
(* Properties *)

Planned == Joined([i \in DOMAIN AllClusters |-> AllClusters[i].places])

\* However the clusters are split, dealt and packed, no place is planned twice,
\* and none is lost: only the compact strategy drops places, and only when every
\* day is full.
EveryPlaceOnce ==
    stage = "route" =>
        /\ IsInjective(Planned)
        /\ ToSet(Planned) \subseteq ToSet(POIs)
        /\ ToSet(Planned) # ToSet(POIs) =>
               strategy = "compact" /\ \A d \in DOMAIN days : Len(days[d]) = MaxPerDay

\* Every planned place has a base, the one that its cluster was given: an
\* accommodation of the places wins over the request's, that over a
\* recommendation, and no failing service leaves a cluster without one.
EveryPlaceHasItsBase ==
    stage = "route" =>
        \A i \in DOMAIN AllClusters :
            /\ AllClusters[i].base # "none"
            /\ AllClusters[i].base \in Recommendations => ~hotels
            /\ \E k \in DOMAIN clusters :
                   /\ ToSet(AllClusters[i].places) \subseteq ToSet(clusters[k].places)
                   /\ AllClusters[i].base = clusters[k].base
            /\ Accommodations # {} => \E k \in DOMAIN clusters : clusters[k].base = "original"

\* What the days are routed from, once planned: every place once, with its base.
PlanComplete == EveryPlaceOnce /\ EveryPlaceHasItsBase
==============================================================================
