-------------------------- MODULE IntercityTransfers --------------------------
(***************************************************************************)
(* The journeys between bases in the classic method: those the routing of  *)
(* a day makes from where the traveller is, those injected between days    *)
(* whose bases differ, and what the summaries and metrics say of both.     *)
(*                                                                         *)
(* Locations are points along a road and lengths are multiples of a        *)
(* hundred metres. The times of a day and its places are DayRouter's: here *)
(* a journey takes less than a minute, fits into the day or does not.      *)
(***************************************************************************)
EXTENDS Integers, Sequences, Lists

CONSTANTS Trips,       \* day_assignments: sequences of days, each a sequence of [base, spot]
          NoBase,      \* home_base None; a number that is no location
          Brief        \* the longest way that a routing service may say takes no minute

ASSUME LocationsAssumption ==
    /\ Trips \subseteq Seq(Seq([base : Nat \cup {NoBase}, spot : Nat \ {NoBase}]))
    /\ Brief \in Nat

VARIABLES trip,        \* the input
          routing,       \* "day", "clusters", "between", "done"
          cluster,     \* the cluster of the day
          here,        \* current_location
          previous_end_location,
          last_active_base,
          transfers,   \* of the day being routed
          routed,      \* the finished days: [base, transfers, count, km]
          pair,        \* the pair of days being compared
          metrics      \* [detected, listed, km]

transferVars == <<trip, routing, cluster, here, previous_end_location, last_active_base,
                  transfers, routed, pair, metrics>>

Kilometre == 10

Straight(x, y) == IF x > y THEN x - y ELSE y - x

\* The routing service answers with the length of a road or, when it falls back,
\* with the straight distance: it may do the one now and the other later.
Answers(x, y) == {Straight(x, y), Straight(x, y) + Straight(x, y) \div 4}

Lengths(ts) == SumOf([i \in DOMAIN ts |-> ts[i].km])

-----------------------------------------------------------------------------
(* Routing day by day *)

day == Len(routed) + 1
Assigned == trip[day]

\* The first day with clusters gives first_day_hotel, if the first of them has a base.
HotelDays == {i \in DOMAIN trip : trip[i] # <<>> /\ trip[i][1].base # NoBase}
first_day_hotel ==
    IF HotelDays = {} THEN NoBase
    ELSE trip[CHOOSE i \in HotelDays : \A j \in HotelDays : i <= j][1].base

\* A free day inherits the base of the last active one.
FreeDay ==
    /\ routing = "day" /\ day <= Len(trip) /\ Assigned = <<>>
    /\ routed' = Append(routed, [base |-> last_active_base, transfers |-> <<>>, count |-> 0, km |-> 0])
    /\ UNCHANGED <<trip, routing, cluster, here, previous_end_location, last_active_base,
                   transfers, pair, metrics>>

BeginDay ==
    /\ routing = "day" /\ day <= Len(trip) /\ Assigned # <<>>
    /\ here' = IF previous_end_location # NoBase THEN previous_end_location
               ELSE IF first_day_hotel # NoBase THEN first_day_hotel ELSE Assigned[1].spot
    /\ transfers' = <<>> /\ cluster' = 1 /\ routing' = "clusters"
    /\ UNCHANGED <<trip, previous_end_location, last_active_base, routed, pair, metrics>>

Stop == Assigned[cluster]

\* More than a hundred metres are a distance; a base nearer by is reached all the same.
Significant(x, y) == Straight(x, y) > 1
MustTravel == Stop.base # NoBase /\ Significant(here, Stop.base)

\* At the base already or as good as, or no base to go to: then the traveller is
\* where the last activity was, if there was one.
RouteHere ==
    /\ routing = "clusters" /\ cluster <= Len(Assigned) /\ ~MustTravel
    /\ here' \in IF Stop.base = NoBase THEN {here, Stop.spot} ELSE {Stop.base}
    /\ cluster' = cluster + 1
    /\ UNCHANGED <<trip, routing, previous_end_location, last_active_base, transfers, routed,
                   pair, metrics>>

\* int(duration) is 0: no transfer is listed, but the traveller is at the base.
ShortDrive ==
    /\ routing = "clusters" /\ cluster <= Len(Assigned) /\ MustTravel
    /\ Straight(here, Stop.base) <= Brief
    /\ here' = Stop.base
    /\ cluster' = cluster + 1
    /\ UNCHANGED <<trip, routing, previous_end_location, last_active_base, transfers, routed,
                   pair, metrics>>

\* The transfer fits into the day; after the activities it ends at the base again.
TravelToBase ==
    /\ routing = "clusters" /\ cluster <= Len(Assigned) /\ MustTravel
    /\ \E km \in Answers(here, Stop.base) :
           transfers' = Append(transfers, [from |-> here, to |-> Stop.base, km |-> km, injected |-> FALSE])
    /\ here' = Stop.base
    /\ cluster' = cluster + 1
    /\ UNCHANGED <<trip, routing, previous_end_location, last_active_base, routed, pair, metrics>>

\* It does not fit: the transfer is lost and so are the day's other clusters.
Overnight ==
    /\ routing = "clusters" /\ cluster <= Len(Assigned) /\ MustTravel
    /\ cluster' = Len(Assigned) + 1
    /\ UNCHANGED <<trip, routing, here, previous_end_location, last_active_base, transfers, routed,
                   pair, metrics>>

\* Mutant of end_location: the day ends at its base.
EndsAtBase == IF Assigned[1].base # NoBase THEN Assigned[1].base ELSE here

end_location == here

\* The base of the day is that of its first cluster.
FinishDay ==
    /\ routing = "clusters" /\ cluster > Len(Assigned)
    /\ routed' = Append(routed, [base |-> Assigned[1].base, transfers |-> transfers,
                                 count |-> Len(transfers), km |-> Lengths(transfers)])
    /\ previous_end_location' = end_location
    /\ last_active_base' = IF Assigned[1].base # NoBase THEN Assigned[1].base ELSE last_active_base
    /\ routing' = "day"
    /\ UNCHANGED <<trip, cluster, here, transfers, pair, metrics>>

AllRouted ==
    /\ routing = "day" /\ day > Len(trip)
    /\ routing' = "between" /\ pair' = 1
    /\ UNCHANGED <<trip, cluster, here, previous_end_location, last_active_base, transfers,
                   routed, metrics>>

-----------------------------------------------------------------------------
(* Between the days *)

LongKm == 30 * Kilometre
FLIGHT_THRESHOLD_KM == 1000 * Kilometre

BasesDiffer ==
    /\ NoBase \notin {routed[pair].base, routed[pair + 1].base}
    /\ Straight(routed[pair].base, routed[pair + 1].base) > LongKm

\* Beyond the threshold a flight of the straight distance, whatever the service says.
InjectedLengths(x, y) ==
    IF Straight(x, y) > FLIGHT_THRESHOLD_KM THEN {Straight(x, y)} ELSE Answers(x, y)

\* A transfer of the day that is as long, but for a kilometre, is taken for this one.
Listed(ts, km) == \E i \in DOMAIN ts : Straight(ts[i].km, km) < Kilometre

\* Mutant of Injected: the summary of the day is not updated.
InjectedUncounted(d, tr) == [d EXCEPT !.transfers = <<tr>> \o @]

Injected(d, tr) ==
    [d EXCEPT !.transfers = <<tr>> \o @, !.count = @ + 1, !.km = @ + tr.km]

_inject_intercity_transfers_between_days ==
    /\ routing = "between" /\ pair < Len(routed)
    /\ \/ ~BasesDiffer /\ UNCHANGED routed
       \/ /\ BasesDiffer
          /\ LET x == routed[pair].base
                 y == routed[pair + 1].base
             IN  \E km \in InjectedLengths(x, y) :
                     routed' = IF Listed(routed[pair + 1].transfers, km) THEN routed
                               ELSE [routed EXCEPT ![pair + 1] =
                                        Injected(@, [from |-> x, to |-> y, km |-> km, injected |-> TRUE])]
    /\ pair' = pair + 1
    /\ UNCHANGED <<trip, routing, cluster, here, previous_end_location, last_active_base,
                   transfers, metrics>>

calculate_enhanced_metrics ==
    /\ routing = "between" /\ pair >= Len(routed)
    /\ metrics' = [detected |-> SumOf([i \in DOMAIN routed |-> routed[i].count]),
                   listed |-> Joined([i \in DOMAIN routed |-> routed[i].transfers]),
                   km |-> SumOf([i \in DOMAIN routed |-> routed[i].km])]
    /\ routing' = "done"
    /\ UNCHANGED <<trip, cluster, here, previous_end_location, last_active_base, transfers,
                   routed, pair>>

-----------------------------------------------------------------------------
NothingRouted ==
    /\ cluster = 1 /\ here = NoBase /\ previous_end_location = NoBase /\ last_active_base = NoBase
    /\ transfers = <<>> /\ routed = <<>> /\ pair = 1
    /\ metrics = [detected |-> 0, listed |-> <<>>, km |-> 0]

TransfersInit == trip \in Trips /\ routing = "day" /\ NothingRouted

TransfersNext ==
    \/ FreeDay \/ BeginDay \/ RouteHere \/ ShortDrive \/ TravelToBase \/ Overnight \/ FinishDay
    \/ AllRouted \/ _inject_intercity_transfers_between_days \/ calculate_enhanced_metrics

TransfersSpec == TransfersInit /\ [][TransfersNext]_transferVars

-----------------------------------------------------------------------------
(* Properties *)

\* The transfers that are not injected.
ByRouting == [from : Nat, to : Nat, km : Nat, injected : {FALSE}]

AllHaveBases == \A d \in DOMAIN trip : \A k \in DOMAIN trip[d] : trip[d][k].base # NoBase

TripBases == UNION {{trip[d][k].base : k \in DOMAIN trip[d]} : d \in DOMAIN trip}

\* y can be reached from x over these bases without a listed journey: it lies in
\* every set of them that holds x and that no short drive leads out of.
UnlistedWay(bases, x, y) ==
    \A S \in SUBSET bases :
        (\A u \in S, v \in bases : (~Significant(u, v) \/ Straight(u, v) <= Brief) => v \in S)
            => (x \in S => y \in S)

\* Where every cluster has a base, the journeys made while routing are one journey:
\* each begins where the one before it ended, over free days, days in two cities and
\* transfers that were lost to the night, or where drives too short to be listed led
\* from there. With no two bases that near it is the same base.
OneJourney ==
    (routing = "done" /\ AllHaveBases) =>
        LET made == Kept(metrics.listed, ByRouting)
        IN  \A i \in 1..(Len(made) - 1) : UnlistedWay(TripBases, made[i].to, made[i + 1].from)

\* When a day's base is far from that of the day before, a free day's inherited one
\* included, the day has a transfer at least that long, but for a kilometre that
\* Listed allows.
FarBaseHasTransfer ==
    routing = "done" =>
        \A d \in 1..(Len(routed) - 1) :
            LET x == routed[d].base
                y == routed[d + 1].base
            IN  (NoBase \notin {x, y} /\ Straight(x, y) > LongKm)
                    => \E i \in DOMAIN routed[d + 1].transfers :
                           routed[d + 1].transfers[i].km + Kilometre > Straight(x, y)

\* The summaries of the days, kept in two places, and the transfers themselves agree
\* in number and length when the metrics are made of them, and no change of base far
\* enough is missing among them.
MetricsAgree ==
    routing = "done" =>
        /\ FarBaseHasTransfer
        /\ metrics.detected = Len(metrics.listed)
        /\ metrics.km = Lengths(metrics.listed)
==============================================================================
