------------------------------ MODULE DayRouter ------------------------------
(***************************************************************************)
(* The day by day routing of the classic optimizer in                      *)
(* utils/hybrid_optimizer_v31.py: the loop over the days of a trip,        *)
(* route_day_enhanced and _route_cluster_with_time_windows.                *)
(*                                                                         *)
(* route_day_enhanced has its own idea of time and place (now, loc) and    *)
(* the routing of a cluster another (t, at); the first is brought up to    *)
(* date from the last entry of the cluster's timeline. Times are minutes   *)
(* since midnight. A location is a name; the minutes a transfer takes come *)
(* from the routing service and are any of TravelMinutes.                  *)
(***************************************************************************)
EXTENDS Integers, Sequences

CONSTANTS Trips,          \* the possible inputs: sequences of days
          TravelMinutes,  \* what the routing service may answer
          Locations,      \* coordinates
          NoLocation      \* None

PlaceTypes == {"restaurant", "museum", "shopping", "park", "accommodation"}

Place == [loc : Locations, type : PlaceTypes, priority : Nat]

\* A cluster of places with its home_base, or none. cluster_pois makes no
\* empty clusters.
Cluster == [home : Locations \cup {NoLocation}, places : Seq(Place) \ {<<>>}]

\* A day: its window, in minutes, and the clusters assigned to it.
Day == [start : Nat, end : Nat, clusters : Seq(Cluster)]

ASSUME TripsAssumption ==
    /\ NoLocation \notin Locations
    /\ TravelMinutes \subseteq Nat
    /\ \A x \in Trips : x \in Seq(Day)
    /\ \A x \in Trips : \A i \in DOMAIN x : x[i].start + 60 <= x[i].end

VARIABLES trip,       \* day_assignments, sorted by date
          day,        \* the day being routed
          phase,      \* where in the day
          c,          \* the cluster being routed
          now,        \* route_day_enhanced: current_time
          loc,        \* route_day_enhanced: current_location
          begun,      \* the cluster: start_time
          t,          \* the cluster: current_time
          at,         \* the cluster: current_location
          todo,       \* the cluster: activity_places not yet tried
          last,       \* the cluster: kind of the last entry of its timeline
          scheduled,  \* activities_scheduled of all days
          free,       \* free_blocks of all days
          previous    \* previous_end_location

clusterVars == <<begun, t, at, todo, last>>
vars == <<trip, day, phase, c, now, loc, clusterVars, scheduled, free, previous>>

\* An entry of activities_scheduled: place 0 of cluster 0 is the check-in,
\* place 0 of another cluster the journey to it.
Activity == [day : Nat, cluster : Nat, place : Nat, start : Nat, end : Nat]

TypeOK ==
    /\ day \in 1..(Len(trip) + 1)
    /\ phase \in {"day", "cluster", "place", "blocks"}
    /\ c \in Nat /\ now \in Nat
    /\ loc \in Locations \cup {NoLocation}
    /\ begun \in Nat /\ t \in Nat
    /\ at \in Locations \cup {NoLocation}
    /\ todo \subseteq Nat
    /\ last \in {"none", "transfer", "activity"}
    /\ scheduled \subseteq Activity
    /\ free \subseteq [day : Nat, start : Nat, end : Nat]
    /\ previous \in Locations \cup {NoLocation}

Init ==
    /\ trip \in Trips
    /\ day = 1 /\ phase = "day" /\ c = 0
    /\ now = 0 /\ loc = NoLocation
    /\ begun = 0 /\ t = 0 /\ at = NoLocation /\ todo = {} /\ last = "none"
    /\ scheduled = {} /\ free = {}
    /\ previous = NoLocation

-----------------------------------------------------------------------------
(* Settings and pure helpers *)

Hour == 60
Later(x, y) == IF x >= y THEN x ELSE y
Earlier(x, y) == IF x <= y THEN x ELSE y

\* get_preferred_time_window, with the hours of settings.py.
PreferredWindows(type, d) ==
    CASE type = "restaurant" -> << [start |-> 12 * Hour, end |-> 15 * Hour],
                                   [start |-> 19 * Hour, end |-> 22 * Hour] >>
      [] type = "museum"     -> << [start |-> Later(d.start, 10 * Hour),
                                    end |-> Earlier(d.end, 17 * Hour)] >>
      [] type = "shopping"   -> << [start |-> Later(d.start, 10 * Hour),
                                    end |-> Earlier(d.end, 20 * Hour)] >>
      [] OTHER               -> << [start |-> d.start, end |-> d.end] >>

\* _estimate_activity_duration
Duration(type) ==
    CASE type = "restaurant" -> 90
      [] type \in {"museum", "shopping"} -> 120
      [] OTHER -> 60

\* The window can take an activity of this duration, now or when it begins.
Fits(w, earliest, duration) ==
    Later(earliest, w.start) + duration <= w.end

\* _find_best_time_slot: the first window that fits, or no window at all.
FindBestTimeSlot(earliest, duration, windows) ==
    IF \E i \in DOMAIN windows : Fits(windows[i], earliest, duration)
    THEN LET first == CHOOSE j \in DOMAIN windows :
                          /\ Fits(windows[j], earliest, duration)
                          /\ \A k \in DOMAIN windows : k < j => ~Fits(windows[k], earliest, duration)
         IN  Later(earliest, windows[first].start)
    ELSE earliest

\* time_preference_score: restaurants first if the cluster begins at meal time.
Score(p) ==
    IF p.type = "restaurant" /\ (begun - 12 * Hour \in 0..180 \/ begun - 19 * Hour \in 0..180)
    THEN 1000
    ELSE p.priority

-----------------------------------------------------------------------------
Today == trip[day]
ThisCluster == Today.clusters[c]

\* sorted(..., reverse=True) is stable: of the best scores left, the first.
IsNextPlace(i) ==
    /\ i \in todo
    /\ \A j \in todo :
          \/ Score(ThisCluster.places[i]) > Score(ThisCluster.places[j])
          \/ Score(ThisCluster.places[i]) = Score(ThisCluster.places[j]) /\ i <= j

\* The days whose first cluster has a base; first_day_hotel is that of the
\* earliest.
HotelDays == {i \in DOMAIN trip : trip[i].clusters # <<>> /\ trip[i].clusters[1].home # NoLocation}

\* Where the day starts: where the last one ended, or else at first_day_hotel,
\* or else at the first place of the day's first cluster.
StartsAt(where) ==
    \/ /\ previous # NoLocation
       /\ where = previous
    \/ /\ previous = NoLocation
       /\ \E i \in HotelDays :
             /\ \A j \in HotelDays : i <= j
             /\ where = trip[i].clusters[1].home
    \/ /\ previous = NoLocation /\ HotelDays = {}
       /\ where = Today.clusters[1].places[1].loc

\* A day without clusters is one free block.
FreeDay ==
    /\ phase = "day" /\ day <= Len(trip) /\ Today.clusters = <<>>
    /\ free' = free \cup {[day |-> day, start |-> Today.start, end |-> Today.end]}
    /\ day' = day + 1
    /\ UNCHANGED <<trip, phase, c, now, loc, clusterVars, scheduled, previous>>

\* route_day_enhanced begins; the first day begins with half an hour of check-in.
BeginDay ==
    /\ phase = "day" /\ day <= Len(trip) /\ Today.clusters # <<>>
    /\ \E where \in Locations : StartsAt(where) /\ loc' = where
    /\ IF day = 1
       THEN /\ now' = Today.start + 30
            /\ scheduled' = scheduled \cup {[day |-> 1, cluster |-> 0, place |-> 0,
                                             start |-> Today.start, end |-> Today.start + 30]}
       ELSE now' = Today.start /\ UNCHANGED scheduled
    /\ phase' = "cluster" /\ c' = 1
    /\ UNCHANGED <<trip, day, clusterVars, free, previous>>

\* _route_cluster_with_time_windows is called at time `time`.
RouteCluster(time) ==
    /\ phase' = "place"
    /\ begun' = time /\ t' = time
    /\ at' = IF ThisCluster.home # NoLocation THEN ThisCluster.home ELSE ThisCluster.places[1].loc
    /\ todo' = {i \in DOMAIN ThisCluster.places : ThisCluster.places[i].type # "accommodation"}
    /\ last' = "none"

\* The cluster has no base, or we are within 100 m of it: no transfer. (Two
\* different names may be that close.)
EnterCluster ==
    /\ phase = "cluster" /\ c <= Len(Today.clusters)
    /\ loc' = IF ThisCluster.home # NoLocation THEN ThisCluster.home ELSE loc
    /\ RouteCluster(now)
    /\ UNCHANGED <<trip, day, c, now, scheduled, free, previous>>

\* The transfer to the base of the cluster fits into the day. One of three
\* hours or more is an activity as well.
TransferToCluster(minutes) ==
    /\ phase = "cluster" /\ c <= Len(Today.clusters)
    /\ ThisCluster.home \notin {NoLocation, loc}
    /\ now + minutes <= Today.end
    /\ now' = now + minutes
    /\ scheduled' = IF minutes >= 180
                    THEN scheduled \cup {[day |-> day, cluster |-> c, place |-> 0,
                                          start |-> now, end |-> now + minutes]}
                    ELSE scheduled
    /\ loc' = ThisCluster.home
    /\ RouteCluster(now')
    /\ UNCHANGED <<trip, day, c, free, previous>>

\* The transfer does not fit: it is marked overnight and the loop over the
\* clusters of the day is left.
Overnight(minutes) ==
    /\ phase = "cluster" /\ c <= Len(Today.clusters)
    /\ ThisCluster.home \notin {NoLocation, loc}
    /\ now + minutes > Today.end
    /\ phase' = "blocks"
    /\ UNCHANGED <<trip, day, c, now, loc, clusterVars, scheduled, free, previous>>

\* The next place in order of preference: transfer, slot, activity. If it does
\* not fit even without its preferred windows the rest of the cluster is given
\* up, but the transfer stays in the timeline.
VisitPlace(i, minutes) ==
    /\ phase = "place" /\ IsNextPlace(i)
    /\ LET p == ThisCluster.places[i]
           arrival == IF at # p.loc THEN t + minutes ELSE t
           best == FindBestTimeSlot(arrival, Duration(p.type), PreferredWindows(p.type, Today))
           start == IF best + Duration(p.type) > Today.end THEN arrival ELSE best
           end == start + Duration(p.type)
       IN  IF end <= Today.end
           THEN /\ scheduled' = scheduled \cup {[day |-> day, cluster |-> c, place |-> i,
                                                 start |-> start, end |-> end]}
                /\ t' = end
                /\ at' = p.loc
                /\ todo' = todo \ {i}
                /\ last' = "activity"
           ELSE /\ t' = arrival
                /\ todo' = {}
                /\ last' = IF at # p.loc THEN "transfer" ELSE last
                /\ UNCHANGED <<scheduled, at>>
    /\ UNCHANGED <<trip, day, phase, c, now, loc, begun, free, previous>>

ClusterHasActivities == \E a \in scheduled : a.day = day /\ a.cluster = c /\ a.place > 0

\* The return transfer is appended when the cluster did not end at its hotel.
ReturnTransfer ==
    ThisCluster.home # NoLocation /\ at # ThisCluster.home /\ ClusterHasActivities

\* Mutant of LeaveCluster: the return to the hotel is forgotten.
LeaveClusterNoReturn ==
    /\ phase = "place" /\ todo = {}
    /\ IF last = "activity"
       THEN now' = t /\ loc' = at
       ELSE UNCHANGED <<now, loc>>
    /\ phase' = "cluster" /\ c' = c + 1
    /\ UNCHANGED <<trip, day, clusterVars, scheduled, free, previous>>

\* The cluster is done. Transfers are dicts, without end_time, lat or lon: only
\* if the last entry is an activity does route_day_enhanced learn the time and
\* the place it has reached.
LeaveCluster ==
    /\ phase = "place" /\ todo = {}
    /\ IF last = "activity" /\ ~ReturnTransfer
       THEN now' = t /\ loc' = at
       ELSE UNCHANGED <<now, loc>>
    /\ phase' = "cluster" /\ c' = c + 1
    /\ UNCHANGED <<trip, day, clusterVars, scheduled, free, previous>>

\* Free time from `now` to the end of the window; the next day starts here.
FinishDay ==
    /\ phase = "blocks" \/ (phase = "cluster" /\ c > Len(Today.clusters))
    /\ free' = IF now < Today.end
               THEN free \cup {[day |-> day, start |-> now, end |-> Today.end]}
               ELSE free
    /\ previous' = loc
    /\ day' = day + 1 /\ phase' = "day"
    /\ UNCHANGED <<trip, c, now, loc, clusterVars, scheduled>>

Next ==
    \/ FreeDay \/ BeginDay
    \/ EnterCluster \/ LeaveCluster \/ FinishDay
    \/ \E minutes \in TravelMinutes :
          \/ TransferToCluster(minutes) \/ Overnight(minutes)
          \/ \E i \in todo : VisitPlace(i, minutes)

Spec == Init /\ [][Next]_vars

-----------------------------------------------------------------------------
(* Properties *)

\* Whatever the routing service answers, everything scheduled for a day lies
\* in the window of that day: check-in, journeys and activities.
WithinWindow ==
    \A a \in scheduled :
        trip[a.day].start <= a.start /\ a.start <= a.end /\ a.end <= trip[a.day].end

Disjoint(a, b) == a.end <= b.start \/ b.end <= a.start

\* Nobody is at two places at once within one cluster, although slots are
\* moved into preferred windows and back; and nothing overlaps the check-in.
ClusterDisjoint ==
    \A a, b \in scheduled :
        (a # b /\ a.day = b.day /\ (a.cluster = b.cluster \/ a.cluster = 0))
            => Disjoint(a, b)

\* "SALIR del hotel, actividades, REGRESAR al hotel": after a cluster with a
\* base the day goes on from that base, whether all its places were visited,
\* some did not fit or the last one is the hotel itself. The next cluster and
\* the next day depend on it.
ReturnsToHotel ==
    (phase = "cluster" /\ c > 1 /\ Today.clusters[c - 1].home # NoLocation)
        => loc = Today.clusters[c - 1].home

\* What the comment "Actualizar posicion y tiempo" after the routing of a
\* cluster says: the time is brought up to date, so that the next cluster does
\* not begin before the last activity of this one has ended.
TimeUpdated ==
    (phase = "cluster" /\ day <= Len(trip))
        => \A a \in scheduled : a.day = day => a.end <= now

\* What holds of the schedule and of the traveller's place while the days of a
\* trip are routed, and when they are.
RouterSafe == TypeOK /\ WithinWindow /\ ClusterDisjoint /\ ReturnsToHotel
==============================================================================
