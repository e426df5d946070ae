--------------------------- MODULE PlanningProofs ---------------------------
(***************************************************************************)
(* Theorems about how a request is planned: DayRouter (the timeline of     *)
(* every day, whatever the routing service answers), DecisionEngine (which *)
(* optimiser is chosen, however old the answers in its caches are) and     *)
(* ORToolsPipeline (what becomes of the places on the way to the solver    *)
(* and back). They hold for any trips, locations, requests, tours, times   *)
(* to live and routes of the solver.                                       *)
(***************************************************************************)
EXTENDS DayRouter, DecisionEngine, ORToolsPipeline, RecursionLemmas,
        FunctionTheorems, FiniteSetTheorems, TLAPS

-----------------------------------------------------------------------------
(* DayRouter *)

USE TripsAssumption

\* Where the router is: the day and the cluster exist, the time of the day has
\* passed its start and the time of the cluster that of the day; with a base,
\* the day's location is the base; an activity at the end of the cluster's
\* timeline is an activity of that cluster.
Position ==
    /\ trip \in Trips
    /\ phase # "day" => /\ day \in DOMAIN trip
                        /\ c >= 1
                        /\ Today.start <= now
    /\ phase = "place" =>
          /\ c \in DOMAIN Today.clusters
          /\ now <= t
          /\ todo \subseteq DOMAIN ThisCluster.places
          /\ ThisCluster.home # NoLocation => loc = ThisCluster.home
          /\ last = "activity" => ClusterHasActivities

\* What has been scheduled so far relative to where the router is.
Past(a) ==
    /\ a.day \in DOMAIN trip /\ a.day <= day
    /\ phase = "day" => a.day < day
    /\ a.day = day => /\ a.cluster <= c
                      /\ phase = "cluster" => a.cluster < c
                      /\ a.cluster = 0 => a.end <= now
                      /\ phase = "place" /\ a.cluster = c => a.end <= t

AllPast == \A a \in scheduled : Past(a)

\* The inductive invariant. Disjointness needs to know that what is scheduled
\* ends before the time at which the next thing can begin: `t` within the
\* cluster, `now` for the check-in.
IInv == TypeOK /\ Position /\ AllPast /\ WithinWindow /\ ClusterDisjoint /\ ReturnsToHotel


-----------------------------------------------------------------------------
\* The types of what is read from the trip.
LEMMA TripTypes ==
    ASSUME TypeOK, trip \in Trips
    PROVE  /\ trip \in Seq(Day) /\ Len(trip) \in Nat /\ DOMAIN trip = 1..Len(trip)
           /\ \A i \in DOMAIN trip :
                 /\ trip[i] \in Day
                 /\ trip[i].start + 60 <= trip[i].end
                 /\ trip[i].start \in Nat /\ trip[i].end \in Nat
                 /\ trip[i].clusters \in Seq(Cluster)
                 /\ DOMAIN trip[i].clusters = 1..Len(trip[i].clusters)
                 /\ Len(trip[i].clusters) \in Nat
                 /\ \A k \in DOMAIN trip[i].clusters :
                       /\ trip[i].clusters[k].home \in Locations \cup {NoLocation}
                       /\ trip[i].clusters[k].places \in Seq(Place) \ {<<>>}
                       /\ DOMAIN trip[i].clusters[k].places \subseteq Nat \ {0}
                       /\ 1 \in DOMAIN trip[i].clusters[k].places
                       /\ \A j \in DOMAIN trip[i].clusters[k].places :
                             trip[i].clusters[k].places[j] \in Place
<1>1. trip \in Seq(Day) /\ Len(trip) \in Nat /\ DOMAIN trip = 1..Len(trip)
    OBVIOUS
<1>2. ASSUME NEW i \in DOMAIN trip
      PROVE  /\ trip[i] \in Day
             /\ trip[i].start + 60 <= trip[i].end
             /\ trip[i].start \in Nat /\ trip[i].end \in Nat
             /\ trip[i].clusters \in Seq(Cluster)
             /\ DOMAIN trip[i].clusters = 1..Len(trip[i].clusters)
             /\ Len(trip[i].clusters) \in Nat
    <2>1. trip[i] \in Day
        BY <1>1
    <2> QED BY <2>1 DEF Day
<1>3. ASSUME NEW i \in DOMAIN trip, NEW k \in DOMAIN trip[i].clusters
      PROVE  /\ trip[i].clusters[k].home \in Locations \cup {NoLocation}
             /\ trip[i].clusters[k].places \in Seq(Place) \ {<<>>}
             /\ DOMAIN trip[i].clusters[k].places \subseteq Nat \ {0}
             /\ 1 \in DOMAIN trip[i].clusters[k].places
             /\ \A j \in DOMAIN trip[i].clusters[k].places :
                   trip[i].clusters[k].places[j] \in Place
    <2>1. trip[i].clusters[k] \in Cluster
        BY <1>2
    <2>2. /\ trip[i].clusters[k].home \in Locations \cup {NoLocation}
          /\ trip[i].clusters[k].places \in Seq(Place) \ {<<>>}
        BY <2>1 DEF Cluster
    <2> QED BY <2>2
<1> QED BY <1>1, <1>2, <1>3

\* Durations are natural numbers.
LEMMA DurationType == \A type : Duration(type) \in Nat
BY DEF Duration

\* The slot found for an activity is never before the earliest start.
LEMMA SlotNotEarly ==
    ASSUME NEW type, NEW d \in Day, NEW earliest \in Nat, NEW duration \in Nat
    PROVE  /\ FindBestTimeSlot(earliest, duration, PreferredWindows(type, d)) \in Nat
           /\ FindBestTimeSlot(earliest, duration, PreferredWindows(type, d)) >= earliest
<1> DEFINE ws == PreferredWindows(type, d)
<1>1. d.start \in Nat /\ d.end \in Nat
    BY DEF Day
<1>2. /\ DOMAIN ws \in {1..1, 1..2}
      /\ \A i \in DOMAIN ws : ws[i].start \in Nat
    BY <1>1 DEF PreferredWindows, Hour, Later, Earlier
<1> HIDE DEF ws
<1>3. CASE \E i \in DOMAIN ws : Fits(ws[i], earliest, duration)
    <2> DEFINE IsFirst(j) == /\ Fits(ws[j], earliest, duration)
                             /\ \A k \in DOMAIN ws : k < j => ~Fits(ws[k], earliest, duration)
    <2>1. \E j \in DOMAIN ws : IsFirst(j)
        BY <1>2, <1>3
    <2>2. (CHOOSE j \in DOMAIN ws : IsFirst(j)) \in DOMAIN ws
        BY <2>1
    <2>3. FindBestTimeSlot(earliest, duration, ws)
              = Later(earliest, ws[CHOOSE j \in DOMAIN ws : IsFirst(j)].start)
        BY <1>3 DEF FindBestTimeSlot
    <2> QED BY <1>2, <2>2, <2>3 DEF Later, ws
<1>4. CASE ~\E i \in DOMAIN ws : Fits(ws[i], earliest, duration)
    BY <1>4 DEF FindBestTimeSlot, ws
<1> QED BY <1>3, <1>4

\* The initial state: nothing is scheduled.
LEMMA InitIInv == Init => IInv
<1> SUFFICES ASSUME Init PROVE IInv
    OBVIOUS
<1>1. Len(trip) \in Nat
    BY DEF Init
<1> QED BY <1>1 DEF Init, IInv, TypeOK, Position, AllPast, WithinWindow, ClusterDisjoint, ReturnsToHotel
-----------------------------------------------------------------------------
\* An activity that lies in the window of the day and begins after everything
\* it must not overlap can be scheduled.
LEMMA Schedule ==
    ASSUME IInv, NEW b \in Activity, b.day = day, day \in DOMAIN trip,
           Today.start <= b.start, b.start <= b.end, b.end <= Today.end,
           \A a \in scheduled :
               (a.day = day /\ (a.cluster = b.cluster \/ a.cluster = 0 \/ b.cluster = 0))
                   => a.end <= b.start,
           trip' = trip, scheduled' = scheduled \cup {b}
    PROVE  scheduled' \subseteq Activity /\ WithinWindow' /\ ClusterDisjoint'
<1>1. scheduled' \subseteq Activity
    BY DEF IInv, TypeOK
<1>2. WithinWindow'
    BY DEF IInv, WithinWindow, Today
<1>3. ClusterDisjoint'
    <2> SUFFICES ASSUME NEW x \in scheduled', NEW y \in scheduled',
                        x # y, x.day = y.day, x.cluster = y.cluster \/ x.cluster = 0
                 PROVE  Disjoint(x, y)
        BY DEF ClusterDisjoint
    <2>1. CASE x \in scheduled /\ y \in scheduled
        BY <2>1 DEF IInv, ClusterDisjoint
    <2>2. CASE x = b /\ y \in scheduled
        BY <2>2 DEF Disjoint
    <2>3. CASE y = b /\ x \in scheduled
        BY <2>3 DEF Disjoint
    <2> QED BY <2>1, <2>2, <2>3
<1> QED BY <1>1, <1>2, <1>3

\* A step that schedules nothing keeps the two properties of the schedule.
LEMMA NothingScheduled ==
    ASSUME IInv, trip' = trip, scheduled' = scheduled
    PROVE  WithinWindow' /\ ClusterDisjoint'
BY DEF IInv, WithinWindow, ClusterDisjoint

\* The two steps that end a day.
LEMMA FreeDayKeeps == ASSUME IInv, FreeDay PROVE IInv'
<1> USE DEF FreeDay, clusterVars
<1>1. /\ Len(trip) \in Nat /\ day \in 1..Len(trip) /\ DOMAIN trip = 1..Len(trip)
      /\ Today.start \in Nat /\ Today.end \in Nat
    BY TripTypes DEF IInv, TypeOK, Position, Today
<1>2. TypeOK'
    BY <1>1 DEF IInv, TypeOK
<1>3. Position' /\ ReturnsToHotel'
    BY DEF IInv, Position, ReturnsToHotel
<1>4. AllPast'
    BY <1>1 DEF IInv, AllPast, Past, TypeOK, Activity
<1> QED BY <1>2, <1>3, <1>4, NothingScheduled DEF IInv

LEMMA FinishDayKeeps == ASSUME IInv, FinishDay PROVE IInv'
<1> USE DEF FinishDay, clusterVars
<1>1. /\ Len(trip) \in Nat /\ day \in 1..Len(trip) /\ DOMAIN trip = 1..Len(trip)
      /\ Today.start \in Nat /\ Today.end \in Nat
    BY TripTypes DEF IInv, TypeOK, Position, Today
<1>2. TypeOK'
    BY <1>1 DEF IInv, TypeOK
<1>3. Position' /\ ReturnsToHotel'
    BY DEF IInv, Position, ReturnsToHotel
<1>4. AllPast'
    BY <1>1 DEF IInv, AllPast, Past, TypeOK, Activity
<1> QED BY <1>2, <1>3, <1>4, NothingScheduled DEF IInv

\* The beginning of a day, with or without check-in.
LEMMA BeginDayKeeps == ASSUME IInv, BeginDay PROVE IInv'
<1> USE DEF BeginDay, clusterVars
<1>1. /\ Len(trip) \in Nat /\ day \in 1..Len(trip) /\ DOMAIN trip = 1..Len(trip)
      /\ Today.start \in Nat /\ Today.end \in Nat /\ Today.start + 60 <= Today.end
    BY TripTypes DEF IInv, TypeOK, Position, Today
<1>2. Position'
    BY <1>1 DEF IInv, Position, Today
<1>3. ReturnsToHotel'
    BY DEF ReturnsToHotel
<1>4. \A a \in scheduled : a.day < day
    BY DEF IInv, AllPast, Past
<1>5. CASE day = 1
    <2> DEFINE b == [day |-> 1, cluster |-> 0, place |-> 0,
                     start |-> Today.start, end |-> Today.start + 30]
    <2>1. /\ b \in Activity /\ b.day = day /\ b.cluster = 0
          /\ b.start = Today.start /\ b.end = Today.start + 30
        BY <1>1, <1>5 DEF Activity
    <2>2. scheduled' = scheduled \cup {b} /\ trip' = trip /\ now' = Today.start + 30
        BY <1>5
    <2>3. \A a \in scheduled : a.day # day
        BY <1>1, <1>4 DEF IInv, TypeOK, Activity
    <2> HIDE DEF b
    <2>4. scheduled' \subseteq Activity /\ WithinWindow' /\ ClusterDisjoint'
        BY <1>1, <2>1, <2>2, <2>3, Schedule
    <2>5. TypeOK'
        BY <1>1, <2>2, <2>4 DEF IInv, TypeOK
    <2>6. AllPast'
        BY <1>1, <1>4, <2>1, <2>2, <2>3 DEF IInv, AllPast, Past
    <2> QED BY <1>2, <1>3, <2>4, <2>5, <2>6 DEF IInv
<1>6. CASE day # 1
    <2>1. scheduled' = scheduled /\ trip' = trip /\ now' = Today.start
        BY <1>6
    <2>2. TypeOK'
        BY <1>1, <2>1 DEF IInv, TypeOK
    <2>3. AllPast'
        BY <1>1, <1>4, <2>1 DEF IInv, AllPast, Past, TypeOK, Activity
    <2> QED BY <1>2, <1>3, <2>1, <2>2, <2>3, NothingScheduled DEF IInv
<1> QED BY <1>5, <1>6

\* What the first step of the routing of a cluster establishes.
LEMMA RouteClusterKeeps ==
    ASSUME IInv, phase = "cluster", c <= Len(Today.clusters), NEW time \in Nat,
           now <= time, now' = time, RouteCluster(time),
           UNCHANGED <<trip, day, c>>,
           ThisCluster.home # NoLocation => loc' = ThisCluster.home
    PROVE  /\ begun' \in Nat /\ t' \in Nat /\ at' \in Locations \cup {NoLocation}
           /\ todo' \subseteq Nat /\ last' \in {"none", "transfer", "activity"}
           /\ Position' /\ ReturnsToHotel' /\ day \in DOMAIN trip /\ now \in Nat
<1> USE DEF RouteCluster
<1>1. /\ day \in DOMAIN trip /\ c \in Nat /\ c >= 1 /\ Today.start <= now /\ now \in Nat
      /\ trip \in Trips
    BY DEF IInv, Position, TypeOK
<1>2. c \in DOMAIN Today.clusters /\ Today.start \in Nat
    BY <1>1, TripTypes DEF IInv, Today
<1>3. /\ ThisCluster.home \in Locations \cup {NoLocation}
      /\ ThisCluster.places[1].loc \in Locations
      /\ DOMAIN ThisCluster.places \subseteq Nat
    BY <1>1, <1>2, TripTypes DEF IInv, ThisCluster, Today, Place
<1>4. Position'
    BY <1>1, <1>2 DEF Position, Today, ThisCluster
<1>5. ReturnsToHotel'
    BY DEF ReturnsToHotel
<1> QED BY <1>1, <1>3, <1>4, <1>5

LEMMA EnterClusterKeeps == ASSUME IInv, EnterCluster PROVE IInv'
<1> USE DEF EnterCluster
<1>1. now \in Nat /\ c \in Nat /\ loc \in Locations \cup {NoLocation}
    BY DEF IInv, TypeOK
<1>2. /\ begun' \in Nat /\ t' \in Nat /\ at' \in Locations \cup {NoLocation}
      /\ todo' \subseteq Nat /\ last' \in {"none", "transfer", "activity"}
      /\ Position' /\ ReturnsToHotel' /\ day \in DOMAIN trip
    BY <1>1, RouteClusterKeeps
<1>3. ThisCluster.home \in Locations \cup {NoLocation}
    <2>1. c \in DOMAIN Today.clusters /\ trip \in Trips
        BY <1>1, <1>2, TripTypes DEF IInv, Position, Today
    <2> QED BY <1>2, <2>1, TripTypes DEF IInv, ThisCluster, Today
<1>4. TypeOK'
    BY <1>1, <1>2, <1>3 DEF IInv, TypeOK, RouteCluster
<1>5. AllPast'
    BY <1>1 DEF IInv, AllPast, Past, RouteCluster, TypeOK, Activity
<1> QED BY <1>2, <1>4, <1>5, NothingScheduled DEF IInv

LEMMA TransferKeeps ==
    ASSUME IInv, NEW minutes \in TravelMinutes, TransferToCluster(minutes) PROVE IInv'
<1> USE DEF TransferToCluster
<1>1. now \in Nat /\ minutes \in Nat /\ now + minutes \in Nat /\ c \in Nat /\ c >= 1 /\ day \in Nat
    BY DEF IInv, TypeOK, Position
<1>2. /\ begun' \in Nat /\ t' \in Nat /\ at' \in Locations \cup {NoLocation}
      /\ todo' \subseteq Nat /\ last' \in {"none", "transfer", "activity"}
      /\ Position' /\ ReturnsToHotel' /\ day \in DOMAIN trip
    BY <1>1, RouteClusterKeeps
<1>3. ThisCluster.home \in Locations \cup {NoLocation} /\ Today.start <= now
    <2>1. c \in DOMAIN Today.clusters /\ trip \in Trips
        BY <1>1, <1>2, TripTypes DEF IInv, Position, Today
    <2> QED BY <1>2, <2>1, TripTypes DEF IInv, ThisCluster, Today, Position
<1>4. /\ \A a \in scheduled : a \in Activity /\ Past(a)
      /\ trip' = trip /\ day' = day /\ c' = c /\ now' = now + minutes /\ t' = now + minutes
      /\ phase' = "place"
    BY DEF IInv, TypeOK, AllPast, RouteCluster
<1>5. \A a \in scheduled : Past(a)'
    BY <1>1, <1>4 DEF Past, Activity
<1>6. CASE minutes >= 180
    <2> DEFINE b == [day |-> day, cluster |-> c, place |-> 0, start |-> now, end |-> now + minutes]
    <2>1. /\ b \in Activity /\ b.day = day /\ b.cluster = c
          /\ b.start = now /\ b.end = now + minutes
        BY <1>1 DEF Activity
    <2>2. scheduled' = scheduled \cup {b}
        BY <1>6
    <2> HIDE DEF b
    <2>3. \A a \in scheduled :
              (a.day = day /\ (a.cluster = b.cluster \/ a.cluster = 0 \/ b.cluster = 0))
                  => a.end <= b.start
        BY <1>1, <1>4, <2>1 DEF Past, Activity
    <2>4. scheduled' \subseteq Activity /\ WithinWindow' /\ ClusterDisjoint'
        BY <1>1, <1>2, <1>3, <1>4, <2>1, <2>2, <2>3, Schedule
    <2>5. \A x : x = b => Past(x)'
        BY <1>1, <1>2, <1>4, <2>1 DEF Past
    <2>6. AllPast'
        BY <1>5, <2>2, <2>5 DEF AllPast
    <2>7. TypeOK'
        BY <1>1, <1>2, <1>3, <1>4, <2>4 DEF IInv, TypeOK
    <2> QED BY <1>2, <2>4, <2>6, <2>7 DEF IInv
<1>7. CASE ~(minutes >= 180)
    <2>1. scheduled' = scheduled
        BY <1>7
    <2>2. AllPast'
        BY <1>5, <2>1 DEF AllPast
    <2>3. TypeOK'
        BY <1>1, <1>2, <1>3, <1>4, <2>1 DEF IInv, TypeOK
    <2> QED BY <1>2, <1>4, <2>1, <2>2, <2>3, NothingScheduled DEF IInv
<1> QED BY <1>6, <1>7

LEMMA OvernightKeeps ==
    ASSUME IInv, NEW minutes \in TravelMinutes, Overnight(minutes) PROVE IInv'
<1> USE DEF Overnight, clusterVars
<1>1. TypeOK'
    BY DEF IInv, TypeOK
<1>2. Position' /\ ReturnsToHotel'
    BY DEF IInv, Position, ReturnsToHotel, Today
<1>3. AllPast'
    BY DEF IInv, AllPast, Past, TypeOK, Activity
<1> QED BY <1>1, <1>2, <1>3, NothingScheduled DEF IInv

\* One place: its transfer, its slot and its activity, or giving up.
LEMMA VisitPlaceKeeps ==
    ASSUME IInv, NEW minutes \in TravelMinutes, NEW i \in todo, VisitPlace(i, minutes)
    PROVE  IInv'
<1> DEFINE p == ThisCluster.places[i]
           arrival == IF at # p.loc THEN t + minutes ELSE t
           best == FindBestTimeSlot(arrival, Duration(p.type), PreferredWindows(p.type, Today))
           start == IF best + Duration(p.type) > Today.end THEN arrival ELSE best
           end == start + Duration(p.type)
           b == [day |-> day, cluster |-> c, place |-> i, start |-> start, end |-> end]
<1>1. /\ phase = "place" /\ day \in DOMAIN trip /\ day \in Nat /\ c \in Nat /\ c >= 1
      /\ c \in DOMAIN Today.clusters /\ trip \in Trips
      /\ Today.start <= now /\ now <= t /\ now \in Nat /\ t \in Nat /\ minutes \in Nat
      /\ i \in DOMAIN ThisCluster.places /\ i \in Nat
    <2>1. phase = "place"
        BY DEF VisitPlace
    <2> QED BY <2>1 DEF IInv, TypeOK, Position
<1>2. /\ Today \in Day /\ Today.end \in Nat /\ Today.start \in Nat
      /\ p.loc \in Locations /\ i > 0
    <2>1. TypeOK
        BY DEF IInv
    <2>2. Today \in Day /\ Today.end \in Nat /\ Today.start \in Nat
        BY <1>1, <2>1, TripTypes DEF Today
    <2>3. ThisCluster.places[i] \in Place /\ DOMAIN ThisCluster.places \subseteq Nat \ {0}
        BY <1>1, <2>1, TripTypes DEF Today, ThisCluster
    <2> QED BY <1>1, <2>2, <2>3 DEF Place
<1>3. arrival \in Nat /\ arrival >= t
    BY <1>1
<1>4. Duration(p.type) \in Nat /\ best \in Nat /\ best >= arrival
    BY <1>2, <1>3, DurationType, SlotNotEarly
<1>5. start \in Nat /\ start >= t /\ end \in Nat /\ start <= end
    <2> HIDE DEF arrival, best, p
    <2> QED BY <1>1, <1>2, <1>3, <1>4
<1>6. /\ UNCHANGED <<trip, day, phase, c, now, loc, begun, free, previous>>
      /\ end <= Today.end => /\ scheduled' = scheduled \cup {b}
                             /\ t' = end /\ at' = p.loc
                             /\ todo' = todo \ {i} /\ last' = "activity"
      /\ ~(end <= Today.end) => /\ t' = arrival /\ todo' = {}
                                /\ last' \in {"transfer", last}
                                /\ (last' = "activity" => last = "activity")
                                /\ scheduled' = scheduled /\ at' = at
    BY DEF VisitPlace
<1>7. \A a \in scheduled : a \in Activity /\ Past(a)
    BY DEF IInv, TypeOK, AllPast
<1>8. t' \in Nat /\ t' >= t /\ at' \in Locations \cup {NoLocation} /\ todo' \subseteq todo
    <2>1. at \in Locations \cup {NoLocation}
        BY DEF IInv, TypeOK
    <2> HIDE DEF arrival, start, end, p
    <2> QED BY <1>1, <1>2, <1>3, <1>5, <1>6, <2>1
<1>9. b \in Activity /\ b.day = day /\ b.cluster = c /\ b.place = i /\ b.start = start /\ b.end = end
    <2> HIDE DEF start, end
    <2> QED BY <1>1, <1>5 DEF Activity
<1>10. \A a \in scheduled : Past(a)'
    BY <1>1, <1>6, <1>7, <1>8 DEF Past, Activity
<1>11. ReturnsToHotel'
    BY <1>1, <1>6 DEF ReturnsToHotel
<1> HIDE DEF p, arrival, best, start, end, b
<1>12. CASE end <= Today.end
    <2>1. \A a \in scheduled :
              (a.day = day /\ (a.cluster = b.cluster \/ a.cluster = 0 \/ b.cluster = 0))
                  => a.end <= b.start
        BY <1>1, <1>5, <1>7, <1>9 DEF Past, Activity
    <2>2. scheduled' \subseteq Activity /\ WithinWindow' /\ ClusterDisjoint'
        <3>1. /\ b \in Activity /\ b.day = day /\ day \in DOMAIN trip
              /\ trip' = trip /\ scheduled' = scheduled \cup {b}
            BY <1>1, <1>6, <1>9, <1>12
        <3>2. Today.start <= b.start /\ b.start <= b.end /\ b.end <= Today.end
            BY <1>1, <1>2, <1>5, <1>9, <1>12
        <3> QED BY <2>1, <3>1, <3>2, Schedule
    <2>3. \A x : x = b => Past(x)'
        BY <1>1, <1>5, <1>6, <1>9, <1>12 DEF Past
    <2>4. AllPast'
        BY <1>6, <1>10, <1>12, <2>3 DEF AllPast
    <2>5. ClusterHasActivities'
        BY <1>2, <1>6, <1>9, <1>12 DEF ClusterHasActivities
    <2>6. Position'
        BY <1>1, <1>6, <1>8, <2>5 DEF IInv, Position, Today, ThisCluster
    <2>7. TypeOK'
        BY <1>6, <1>8, <1>12, <2>2 DEF IInv, TypeOK
    <2> QED BY <1>11, <2>2, <2>4, <2>6, <2>7 DEF IInv
<1>13. CASE ~(end <= Today.end)
    <2>1. scheduled' = scheduled
        BY <1>6, <1>13
    <2>2. AllPast'
        BY <1>10, <2>1 DEF AllPast
    <2>3. last' = "activity" => ClusterHasActivities'
        BY <1>1, <1>6, <1>13 DEF IInv, Position, ClusterHasActivities
    <2>4. Position'
        BY <1>1, <1>6, <1>8, <2>3 DEF IInv, Position, Today, ThisCluster
    <2>5. TypeOK'
        BY <1>6, <1>8, <1>13 DEF IInv, TypeOK
    <2> QED BY <1>6, <1>11, <2>1, <2>2, <2>4, <2>5, NothingScheduled DEF IInv
<1> QED BY <1>12, <1>13

\* The end of a cluster: the day's location is the base, if there is one.
LEMMA LeaveClusterKeeps == ASSUME IInv, LeaveCluster PROVE IInv'
<1> USE DEF LeaveCluster, clusterVars
<1>1. /\ phase = "place" /\ day \in DOMAIN trip /\ c \in Nat /\ c >= 1
      /\ Today.start <= now /\ now <= t /\ now \in Nat /\ t \in Nat /\ trip \in Trips
      /\ at \in Locations \cup {NoLocation}
    BY DEF IInv, TypeOK, Position
<1>2. now' \in Nat /\ now <= now' /\ loc' \in Locations \cup {NoLocation}
    BY <1>1 DEF IInv, TypeOK
<1>3. TypeOK'
    BY <1>1, <1>2 DEF IInv, TypeOK
<1>4. Position'
    <2>1. Today.start \in Nat
        BY <1>1, TripTypes DEF IInv, Today
    <2> QED BY <1>1, <1>2, <2>1 DEF Position, Today
<1>5. AllPast'
    BY <1>1, <1>2 DEF IInv, AllPast, Past, TypeOK, Activity
<1>6. ThisCluster.home # NoLocation => loc' = ThisCluster.home
    <2>1. last = "activity" => ClusterHasActivities
        BY <1>1 DEF IInv, Position
    <2>2. ThisCluster.home # NoLocation => loc = ThisCluster.home
        BY <1>1 DEF IInv, Position
    <2> QED BY <2>1, <2>2 DEF ReturnTransfer
<1>7. ReturnsToHotel'
    <2>1. c' - 1 = c /\ Today' = Today
        BY <1>1 DEF Today
    <2> QED BY <1>6, <2>1 DEF ReturnsToHotel, ThisCluster, Today
<1> QED BY <1>3, <1>4, <1>5, <1>7, NothingScheduled DEF IInv

\* Every step keeps the invariant.
LEMMA StepIInv == IInv /\ [Next]_vars => IInv'
<1> SUFFICES ASSUME IInv, [Next]_vars PROVE IInv'
    OBVIOUS
<1>1. CASE UNCHANGED vars
    BY <1>1 DEF vars, clusterVars, IInv, TypeOK, Position, AllPast, Past, WithinWindow,
                ClusterDisjoint, ReturnsToHotel, Today, ThisCluster, ClusterHasActivities
<1>2. CASE Next
    BY <1>2, FreeDayKeeps, BeginDayKeeps, EnterClusterKeeps, LeaveClusterKeeps, FinishDayKeeps,
       TransferKeeps, OvernightKeeps, VisitPlaceKeeps DEF Next
<1> QED BY <1>1, <1>2

\* The inductive invariant holds in every behaviour.
THEOREM Invariant == Spec => []IInv
BY InitIInv, StepIInv, PTL DEF Spec

\* Type correctness.
THEOREM TypeCorrect == Spec => []TypeOK
<1>1. IInv => TypeOK
    BY DEF IInv
<1> QED BY <1>1, Invariant, PTL

\* Nothing is scheduled outside the window of its day, for any trip and any
\* answers of the routing service.
THEOREM Windows == Spec => []WithinWindow
<1>1. IInv => WithinWindow
    BY DEF IInv
<1> QED BY <1>1, Invariant, PTL

\* The activities of a cluster never overlap, nor do they overlap the check-in.
THEOREM NoOverlap == Spec => []ClusterDisjoint
<1>1. IInv => ClusterDisjoint
    BY DEF IInv
<1> QED BY <1>1, Invariant, PTL

\* After a cluster with a base the traveller is at the base.
THEOREM BackAtHotel == Spec => []ReturnsToHotel
<1>1. IInv => ReturnsToHotel
    BY DEF IInv
<1> QED BY <1>1, Invariant, PTL

\* All that is checked of the states of the router.
THEOREM Safe == Spec => []RouterSafe
<1>1. TypeOK /\ WithinWindow /\ ClusterDisjoint /\ ReturnsToHotel => RouterSafe
    BY DEF RouterSafe
<1> QED BY <1>1, TypeCorrect, Windows, NoOverlap, BackAtHotel, PTL

HIDE TripsAssumption

-----------------------------------------------------------------------------
(* DecisionEngine *)

\* What a decision for OR-Tools says of the number of places and the user in the
\* key. Of Anonymous it says nothing: that stands for every session.
MayUse(places, user) ==
    /\ places >= Min2(3, MinPlaces)
    /\ EnableORTools
    /\ user # Anonymous => UserPercentage >= 100 \/ UserHash[user] < UserPercentage

EngineTypes ==
    /\ decision_cache \in [DOMAIN decision_cache -> [use : BOOLEAN, age : Nat]]
    /\ health \in [status : BOOLEAN, age : Nat]
    /\ asking \in [Askers -> {Idle} \cup [at : {"checking"}, request : Requests, age : Nat]]
    /\ answer \in [Askers -> {Idle} \cup [request : Requests, use : BOOLEAN]]
    /\ service_up \in BOOLEAN /\ down_for \in Nat

\* How long ago the service was up, bounded by the ages of what says it is.
UpWhenChecked ==
    /\ service_up => down_for = 0
    /\ health.status /\ health.age < HealthTTL => down_for <= health.age

\* A cached choice of OR-Tools fits every request with its key, and lags behind
\* the health it was made from by less than HealthTTL.
CacheSound ==
    \A k \in DOMAIN decision_cache : decision_cache[k].use =>
        /\ MayUse(k.places, k.user)
        /\ Fresh(decision_cache[k]) => down_for < decision_cache[k].age + HealthTTL

AnswersSound ==
    \A a \in Askers : (Answered(a) /\ answer[a].use) =>
        /\ MayUse(answer[a].request.places, KeyUser(answer[a].request))
        /\ down_for < CacheTTL + HealthTTL

\* The inductive invariant.
EngineInv == EngineTypes /\ UpWhenChecked /\ CacheSound /\ AnswersSound

\* Two steps of confidence, whatever the complexity is.
LEMMA BandOfTwo ==
    ASSUME NEW v
    PROVE  Band(v, {<<30, 5>>, <<50, 10>>}) \in {0, 5, 10}
<1> DEFINE steps == {<<30, 5>>, <<50, 10>>}
           reached == {s \in steps : v >= s[1]}
           Highest(s) == \A u \in reached : s[1] >= u[1]
<1>1. Band(v, steps) = IF reached = {} THEN 0 ELSE (CHOOSE s \in reached : Highest(s))[2]
    BY DEF Band
<1>2. CASE reached = {}
    BY <1>1, <1>2
<1>3. CASE reached # {}
    <2>1. \E s \in reached : Highest(s)
        <3>1. CASE <<50, 10>> \in reached
            <4>1. Highest(<<50, 10>>)
                OBVIOUS
            <4> QED BY <3>1, <4>1
        <3>2. CASE <<50, 10>> \notin reached
            <4>1. <<30, 5>> \in reached
                BY <1>3, <3>2
            <4>2. Highest(<<30, 5>>)
                BY <3>2
            <4> QED BY <4>1, <4>2
        <3> QED BY <3>1, <3>2
    <2> DEFINE top == CHOOSE s \in reached : Highest(s)
    <2>2. top \in reached
        BY <2>1
    <2>3. top = <<30, 5>> \/ top = <<50, 10>>
        BY <2>2
    <2> HIDE DEF top
    <2>4. top[2] \in {5, 10}
        BY <2>3
    <2>5. Band(v, steps) = top[2]
        BY <1>1, <1>3 DEF top
    <2> QED BY <2>4, <2>5
<1> QED BY <1>2, <1>3

\* A fresh decision for OR-Tools is for a request with enough places, of a user
\* in the rollout, and was made with a healthy service.
LEMMA DecisionFits ==
    ASSUME NEW r \in Requests, NEW healthy \in BOOLEAN
    PROVE  /\ _make_decision(r, healthy) \in BOOLEAN
           /\ _make_decision(r, healthy) => healthy /\ MayUse(r.places, KeyUser(r))
<1>1. _make_decision(r, healthy) \in BOOLEAN
    BY DEF _make_decision
<1>2. ASSUME _make_decision(r, healthy)
      PROVE  MayUse(r.places, KeyUser(r))
    <2>1. EnableORTools /\ _check_user_eligibility(r) /\ Confidence(r) >= 50
        BY <1>2 DEF _make_decision, _check_feature_flags
    <2>2. r.places \in Nat /\ MinPlaces \in Nat
        BY EngineAssumption
    <2> DEFINE band == Band(_calculate_overall_complexity(r), {<<30, 5>>, <<50, 10>>})
               base == CASE r.places >= MinPlaces -> 80 [] r.places >= 3 -> 60 [] OTHER -> 0
               length == IF r.days >= MinDays THEN 10 ELSE 5
    <2>3. band \in {0, 5, 10}
        BY BandOfTwo
    <2>4. length \in {5, 10}
        OBVIOUS
    <2>5. base + length + band >= 50
        BY <2>1 DEF Confidence
    <2>6. base \in {0, 60, 80}
        BY <2>2
    <2>7. base # 0
        <3> HIDE DEF base, length, band
        <3> QED BY <2>3, <2>4, <2>5, <2>6
    <2>8. r.places >= MinPlaces \/ r.places >= 3
        BY <2>2, <2>7
    <2>9. r.places >= Min2(3, MinPlaces)
        BY <2>2, <2>8 DEF Min2
    <2>10. ASSUME KeyUser(r) # Anonymous PROVE Identity(r) = KeyUser(r)
        BY <2>10 DEF KeyUser, Identity
    <2> QED BY <2>1, <2>9, <2>10 DEF MayUse, _check_user_eligibility
<1> QED BY <1>1, <1>2 DEF _make_decision

\* A decision is stored under a key that carries what it depends on.
LEMMA RememberSound ==
    ASSUME EngineInv, NEW r \in Requests, NEW use \in BOOLEAN,
           use => down_for < HealthTTL /\ MayUse(r.places, KeyUser(r)),
           Remember(r, use), down_for' = down_for
    PROVE  /\ decision_cache' \in [DOMAIN decision_cache' -> [use : BOOLEAN, age : Nat]]
           /\ CacheSound'
<1> DEFINE key == _generate_cache_key(r)
           keys == DOMAIN decision_cache \cup {key}
<1>1. decision_cache' = [k \in keys |-> IF k = key THEN [use |-> use, age |-> 0]
                                        ELSE decision_cache[k]]
    BY DEF Remember
<1>2. DOMAIN decision_cache' = keys
    BY <1>1
<1>3. key.places = r.places /\ key.user = KeyUser(r)
    BY DEF _generate_cache_key
<1>4. ASSUME NEW k \in keys
      PROVE  /\ decision_cache'[k] \in [use : BOOLEAN, age : Nat]
             /\ decision_cache'[k].use =>
                   /\ MayUse(k.places, k.user)
                   /\ Fresh(decision_cache'[k]) => down_for < decision_cache'[k].age + HealthTTL
    <2>1. CASE k = key
        <3>1. decision_cache'[k] = [use |-> use, age |-> 0]
            BY <1>1, <2>1
        <3>2. down_for \in Nat /\ HealthTTL \in Nat
            BY EngineAssumption DEF EngineInv, EngineTypes
        <3> QED BY <1>3, <2>1, <3>1, <3>2
    <2>2. CASE k # key
        <3>1. k \in DOMAIN decision_cache /\ decision_cache'[k] = decision_cache[k]
            BY <1>1, <2>2
        <3>2. decision_cache[k] \in [use : BOOLEAN, age : Nat]
            BY <3>1 DEF EngineInv, EngineTypes
        <3> QED BY <3>1, <3>2 DEF EngineInv, CacheSound
    <2> QED BY <2>1, <2>2
<1> HIDE DEF keys
<1>5. decision_cache' \in [DOMAIN decision_cache' -> [use : BOOLEAN, age : Nat]]
    BY <1>1, <1>2, <1>4
<1>6. CacheSound'
    BY <1>2, <1>4 DEF CacheSound, Fresh
<1> QED BY <1>5, <1>6

\* A caller gets its answer.
LEMMA ReplySound ==
    ASSUME EngineInv, NEW a \in Askers, NEW r \in Requests, NEW use \in BOOLEAN,
           use => down_for < CacheTTL + HealthTTL /\ MayUse(r.places, KeyUser(r)),
           Reply(a, r, use), down_for' = down_for
    PROVE  /\ asking' \in [Askers -> {Idle} \cup [at : {"checking"}, request : Requests, age : Nat]]
           /\ answer' \in [Askers -> {Idle} \cup [request : Requests, use : BOOLEAN]]
           /\ AnswersSound'
<1>1. /\ asking' \in [Askers -> {Idle} \cup [at : {"checking"}, request : Requests, age : Nat]]
      /\ answer' \in [Askers -> {Idle} \cup [request : Requests, use : BOOLEAN]]
    BY DEF EngineInv, EngineTypes, Reply
<1>2. ASSUME NEW b \in Askers, answer'[b] # Idle, answer'[b].use
      PROVE  /\ MayUse(answer'[b].request.places, KeyUser(answer'[b].request))
             /\ down_for < CacheTTL + HealthTTL
    <2>1. CASE b = a
        <3>1. answer'[b] = [request |-> r, use |-> use]
            BY <2>1 DEF EngineInv, EngineTypes, Reply
        <3> QED BY <1>2, <3>1
    <2>2. CASE b # a
        <3>1. answer'[b] = answer[b]
            BY <2>2 DEF EngineInv, EngineTypes, Reply
        <3> QED BY <1>2, <3>1 DEF EngineInv, AnswersSound, Answered
    <2> QED BY <2>1, <2>2
<1> QED BY <1>1, <1>2 DEF AnswersSound, Answered

LEMMA EngineInitial == EngineInit => EngineInv
BY EngineAssumption
   DEF EngineInit, EngineInv, EngineTypes, UpWhenChecked, CacheSound, AnswersSound, Answered

LEMMA HitKeeps ==
    ASSUME EngineInv, NEW a \in Askers, NEW r \in Requests, Hit(a, r)
    PROVE  EngineInv'
<1> DEFINE key == _generate_cache_key(r)
           entry == decision_cache[key]
<1>1. key \in DOMAIN decision_cache /\ Fresh(entry) /\ Reply(a, r, entry.use)
    BY DEF Hit, Cached
<1>2. entry \in [use : BOOLEAN, age : Nat]
    BY <1>1 DEF EngineInv, EngineTypes
<1>3. entry.use \in BOOLEAN /\ entry.age \in Nat
    BY <1>2
<1>4. key.places = r.places /\ key.user = KeyUser(r)
    BY DEF _generate_cache_key
<1>5. entry.use => MayUse(r.places, KeyUser(r)) /\ down_for < entry.age + HealthTTL
    BY <1>1, <1>4 DEF EngineInv, CacheSound
<1>6. entry.use => down_for < CacheTTL + HealthTTL
    BY <1>1, <1>3, <1>5, EngineAssumption DEF EngineInv, EngineTypes, Fresh
<1>7. down_for' = down_for
    BY DEF Hit
<1> HIDE DEF entry
<1>8. /\ asking' \in [Askers -> {Idle} \cup [at : {"checking"}, request : Requests, age : Nat]]
      /\ answer' \in [Askers -> {Idle} \cup [request : Requests, use : BOOLEAN]]
      /\ AnswersSound'
    BY <1>1, <1>3, <1>5, <1>6, <1>7, ReplySound
<1> QED BY <1>8 DEF Hit, EngineInv, EngineTypes, UpWhenChecked, CacheSound, Fresh

\* Nothing but the answer changes, and it is not OR-Tools.
LEMMA AnalysisRaisesKeeps ==
    ASSUME EngineInv, NEW a \in Askers, NEW r \in Requests, AnalysisRaises(a, r)
    PROVE  EngineInv'
<1>1. Reply(a, r, FALSE) /\ UNCHANGED <<decision_cache, health, service_up, down_for>>
    BY DEF AnalysisRaises
<1>2. /\ asking' \in [Askers -> {Idle} \cup [at : {"checking"}, request : Requests, age : Nat]]
      /\ answer' \in [Askers -> {Idle} \cup [request : Requests, use : BOOLEAN]]
      /\ AnswersSound'
    BY <1>1, ReplySound
<1> QED BY <1>1, <1>2 DEF EngineInv, EngineTypes, UpWhenChecked, CacheSound, Fresh

LEMMA DecideKeeps ==
    ASSUME EngineInv, NEW a \in Askers, NEW r \in Requests, Decide(a, r)
    PROVE  EngineInv'
<1> DEFINE use == _make_decision(r, health.status)
<1>1. health.status \in BOOLEAN /\ health.age \in Nat /\ down_for \in Nat
    BY DEF EngineInv, EngineTypes
<1>2. health.age < HealthTTL /\ Remember(r, use) /\ Reply(a, r, use) /\ down_for' = down_for
    BY DEF Decide
<1>3. use \in BOOLEAN /\ (use => health.status /\ MayUse(r.places, KeyUser(r)))
    BY <1>1, DecisionFits
<1>4. use => down_for < HealthTTL /\ down_for < CacheTTL + HealthTTL
    BY <1>1, <1>2, <1>3, EngineAssumption DEF EngineInv, UpWhenChecked
<1> HIDE DEF use
<1>5. /\ decision_cache' \in [DOMAIN decision_cache' -> [use : BOOLEAN, age : Nat]]
      /\ CacheSound'
    BY <1>2, <1>3, <1>4, RememberSound
<1>6. /\ asking' \in [Askers -> {Idle} \cup [at : {"checking"}, request : Requests, age : Nat]]
      /\ answer' \in [Askers -> {Idle} \cup [request : Requests, use : BOOLEAN]]
      /\ AnswersSound'
    BY <1>2, <1>3, <1>4, ReplySound
<1> QED BY <1>5, <1>6 DEF Decide, EngineInv, EngineTypes, UpWhenChecked

LEMMA HealthKnownKeeps ==
    ASSUME EngineInv, NEW a \in Askers, HealthKnown(a)
    PROVE  EngineInv'
<1> DEFINE r == asking[a].request
           use == _make_decision(r, service_up)
<1>1. asking[a] \in [at : {"checking"}, request : Requests, age : Nat]
    BY DEF EngineInv, EngineTypes, HealthKnown, Idle
<1>2. r \in Requests /\ asking[a].age \in Nat /\ service_up \in BOOLEAN /\ down_for \in Nat
    BY <1>1 DEF EngineInv, EngineTypes
<1>3. Remember(r, use) /\ Reply(a, r, use) /\ down_for' = down_for
    BY DEF HealthKnown
<1>4. use \in BOOLEAN /\ (use => service_up /\ MayUse(r.places, KeyUser(r)))
    BY <1>2, DecisionFits
<1>5. use => down_for < HealthTTL /\ down_for < CacheTTL + HealthTTL
    BY <1>2, <1>4, EngineAssumption DEF EngineInv, UpWhenChecked
<1>6. health' = [status |-> service_up, age |-> asking[a].age] /\ service_up' = service_up
    BY DEF HealthKnown
<1> HIDE DEF use, r
<1>7. /\ decision_cache' \in [DOMAIN decision_cache' -> [use : BOOLEAN, age : Nat]]
      /\ CacheSound'
    BY <1>2, <1>3, <1>4, <1>5, RememberSound
<1>8. /\ asking' \in [Askers -> {Idle} \cup [at : {"checking"}, request : Requests, age : Nat]]
      /\ answer' \in [Askers -> {Idle} \cup [request : Requests, use : BOOLEAN]]
      /\ AnswersSound'
    BY <1>2, <1>3, <1>4, <1>5, ReplySound
<1>9. health' \in [status : BOOLEAN, age : Nat] /\ UpWhenChecked'
    BY <1>2, <1>3, <1>6 DEF EngineInv, UpWhenChecked
<1> QED BY <1>2, <1>3, <1>6, <1>7, <1>8, <1>9 DEF EngineInv, EngineTypes

LEMMA CheckBeginsKeeps ==
    ASSUME EngineInv, NEW a \in Askers, NEW r \in Requests, _check_ortools_health(a, r)
    PROVE  EngineInv'
<1>1. asking' \in [Askers -> {Idle} \cup [at : {"checking"}, request : Requests, age : Nat]]
    BY DEF EngineInv, EngineTypes, _check_ortools_health
<1> QED BY <1>1 DEF EngineInv, EngineTypes, UpWhenChecked, CacheSound, Fresh, AnswersSound,
                    Answered, _check_ortools_health

LEMMA OlderBounds ==
    ASSUME NEW n \in Nat, NEW ttl \in Nat
    PROVE  /\ Older(n, ttl) \in Nat
           /\ Older(n, ttl) <= n + 1
           /\ Older(n, ttl) < ttl => Older(n, ttl) = n + 1
BY DEF Older, Min2

LEMMA EngineTickKeeps ==
    ASSUME EngineInv, Tick
    PROVE  EngineInv'
<1>1. CacheTTL \in Nat /\ HealthTTL \in Nat /\ CacheTTL + HealthTTL \in Nat /\ HealthTTL > 0
    BY EngineAssumption
<1>2. down_for \in Nat /\ service_up \in BOOLEAN /\ health \in [status : BOOLEAN, age : Nat]
    BY DEF EngineInv, EngineTypes
<1>3. down_for' \in Nat /\ down_for' <= down_for + 1 /\ (service_up => down_for' = 0)
    BY <1>1, <1>2, OlderBounds DEF Tick
<1>4. health' = [status |-> health.status, age |-> Older(health.age, HealthTTL)]
    BY <1>2 DEF Tick
<1>5. health' \in [status : BOOLEAN, age : Nat]
    BY <1>1, <1>2, <1>4, OlderBounds
<1>6. ASSUME health'.status, health'.age < HealthTTL
      PROVE  down_for' <= health'.age
    <2>1. health.age \in Nat /\ Older(health.age, HealthTTL) < HealthTTL /\ health.status
        BY <1>2, <1>4, <1>6
    <2>2. health'.age = health.age + 1
        BY <1>1, <1>4, <2>1, OlderBounds
    <2>3. health.age < HealthTTL
        BY <1>1, <1>6, <2>1, <2>2
    <2>4. down_for <= health.age
        BY <2>1, <2>3 DEF EngineInv, UpWhenChecked
    <2> QED BY <1>2, <1>3, <2>1, <2>2, <2>4
<1>7. DOMAIN decision_cache' = DOMAIN decision_cache
    BY DEF Tick
<1>8. ASSUME NEW k \in DOMAIN decision_cache
      PROVE  /\ decision_cache'[k] \in [use : BOOLEAN, age : Nat]
             /\ decision_cache'[k].use =>
                   /\ MayUse(k.places, k.user)
                   /\ Fresh(decision_cache'[k]) => down_for' < decision_cache'[k].age + HealthTTL
    <2> DEFINE e == decision_cache[k]
    <2>1. e \in [use : BOOLEAN, age : Nat]
        BY DEF EngineInv, EngineTypes
    <2>2. decision_cache'[k] = [use |-> e.use, age |-> Older(e.age, CacheTTL)]
        BY <2>1 DEF Tick
    <2>3. e.use => /\ MayUse(k.places, k.user)
                   /\ e.age < CacheTTL => down_for < e.age + HealthTTL
        BY DEF EngineInv, CacheSound, Fresh
    <2> HIDE DEF e
    <2>4. e.age \in Nat /\ e.use \in BOOLEAN
        BY <2>1
    <2>5. Older(e.age, CacheTTL) \in Nat
        BY <1>1, <2>4, OlderBounds
    <2>6. ASSUME e.use, Older(e.age, CacheTTL) < CacheTTL
          PROVE  down_for' < Older(e.age, CacheTTL) + HealthTTL
        <3>1. Older(e.age, CacheTTL) = e.age + 1
            BY <1>1, <2>4, <2>6, OlderBounds
        <3>2. e.age < CacheTTL
            BY <1>1, <2>4, <2>6, <3>1
        <3>3. down_for < e.age + HealthTTL
            BY <2>3, <2>6, <3>2
        <3> QED BY <1>1, <1>2, <1>3, <2>4, <3>1, <3>3
    <2> QED BY <2>2, <2>3, <2>4, <2>5, <2>6 DEF Fresh
<1>9. decision_cache' \in [DOMAIN decision_cache' -> [use : BOOLEAN, age : Nat]]
    <2>1. decision_cache' = [k \in DOMAIN decision_cache' |-> decision_cache'[k]]
        BY DEF Tick
    <2> QED BY <1>7, <1>8, <2>1
<1>10. CacheSound'
    BY <1>7, <1>8 DEF CacheSound, Fresh
<1>11. asking' \in [Askers -> {Idle} \cup [at : {"checking"}, request : Requests, age : Nat]]
    <2>1. ASSUME NEW a \in Askers, asking[a] # Idle
          PROVE  [asking[a] EXCEPT !.age = Older(@, HealthTTL)]
                     \in [at : {"checking"}, request : Requests, age : Nat]
        <3>1. asking[a] \in [at : {"checking"}, request : Requests, age : Nat]
            BY <2>1 DEF EngineInv, EngineTypes
        <3>2. Older(asking[a].age, HealthTTL) \in Nat
            BY <1>1, <3>1, OlderBounds
        <3> QED BY <3>1, <3>2
    <2> QED BY <2>1 DEF Tick
<1>12. answer' = [a \in Askers |-> Idle] /\ service_up' = service_up
    BY DEF Tick
<1>13. AnswersSound'
    BY <1>12 DEF AnswersSound, Answered
<1> QED BY <1>2, <1>3, <1>5, <1>6, <1>9, <1>10, <1>11, <1>12, <1>13
        DEF EngineInv, EngineTypes, UpWhenChecked

LEMMA ServiceChangesKeeps ==
    ASSUME EngineInv, ServiceChanges
    PROVE  EngineInv'
<1>1. /\ service_up' \in BOOLEAN /\ down_for' = 0
      /\ UNCHANGED <<decision_cache, health, asking, answer>>
    BY DEF ServiceChanges
<1>2. EngineTypes'
    BY <1>1 DEF EngineInv, EngineTypes
<1>3. UpWhenChecked'
    BY <1>1 DEF EngineInv, EngineTypes, UpWhenChecked
<1>4. CacheSound'
    <2>1. ASSUME NEW k \in DOMAIN decision_cache PROVE 0 < decision_cache[k].age + HealthTTL
        <3>1. decision_cache[k] \in [use : BOOLEAN, age : Nat]
            BY DEF EngineInv, EngineTypes
        <3> QED BY <3>1, EngineAssumption
    <2> QED BY <1>1, <2>1 DEF EngineInv, CacheSound, Fresh
<1>5. AnswersSound'
    BY <1>1, EngineAssumption DEF EngineInv, AnswersSound, Answered
<1> QED BY <1>2, <1>3, <1>4, <1>5 DEF EngineInv

LEMMA EngineStepKeeps == EngineInv /\ [EngineNext]_engineVars => EngineInv'
<1> SUFFICES ASSUME EngineInv, [EngineNext]_engineVars
             PROVE  EngineInv'
    OBVIOUS
<1>1. ASSUME NEW a \in Askers, should_use_ortools(a)
      PROVE  EngineInv'
    BY <1>1, HitKeeps, AnalysisRaisesKeeps, DecideKeeps, CheckBeginsKeeps, HealthKnownKeeps DEF should_use_ortools
<1>2. CASE UNCHANGED engineVars
    BY <1>2 DEF EngineInv, EngineTypes, UpWhenChecked, CacheSound, Fresh, AnswersSound,
                Answered, engineVars
<1> QED BY <1>1, <1>2, EngineTickKeeps, ServiceChangesKeeps DEF EngineNext

\* Whatever the caches hold and whoever else asks meanwhile, OR-Tools is chosen
\* only for a request with enough places and, if it names a user, of a user in the
\* rollout (decision_engine.py, should_use_ortools and its cache key).
THEOREM EngineChoosesFitting == EngineSpec => []ChosenFits
<1>1. EngineInv => ChosenFits
    <2> SUFFICES ASSUME EngineInv, NEW a \in Askers, Answered(a), answer[a].use,
                        NEW r, r = answer[a].request
                 PROVE  /\ r.places >= Min2(3, MinPlaces) /\ EnableORTools
                        /\ NamesUser(r) => _check_user_eligibility(r)
        BY DEF ChosenFits
    <2>1. MayUse(r.places, KeyUser(r))
        BY DEF EngineInv, AnswersSound
    <2>2. ASSUME NamesUser(r)
          PROVE  KeyUser(r) # Anonymous /\ Identity(r) = KeyUser(r)
        BY <2>2 DEF NamesUser, KeyUser, Identity
    <2> QED BY <2>1, <2>2 DEF MayUse, _check_user_eligibility
<1> QED BY <1>1, EngineInitial, EngineStepKeeps, PTL DEF EngineSpec

\* With the decision cache over the health cache, and a time stamp taken before
\* the await, OR-Tools is chosen only if the service was up less than the sum of
\* both times to live ago.
THEOREM EngineChoosesInTime == EngineSpec => []ChoiceNotStale
<1>1. EngineInv => ChoiceNotStale
    BY DEF EngineInv, AnswersSound, ChoiceNotStale
<1> QED BY <1>1, EngineInitial, EngineStepKeeps, PTL DEF EngineSpec
-----------------------------------------------------------------------------
(* ORToolsPipeline *)

Idx == DOMAIN tour.pois

\* What the solver may answer: nothing, or a route over the POIs without the
\* droppable ones that it leaves out.
SoundSolution ==
    \/ solution = NoSolution
    \/ \E r \in Routes : solution = Solved(r) /\ \A n \in Nodes \ ToSet(r) : Droppable(n)

\* The inductive invariant: places keep their identity on the way to the solver,
\* and the answer is made of the solver's.
PipelineInv ==
    /\ tour \in Tours
    /\ step # "convert" => /\ pois \in Seq(Idx) /\ IsInjective(pois)
                           /\ tour.via # "converter" => pois = [i \in Idx |-> i]
    /\ step \in {"back", "done"} => SoundSolution
    /\ step = "done" =>
          \/ tour.via = "converter" /\ visits = Reordered
          \/ tour.via = "integrator" /\ solution.success /\ visits = optimized_pois
          \/ /\ tour.via = "integrator" /\ ~solution.success
             /\ \E r \in Routes : Len(r) = Len(pois) /\ visits = [k \in DOMAIN r |-> At(r[k])]

\* The indices of a list are distinct.
LEMMA IndicesDistinct ==
    ASSUME tour \in Tours
    PROVE  /\ [i \in Idx |-> i] \in Seq(Idx) /\ IsInjective([i \in Idx |-> i])
           /\ \E n \in Nat : Idx = 1..n
<1>1. tour.pois \in Seq({tour.pois[i] : i \in DOMAIN tour.pois})
    BY ToursAssumption
<1>2. Len(tour.pois) \in Nat /\ Idx = 1..Len(tour.pois)
    BY <1>1, LenProperties DEF Idx
<1> DEFINE n == Len(tour.pois)
<1> HIDE DEF n
<1>3. Idx = 1..n /\ n \in Nat
    BY <1>2 DEF n
<1>4. [i \in Idx |-> i] \in Seq(Idx)
    BY <1>3
<1>5. IsInjective([i \in Idx |-> i])
    BY DEF IsInjective
<1> QED BY <1>3, <1>4, <1>5

\* A route without repetitions visits every node exactly if it is as long as
\* there are nodes.
LEMMA FullRoutes ==
    ASSUME Len(pois) \in Nat, NEW r \in Routes
    PROVE  /\ Len(r) \in 1..Len(pois) /\ r \in [1..Len(r) -> Nodes] /\ r[1] = 0 /\ IsInjective(r)
           /\ r \in Seq(Nodes) /\ DOMAIN r = 1..Len(r)
           /\ Len(r) = Len(pois) <=> ToSet(r) = Nodes
<1>1. PICK k \in 1..Len(pois) : r \in [1..k -> Nodes]
    BY DEF Routes
<1>2. k \in Nat /\ Len(r) = k /\ r \in Seq(Nodes)
    BY <1>1
<1>3. r[1] = 0 /\ IsInjective(r)
    BY DEF Routes
<1> DEFINE S == 1..k
<1>4. r \in Injection(S, Nodes)
    BY <1>1, <1>3 DEF Injection, IsInjective
<1>5. /\ IsFiniteSet(S) /\ Cardinality(S) = k
      /\ IsFiniteSet(Nodes) /\ Cardinality(Nodes) = Len(pois)
    <2>1. IsFiniteSet(S) /\ Cardinality(S) = k
        BY <1>2, FS_Interval
    <2> DEFINE n == Len(pois)
    <2>2. n - 1 \in Int /\ Nodes = 0..(n - 1) /\ n \in Nat
        BY DEF Nodes
    <2> HIDE DEF n
    <2>3. IsFiniteSet(0..(n - 1)) /\ Cardinality(0..(n - 1)) = IF 0 > n - 1 THEN 0 ELSE (n - 1) - 0 + 1
        BY <2>2, FS_Interval
    <2>4. Cardinality(0..(n - 1)) = n
        BY <2>2, <2>3
    <2> QED BY <2>1, <2>2, <2>3, <2>4 DEF n
<1>6. k = Len(pois) <=> r \in Surjection(S, Nodes)
    <2>1. Cardinality(S) = Cardinality(Nodes) <=> r \in Surjection(S, Nodes)
        BY <1>4, <1>5, FS_Injection
    <2> QED BY <1>5, <2>1
<1>7. r \in Surjection(S, Nodes) <=> ToSet(r) = Nodes
    BY <1>1 DEF Surjection, ToSet
<1> QED BY <1>1, <1>2, <1>3, <1>6, <1>7

\* A composition of lists without repetitions has none.
LEMMA PickedDistinct ==
    ASSUME NEW P, NEW X, NEW p \in [P -> X], IsInjective(p),
           NEW D, \A n \in D : n \in Int /\ n + 1 \in P,
           NEW r \in Seq(D), IsInjective(r),
           NEW v \in [DOMAIN r -> X], \A k \in DOMAIN r : v[k] = p[r[k] + 1]
    PROVE  v \in Seq(X) /\ Len(v) = Len(r) /\ IsInjective(v)
<1>1. Len(r) \in Nat /\ DOMAIN r = 1..Len(r) /\ \A k \in 1..Len(r) : r[k] \in D
    BY LenProperties, ElementOfSeq
<1>2. \A m, n \in D : p[m + 1] = p[n + 1] => m = n
    <2> SUFFICES ASSUME NEW m \in D, NEW n \in D, p[m + 1] = p[n + 1]
                 PROVE  m = n
        OBVIOUS
    <2>1. m + 1 = n + 1
        BY DEF IsInjective
    <2> QED BY <2>1
<1>3. v \in [1..Len(r) -> X]
    BY <1>1
<1>4. v \in Seq(X) /\ Len(v) = Len(r)
    BY <1>1, <1>3
<1>5. IsInjective(v)
    BY <1>1, <1>2 DEF IsInjective
<1> QED BY <1>4, <1>5

\* What the properties need of the solver's answer.
LEMMA SolutionFacts ==
    ASSUME pois \in Seq(Idx), IsInjective(pois), SoundSolution
    PROVE  /\ Len(pois) \in Nat /\ pois \in [1..Len(pois) -> Idx] /\ DOMAIN pois = 1..Len(pois)
           /\ ToSet(pois) = {pois[n + 1] : n \in Nodes}
           /\ \/ solution = NoSolution
              \/ /\ solution.success /\ solution.route \in Routes
                 /\ solution.dropped = Nodes \ ToSet(solution.route)
                 /\ \A n \in solution.dropped : Droppable(n)
<1>1. Len(pois) \in Nat /\ pois \in [1..Len(pois) -> Idx] /\ DOMAIN pois = 1..Len(pois)
    BY LenProperties
<1>2. ToSet(pois) = {pois[n + 1] : n \in Nodes}
    <2> DEFINE N == Len(pois)
    <2>1. N \in Nat /\ DOMAIN pois = 1..N /\ Nodes = 0..(N - 1)
        BY <1>1 DEF Nodes
    <2> HIDE DEF N
    <2>2. \A k \in 1..N : k - 1 \in 0..(N - 1) /\ (k - 1) + 1 = k
        BY <2>1
    <2>3. \A n \in 0..(N - 1) : n + 1 \in 1..N
        BY <2>1
    <2> QED BY <2>1, <2>2, <2>3 DEF ToSet
<1>3. ASSUME solution # NoSolution
      PROVE  /\ solution.success /\ solution.route \in Routes
             /\ solution.dropped = Nodes \ ToSet(solution.route)
             /\ \A n \in solution.dropped : Droppable(n)
    <2>1. PICK r \in Routes : solution = Solved(r) /\ \A n \in Nodes \ ToSet(r) : Droppable(n)
        BY <1>3 DEF SoundSolution
    <2>2. solution.success /\ solution.route = r /\ solution.dropped = Nodes \ ToSet(r)
        BY <2>1 DEF Solved
    <2> QED BY <2>1, <2>2
<1> QED BY <1>1, <1>2, <1>3

\* The places of a route, in its order, are distinct, and those of its nodes.
LEMMA PlacesOfRoute ==
    ASSUME pois \in Seq(Idx), IsInjective(pois), Len(pois) \in Nat, NEW r \in Routes
    PROVE  LET v == [k \in DOMAIN r |-> At(r[k])]
           IN  /\ v \in Seq(Idx) /\ Len(v) = Len(r) /\ IsInjective(v)
               /\ ToSet(v) = {At(n) : n \in ToSet(r)} /\ v[1] = pois[1]
<1> DEFINE N == Len(pois)
           v == [k \in DOMAIN r |-> At(r[k])]
<1>1. /\ N \in Nat /\ pois \in [1..N -> Idx]
      /\ Len(r) \in 1..N /\ r[1] = 0 /\ IsInjective(r) /\ r \in Seq(0..(N - 1)) /\ DOMAIN r = 1..Len(r)
    BY FullRoutes DEF Nodes
<1>2. v = [k \in DOMAIN r |-> pois[r[k] + 1]]
    BY DEF At
<1> HIDE DEF N
<1>3. /\ v \in Seq(Idx) /\ Len(v) = Len(r) /\ IsInjective(v)
      /\ ToSet(v) = {pois[n + 1] : n \in ToSet(r)}
    <2>1. \A n \in 0..(N - 1) : n \in Int /\ n + 1 \in 1..N
        BY <1>1
    <2> DEFINE D == 0..(N - 1)
               P == 1..N
    <2>2. (\A n \in D : n \in Int /\ n + 1 \in P) /\ r \in Seq(D) /\ pois \in [P -> Idx] /\ IsInjective(r)
        BY <1>1, <2>1
    <2>3. \A k \in DOMAIN r : r[k] \in D
        <3> HIDE DEF D
        <3> QED BY <1>1, <2>2, ElementOfSeq
    <2>4. v \in [DOMAIN r -> Idx] /\ \A k \in DOMAIN r : v[k] = pois[r[k] + 1]
        BY <1>2, <2>2, <2>3
    <2> HIDE DEF v, D, P
    <2>5. v \in Seq(Idx) /\ Len(v) = Len(r) /\ IsInjective(v)
        BY <2>2, <2>4, PickedDistinct DEF IsInjective
    <2>6. \A y : y \in ToSet(v) <=> \E n \in ToSet(r) : y = pois[n + 1]
        BY <2>4 DEF ToSet
    <2> QED BY <2>5, <2>6
<1>4. v[1] = pois[1]
    <2>1. 1 \in DOMAIN r /\ r[1] + 1 = 1
        BY <1>1
    <2> HIDE DEF v
    <2> QED BY <1>2, <2>1
<1> QED BY <1>3, <1>4 DEF At

\* The converter's second reordering repeats and invents nothing, begins with
\* the depot, and of a complete route it keeps all.
LEMMA ReorderedSound ==
    ASSUME pois \in Seq(Idx), IsInjective(pois), SoundSolution, solution # NoSolution
    PROVE  /\ Reordered # <<>> /\ IsInjective(Reordered) /\ Reordered[1] = pois[1]
           /\ ToSet(Reordered) \subseteq ToSet(pois)
           /\ solution.dropped = {} => ToSet(Reordered) = ToSet(pois)
<1> DEFINE r == solution.route
           N == Len(pois)
           L == Len(r)
           op == optimized_pois
           inside == Kept(r, 0..(L - 1))
           w == [k \in DOMAIN inside |-> op[inside[k] + 1]]
<1>1. /\ N \in Nat /\ DOMAIN pois = 1..N /\ ToSet(pois) = {pois[n + 1] : n \in Nodes}
      /\ r \in Routes /\ solution.dropped = Nodes \ ToSet(r)
    BY SolutionFacts
<1>2. /\ L \in 1..N /\ r[1] = 0 /\ IsInjective(r) /\ r \in Seq(Nodes) /\ DOMAIN r = 1..L
      /\ L = N <=> ToSet(r) = Nodes
    BY <1>1, FullRoutes
<1>3. /\ op \in Seq(Idx) /\ Len(op) = L /\ IsInjective(op)
      /\ ToSet(op) = {At(n) : n \in ToSet(r)} /\ op[1] = pois[1]
    BY <1>1, PlacesOfRoute DEF optimized_pois
<1>4. Reordered = w
    <2>1. Len(optimized_pois) = L
        BY <1>3
    <2> QED BY <2>1 DEF Reordered
<1> HIDE DEF r, op
<1>5. ToSet(r) \subseteq Nodes
    BY <1>2 DEF ToSet
<1> HIDE DEF L, N
<1>6. /\ inside \in Seq(Nodes \cap (0..(L - 1))) /\ IsInjective(inside)
      /\ ToSet(r) \subseteq 0..(L - 1) => inside = r
      /\ ToSet(inside) = ToSet(r) \cap (0..(L - 1))
    BY <1>2, KeptElements
<1>7. inside # <<>> /\ inside[1] = 0
    <2>1. r # <<>>
        BY <1>2 DEF L
    <2>2. r[1] \in 0..(L - 1)
        BY <1>1, <1>2
    <2> QED BY <1>2, <2>1, <2>2, KeptFirst
<1> HIDE DEF inside
<1>8. inside \in Seq(0..(L - 1)) /\ L \in Nat
    BY <1>1, <1>2, <1>6
<1>9. op \in [1..L -> ToSet(op)] /\ DOMAIN op = 1..L
    <2>1. DOMAIN op = 1..L /\ op \in [1..L -> Idx]
        BY <1>3, <1>8, LenProperties
    <2> QED BY <2>1 DEF ToSet
<1>10. /\ w \in Seq(ToSet(op)) /\ Len(w) = Len(inside) /\ IsInjective(w)
       /\ ToSet(w) = {op[n + 1] : n \in ToSet(inside)}
    <2> DEFINE D == 0..(L - 1)
               P == 1..L
    <2>1. (\A n \in D : n \in Int /\ n + 1 \in P) /\ inside \in Seq(D) /\ op \in [P -> ToSet(op)]
          /\ IsInjective(inside) /\ IsInjective(op)
        BY <1>3, <1>6, <1>8, <1>9
    <2>2. \A k \in DOMAIN inside : inside[k] \in D
        <3> HIDE DEF D, P
        <3>1. DOMAIN inside = 1..Len(inside)
            BY <2>1, LenProperties
        <3> QED BY <2>1, <3>1, ElementOfSeq
    <2>3. w \in [DOMAIN inside -> ToSet(op)] /\ \A k \in DOMAIN inside : w[k] = op[inside[k] + 1]
        <3> HIDE DEF D, P
        <3> QED BY <2>1, <2>2
    <2> HIDE DEF w, D, P
    <2>4. w \in Seq(ToSet(op)) /\ Len(w) = Len(inside) /\ IsInjective(w)
        BY <2>1, <2>3, PickedDistinct DEF IsInjective
    <2>5. \A y : y \in ToSet(w) <=> \E n \in ToSet(inside) : y = op[n + 1]
        BY <2>3 DEF ToSet
    <2> QED BY <2>4, <2>5
<1>11. w # <<>> /\ w[1] = pois[1]
    <2>1. 1 \in DOMAIN inside /\ inside[1] + 1 = 1
        <3>1. Len(inside) \in Nat /\ DOMAIN inside = 1..Len(inside)
            BY <1>8, LenProperties
        <3>2. Len(inside) # 0
            BY <1>7, <1>8, EmptySeq
        <3> QED BY <1>7, <3>1, <3>2
    <2>2. w[1] = op[1]
        BY <2>1
    <2>3. Len(w) # 0
        <3>1. Len(inside) # 0
            BY <1>7, <1>8, EmptySeq
        <3> QED BY <1>10, <3>1
    <2>4. w # <<>>
        <3> HIDE DEF w
        <3> QED BY <2>3, EmptySeq
    <2> QED BY <1>3, <2>2, <2>4
<1>12. ToSet(w) \subseteq ToSet(op)
    <2>1. ToSet(w) = {w[k] : k \in DOMAIN w} /\ DOMAIN w = 1..Len(w)
        BY <1>10, LenProperties DEF ToSet
    <2> HIDE DEF w
    <2>2. \A k \in 1..Len(w) : w[k] \in ToSet(op)
        BY <1>10, ElementOfSeq
    <2> QED BY <2>1, <2>2
<1>13. ToSet(op) \subseteq ToSet(pois)
    BY <1>1, <1>3, <1>5 DEF At
<1>14. ASSUME solution.dropped = {} PROVE ToSet(w) = ToSet(pois)
    <2>1. ToSet(r) = Nodes /\ L = N
        BY <1>1, <1>2, <1>5, <1>14
    <2>2. Nodes = 0..(L - 1)
        BY <2>1 DEF Nodes, N
    <2>3. inside = r
        BY <1>6, <2>1, <2>2
    <2>4. ToSet(w) = {op[n + 1] : n \in 0..(L - 1)}
        BY <1>10, <2>1, <2>2, <2>3
    <2>5. ToSet(op) = {op[n + 1] : n \in 0..(L - 1)}
        <3>1. \A k \in 1..L : k - 1 \in 0..(L - 1) /\ (k - 1) + 1 = k
            BY <1>8
        <3>2. \A n \in 0..(L - 1) : n + 1 \in 1..L
            BY <1>8
        <3> QED BY <1>9, <3>1, <3>2 DEF ToSet
    <2>6. ToSet(op) = ToSet(pois)
        BY <1>1, <1>3, <2>1 DEF At
    <2> QED BY <2>4, <2>5, <2>6
<1> HIDE DEF w
<1> QED BY <1>4, <1>10, <1>11, <1>12, <1>13, <1>14

LEMMA PipelineInitial == PipelineInit => PipelineInv
BY DEF PipelineInit, PipelineInv

LEMMA ConvertKeeps == ASSUME PipelineInv, _convert_places_to_ortools PROVE PipelineInv'
<1> USE DEF _convert_places_to_ortools
<1> DEFINE all == [i \in DOMAIN tour.pois |-> i]
           valid == {i \in DOMAIN tour.pois : tour.pois[i].valid}
<1>1. tour \in Tours /\ all \in Seq(Idx) /\ IsInjective(all)
    BY IndicesDistinct DEF PipelineInv, Idx
<1>2. pois' = Kept(all, valid)
    OBVIOUS
<1> HIDE DEF all, valid
<1>3. Kept(all, valid) \in Seq(Idx \cap valid) /\ IsInjective(Kept(all, valid))
    BY <1>1, KeptElements
<1>4. Kept(all, valid) \in Seq(Idx)
    BY <1>1, KeptShorter
<1>5. pois' \in Seq(Idx) /\ IsInjective(pois')
    BY <1>2, <1>3, <1>4
<1>6. tour' = tour /\ step' = "solve" /\ tour.via = "converter" /\ tour \in Tours
    BY DEF PipelineInv
<1> QED BY <1>5, <1>6 DEF PipelineInv, Idx

LEMMA HandOverKeeps == ASSUME PipelineInv, _optimize_tsp_professional PROVE PipelineInv'
<1> USE DEF _optimize_tsp_professional
<1> DEFINE all == [i \in Idx |-> i]
<1>1. tour \in Tours /\ all \in Seq(Idx) /\ IsInjective(all)
    BY IndicesDistinct DEF PipelineInv
<1>2. pois' = all /\ tour' = tour /\ step' = "solve"
    BY DEF Idx
<1> QED BY <1>1, <1>2 DEF PipelineInv, Idx

\* Without windows every node is on the route; with them the model lets the
\* solver leave out the droppable ones alone.
LEMMA SolveSound ==
    ASSUME PipelineInv, optimize_itinerary_advanced
    PROVE  \/ solution' = NoSolution
           \/ \E r \in Routes : solution' = Solved(r) /\ \A n \in Nodes \ ToSet(r) : Droppable(n)
<1>1. Len(pois) \in Nat
    BY LenProperties DEF PipelineInv, optimize_itinerary_advanced
<1>2. solution' \in solve_vrptw \/ solution' \in solve_tsp_basic
    BY DEF optimize_itinerary_advanced
<1>3. ASSUME solution' \in solve_tsp_basic, solution' # NoSolution
      PROVE  \E r \in Routes : solution' = Solved(r) /\ \A n \in Nodes \ ToSet(r) : Droppable(n)
    <2>1. PICK r \in Routes : Len(r) = Len(pois) /\ solution' = Solved(r)
        BY <1>3 DEF solve_tsp_basic
    <2>2. ToSet(r) = Nodes
        BY <1>1, <2>1, FullRoutes
    <2> QED BY <2>1, <2>2
<1>4. ASSUME solution' \in solve_vrptw, solution' \notin solve_tsp_basic
      PROVE  \E r \in Routes : solution' = Solved(r) /\ \A n \in Nodes \ ToSet(r) : Droppable(n)
    <2>1. PICK r \in Routes : Feasible(r) /\ solution' = Solved(r)
        BY <1>4 DEF solve_vrptw
    <2>2. \A n \in Nodes \ ToSet(r) : Droppable(n)
        BY <2>1 DEF Feasible
    <2> QED BY <2>1, <2>2
<1> QED BY <1>2, <1>3, <1>4

LEMMA SolveKeeps == ASSUME PipelineInv, optimize_itinerary_advanced PROVE PipelineInv'
<1>1. /\ tour' = tour /\ pois' = pois /\ step = "solve" /\ step' = "back"
      /\ tour \in Tours /\ pois \in Seq(Idx) /\ IsInjective(pois)
      /\ tour.via # "converter" => pois = [i \in Idx |-> i]
    BY DEF PipelineInv, optimize_itinerary_advanced
<1>2. SoundSolution'
    BY <1>1, SolveSound DEF SoundSolution, Routes, Nodes, Solved, Droppable, POI, NoSolution
<1> QED BY <1>1, <1>2 DEF PipelineInv, Idx

LEMMA LegacyKeeps == ASSUME PipelineInv, _convert_ortools_route_to_legacy PROVE PipelineInv'
<1>1. /\ tour' = tour /\ pois' = pois /\ solution' = solution /\ step = "back" /\ step' = "done"
      /\ tour \in Tours /\ pois \in Seq(Idx) /\ IsInjective(pois) /\ SoundSolution
      /\ tour.via = "converter" /\ visits' = Reordered
    BY DEF PipelineInv, _convert_ortools_route_to_legacy
<1>2. SoundSolution'
    BY <1>1 DEF SoundSolution, Routes, Nodes, Solved, Droppable, POI, NoSolution
<1>3. Reordered' = Reordered
    BY <1>1 DEF Reordered, optimized_pois, At
<1> QED BY <1>1, <1>2, <1>3 DEF PipelineInv, Idx

LEMMA AnswerKeeps == ASSUME PipelineInv, IntegratorAnswers PROVE PipelineInv'
<1>1. /\ tour' = tour /\ pois' = pois /\ solution' = solution /\ step = "back" /\ step' = "done"
      /\ tour \in Tours /\ pois \in Seq(Idx) /\ IsInjective(pois) /\ SoundSolution
      /\ tour.via = "integrator" /\ pois = [i \in Idx |-> i]
    BY DEF PipelineInv, IntegratorAnswers
<1>2. SoundSolution'
    BY <1>1 DEF SoundSolution, Routes, Nodes, Solved, Droppable, POI, NoSolution
<1>3. optimized_pois' = optimized_pois /\ Routes' = Routes
    BY <1>1 DEF optimized_pois, At, Routes, Nodes
<1>4. \/ solution.success /\ visits' = optimized_pois
      \/ /\ ~solution.success
         /\ \E r \in Routes : Len(r) = Len(pois) /\ visits' = [k \in DOMAIN r |-> At(r[k])]
    BY DEF IntegratorAnswers, _optimize_tsp_basic
<1>5. CASE solution.success /\ visits' = optimized_pois
    BY <1>1, <1>2, <1>3, <1>5 DEF PipelineInv, Idx
<1>6. CASE /\ ~solution.success
           /\ \E r \in Routes : Len(r) = Len(pois) /\ visits' = [k \in DOMAIN r |-> At(r[k])]
    <2>1. PICK r \in Routes : Len(r) = Len(pois) /\ visits' = [k \in DOMAIN r |-> At(r[k])]
        BY <1>6
    <2>2. (\E q \in Routes : Len(q) = Len(pois) /\ visits = [k \in DOMAIN q |-> At(q[k])])'
        BY <1>1, <1>3, <2>1 DEF At
    <2> QED BY <1>1, <1>2, <1>6, <2>2 DEF PipelineInv, Idx
<1> QED BY <1>4, <1>5, <1>6

LEMMA PipelineStepKeeps == PipelineInv /\ [PipelineNext]_pipelineVars => PipelineInv'
<1> SUFFICES ASSUME PipelineInv, [PipelineNext]_pipelineVars PROVE PipelineInv'
    OBVIOUS
<1>1. CASE UNCHANGED pipelineVars
    <2>1. tour' = tour /\ pois' = pois /\ solution' = solution /\ step' = step /\ visits' = visits
        BY <1>1 DEF pipelineVars
    <2>2. SoundSolution' <=> SoundSolution
        BY <2>1 DEF SoundSolution, Routes, Nodes, Solved, Droppable, POI, NoSolution
    <2>3. Reordered' = Reordered /\ optimized_pois' = optimized_pois
        BY <2>1 DEF Reordered, optimized_pois, At
    <2>4. (\E r \in Routes : Len(r) = Len(pois) /\ visits = [k \in DOMAIN r |-> At(r[k])])' <=>
              \E r \in Routes : Len(r) = Len(pois) /\ visits = [k \in DOMAIN r |-> At(r[k])]
        BY <2>1 DEF Routes, Nodes, At
    <2>5. Idx' = Idx
        BY <2>1 DEF Idx
    <2> QED BY <2>1, <2>2, <2>3, <2>4, <2>5 DEF PipelineInv
<1> QED BY <1>1, ConvertKeeps, HandOverKeeps, SolveKeeps, LegacyKeeps, AnswerKeeps DEF PipelineNext

\* Whatever route the solver finds or the fallbacks make, at the end what is
\* missing is what the solver dropped.
LEMMA PipelineVisits == PipelineInv => VisitedOnce
<1> SUFFICES ASSUME PipelineInv, step = "done", visits # <<>>
             PROVE  /\ IsInjective(visits) /\ visits[1] = pois[1]
                    /\ ToSet(visits) \subseteq ToSet(pois)
                    /\ solution.dropped = {} => ToSet(visits) = ToSet(pois)
                    /\ DroppedAreMandatory
    BY DEF VisitedOnce
<1>1. /\ tour \in Tours /\ pois \in Seq(Idx) /\ IsInjective(pois) /\ SoundSolution
      /\ tour.via # "converter" => pois = [i \in Idx |-> i]
    BY DEF PipelineInv
<1>2. /\ Len(pois) \in Nat /\ ToSet(pois) = {At(n) : n \in Nodes}
      /\ \/ solution = NoSolution
         \/ /\ solution.success /\ solution.route \in Routes
            /\ solution.dropped = Nodes \ ToSet(solution.route)
            /\ \A n \in solution.dropped : Droppable(n)
    BY <1>1, SolutionFacts DEF At
<1>3. CASE tour.via = "converter" /\ visits = Reordered
    <2>1. solution # NoSolution
        <3> SUFFICES ASSUME solution = NoSolution PROVE FALSE
            OBVIOUS
        <3>1. solution.route = <<>>
            BY DEF NoSolution
        <3> DEFINE none == <<>>
        <3>2. none \in Seq(Idx) /\ Len(none) = 0 /\ DOMAIN none = {}
            BY EmptySeq
        <3> HIDE DEF none
        <3>3. solution.route = none
            BY <3>1 DEF none
        <3>4. Kept(solution.route, 0..(Len(optimized_pois) - 1)) \in Seq(Idx)
            BY <3>2, <3>3, KeptStep
        <3>5. Kept(solution.route, 0..(Len(optimized_pois) - 1)) = <<>>
            BY <3>3, KeptStep DEF none
        <3>6. Reordered = <<>>
            <4>1. DOMAIN Kept(solution.route, 0..(Len(optimized_pois) - 1)) = {}
                BY <3>2, <3>5 DEF none
            <4> QED BY <4>1 DEF Reordered
        <3> QED BY <1>3, <3>6
    <2>2. /\ IsInjective(Reordered) /\ Reordered[1] = pois[1] /\ ToSet(Reordered) \subseteq ToSet(pois)
          /\ solution.dropped = {} => ToSet(Reordered) = ToSet(pois)
        BY <1>1, <2>1, ReorderedSound
    <2> QED BY <1>3, <2>2 DEF DroppedAreMandatory
<1>4. CASE tour.via = "integrator" /\ solution.success /\ visits = optimized_pois
    <2>1. solution # NoSolution
        BY <1>4 DEF NoSolution
    <2> DEFINE r == solution.route
    <2>2. /\ r \in Routes /\ solution.dropped = Nodes \ ToSet(r)
          /\ \A n \in solution.dropped : Droppable(n)
        BY <1>2, <2>1
    <2>3. visits = [k \in DOMAIN r |-> At(r[k])]
        BY <1>4 DEF optimized_pois
    <2> HIDE DEF r
    <2>4. /\ IsInjective(visits) /\ visits[1] = pois[1]
          /\ ToSet(visits) = {At(n) : n \in ToSet(r)}
        BY <1>1, <1>2, <2>2, <2>3, PlacesOfRoute
    <2>5. ToSet(r) \subseteq Nodes /\ Nodes = 0..(Len(pois) - 1)
        <3>1. r \in Seq(Nodes)
            BY <1>2, <2>2, FullRoutes
        <3> QED BY <3>1 DEF ToSet, Nodes
    <2>6. \A m, n \in Nodes : At(m) = At(n) => m = n
        <3> SUFFICES ASSUME NEW m \in Nodes, NEW n \in Nodes, At(m) = At(n) PROVE m = n
            OBVIOUS
        <3>1. m \in Int /\ n \in Int /\ m + 1 \in DOMAIN pois /\ n + 1 \in DOMAIN pois
            BY <1>1, <1>2, LenProperties DEF Nodes
        <3>2. m + 1 = n + 1
            BY <1>1, <3>1 DEF At, IsInjective
        <3> QED BY <3>1, <3>2
    <2>7. {At(n) : n \in ToSet(r)} = {At(n) : n \in Nodes} \ {At(n) : n \in Nodes \ ToSet(r)}
        BY <2>5, <2>6
    <2>8. \A n \in solution.dropped : tour.pois[At(n)].mandatory
        BY <1>4, <2>2 DEF Droppable, POI, At
    <2>9. DroppedAreMandatory
        BY <1>2, <2>2, <2>4, <2>7, <2>8 DEF DroppedAreMandatory
    <2> QED BY <1>2, <2>2, <2>4, <2>7, <2>9
<1>5. CASE /\ tour.via = "integrator" /\ ~solution.success
           /\ \E r \in Routes : Len(r) = Len(pois) /\ visits = [k \in DOMAIN r |-> At(r[k])]
    <2>1. PICK r \in Routes : Len(r) = Len(pois) /\ visits = [k \in DOMAIN r |-> At(r[k])]
        BY <1>5
    <2>2. ToSet(r) = Nodes
        BY <1>2, <2>1, FullRoutes
    <2>3. /\ IsInjective(visits) /\ visits[1] = pois[1]
          /\ ToSet(visits) = {At(n) : n \in ToSet(r)}
        BY <1>1, <1>2, <2>1, PlacesOfRoute
    <2>4. solution.dropped = {}
        BY <1>2, <1>5 DEF NoSolution
    <2> QED BY <1>2, <2>2, <2>3, <2>4 DEF DroppedAreMandatory
<1> QED BY <1>3, <1>4, <1>5 DEF PipelineInv

\* Through the conversions, the solver and the fallbacks no place is visited
\* twice, the tour begins where the request does, and no place is lost but those
\* the solver dropped, which from the integrator are mandatory ones: whatever
\* tours are asked for and whatever routes the solver finds.
THEOREM PipelineVisitsOnce == PipelineSpec => []VisitedOnce
<1>1. PipelineInit => PipelineInv
    BY PipelineInitial
<1>2. PipelineInv /\ [PipelineNext]_pipelineVars => PipelineInv'
    BY PipelineStepKeeps
<1>3. PipelineInv => VisitedOnce
    BY PipelineVisits
<1> QED BY <1>1, <1>2, <1>3, PTL DEF PipelineSpec
==============================================================================
