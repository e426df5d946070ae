----------------------------- MODULE MCDayRouter -----------------------------
(* DayRouter for TLC: trips of two days with up to two of the clusters      *)
(* below each. A transfer is short, or a journey of more than three hours.  *)
EXTENDS DayRouter

P(where, kind, prio) == [loc |-> where, type |-> kind, priority |-> prio]

MCClusters ==
    { [home |-> "h1", places |-> << P("p1", "museum", 5), P("p2", "restaurant", 5),
                                    P("h1", "accommodation", 9) >>],
      [home |-> "h1", places |-> << P("h1", "park", 3), P("p1", "shopping", 7) >>],
      [home |-> "h2", places |-> << P("p2", "restaurant", 5), P("h2", "museum", 5) >>],
      [home |-> NoLocation, places |-> << P("p1", "park", 5), P("p2", "museum", 8) >>] }

\* 09:00-18:00, and a short day of 11:00-14:00.
MCLong(cs)  == [start |-> 540, end |-> 1080, clusters |-> cs]
MCShort(cs) == [start |-> 660, end |-> 840, clusters |-> cs]

MCFirstDays ==
    {MCLong(<<>>)} \cup {MCShort(<<x>>) : x \in MCClusters}
        \cup {MCLong(<<x, y>>) : x, y \in MCClusters}
MCSecondDays ==
    {MCLong(<<>>)} \cup {MCLong(<<x>>) : x \in MCClusters}
        \cup {MCShort(<<x, y>>) : x, y \in MCClusters}

MCTrips == {<<d, e>> : d \in MCFirstDays, e \in MCSecondDays}
MCTravelMinutes == {25, 200}
MCLocations == {"h1", "h2", "p1", "p2"}
==============================================================================
