------------------------------ MODULE MCServing ------------------------------
(***************************************************************************)
(* What answers while other services fail, side by side: the two itinerary *)
(* endpoints, the search for nearby places, the routing services and the   *)
(* monitoring. They share no state, so a behaviour moves one of them,      *)
(* chosen at first; each is fair while it is the one that moves.           *)
(***************************************************************************)
EXTENDS ItineraryEndpoint, MultimodalEndpoint, NearbySearch, RoutingChain, Monitoring

VARIABLE service

mcVars == <<endpointVars, multimodalVars, nearbyVars, chainVars, monitorVars, service>>

MCTrip(places, days, accommodation) ==
    [places |-> places, days |-> days, accommodation |-> accommodation]
MCTrips == {MCTrip(<<"a", "b", "c">>, 2, FALSE), MCTrip(<<"a">>, 3, TRUE), MCTrip(<<>>, 1, FALSE)}

MCAround == <<1, 3>>

MCJourney(kms, n, preferences) ==
    [places |-> [p \in DOMAIN kms |-> [km |-> kms[p], type |-> IF p = 1 THEN "museum" ELSE "cafe"]],
     days |-> n, preferences |-> preferences]
MCJourneys == {MCJourney(<<0>>, 1, TRUE), MCJourney(<<0, 1>>, 4, TRUE), MCJourney(<<0, 120>>, 2, TRUE),
               MCJourney(<<>>, 3, FALSE), MCJourney(<<>>, 2, TRUE)}
MCCategories == <<"tourist_attraction", "museum", "cafe", "park">>
MCPlaceNear(id, name) == [id |-> id, name |-> <<name>>]
MCPlacesNear ==
    [c \in {"tourist_attraction", "museum", "cafe", "park"} |->
        CASE c = "tourist_attraction" -> <<MCPlaceNear("g1", "Louvre"), MCPlaceNear("g2", "Arc")>>
          [] c = "museum" -> <<MCPlaceNear("g1", "Louvre"), MCPlaceNear("g3", "Louvre")>>
          [] c = "cafe" -> <<MCPlaceNear("g4", "Flore")>>
          [] c = "park" -> <<>>]

MCInit ==
    /\ service \in {"endpoint", "multimodal", "nearby", "routing", "monitoring"}
    /\ EndpointInit /\ MultimodalInit /\ NearbyInit /\ ChainInit /\ MonitorInit
    /\ service # "endpoint" => has_analytics
    /\ service # "multimodal" => switches.city2graph /\ switches.ortools /\ switches.cities
    /\ service # "nearby" => google_up
    /\ service # "routing" => osrm_up /\ openroute_up /\ has_key /\ google_available /\ ~winding

MCNext ==
    /\ \/ service = "endpoint" /\ EndpointNext /\ UNCHANGED <<multimodalVars, nearbyVars, chainVars, monitorVars>>
       \/ service = "multimodal" /\ MultimodalNext
             /\ UNCHANGED <<endpointVars, nearbyVars, chainVars, monitorVars>>
       \/ service = "nearby" /\ NearbyNext /\ UNCHANGED <<endpointVars, multimodalVars, chainVars, monitorVars>>
       \/ service = "routing" /\ ChainNext /\ UNCHANGED <<endpointVars, multimodalVars, nearbyVars, monitorVars>>
       \/ service = "monitoring" /\ MonitorNext /\ UNCHANGED <<endpointVars, multimodalVars, nearbyVars, chainVars>>
    /\ UNCHANGED service

MCFairness ==
    /\ \A c \in Clients : WF_endpointVars(service = "endpoint" /\ Serve(c))
    /\ \A a \in Askers : WF_nearbyVars(service = "nearby" /\ Search(a))
    /\ WF_nearbyVars(service = "nearby" /\ GoogleTick)
    /\ WF_chainVars(service = "routing" /\ RouteTick)
    /\ \A l \in Lookups : WF_chainVars(service = "routing" /\ RouteStep(l))
    /\ WF_monitorVars(service = "monitoring" /\ Record)

MCSpec == MCInit /\ [][MCNext]_mcVars /\ MCFairness
==============================================================================
