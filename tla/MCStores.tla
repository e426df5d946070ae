------------------------------ MODULE MCStores ------------------------------
(***************************************************************************)
(* The caches that outlive a request or a process, side by side: the       *)
(* routing cache, the places cache, the graphs of the multimodal router,   *)
(* the matrices of the hybrid integrator.                                  *)
(* They share no state, so a behaviour moves one of them, chosen at first. *)
(***************************************************************************)
EXTENDS RoutingCache, PlacesCache, ChileRouter, ODMatrix

VARIABLE store

mcVars == <<routingVars, placesVars, graphVars, odVars, store>>

MCPlace(at, types, main) == [at |-> at, types |-> types, main |-> main, good |-> TRUE]
MCWorld == {MCPlace(0, {"restaurant"}, "restaurant"),
            MCPlace(2, {"tourist_attraction", "restaurant"}, "tourist_attraction")}
MCSearches == {[at |-> 0, radius |-> 3, types |-> {"tourist_attraction"}, limit |-> 2],
               [at |-> 0, radius |-> 1, types |-> {"tourist_attraction", "restaurant"}, limit |-> 1]}
MCTypeTTL == [t \in {"restaurant", "tourist_attraction"} |-> IF t = "restaurant" THEN 1 ELSE 2]

MCStop(cluster, spot) == [cluster |-> cluster, spot |-> spot]
MCTours == {<<MCStop(1, 1), MCStop(2, 2)>>,
            <<MCStop(1, 1), MCStop(1, 2), MCStop(2, 1)>>,
            <<MCStop(1, 1), MCStop(2, 1), MCStop(1, 2)>>}

\* The threads run beside one download, and two downloads beside no thread.
MCDownloader == CHOOSE d \in Downloaders : TRUE
otherVars == <<routingVars, placesVars, odVars>>

MCInit ==
    /\ store \in {"routes", "places", "graphs", "downloads", "matrices"}
    /\ RoutingInit /\ PlacesInit /\ GraphInit /\ ODInit
    /\ store # "routes" => ~persistent
    /\ store # "matrices" => ~redis_up /\ ~osrm_up /\ ~city2graph
    /\ store \notin {"graphs", "downloads"} => file = [m \in GraphModes |-> "absent"]
    /\ store # "downloads" => zipped = [m \in GraphModes |-> "absent"]

MCNext ==
    /\ \/ store = "routes" /\ RoutingNext /\ UNCHANGED <<placesVars, graphVars, odVars>>
       \/ store = "places" /\ PlacesNext /\ UNCHANGED <<routingVars, graphVars, odVars>>
       \/ store = "graphs" /\ (Router \/ DownloadOf(MCDownloader)) /\ UNCHANGED otherVars
       \/ store = "downloads" /\ (\E d \in Downloaders : DownloadOf(d)) /\ UNCHANGED otherVars
       \/ store = "matrices" /\ ODNext /\ UNCHANGED <<routingVars, placesVars, graphVars>>
    /\ UNCHANGED store

MCSpec == MCInit /\ [][MCNext]_mcVars
=============================================================================
