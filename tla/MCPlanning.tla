----------------------------- MODULE MCPlanning -----------------------------
(***************************************************************************)
(* What is decided and planned before any day is routed, side by side: the *)
(* decision for OR-Tools, the classic method's plan, a journey through     *)
(* several cities, a tour by OR-Tools, the transfers between bases. They   *)
(* share no state, so a behaviour moves one of them, chosen at first.      *)
(***************************************************************************)
EXTENDS DecisionEngine, ClassicPlan, MultiCityPlan, ORToolsPipeline, IntercityTransfers

VARIABLE planner

mcVars == <<engineVars, planVars, journeyVars, pipelineVars, transferVars, planner>>

MCRequest(places, spread_km, user, session, readable) ==
    [places |-> places, days |-> 1, spread_km |-> spread_km, types |-> 1, constraints |-> 1,
     transport |-> "driving", city |-> "santiago", user_id |-> user, session_id |-> session,
     readable |-> readable]
MCRequests == {MCRequest(2, 10, "in", Absent, TRUE), MCRequest(4, 10, "in", "s2", TRUE),
               MCRequest(4, 900, "in", Absent, FALSE), MCRequest(4, 10, "out", "s1", TRUE),
               MCRequest(4, 10, Absent, "s1", TRUE), MCRequest(4, 900, Absent, "s2", TRUE)}
MCSymmetry == Permutations(Askers)
MCUserHash == ("in" :> 10) @@ ("out" :> 80) @@ ("s1" :> 20) @@ ("s2" :> 70) @@ (Anonymous :> 90)

MCKind(type, coords) == [type |-> type, coords |-> coords]
MCPlaceKinds == {MCKind("poi", "in_range"), MCKind("poi", "origin"),
                 MCKind("accommodation", "in_range"), MCKind("poi", "lat_slightly_out")}
MCPoi == MCKind("poi", "in_range")
MCHotel == MCKind("accommodation", "in_range")
MCInputs == UNION {[1..n -> MCPlaceKinds] : n \in 0..3}
              \cup {[i \in 1..4 |-> MCPoi]}
              \cup {<<MCHotel, MCPoi, MCPoi, MCHotel>>}

MCPlace(city, area, spot) ==
    [title |-> "museum", city |-> city, area |-> area, spot |-> spot,
     country |-> IF city = "rome" THEN "italy" ELSE IF city = "oslo" THEN "norway" ELSE "france"]
MCSpots == {MCPlace("paris", 1, 1), MCPlace("paris", 2, 1), MCPlace("paris", 2, 2),
            MCPlace("rome", 3, 1), MCPlace("rome", 3, 2), MCPlace("oslo", 4, 1)}
MCJourneys ==
    [pois : UNION {[1..n -> MCSpots] : n \in 1..3}, duration : {2, 3}, start : {"", "paris"},
     spread : {"near", "far"}]
    \cup [pois : {<<MCPlace("paris", 1, 1), MCPlace("paris", 1, 2), MCPlace("rome", 3, 1),
                    MCPlace("rome", 3, 2)>>}, duration : {4}, start : {""}, spread : {"near"}]

MCStop(area, close, mandatory, ok) ==
    [valid |-> ok, area |-> area, open |-> 9, close |-> close, stay |-> 1, mandatory |-> mandatory]
MCStops == {MCStop(1, 18, TRUE, TRUE), MCStop(2, 18, TRUE, TRUE), MCStop(2, 12, TRUE, TRUE),
            MCStop(2, 12, FALSE, TRUE), MCStop(3, 18, FALSE, FALSE)}
MCTours == [via : {"converter"}, start : {7, 12}, pois : UNION {[1..n -> MCStops] : n \in 0..4}]
           \cup [via : {"integrator"}, start : {9}, pois : UNION {[1..n -> MCStops] : n \in 1..3}]

MCLeg(home, at) == [base |-> home, spot |-> at]
MCLegs == {MCLeg(10, 10), MCLeg(20, 20), MCLeg(110, 110), MCLeg(1010, 1010),
           MCLeg(13010, 13010), MCLeg(0, 60)}
MCNearLegs == {MCLeg(10, 10), MCLeg(11, 11), MCLeg(1010, 1010)}
MCTrips == [1..2 -> UNION {[1..k -> MCLegs] : k \in 0..2}]
           \cup [1..3 -> UNION {[1..k -> MCNearLegs] : k \in 0..2}]

MCInit ==
    /\ planner \in {"engine", "plan", "journey", "tour", "transfers"}
    /\ \/ planner = "tour" /\ PipelineInit
       \/ planner # "tour" /\ step = "done" /\ pois = <<>> /\ solution = NoSolution /\ visits = <<>>
             /\ tour = [via |-> "converter", start |-> 9, pois |-> <<>>]
    /\ \/ planner = "transfers" /\ TransfersInit
       \/ planner # "transfers" /\ trip = <<>> /\ routing = "done" /\ NothingRouted
    /\ EngineInit /\ (planner # "engine" => service_up)
    /\ \/ planner = "plan" /\ PlanInit
       \/ planner # "plan" /\ input = <<>> /\ valid = <<>> /\ clusters = <<>> /\ days = <<>>
             /\ stage = "route" /\ strategy = "balanced" /\ hotels = FALSE
    /\ \/ planner = "journey" /\ JourneyInit
       \/ planner # "journey" /\ NothingPlanned /\ full = FALSE
             /\ journey = [pois |-> <<>>, duration |-> 1, start |-> "", spread |-> "near"]

MCNext ==
    /\ \/ planner = "engine" /\ EngineNext /\ UNCHANGED <<planVars, journeyVars, pipelineVars, transferVars>>
       \/ planner = "plan" /\ PlanNext /\ UNCHANGED <<engineVars, journeyVars, pipelineVars, transferVars>>
       \/ planner = "journey" /\ JourneyNext /\ UNCHANGED <<engineVars, planVars, pipelineVars, transferVars>>
       \/ planner = "tour" /\ PipelineNext /\ UNCHANGED <<engineVars, planVars, journeyVars, transferVars>>
       \/ planner = "transfers" /\ TransfersNext /\ UNCHANGED <<engineVars, planVars, journeyVars, pipelineVars>>
    /\ UNCHANGED planner

MCSpec == MCInit /\ [][MCNext]_mcVars
=============================================================================
