---------------------------- MODULE ORToolsPipeline ----------------------------
(***************************************************************************)
(* ProfessionalItineraryOptimizer over OR-Tools, and the two ways to it:   *)
(* through ORToolsFormatConverter, as _optimize_with_ortools asks, and     *)
(* from HybridArchitectureIntegrator, with its own fallback.               *)
(*                                                                         *)
(* The solver is external: it finds some route that satisfies the model it *)
(* is given, or none within its time limit. Times are in hours. Today the  *)
(* first way ends in a TypeError between the conversions (see              *)
(* ORToolsService): what follows it is the converter's own contract.       *)
(***************************************************************************)
EXTENDS Naturals, Sequences, FiniteSets, SequencesExt, Lists

CONSTANTS Tours,       \* requests: [via, start, pois : Seq([valid, area, open, close, stay, mandatory])]
          Far          \* hours between two areas

ASSUME ToursAssumption ==
    \A x \in Tours : x.pois \in Seq({x.pois[i] : i \in DOMAIN x.pois})

VARIABLES step,        \* "convert", "solve", "back", "done"
          tour,        \* the request
          pois,        \* the POIs of the solver, as indices of the request's places
          solution,    \* OptimizationResult: [success, route, dropped], nodes counted from 0
          visits       \* the places of the answer, in their order

pipelineVars == <<step, tour, pois, solution, visits>>

NoSolution == [success |-> FALSE, route |-> <<>>, dropped |-> {}]
Nodes == 0..(Len(pois) - 1)

-----------------------------------------------------------------------------
(* To the solver *)

\* Places outside Chile's rectangle are left out.
_convert_places_to_ortools ==
    /\ step = "convert" /\ tour.via = "converter"
    /\ pois' = Kept([i \in DOMAIN tour.pois |-> i], {i \in DOMAIN tour.pois : tour.pois[i].valid})
    /\ step' = "solve"
    /\ UNCHANGED <<tour, solution, visits>>

\* The integrator hands its POIs over as they are; it has refused an empty list
\* (cluster_pois_auto).
_optimize_tsp_professional ==
    /\ step = "convert" /\ tour.via = "integrator"
    /\ pois' = [i \in DOMAIN tour.pois |-> i]
    /\ step' = "solve"
    /\ UNCHANGED <<tour, solution, visits>>

\* The converter's names for the stay and the opening hours are not those the
\* optimiser reads, so its defaults stand in for them.
POI(n) == IF tour.via = "converter"
          THEN [open |-> 9, close |-> 18, stay |-> 1, mandatory |-> TRUE]
          ELSE tour.pois[pois[n + 1]]

-----------------------------------------------------------------------------
(* The models *)

Travel(m, n) == IF tour.pois[pois[m + 1]].area = tour.pois[pois[n + 1]].area THEN 0 ELSE Far
time_callback(m, n) == Travel(m, n) + POI(m).stay

\* The hours at which a route may reach its k-th node: the first within ten hours
\* of the start, the others in their window after waiting an hour at most.
Reached(route) ==
    LET hours[k \in 1..Len(route)] ==
            IF k = 1 THEN tour.start..(tour.start + 10)
            ELSE {h \in POI(route[k]).open..POI(route[k]).close :
                     \E g \in hours[k - 1] :
                         h - g - time_callback(route[k - 1], route[k]) \in {0, 1}}
    IN  hours[Len(route)]

Routes == {r \in UNION {[1..k -> Nodes] : k \in 1..Len(pois)} : r[1] = 0 /\ IsInjective(r)}

\* AddDisjunction allows a node to be dropped, for a penalty; the code adds it
\* for the mandatory ones.
Droppable(n) == n > 0 /\ POI(n).mandatory

\* The tour ends where it began within the 24 hours of the dimension.
Feasible(r) ==
    /\ \E h \in Reached(r) : h + time_callback(r[Len(r)], 0) <= 24
    /\ \A n \in Nodes \ ToSet(r) : Droppable(n)

Solved(r) == [success |-> TRUE, route |-> r, dropped |-> Nodes \ ToSet(r)]

\* No windows: all nodes, in some order; an empty problem or an infinite
\* distance raises.
solve_tsp_basic == {Solved(r) : r \in {q \in Routes : Len(q) = Len(pois)}} \cup {NoSolution}

\* Without a solution, or after an exception, the basic problem is solved instead.
solve_vrptw == {Solved(r) : r \in {q \in Routes : Feasible(q)}} \cup solve_tsp_basic

\* Both callers ask for them: the POIs here have hours.
use_time_windows == Len(pois) > 1

optimize_itinerary_advanced ==
    /\ step = "solve"
    /\ solution' \in IF use_time_windows THEN solve_vrptw ELSE solve_tsp_basic
    /\ step' = "back"
    /\ UNCHANGED <<tour, pois, visits>>

-----------------------------------------------------------------------------
(* Back to the caller *)

At(n) == pois[n + 1]

\* What optimize_itinerary_advanced returns is in the order of the route already.
optimized_pois == [k \in DOMAIN solution.route |-> At(solution.route[k])]

\* Mutant of Reordered: the range check leaves out the depot.
ReorderedWithoutDepot ==
    LET inside == Kept(solution.route, 1..(Len(optimized_pois) - 1))
    IN  [k \in DOMAIN inside |-> optimized_pois[inside[k] + 1]]

\* The converter puts it in that order once more, leaving out an index past its
\* end.
Reordered ==
    LET inside == Kept(solution.route, 0..(Len(optimized_pois) - 1))
    IN  [k \in DOMAIN inside |-> optimized_pois[inside[k] + 1]]

\* A failed optimisation converts to an empty itinerary, not to an error.
_convert_ortools_route_to_legacy ==
    /\ step = "back" /\ tour.via = "converter"
    /\ visits' = Reordered
    /\ step' = "done"
    /\ UNCHANGED <<tour, pois, solution>>

\* Nearest neighbours: each next node is a closest one.
_optimize_tsp_basic ==
    {r \in Routes : /\ Len(r) = Len(pois)
                    /\ \A k \in 1..(Len(r) - 1), l \in 1..Len(r) :
                           l > k => Travel(r[k], r[k + 1]) <= Travel(r[k], r[l])}

\* The integrator takes the route, or without one that of its nearest neighbours.
IntegratorAnswers ==
    /\ step = "back" /\ tour.via = "integrator"
    /\ \/ solution.success /\ visits' = optimized_pois
       \/ /\ ~solution.success
          /\ \E r \in _optimize_tsp_basic : visits' = [k \in DOMAIN r |-> At(r[k])]
    /\ step' = "done"
    /\ UNCHANGED <<tour, pois, solution>>

-----------------------------------------------------------------------------
PipelineInit ==
    /\ step = "convert"
    /\ tour \in Tours
    /\ pois = <<>> /\ solution = NoSolution /\ visits = <<>>

PipelineNext ==
    \/ _convert_places_to_ortools \/ _optimize_tsp_professional
    \/ optimize_itinerary_advanced
    \/ _convert_ortools_route_to_legacy \/ IntegratorAnswers

PipelineSpec == PipelineInit /\ [][PipelineNext]_pipelineVars

-----------------------------------------------------------------------------
(* Properties *)

\* From the integrator every POI is visited or reported as dropped; and it is the
\* mandatory ones that may be dropped, an optional one makes the problem infeasible.
DroppedAreMandatory ==
    (step = "done" /\ tour.via = "integrator") =>
        /\ ToSet(visits) = ToSet(pois) \ {At(n) : n \in solution.dropped}
        /\ \A n \in solution.dropped : tour.pois[At(n)].mandatory

\* Through the conversions, the solver's renumbering and the fallbacks no place is
\* visited twice, the tour begins where the request does, and unless a POI was
\* dropped none is lost: the converter's second reordering, wrong as it is, is
\* still a permutation then. What is missing is what was dropped.
VisitedOnce ==
    (step = "done" /\ visits # <<>>) =>
        /\ IsInjective(visits)
        /\ visits[1] = pois[1]
        /\ ToSet(visits) \subseteq ToSet(pois)
        /\ solution.dropped = {} => ToSet(visits) = ToSet(pois)
        /\ DroppedAreMandatory
==============================================================================
