----------------------------- MODULE RoutingChain -----------------------------
(***************************************************************************)
(* HybridRoutingService.get_route: the public OSRM server first for short  *)
(* routes, FreeRoutingService ("Google") first for long ones, which in its *)
(* turn asks another OSRM client and OpenRouteService through the cache of *)
(* cache_google_api, each under a timeout. Every client turns its errors   *)
(* into a straight-line estimate, and the cache keeps those too.           *)
(*                                                                         *)
(* The lookups are concurrent and about one pair of points. An answer is   *)
(* whom it is credited to and whether its distance is an estimate; its     *)
(* duration, which is adjusted to a plausible speed, and the statistics,   *)
(* which nothing decides on, are left out. requests.get does not yield, so *)
(* the direct OSRM call is one step with what follows it.                  *)
(***************************************************************************)
EXTENDS Naturals

CONSTANTS Lookups,    \* concurrent lookups of one route
          RouteTTL    \* ttl of the cached clients, in ticks

VARIABLES osrm_up,          \* the OSRM server answers, and in time
          openroute_up,     \* OpenRouteService does
          has_key,          \* OPENROUTE_API_KEY is set
          google_available, \* FreeRoutingService could be imported
          winding,          \* the road is more than three times the straight line
          client_cache,     \* entry of each client's eta_between, driving: [left, status]
          route             \* what each lookup does

worldVars == <<osrm_up, openroute_up, has_key, google_available, winding>>
chainVars == <<worldVars, client_cache, route>>

Spans == {"micro", "urban", "intercity"}   \* below 100 m, up to 50 km, farther
TravelModes == {"walk", "drive"}
NoEta == [left |-> 0, status |-> "none"]

SetRoute(l, x) == route' = [route EXCEPT ![l] = x]
Goes(l, at) == SetRoute(l, [route[l] EXCEPT !.at = at])
Routed(l, source, estimate) ==
    SetRoute(l, [at |-> "routed", source |-> source, estimate |-> estimate])

-----------------------------------------------------------------------------
(* FreeRoutingService.eta_between *)

\* Mutant of CachedEta: an expired answer is still one.
CachedEtaExpired(client) == client_cache[client].status

\* The wrapper of cache_google_api.
CachedEta(client) == IF client_cache[client].left > 0 THEN client_cache[client].status ELSE "none"

KeepEta(client, status) ==
    client_cache' = [client_cache EXCEPT ![client] = [left |-> RouteTTL, status |-> status]]

\* The answer has a distance, so it counts as Google's, whoever made it.
_get_google_route(l, estimate) == Routed(l, "google", estimate)

\* A distance so much longer than the straight line is replaced by it.
_validate_and_adjust_eta(estimate) == estimate \/ winding

\* An answer that was taken goes through that.
_validated(l, estimate) == _get_google_route(l, _validate_and_adjust_eta(estimate))

\* Short distances and walking are calculated without asking anybody.
Calculated(l) == route[l].span = "micro" \/ route[l].mode = "walk"

\* OSRM's client, or its cached answer: of those only "OK" is taken.
eta_between(l) ==
    /\ route[l].at = "eta"
    /\ \/ Calculated(l) /\ _get_google_route(l, TRUE)
       \/ ~Calculated(l) /\ CachedEta("osrm") = "OK" /\ _validated(l, FALSE)
       \/ ~Calculated(l) /\ CachedEta("osrm") = "none" /\ Goes(l, "osrm")
       \/ ~Calculated(l) /\ CachedEta("osrm") = "fallback" /\ Goes(l, "openroute")
    /\ UNCHANGED <<worldVars, client_cache>>

\* OSRM answers, fails (the estimate is cached), or is timed out (nothing is).
OSRMAnswers(l) ==
    /\ route[l].at = "osrm"
    /\ \/ osrm_up /\ KeepEta("osrm", "OK") /\ _validated(l, FALSE)
       \/ ~osrm_up /\ KeepEta("osrm", "fallback") /\ Goes(l, "openroute")
       \/ ~osrm_up /\ Goes(l, "openroute") /\ UNCHANGED client_cache
    /\ UNCHANGED worldVars

\* OpenRouteService's client: here the fallback is taken like an answer, and it
\* is all there is without a key.
AskOpenRoute(l) ==
    /\ route[l].at = "openroute"
    /\ \/ /\ CachedEta("openroute") # "none"
          /\ _validated(l, CachedEta("openroute") = "fallback")
          /\ UNCHANGED client_cache
       \/ /\ CachedEta("openroute") = "none" /\ ~has_key
          /\ KeepEta("openroute", "fallback")
          /\ _validated(l, TRUE)
       \/ /\ CachedEta("openroute") = "none" /\ has_key
          /\ Goes(l, "openroute answers")
          /\ UNCHANGED client_cache
    /\ UNCHANGED worldVars

\* It answers, fails, or is timed out, which leaves the estimate of last resort.
OpenRouteAnswers(l) ==
    /\ route[l].at = "openroute answers"
    /\ \/ openroute_up /\ KeepEta("openroute", "OK") /\ _validated(l, FALSE)
       \/ ~openroute_up /\ KeepEta("openroute", "fallback") /\ _validated(l, TRUE)
       \/ ~openroute_up /\ _get_google_route(l, TRUE) /\ UNCHANGED client_cache
    /\ UNCHANGED worldVars

-----------------------------------------------------------------------------
(* HybridRoutingService *)

\* OSRM, then Google if there is one, then the straight line.
_route_urban_strategy(l) ==
    IF osrm_up THEN Routed(l, "osrm", FALSE)
    ELSE IF google_available THEN Goes(l, "eta")
    ELSE Routed(l, "euclidean", TRUE)

\* Google, which always has an answer; OSRM and the straight line if there is none.
_route_intercity_strategy(l) ==
    IF google_available THEN Goes(l, "eta")
    ELSE IF osrm_up THEN Routed(l, "osrm", FALSE)
    ELSE Routed(l, "euclidean", TRUE)

Strategy(l) ==
    /\ route[l].at = "strategy"
    /\ IF route[l].span = "intercity" THEN _route_intercity_strategy(l) ELSE _route_urban_strategy(l)
    /\ UNCHANGED <<worldVars, client_cache>>

\* A new lookup. Its coroutine runs on until the first await.
get_route(l) ==
    /\ route[l].at \in {"none", "routed"}
    /\ \E s \in Spans, m \in TravelModes :
           SetRoute(l, [at |-> "strategy", span |-> s, mode |-> m])
    /\ UNCHANGED <<worldVars, client_cache>>

-----------------------------------------------------------------------------
\* Time passes.
RouteTick ==
    /\ \E k \in {"osrm", "openroute"} : client_cache[k].left > 0
    /\ client_cache' = [k \in {"osrm", "openroute"} |->
           [client_cache[k] EXCEPT !.left = IF @ > 0 THEN @ - 1 ELSE 0]]
    /\ UNCHANGED <<worldVars, route>>

OSRMChanges == osrm_up' = ~osrm_up
               /\ UNCHANGED <<openroute_up, has_key, google_available, winding, client_cache, route>>
OpenRouteChanges == openroute_up' = ~openroute_up
                    /\ UNCHANGED <<osrm_up, has_key, google_available, winding, client_cache, route>>

ChainInit ==
    /\ osrm_up \in BOOLEAN /\ openroute_up \in BOOLEAN
    /\ has_key \in BOOLEAN /\ google_available \in BOOLEAN /\ winding \in BOOLEAN
    /\ client_cache = [k \in {"osrm", "openroute"} |-> NoEta]
    /\ route = [l \in Lookups |-> [at |-> "none"]]

\* What an admitted lookup still owes.
RouteStep(l) ==
    Strategy(l) \/ eta_between(l) \/ OSRMAnswers(l) \/ AskOpenRoute(l) \/ OpenRouteAnswers(l)

ChainNext ==
    \/ \E l \in Lookups : get_route(l) \/ RouteStep(l)
    \/ RouteTick \/ OSRMChanges \/ OpenRouteChanges

\* Calls end, by their timeouts if nothing else, and time passes.
ChainFairness ==
    /\ WF_chainVars(RouteTick)
    /\ \A l \in Lookups : WF_chainVars(RouteStep(l))

ChainSpec == ChainInit /\ [][ChainNext]_chainVars /\ ChainFairness

-----------------------------------------------------------------------------
(* Properties *)

\* One failure of OSRM is kept for the whole time to live, and a call that began
\* in the outage may store one after it. Once OSRM stays up, the driving routes
\* answered are no longer estimates in the end, through either strategy; but of a
\* winding road FreeRoutingService gives the straight line for ever.
RoutesRealAgain ==
    <>[]osrm_up =>
        <>[][\A l \in Lookups :
                (route[l].at # "routed" /\ route'[l].at = "routed"
                     /\ route[l].mode = "drive" /\ route[l].span # "micro")
                    => (route'[l].estimate => winding /\ route'[l].source = "google")]_chainVars
=============================================================================
