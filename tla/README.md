# Goveling ML: a TLA+ model of the itinerary optimizer

Goveling ML is a FastAPI service that turns a list of places, dates and hotels
into an itinerary. This directory models the parts of it that keep state,
suspend, retry, fall back, cache or schedule, checks them with TLC on small
instances and proves safety properties with TLAPS for every value of the
constants. `PROJECT.json` holds the map from definitions to source lines, the
runs, the mutants, the findings and the hazards. Paths below are relative to
the repository.

## 1. Inventory

| Component | State | Operations | Interacts with | Hard because | Correct when |
|---|---|---|---|---|---|
| **Itinerary endpoint** `api.py` (`generate_hybrid_itinerary_endpoint`), `utils/performance_cache.py` | response cache, the attempt | search hotel, three attempts, basic itinerary | dispatcher, hotels | retries around retries, a cache around awaits | every call answered; what is returned is of the trip asked for |
| **Multimodal endpoint** `api.py` (`generate_multimodal_itinerary_endpoint`) | one request | complexity score, OR-Tools or dispatcher, suggestions day by day | OR-Tools service, dispatcher, places | a memory handed from day to day | every request reaches an optimiser; no suggestion twice |
| **Hybrid dispatcher** `utils/hybrid_optimizer_v31.py` (`optimize_itinerary_hybrid_v31`, `_optimize_with_ortools`, `_optimize_with_city2graph`, `_execute_city2graph_core_logic`) | where each request is | decide and run OR-Tools or City2Graph, classic fallbacks | decision engine, City2Graph breaker, OR-Tools service, classic method | nested fallbacks, requests sharing one breaker | every request answered with bounded work, the breaker used as designed |
| **City2Graph breaker** (`City2GraphCircuitBreaker`, same file) | `state`, `failure_count`, `last_failure_time` | `call`, `get_status` | dispatcher | calls in flight across state changes | state and counter agree, it recovers |
| **Decision engine** `utils/ortools_decision_engine.py` | decision cache, health cache | `should_use_ortools` | OR-Tools service | two caches, one above the other | decisions fit the request and are not too old |
| **OR-Tools service** `services/city2graph_ortools_service.py` | breaker, cached health answer | `is_healthy`, `optimize_with_ortools`, `execute_ortools` | decision engine, multimodal endpoint | a cached check in front of a breaker | an outage is noticed and bounded |
| **Professional optimizer, converter** `services/ortools_professional_optimizer.py`, `utils/ortools_format_converter.py` | the route in its numberings | TSP, VRPTW, conversions | solver, integrator | four numberings of one place | a permutation of the places |
| **Classic method** (`_optimize_classic_method` and what it calls) | clusters, days, two clocks, timeline, transfers, metrics | validate, cluster, give bases, allocate, pack, route days, inject transfers, measure | routing cache, robust wrappers, places | state handed over between six phases | nothing lost, doubled, overlapping or counted twice |
| **API breaker and robust wrappers**, **batches** (same file) | breaker, attempts, batch, semaphore | retry, back off, fall back, gather | routing and places services | timeouts and retries against one breaker, positional results | fallbacks only for a cause, recovery, order |
| **Routing cache** (same file) | `distance_cache`, counters, JSON file | look up, insert, evict, save, load, clean | robust wrappers | awaits between lookup and insert, a torn file | bounded, counted |
| **Distance matrix cache** `services/ortools_distance_cache.py` | matrices with age, statistics | get, save, clean, invalidate | OSRM | keys and order, concurrency | bounded, statistics right, answers about the right places |
| **Hybrid integrator, OD caches** `services/hybrid_architecture_integrator.py`, `services/redis_od_cache.py` | Redis, memory | matrix, invalidate | OSRM, city2graph | two caches with different keys | the matrix fits the tour and is not too old |
| **Routing services** `utils/hybrid_routing_service.py` and its clients | API cache | `get_route` | OSRM, OpenRouteService | errors become estimates, estimates are cached | real routes again after an outage |
| **Places** `services/google_places_service.py`, `utils/google_maps_client.py`, `utils/google_cache.py`, `utils/geographic_cache_manager.py` | API cache, geographic cache, its files | nearby searches | Google | answers made from another search's entry | fresh, in range, of the type; outages forgotten |
| **Graphs** `services/chile_multimodal_router.py` and the three download managers | files and their `.gz`, flags, graphs, locks | download, load lazily, clear | S3, Drive, GitHub | threads, crashes, files taken for complete | read once; a torn file has a writer at work or a cause of a few known ones |
| **Multi-city, hotels** `services/multi_city_optimizer*.py`, `services/city_clustering_service.py`, `services/intercity_service.py`, `services/hotel_recommender.py` | cities, shares of days, calendar, nights | cluster, order, distribute, plan nights | | rounding, names as keys | each place once; nights follow the calendar |
| **Monitoring** `services/ortools_monitoring.py` | deque, window, alerts | record, rotate, report | dispatcher | bounded deque against counters | the two views agree, windows end |
| City2Graph services, constraint engine, parallel optimizer, geometry, scripts | | | | numeric, or unused | see section 7 |

The service is one asyncio event loop per process: a step runs from one
`await` that really suspends to the next. Threads exist in the multimodal
router and its downloads only; there a step is one access to what they share.

## 2. Modules

| Module | Models | Uses | Theorems |
|---|---|---|---|
| `City2GraphBreaker` | the class by itself: abstract specification of the breaker | | `ServingProofs` |
| `HybridDispatch` | the dispatcher and its functions | instantiates `City2GraphBreaker` with `running <- InCall` | `HybridOptimizerProofs` |
| `ORToolsService` | `ORToolsCircuitBreaker` and the health check | | `ORToolsServiceProofs` |
| `CircuitBreaker` | the API breaker, its methods as actions | | |
| `RobustCalls` | retries, throttling and batches | extends `CircuitBreaker` | `RobustCallsProofs` |
| `ClassicPlan` | classic method: validation to packing | `Lists` | `HybridOptimizerProofs` |
| `DayRouter` | classic method: the days and their schedule | | `PlanningProofs` |
| `IntercityTransfers` | classic method: journeys between bases, metrics | `Lists` | `HybridOptimizerProofs` |
| `RoutingCache` | the routing cache and its file | `Lists` | `StoresProofs` |
| `DistanceCache` | the cache of distance matrices | | `DistanceCacheProofs` |
| `DecisionEngine` | decisions and their caches | | `PlanningProofs` |
| `Monitoring` | deque, window, alerts | | `ServingProofs` |
| `ORToolsPipeline` | optimizer, converter, integrator's tours | `Lists` | `PlanningProofs` |
| `ODMatrix` | matrices from Redis, memory, OSRM, city2graph | | `StoresProofs` |
| `ItineraryEndpoint` | POST /create_itinerary | | `ServingProofs` |
| `MultimodalEndpoint` | POST /itinerary/multimodal | | `ServingProofs` |
| `RoutingChain` | `HybridRoutingService` and its fallbacks | | |
| `NearbySearch` | `search_nearby` behind `cache_google_api` | | |
| `PlacesCache` | `search_nearby_real` over the geographic cache | | `StoresProofs` |
| `ChileRouter` | downloads and lazy loading of the graphs | | `StoresProofs` |
| `MultiCityPlan` | journeys through several cities | `Lists` | `HybridOptimizerProofs` |
| `Lists` | comprehensions, `extend` in a loop and `sum` as recursive functions | | |
| `RecursionLemmas` | induction and recursion over the numbers, and what `Lists` computes | `Lists` | itself |
| `MC*` | the instances for TLC; `MCStores`, `MCPlanning`, `MCServing` put components side by side | | |

**Side by side.** `MCStores`, `MCPlanning` and `MCServing` each extend several
modules that share no state. A variable chosen in the initial state says which
of them moves; the others keep their initial values, which are then narrowed to
one. So one run checks several components without the product of their states,
and every property is about the component that owns its variables. In
`MCServing` each component is fair while it is the one that moves.

**How the state corresponds to the code.** In every module a variable carries
the name of the attribute or local variable it stands for (`distance_cache`,
`od_matrix_cache`, `current_window`, `_cache_loaded` as `loaded`), and an action
that of the method. A caller that can be suspended is a record or a `pc`
that names the `await` it is suspended at.

* `HybridDispatch`: `core` and `core_classic` are the two places inside `call()`.
  The check for OPEN and the entry into `call()` are one step.
  `OptimizeWithORTools` always goes on to City2Graph, because
  `optimize_itinerary_advanced` has no parameter `accommodations` but is given
  one (`services/city2graph_ortools_service.py:412-419`), and because
  `_optimize_with_ortools` reads names that it does not have, on its success path
  and again in its handler (`utils/hybrid_optimizer_v31.py:4287`, `:4320`).
* `ORToolsService`: only `asyncio.wait_for` in `is_healthy` suspends; OSRM and
  the solver are synchronous, so `execute_ortools` is one step. The cached
  answer carries the time at which its check *began*.
* `RobustCalls`: one task is one location or route pair. The three wrappers
  differ in the fallback, in the quota exception (places) and in the
  unsuccessful result (routing), which the breaker counts as a success. The
  routing batch is the instance with `BatchSize = NTasks`.
* `ClassicPlan`: a place is its index in the input, so that "lost" and
  "doubled" can be said; which clusters there are is any labelling DBSCAN may give.
* `DayRouter`: `now`, `loc` are the clock and position of `route_day_enhanced`,
  `t`, `at` those of `_route_cluster_with_time_windows`. `LeaveCluster` is the
  hand-over through the last timeline entry, which works only if that entry is
  an activity.
* `IntercityTransfers`: locations are points along a road, lengths multiples of a
  hundred metres. What the routing service says of a way of up to `Brief` may be
  less than a minute; then, as for a way of up to 100 m, no transfer is listed and
  the traveller is at the base all the same (`ShortDrive`, `RouteHere`). The injection
  and the metrics are one step, as no `await` that others could use lies between them.
* `DistanceCache`: a step of a call runs to its end, except for lists of more than
  ten places with the source `osrm`, which wait for their tasks
  (`MissSuspends`, `ParallelDone`). A matrix is the list of places whose rows it
  has; its key, the hash of the sorted places, is their set.
* `RoutingCache`: a dict keeps the order of insertion, so a cache is a sequence
  of entries; the file is absent, whole or torn.
* `ODMatrix`: a matrix is the sequence of places its rows stand for; both keys
  are modelled by what they are made from.
* `ChileRouter`: a graph's file and its `.gz` are each absent, torn or whole, and all
  downloads of a graph go through these two names. Drive truncates the `.gz` and fills
  it, S3 replaces it, GitHub needs none; then the local file is truncated and written
  from whatever the `.gz` yields. Each open handle notes whether another download has
  truncated or removed its file since (`Meets`). A download ends, fails and removes
  both files, of which each `os.remove` may fail, or dies with its process; `left`
  are the graphs whose last download left the file as it was. Uploads, which also
  write a `.gz`, are the maintainer's command and left out. A thread's place is its line in
  `_load_cache_for_mode` or `clear_memory_cache`.
* `PlacesCache`, `NearbySearch`, `RoutingChain`: entries with ages; a search or
  lookup is suspended in its requests, so what it stores may be older than
  what happened meanwhile. In `RoutingChain` a road is winding or not: of a winding
  one the distance is so far above the straight line that
  `_validate_and_adjust_eta` replaces it.
* `MultiCityPlan`: the optimizer with regions and countries (`Full`) and the
  simple one that the endpoint uses, on the same clusters; cities are keyed by
  their names, as in the code.
* `ORToolsPipeline`: the solver may return any route that satisfies the model it
  was given, or none. What follows the conversions in the hybrid optimizer is
  never reached today (see above); the module states the converter's own contract.

**Abstractions.** Times in breakers and caches are ages, saturated where the
comparisons of the code stop telling them apart. `failure_count` is saturated at
`MaxFailures` in `City2GraphBreaker` and `CircuitBreaker` (above the threshold
only `>=` reads it). Optimisers, services and solvers are a choice between
answers and exceptions. Coordinates are places on a line or names; the geometry
is any answer it could give. Names, texts, logging and statistics that decide
nothing are left out.

## 3. Runs

| Run | Bounds | Distinct states | Shows |
|---|---|---|---|
| `city2graph_breaker` | 4 calls, threshold 2, timeout 2, counter to 6 | 471 | state and counter agree; used through `call()` alone the breaker recovers |
| `dispatch` | 2 requests, threshold 2, timeout 1, counter to 5 | 7 105 | at most three classic runs; overshoot bounded; OPEN permanent; refinement of `City2GraphBreaker`; every request answered |
| `dispatch_recovery` | the same | | *violated*: `AutomaticRecovery` |
| `ortools_service` | 2 users, threshold 2, timeout 1, TTL 5 | 11 423 | probes per outage bounded; the lockout is permanent; outages are settled |
| `robust_calls` | 4 tasks, batches of 3, 2 permits, 2 retries, threshold 3, timeout 1, counter to 5 | 126 210 | order, completeness, concurrency, causes of fallbacks, recovery, termination |
| `day_router` | trips of 2 days over 4 clusters, a long and a short window, transfers of 25 and 200 minutes | 319 749 | schedule inside its window, clusters without overlap, back at the hotel |
| `day_router_time` | the same | | *violated*: `TimeUpdated` |
| `distance_cache` | 2 calls, 6 lists of up to 3 places, cache of 2, TTL 1, 4 requests, clock to 3 | 340 885 | bound, order of eviction, statistics, answers about the right places |
| `stores` | routing cache: 1 optimizer at a time, 2 callers, 2 points, limit 2; places: 2 searchers, 2 places, TTLs 1 and 2; graphs: 1 file, either 2 threads, or 2 downloads with 3 managers; matrices: 3 tours in 2 clusters, TTL 3 | 408 052 | what is served is fresh, fits and is accounted for, through restarts, torn files and failing stores |
| `planning` | decisions: 6 requests, 2 askers (symmetric), TTLs 2 and 2; plans: up to 4 places, 1 to 4 days, 2 a day; journeys: up to 4 places in 3 cities, 2 to 4 days; tours: up to 4 stops, 3 from the integrator; transfers: 2 and 3 days, bases from 100 m to 1 300 km apart, drives of up to 2 km that may take no minute | 2 478 761 | nothing is lost, doubled or counted twice; decisions apply |
| `serving` | 2 clients, 3 trips, 3 attempts; 5 multimodal requests, 4 categories; 2 askers, TTL 2; 2 lookups, TTL 2; roads winding or not; deque of 3, alerts from 2, windows of 4 | 308 805 | every call answered, outages forgotten, itineraries complete, views agree |
| `multimodal_optimiser` | the same | | *violated*: `SomeOptimiserRuns` |

Why the bounds are enough. In the breaker runs the threshold is below the
number of calls in flight plus one, so that the breaker opens, is probed, closes
and opens again while calls of an earlier phase are still out. In
`ortools_service` the TTL is, as in the code (300 s and 60 s), several recovery
timeouts long. In `robust_calls` the threshold is reachable by the retries of
one task and by two together, there is one permit fewer than tasks of the first
batch, and the last batch is short. In `day_router` the clusters include a base
that is also an activity, no base, an accommodation among the places, a
restaurant at meal time, and a long transfer that fits and one that does not. In
`distance_cache` and in the routing cache there are more keys than room. In
`stores` two searches overlap in place and type with different lifetimes, a tour
is there in two orders, and another has a different number of places in the same
clusters; a thread can clear the graph between another's two checks; one download
can truncate or remove either file at every point of another of any manager. In
`planning` there are accommodations among the places and none, coordinates to
correct and to reject, more places than the days hold, cities of one place,
of the same name as the start, and more cities than days; VRPTW and TSP both occur;
a day lies in two cities; bases are the same, as good as the same (100 m), too near
for a journey of a minute, and below and above the 1 000 km of a flight; of the users
one is in the rollout, and sessions without a user share a key. In `serving` trips have fewer places than days and the reverse, Google's
answers overlap between categories, and a window sees more records than the deque
holds.

Deadlock is checked in `city2graph_breaker`, `dispatch`, `ortools_service`,
`robust_calls`, `distance_cache` and `serving`; trips, plans and the bounded
number of downloads of the others end.

Each property of a passing run has a mutant in `PROJECT.json`: an operator,
next to the one it changes, that alters the code the way a plausible bug would.
`DispatchSafe`, `ServiceSafe`, `BatchesSafe`, `RouterSafe`, `MatricesSafe`,
`BreakerSafe` and `PlanComplete` are conjunctions of named invariants; each part
has its comment, and those with a proof their theorem.

### Fairness

`City2GraphBreaker`: the clock runs, an awaited function ends, and while the
breaker would admit a probe some request eventually asks. `HybridDispatch`:
the clock runs, every `await` ends, responses are sent; `LoadedSpec` (run
`dispatch_recovery`) adds that requests keep arriving and keep being sent to
City2Graph, the assumption most favourable to recovery. `ORToolsService`: the
clock runs and health tests end (`wait_for` bounds them). `RobustCalls`: the
event loop runs what is ready, `wait_for` ends every call, sleeps end.
`ItineraryEndpoint`: the event loop runs each call. `NearbySearch` and
`RoutingChain`: every step of a search or lookup happens (their requests have
timeouts), searches go on being made, the clock runs; that the servers come back
is the hypothesis of the properties. `Monitoring`: optimisations go on being
recorded. The code's own timeouts justify all of it except that
`_optimize_with_city2graph` awaits the classic method without one
(`CITY2GRAPH_TIMEOUT_S` is read only by `safe_city2graph_execution`, which
nobody calls): that every `await` ends rests there on the services below.

## 4. Findings

Each is a run that TLC refutes; the quotations are in `PROJECT.json`.

1. `AutomaticRecovery`: the City2Graph breaker never leaves OPEN, since the
   dispatcher looks at the state first and avoids `call()`, the only place
   that would go to HALF_OPEN. (Run `city2graph_breaker` shows that the class by
   itself would recover.)
2. `TimeUpdated`: after a cluster whose timeline ends with a transfer the clock of
   the day stands still; clusters and free blocks overlap. In the trace of the run it
   is the transfer to a place that then did not fit
   (`utils/hybrid_optimizer_v31.py:2479-2501`: the transfer is appended first). The
   return transfer of a cluster with a hotel is such an entry as well, so there the
   same happens in every cluster.
3. `SomeOptimiserRuns`: with City2Graph enabled and OR-Tools not, a complex
   multimodal request reaches no optimiser and fails.

Further disagreements are built into the actions and have no run of their own:

* A success in CLOSED does not reset `failure_count` of the City2Graph breaker
  (`Succeed`, though a comment in `call` says so).
* The health check of the OR-Tools service wants a CLOSED breaker, and only
  requests that pass it can close the breaker
  (`services/city2graph_ortools_service.py:225`; `LockoutIsPermanent`), while
  `README.md:63` speaks of auto-recovery.
* A transfer that does not fit into a day is marked `overnight` on an object
  nobody keeps (`utils/hybrid_optimizer_v31.py:2018-2021`, `Overnight`): it and the clusters
  after it are dropped.
* The key of a distance matrix is made of the sorted places, the matrix is in
  the order of the request (`services/ortools_distance_cache.py:99`); the same
  holds of the matrices in Redis (`services/redis_od_cache.py:76`), and those in
  memory may be of other places in the same clusters. `MatricesSafe` and
  `MatrixFits` say how much is guaranteed nevertheless.
* `_get_osrm_distance` asks an object for a method it does not have: every
  matrix with the source `osrm` holds geodesic distances (`Refused`).
* `utils/analytics.py` is missing and `semantic_info` is read before its only
  assignment (`api.py:1417`, `:2109`): the success path of `/create_itinerary`
  raises, so the "minimal responses" its docstring guarantees are what is left
  when only the attempts fail. `BasicItineraryComplete` is about what the handler
  does return.
* Adding a disjunction makes a visit optional: VRPTW may drop exactly the
  *mandatory* POIs, while one that is not mandatory can make the problem
  infeasible (`services/ortools_professional_optimizer.py:220-223`;
  `DroppedAreMandatory`).
* A transfer injected between days is recognised as already there if the lengths
  agree within a kilometre (`utils/hybrid_optimizer_v31.py:2316`): beyond 1 000 km a
  flight has the straight distance and the day's own transfer the road's, and the
  journey counts twice.
* The listed journeys of a trip need not join: a drive that the routing service says
  takes less than a minute and a way of up to 100 m are not listed, but the traveller
  is moved to the base (`utils/hybrid_optimizer_v31.py:2008`, `:2023`, `:2059`).
  `OneJourney` says that nothing else comes between two listed journeys.
* Forced downloads of one graph share its `.gz`
  (`utils/google_drive_manager.py:102-115`, `utils/s3_graphs_manager.py:157-175`). If one
  has just truncated it when another decompresses it, gzip makes no bytes of it and
  raises nothing: `download_graph` returns `True` and leaves an empty graph, which the
  next existence check takes for a download (`WriteNothing`). The same file is left
  where the clean-up's `os.remove` fails (`CleanUp`: the bare `except` passes it over),
  and by GitHub's manager, which cleans up nothing. `TornOnlyIfLeft` lists these causes.
* The decision engine decides eligibility by `user_id`, then `session_id`
  (`utils/ortools_decision_engine.py:367`), but keys the decision by `user_id` alone,
  'anonymous' without one (`:690`): on a shared engine two sessions without a user
  share a decision that only one is eligible for. `ChosenFits` holds for the user a
  request names. Today the optimiser makes an engine for each request
  (`utils/hybrid_optimizer_v31.py:3489`), so nothing is shared there.
* `search_nearby` says "SIN CACHÉ - Siempre genera sugerencias frescas"
  (`services/google_places_service.py:30-31`), but `search_nearby_places`, which it calls,
  is cached, its empty answers of an outage too: suggestions are invented for up to a
  time to live after Google is back. `OutageForgotten` says it ends there.
* `_validate_and_adjust_eta` replaces the distance of a road more than three times as
  long as the straight line by that line (`utils/free_routing_service.py:52`,
  `:154-157`), and `HybridRoutingService` reports it as Google's: for such a road the
  answer remains an estimate with OSRM up. `RoutesRealAgain` excepts these answers, and
  only those that came this way.
* The converter applies the order of the route to POIs that are in that order
  already (`utils/ortools_format_converter.py:535`; `Reordered`): still a permutation,
  but not the solver's. A failed result becomes an empty itinerary marked as a success.
* `CITY2GRAPH_CITIES` is compared with the names of clusters, so any list
  switches the optimiser off for every request.
* Hotel nights count days per city, but a city of one day does not advance the
  calendar (`services/hotel_recommender.py:799`), so later check-ins are a day early.

## 5. Proofs

All theorems are about a specification without fairness, for all values of the
constants that satisfy the named assumptions of the modules. Each module, or part
of a module, defines an inductive invariant, proves that the initial states
satisfy it and that every step keeps it, and derives the rest. `Safe` is in each
case the conjunction that the run of the component checks.

The assumptions say what configuration and callers guarantee: thresholds, deque
and health time to live are positive, counters are bounded above the threshold,
sets of callers are finite, day windows last an hour or more, `Brief` is any length, the value for
"nobody" is no thread. Lists (of places, of the stops of a tour, of the clusters of a day) are sequences and lengths of trips are numbers; a trip
of `/create_itinerary` has a day at least, because the request's validator wants
the end not before the start (`models/schemas.py:231`). A journey through several
cities has a positive number of days (`models/schemas.py:280`) and at least one place:
without a place the optimizers divide by the number of places and fail.

Many definitions run through lists (comprehensions, loops of `extend`, sums, the
basic itinerary). They are recursive functions, those shared by components in
`Lists`, and `RecursionLemmas` proves what it takes to reason about these: induction
stated for a set of numbers (from the well-foundedness of `<`) and for the prefixes of
a list, a least element in every nonempty set of numbers, existence and uniqueness of
the function that a recursion with steps `F[1]`, ..., `F[N]` describes, and from these
what `Kept`, `Joined` and `SumOf` do with an element added to a list, with two lists
one after the other, and to the order and distinctness of what they keep
(`JoinedElements`: a joined list repeats nothing exactly if none of its lists does and no
two have an element in common). `FoldStep` gives every recursion along a list its step;
`FlatJoined` says that mapping elements to lists and joining commute.

* `HybridOptimizerProofs`, `HybridDispatch`. `IInv` adds to the types that the breaker is not
  HALF_OPEN and is OPEN exactly from the threshold on, the bound on the counter
  plus the requests in `call()` (each admission below the threshold adds one to
  the second, each failure moves one to the first), and for every place of a
  request the number of classic runs it can have had. From it: `ClassicRuns`,
  `Overshoot`, `OpenForever` and `BreakerRefined`, the step simulation of
  `City2GraphBreaker!Spec`.
* `ORToolsServiceProofs`. `ProbesBounded` alone is not inductive. The
  strengthening `ProbesPaidFor` relates the number of probes made to the age of
  the cached answer: while that answer can still admit a probe, each probe has
  cost a recovery timeout, and the age of the answer has paid for it.
* `RobustCallsProofs`. The breaker's methods keep its invariant from every
  state (`BreakerKeeps`), which is what late outcomes need; sleepers have
  retries left; batches are in order. `Throttled` is an induction over the steps
  on the cardinality of the tasks that hold a permit: only one task at a time
  changes its place, and one that acquires a permit needs a free one.
* `PlanningProofs`, `DayRouter`. `IInv` adds the position within the day (which cluster,
  where, clocks within the window) and that everything scheduled in the current
  cluster is over by `t`. `Windows`, `NoOverlap`, `BackAtHotel`.
* `PlanningProofs`, `DecisionEngine`. `EngineInv` says what a cached decision for
  OR-Tools proves of every request with its key (`BandOfTwo`: the band of places in
  the key separates what the minimum separates; a named user is in the key) and adds up ages: the service was
  up when a health check began, an answer of the health cache is younger than
  `HealthTTL` when a decision is made of it and the decision younger than `CacheTTL`
  when it is used, so `down_for` is less than their sum (`EngineChoosesInTime`).
* `PlanningProofs`, `ORToolsPipeline`. `PipelineInv` keeps apart the numberings: `pois`
  lists indices of the tour without repetition, the solver's route is one that its
  model admits, and `visits` is what the extraction and the conversion make of that
  route; `Kept` and the bijections between the numberings keep repetition out, so a
  tour of any length has its stops once (`PipelineVisitsOnce`).
* `HybridOptimizerProofs`, `IntercityTransfers`. `TransfersInv`: the transfers made so
  far lead from one to the next and to where the trip is now, each by a way over the
  bases without a listed journey (`UnlistedWay`, of which `StayingIsAWay`, `WaysConnect`
  and `ShortDriveIsAWay` say how ways begin, join and grow; `JourneysConnect`); of
  each pair of days that the injection has looked at, the second has a transfer as long
  as the change of base but for a kilometre; and the metrics are the sums over the days, of which `Joined`
  and `SumOf` are shown to agree (`MetricsAddUp`).
* `HybridOptimizerProofs`, `ClassicPlan`. `PlanInv` says of each stage what is arranged by
  then: clusters that partition the places to visit (`LabelsAreFirst`: DBSCAN's labels
  have no gap, so no place is left without a cluster), a base for each, days that have
  every place once. `Covers` reduces the days to one list of places. Whatever a
  cluster is split into deals out its places once (`ClusterDeals`), dealing to empty
  days puts on them what is dealt (`DealtCovers`), and the compact packing drops
  nothing while a day has room (`PackedStep`); so every place is planned once with its
  base (`PlanCompletes`).
* `HybridOptimizerProofs`, `MultiCityPlan`. Three invariants, kept by every step of
  either optimizer. `JourneyInv`: clusters have no place in common, regions no city, the
  order of a region no city twice, and the calendar holds no place twice and none of a
  city still to come; so filling a city's days adds only places that are new, even
  when its number of days is negative and days already planned are overwritten.
  `DaysInv`, for journeys in which no cluster is discarded, no city has a namesake and
  every city gets a day: every place is in the calendar or in a city to come, the
  calendar has all the days before the current one, and the current day plus the days
  the region's other cities have left is where the next region begins. It needs
  `FreshNames`, that the dictionary of the days is never written twice at a name, because
  only then a city with no day is still seen at the end. `DaysDivided` is the heart: what
  rounding leaves over or short is given to or taken from the heaviest city, so if no city
  ends below one day the sum is the days asked for. Sums over dictionaries are
  cardinalities of unions of columns (`SumSplit`), which the library's facts about finite
  sets reach. `StayInv`, for the simple optimizer: each city of the route has a block of
  days, one after the other; a day that counts for a city belongs to its block, so the
  number of days by which the nights are planned is the length of the block
  (`BlocksTile`), and the nights keep to the calendar. `PlacesVisitedOnce`, `StaysFollow`.
* `DistanceCacheProofs`. `IInv` adds that the keys are finitely many, that a
  matrix is stored under the key of its own places and that whoever waits asked
  for more than `ManyPlaces` places. `SurvivorsMakeRoom` is the heart: after the
  cleanup there is room for one matrix, and what is gone is no younger than
  what stays.
* `StoresProofs`, `ChileRouter`. For `ReadOnce` the invariant says who can be where: a
  thread between the second check and the assignment holds the lock of its mode,
  the graph is then not in memory, and flag and memory differ only inside the lock.
  `TornFiles` is about one writer per file, the last to have opened it: `DiskInv` adds to
  `TornOnlyIfLeft` only the types. What a download does to the `.gz`, or to another file,
  takes that place from nobody (`MeetsKeeps`); who opens the file takes it; who removes
  the file leaves none torn; and the one in that place ends with a whole file or is noted
  in `left`, while others, overtaken or unlinked, cannot tear a whole file.
* `StoresProofs`, `ODMatrix`. Every entry of Redis has its lifetime split into age and
  rest, every entry of the memory was younger than a lifetime when stored
  (`age < TTL + stamp`), and both agree with their keys; so a hit has the right number
  of rows (`Fits`) and is younger than two lifetimes (`AgeBounded`).
* `StoresProofs`, `RoutingCache`. `RoutingInv` carries the equation of entries and
  misses through the file: a whole file has no more entries than the misses it
  notes, and without the persistent variant no more than the limit. An eviction makes
  room because it leaves a shorter tail of the cache; the clean-up is a `Kept`, which
  only shortens.
* `StoresProofs`, `PlacesCache`. `PlacesInv`: every place of an entry, in memory or in
  a file, has one of the entry's types, so the shortest lifetime of those bounds the
  age of an answer made of it; a suspended search holds only what fits it.
* `ServingProofs`, `City2GraphBreaker`. `BreakerSafe` is inductive as it stands;
  `ProbeFirst` says of the steps that a breaker over its threshold closes only by way
  of HALF_OPEN.
* `ServingProofs`, `Monitoring`. The metrics of the running window are a suffix of the
  deque, as long as the window's total or the whole deque; an append to a full deque
  drops its head, which shortens the suffix only when there is nothing else to drop.
* `ServingProofs`, `ItineraryEndpoint`. `EndpointInv` says of every answer, given or
  cached, that it is complete for its trip, and of the cache that the entry under a
  trip is an answer to it. That a basic itinerary is complete (`BasicIsComplete`)
  rests on the closed form of `current_place_index`: day `i` begins at
  `i * (n div d) + min(i, n mod d)`, by induction over the days.
* `ServingProofs`, `MultimodalEndpoint`. `JourneyFits`: what is suggested so far, on the
  days filled and on the one being filled, is in `used_place_ids`, so a place that
  passes the filter is nowhere yet; each search adds at most one place, so the three
  of a day leave room for exactly what the padding adds.

Only model-checked: all liveness properties (`Recovers`,
`EveryRequestAnswered`, `OutageSettled`, `OpenEnds`, `SearchCompletes`,
`EveryCallAnswered`, `OutageForgotten`, `RoutesRealAgain`, `WindowReplaced`),
which need fairness. Every invariant and every action property that a passing run checks
is also proved.

## 6. Plan

Done: the modules above, their runs and proofs. What could follow:

1. Composition of `ItineraryEndpoint` with `HybridDispatch`: the attempts of
   several clients against one breaker.
2. The warming of the Redis cache and the statistics of the caches, if anything
   comes to depend on them.

## 7. Not modelled

* The search of the OR-Tools solver, DBSCAN, H3 and all floating point geometry:
  the modules take any answer these could give.
* The City2Graph services (graph construction and semantic scoring from map
  data) and the semantic optimizer: numeric code, mostly not called by the
  optimizer; `services/optimized_city2graph_service.py` does not parse.
* `services/ortools_parallel_optimizer.py` and
  `services/ortools_advanced_constraints.py`: nothing imports them, and the first calls
  methods that do not exist. `generate_suggestions_lazy` has no caller either.
* HTTP clients below their error handling; endpoints that only read and format;
  text, formatting, logging; operational scripts.
