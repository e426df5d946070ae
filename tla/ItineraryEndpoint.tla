------------------------- MODULE ItineraryEndpoint -------------------------
(***************************************************************************)
(* POST /create_itinerary: the response cache of cache_result around       *)
(* generate_hybrid_itinerary_endpoint, its search for a hotel, its three   *)
(* attempts at the optimisation and the basic itinerary it falls back to.  *)
(*                                                                         *)
(* A request names its places and its number of days. A step is the code   *)
(* between two awaits; enriching the places neither drops nor reorders     *)
(* them and its errors are swallowed, so its await is left out. What       *)
(* follows line 1415 is never reached: semantic_info is a local variable   *)
(* that is assigned only at line 2109.                                     *)
(***************************************************************************)
EXTENDS Naturals, Sequences

CONSTANTS Clients,     \* concurrent calls of the endpoint
          Trips,       \* requests: [places, days, accommodation]
          MaxRetries,  \* 3
          ExpiryTicks  \* expiry_minutes, in clock ticks

\* end_date_after_start rejects a request of less than one day.
ASSUME EndpointAssumption ==
    \A r \in Trips : /\ r.places \in Seq({r.places[i] : i \in DOMAIN r.places})
                     /\ r.days \in Nat \ {0}

VARIABLES has_analytics, \* utils.analytics can be imported
          result_cache,  \* _cache and _cache_expiry: the answer and the ticks it has left
          call           \* what each client's call is doing

endpointVars == <<has_analytics, result_cache, call>>

Hotel == "recommended hotel"
NoAnswer == [status |-> 0]
Error500 == [status |-> 500]
NotCached == [left |-> 0, answer |-> NoAnswer]
IdleCall == [at |-> "idle"]

-----------------------------------------------------------------------------
(* The basic itinerary *)

\* Mutant of PlacesThisDay: the remainder is left out.
PlacesThisDayFloor(n, days, i) == n \div days

\* Day i, counted from 0, of n places spread over the days.
PlacesThisDay(n, days, i) == (n \div days) + (IF i < n % days THEN 1 ELSE 0)

\* current_place_index when day i begins.
current_place_index(n, days) ==
    LET start[i \in Nat] == IF i = 0 THEN 0 ELSE start[i - 1] + PlacesThisDay(n, days, i - 1)
    IN  start

fallback_days(places, days) ==
    LET n == Len(places)
        from == current_place_index(n, days)
    IN  [i \in 1..days |->
            SubSeq(places, from[i - 1] + 1, from[i - 1] + PlacesThisDay(n, days, i - 1))]

-----------------------------------------------------------------------------
(* The call *)

Answered(r, a) == [at |-> "answered", trip |-> r, answer |-> a]
Optimizing(r, places, attempt, bound) ==
    [at |-> "optimizing", trip |-> r, places |-> places, attempt |-> attempt, bound |-> bound]

SetCall(c, x) == call' = [call EXCEPT ![c] = x]

\* The wrapper looks the request up; a miss enters the endpoint. Missing places
\* raise a 400 inside the try, which the handler turns into a 500.
Arrive(c, r) ==
    /\ call[c].at = "idle"
    /\ SetCall(c, IF result_cache[r].left > 0 THEN Answered(r, result_cache[r].answer)
                  ELSE IF ~has_analytics \/ r.places = <<>> THEN Answered(r, Error500)
                  ELSE IF r.accommodation THEN Optimizing(r, r.places, 1, FALSE)
                  ELSE [at |-> "hotels", trip |-> r])
    /\ UNCHANGED <<has_analytics, result_cache>>

\* HotelRecommender answers, or does not: only a hotel that was found is added.
HotelsAnswer(c) ==
    /\ call[c].at = "hotels"
    /\ \E found \in {<<>>, <<Hotel>>} :
           SetCall(c, Optimizing(call[c].trip, call[c].trip.places \o found, 1, FALSE))
    /\ UNCHANGED <<has_analytics, result_cache>>

\* An attempt ends with a result that has days: the loop ends, and formatting
\* the result reads semantic_info before it is assigned.
AttemptSucceeds(c) ==
    /\ call[c].at = "optimizing"
    /\ SetCall(c, Answered(call[c].trip, Error500))
    /\ UNCHANGED <<has_analytics, result_cache>>

\* It raises, or its result is rejected, which leaves optimization_result bound.
\* The next attempt waits, and after the last one the basic itinerary is
\* returned (and cached) unless some attempt has bound a result.
AttemptFails(c) ==
    /\ call[c].at = "optimizing"
    /\ \E rejected \in BOOLEAN :
           LET bound == call[c].bound \/ rejected
               r == call[c].trip
               basic == [status |-> 200, days |-> fallback_days(call[c].places, r.days)]
           IN  \/ /\ call[c].attempt < MaxRetries
                  /\ SetCall(c, [call[c] EXCEPT !.at = "sleeping", !.bound = bound])
                  /\ UNCHANGED result_cache
               \/ /\ call[c].attempt = MaxRetries /\ bound
                  /\ SetCall(c, Answered(r, Error500))
                  /\ UNCHANGED result_cache
               \/ /\ call[c].attempt = MaxRetries /\ ~bound
                  /\ SetCall(c, Answered(r, basic))
                  /\ result_cache' =
                       [result_cache EXCEPT ![r] = [left |-> ExpiryTicks, answer |-> basic]]
    /\ UNCHANGED has_analytics

\* Mutant of Retry: the attempt is not counted.
RetryUncounted(c) ==
    /\ call[c].at = "sleeping"
    /\ SetCall(c, [call[c] EXCEPT !.at = "optimizing"])
    /\ UNCHANGED <<has_analytics, result_cache>>

\* asyncio.sleep(attempt) is over.
Retry(c) ==
    /\ call[c].at = "sleeping"
    /\ SetCall(c, [call[c] EXCEPT !.at = "optimizing", !.attempt = @ + 1])
    /\ UNCHANGED <<has_analytics, result_cache>>

\* The client reads its answer and may call again.
Leave(c) ==
    /\ call[c].at = "answered"
    /\ SetCall(c, IdleCall)
    /\ UNCHANGED <<has_analytics, result_cache>>

-----------------------------------------------------------------------------
(* The response cache *)

\* Time passes: an expired entry stays until it is overwritten or cleaned up.
CacheTick ==
    /\ result_cache' = [r \in Trips |-> [result_cache[r] EXCEPT !.left = IF @ > 0 THEN @ - 1 ELSE 0]]
    /\ UNCHANGED <<has_analytics, call>>

cleanup_expired_cache ==
    /\ result_cache' = [r \in Trips |-> IF result_cache[r].left = 0 THEN NotCached ELSE result_cache[r]]
    /\ UNCHANGED <<has_analytics, call>>

clear_cache ==
    /\ result_cache' = [r \in Trips |-> NotCached]
    /\ UNCHANGED <<has_analytics, call>>

-----------------------------------------------------------------------------
EndpointInit ==
    /\ has_analytics \in BOOLEAN
    /\ result_cache = [r \in Trips |-> NotCached]
    /\ call = [c \in Clients |-> IdleCall]

Serve(c) == HotelsAnswer(c) \/ AttemptSucceeds(c) \/ AttemptFails(c) \/ Retry(c)

EndpointNext ==
    \/ \E c \in Clients : Serve(c) \/ Leave(c) \/ \E r \in Trips : Arrive(c, r)
    \/ CacheTick \/ cleanup_expired_cache \/ clear_cache

\* The event loop resumes a coroutine whose await is over, and every await of the
\* endpoint ends: the hotel search, the attempt (HybridDispatch) and the sleep.
EndpointFairness == \A c \in Clients : WF_endpointVars(Serve(c))

EndpointSpec == EndpointInit /\ [][EndpointNext]_endpointVars /\ EndpointFairness

-----------------------------------------------------------------------------
(* Properties *)

\* Whatever was cached, retried, or computed by another client meanwhile, an
\* itinerary that is returned is one of the request it answers: an entry for
\* every day of the trip, every place of the request exactly once and in its
\* order (a recommended hotel after them), days of sizes that differ by one.
BasicItineraryComplete ==
    \A c \in Clients :
        (call[c].at = "answered" /\ call[c].answer.status = 200) =>
            LET days == call[c].answer.days
                wanted == call[c].trip.places
                upto[i \in 0..Len(days)] == IF i = 0 THEN <<>> ELSE upto[i - 1] \o days[i]
            IN  /\ Len(days) = call[c].trip.days
                /\ upto[Len(days)] \in {wanted, wanted \o <<Hotel>>}
                /\ \A i, j \in DOMAIN days : Len(days[i]) <= Len(days[j]) + 1

\* Every call is answered, whatever its attempts do and however other clients
\* and the cache interleave with its awaits.
EveryCallAnswered == \A c \in Clients : call[c].at # "idle" ~> call[c].at = "answered"
=============================================================================
