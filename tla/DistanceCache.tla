---------------------------- MODULE DistanceCache ----------------------------
(***************************************************************************)
(* The cache of distance matrices in services/ortools_distance_cache.py.   *)
(*                                                                         *)
(* The coroutines of the cache run on one event loop. Nothing suspends in  *)
(* a lookup, in saving, in cleaning up, in a geodesic matrix or in the     *)
(* sequential OSRM matrix, so each of these is part of one step; only the  *)
(* parallel OSRM matrix waits for its tasks and lets other calls run.      *)
(*                                                                         *)
(* A matrix is represented by the list of places whose rows and columns it *)
(* has, in that order, with the source it is said to come from.            *)
(***************************************************************************)
EXTENDS Integers, Sequences, FiniteSets

CONSTANTS Calls,          \* coroutines that use the cache
          PlaceLists,     \* what they ask for: lists of different places
          Unlocatable,    \* places geopy refuses, with a latitude beyond 90
          MaxCacheSize,   \* max_cache_size
          TTL,            \* cache_ttl
          FewPlaces,      \* up to so many, "auto" means geodesic (5)
          ManyPlaces,     \* beyond so many, OSRM is asked in parallel (10)
          Parallel,       \* ORTOOLS_ENABLE_PARALLEL_OPTIMIZATION
          MaxRequests,    \* bound: requests in a behaviour
          MaxTime         \* bound: the clock

\* The values of source_preference.
Preferences == {"auto", "osrm", "geodesic", "cached_only"}

\* The places of a list.
PlacesOf(list) == {list[i] : i \in DOMAIN list}

ASSUME CacheAssumption ==
    /\ IsFiniteSet(Calls)
    /\ \A l \in PlaceLists : l \in Seq(PlacesOf(l))
    /\ \A l \in PlaceLists : \A i, j \in DOMAIN l : i # j => l[i] # l[j]
    /\ MaxCacheSize \in Nat \ {0}
    /\ {TTL, FewPlaces, ManyPlaces, MaxRequests, MaxTime} \subseteq Nat
    /\ Parallel \in BOOLEAN

VARIABLES cache,      \* key -> CachedDistanceMatrix
          size,       \* stats["cache_size"]
          hits,       \* stats["hits"]
          misses,     \* stats["misses"]
          cached,     \* stats["total_matrices_cached"]
          has_osrm,   \* whether the OSRM service could be imported
          now,        \* datetime.now()
          pc,         \* where each call is
          asked,      \* the places it asked for
          answer      \* the places of the matrix it was given

vars == <<cache, size, hits, misses, cached, has_osrm, now, pc, asked, answer>>

\* Mutant: the key is made from the first place only.
HashFirstPlace(places) == {places[1]}

\* _generate_places_hash: the places are sorted by coordinates before they are
\* hashed, so the key tells sets of places apart and not their orders.
_generate_places_hash(places) == PlacesOf(places)

Keys == {_generate_places_hash(l) : l \in PlaceLists}

\* A CachedDistanceMatrix: `partial` when the distance of some pair is
\* missing and its cells still hold the initial 0.0.
CachedDistanceMatrix ==
    [matrix : PlaceLists, source : {"osrm", "geodesic"}, partial : BOOLEAN,
     timestamp : Nat]

TypeOK ==
    /\ DOMAIN cache \in SUBSET Keys
    /\ cache \in [DOMAIN cache -> CachedDistanceMatrix]
    /\ {size, hits, misses, cached, now} \subseteq Nat
    /\ has_osrm \in BOOLEAN
    /\ pc \in [Calls -> {"idle", "calculating", "returned", "raised"}]
    /\ asked \in [Calls -> PlaceLists \cup {<<>>}]
    /\ answer \in [Calls -> PlaceLists \cup {<<>>}]

\* __init__ and _init_distance_services
Init ==
    /\ cache = [k \in {} |-> <<>>]
    /\ size = 0 /\ hits = 0 /\ misses = 0 /\ cached = 0
    /\ has_osrm \in BOOLEAN
    /\ now = 0
    /\ pc = [c \in Calls |-> "idle"]
    /\ asked = [c \in Calls |-> <<>>]
    /\ answer = [c \in Calls |-> <<>>]

-----------------------------------------------------------------------------
(* What is calculated.                                                      *)

is_expired(entry) == now > entry.timestamp + TTL

\* geodesic refuses one of the places of some pair. A single place has no pair.
\* _get_osrm_distance never answers for a pair: osrm_service is a
\* RealCity2GraphService, which has no get_distance_km. The call raises, and
\* the geodesic distance is taken instead, also for the source "osrm".
Refused(places) == Len(places) > 1 /\ PlacesOf(places) \cap Unlocatable # {}

\* The source _calculate_distance_matrix tries.
Source(places, source_preference) ==
    IF source_preference = "auto"
    THEN IF Len(places) > FewPlaces /\ has_osrm THEN "osrm" ELSE "geodesic"
    ELSE IF source_preference = "osrm" /\ has_osrm THEN "osrm" ELSE "geodesic"

\* _calculate_osrm_matrix: whether the pairs are asked for in parallel.
InParallel(places, source_preference) ==
    /\ Source(places, source_preference) = "osrm"
    /\ Len(places) > ManyPlaces
    /\ Parallel

\* A matrix of the places, calculated now.
Matrix(places, source, partial) ==
    [matrix |-> places, source |-> source, partial |-> partial,
     timestamp |-> now]

-----------------------------------------------------------------------------
(* The cache.                                                               *)

\* The entries of a cache with the given keys.
Only(c, keys) == [k \in keys |-> c[k]]

\* A cache with an entry added or replaced.
With(c, key, entry) ==
    [k \in DOMAIN c \cup {key} |-> IF k = key THEN entry ELSE c[k]]

Full(keys) == Cardinality(keys) >= MaxCacheSize

\* _cleanup_cache drops the expired entries and then, if there still are too
\* many, the oldest fifth of them. Entries of the same age go in either order.
Live(c) == {k \in DOMAIN c : ~is_expired(c[k])}

CleanupCount(keys) == IF Cardinality(keys) \div 5 > 1 THEN Cardinality(keys) \div 5 ELSE 1

\* Mutant: the youngest go first.
YoungestOf(c, keys, victims) ==
    /\ Cardinality(victims) = CleanupCount(keys)
    /\ \A v \in victims, k \in keys \ victims : c[v].timestamp >= c[k].timestamp

OldestOf(c, keys, victims) ==
    /\ Cardinality(victims) = CleanupCount(keys)
    /\ \A v \in victims, k \in keys \ victims : c[v].timestamp <= c[k].timestamp

_cleanup_cache(c) ==
    IF Full(Live(c))
    THEN {Live(c) \ v : v \in {w \in SUBSET Live(c) : OldestOf(c, Live(c), w)}}
    ELSE {Live(c)}

\* The keys that survive the beginning of _save_to_cache.
Survivors(c) == IF Full(DOMAIN c) THEN _cleanup_cache(c) ELSE {DOMAIN c}

\* _save_to_cache, from the state c of the cache
_save_to_cache(c, key, entry) ==
    /\ \E kept \in Survivors(c) : cache' = With(Only(c, kept), key, entry)
    /\ size' = Cardinality(DOMAIN cache')
    /\ cached' = cached + 1

-----------------------------------------------------------------------------
(* Operations.                                                              *)

\* The beginning of get_distance_matrix: a call asks for the matrix of a list.
Ask(c, places) ==
    /\ pc[c] # "calculating"
    /\ hits + misses < MaxRequests
    /\ asked' = [asked EXCEPT ![c] = places]
    /\ UNCHANGED <<has_osrm, now>>

Return(c, places) ==
    /\ pc' = [pc EXCEPT ![c] = "returned"]
    /\ answer' = [answer EXCEPT ![c] = places]

\* An answer from the cache.
Found(key) == key \in DOMAIN cache /\ ~is_expired(cache[key])

Hit(c, places) ==
    LET key == _generate_places_hash(places) IN
    /\ Ask(c, places)
    /\ Found(key)
    /\ hits' = hits + 1
    /\ Return(c, cache[key].matrix)
    /\ UNCHANGED <<cache, size, misses, cached>>

\* No answer. _get_from_cache has removed the entry if it has expired.
Missed(c, places) ==
    /\ Ask(c, places)
    /\ ~Found(_generate_places_hash(places))
    /\ misses' = misses + 1
    /\ UNCHANGED hits

AfterLookup(key) == Only(cache, DOMAIN cache \ {key})

\* The size after _get_from_cache, which counts only when it has removed one.
SizeAfterLookup(key) ==
    IF key \in DOMAIN cache THEN Cardinality(DOMAIN cache \ {key}) ELSE size

\* A miss whose matrix is calculated without suspending: the geodesic matrix,
\* or the sequential OSRM matrix. It is saved in the same step.
MissInline(c, places, source_preference) ==
    LET key == _generate_places_hash(places) IN
    /\ Missed(c, places)
    /\ ~InParallel(places, source_preference)
    /\ ~Refused(places)
    /\ _save_to_cache(AfterLookup(key), key,
                      Matrix(places, Source(places, source_preference), FALSE))
    /\ Return(c, places)

\* A miss with a place that cannot be located. The sequential OSRM matrix
\* raises as well, and the geodesic fallback after it raises again.
MissRaises(c, places, source_preference) ==
    LET key == _generate_places_hash(places) IN
    /\ Missed(c, places)
    /\ ~InParallel(places, source_preference)
    /\ Refused(places)
    /\ cache' = AfterLookup(key)
    /\ size' = SizeAfterLookup(key)
    /\ pc' = [pc EXCEPT ![c] = "raised"]
    /\ UNCHANGED <<cached, answer>>

\* A miss that waits for the tasks of _calculate_osrm_parallel.
MissSuspends(c, places, source_preference) ==
    LET key == _generate_places_hash(places) IN
    /\ Missed(c, places)
    /\ InParallel(places, source_preference)
    /\ cache' = AfterLookup(key)
    /\ size' = SizeAfterLookup(key)
    /\ pc' = [pc EXCEPT ![c] = "calculating"]
    /\ UNCHANGED <<cached, answer>>

\* All tasks have ended. A pair whose task raised keeps the distance 0.0. The
\* matrix is saved in the cache as it is now, under the key made before.
ParallelDone(c) ==
    /\ pc[c] = "calculating"
    /\ _save_to_cache(cache, _generate_places_hash(asked[c]),
                      Matrix(asked[c], "osrm", Refused(asked[c])))
    /\ Return(c, asked[c])
    /\ UNCHANGED <<hits, misses, has_osrm, now, asked>>

\* invalidate_cache with a hash
invalidate_cache(key) ==
    /\ key \in DOMAIN cache
    /\ cache' = Only(cache, DOMAIN cache \ {key})
    /\ UNCHANGED <<size, hits, misses, cached, has_osrm, now, pc, asked, answer>>

\* invalidate_cache without one
invalidate_all ==
    /\ cache' = Only(cache, {})
    /\ size' = 0
    /\ UNCHANGED <<hits, misses, cached, has_osrm, now, pc, asked, answer>>

\* Time passes.
Tick ==
    /\ now < MaxTime
    /\ now' = now + 1
    /\ UNCHANGED <<cache, size, hits, misses, cached, has_osrm, pc, asked, answer>>

get_distance_matrix(c) ==
    \E places \in PlaceLists :
       \/ Hit(c, places)
       \/ \E p \in Preferences : \/ MissInline(c, places, p)
                                 \/ MissRaises(c, places, p)
                                 \/ MissSuspends(c, places, p)

Next ==
    \/ \E c \in Calls : get_distance_matrix(c) \/ ParallelDone(c)
    \/ \E key \in Keys : invalidate_cache(key)
    \/ invalidate_all
    \/ Tick

Spec == Init /\ [][Next]_vars

-----------------------------------------------------------------------------
(* Properties.                                                              *)

\* The cache never holds more than max_cache_size matrices, whichever calls
\* save while others wait for their tasks: every save makes room first.
CacheBounded == Cardinality(DOMAIN cache) <= MaxCacheSize

\* The reported cache_size may be too large after a single matrix has been
\* invalidated, and is never too small: every other way in which the cache
\* changes counts again.
SizeNotUnderReported == Cardinality(DOMAIN cache) <= size

\* Every matrix cached, and every one still being calculated, is a miss of its
\* own: no calculation is saved twice or for a request that was a hit.
MissesAccounted == cached + Cardinality({c \in Calls : pc[c] = "calculating"}) <= misses

\* A returned matrix, from the cache or calculated, is about exactly the places
\* that were asked for, although the key was made before the tasks were awaited
\* and the cache changed since.
AnswersSamePlaces ==
    \A c \in Calls : pc[c] = "returned" => PlacesOf(answer[c]) = PlacesOf(asked[c])

\* A matrix with missing distances, cached as if it were complete, comes only
\* from the parallel calculation, whose failed tasks are skipped; everywhere
\* else one failed pair fails the request and nothing is cached.
PartialOnlyParallel ==
    \A k \in DOMAIN cache :
       cache[k].partial => /\ cache[k].source = "osrm"
                           /\ Len(cache[k].matrix) > ManyPlaces
                           /\ Parallel

\* Saving a matrix removes another one that has not expired only when there are
\* max_cache_size of those, and only from the oldest end: no matrix that stays
\* is older. (Removing the expired ones cannot break the order, as all
\* matrices live equally long.)
EvictionOrder ==
    [][cached' # cached =>
          \A v \in DOMAIN cache \ DOMAIN cache' :
             /\ \A k \in DOMAIN cache \cap DOMAIN cache' :
                   cache'[k] = cache[k] => cache[v].timestamp <= cache[k].timestamp
             /\ ~is_expired(cache[v]) => Full(Live(cache))]_vars

\* What holds of the matrices, their statistics and the answers while calls
\* look up, calculate, save and invalidate at the same time.
MatricesSafe ==
    /\ TypeOK
    /\ CacheBounded
    /\ SizeNotUnderReported
    /\ MissesAccounted
    /\ AnswersSamePlaces
    /\ PartialOnlyParallel
=============================================================================
