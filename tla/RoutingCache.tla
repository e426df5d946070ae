---------------------------- MODULE RoutingCache ----------------------------
(***************************************************************************)
(* The distance cache of HybridOptimizerV31 in front of its routing: two   *)
(* ways to insert (robust service, persistent variant), one that evicts,   *)
(* and a JSON file that every optimizer of every process loads when it is  *)
(* built and rewrites in place.                                            *)
(*                                                                         *)
(* A dict keeps the order of first insertion, so a cache is a sequence of  *)
(* entries. An entry is its key and its 'timestamp': "none" unless the     *)
(* persistent variant stored it, then "fresh", later "old" (more than      *)
(* max_age_days). Distances and cache_hits, which nothing decides on, are  *)
(* left out. Steps are the pieces of code between two awaits.              *)
(***************************************************************************)
EXTENDS Naturals, Sequences, FiniteSets, Lists

CONSTANTS Optimizers,   \* HybridOptimizerV31 objects alive at once
          Points,       \* coordinates that differ in the third decimal
          Modes,        \* walk, drive, bike
          Callers,      \* concurrent lookups
          Limit,        \* 1000 entries
          EvictCount,   \* 200 entries
          SaveEvery,    \* 50 misses
          MaxMisses     \* bound of the counter cache_misses

ASSUME RoutingAssumption ==
    /\ IsFiniteSet(Callers)
    /\ Limit \in Nat /\ EvictCount \in 1..Limit

VARIABLES distance_cache, \* of each optimizer, in insertion order
          cache_misses,   \* of each optimizer
          lookup,         \* what each caller waits for
          disk,           \* the cache file
          persistent      \* somebody calls the persistent variant

routingVars == <<distance_cache, cache_misses, lookup, disk, persistent>>

\* The key is the same in both directions.
_get_cache_key(p, q, mode) == [ends |-> {p, q}, mode |-> mode]
Keys == {_get_cache_key(p, q, mode) : p, q \in Points, mode \in Modes}

Idle == [at |-> "idle"]
NoFile == [state |-> "absent"]
TornFile == [state |-> "torn"]

HasKey(cache, k) == \E i \in DOMAIN cache : cache[i].key = k

\* d[key] = value: an existing key keeps its place, a new one goes to the end.
Put(cache, k, stamp) ==
    IF HasKey(cache, k)
    THEN [i \in DOMAIN cache |->
             IF cache[i].key = k THEN [key |-> k, stamp |-> stamp] ELSE cache[i]]
    ELSE Append(cache, [key |-> k, stamp |-> stamp])

\* Mutant of Evict: the limit is not looked at.
EvictNothing(cache) == cache

\* Over the limit the first entries go, however far over it the cache is.
Evict(cache) ==
    IF Len(cache) > Limit THEN SubSeq(cache, EvictCount + 1, Len(cache)) ELSE cache

-----------------------------------------------------------------------------
(* The file *)

\* Mutant of load_persistent_cache: the entries without their statistics.
LoadWithoutStats(file) ==
    IF file.state = "whole" THEN [cache |-> file.distances, misses |-> 0]
                            ELSE [cache |-> <<>>, misses |-> 0]

\* What a new optimizer starts with: the file, or nothing if there is no file
\* or json.load rejects it.
load_persistent_cache(file) ==
    IF file.state = "whole" THEN [cache |-> file.distances, misses |-> file.misses]
                            ELSE [cache |-> <<>>, misses |-> 0]

\* open(..., 'w') fails and leaves the file alone, or it truncates it and json.dump
\* writes all or a part of the cache: what another optimizer has saved is lost.
save_persistent_cache(cache, misses) ==
    disk' \in {disk, TornFile, [state |-> "whole", distances |-> cache, misses |-> misses]}

\* A request builds its optimizer: an object nobody waits on any more is
\* replaced by one that reads the file.
NewOptimizer(o) ==
    /\ \A c \in Callers : lookup[c] # Idle => lookup[c].opt # o
    /\ distance_cache' = [distance_cache EXCEPT ![o] = load_persistent_cache(disk).cache]
    /\ cache_misses' = [cache_misses EXCEPT ![o] = load_persistent_cache(disk).misses]
    /\ UNCHANGED <<lookup, disk, persistent>>

\* The process dies, possibly while it writes the file, and starts again.
Crash ==
    /\ disk' \in {disk, TornFile}
    /\ distance_cache' = [o \in Optimizers |-> load_persistent_cache(disk').cache]
    /\ cache_misses' = [o \in Optimizers |-> load_persistent_cache(disk').misses]
    /\ lookup' = [c \in Callers |-> Idle]
    /\ UNCHANGED persistent

\* Entries without a timestamp count as written now.
cleanup_old_cache_entries(cache) ==
    Kept(cache, {x \in {cache[n] : n \in DOMAIN cache} : x.stamp # "old"})

\* The file gets what was there before the clean-up.
finalize_optimization(o) ==
    /\ save_persistent_cache(distance_cache[o], cache_misses[o])
    /\ distance_cache' = [distance_cache EXCEPT ![o] = cleanup_old_cache_entries(@)]
    /\ UNCHANGED <<cache_misses, lookup, persistent>>

-----------------------------------------------------------------------------
(* Lookups *)

Insert(o, cache) == distance_cache' = [distance_cache EXCEPT ![o] = cache]
Miss(o) == cache_misses' = [cache_misses EXCEPT ![o] = @ + 1]
Waits(c, o, k, at) == lookup' = [lookup EXCEPT ![c] = [at |-> at, opt |-> o, key |-> k]]
Done(c) == lookup' = [lookup EXCEPT ![c] = Idle]

\* routing_service_cached up to its first await; a hit changes only cache_hits.
\* With a multimodal router nothing else happens: get_route of ChileMultiModalRouter,
\* the only router there is, returns a dict, awaiting it raises TypeError, and
\* the handler goes on to the robust service.
Ask(c, o, k) ==
    /\ lookup[c] = Idle /\ ~HasKey(distance_cache[o], k)
    /\ cache_misses[o] < MaxMisses
    /\ Miss(o)
    /\ Waits(c, o, k, "robust")
    /\ UNCHANGED <<distance_cache, disk, persistent>>

\* The robust service always has an answer (its own fallback), stored if it
\* takes time.
RobustAnswers(c) ==
    /\ lookup[c].at = "robust"
    /\ LET o == lookup[c].opt IN
           \/ Insert(o, Evict(Put(distance_cache[o], lookup[c].key, "none")))
           \/ UNCHANGED distance_cache
    /\ Done(c)
    /\ UNCHANGED <<cache_misses, disk, persistent>>

routing_service_cached(c) ==
    \/ \E o \in Optimizers, k \in Keys : Ask(c, o, k)
    \/ RobustAnswers(c)

PersistentAsk(c, o, k) ==
    /\ persistent
    /\ lookup[c] = Idle /\ ~HasKey(distance_cache[o], k)
    /\ cache_misses[o] < MaxMisses
    /\ Miss(o)
    /\ Waits(c, o, k, "persistent")
    /\ UNCHANGED <<distance_cache, disk, persistent>>

\* Stored with a timestamp, never evicting; the file is written when the misses
\* counted meanwhile (by whomever) are a multiple of SaveEvery.
PersistentAnswers(c) ==
    /\ lookup[c].at = "persistent"
    /\ Done(c)
    /\ UNCHANGED <<cache_misses, persistent>>
    /\ LET o == lookup[c].opt IN
           \/ /\ Insert(o, Put(distance_cache[o], lookup[c].key, "fresh"))
              /\ IF cache_misses[o] % SaveEvery = 0
                 THEN save_persistent_cache(distance_cache'[o], cache_misses[o])
                 ELSE UNCHANGED disk
           \/ UNCHANGED <<distance_cache, disk>>

routing_service_persistent_cached(c) ==
    \/ \E o \in Optimizers, k \in Keys : PersistentAsk(c, o, k)
    \/ PersistentAnswers(c)

\* An entry in memory passes max_age_days.
Grow(o) ==
    /\ \E i \in DOMAIN distance_cache[o] :
           /\ distance_cache[o][i].stamp = "fresh"
           /\ distance_cache' = [distance_cache EXCEPT ![o][i].stamp = "old"]
    /\ UNCHANGED <<cache_misses, lookup, disk, persistent>>

-----------------------------------------------------------------------------
RoutingInit ==
    /\ distance_cache = [o \in Optimizers |-> <<>>]
    /\ cache_misses = [o \in Optimizers |-> 0]
    /\ lookup = [c \in Callers |-> Idle]
    /\ disk = NoFile
    /\ persistent \in BOOLEAN

RoutingNext ==
    \/ \E c \in Callers : routing_service_cached(c) \/ routing_service_persistent_cached(c)
    \/ \E o \in Optimizers : NewOptimizer(o) \/ finalize_optimization(o) \/ Grow(o)
    \/ Crash

RoutingSpec == RoutingInit /\ [][RoutingNext]_routingVars

-----------------------------------------------------------------------------
(* Properties *)

\* Every cached route was paid for by a counted miss, in memory and in the file,
\* through concurrent lookups of one key, restarts from a snapshot or from a
\* torn file, and clean-ups: the hit rate never comes from entries that the
\* statistics do not know of.
MissesCoverEntries ==
    /\ \A o \in Optimizers :
           Len(distance_cache[o])
             + Cardinality({c \in Callers : /\ lookup[c].at \in {"robust", "persistent"}
                                            /\ lookup[c].opt = o})
             <= cache_misses[o]
    /\ disk.state = "whole" => Len(disk.distances) <= disk.misses

\* The eviction of the robust path is enough as long as nobody uses the
\* persistent variant, which has none: no interleaving of lookups, saves,
\* reloads and restarts grows a cache past its limit.
RobustPathLimited ==
    ~persistent =>
        \A o \in Optimizers : Len(distance_cache[o]) <= Limit
=============================================================================
