------------------------------- MODULE ODMatrix -------------------------------
(***************************************************************************)
(* The matrix of a tour in HybridArchitectureIntegrator: from Redis, from  *)
(* the memory of the process when Redis does not answer, from OSRM, from   *)
(* city2graph. The methods are synchronous: one step per request. A matrix *)
(* is modelled by the places its rows stand for, in order. Both caches     *)
(* name the mode in their keys; one mode is modelled.                      *)
(***************************************************************************)
EXTENDS Naturals, Sequences, FiniteSets, SequencesExt, Functions

CONSTANTS Tours,      \* requests: sequences of [cluster, spot], distinct and not empty
          TTL         \* default_ttl = cache_ttl

ASSUME TTLAssumption == TTL \in Nat \ {0}

VARIABLES client,     \* redis_client is not None: the ping of the constructor answered
          redis_up, osrm_up,
          city2graph, \* UltraFastChileRouting could be built
          redis,      \* key -> [rows, age, left]: age since the calculation, left until it expires
          od_matrix_cache, \* key -> [rows, age, stamp]: stamp since it was put there
          served      \* the last answer: [tour, rows, age, from]

odVars == <<client, redis_up, osrm_up, city2graph, redis, od_matrix_cache, served>>

Without(f, K) == Restrict(f, DOMAIN f \ K)
With(f, k, v) == [x \in DOMAIN f \cup {k} |-> IF x = k THEN v ELSE f[x]]

-----------------------------------------------------------------------------
(* Sessions and keys *)

Clusters(t) == {t[i].cluster : i \in DOMAIN t}
In(t, c) == {i \in DOMAIN t : t[i].cluster = c}

\* The first cluster, in order of appearance, with the most POIs.
main_cluster(t) ==
    LET most == {i \in DOMAIN t : \A c \in Clusters(t) :
                     Cardinality(In(t, t[i].cluster)) >= Cardinality(In(t, c))}
    IN  t[CHOOSE i \in most : \A j \in most : i <= j].cluster

\* Mutant of session_id: without the number of POIs.
SessionOfClusters(t) == <<0, Clusters(t)>>

\* The number of POIs and a hash of the clusters, not of the POIs.
session_id(t) == <<Len(t), Clusters(t)>>

\* The coordinates are sorted for the hash; the main cluster depends on their order.
od_key(t) == <<ToSet(t), main_cluster(t), Len(t)>>

-----------------------------------------------------------------------------
(* The two caches and the calculation *)

health_check == client /\ redis_up

\* OSRM when it answers; city2graph, if there is one, when it does not or its
\* table request fails. city2graph writes infinity for a pair without a route.
_calculate_matrix_with_fallback(t) ==
    IF osrm_up \/ city2graph THEN {[rows |-> t, age |-> 0]} ELSE {}

\* OSRM's request may always fail.
MayFail == ~city2graph

Served(t, m, from) == served' = [tour |-> t, rows |-> m.rows, age |-> m.age, from |-> from]

\* Whatever is returned is put into the memory as of now, a Redis hit too.
Stored(t, m) ==
    od_matrix_cache' = With(od_matrix_cache, session_id(t),
                            [rows |-> m.rows, age |-> m.age, stamp |-> 0])

\* Healthy, a hit in Redis.
RedisHit(t) ==
    LET k == od_key(t) IN
    /\ health_check /\ k \in DOMAIN redis
    /\ Served(t, redis[k], "redis") /\ Stored(t, redis[k])
    /\ UNCHANGED redis

\* Healthy, not in Redis or not readable: calculated, and saved unless setex fails.
RedisMiss(t) ==
    LET k == od_key(t) IN
    /\ health_check
    /\ \E m \in _calculate_matrix_with_fallback(t) :
          /\ redis' \in {redis, With(redis, k, [rows |-> t, age |-> 0, left |-> TTL])}
          /\ Served(t, m, "calculated") /\ Stored(t, m)

InMemory(t) ==
    /\ session_id(t) \in DOMAIN od_matrix_cache
    /\ od_matrix_cache[session_id(t)].stamp < TTL

\* Mutant of MemoryHit: the hit renews the entry.
MemoryHitRenews(t) ==
    /\ ~health_check /\ InMemory(t)
    /\ Served(t, od_matrix_cache[session_id(t)], "memory")
    /\ Stored(t, od_matrix_cache[session_id(t)])
    /\ UNCHANGED redis

\* Redis does not answer: a fresh entry of the memory is returned as it is.
MemoryHit(t) ==
    /\ ~health_check /\ InMemory(t)
    /\ Served(t, od_matrix_cache[session_id(t)], "memory")
    /\ UNCHANGED <<redis, od_matrix_cache>>

MemoryMiss(t) ==
    /\ ~health_check /\ ~InMemory(t)
    /\ \E m \in _calculate_matrix_with_fallback(t) :
          /\ Served(t, m, "calculated") /\ Stored(t, m)
    /\ UNCHANGED redis

\* No engine has a matrix: an exception to the caller, nothing is stored.
NoMatrix(t) ==
    /\ MayFail /\ (~health_check => ~InMemory(t))
    /\ served' = [tour |-> t, rows |-> <<>>, age |-> 0, from |-> "raised"]
    /\ UNCHANGED <<redis, od_matrix_cache>>

calculate_od_matrix_hybrid(t) ==
    /\ RedisHit(t) \/ RedisMiss(t) \/ MemoryHit(t) \/ MemoryMiss(t) \/ NoMatrix(t)
    /\ UNCHANGED <<client, redis_up, osrm_up, city2graph>>

\* The keys with the cluster as their main one; the memory keeps its entries.
invalidate_cluster_cache(c) ==
    /\ client /\ redis_up
    /\ redis' = Without(redis, {k \in DOMAIN redis : k[2] = c})
    /\ UNCHANGED <<client, redis_up, osrm_up, city2graph, od_matrix_cache, served>>

-----------------------------------------------------------------------------
(* The surroundings *)

\* An hour is TTL ticks. Redis drops what expires; the memory never drops anything,
\* the age of what is past its time is of no interest.
Tick ==
    /\ redis' = [k \in {l \in DOMAIN redis : redis[l].left > 1} |->
                    [redis[k] EXCEPT !.age = @ + 1, !.left = @ - 1]]
    /\ od_matrix_cache' =
          [k \in DOMAIN od_matrix_cache |->
              IF od_matrix_cache[k].stamp = TTL THEN od_matrix_cache[k]
              ELSE [od_matrix_cache[k] EXCEPT !.age = @ + 1, !.stamp = @ + 1]]
    /\ UNCHANGED <<client, redis_up, osrm_up, city2graph, served>>

Outage ==
    /\ \/ redis_up' = ~redis_up /\ UNCHANGED osrm_up
       \/ osrm_up' = ~osrm_up /\ UNCHANGED redis_up
    /\ UNCHANGED <<client, city2graph, redis, od_matrix_cache, served>>

ODInit ==
    /\ redis_up \in BOOLEAN /\ osrm_up \in BOOLEAN
    /\ client \in {FALSE, redis_up}
    /\ city2graph \in BOOLEAN
    /\ redis = <<>> /\ od_matrix_cache = <<>>
    /\ served = [tour |-> <<>>, rows |-> <<>>, age |-> 0, from |-> "raised"]

ODNext ==
    \/ \E t \in Tours : calculate_od_matrix_hybrid(t)
    \/ \E c \in UNION {Clusters(t) : t \in Tours} : invalidate_cluster_cache(c)
    \/ Tick \/ Outage

ODSpec == ODInit /\ [][ODNext]_odVars

-----------------------------------------------------------------------------
(* Properties *)

\* A matrix has as many rows as the tour has places, in whichever cache it was
\* found and although neither key lists the places in their order: the indices of
\* the route made from it are those of the tour's POIs. One from Redis is about the
\* same places; one from the memory may be about others of the same clusters.
MatrixFits ==
    served.from # "raised" =>
        /\ Len(served.rows) = Len(served.tour)
        /\ served.from = "redis" => ToSet(served.rows) = ToSet(served.tour)
        /\ served.from = "memory" => Clusters(served.rows) = Clusters(served.tour)
        /\ served.from = "calculated" => served.rows = served.tour

\* What is returned was calculated less than two lifetimes ago, not one: a hit in
\* Redis begins a second lifetime in the memory, and no more than that.
MatrixAgeBounded ==
    /\ served.age <= 2 * (TTL - 1)
    /\ served.from = "redis" => served.age < TTL
==============================================================================
