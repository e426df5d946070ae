------------------------- MODULE DistanceCacheProofs -------------------------
(***************************************************************************)
(* Theorems about DistanceCache, for every set of calls and lists of       *)
(* places, every size of the cache and every lifetime of its matrices.     *)
(***************************************************************************)
EXTENDS DistanceCache, FiniteSetTheorems, TLAPS

Waiting == {c \in Calls : pc[c] = "calculating"}

\* A matrix is cached under the key of its own places.
KeysMatch == \A k \in DOMAIN cache : PlacesOf(cache[k].matrix) = k

\* A call that waits is one whose matrix is calculated in parallel.
WaitingIsParallel ==
    \A c \in Waiting : /\ asked[c] \in PlaceLists
                       /\ Len(asked[c]) > ManyPlaces
                       /\ Parallel

\* The inductive invariant. That an answer has the places of the request needs
\* KeysMatch; that a partial matrix comes from the parallel calculation needs
\* to know which calls wait; counting needs finite sets.
IInv ==
    /\ TypeOK /\ IsFiniteSet(DOMAIN cache)
    /\ KeysMatch /\ WaitingIsParallel
    /\ CacheBounded /\ SizeNotUnderReported /\ MissesAccounted
    /\ AnswersSamePlaces /\ PartialOnlyParallel

USE CacheAssumption

-----------------------------------------------------------------------------
\* _cleanup_cache removes at least one matrix.
LEMMA CleanupCountPositive ==
    ASSUME NEW K, IsFiniteSet(K)
    PROVE  CleanupCount(K) \in Nat /\ CleanupCount(K) >= 1
  <1>1. Cardinality(K) \in Nat
    BY FS_CardinalityType
  <1> QED
    BY <1>1, Z3 DEF CleanupCount

\* What is left when a matrix is about to be saved: there is room for one more;
\* what has been removed is no younger than what is left; and only a cache
\* with max_cache_size matrices that have not expired loses one of those.
LEMMA SurvivorsMakeRoom ==
    ASSUME NEW C, C \in [DOMAIN C -> CachedDistanceMatrix],
           IsFiniteSet(DOMAIN C), Cardinality(DOMAIN C) <= MaxCacheSize,
           now \in Nat,
           NEW kept \in Survivors(C)
    PROVE  /\ kept \subseteq DOMAIN C /\ IsFiniteSet(kept)
           /\ Cardinality(kept) + 1 <= MaxCacheSize
           /\ \A v \in DOMAIN C \ kept :
                 /\ \A k \in kept : C[v].timestamp <= C[k].timestamp
                 /\ ~is_expired(C[v]) => Full(Live(C))
  <1>1. \A k \in DOMAIN C : C[k].timestamp \in Nat
    BY DEF CachedDistanceMatrix
  <1>2. Live(C) \subseteq DOMAIN C /\ IsFiniteSet(Live(C))
    BY FS_Subset DEF Live
  <1>3. Cardinality(Live(C)) <= Cardinality(DOMAIN C)
    BY <1>2, FS_Subset
  <1>4. Cardinality(DOMAIN C) \in Nat /\ Cardinality(Live(C)) \in Nat
    BY <1>2, FS_CardinalityType
  <1>5. \A v \in DOMAIN C \ Live(C), k \in Live(C) : C[v].timestamp <= C[k].timestamp
    BY <1>1 DEF Live, is_expired
  <1>6. CASE ~Full(DOMAIN C)
    <2>1. kept = DOMAIN C
      BY <1>6 DEF Survivors
    <2> QED
      BY <2>1, <1>6, <1>4 DEF Full
  <1>7. CASE Full(DOMAIN C) /\ ~Full(Live(C))
    <2>1. kept = Live(C)
      BY <1>7 DEF Survivors, _cleanup_cache
    <2>2. Cardinality(kept) + 1 <= MaxCacheSize
      BY <2>1, <1>7, <1>4 DEF Full
    <2>3. \A v \in DOMAIN C \ kept : is_expired(C[v])
      BY <2>1 DEF Live
    <2> QED
      BY <2>1, <2>2, <2>3, <1>2, <1>5
  <1>8. CASE Full(DOMAIN C) /\ Full(Live(C))
    <2>1. PICK v \in SUBSET Live(C) : OldestOf(C, Live(C), v) /\ kept = Live(C) \ v
      BY <1>8 DEF Survivors, _cleanup_cache
    <2>2. IsFiniteSet(v) /\ Cardinality(v) = CleanupCount(Live(C))
      BY <2>1, <1>2, FS_Subset DEF OldestOf
    <2>3. Live(C) \cap v = v
      BY <2>1
    <2>4. IsFiniteSet(kept) /\ Cardinality(kept) = Cardinality(Live(C)) - Cardinality(v)
      BY <2>1, <2>2, <2>3, <1>2, FS_Difference
    <2>5. Cardinality(kept) + 1 <= MaxCacheSize
      <3>1. CleanupCount(Live(C)) \in Nat /\ CleanupCount(Live(C)) >= 1
        BY <1>2, CleanupCountPositive
      <3> QED
        BY <3>1, <2>2, <2>4, <1>3, <1>4
    <2>6. ASSUME NEW x \in DOMAIN C \ kept, NEW k \in kept
          PROVE  C[x].timestamp <= C[k].timestamp
      <3>1. CASE x \in Live(C)
        BY <3>1, <2>1 DEF OldestOf
      <3>2. CASE x \notin Live(C)
        BY <3>2, <2>1, <1>5
      <3> QED
        BY <3>1, <3>2
    <2> QED
      BY <2>1, <2>4, <2>5, <2>6, <1>2, <1>8
  <1> QED
    BY <1>6, <1>7, <1>8

\* What _save_to_cache does to a cache within its bound.
LEMMA SaveFacts ==
    ASSUME NEW C, C \in [DOMAIN C -> CachedDistanceMatrix],
           DOMAIN C \subseteq Keys,
           IsFiniteSet(DOMAIN C), Cardinality(DOMAIN C) <= MaxCacheSize,
           now \in Nat,
           NEW key \in Keys, NEW entry \in CachedDistanceMatrix,
           _save_to_cache(C, key, entry)
    PROVE  /\ DOMAIN cache' \in SUBSET Keys
           /\ cache' \in [DOMAIN cache' -> CachedDistanceMatrix]
           /\ IsFiniteSet(DOMAIN cache')
           /\ Cardinality(DOMAIN cache') <= MaxCacheSize
           /\ size' \in Nat /\ size' = Cardinality(DOMAIN cache')
           /\ cached' = cached + 1
           /\ key \in DOMAIN cache' /\ DOMAIN cache' \subseteq DOMAIN C \cup {key}
           /\ \A k \in DOMAIN cache' : cache'[k] = IF k = key THEN entry ELSE C[k]
           /\ \A v \in DOMAIN C \ DOMAIN cache' :
                 /\ \A k \in (DOMAIN C \cap DOMAIN cache') \ {key} :
                       C[v].timestamp <= C[k].timestamp
                 /\ ~is_expired(C[v]) => Full(Live(C))
  <1>1. PICK kept \in Survivors(C) : cache' = With(Only(C, kept), key, entry)
    BY DEF _save_to_cache
  <1>2. /\ kept \subseteq DOMAIN C /\ IsFiniteSet(kept)
        /\ Cardinality(kept) + 1 <= MaxCacheSize
        /\ \A v \in DOMAIN C \ kept :
              /\ \A k \in kept : C[v].timestamp <= C[k].timestamp
              /\ ~is_expired(C[v]) => Full(Live(C))
    BY SurvivorsMakeRoom
  <1>3. /\ DOMAIN cache' = kept \cup {key}
        /\ \A k \in kept \cup {key} : cache'[k] = IF k = key THEN entry ELSE C[k]
    BY <1>1, <1>2 DEF With, Only
  <1>4. cache' = [k \in DOMAIN cache' |-> cache'[k]]
    BY <1>1 DEF With
  <1>5. /\ IsFiniteSet(DOMAIN cache')
        /\ Cardinality(DOMAIN cache') \in Nat
        /\ Cardinality(DOMAIN cache') <= MaxCacheSize
    <2>1. Cardinality(kept) \in Nat
      BY <1>2, FS_CardinalityType
    <2>2. /\ IsFiniteSet(kept \cup {key})
          /\ \/ Cardinality(kept \cup {key}) = Cardinality(kept)
             \/ Cardinality(kept \cup {key}) = Cardinality(kept) + 1
      BY <1>2, FS_AddElement
    <2> QED
      BY <2>1, <2>2, <1>2, <1>3
  <1>6. \A k \in DOMAIN cache' : cache'[k] \in CachedDistanceMatrix
    BY <1>2, <1>3
  <1>7. size' = Cardinality(DOMAIN cache') /\ cached' = cached + 1
    BY DEF _save_to_cache
  <1>8. cache' \in [DOMAIN cache' -> CachedDistanceMatrix]
    BY <1>4, <1>6
  <1> QED
    BY <1>2, <1>3, <1>5, <1>7, <1>8

\* The types of a list of places and of its key.
LEMMA ListTypes ==
    ASSUME NEW l \in PlaceLists
    PROVE  /\ _generate_places_hash(l) \in Keys
           /\ _generate_places_hash(l) = PlacesOf(l)
           /\ Len(l) \in Nat
  <1>1. l \in Seq(PlacesOf(l))
    OBVIOUS
  <1> QED
    BY <1>1 DEF Keys, _generate_places_hash

\* A matrix that is saved has the type of one.
LEMMA MatrixType ==
    ASSUME TypeOK, NEW l \in PlaceLists, NEW s \in {"osrm", "geodesic"},
           NEW p \in BOOLEAN
    PROVE  /\ Matrix(l, s, p) \in CachedDistanceMatrix
           /\ Matrix(l, s, p).matrix = l
           /\ Matrix(l, s, p).source = s
           /\ Matrix(l, s, p).partial = p
  <1>1. now \in Nat
    BY DEF TypeOK
  <1> QED
    BY <1>1 DEF Matrix, CachedDistanceMatrix

LEMMA SourceType ==
    ASSUME NEW l, NEW p
    PROVE  Source(l, p) \in {"osrm", "geodesic"}
  BY DEF Source

\* A part of the cache keeps what holds of every entry, and the bounds.
LEMMA OnlyFacts ==
    ASSUME IInv, NEW K \in SUBSET DOMAIN cache
    PROVE  /\ DOMAIN Only(cache, K) = K
           /\ Only(cache, K) \in [K -> CachedDistanceMatrix]
           /\ \A k \in K : Only(cache, K)[k] = cache[k]
           /\ IsFiniteSet(K)
           /\ Cardinality(K) \in Nat
           /\ Cardinality(K) <= Cardinality(DOMAIN cache)
           /\ Cardinality(K) <= MaxCacheSize
  <1>1. IsFiniteSet(K) /\ Cardinality(K) <= Cardinality(DOMAIN cache)
    BY FS_Subset DEF IInv
  <1>2. Cardinality(K) \in Nat /\ Cardinality(DOMAIN cache) \in Nat
    BY <1>1, FS_CardinalityType DEF IInv
  <1>3. \A k \in K : cache[k] \in CachedDistanceMatrix
    BY DEF IInv, TypeOK
  <1>4. Cardinality(K) <= MaxCacheSize
    BY <1>1, <1>2 DEF IInv, CacheBounded
  <1> QED
    BY <1>1, <1>2, <1>3, <1>4 DEF Only

\* The calls that wait, when one of them starts or ends.
LEMMA WaitingCount ==
    ASSUME TypeOK, NEW c \in Calls
    PROVE  /\ IsFiniteSet(Waiting) /\ Cardinality(Waiting) \in Nat
           /\ c \notin Waiting => Cardinality(Waiting \cup {c}) = Cardinality(Waiting) + 1
           /\ c \in Waiting => Cardinality(Waiting \ {c}) = Cardinality(Waiting) - 1
  <1>1. IsFiniteSet(Waiting)
    <2>1. Waiting \subseteq Calls
      BY DEF Waiting
    <2> QED
      BY <2>1, FS_Subset
  <1> QED
    BY <1>1, FS_CardinalityType, FS_AddElement, FS_RemoveElement

\* What the invariant says of the cache and of its reported size.
CacheInv ==
    /\ DOMAIN cache \in SUBSET Keys
    /\ cache \in [DOMAIN cache -> CachedDistanceMatrix]
    /\ size \in Nat
    /\ IsFiniteSet(DOMAIN cache)
    /\ KeysMatch /\ CacheBounded /\ SizeNotUnderReported /\ PartialOnlyParallel

\* Saving a matrix in a part of the cache keeps CacheInv.
LEMMA SavePreserves ==
    ASSUME IInv, NEW C, C \in [DOMAIN C -> CachedDistanceMatrix],
           DOMAIN C \subseteq DOMAIN cache, \A k \in DOMAIN C : C[k] = cache[k],
           NEW l \in PlaceLists, NEW s \in {"osrm", "geodesic"}, NEW p \in BOOLEAN,
           p => s = "osrm" /\ Len(l) > ManyPlaces /\ Parallel,
           _save_to_cache(C, _generate_places_hash(l), Matrix(l, s, p))
    PROVE  /\ CacheInv' /\ cached' = cached + 1
           /\ _generate_places_hash(l) \in DOMAIN cache'
           /\ DOMAIN cache' \subseteq DOMAIN C \cup {_generate_places_hash(l)}
           /\ \A k \in DOMAIN cache' :
                 cache'[k] = IF k = _generate_places_hash(l) THEN Matrix(l, s, p) ELSE cache[k]
           /\ \A v \in DOMAIN C \ DOMAIN cache' :
                 /\ \A k \in (DOMAIN C \cap DOMAIN cache') \ {_generate_places_hash(l)} :
                       C[v].timestamp <= C[k].timestamp
                 /\ ~is_expired(C[v]) => Full(Live(C))
  <1> DEFINE key == _generate_places_hash(l)
             entry == Matrix(l, s, p)
  <1>1. key \in Keys /\ key = PlacesOf(l)
    BY ListTypes
  <1>2. /\ entry \in CachedDistanceMatrix
        /\ entry.matrix = l /\ entry.source = s /\ entry.partial = p
    BY MatrixType DEF IInv
  <1>3. /\ DOMAIN C \subseteq Keys /\ now \in Nat
        /\ IsFiniteSet(DOMAIN C) /\ Cardinality(DOMAIN C) <= MaxCacheSize
    BY OnlyFacts DEF IInv, TypeOK
  <1> HIDE DEF key, entry
  <1>4. _save_to_cache(C, key, entry)
    BY DEF key, entry
  <1>5. /\ DOMAIN cache' \in SUBSET Keys
        /\ cache' \in [DOMAIN cache' -> CachedDistanceMatrix]
        /\ IsFiniteSet(DOMAIN cache')
        /\ Cardinality(DOMAIN cache') <= MaxCacheSize
        /\ size' \in Nat /\ size' = Cardinality(DOMAIN cache')
        /\ cached' = cached + 1
        /\ key \in DOMAIN cache' /\ DOMAIN cache' \subseteq DOMAIN C \cup {key}
        /\ \A k \in DOMAIN cache' : cache'[k] = IF k = key THEN entry ELSE C[k]
        /\ \A v \in DOMAIN C \ DOMAIN cache' :
              /\ \A k \in (DOMAIN C \cap DOMAIN cache') \ {key} :
                    C[v].timestamp <= C[k].timestamp
              /\ ~is_expired(C[v]) => Full(Live(C))
    BY <1>1, <1>2, <1>3, <1>4, SaveFacts
  <1>6. KeysMatch'
    BY <1>1, <1>2, <1>5 DEF IInv, KeysMatch, PlacesOf
  <1>7. PartialOnlyParallel'
    BY <1>2, <1>5 DEF IInv, PartialOnlyParallel
  <1>8. CacheBounded' /\ SizeNotUnderReported'
    <2>1. Cardinality(DOMAIN cache') <= size'
      BY <1>5
    <2> QED
      BY <2>1, <1>5 DEF CacheBounded, SizeNotUnderReported
  <1>9. CacheInv'
    BY <1>5, <1>6, <1>7, <1>8 DEF CacheInv
  <1> QED
    BY <1>5, <1>9 DEF key, entry

\* So does removing matrices, as long as the reported size is large enough.
LEMMA RemovePreserves ==
    ASSUME IInv, NEW K \in SUBSET DOMAIN cache, cache' = Only(cache, K),
           size' \in Nat, Cardinality(K) <= size'
    PROVE  CacheInv'
  <1>1. /\ DOMAIN cache' = K
        /\ cache' \in [K -> CachedDistanceMatrix]
        /\ \A k \in K : cache'[k] = cache[k]
        /\ IsFiniteSet(K)
        /\ Cardinality(K) <= MaxCacheSize
    BY OnlyFacts
  <1>2. KeysMatch' /\ PartialOnlyParallel'
    BY <1>1 DEF IInv, KeysMatch, PartialOnlyParallel, PlacesOf
  <1>3. CacheBounded' /\ SizeNotUnderReported'
    BY <1>1 DEF CacheBounded, SizeNotUnderReported
  <1>4. DOMAIN cache' \in SUBSET Keys
    BY <1>1 DEF IInv, TypeOK
  <1> QED
    BY <1>1, <1>2, <1>3, <1>4 DEF CacheInv

\* A lookup that removes an expired matrix reports a size that is large enough.
LEMMA LookupSize ==
    ASSUME IInv, NEW key
    PROVE  /\ SizeAfterLookup(key) \in Nat
           /\ Cardinality(DOMAIN cache \ {key}) <= SizeAfterLookup(key)
  <1>1. Cardinality(DOMAIN cache \ {key}) \in Nat
    BY OnlyFacts
  <1>2. CASE key \in DOMAIN cache
    BY <1>1, <1>2 DEF SizeAfterLookup
  <1>3. CASE key \notin DOMAIN cache
    <2>1. DOMAIN cache \ {key} = DOMAIN cache
      BY <1>3
    <2> QED
      BY <1>3, <2>1 DEF SizeAfterLookup, IInv, TypeOK, SizeNotUnderReported
  <1> QED
    BY <1>2, <1>3

\* The calls and the counters: what is left to show once CacheInv is known.
CallInv ==
    /\ {hits, misses, cached, now} \subseteq Nat
    /\ has_osrm \in BOOLEAN
    /\ pc \in [Calls -> {"idle", "calculating", "returned", "raised"}]
    /\ asked \in [Calls -> PlaceLists \cup {<<>>}]
    /\ answer \in [Calls -> PlaceLists \cup {<<>>}]
    /\ WaitingIsParallel /\ MissesAccounted /\ AnswersSamePlaces

LEMMA IInvParts ==
    /\ IInv <=> CacheInv /\ CallInv
    /\ IInv' <=> CacheInv' /\ CallInv'
  BY DEF IInv, TypeOK, CacheInv, CallInv

-----------------------------------------------------------------------------
\* The cache is empty at first and nobody waits.
LEMMA InitIInv == Init => IInv
  <1> SUFFICES ASSUME Init PROVE IInv
    OBVIOUS
  <1>1. DOMAIN cache = {} /\ cache \in [DOMAIN cache -> CachedDistanceMatrix]
    BY DEF Init
  <1>2. IsFiniteSet(DOMAIN cache) /\ Cardinality(DOMAIN cache) = 0
    BY <1>1, FS_EmptySet
  <1>3. CacheInv
    BY <1>1, <1>2 DEF Init, CacheInv, KeysMatch, CacheBounded, SizeNotUnderReported,
                      PartialOnlyParallel
  <1>4. Waiting = {}
    BY DEF Init, Waiting
  <1>5. Cardinality(Waiting) = 0
    BY <1>4, FS_EmptySet
  <1>6. MissesAccounted /\ WaitingIsParallel
    BY <1>4, <1>5 DEF Init, MissesAccounted, WaitingIsParallel, Waiting
  <1>7. CallInv
    BY <1>6 DEF Init, CallInv, AnswersSamePlaces
  <1> QED
    BY <1>3, <1>7, IInvParts

\* Misses keep up with what is cached when they grow by at least as much.
LEMMA CountStep ==
    ASSUME NEW n \in Nat, NEW m \in Nat, NEW n2 \in Nat, NEW m2 \in Nat, NEW w \in Nat,
           n + w <= m, n2 + m <= n + m2
    PROVE  n2 + w <= m2
  OBVIOUS

\* A call that does not wait asks and is answered, or fails, in one step.
LEMMA AnsweredAtOnce ==
    ASSUME IInv, NEW c \in Calls, c \notin Waiting,
           NEW l \in PlaceLists, NEW a \in PlaceLists \cup {<<>>},
           NEW q \in {"returned", "raised"},
           q = "returned" => PlacesOf(a) = PlacesOf(l),
           asked' = [asked EXCEPT ![c] = l],
           pc' = [pc EXCEPT ![c] = q],
           answer' = [answer EXCEPT ![c] = a],
           hits' \in Nat, misses' \in Nat, cached' \in Nat,
           cached' + misses <= cached + misses',
           UNCHANGED <<has_osrm, now>>
    PROVE  CallInv'
  <1> USE DEF CallInv
  <1>1. CallInv
    BY IInvParts
  <1>2. Waiting' = Waiting /\ \A d \in Waiting : asked'[d] = asked[d]
    BY <1>1 DEF Waiting
  <1>3. WaitingIsParallel'
    BY <1>1, <1>2 DEF WaitingIsParallel
  <1>4. MissesAccounted'
    <2>1. Cardinality(Waiting) \in Nat
      BY WaitingCount DEF IInv
    <2>2. cached + Cardinality(Waiting) <= misses
      BY <1>1 DEF MissesAccounted, Waiting
    <2>3. cached \in Nat /\ misses \in Nat
      BY <1>1
    <2>4. cached' + Cardinality(Waiting) <= misses'
      BY <2>1, <2>2, <2>3, CountStep
    <2> QED
      BY <2>4, <1>2 DEF MissesAccounted, Waiting
  <1>5. AnswersSamePlaces'
    <2> SUFFICES ASSUME NEW d \in Calls, pc'[d] = "returned"
                 PROVE  PlacesOf(answer'[d]) = PlacesOf(asked'[d])
      BY DEF AnswersSamePlaces, PlacesOf
    <2>1. CASE d = c
      <3>1. answer'[d] = a /\ asked'[d] = l /\ pc'[d] = q
        BY <2>1, <1>1
      <3> QED
        BY <3>1
    <2>2. CASE d # c
      <3>1. answer'[d] = answer[d] /\ asked'[d] = asked[d] /\ pc[d] = "returned"
        BY <2>2, <1>1
      <3> QED
        BY <3>1, <1>1 DEF AnswersSamePlaces
    <2> QED
      BY <2>1, <2>2
  <1>6. /\ pc' \in [Calls -> {"idle", "calculating", "returned", "raised"}]
        /\ asked' \in [Calls -> PlaceLists \cup {<<>>}]
        /\ answer' \in [Calls -> PlaceLists \cup {<<>>}]
    BY <1>1
  <1> QED
    BY <1>1, <1>3, <1>4, <1>5, <1>6

\* Before a lookup, with the expired matrix gone.
LEMMA AskFacts ==
    ASSUME IInv, NEW c \in Calls, NEW l \in PlaceLists, Ask(c, l)
    PROVE  /\ c \notin Waiting
           /\ asked' = [asked EXCEPT ![c] = l]
           /\ UNCHANGED <<has_osrm, now>>
           /\ hits \in Nat /\ misses \in Nat /\ cached \in Nat
  BY DEF Ask, Waiting, IInv, TypeOK

LEMMA HitIInv ==
    ASSUME IInv, NEW c \in Calls, NEW l \in PlaceLists, Hit(c, l)
    PROVE  IInv'
  <1> DEFINE key == _generate_places_hash(l)
  <1>1. /\ key = PlacesOf(l) /\ key \in DOMAIN cache
        /\ Ask(c, l) /\ hits' = hits + 1
        /\ Return(c, cache[key].matrix)
        /\ UNCHANGED <<cache, size, misses, cached>>
    BY DEF Hit, Found, _generate_places_hash
  <1>2. /\ cache[key].matrix \in PlaceLists
        /\ PlacesOf(cache[key].matrix) = PlacesOf(l)
    <2> HIDE DEF key
    <2>1. cache[key] \in CachedDistanceMatrix
      BY <1>1 DEF IInv, TypeOK
    <2>2. PlacesOf(cache[key].matrix) = key
      BY <1>1 DEF IInv, KeysMatch
    <2> QED
      BY <1>1, <2>1, <2>2 DEF CachedDistanceMatrix
  <1>3. CacheInv'
    BY <1>1, IInvParts DEF CacheInv, KeysMatch, CacheBounded, SizeNotUnderReported,
                           PartialOnlyParallel
  <1>4. CallInv'
    <2> DEFINE a == cache[key].matrix
    <2>1. /\ pc' = [pc EXCEPT ![c] = "returned"]
          /\ answer' = [answer EXCEPT ![c] = a]
      BY <1>1 DEF Return
    <2>2. a \in PlaceLists \cup {<<>>} /\ PlacesOf(a) = PlacesOf(l)
      BY <1>2
    <2> HIDE DEF a, key
    <2>3. /\ c \notin Waiting
          /\ asked' = [asked EXCEPT ![c] = l]
          /\ UNCHANGED <<has_osrm, now>>
          /\ hits \in Nat /\ misses \in Nat /\ cached \in Nat
      BY <1>1, AskFacts
    <2>4. /\ hits' \in Nat /\ misses' \in Nat /\ cached' \in Nat
          /\ cached' + misses <= cached + misses'
      BY <1>1, <2>3
    <2> QED
      BY <2>1, <2>2, <2>3, <2>4, AnsweredAtOnce
  <1> QED
    BY <1>3, <1>4, IInvParts

\* The cache after a lookup that found nothing, and the counters.
LEMMA MissedFacts ==
    ASSUME IInv, NEW c \in Calls, NEW l \in PlaceLists, Missed(c, l)
    PROVE  /\ Ask(c, l)
           /\ hits' \in Nat /\ misses' \in Nat /\ misses' = misses + 1
           /\ \A key : /\ DOMAIN AfterLookup(key) = DOMAIN cache \ {key}
                       /\ AfterLookup(key) \in [DOMAIN AfterLookup(key) -> CachedDistanceMatrix]
                       /\ \A k \in DOMAIN AfterLookup(key) : AfterLookup(key)[k] = cache[k]
  <1>1. Ask(c, l) /\ hits' \in Nat /\ misses' \in Nat /\ misses' = misses + 1
    BY DEF Missed, IInv, TypeOK
  <1>2. ASSUME NEW key
        PROVE  /\ DOMAIN AfterLookup(key) = DOMAIN cache \ {key}
               /\ AfterLookup(key) \in [DOMAIN AfterLookup(key) -> CachedDistanceMatrix]
               /\ \A k \in DOMAIN AfterLookup(key) : AfterLookup(key)[k] = cache[k]
    BY OnlyFacts DEF AfterLookup
  <1> QED
    BY <1>1, <1>2

LEMMA MissInlineIInv ==
    ASSUME IInv, NEW c \in Calls, NEW l \in PlaceLists, NEW p,
           MissInline(c, l, p)
    PROVE  IInv'
  <1> DEFINE key == _generate_places_hash(l)
             C == AfterLookup(key)
  <1>1. /\ Missed(c, l) /\ Return(c, l)
        /\ _save_to_cache(C, key, Matrix(l, Source(l, p), FALSE))
    BY DEF MissInline
  <1>2. /\ Ask(c, l)
        /\ hits' \in Nat /\ misses' \in Nat /\ misses' = misses + 1
        /\ DOMAIN C = DOMAIN cache \ {key}
        /\ C \in [DOMAIN C -> CachedDistanceMatrix]
        /\ \A k \in DOMAIN C : C[k] = cache[k]
    BY <1>1, MissedFacts
  <1>3. CacheInv' /\ cached' = cached + 1
    <2> HIDE DEF C
    <2>1. Source(l, p) \in {"osrm", "geodesic"}
      BY SourceType
    <2> QED
      BY <1>1, <1>2, <2>1, SavePreserves
  <1>4. CallInv'
    <2>1. /\ pc' = [pc EXCEPT ![c] = "returned"]
          /\ answer' = [answer EXCEPT ![c] = l]
      BY <1>1 DEF Return
    <2>2. /\ c \notin Waiting
          /\ asked' = [asked EXCEPT ![c] = l]
          /\ UNCHANGED <<has_osrm, now>>
          /\ hits \in Nat /\ misses \in Nat /\ cached \in Nat
      BY <1>2, AskFacts
    <2>3. cached' \in Nat /\ cached' + misses <= cached + misses'
      BY <1>2, <1>3, <2>2
    <2> QED
      BY <2>1, <2>2, <2>3, <1>2, AnsweredAtOnce
  <1> QED
    BY <1>3, <1>4, IInvParts

LEMMA MissRaisesIInv ==
    ASSUME IInv, NEW c \in Calls, NEW l \in PlaceLists, NEW p,
           MissRaises(c, l, p)
    PROVE  IInv'
  <1> DEFINE key == _generate_places_hash(l)
  <1>1. /\ Missed(c, l)
        /\ cache' = Only(cache, DOMAIN cache \ {key})
        /\ size' = SizeAfterLookup(key)
        /\ pc' = [pc EXCEPT ![c] = "raised"]
        /\ UNCHANGED <<cached, answer>>
    BY DEF MissRaises, AfterLookup
  <1>2. /\ Ask(c, l)
        /\ hits' \in Nat /\ misses' \in Nat /\ misses' = misses + 1
    BY <1>1, MissedFacts
  <1>3. CacheInv'
    <2> HIDE DEF key
    <2>1. size' \in Nat /\ Cardinality(DOMAIN cache \ {key}) <= size'
      BY <1>1, LookupSize
    <2>2. DOMAIN cache \ {key} \in SUBSET DOMAIN cache
      OBVIOUS
    <2> QED
      BY <1>1, <2>1, <2>2, RemovePreserves
  <1>4. CallInv'
    <2>1. /\ c \notin Waiting
          /\ asked' = [asked EXCEPT ![c] = l]
          /\ UNCHANGED <<has_osrm, now>>
          /\ hits \in Nat /\ misses \in Nat /\ cached \in Nat
      BY <1>2, AskFacts
    <2>2. answer' = [answer EXCEPT ![c] = answer[c]] /\ answer[c] \in PlaceLists \cup {<<>>}
      BY <1>1 DEF IInv, TypeOK
    <2>3. cached' \in Nat /\ cached' + misses <= cached + misses'
      BY <1>1, <1>2, <2>1
    <2> QED
      BY <1>1, <1>2, <2>1, <2>2, <2>3, AnsweredAtOnce
  <1> QED
    BY <1>3, <1>4, IInvParts

LEMMA MissSuspendsIInv ==
    ASSUME IInv, NEW c \in Calls, NEW l \in PlaceLists, NEW p,
           MissSuspends(c, l, p)
    PROVE  IInv'
  <1> DEFINE key == _generate_places_hash(l)
  <1>1. /\ Missed(c, l) /\ InParallel(l, p)
        /\ cache' = Only(cache, DOMAIN cache \ {key})
        /\ size' = SizeAfterLookup(key)
        /\ pc' = [pc EXCEPT ![c] = "calculating"]
        /\ UNCHANGED <<cached, answer>>
    BY DEF MissSuspends, AfterLookup
  <1>2. /\ Ask(c, l)
        /\ hits' \in Nat /\ misses' \in Nat /\ misses' = misses + 1
    BY <1>1, MissedFacts
  <1>3. CacheInv'
    <2> HIDE DEF key
    <2>1. size' \in Nat /\ Cardinality(DOMAIN cache \ {key}) <= size'
      BY <1>1, LookupSize
    <2>2. DOMAIN cache \ {key} \in SUBSET DOMAIN cache
      OBVIOUS
    <2> QED
      BY <1>1, <2>1, <2>2, RemovePreserves
  <1>4. /\ c \notin Waiting
        /\ asked' = [asked EXCEPT ![c] = l]
        /\ UNCHANGED <<has_osrm, now>>
        /\ hits \in Nat /\ misses \in Nat /\ cached \in Nat
    BY <1>2, AskFacts
  <1>5. CallInv
    BY IInvParts
  <1>6. Waiting' = Waiting \cup {c}
    BY <1>1, <1>5 DEF Waiting, CallInv
  <1>7. MissesAccounted'
    <2>1. Cardinality(Waiting) \in Nat /\ Cardinality(Waiting \cup {c}) = Cardinality(Waiting) + 1
      BY <1>4, WaitingCount DEF IInv
    <2>2. cached + Cardinality(Waiting) <= misses
      BY DEF IInv, MissesAccounted, Waiting
    <2>3. cached' + Cardinality(Waiting') <= misses'
      BY <1>1, <1>2, <1>4, <1>6, <2>1, <2>2
    <2> QED
      BY <2>3 DEF MissesAccounted, Waiting
  <1>8. WaitingIsParallel'
    <2>1. Len(l) > ManyPlaces /\ Parallel
      BY <1>1 DEF InParallel
    <2>2. asked'[c] = l /\ \A d \in Waiting : asked'[d] = asked[d]
      BY <1>4, <1>5 DEF CallInv, Waiting
    <2> QED
      BY <1>5, <1>6, <2>1, <2>2 DEF CallInv, WaitingIsParallel
  <1>9. AnswersSamePlaces'
    <2> SUFFICES ASSUME NEW d \in Calls, pc'[d] = "returned"
                 PROVE  PlacesOf(answer'[d]) = PlacesOf(asked'[d])
      BY DEF AnswersSamePlaces, PlacesOf
    <2>1. d # c /\ pc[d] = "returned"
      BY <1>1, <1>5 DEF CallInv
    <2>2. answer'[d] = answer[d] /\ asked'[d] = asked[d]
      BY <2>1, <1>1, <1>4, <1>5 DEF CallInv
    <2> QED
      BY <2>1, <2>2, <1>5 DEF CallInv, AnswersSamePlaces
  <1>10. CallInv'
    BY <1>1, <1>2, <1>4, <1>5, <1>7, <1>8, <1>9 DEF CallInv
  <1> QED
    BY <1>3, <1>10, IInvParts

LEMMA ParallelDoneIInv ==
    ASSUME IInv, NEW c \in Calls, ParallelDone(c)
    PROVE  IInv'
  <1>1. CallInv
    BY IInvParts
  <1> DEFINE l == asked[c]
  <1>2. /\ c \in Waiting
        /\ _save_to_cache(cache, _generate_places_hash(l), Matrix(l, "osrm", Refused(l)))
        /\ pc' = [pc EXCEPT ![c] = "returned"]
        /\ answer' = [answer EXCEPT ![c] = l]
        /\ UNCHANGED <<hits, misses, has_osrm, now, asked>>
    BY DEF ParallelDone, Return, Waiting
  <1>3. l \in PlaceLists /\ Len(l) > ManyPlaces /\ Parallel
    BY <1>1, <1>2 DEF CallInv, WaitingIsParallel
  <1>4. CacheInv' /\ cached' = cached + 1
    <2> HIDE DEF l
    <2>1. Refused(l) \in BOOLEAN
      BY DEF Refused
    <2>2. cache \in [DOMAIN cache -> CachedDistanceMatrix]
      BY DEF IInv, TypeOK
    <2> QED
      BY <1>2, <1>3, <2>1, <2>2, SavePreserves
  <1>5. Waiting' = Waiting \ {c}
    BY <1>1, <1>2 DEF Waiting, CallInv
  <1>6. MissesAccounted'
    <2>1. Cardinality(Waiting) \in Nat /\ Cardinality(Waiting \ {c}) = Cardinality(Waiting) - 1
      BY <1>2, WaitingCount DEF IInv
    <2>2. cached + Cardinality(Waiting) <= misses
      BY DEF IInv, MissesAccounted, Waiting
    <2>3. cached \in Nat /\ misses \in Nat
      BY <1>1 DEF CallInv
    <2>4. cached' + Cardinality(Waiting') <= misses'
      BY <1>2, <1>4, <1>5, <2>1, <2>2, <2>3
    <2> QED
      BY <2>4 DEF MissesAccounted, Waiting
  <1>7. WaitingIsParallel'
    BY <1>1, <1>2, <1>5 DEF CallInv, WaitingIsParallel
  <1>8. AnswersSamePlaces'
    <2> SUFFICES ASSUME NEW d \in Calls, pc'[d] = "returned"
                 PROVE  PlacesOf(answer'[d]) = PlacesOf(asked'[d])
      BY DEF AnswersSamePlaces, PlacesOf
    <2>1. CASE d = c
      <3>1. answer'[d] = asked[c] /\ asked'[d] = asked[c]
        BY <2>1, <1>1, <1>2 DEF CallInv
      <3> QED
        BY <3>1
    <2>2. CASE d # c
      <3>1. answer'[d] = answer[d] /\ asked'[d] = asked[d] /\ pc[d] = "returned"
        BY <2>2, <1>1, <1>2 DEF CallInv
      <3> QED
        BY <3>1, <1>1 DEF CallInv, AnswersSamePlaces
    <2> QED
      BY <2>1, <2>2
  <1>9. CallInv'
    <2>1. cached' \in Nat
      BY <1>1, <1>4 DEF CallInv
    <2> QED
      BY <1>1, <1>2, <1>3, <1>6, <1>7, <1>8, <2>1 DEF CallInv
  <1> QED
    BY <1>4, <1>9, IInvParts

\* A step that leaves the calls and the counters alone.
LEMMA CallsUnchanged ==
    ASSUME IInv, now' \in Nat,
           UNCHANGED <<hits, misses, cached, has_osrm, pc, asked, answer>>
    PROVE  CallInv'
  <1>1. CallInv
    BY IInvParts
  <1> QED
    BY <1>1 DEF CallInv, WaitingIsParallel, Waiting, MissesAccounted, AnswersSamePlaces

LEMMA InvalidateIInv ==
    ASSUME IInv, NEW key \in Keys, invalidate_cache(key)
    PROVE  IInv'
  <1>1. /\ cache' = Only(cache, DOMAIN cache \ {key}) /\ size' = size
        /\ UNCHANGED <<hits, misses, cached, has_osrm, now, pc, asked, answer>>
    BY DEF invalidate_cache
  <1>2. /\ Cardinality(DOMAIN cache \ {key}) \in Nat
        /\ Cardinality(DOMAIN cache \ {key}) <= Cardinality(DOMAIN cache)
        /\ Cardinality(DOMAIN cache) \in Nat
    BY OnlyFacts
  <1>3. size' \in Nat /\ Cardinality(DOMAIN cache \ {key}) <= size'
    BY <1>1, <1>2 DEF IInv, TypeOK, SizeNotUnderReported
  <1>4. CacheInv'
    BY <1>1, <1>3, RemovePreserves
  <1>5. CallInv'
    BY <1>1, CallsUnchanged DEF IInv, TypeOK
  <1> QED
    BY <1>4, <1>5, IInvParts

LEMMA InvalidateAllIInv ==
    ASSUME IInv, invalidate_all
    PROVE  IInv'
  <1>1. /\ cache' = Only(cache, {}) /\ size' = 0
        /\ UNCHANGED <<hits, misses, cached, has_osrm, now, pc, asked, answer>>
    BY DEF invalidate_all
  <1>2. Cardinality({}) = 0
    BY FS_EmptySet
  <1>3. size' \in Nat /\ Cardinality({}) <= size'
    BY <1>1, <1>2
  <1>4. CacheInv'
    BY <1>1, <1>3, RemovePreserves
  <1>5. CallInv'
    BY <1>1, CallsUnchanged DEF IInv, TypeOK
  <1> QED
    BY <1>4, <1>5, IInvParts

LEMMA CacheUnchangedIInv ==
    ASSUME IInv, now' \in Nat,
           UNCHANGED <<cache, size, hits, misses, cached, has_osrm, pc, asked, answer>>
    PROVE  IInv'
  <1>1. CacheInv'
    BY IInvParts DEF CacheInv, KeysMatch, CacheBounded, SizeNotUnderReported,
                     PartialOnlyParallel
  <1>2. CallInv'
    BY CallsUnchanged
  <1> QED
    BY <1>1, <1>2, IInvParts

\* One step keeps the invariant.
LEMMA NextIInv == IInv /\ [Next]_vars => IInv'
  <1> SUFFICES ASSUME IInv, [Next]_vars PROVE IInv'
    OBVIOUS
  <1>1. ASSUME NEW c \in Calls, get_distance_matrix(c) PROVE IInv'
    <2>1. PICK l \in PlaceLists :
             \/ Hit(c, l)
             \/ \E p \in Preferences : \/ MissInline(c, l, p)
                                       \/ MissRaises(c, l, p)
                                       \/ MissSuspends(c, l, p)
      BY <1>1 DEF get_distance_matrix
    <2> QED
      BY <2>1, HitIInv, MissInlineIInv, MissRaisesIInv, MissSuspendsIInv
  <1>2. ASSUME NEW c \in Calls, ParallelDone(c) PROVE IInv'
    BY <1>2, ParallelDoneIInv
  <1>3. ASSUME NEW key \in Keys, invalidate_cache(key) PROVE IInv'
    BY <1>3, InvalidateIInv
  <1>4. CASE invalidate_all
    BY <1>4, InvalidateAllIInv
  <1>5. CASE Tick
    BY <1>5, CacheUnchangedIInv DEF Tick, IInv, TypeOK
  <1>6. CASE UNCHANGED vars
    BY <1>6, CacheUnchangedIInv DEF vars, IInv, TypeOK
  <1> QED
    BY <1>1, <1>2, <1>3, <1>4, <1>5, <1>6 DEF Next

LEMMA Invariance == Spec => []IInv
  BY InitIInv, NextIInv, PTL DEF Spec

-----------------------------------------------------------------------------
\* For every set of calls, lists and bounds the variables keep their types.
THEOREM TypeCorrect == Spec => []TypeOK
  BY Invariance, PTL DEF IInv

\* The cache never outgrows max_cache_size, however many calls save into it.
THEOREM Bounded == Spec => []CacheBounded
  BY Invariance, PTL DEF IInv

\* get_cache_stats never reports fewer matrices than the cache holds.
THEOREM SizeReported == Spec => []SizeNotUnderReported
  BY Invariance, PTL DEF IInv

\* Every matrix that was saved or is being calculated had a miss of its own.
THEOREM MissesCounted == Spec => []MissesAccounted
  BY Invariance, PTL DEF IInv

\* get_distance_matrix answers about the places it was asked for.
THEOREM SamePlaces == Spec => []AnswersSamePlaces
  BY Invariance, PTL DEF IInv

\* Only _calculate_osrm_parallel makes matrices with missing distances.
THEOREM PartialMatrices == Spec => []PartialOnlyParallel
  BY Invariance, PTL DEF IInv

-----------------------------------------------------------------------------
\* What a step that saves a matrix does, in one shape for both kinds: it works
\* on the cache without the entry of its own key, if that had expired.
SaveStep(key) ==
    /\ key \in DOMAIN cache'
    /\ DOMAIN cache' \subseteq DOMAIN cache \cup {key}
    /\ cache'[key].timestamp = now
    /\ \A k \in DOMAIN cache' \ {key} : cache'[k] = cache[k]
    /\ \A v \in DOMAIN cache \ DOMAIN cache' :
          /\ \A k \in (DOMAIN cache \cap DOMAIN cache') \ {key} :
                cache[v].timestamp <= cache[k].timestamp
          /\ ~is_expired(cache[v]) => Full(Live(cache))
    /\ now' = now

LEMMA InlineSaves ==
    ASSUME IInv, NEW c \in Calls, NEW l \in PlaceLists, NEW p, MissInline(c, l, p)
    PROVE  SaveStep(_generate_places_hash(l))
  <1> DEFINE key == _generate_places_hash(l)
             C == AfterLookup(key)
             s == Source(l, p)
  <1>1. /\ Missed(c, l)
        /\ _save_to_cache(C, key, Matrix(l, s, FALSE))
    BY DEF MissInline
  <1>2. /\ DOMAIN C = DOMAIN cache \ {key}
        /\ C \in [DOMAIN C -> CachedDistanceMatrix]
        /\ \A k \in DOMAIN C : C[k] = cache[k]
    BY <1>1, MissedFacts
  <1>3. now' = now /\ (key \in DOMAIN cache => is_expired(cache[key]))
    BY <1>1 DEF Missed, Ask, Found
  <1>4. s \in {"osrm", "geodesic"}
    BY SourceType
  <1> HIDE DEF C, s
  <1>5. /\ key \in DOMAIN cache'
        /\ DOMAIN cache' \subseteq DOMAIN C \cup {key}
        /\ \A k \in DOMAIN cache' :
              cache'[k] = IF k = key THEN Matrix(l, s, FALSE) ELSE cache[k]
        /\ \A v \in DOMAIN C \ DOMAIN cache' :
              /\ \A k \in (DOMAIN C \cap DOMAIN cache') \ {key} :
                    C[v].timestamp <= C[k].timestamp
              /\ ~is_expired(C[v]) => Full(Live(C))
    BY <1>1, <1>2, <1>4, SavePreserves
  <1> HIDE DEF key
  <1>6. Matrix(l, s, FALSE).timestamp = now
    BY DEF Matrix
  <1>7. Live(C) = Live(cache)
    BY <1>2, <1>3 DEF Live, is_expired
  <1>8. \A v \in DOMAIN cache \ DOMAIN cache' :
           /\ \A k \in (DOMAIN cache \cap DOMAIN cache') \ {key} :
                 cache[v].timestamp <= cache[k].timestamp
           /\ ~is_expired(cache[v]) => Full(Live(cache))
    BY <1>2, <1>5, <1>7 DEF is_expired
  <1>9. SaveStep(key)
    BY <1>2, <1>3, <1>5, <1>6, <1>8 DEF SaveStep
  <1> QED
    BY <1>9 DEF key

LEMMA ParallelSaves ==
    ASSUME IInv, NEW c \in Calls, ParallelDone(c)
    PROVE  SaveStep(_generate_places_hash(asked[c]))
  <1> DEFINE l == asked[c]
             p == Refused(l)
  <1>1. /\ _save_to_cache(cache, _generate_places_hash(l), Matrix(l, "osrm", p))
        /\ now' = now
    BY DEF ParallelDone
  <1>2. /\ l \in PlaceLists /\ Len(l) > ManyPlaces /\ Parallel
        /\ p \in BOOLEAN
        /\ cache \in [DOMAIN cache -> CachedDistanceMatrix]
    BY DEF IInv, TypeOK, WaitingIsParallel, Waiting, ParallelDone, Refused
  <1>3. Matrix(l, "osrm", p).timestamp = now
    BY DEF Matrix
  <1> HIDE DEF l, p
  <1> DEFINE key == _generate_places_hash(l)
  <1>4. /\ key \in DOMAIN cache'
        /\ DOMAIN cache' \subseteq DOMAIN cache \cup {key}
        /\ \A k \in DOMAIN cache' :
              cache'[k] = IF k = key THEN Matrix(l, "osrm", p) ELSE cache[k]
        /\ \A v \in DOMAIN cache \ DOMAIN cache' :
              /\ \A k \in (DOMAIN cache \cap DOMAIN cache') \ {key} :
                    cache[v].timestamp <= cache[k].timestamp
              /\ ~is_expired(cache[v]) => Full(Live(cache))
    BY <1>1, <1>2, SavePreserves
  <1> HIDE DEF key
  <1>5. SaveStep(key)
    BY <1>1, <1>3, <1>4 DEF SaveStep
  <1> QED
    BY <1>5 DEF key, l

\* Every step saves a matrix, or leaves `cached` alone and only removes.
LEMMA StepShape ==
    ASSUME IInv, [Next]_vars
    PROVE  \/ \E key \in Keys : SaveStep(key)
           \/ /\ cached' = cached
              /\ now' \in Nat /\ now <= now'
              /\ DOMAIN cache' \subseteq DOMAIN cache
              /\ \A k \in DOMAIN cache' : cache'[k] = cache[k]
  <1> DEFINE OnlyRemoves == /\ cached' = cached
                            /\ now' \in Nat /\ now <= now'
                            /\ DOMAIN cache' \subseteq DOMAIN cache
                            /\ \A k \in DOMAIN cache' : cache'[k] = cache[k]
  <1>1. now \in Nat
    BY DEF IInv, TypeOK
  <1>2. ASSUME NEW c \in Calls, get_distance_matrix(c)
        PROVE  OnlyRemoves \/ \E key \in Keys : SaveStep(key)
    <2>1. PICK l \in PlaceLists :
             \/ Hit(c, l)
             \/ \E p \in Preferences : \/ MissInline(c, l, p)
                                       \/ MissRaises(c, l, p)
                                       \/ MissSuspends(c, l, p)
      BY <1>2 DEF get_distance_matrix
    <2>2. CASE Hit(c, l)
      BY <2>2, <1>1 DEF Hit, Ask
    <2>3. CASE \E p \in Preferences : MissInline(c, l, p)
      <3>1. SaveStep(_generate_places_hash(l))
        BY <2>3, InlineSaves
      <3> QED
        BY <3>1, ListTypes
    <2>4. CASE \E p \in Preferences : MissRaises(c, l, p) \/ MissSuspends(c, l, p)
      <3>1. cached' = cached /\ now' = now
        BY <2>4 DEF MissRaises, MissSuspends, Missed, Ask
      <3>2. cache' = Only(cache, DOMAIN cache \ {_generate_places_hash(l)})
        BY <2>4 DEF MissRaises, MissSuspends, AfterLookup
      <3> QED
        BY <3>1, <3>2, <1>1 DEF Only
    <2> QED
      BY <2>1, <2>2, <2>3, <2>4
  <1>3. ASSUME NEW c \in Calls, ParallelDone(c)
        PROVE  \E key \in Keys : SaveStep(key)
    <2>1. asked[c] \in PlaceLists
      BY <1>3 DEF IInv, WaitingIsParallel, Waiting, ParallelDone
    <2> QED
      BY <1>3, <2>1, ParallelSaves, ListTypes
  <1>4. ASSUME NEW key \in Keys, invalidate_cache(key) PROVE OnlyRemoves
    BY <1>4, <1>1 DEF invalidate_cache, Only
  <1>5. CASE invalidate_all
    BY <1>5, <1>1 DEF invalidate_all, Only
  <1>6. CASE Tick
    BY <1>6, <1>1 DEF Tick
  <1>7. CASE UNCHANGED vars
    BY <1>7, <1>1 DEF vars
  <1> QED
    BY <1>2, <1>3, <1>4, <1>5, <1>6, <1>7 DEF Next

\* No matrix is younger than the clock says.
StampsPast == \A k \in DOMAIN cache : cache[k].timestamp <= now

LEMMA StampsInv == Spec => [](IInv /\ StampsPast)
  <1>1. Init => StampsPast
    BY DEF Init, StampsPast
  <1>2. IInv /\ StampsPast /\ [Next]_vars => StampsPast'
    <2> SUFFICES ASSUME IInv, StampsPast, [Next]_vars PROVE StampsPast'
      OBVIOUS
    <2>1. now \in Nat /\ \A k \in DOMAIN cache : cache[k].timestamp \in Nat
      BY DEF IInv, TypeOK, CachedDistanceMatrix
    <2>2. CASE \E key \in Keys : SaveStep(key)
      <3>1. PICK key \in Keys : SaveStep(key)
        BY <2>2
      <3>2. /\ now' = now /\ cache'[key].timestamp = now
            /\ \A k \in DOMAIN cache' \ {key} : k \in DOMAIN cache /\ cache'[k] = cache[k]
        BY <3>1 DEF SaveStep
      <3>3. ASSUME NEW k \in DOMAIN cache' PROVE cache'[k].timestamp <= now'
        <4>1. CASE k = key
          BY <4>1, <3>2, <2>1
        <4>2. CASE k # key
          BY <4>2, <3>2 DEF StampsPast
        <4> QED
          BY <4>1, <4>2
      <3> QED
        BY <3>3 DEF StampsPast
    <2>3. CASE /\ now' \in Nat /\ now <= now'
               /\ DOMAIN cache' \subseteq DOMAIN cache
               /\ \A k \in DOMAIN cache' : cache'[k] = cache[k]
      <3>1. ASSUME NEW k \in DOMAIN cache' PROVE cache'[k].timestamp <= now'
        BY <2>1, <2>3 DEF StampsPast
      <3> QED
        BY <3>1 DEF StampsPast
    <2> QED
      BY <2>2, <2>3, StepShape
  <1> QED
    BY <1>1, <1>2, Invariance, PTL DEF Spec

\* _cleanup_cache takes matrices that are still good only from a cache full of
\* them and only the oldest, also when the call that saves had to wait.
THEOREM EvictsOldest == Spec => EvictionOrder
  <1> DEFINE Oldest ==
        cached' # cached =>
          \A v \in DOMAIN cache \ DOMAIN cache' :
             /\ \A k \in DOMAIN cache \cap DOMAIN cache' :
                   cache'[k] = cache[k] => cache[v].timestamp <= cache[k].timestamp
             /\ ~is_expired(cache[v]) => Full(Live(cache))
  <1>1. IInv /\ StampsPast /\ [Next]_vars => [Oldest]_vars
    <2> SUFFICES ASSUME IInv, StampsPast, [Next]_vars, cached' # cached,
                        NEW v \in DOMAIN cache \ DOMAIN cache'
                 PROVE  /\ \A k \in DOMAIN cache \cap DOMAIN cache' :
                              cache'[k] = cache[k] => cache[v].timestamp <= cache[k].timestamp
                        /\ ~is_expired(cache[v]) => Full(Live(cache))
      OBVIOUS
    <2>1. PICK key \in Keys : SaveStep(key)
      BY StepShape
    <2>2. ASSUME NEW k \in DOMAIN cache \cap DOMAIN cache', cache'[k] = cache[k]
          PROVE  cache[v].timestamp <= cache[k].timestamp
      <3>1. CASE k = key
        <4>1. cache[k].timestamp = now
          BY <3>1, <2>1, <2>2 DEF SaveStep
        <4> QED
          BY <4>1 DEF StampsPast
      <3>2. CASE k # key
        BY <3>2, <2>1 DEF SaveStep
      <3> QED
        BY <3>1, <3>2
    <2> QED
      BY <2>1, <2>2 DEF SaveStep
  <1> QED
    BY <1>1, StampsInv, PTL DEF Spec, EvictionOrder

\* All that is checked of the matrices, the statistics and the answers.
THEOREM Safe == Spec => []MatricesSafe
  <1>1. /\ TypeOK /\ CacheBounded /\ SizeNotUnderReported /\ MissesAccounted
        /\ AnswersSamePlaces /\ PartialOnlyParallel
        => MatricesSafe
    BY DEF MatricesSafe
  <1> QED BY <1>1, TypeCorrect, Bounded, SizeReported, MissesCounted, SamePlaces,
             PartialMatrices, PTL
=============================================================================
