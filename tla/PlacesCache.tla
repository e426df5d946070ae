----------------------------- MODULE PlacesCache -----------------------------
(***************************************************************************)
(* search_nearby_real of GooglePlacesService over the GeographicCache-     *)
(* Manager: searches that are answered from an entry of another search, or *)
(* by one Google call per type with an await each, and a directory of      *)
(* files that outlives the process.                                        *)
(*                                                                         *)
(* The map is a line; a place has a position, its types, the main one, and *)
(* whether it passes the checks of rating, reviews and chains. Which of    *)
(* several results are kept (by rating, distance and a seed) is left open. *)
(***************************************************************************)
EXTENDS Integers, FiniteSets, FiniteSetsExt

CONSTANTS Searchers,    \* concurrent calls
          World,        \* places: [at, types, main, good]
          Searches,     \* requests: [at, radius, types, limit]
          TypeTTL,      \* ttl_by_type, in ticks, with the default for the others
          CutOff,       \* older_than_hours, in ticks
          CellSize,     \* positions that round(_, 3) makes one
          MaxWalk       \* distance_km of a valid suggestion

\* The main type of a place is one of its types (_get_main_type).
ASSUME PlacesAssumption ==
    /\ IsFiniteSet(World)
    /\ \A p \in World : p.main \in p.types
    /\ \A t \in DOMAIN TypeTTL : TypeTTL[t] \in Nat
    /\ \A q \in Searches : q.types \subseteq DOMAIN TypeTTL /\ q.limit \in Nat

VARIABLES memory_cache, \* key -> entry
          files,        \* key -> "absent", "torn" or entry
          search        \* what each searcher does

placesVars == <<memory_cache, files, search>>

Distance(a, b) == IF a < b THEN b - a ELSE a - b

_generate_cache_key(q) == [cell |-> q.at \div CellSize, radius |-> q.radius, types |-> q.types]
PlaceKeys == {_generate_cache_key(q) : q \in Searches}
NoEntry == [state |-> "absent"]
TornEntry == [state |-> "torn"]

\* Mutant of _calculate_ttl: the longest.
LongestTTL(types) == Max({TypeTTL[t] : t \in types})

_calculate_ttl(types) == Min({TypeTTL[t] : t \in types})

IsEntry(x) == x.state = "entry"

Expired(e) == e.age > _calculate_ttl(e.types)

Tick1(x, limit) == IF IsEntry(x) /\ x.age <= limit THEN [x EXCEPT !.age = @ + 1] ELSE x

-----------------------------------------------------------------------------
(* Lookups *)

\* The second condition of _is_within_radius adds nothing to the first.
_is_within_radius(q, e) == Distance(q.at, e.at) <= e.radius

\* Entries that share a type are taken for entries of the search.
Serves(q, e) ==
    /\ IsEntry(e) /\ ~Expired(e)
    /\ _is_within_radius(q, e)
    /\ q.types \cap e.types # {}

\* Mutant of _filter_cached_results: the radius of the entry is enough.
FilterByType(q, e) == {p \in e.data : p.main \in q.types}

_filter_cached_results(q, e) ==
    {p \in e.data : Distance(q.at, p.at) <= q.radius /\ p.main \in q.types}

\* A cached place keeps the distance from where it was searched first.
_is_valid_suggestion(p, from) == p.good /\ Distance(from, p.at) <= MaxWalk

AtMost(n, S) == {R \in SUBSET S : Cardinality(R) <= n}

SetSearch(c, x) == search' = [search EXCEPT ![c] = x]
AnsweredSearch(q, places, age) == [at |-> "answered", q |-> q, places |-> places, age |-> age]
Fetching(q, todo, tourist, other) ==
    [at |-> "fetching", q |-> q, todo |-> todo, tourist |-> tourist, other |-> other]

\* The first entry that serves decides: with enough places the search is
\* answered with those of them that are valid, otherwise Google is asked.
Lookup(c, q) ==
    /\ search[c].at = "idle"
    /\ \/ \E k \in PlaceKeys :
              LET e == memory_cache[k]
                  found == _filter_cached_results(q, e)
              IN  /\ Serves(q, e)
                  /\ IF found # {} /\ Cardinality(found) >= q.limit
                     THEN \E places \in AtMost(q.limit, {p \in found : _is_valid_suggestion(p, e.at)}) :
                              SetSearch(c, AnsweredSearch(q, places, e.age))
                     ELSE SetSearch(c, Fetching(q, q.types, {}, {}))
       \/ /\ \A k \in PlaceKeys : ~Serves(q, memory_cache[k])
          /\ SetSearch(c, Fetching(q, q.types, {}, {}))
    /\ UNCHANGED <<memory_cache, files>>

\* One call for one type: the answer, its tail, or nothing (an error).
_google_nearby_search(c) ==
    /\ search[c].at = "fetching"
    /\ \E t \in search[c].todo :
           LET q == search[c].q
               valid == {p \in World : /\ t \in p.types /\ Distance(q.at, p.at) <= q.radius
                                       /\ _is_valid_suggestion(p, q.at)}
           IN  \E got \in SUBSET valid :
                   SetSearch(c, [search[c] EXCEPT
                       !.todo = @ \ {t},
                       !.tourist = IF t = "tourist_attraction" THEN @ \cup got ELSE @,
                       !.other = IF t = "tourist_attraction" THEN @ ELSE @ \cup got])
    /\ UNCHANGED <<memory_cache, files>>

\* The best of a list: as many as there are, if fewer.
Best(n, S) == kSubset(IF n < Cardinality(S) THEN n ELSE Cardinality(S), S)

\* Two attractions, and others in the slots that remain. With fewer slots than
\* attractions the end of the slice is negative and drops only the last others.
final_places(q, tourist, other) ==
    UNION {LET slots == q.limit - Cardinality(T) IN
           {T \cup O : O \in Best(IF slots >= 0 THEN slots
                                  ELSE Max({0, Cardinality(other) + slots}), other)}
           : T \in Best(2, tourist)}

\* Stored in memory and, unless that fails half-way or altogether, in its file;
\* nothing is stored if nothing was found.
cache_places(q, places) ==
    IF places = {} THEN UNCHANGED <<memory_cache, files>>
    ELSE LET k == _generate_cache_key(q)
             e == [state |-> "entry", at |-> q.at, radius |-> q.radius, types |-> q.types,
                   data |-> places, age |-> 0]
         IN  /\ memory_cache' = [memory_cache EXCEPT ![k] = e]
             /\ files' \in {files} \cup {[files EXCEPT ![k] = x] : x \in {e, TornEntry}}

Finish(c) ==
    /\ search[c].at = "fetching" /\ search[c].todo = {}
    /\ \E places \in final_places(search[c].q, search[c].tourist, search[c].other) :
           /\ cache_places(search[c].q, places)
           /\ \E answer \in Best(search[c].q.limit, places) :
                  SetSearch(c, AnsweredSearch(search[c].q, answer, 0))

LeaveSearch(c) ==
    /\ search[c].at = "answered"
    /\ SetSearch(c, [at |-> "idle"])
    /\ UNCHANGED <<memory_cache, files>>

search_nearby_real(c) ==
    (\E q \in Searches : Lookup(c, q)) \/ _google_nearby_search(c) \/ Finish(c) \/ LeaveSearch(c)

-----------------------------------------------------------------------------
(* Time, clearing, restarts *)

PlacesTick ==
    LET oldest == Max({TypeTTL[t] : t \in DOMAIN TypeTTL}) IN
    /\ memory_cache' = [k \in PlaceKeys |-> Tick1(memory_cache[k], oldest)]
    /\ files' = [k \in PlaceKeys |-> Tick1(files[k], oldest)]
    /\ UNCHANGED search

\* POST /cache/clear removes the entries older than so many hours, and their
\* files unless that fails.
clear_cache_older ==
    LET old == {k \in PlaceKeys : IsEntry(memory_cache[k]) /\ memory_cache[k].age > CutOff} IN
    /\ old # {}
    /\ memory_cache' = [k \in PlaceKeys |-> IF k \in old THEN NoEntry ELSE memory_cache[k]]
    /\ \E kept \in SUBSET old :
           files' = [k \in PlaceKeys |-> IF k \in old \ kept THEN NoEntry ELSE files[k]]
    /\ UNCHANGED search

\* Whole files become entries, and _cleanup_expired takes the expired ones out.
_load_from_disk(disk) ==
    [k \in PlaceKeys |-> IF IsEntry(disk[k]) /\ ~Expired(disk[k]) THEN disk[k] ELSE NoEntry]

\* The process ends and another starts; torn and expired files are removed
\* unless that fails.
RestartPlaces ==
    /\ memory_cache' = _load_from_disk(files)
    /\ \E failed \in SUBSET {k \in PlaceKeys : ~IsEntry(files[k]) \/ Expired(files[k])} :
           files' = [k \in PlaceKeys |-> IF IsEntry(memory_cache'[k]) \/ k \in failed
                                         THEN files[k] ELSE NoEntry]
    /\ search' = [c \in Searchers |-> [at |-> "idle"]]

-----------------------------------------------------------------------------
PlacesInit ==
    /\ memory_cache = [k \in PlaceKeys |-> NoEntry]
    /\ files = [k \in PlaceKeys |-> NoEntry]
    /\ search = [c \in Searchers |-> [at |-> "idle"]]

PlacesNext ==
    \/ \E c \in Searchers : search_nearby_real(c)
    \/ PlacesTick \/ clear_cache_older \/ RestartPlaces

PlacesSpec == PlacesInit /\ [][PlacesNext]_placesVars

-----------------------------------------------------------------------------
(* Properties *)

IsAnswered(c) == search[c].at = "answered"

\* An answer made from another search's entry, possibly one of before a restart,
\* still answers this one: places within its radius, of its types, that pass
\* the quality checks, and no more of them than it asked for.
AnswersFit ==
    \A c \in Searchers :
        IsAnswered(c) =>
            /\ Cardinality(search[c].places) <= search[c].q.limit
            /\ \A p \in search[c].places :
                   /\ Distance(search[c].q.at, p.at) <= search[c].q.radius
                   /\ p.types \cap search[c].q.types # {}
                   /\ p.good

\* No place is suggested from data older than what one of its types allows:
\* neither the choice of an entry of other types, nor reloading the files of a
\* process that was stopped for long, brings stale data back.
AnswersFresh ==
    \A c \in Searchers :
        IsAnswered(c) =>
            \A p \in search[c].places : \E t \in p.types : search[c].age <= TypeTTL[t]
=============================================================================
