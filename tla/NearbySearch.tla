----------------------------- MODULE NearbySearch -----------------------------
(***************************************************************************)
(* GooglePlacesService.search_nearby over GoogleMapsClient's cached        *)
(* search_nearby_places: a memory cache with a time to live that keeps     *)
(* empty answers like any other (only None counts as a miss), in front of  *)
(* a client that turns every error into an empty answer.                   *)
(*                                                                         *)
(* An answer is how many places it has, per type at most two, and whether  *)
(* they are invented.                                                      *)
(***************************************************************************)
EXTENDS Naturals, Sequences

CONSTANTS Askers,     \* concurrent calls of search_nearby
          Around,     \* places Google knows here: types in the order of the request -> how many
          Limit,      \* limit
          GoogleTTL   \* ttl of the decorator, in ticks

VARIABLES google_up,     \* the API answers
          google_cache,  \* the entry of this search: ticks left, <<number of places>> or <<>>
          nearby         \* what each asker does

nearbyVars == <<google_up, google_cache, nearby>>

NothingCached == [left |-> 0, places |-> <<>>]
NotAsking == [at |-> "rest"]
Answer(n, synthetic) == [at |-> "answered", count |-> n, synthetic |-> synthetic]

SetNearby(a, x) == nearby' = [nearby EXCEPT ![a] = x]
Least(m, n) == IF m < n THEN m ELSE n

\* At most two places of each type, until there are enough.
search_nearby_places ==
    LET upto[i \in 0..Len(Around)] ==
            IF i = 0 THEN 0 ELSE Least(Limit, upto[i - 1] + Least(2, Around[i]))
    IN  upto[Len(Around)]

\* As many as asked for, but three at least.
_generate_synthetic_suggestions == IF Limit < 3 THEN 3 ELSE Limit

\* Places that were found are returned even if they are few; without any the
\* suggestions are invented. A second attempt would follow an exception, which
\* search_nearby_places does not let out. The docstring's "sin cache" is true of this
\* function only: the one it calls is cached.
search_nearby(n) == IF n > 0 THEN Answer(n, FALSE) ELSE Answer(_generate_synthetic_suggestions, TRUE)

\* Mutant of Get: the expiry is not looked at.
GetExpired == google_cache.places

\* An expired entry is deleted and counts as none.
Get == IF google_cache.left > 0 THEN google_cache.places ELSE <<>>

\* Until the call to Google.
AskNearby(a) ==
    /\ nearby[a].at \in {"rest", "answered"}
    /\ IF Get # <<>> THEN SetNearby(a, search_nearby(Get[1])) /\ UNCHANGED google_cache
       ELSE /\ SetNearby(a, [at |-> "google"])
            /\ google_cache' = NothingCached
    /\ UNCHANGED google_up

\* Google answers every type, or rejects some, or a call raises and nothing is
\* left; whatever there is is cached.
GoogleAnswers(a) ==
    /\ nearby[a].at = "google"
    /\ \E n \in IF google_up THEN {search_nearby_places}
                   ELSE 0..search_nearby_places :
           /\ google_cache' = [left |-> GoogleTTL, places |-> <<n>>]
           /\ SetNearby(a, search_nearby(n))
    /\ UNCHANGED google_up

GoogleTick ==
    /\ google_cache.left > 0
    /\ google_cache' = [google_cache EXCEPT !.left = @ - 1]
    /\ UNCHANGED <<google_up, nearby>>

clear_expired ==
    /\ google_cache.left = 0
    /\ google_cache' = NothingCached
    /\ UNCHANGED <<google_up, nearby>>

Outage == google_up' = ~google_up /\ UNCHANGED <<google_cache, nearby>>

NearbyInit ==
    /\ google_up \in BOOLEAN
    /\ google_cache = NothingCached
    /\ nearby = [a \in Askers |-> NotAsking]

Search(a) == AskNearby(a) \/ GoogleAnswers(a)

NearbyNext ==
    \/ \E a \in Askers : Search(a)
    \/ GoogleTick \/ clear_expired \/ Outage

\* Calls of the API end and people keep asking; time passes.
NearbyFairness == WF_nearbyVars(GoogleTick) /\ \A a \in Askers : WF_nearbyVars(Search(a))

NearbySpec == NearbyInit /\ [][NearbyNext]_nearbyVars /\ NearbyFairness

-----------------------------------------------------------------------------
(* Properties *)

\* Google's failures are cached as answers without places, for a whole time to live
\* and although search_nearby promises fresh suggestions always, and a call that began
\* in the outage may store one after it. Once Google stays up, and people keep asking,
\* every answer is one of real places in the end.
OutageForgotten ==
    <>[]google_up => <>[](\A a \in Askers : nearby[a].at = "answered" => ~nearby[a].synthetic)
=============================================================================
