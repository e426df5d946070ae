--------------------------- MODULE DecisionEngine ---------------------------
(***************************************************************************)
(* ORToolsDecisionEngine as get_decision_engine shares it: requests ask    *)
(* whether to use OR-Tools, decisions are cached by a key that leaves out  *)
(* where the places are, and the answer of the health check is cached      *)
(* below that. A request is suspended only in that health check.           *)
(*                                                                         *)
(* A request is the data the engine looks at. Confidence is in hundredths, *)
(* complexity in tenths. Clocks are ages that stop at their time to live.  *)
(* The hybrid optimizer makes an engine of its own for every request and   *)
(* names no user; callers of the shared one say who asks, or do not.       *)
(***************************************************************************)
EXTENDS Naturals, FiniteSets

CONSTANTS Requests,       \* records of places, days, spread_km, types, constraints,
                          \* transport, city, user_id, session_id, readable
          UserHash,       \* md5 of an identifier, modulo 100
          Askers,         \* concurrent callers of should_use_ortools
          CacheTTL,       \* self.cache_ttl
          HealthTTL,      \* 60 seconds
          EnableORTools, UserPercentage, MinPlaces, MinDays, MaxPlaces, MaxDistanceKm,
          AllowedCities, ExcludedCities

ASSUME EngineAssumption ==
    /\ CacheTTL \in Nat /\ HealthTTL \in Nat \ {0} /\ MinPlaces \in Nat
    /\ \A r \in Requests : r.places \in Nat

VARIABLES decision_cache, \* cached decisions: [use, age], by key
          health,         \* the cached health answer: [status, age]
          asking,         \* what each caller is doing
          answer,         \* its last answer and the request it is for
          service_up,     \* what is_healthy answers
          down_for        \* how long it has not been up (history)

engineVars == <<decision_cache, health, asking, answer, service_up, down_for>>

Absent == "absent"        \* the request has no such item
Anonymous == "anonymous"

Min2(a, b) == IF a < b THEN a ELSE b
Band(v, steps) ==   \* the weight of the highest step reached: steps is a set of <<from, weight>>
    LET reached == {s \in steps : v >= s[1]}
    IN IF reached = {} THEN 0 ELSE (CHOOSE s \in reached : \A t \in reached : s[1] >= t[1])[2]

-----------------------------------------------------------------------------
(* The decision *)

\* simple, medium and complex transport.
_analyze_transport_complexity(mode) ==
    CASE mode = "walking" -> 0
      [] mode \in {"transit", "mixed"} -> 10
      [] OTHER -> 5

_calculate_overall_complexity(r) ==
    Min2(100,
        Band(r.places, {<<3, 10>>, <<6, 20>>, <<10, 30>>})
        + Band(r.days, {<<2, 5>>, <<3, 10>>, <<5, 20>>})
        + Band(r.spread_km, {<<5, 5>>, <<20, 10>>, <<50, 15>>, <<100, 20>>})
        + Min2(3 * r.types, 15)
        + Min2(2 * r.constraints, 10)
        + _analyze_transport_complexity(r.transport))

\* The city that the places name, if one does; otherwise a made-up name of
\* their cluster, which is in nobody's list; nothing without places.
_detect_city(r) == IF r.places = 0 THEN "none" ELSE r.city

\* Who asks, for the rollout: the user, else the session.
Identity(r) ==
    IF r.user_id # Absent THEN r.user_id
    ELSE IF r.session_id # Absent THEN r.session_id ELSE Anonymous

_check_user_eligibility(r) == UserPercentage >= 100 \/ UserHash[Identity(r)] < UserPercentage

_check_geo_eligibility(r) ==
    \/ AllowedCities = {}
    \/ _detect_city(r) = "none"
    \/ _detect_city(r) \in AllowedCities \ ExcludedCities

_check_feature_flags(r) ==
    EnableORTools /\ _check_user_eligibility(r) /\ _check_geo_eligibility(r)

_analyze_geography(r) ==
    r.places = 0 \/ (r.spread_km <= MaxDistanceKm /\ r.places <= MaxPlaces)

Confidence(r) ==
    (CASE r.places >= MinPlaces -> 80 [] r.places >= 3 -> 60 [] OTHER -> 0)
    + (IF r.days >= MinDays THEN 10 ELSE 5)
    + Band(_calculate_overall_complexity(r), {<<30, 5>>, <<50, 10>>})

_make_decision(r, healthy) ==
    /\ _check_feature_flags(r)
    /\ healthy
    /\ _analyze_geography(r)
    /\ Confidence(r) >= 50

\* Who asks, for the cache: every session without a user is the same one.
KeyUser(r) == IF r.user_id # Absent THEN r.user_id ELSE Anonymous

\* Mutant of _generate_cache_key: without the user.
KeyWithoutUser(r) == [places |-> r.places, days |-> r.days, transport |-> r.transport]

\* "Factors relevant for the decision": the number of places, not where they
\* are. (The dates stand for the days.)
_generate_cache_key(r) ==
    [places |-> r.places, days |-> r.days, transport |-> r.transport, user |-> KeyUser(r)]

-----------------------------------------------------------------------------
(* Operations *)

Idle == [at |-> "idle"]

\* Mutant of Fresh: an expired decision is still used.
FreshForever(entry) == entry.age <= CacheTTL

Fresh(entry) == entry.age < CacheTTL
Cached(r) == _generate_cache_key(r) \in DOMAIN decision_cache /\ Fresh(decision_cache[_generate_cache_key(r)])

Remember(r, use) ==
    decision_cache' = [k \in DOMAIN decision_cache \cup {_generate_cache_key(r)} |->
        IF k = _generate_cache_key(r) THEN [use |-> use, age |-> 0] ELSE decision_cache[k]]

Reply(a, r, use) ==
    /\ answer' = [answer EXCEPT ![a] = [request |-> r, use |-> use]]
    /\ asking' = [asking EXCEPT ![a] = Idle]

Hit(a, r) ==
    /\ asking[a] = Idle /\ Cached(r)
    /\ Reply(a, r, decision_cache[_generate_cache_key(r)].use)
    /\ UNCHANGED <<decision_cache, health, service_up, down_for>>

\* Places that are not dictionaries: the analysis raises and the legacy system is
\* the answer, which is not cached.
AnalysisRaises(a, r) ==
    /\ asking[a] = Idle /\ ~Cached(r) /\ ~r.readable
    /\ Reply(a, r, FALSE)
    /\ UNCHANGED <<decision_cache, health, service_up, down_for>>

\* The health answer is fresh: the whole decision is one step.
Decide(a, r) ==
    /\ asking[a] = Idle /\ ~Cached(r) /\ r.readable
    /\ health.age < HealthTTL
    /\ Remember(r, _make_decision(r, health.status))
    /\ Reply(a, r, _make_decision(r, health.status))
    /\ UNCHANGED <<health, service_up, down_for>>

\* It is not: the caller waits for is_healthy. The time it will note for the
\* answer is taken now.
_check_ortools_health(a, r) ==
    /\ asking[a] = Idle /\ ~Cached(r) /\ r.readable
    /\ health.age >= HealthTTL
    /\ asking' = [asking EXCEPT ![a] = [at |-> "checking", request |-> r, age |-> 0]]
    /\ UNCHANGED <<decision_cache, health, answer, service_up, down_for>>

\* is_healthy has answered (or raised, which counts as unhealthy).
HealthKnown(a) ==
    /\ asking[a].at = "checking"
    /\ health' = [status |-> service_up, age |-> asking[a].age]
    /\ Remember(asking[a].request, _make_decision(asking[a].request, service_up))
    /\ Reply(a, asking[a].request, _make_decision(asking[a].request, service_up))
    /\ UNCHANGED <<service_up, down_for>>

should_use_ortools(a) ==
    \/ \E r \in Requests : Hit(a, r) \/ AnalysisRaises(a, r) \/ Decide(a, r) \/ _check_ortools_health(a, r)
    \/ HealthKnown(a)

\* Time passes for everything that has an age; answers are history by then.
Older(n, ttl) == Min2(n + 1, ttl)
Tick ==
    /\ decision_cache' = [k \in DOMAIN decision_cache |-> [decision_cache[k] EXCEPT !.age = Older(@, CacheTTL)]]
    /\ health' = [health EXCEPT !.age = Older(@, HealthTTL)]
    /\ asking' = [a \in Askers |-> IF asking[a] = Idle THEN Idle
                                   ELSE [asking[a] EXCEPT !.age = Older(@, HealthTTL)]]
    /\ answer' = [a \in Askers |-> Idle]
    /\ down_for' = IF service_up THEN 0 ELSE Older(down_for, CacheTTL + HealthTTL)
    /\ UNCHANGED service_up

\* The OR-Tools service behind is_healthy comes and goes.
ServiceChanges ==
    /\ service_up' = ~service_up
    /\ down_for' = 0
    /\ UNCHANGED <<decision_cache, health, asking, answer>>

EngineInit ==
    /\ decision_cache = [k \in {} |-> Idle]
    /\ health = [status |-> FALSE, age |-> HealthTTL]
    /\ asking = [a \in Askers |-> Idle]
    /\ answer = [a \in Askers |-> Idle]
    /\ service_up \in BOOLEAN
    /\ down_for = 0

EngineNext == (\E a \in Askers : should_use_ortools(a)) \/ Tick \/ ServiceChanges

EngineSpec == EngineInit /\ [][EngineNext]_engineVars

-----------------------------------------------------------------------------
(* Properties *)

Answered(a) == answer[a] # Idle

\* A user by whose own identifier the decision is cached.
NamesUser(r) == r.user_id \notin {Absent, Anonymous}

\* Whatever mixture of caches an answer comes from, and whoever asks in between:
\* OR-Tools is chosen only for a request that itself has enough places and whose
\* user, if it names one, is in the rollout. (Two sessions without a user share
\* a key, and one may be in the rollout and the other not.)
ChosenFits ==
    \A a \in Askers : (Answered(a) /\ answer[a].use) =>
        /\ answer[a].request.places >= Min2(3, MinPlaces)
        /\ EnableORTools
        /\ NamesUser(answer[a].request) => _check_user_eligibility(answer[a].request)

\* Two caches stacked, and a time stamp taken before the await: OR-Tools is
\* still chosen only if the service was up less than the sum of both times to
\* live ago.
ChoiceNotStale ==
    \A a \in Askers : (Answered(a) /\ answer[a].use) => down_for < CacheTTL + HealthTTL
=============================================================================
