--------------------------- MODULE ORToolsService ---------------------------
(***************************************************************************)
(* The shared City2GraphORToolsService of                                  *)
(* services/city2graph_ortools_service.py: ORToolsCircuitBreaker and the   *)
(* cached health check that optimize_with_ortools passes before it reaches *)
(* the breaker.                                                            *)
(*                                                                         *)
(* Users of the service are coroutines. is_healthy may be suspended in     *)
(* asyncio.wait_for. The distance matrix (requests.get) and the solver are *)
(* plain calls that block the event loop, so execute_ortools runs from its *)
(* check of the state to its update in one step, and HALF_OPEN exists only *)
(* inside that step.                                                       *)
(*                                                                         *)
(* At this commit every execution fails: optimize_with_ortools passes      *)
(* `accommodations` to a method without such a parameter (lines 412-419).  *)
(* The model leaves success open, as the class does for any function.      *)
(*                                                                         *)
(* Times are ages, saturated where the code's comparisons stop telling     *)
(* them apart. One execution (seconds) is shorter than a tick.             *)
(***************************************************************************)
EXTENDS Integers

CONSTANTS Users,            \* coroutines that use the service
          FailureThreshold, \* failure_threshold of the breaker
          RecoveryTimeout,  \* recovery_timeout of the breaker, in ticks
          HealthTTL         \* health_check_ttl, in ticks

ASSUME ServiceAssumption ==
    /\ FailureThreshold \in Nat \ {0}
    /\ RecoveryTimeout \in Nat
    /\ HealthTTL \in Nat \ {0}

VARIABLES pc,             \* what each user is doing
          check_age,      \* age of `current_time` of its pending health check
          initialized,    \* self.ortools_optimizer is not None
          health,         \* health_check_cache["status"]
          health_age,     \* age of health_check_cache["timestamp"]
          cb_state,       \* circuit_breaker.state
          failure_count,  \* circuit_breaker.failure_count
          failure_age     \* age of circuit_breaker.last_failure_time

breaker == <<cb_state, failure_count, failure_age>>
vars == <<pc, check_age, initialized, health, health_age, breaker>>

\* Why is_healthy is called: for its answer (the decision engine, the health
\* endpoint), or by optimize_with_ortools, which goes on to the breaker.
Purposes == {"check", "optimize"}

NoFailure == -1

TypeOK ==
    /\ pc \in [Users -> {"idle"} \cup Purposes]
    /\ check_age \in [Users -> 0..HealthTTL]
    /\ initialized \in BOOLEAN
    /\ health \in {"unknown", "healthy", "unhealthy"}
    /\ health_age \in 0..HealthTTL
    /\ cb_state \in {"CLOSED", "OPEN"}
    /\ failure_count \in Nat
    /\ failure_age \in NoFailure..(RecoveryTimeout + 1)

Init ==
    /\ pc = [u \in Users |-> "idle"]
    /\ check_age = [u \in Users |-> 0]
    /\ initialized \in BOOLEAN
    /\ health = "unknown"
    /\ health_age = HealthTTL
    /\ cb_state = "CLOSED"
    /\ failure_count = 0
    /\ failure_age = NoFailure

-----------------------------------------------------------------------------
\* Mutant of ExecutionSucceeds: closing forgets to reset the counter.
ExecutionSucceedsKeepsCount(s) ==
    /\ cb_state' = IF s = "HALF_OPEN" THEN "CLOSED" ELSE cb_state
    /\ UNCHANGED <<failure_count, failure_age>>

\* The solver returned, the breaker having been entered in state s.
ExecutionSucceeds(s) ==
    /\ IF s = "HALF_OPEN"
       THEN cb_state' = "CLOSED" /\ failure_count' = 0
       ELSE UNCHANGED <<cb_state, failure_count>>
    /\ UNCHANGED failure_age

\* The solver raised, the breaker having been entered in state s.
ExecutionFails(s) ==
    /\ failure_count' = failure_count + 1
    /\ failure_age' = 0
    /\ cb_state' = IF failure_count' >= FailureThreshold THEN "OPEN" ELSE s

\* execute_ortools, from the check of the state to the outcome of the solver.
ExecuteORTools ==
    \/ /\ cb_state = "OPEN"
       /\ failure_age <= RecoveryTimeout
       /\ UNCHANGED breaker
    \/ /\ cb_state = "OPEN"
       /\ failure_age > RecoveryTimeout
       /\ ExecutionSucceeds("HALF_OPEN") \/ ExecutionFails("HALF_OPEN")
    \/ /\ cb_state # "OPEN"
       /\ ExecutionSucceeds(cb_state) \/ ExecutionFails(cb_state)

\* Mutant of CachedHealth: using the cached answer renews it.
CachedHealthRenews(u, purpose) ==
    /\ pc[u] = "idle"
    /\ health_age < HealthTTL
    /\ IF purpose = "optimize" /\ health = "healthy"
       THEN ExecuteORTools
       ELSE UNCHANGED breaker
    /\ health_age' = 0
    /\ failure_count < FailureThreshold + HealthTTL
    /\ UNCHANGED <<pc, check_age, initialized, health>>

\* is_healthy answers from the cache; for optimize_with_ortools a healthy
\* answer is followed by the execution, any other by an exception.
CachedHealth(u, purpose) ==
    /\ pc[u] = "idle"
    /\ health_age < HealthTTL
    /\ IF purpose = "optimize" /\ health = "healthy"
       THEN ExecuteORTools
       ELSE UNCHANGED breaker
    /\ UNCHANGED <<pc, check_age, initialized, health, health_age>>

\* is_healthy with an expired cache: initialize() if necessary and start the
\* quick health test. A failed initialization answers False, uncached.
StartHealthTest(u, purpose) ==
    /\ pc[u] = "idle"
    /\ health_age >= HealthTTL
    /\ \/ /\ initialized' = TRUE
          /\ pc' = [pc EXCEPT ![u] = purpose]
          /\ check_age' = [check_age EXCEPT ![u] = 0]
       \/ /\ ~initialized
          /\ UNCHANGED <<pc, check_age, initialized>>
    /\ UNCHANGED <<health, health_age, breaker>>

\* Mutant of FinishHealthTest: the breaker is not part of the health.
FinishHealthTestWithoutBreaker(u, test_ok) ==
    /\ pc[u] \in Purposes
    /\ health' = IF test_ok THEN "healthy" ELSE "unhealthy"
    /\ health_age' = check_age[u]
    /\ IF test_ok /\ pc[u] = "optimize"
       THEN ExecuteORTools
       ELSE UNCHANGED breaker
    /\ pc' = [pc EXCEPT ![u] = "idle"]
    /\ UNCHANGED <<check_age, initialized>>

\* The health test ends (test_ok), times out or raises. The service is healthy
\* only if its breaker is CLOSED now; the answer is cached with the time at
\* which the check began.
FinishHealthTest(u, test_ok) ==
    /\ pc[u] \in Purposes
    /\ LET is_healthy == test_ok /\ cb_state = "CLOSED" IN
       /\ health' = IF is_healthy THEN "healthy" ELSE "unhealthy"
       /\ health_age' = check_age[u]
       /\ IF is_healthy /\ pc[u] = "optimize"
          THEN ExecuteORTools
          ELSE UNCHANGED breaker
    /\ pc' = [pc EXCEPT ![u] = "idle"]
    /\ UNCHANGED <<check_age, initialized>>

Saturated(age, limit) == IF age < limit THEN age + 1 ELSE age

\* time.time() advances.
Tick ==
    /\ check_age' = [u \in Users |->
           IF pc[u] = "idle" THEN check_age[u] ELSE Saturated(check_age[u], HealthTTL)]
    /\ health_age' = Saturated(health_age, HealthTTL)
    /\ failure_age' = IF failure_age = NoFailure THEN NoFailure
                      ELSE Saturated(failure_age, RecoveryTimeout + 1)
    /\ UNCHANGED <<pc, initialized, health, cb_state, failure_count>>

Next ==
    \/ \E u \in Users :
          \/ \E purpose \in Purposes : CachedHealth(u, purpose) \/ StartHealthTest(u, purpose)
          \/ \E test_ok \in BOOLEAN : FinishHealthTest(u, test_ok)
    \/ Tick

Spec == Init /\ [][Next]_vars

\* The clock runs and every health test ends (wait_for bounds it).
Fairness ==
    /\ WF_vars(Tick)
    /\ \A u \in Users : WF_vars(\E test_ok \in BOOLEAN : FinishHealthTest(u, test_ok))

FairSpec == Spec /\ Fairness

-----------------------------------------------------------------------------
(* Properties *)

\* The breaker is open and the next health check cannot come out healthy any
\* more: the cached answer is not "healthy", or it has expired and a new one
\* wants the breaker CLOSED.
LockedOut == cb_state = "OPEN" /\ (health # "healthy" \/ health_age >= HealthTTL)

\* The health check stands in front of the breaker and asks for a CLOSED
\* breaker, while only a request that passes the health check can close it:
\* no interleaving of users, pending checks and clock leads out of LockedOut.
LockoutIsPermanent == [][LockedOut => LockedOut']_vars

\* Recovery is tried only while a "healthy" answer from before the outage is
\* still cached, so an outage sees fewer than HealthTTL / (RecoveryTimeout + 1)
\* + 1 probes before the service is locked out, however many users there are.
ProbesBounded ==
    (failure_count - FailureThreshold) * (RecoveryTimeout + 1) < HealthTTL

\* OPEN and the counter agree after any mix of probes and ordinary runs.
OpenAgreesWithCount == (cb_state = "OPEN") <=> (failure_count >= FailureThreshold)

\* An outage is settled: the breaker closes again, or the stale "healthy"
\* answer runs out and nobody is sent to the failing solver any more.
OutageSettled == cb_state = "OPEN" ~> (cb_state = "CLOSED" \/ LockedOut)

\* What holds in every state of the service and its breaker, over the cached
\* health answers, the probes and the executions of all users.
ServiceSafe == TypeOK /\ ProbesBounded /\ OpenAgreesWithCount
=============================================================================
