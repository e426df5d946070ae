--------------------------- MODULE CircuitBreaker ---------------------------
(***************************************************************************)
(* class CircuitBreaker of utils/hybrid_optimizer_v31.py, the breaker that *)
(* each HybridOptimizerV31 keeps in front of its routing and its places    *)
(* service. The methods are actions; call() is split where it awaits the   *)
(* service: Refused or Admit, and later RecordSuccess or RecordFailure,    *)
(* by which time other calls may have changed the state.                   *)
(***************************************************************************)
EXTENDS Integers

CONSTANTS FailureThreshold, \* failure_threshold
          RecoveryTimeout,  \* recovery_timeout, in ticks
          MaxFailures       \* bound: the counter stays here once it is reached

ASSUME BreakerAssumption ==
    /\ FailureThreshold \in Nat \ {0}
    /\ RecoveryTimeout \in Nat
    /\ MaxFailures \in Nat
    /\ FailureThreshold <= MaxFailures

VARIABLES cb_state,       \* self._state
          failure_count,  \* self.failure_count
          failure_age     \* time since self.last_failure_time

breaker == <<cb_state, failure_count, failure_age>>

\* last_failure_time is None.
NoFailure == -1

BreakerTypeOK ==
    /\ cb_state \in {"CLOSED", "OPEN", "HALF_OPEN"}
    /\ failure_count \in 0..MaxFailures
    /\ failure_age \in NoFailure..(RecoveryTimeout + 1)

BreakerInit ==
    /\ cb_state = "CLOSED"
    /\ failure_count = 0
    /\ failure_age = NoFailure

-----------------------------------------------------------------------------
\* Mutant of Refused: every refusal renews last_failure_time.
RefusedRenews ==
    /\ cb_state = "OPEN"
    /\ failure_age <= RecoveryTimeout
    /\ failure_age' = 0
    /\ UNCHANGED <<cb_state, failure_count>>

\* is_open() is true: call() raises CircuitBreakerOpenError.
Refused ==
    /\ cb_state = "OPEN"
    /\ failure_age <= RecoveryTimeout
    /\ UNCHANGED breaker

\* is_open() is false, after turning an OPEN breaker whose recovery timeout
\* has passed to HALF_OPEN: call() goes on to the service.
Admit ==
    /\ cb_state = "OPEN" => failure_age > RecoveryTimeout
    /\ cb_state' = IF cb_state = "OPEN" THEN "HALF_OPEN" ELSE cb_state
    /\ UNCHANGED <<failure_count, failure_age>>

\* record_success(), whatever the state is by now.
RecordSuccess ==
    /\ failure_count' = 0
    /\ cb_state' = "CLOSED"
    /\ UNCHANGED failure_age

\* record_failure(), whatever the state is by now.
RecordFailure ==
    /\ failure_count' = IF failure_count < MaxFailures THEN failure_count + 1 ELSE failure_count
    /\ failure_age' = 0
    /\ cb_state' = IF failure_count' >= FailureThreshold THEN "OPEN" ELSE cb_state

\* time.time() advances.
Age ==
    /\ failure_age' = IF failure_age \in 0..RecoveryTimeout THEN failure_age + 1 ELSE failure_age
    /\ UNCHANGED <<cb_state, failure_count>>

-----------------------------------------------------------------------------
(* Properties *)

\* The breaker is CLOSED exactly while fewer than failure_threshold failures
\* have been counted. So a failure recorded in HALF_OPEN always reopens it, and
\* record_success cannot close it with a counter that opens it again at once,
\* whatever calls were still in flight when it opened.
ClosedBelowThreshold == cb_state = "CLOSED" <=> failure_count < FailureThreshold
=============================================================================
