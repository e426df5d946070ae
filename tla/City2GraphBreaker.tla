-------------------------- MODULE City2GraphBreaker --------------------------
(***************************************************************************)
(* The class City2GraphCircuitBreaker of utils/hybrid_optimizer_v31.py, by *)
(* itself: any number of coroutines may be suspended in `await func(...)`  *)
(* inside call() at once, each one between the check of the state on entry *)
(* and the update of the state when func returns or raises.                *)
(*                                                                         *)
(* Time is kept as the age of last_failure_time, saturated just above      *)
(* recovery_timeout: the code only compares that age with the timeout.     *)
(***************************************************************************)
EXTENDS Integers

CONSTANTS Calls,            \* the coroutines that may use the breaker
          FailureThreshold, \* failure_threshold
          RecoveryTimeout,  \* recovery_timeout, in clock ticks
          MaxFailures       \* bound: failure_count saturates here

ASSUME BreakerAssumption ==
    /\ FailureThreshold \in Nat \ {0}
    /\ RecoveryTimeout \in Nat
    /\ MaxFailures \in Nat
    /\ MaxFailures >= FailureThreshold

VARIABLES state,          \* self.state
          failure_count,  \* self.failure_count
          since_failure,  \* now - self.last_failure_time, NoFailure for None
          running         \* calls suspended in `await func(...)`

vars == <<state, failure_count, since_failure, running>>

NoFailure == -1

\* Adding one below the bound; above it only `>= threshold` can tell.
Increment(n) == IF n >= MaxFailures THEN MaxFailures ELSE n + 1

TypeOK ==
    /\ state \in {"CLOSED", "OPEN", "HALF_OPEN"}
    /\ failure_count \in 0..MaxFailures
    /\ since_failure \in NoFailure..(RecoveryTimeout + 1)
    /\ running \subseteq Calls

Init ==
    /\ state = "CLOSED"
    /\ failure_count = 0
    /\ since_failure = NoFailure
    /\ running = {}

-----------------------------------------------------------------------------
\* call() while not OPEN: straight to `await func(...)`.
Admit(c) ==
    /\ c \notin running
    /\ state # "OPEN"
    /\ running' = running \cup {c}
    /\ UNCHANGED <<state, failure_count, since_failure>>

\* Mutant of AdmitProbe: the probe runs but the state stays OPEN.
AdmitProbeKeepsOpen(c) ==
    /\ c \notin running
    /\ state = "OPEN"
    /\ since_failure > RecoveryTimeout
    /\ running' = running \cup {c}
    /\ UNCHANGED <<state, failure_count, since_failure>>

\* call() while OPEN and the recovery timeout has passed: HALF_OPEN, then await.
AdmitProbe(c) ==
    /\ c \notin running
    /\ state = "OPEN"
    /\ since_failure > RecoveryTimeout
    /\ state' = "HALF_OPEN"
    /\ running' = running \cup {c}
    /\ UNCHANGED <<failure_count, since_failure>>

\* call() while OPEN and too early: raises, nothing changes.
Refuse(c) ==
    /\ c \notin running
    /\ state = "OPEN"
    /\ since_failure <= RecoveryTimeout
    /\ UNCHANGED vars

\* Mutant of Succeed: the counter is not reset when the breaker closes.
SucceedKeepsCount(c) ==
    /\ c \in running
    /\ running' = running \ {c}
    /\ state' = IF state = "HALF_OPEN" THEN "CLOSED" ELSE state
    /\ UNCHANGED <<failure_count, since_failure>>

\* func returned: only a HALF_OPEN breaker is closed and its counter reset.
Succeed(c) ==
    /\ c \in running
    /\ running' = running \ {c}
    /\ IF state = "HALF_OPEN"
       THEN state' = "CLOSED" /\ failure_count' = 0
       ELSE UNCHANGED <<state, failure_count>>
    /\ UNCHANGED since_failure

\* func raised: one more failure, and OPEN from the threshold on.
Fail(c) ==
    /\ c \in running
    /\ running' = running \ {c}
    /\ failure_count' = Increment(failure_count)
    /\ since_failure' = 0
    /\ state' = IF failure_count' >= FailureThreshold THEN "OPEN" ELSE state

\* time.time() advances.
Tick ==
    /\ since_failure \in 0..RecoveryTimeout
    /\ since_failure' = since_failure + 1
    /\ UNCHANGED <<state, failure_count, running>>

Next ==
    \/ \E c \in Calls : \/ Admit(c)
                        \/ AdmitProbe(c)
                        \/ Refuse(c)
                        \/ Succeed(c)
                        \/ Fail(c)
    \/ Tick

Spec == Init /\ [][Next]_vars

\* The clock runs, every awaited func ends, and requests keep coming.
Fairness ==
    /\ WF_vars(Tick)
    /\ \A c \in Calls : WF_vars(Succeed(c) \/ Fail(c))
    /\ WF_vars(\E c \in Calls : AdmitProbe(c))

FairSpec == Spec /\ Fairness

-----------------------------------------------------------------------------
(* Properties *)

\* The breaker is CLOSED exactly while the counter is below the threshold,
\* whatever the order in which concurrent calls admitted before, during and
\* after an outage come back: call() never leaves a CLOSED breaker that is
\* already over the threshold, nor an OPEN one that is below it.
StateAgreesWithCount == (state = "CLOSED") <=> (failure_count < FailureThreshold)

\* Used through call() alone, the breaker cannot stay OPEN for ever: some
\* call after the timeout is let through as a probe.
Recovers == state = "OPEN" ~> state # "OPEN"

\* What holds of the breaker whatever its calls do and in whatever order they
\* come back from func, late ones included.
BreakerSafe == TypeOK /\ StateAgreesWithCount
=============================================================================
