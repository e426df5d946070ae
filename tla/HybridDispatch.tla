--------------------------- MODULE HybridDispatch ---------------------------
(***************************************************************************)
(* optimize_itinerary_hybrid_v31 and the functions it dispatches to, in    *)
(* utils/hybrid_optimizer_v31.py: OR-Tools first, City2Graph behind the    *)
(* process-wide circuit breaker second, the classic method last.           *)
(*                                                                         *)
(* Requests are coroutines of one event loop. A step of a request runs     *)
(* from one point where it may be suspended to the next; in particular     *)
(* the check of the breaker's state in _optimize_with_city2graph and the   *)
(* entry into City2GraphCircuitBreaker.call have no suspension between     *)
(* them. Every `await` on an optimiser may return or raise.                *)
(***************************************************************************)
EXTENDS Integers, FiniteSets

CONSTANTS Requests,          \* slots for requests in progress
          EnableORTools,     \* settings.ENABLE_ORTOOLS
          EnableCity2Graph,  \* settings.ENABLE_CITY2GRAPH
          FailureThreshold,  \* settings.CITY2GRAPH_FAILURE_THRESHOLD
          RecoveryTimeout,   \* settings.CITY2GRAPH_RECOVERY_TIMEOUT, in ticks
          MaxFailures        \* bound on the breaker's counter, see the breaker

ASSUME DispatchAssumption ==
    /\ IsFiniteSet(Requests)
    /\ EnableORTools \in BOOLEAN
    /\ EnableCity2Graph \in BOOLEAN
    /\ FailureThreshold \in Nat \ {0}
    /\ RecoveryTimeout \in Nat
    /\ MaxFailures \in Nat
    /\ MaxFailures >= FailureThreshold

VARIABLES pc,            \* where each request is
          classic_runs,  \* how often it has started _optimize_classic_method
          method,        \* which method produced its answer
          state, failure_count, since_failure  \* the global circuit breaker

breaker == <<state, failure_count, since_failure>>
vars == <<pc, classic_runs, method, breaker>>

\* Requests suspended inside City2GraphCircuitBreaker.call.
InCall == {r \in Requests : pc[r] \in {"core", "core_classic"}}

CB == INSTANCE City2GraphBreaker WITH Calls <- Requests, running <- InCall

Places == {"idle", "ortools_decision", "ortools", "city2graph_decision",
           "core", "core_classic", "open_classic", "fallback_classic",
           "legacy", "done", "error"}

Methods == {"none", "city2graph_enhanced", "legacy",
            "classic_fallback", "classic_fallback_circuit_breaker"}

TypeOK ==
    /\ pc \in [Requests -> Places]
    /\ classic_runs \in [Requests -> Nat]
    /\ method \in [Requests -> Methods]
    /\ state \in {"CLOSED", "OPEN", "HALF_OPEN"}
    /\ failure_count \in 0..MaxFailures
    /\ since_failure \in -1..(RecoveryTimeout + 1)

Init ==
    /\ pc = [r \in Requests |-> "idle"]
    /\ classic_runs = [r \in Requests |-> 0]
    /\ method = [r \in Requests |-> "none"]
    /\ CB!Init

-----------------------------------------------------------------------------
\* `await _optimize_classic_method(...)` at the place p of the dispatcher.
StartClassic(r, p) ==
    /\ pc' = [pc EXCEPT ![r] = p]
    /\ classic_runs' = [classic_runs EXCEPT ![r] = @ + 1]
    /\ UNCHANGED method

\* The request returns a result marked with the method m.
Answer(r, m) ==
    /\ pc' = [pc EXCEPT ![r] = "done"]
    /\ method' = [method EXCEPT ![r] = m]
    /\ UNCHANGED classic_runs

\* A new request enters optimize_itinerary_hybrid_v31.
Arrive(r) ==
    /\ pc[r] = "idle"
    /\ pc' = [pc EXCEPT ![r] = "ortools_decision"]
    /\ classic_runs' = [classic_runs EXCEPT ![r] = 0]
    /\ method' = [method EXCEPT ![r] = "none"]
    /\ UNCHANGED breaker

\* decision_engine.should_use_ortools, and the test of the master switch. An
\* exception in the engine has the same effect as a negative decision.
DecideORTools(r) ==
    /\ pc[r] = "ortools_decision"
    /\ \E use_ortools \in BOOLEAN :
          pc' = [pc EXCEPT ![r] = IF use_ortools /\ EnableORTools
                                  THEN "ortools" ELSE "city2graph_decision"]
    /\ UNCHANGED <<classic_runs, method, breaker>>

\* _optimize_with_ortools always raises. The service passes `accommodations` to
\* an optimiser without such a parameter, a TypeError; and whatever happened,
\* the handler reads `end_date`, `start_date` and `places`, names that the
\* function does not have. The dispatcher catches the NameError and goes on.
OptimizeWithORTools(r) ==
    /\ pc[r] = "ortools"
    /\ pc' = [pc EXCEPT ![r] = "city2graph_decision"]
    /\ UNCHANGED <<classic_runs, method, breaker>>

\* Mutant of OptimizeWithCity2Graph: the check of the state is left to call(),
\* which lets a probe through after the recovery timeout.
OptimizeWithCity2GraphProbing(r) ==
    /\ pc' = [pc EXCEPT ![r] = "core"]
    /\ UNCHANGED <<classic_runs, method>>
    /\ CB!Admit(r) \/ CB!AdmitProbe(r)

\* Mutant of OptimizeWithCity2Graph: the core logic is awaited without the
\* check, whatever the state.
OptimizeWithCity2GraphUnchecked(r) ==
    /\ pc' = [pc EXCEPT ![r] = "core"]
    /\ UNCHANGED <<classic_runs, method, breaker>>

\* Entry of _optimize_with_city2graph: an OPEN breaker sends the request to
\* the classic method, any other state into City2GraphCircuitBreaker.call.
OptimizeWithCity2Graph(r) ==
    \/ /\ state = "OPEN"
       /\ StartClassic(r, "open_classic")
       /\ UNCHANGED breaker
    \/ /\ state # "OPEN"
       /\ pc' = [pc EXCEPT ![r] = "core"]
       /\ UNCHANGED <<classic_runs, method>>
       /\ CB!Admit(r)

\* should_use_city2graph; when it says no, is switched off or raises, the
\* classic method is the last resort.
DecideCity2Graph(r) ==
    /\ pc[r] = "city2graph_decision"
    /\ \/ EnableCity2Graph /\ OptimizeWithCity2Graph(r)
       \/ StartClassic(r, "legacy") /\ UNCHANGED breaker

\* _execute_city2graph_core_logic has analysed the places and awaits the
\* classic method.
CoreStartsClassic(r) ==
    /\ pc[r] = "core"
    /\ StartClassic(r, "core_classic")
    /\ UNCHANGED breaker

\* The core logic returns: call() returns and so does the request.
CoreSucceeds(r) ==
    /\ pc[r] = "core_classic"
    /\ Answer(r, "city2graph_enhanced")
    /\ CB!Succeed(r)

\* The core logic raises, before or in the classic method: call() counts a
\* failure and the handler of _optimize_with_city2graph runs the classic method.
CoreFails(r) ==
    /\ pc[r] \in {"core", "core_classic"}
    /\ StartClassic(r, "fallback_classic")
    /\ CB!Fail(r)

\* The classic method started because of the OPEN breaker ends; if it raises,
\* the same handler runs it again.
OpenClassicEnds(r) ==
    /\ pc[r] = "open_classic"
    /\ \/ Answer(r, "classic_fallback_circuit_breaker")
       \/ StartClassic(r, "fallback_classic")
    /\ UNCHANGED breaker

\* Mutant of FallbackClassicEnds: the handler retries until it succeeds.
FallbackClassicRetries(r) ==
    /\ pc[r] = "fallback_classic"
    /\ \/ Answer(r, "classic_fallback")
       \/ StartClassic(r, "fallback_classic") /\ classic_runs[r] <= 3
    /\ UNCHANGED breaker

\* Mutant of FallbackClassicEnds: after a failure the dispatcher decides anew.
FallbackClassicStartsOver(r) ==
    /\ pc[r] = "fallback_classic"
    /\ \/ Answer(r, "classic_fallback")
       \/ /\ pc' = [pc EXCEPT ![r] = "city2graph_decision"]
          /\ classic_runs' = [classic_runs EXCEPT ![r] = 0]
          /\ UNCHANGED method
    /\ UNCHANGED breaker

\* The classic method of the handler ends; if it raises, the dispatcher
\* catches the exception and runs it once more.
FallbackClassicEnds(r) ==
    /\ pc[r] = "fallback_classic"
    /\ \/ Answer(r, "classic_fallback")
       \/ StartClassic(r, "legacy")
    /\ UNCHANGED breaker

\* The classic method of last resort ends; its exception reaches the endpoint.
LegacyEnds(r) ==
    /\ pc[r] = "legacy"
    /\ \/ Answer(r, "legacy")
       \/ /\ pc' = [pc EXCEPT ![r] = "error"]
          /\ UNCHANGED <<classic_runs, method>>
    /\ UNCHANGED breaker

\* The endpoint has sent the response; the slot is free again.
Reply(r) ==
    /\ pc[r] \in {"done", "error"}
    /\ pc' = [pc EXCEPT ![r] = "idle"]
    /\ UNCHANGED <<classic_runs, method, breaker>>

\* time.time() advances.
Tick ==
    /\ UNCHANGED <<pc, classic_runs, method>>
    /\ CB!Tick

\* What the event loop and the optimisers do for a request.
Progress(r) ==
    \/ DecideORTools(r) \/ OptimizeWithORTools(r) \/ DecideCity2Graph(r)
    \/ CoreStartsClassic(r) \/ CoreSucceeds(r) \/ CoreFails(r)
    \/ OpenClassicEnds(r) \/ FallbackClassicEnds(r) \/ LegacyEnds(r)

Next ==
    \/ \E r \in Requests : Arrive(r) \/ Progress(r) \/ Reply(r)
    \/ Tick

Spec == Init /\ [][Next]_vars

\* Every await ends, every response is sent and the clock runs.
Fairness ==
    /\ WF_vars(Tick)
    /\ \A r \in Requests :
          /\ WF_vars(Progress(r))
          /\ WF_vars(Reply(r))

FairSpec == Spec /\ Fairness

\* Besides, requests keep arriving and go for City2Graph again and again.
LoadedSpec ==
    /\ FairSpec
    /\ \A r \in Requests :
          /\ WF_vars(Arrive(r))
          /\ SF_vars(pc[r] = "city2graph_decision" /\ EnableCity2Graph
                        /\ OptimizeWithCity2Graph(r))

-----------------------------------------------------------------------------
(* Properties *)

\* Through all the nested fallbacks (the core logic's own classic run, the
\* handler of _optimize_with_city2graph, the dispatcher's last resort) one
\* request runs the slow classic method at most three times.
ClassicRunsBounded == \A r \in Requests : classic_runs[r] <= 3

\* Requests that entered call() before the breaker opened may still fail and
\* push the counter over the threshold, but no further than the requests that
\* were in flight: the check on entry keeps everybody else out.
OvershootBounded ==
    failure_count + Cardinality(InCall)
        <= FailureThreshold - 1 + Cardinality(Requests)

\* The check for OPEN in _optimize_with_city2graph comes before the only use
\* of call(), so the step to HALF_OPEN inside call() is never reached: once
\* OPEN, the breaker is OPEN until the process is restarted.
OpenIsPermanent == [][state = "OPEN" => state' = "OPEN"]_vars

\* Whatever the dispatcher does, the breaker moves only as its class allows.
BreakerSteps == CB!Spec

\* Every request gets a result or an exception: no chain of failures and
\* fallbacks keeps it going for ever.
EveryRequestAnswered ==
    \A r \in Requests :
        pc[r] = "ortools_decision" ~> pc[r] \in {"done", "error"}

\* What the docstring of City2GraphCircuitBreaker ("permitir recuperacion
\* automatica") and docs/legacy/FASE_2_SUMMARY.md say: the open breaker
\* recovers by itself.
AutomaticRecovery == state = "OPEN" ~> state # "OPEN"

\* What holds in every state of the dispatcher: its nested fallbacks and the
\* failures of the requests in flight stay within their bounds.
DispatchSafe == TypeOK /\ ClassicRunsBounded /\ OvershootBounded
=============================================================================
