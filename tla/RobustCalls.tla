----------------------------- MODULE RobustCalls -----------------------------
(***************************************************************************)
(* The robust API wrappers of HybridOptimizerV31 and the batches that run  *)
(* them concurrently: places_service_robust (and its twins for routing and *)
(* hotels) under batch_places_search or parallel_routing_calculations,     *)
(* all sharing one CircuitBreaker.                                         *)
(*                                                                         *)
(* A task is one location (or one route pair). A batch is gathered: up to  *)
(* Permits of its tasks hold the semaphore, each trying the service up to  *)
(* MaxRetries + 1 times with a sleep in between. The steps are the pieces  *)
(* between two awaits. How long a call or a sleep takes is left open: code *)
(* that blocks the event loop delays timers as well as answers.            *)
(***************************************************************************)
EXTENDS CircuitBreaker, FiniteSets

CONSTANTS NTasks,        \* len(locations)
          BatchSize,     \* self.batch_size; NTasks for the routing calculations
          MaxConcurrent, \* self.max_concurrent_requests
          MaxRetries     \* self.max_retries

ASSUME RobustAssumption ==
    /\ NTasks \in Nat \ {0}
    /\ BatchSize \in Nat \ {0}
    /\ MaxConcurrent \in Nat \ {0}
    /\ MaxRetries \in Nat

Tasks == 1..NTasks

\* The batches of `locations`: consecutive slices of batch_size, the last one
\* possibly shorter.
BatchOf(t) == ((t - 1) \div BatchSize) + 1
LastBatch == BatchOf(NTasks)

VARIABLES batch,    \* the batch being gathered
          pc,       \* where each task is
          attempt,  \* its loop variable
          result    \* its answer: "none" yet, or where it came from

taskVars == <<pc, attempt, result>>
vars == <<batch, taskVars, breaker>>

\* The service answered; the fallback of an open breaker or of used up
\* retries; the fallback of an exceeded quota.
Answers == {"service", "fallback", "synthetic"}

TypeOK ==
    /\ BreakerTypeOK
    /\ batch \in 1..LastBatch
    /\ pc \in [Tasks -> {"waiting", "calling", "sleeping", "done"}]
    /\ attempt \in [Tasks -> 0..MaxRetries]
    /\ result \in [Tasks -> Answers \cup {"none"}]

Init ==
    /\ batch = 1
    /\ pc = [t \in Tasks |-> "waiting"]
    /\ attempt = [t \in Tasks |-> 0]
    /\ result = [t \in Tasks |-> "none"]
    /\ BreakerInit

-----------------------------------------------------------------------------
Batch == {t \in Tasks : BatchOf(t) = batch}
Holders == {t \in Batch : pc[t] \in {"calling", "sleeping"}}
Permits == IF MaxConcurrent < Cardinality(Batch) THEN MaxConcurrent ELSE Cardinality(Batch)

Answer(t, a) ==
    /\ pc' = [pc EXCEPT ![t] = "done"]
    /\ result' = [result EXCEPT ![t] = a]

\* One iteration of the retry loop up to the await of the service.
Attempt(t) ==
    \/ /\ Refused
       /\ Answer(t, "fallback")
    \/ /\ Admit
       /\ pc' = [pc EXCEPT ![t] = "calling"]
       /\ UNCHANGED result

\* The task gets the semaphore, in the order of the tasks, and tries once.
Start(t) ==
    /\ t \in Batch /\ pc[t] = "waiting"
    /\ \A u \in Batch : u < t => pc[u] # "waiting"
    /\ Cardinality(Holders) < Permits
    /\ Attempt(t)
    /\ UNCHANGED <<batch, attempt>>

\* Mutant of Wake: the iteration does not count.
WakeSameAttempt(t) ==
    /\ pc[t] = "sleeping"
    /\ Attempt(t)
    /\ UNCHANGED <<batch, attempt>>

\* The backoff is over: the next iteration.
Wake(t) ==
    /\ pc[t] = "sleeping"
    /\ attempt' = [attempt EXCEPT ![t] = @ + 1]
    /\ Attempt(t)
    /\ UNCHANGED batch

\* The service answered before the timeout.
CallSucceeds(t) ==
    /\ pc[t] = "calling"
    /\ RecordSuccess
    /\ Answer(t, "service")
    /\ UNCHANGED <<batch, attempt>>

\* After a failure: sleep and retry while retries are left, otherwise fall back.
RetryOrFallBack(t) ==
    IF attempt[t] < MaxRetries
    THEN pc' = [pc EXCEPT ![t] = "sleeping"] /\ UNCHANGED result
    ELSE Answer(t, "fallback")

\* Mutant of CallFails: the first failure ends the task.
CallFailsGivesUp(t) ==
    /\ pc[t] = "calling"
    /\ RecordFailure
    /\ Answer(t, "fallback")
    /\ UNCHANGED <<batch, attempt>>

\* wait_for timed out or the service raised.
CallFails(t) ==
    /\ pc[t] = "calling"
    /\ RecordFailure
    /\ RetryOrFallBack(t)
    /\ UNCHANGED <<batch, attempt>>

\* Routing only: the service answered with success = False. For the breaker
\* that is a success, the wrapper raises and treats it as a failure.
UnsuccessfulResult(t) ==
    /\ pc[t] = "calling"
    /\ RecordSuccess
    /\ RetryOrFallBack(t)
    /\ UNCHANGED <<batch, attempt>>

\* QuotaExceededError: counted as a failure, but not retried.
QuotaExceeded(t) ==
    /\ pc[t] = "calling"
    /\ RecordFailure
    /\ Answer(t, "synthetic")
    /\ UNCHANGED <<batch, attempt>>

\* Mutant of NextBatch: the batch is not gathered.
NextBatchWithoutGather ==
    /\ batch < LastBatch
    /\ \E t \in Batch : pc[t] = "done"
    /\ batch' = batch + 1
    /\ UNCHANGED <<taskVars, breaker>>

\* gather() has all the answers of the batch: pause, then the next one.
NextBatch ==
    /\ batch < LastBatch
    /\ \A t \in Batch : pc[t] = "done"
    /\ batch' = batch + 1
    /\ UNCHANGED <<taskVars, breaker>>

\* The last batch is in, all_results is returned; the optimizer and its
\* breaker live on and the next search begins.
NewSearch ==
    /\ batch = LastBatch
    /\ \A t \in Batch : pc[t] = "done"
    /\ batch' = 1
    /\ pc' = [t \in Tasks |-> "waiting"]
    /\ attempt' = [t \in Tasks |-> 0]
    /\ result' = [t \in Tasks |-> "none"]
    /\ UNCHANGED breaker

Tick == Age /\ UNCHANGED <<batch, taskVars>>

TaskStep(t) ==
    \/ Start(t) \/ Wake(t)
    \/ CallSucceeds(t) \/ UnsuccessfulResult(t) \/ CallFails(t) \/ QuotaExceeded(t)

Next ==
    \/ \E t \in Tasks : TaskStep(t)
    \/ NextBatch \/ NewSearch
    \/ Tick

Spec == Init /\ [][Next]_vars

\* The event loop runs whatever is ready, wait_for ends every call, sleeps end
\* and the clock runs.
Fairness ==
    /\ \A t \in Tasks : WF_vars(TaskStep(t))
    /\ WF_vars(NextBatch) /\ WF_vars(NewSearch) /\ WF_vars(Tick)

FairSpec == Spec /\ Fairness

-----------------------------------------------------------------------------
(* Properties *)

\* A fallback is given for one of two reasons: the task's own last retry failed,
\* or FailureThreshold failures were counted since the last success. No
\* interleaving of late answers makes the breaker refuse without that cause.
FallbackJustified ==
    [][\A t \in Tasks :
          (result[t] = "none" /\ result'[t] = "fallback")
              => \/ pc[t] = "calling" /\ attempt[t] = MaxRetries
                 \/ failure_count >= FailureThreshold]_vars

\* all_results is complete and in order: every location of an earlier batch
\* has its answer, none of a later batch has been touched, and a task holds an
\* answer exactly when it is done.
BatchesInOrder ==
    \A t \in Tasks :
        /\ BatchOf(t) < batch => pc[t] = "done"
        /\ BatchOf(t) > batch => pc[t] = "waiting" /\ attempt[t] = 0
        /\ pc[t] = "done" <=> result[t] # "none"

\* A task keeps its semaphore permit while it backs off, and still no more
\* than max_concurrent_requests of them are between two tries or in a call.
ConcurrencyBounded == Cardinality(Holders) <= MaxConcurrent

\* Late failures of calls admitted before the breaker opened renew
\* last_failure_time, but nobody new is admitted: as long as searches keep
\* coming the breaker leaves OPEN, even if the service never works again.
OpenEnds == cb_state = "OPEN" ~> cb_state # "OPEN"

\* Every search returns, whatever the service does.
SearchCompletes == batch = 1 ~> (batch = LastBatch /\ \A t \in Batch : pc[t] = "done")

\* What holds in every state of the batch runners: of the answers, of the
\* semaphore and of the breaker that the wrappers share.
BatchesSafe ==
    TypeOK /\ ClosedBelowThreshold /\ BatchesInOrder /\ ConcurrencyBounded
==============================================================================
