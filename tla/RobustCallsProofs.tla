-------------------------- MODULE RobustCallsProofs --------------------------
(***************************************************************************)
(* Theorems about RobustCalls, for any number of tasks, any batch size,    *)
(* any number of retries and any threshold and timeout of the breaker.     *)
(***************************************************************************)
EXTENDS RobustCalls, FiniteSetTheorems, TLAPS

\* The inductive invariant: the types, the agreement between the state of the
\* breaker and its counter, the order of the batches, and that whoever sleeps
\* has a retry left. A call in flight was admitted in some earlier state of the
\* breaker, so each of its outcomes has to keep the agreement from every state.
SleepersHaveRetries == \A t \in Tasks : pc[t] = "sleeping" => attempt[t] < MaxRetries

IInv == TypeOK /\ ClosedBelowThreshold /\ BatchesInOrder /\ SleepersHaveRetries

\* The parts of the invariant that speak of the breaker only.
BreakerInv == BreakerTypeOK /\ ClosedBelowThreshold

USE BreakerAssumption, RobustAssumption

-----------------------------------------------------------------------------
\* The first and the last batch are numbers, and the first is not after the
\* last.
LEMMA BatchType ==
    /\ \A t \in Tasks : BatchOf(t) \in Nat \ {0}
    /\ LastBatch \in Nat \ {0}
BY DEF Tasks, BatchOf, LastBatch

LEMMA InitIInv == Init => IInv
<1> SUFFICES ASSUME Init PROVE IInv
    OBVIOUS
<1>1. TypeOK
    BY BatchType DEF Init, BreakerInit, TypeOK, BreakerTypeOK, Answers, NoFailure
<1>2. ClosedBelowThreshold
    BY DEF Init, BreakerInit, ClosedBelowThreshold
<1>3. BatchesInOrder
    BY BatchType DEF Init, BatchesInOrder
<1>4. SleepersHaveRetries
    BY DEF Init, SleepersHaveRetries
<1> QED BY <1>1, <1>2, <1>3, <1>4 DEF IInv

\* Every method of the breaker keeps its own invariant from every state.
LEMMA BreakerKeeps ==
    ASSUME BreakerInv,
           Refused \/ Admit \/ RecordSuccess \/ RecordFailure \/ Age \/ UNCHANGED breaker
    PROVE  BreakerInv'
<1> USE DEF BreakerInv, BreakerTypeOK, ClosedBelowThreshold, NoFailure
<1>1. CASE Refused \/ UNCHANGED breaker
    BY <1>1 DEF Refused, breaker
<1>2. CASE Admit
    BY <1>2 DEF Admit
<1>3. CASE RecordSuccess
    BY <1>3 DEF RecordSuccess
<1>4. CASE RecordFailure
    BY <1>4 DEF RecordFailure
<1>5. CASE Age
    BY <1>5 DEF Age
<1> QED BY <1>1, <1>2, <1>3, <1>4, <1>5

\* What a step of task t does to the tasks: t, which belongs to the current
\* batch and is not done, goes to place p with loop variable n and answer a.
Moves(t, p, n, a) ==
    /\ batch' = batch
    /\ pc' = [pc EXCEPT ![t] = p]
    /\ attempt' = [attempt EXCEPT ![t] = n]
    /\ result' = [result EXCEPT ![t] = a]

\* A task that is neither waiting nor done belongs to the current batch.
LEMMA ActiveInBatch ==
    ASSUME IInv, NEW t \in Tasks, pc[t] \notin {"waiting", "done"}
    PROVE  BatchOf(t) = batch
<1>1. BatchOf(t) \in Int /\ batch \in Int
    BY BatchType DEF IInv, TypeOK
<1>2. ~(BatchOf(t) < batch) /\ ~(BatchOf(t) > batch)
    BY DEF IInv, BatchesInOrder
<1> QED BY <1>1, <1>2

\* Moving one task of the current batch keeps the parts of the invariant that
\* speak of tasks.
LEMMA MoveKeeps ==
    ASSUME IInv, BreakerInv', NEW t \in Tasks, BatchOf(t) = batch,
           NEW p \in {"calling", "sleeping", "done"}, NEW n \in 0..MaxRetries,
           NEW a \in Answers \cup {"none"}, Moves(t, p, n, a),
           p = "done" <=> a # "none", p = "sleeping" => n < MaxRetries
    PROVE  IInv'
<1>1. TypeOK'
    BY DEF IInv, TypeOK, BreakerInv, Moves
<1>2. BatchesInOrder'
    <2> SUFFICES ASSUME NEW u \in Tasks
                 PROVE  /\ BatchOf(u) < batch' => pc'[u] = "done"
                        /\ BatchOf(u) > batch' => pc'[u] = "waiting" /\ attempt'[u] = 0
                        /\ pc'[u] = "done" <=> result'[u] # "none"
        BY DEF BatchesInOrder
    <2>1. batch \in Int
        BY DEF IInv, TypeOK
    <2>2. CASE u = t
        BY <2>1, <2>2 DEF IInv, TypeOK, Moves
    <2>3. CASE u # t
        <3>1. pc'[u] = pc[u] /\ attempt'[u] = attempt[u] /\ result'[u] = result[u]
            BY <2>3 DEF IInv, TypeOK, Moves
        <3> QED BY <3>1 DEF IInv, BatchesInOrder, Moves
    <2> QED BY <2>2, <2>3
<1>3. SleepersHaveRetries'
    BY DEF IInv, TypeOK, SleepersHaveRetries, Moves
<1> QED BY <1>1, <1>2, <1>3 DEF IInv, BreakerInv

\* A step of a task is such a move, together with a method of the breaker.
LEMMA TaskKeeps ==
    ASSUME IInv, NEW t \in Tasks, TaskStep(t)
    PROVE  IInv'
<1> USE DEF Answers
<1>0. BreakerInv /\ attempt[t] \in 0..MaxRetries /\ result[t] \in Answers \cup {"none"}
    BY DEF IInv, TypeOK, BreakerInv
<1>1. /\ pc[t] # "done" => result[t] = "none"
      /\ attempt = [attempt EXCEPT ![t] = attempt[t]]
      /\ result = [result EXCEPT ![t] = result[t]]
    BY DEF IInv, TypeOK, BatchesInOrder
<1>2. ASSUME NEW n \in 0..MaxRetries, Attempt(t), BatchOf(t) = batch, pc[t] # "done",
             batch' = batch, attempt' = [attempt EXCEPT ![t] = n]
      PROVE  IInv'
    <2>1. BreakerInv'
        BY <1>0, <1>2, BreakerKeeps DEF Attempt
    <2>2. Moves(t, "done", n, "fallback") \/ Moves(t, "calling", n, "none")
        BY <1>1, <1>2 DEF Attempt, Answer, Moves
    <2> QED BY <1>2, <2>1, <2>2, MoveKeeps
<1>3. CASE Start(t)
    BY <1>0, <1>1, <1>2, <1>3 DEF Start, Batch
<1>4. CASE Wake(t)
    <2>1. BatchOf(t) = batch
        BY <1>4, ActiveInBatch DEF Wake
    <2>2. attempt[t] + 1 \in 0..MaxRetries
        BY <1>0, <1>4 DEF Wake, IInv, SleepersHaveRetries
    <2> QED BY <1>2, <1>4, <2>1, <2>2 DEF Wake
<1>5. CASE CallSucceeds(t)
    <2>1. BatchOf(t) = batch
        BY <1>5, ActiveInBatch DEF CallSucceeds
    <2>2. BreakerInv'
        BY <1>0, <1>5, BreakerKeeps DEF CallSucceeds
    <2>3. Moves(t, "done", attempt[t], "service")
        BY <1>1, <1>5 DEF CallSucceeds, Answer, Moves
    <2> QED BY <1>0, <2>1, <2>2, <2>3, MoveKeeps
<1>6. CASE CallFails(t)
    <2>1. BatchOf(t) = batch
        BY <1>6, ActiveInBatch DEF CallFails
    <2>2. BreakerInv'
        BY <1>0, <1>6, BreakerKeeps DEF CallFails
    <2>3. \/ attempt[t] < MaxRetries /\ Moves(t, "sleeping", attempt[t], "none")
          \/ Moves(t, "done", attempt[t], "fallback")
        BY <1>1, <1>6 DEF CallFails, RetryOrFallBack, Answer, Moves
    <2> QED BY <1>0, <2>1, <2>2, <2>3, MoveKeeps
<1>7. CASE QuotaExceeded(t)
    <2>1. BatchOf(t) = batch
        BY <1>7, ActiveInBatch DEF QuotaExceeded
    <2>2. BreakerInv'
        BY <1>0, <1>7, BreakerKeeps DEF QuotaExceeded
    <2>3. Moves(t, "done", attempt[t], "synthetic")
        BY <1>1, <1>7 DEF QuotaExceeded, Answer, Moves
    <2> QED BY <1>0, <2>1, <2>2, <2>3, MoveKeeps
<1>8. CASE UnsuccessfulResult(t)
    <2>1. BatchOf(t) = batch
        BY <1>8, ActiveInBatch DEF UnsuccessfulResult
    <2>2. BreakerInv'
        BY <1>0, <1>8, BreakerKeeps DEF UnsuccessfulResult
    <2>3. \/ attempt[t] < MaxRetries /\ Moves(t, "sleeping", attempt[t], "none")
          \/ Moves(t, "done", attempt[t], "fallback")
        BY <1>1, <1>8 DEF UnsuccessfulResult, RetryOrFallBack, Answer, Moves
    <2> QED BY <1>0, <2>1, <2>2, <2>3, MoveKeeps
<1> QED BY <1>3, <1>4, <1>5, <1>6, <1>7, <1>8 DEF TaskStep

\* Every step keeps the invariant.
LEMMA StepIInv == IInv /\ [Next]_vars => IInv'
<1> SUFFICES ASSUME IInv, [Next]_vars PROVE IInv'
    OBVIOUS
<1>1. CASE \E t \in Tasks : TaskStep(t)
    BY <1>1, TaskKeeps
<1>2. CASE NextBatch
    <2>1. TypeOK' /\ ClosedBelowThreshold' /\ SleepersHaveRetries'
        BY <1>2, BatchType DEF NextBatch, taskVars, breaker, IInv, TypeOK, BreakerTypeOK,
                               ClosedBelowThreshold, SleepersHaveRetries
    <2>2. BatchesInOrder'
        <3> SUFFICES ASSUME NEW u \in Tasks
                     PROVE  /\ BatchOf(u) < batch' => pc'[u] = "done"
                            /\ BatchOf(u) > batch' => pc'[u] = "waiting" /\ attempt'[u] = 0
                            /\ pc'[u] = "done" <=> result'[u] # "none"
            BY DEF BatchesInOrder
        <3>1. batch \in Int /\ BatchOf(u) \in Int
            BY BatchType DEF IInv, TypeOK
        <3>2. BatchOf(u) = batch => pc[u] = "done"
            BY <1>2 DEF NextBatch, Batch
        <3> QED BY <1>2, <3>1, <3>2 DEF NextBatch, taskVars, IInv, BatchesInOrder
    <2> QED BY <2>1, <2>2 DEF IInv
<1>3. CASE NewSearch
    <2>1. BreakerTypeOK' /\ ClosedBelowThreshold'
        BY <1>3 DEF NewSearch, breaker, IInv, TypeOK, BreakerTypeOK, ClosedBelowThreshold
    <2>2. TypeOK' /\ SleepersHaveRetries'
        BY <1>3, <2>1, BatchType DEF NewSearch, TypeOK, SleepersHaveRetries, Answers
    <2>3. BatchesInOrder'
        BY <1>3, BatchType DEF NewSearch, BatchesInOrder
    <2> QED BY <2>1, <2>2, <2>3 DEF IInv
<1>4. CASE Tick
    <2>1. BreakerInv'
        BY <1>4, BreakerKeeps DEF Tick, IInv, TypeOK, BreakerInv
    <2> QED BY <1>4, <2>1 DEF Tick, taskVars, IInv, TypeOK, BreakerInv, BatchesInOrder,
                              SleepersHaveRetries
<1>5. CASE UNCHANGED vars
    BY <1>5 DEF vars, taskVars, breaker, IInv, TypeOK, BreakerTypeOK, ClosedBelowThreshold,
                BatchesInOrder, SleepersHaveRetries
<1> QED BY <1>1, <1>2, <1>3, <1>4, <1>5 DEF Next

\* The inductive invariant holds in every behaviour.
THEOREM Invariant == Spec => []IInv
BY InitIInv, StepIInv, PTL DEF Spec

\* Type correctness: in particular no task makes more than MaxRetries + 1 tries.
THEOREM TypeCorrect == Spec => []TypeOK
<1>1. IInv => TypeOK
    BY DEF IInv
<1> QED BY <1>1, Invariant, PTL

\* The state of the breaker follows its counter under every interleaving of
\* admissions and late outcomes.
THEOREM BreakerAgrees == Spec => []ClosedBelowThreshold
<1>1. IInv => ClosedBelowThreshold
    BY DEF IInv
<1> QED BY <1>1, Invariant, PTL

\* Batches are gathered one after the other and leave no location unanswered.
THEOREM BatchOrder == Spec => []BatchesInOrder
<1>1. IInv => BatchesInOrder
    BY DEF IInv
<1> QED BY <1>1, Invariant, PTL

-----------------------------------------------------------------------------
\* Nobody is given a fallback without one of the two causes.
THEOREM Justified == Spec => FallbackJustified
<1> DEFINE Cause(t) ==
        (result[t] = "none" /\ result'[t] = "fallback")
            => \/ pc[t] = "calling" /\ attempt[t] = MaxRetries
               \/ failure_count >= FailureThreshold
<1>1. IInv /\ [Next]_vars => \A t \in Tasks : Cause(t)
    <2> SUFFICES ASSUME IInv, [Next]_vars, NEW t \in Tasks,
                        result[t] = "none", result'[t] = "fallback"
                 PROVE  \/ pc[t] = "calling" /\ attempt[t] = MaxRetries
                        \/ failure_count >= FailureThreshold
        OBVIOUS
    <2>0. /\ result \in [Tasks -> Answers \cup {"none"}] /\ attempt[t] \in 0..MaxRetries
          /\ failure_count \in Int
          /\ cb_state = "OPEN" => ~(failure_count < FailureThreshold)
        BY DEF IInv, TypeOK, BreakerTypeOK, ClosedBelowThreshold
    <2>1. ASSUME NEW u \in Tasks, Attempt(u)
          PROVE  failure_count >= FailureThreshold
        <3>1. Refused
            BY <2>1, <2>0 DEF Attempt
        <3> QED BY <2>0, <3>1 DEF Refused
    <2>2. ASSUME NEW u \in Tasks, TaskStep(u)
          PROVE  \/ pc[t] = "calling" /\ attempt[t] = MaxRetries
                 \/ failure_count >= FailureThreshold
        <3>1. CASE Start(u) \/ Wake(u)
            BY <2>1, <3>1 DEF Start, Wake
        <3>2. CASE CallFails(u) \/ UnsuccessfulResult(u)
            BY <2>0, <3>2 DEF CallFails, UnsuccessfulResult, RetryOrFallBack, Answer
        <3>3. CASE CallSucceeds(u) \/ QuotaExceeded(u)
            BY <2>0, <3>3 DEF CallSucceeds, QuotaExceeded, Answer, Answers
        <3> QED BY <2>2, <3>1, <3>2, <3>3 DEF TaskStep
    <2>3. CASE NextBatch \/ NewSearch \/ Tick \/ UNCHANGED vars
        BY <2>3 DEF NextBatch, NewSearch, Tick, taskVars, vars
    <2> QED BY <2>2, <2>3 DEF Next
<1>2. FallbackJustified <=> [][\A t \in Tasks : Cause(t)]_vars
    BY DEF FallbackJustified
<1> QED BY <1>1, <1>2, Invariant, PTL DEF Spec

-----------------------------------------------------------------------------
\* A batch and the holders of the semaphore are finitely many.
LEMMA HoldersFinite ==
    /\ IsFiniteSet(Batch) /\ Cardinality(Batch) \in Nat
    /\ IsFiniteSet(Holders) /\ Cardinality(Holders) \in Nat
<1>1. IsFiniteSet(Tasks)
    BY FS_Interval DEF Tasks
<1>2. Batch \subseteq Tasks /\ Holders \subseteq Tasks
    BY DEF Holders, Batch
<1> QED BY <1>1, <1>2, FS_Subset, FS_CardinalityType

\* There are no more permits than the code's limit.
LEMMA PermitsBounded == Permits \in Int => Permits <= MaxConcurrent
    BY DEF Permits

\* Where nobody new holds a permit, the bound stays.
LEMMA NoMoreHolders ==
    ASSUME ConcurrencyBounded, Holders' \subseteq Holders
    PROVE  ConcurrencyBounded'
<1>1. Cardinality(Holders') <= Cardinality(Holders) /\ Cardinality(Holders') \in Nat
    BY HoldersFinite, FS_Subset, FS_CardinalityType
<1> QED BY <1>1, HoldersFinite DEF ConcurrencyBounded

\* Only Start makes a holder of somebody who was not one.
LEMMA StartKeepsBound ==
    ASSUME IInv, ConcurrencyBounded, NEW t \in Tasks, Start(t)
    PROVE  ConcurrencyBounded'
<1>1. Cardinality(Holders) < MaxConcurrent
    <2>1. Permits \in Nat
        BY HoldersFinite DEF Permits
    <2> QED BY <2>1, PermitsBounded, HoldersFinite DEF Start
<1>2. Holders' \subseteq Holders \cup {t}
    BY DEF Start, Attempt, Answer, Holders, Batch, IInv, TypeOK
<1>3. /\ IsFiniteSet(Holders \cup {t})
      /\ Cardinality(Holders \cup {t}) <= Cardinality(Holders) + 1
    <2>1. /\ IsFiniteSet(Holders \cup {t})
          /\ \/ Cardinality(Holders \cup {t}) = Cardinality(Holders)
             \/ Cardinality(Holders \cup {t}) = Cardinality(Holders) + 1
        BY HoldersFinite, FS_AddElement
    <2> QED BY <2>1, HoldersFinite
<1>4. /\ Cardinality(Holders') <= Cardinality(Holders \cup {t})
      /\ Cardinality(Holders') \in Nat /\ Cardinality(Holders \cup {t}) \in Nat
    BY <1>2, <1>3, FS_Subset, FS_CardinalityType
<1> QED BY <1>1, <1>3, <1>4, HoldersFinite DEF ConcurrencyBounded

\* Between two batches nobody holds a permit, everything else releases some.
LEMMA StepKeepsBound == IInv /\ ConcurrencyBounded /\ [Next]_vars => ConcurrencyBounded'
<1> SUFFICES ASSUME IInv, ConcurrencyBounded, [Next]_vars PROVE ConcurrencyBounded'
    OBVIOUS
<1>1. ASSUME NEW t \in Tasks, TaskStep(t) PROVE ConcurrencyBounded'
    <2>1. CASE Start(t)
        BY <2>1, StartKeepsBound
    <2>2. CASE Wake(t)
        <3>1. Holders' \subseteq Holders
            BY <2>2, ActiveInBatch DEF Wake, Attempt, Answer, Holders, Batch, IInv, TypeOK
        <3> QED BY <3>1, NoMoreHolders
    <2>3. CASE CallSucceeds(t) \/ QuotaExceeded(t)
        <3>1. Holders' \subseteq Holders
            BY <2>3 DEF CallSucceeds, QuotaExceeded, Answer, Holders, Batch, IInv, TypeOK
        <3> QED BY <3>1, NoMoreHolders
    <2>4. CASE CallFails(t) \/ UnsuccessfulResult(t)
        <3>1. Holders' \subseteq Holders
            BY <2>4 DEF CallFails, UnsuccessfulResult, RetryOrFallBack, Answer, Holders, Batch,
                        IInv, TypeOK
        <3> QED BY <3>1, NoMoreHolders
    <2> QED BY <1>1, <2>1, <2>2, <2>3, <2>4 DEF TaskStep
<1>2. CASE NextBatch
    <2>1. ASSUME NEW u \in Tasks, BatchOf(u) = batch' PROVE pc'[u] = "waiting"
        <3>1. batch \in Int /\ BatchOf(u) \in Int
            BY BatchType DEF IInv, TypeOK
        <3>2. BatchOf(u) > batch
            BY <1>2, <2>1, <3>1 DEF NextBatch
        <3> QED BY <1>2, <3>2 DEF NextBatch, taskVars, IInv, BatchesInOrder
    <2>2. Holders' = {}
        BY <2>1 DEF Holders, Batch
    <2> QED BY <2>2, NoMoreHolders
<1>3. CASE NewSearch
    <2>1. Holders' = {}
        BY <1>3 DEF NewSearch, Holders, Batch
    <2> QED BY <2>1, NoMoreHolders
<1>4. CASE Tick \/ UNCHANGED vars
    <2>1. Holders' = Holders
        BY <1>4 DEF Tick, vars, taskVars, Holders, Batch
    <2> QED BY <2>1, NoMoreHolders
<1> QED BY <1>1, <1>2, <1>3, <1>4 DEF Next

\* No interleaving of starts, sleeps and answers lets more than
\* max_concurrent_requests tasks hold the semaphore.
THEOREM Throttled == Spec => []ConcurrencyBounded
<1>1. Init => ConcurrencyBounded
    <2> SUFFICES ASSUME Init PROVE ConcurrencyBounded
        OBVIOUS
    <2>1. Holders = {}
        BY DEF Init, Holders, Batch
    <2> QED BY <2>1, FS_EmptySet DEF ConcurrencyBounded
<1> QED BY <1>1, StepKeepsBound, Invariant, PTL DEF Spec

\* All that is checked of the states of the batch runners.
THEOREM Safe == Spec => []BatchesSafe
<1>1. TypeOK /\ ClosedBelowThreshold /\ BatchesInOrder /\ ConcurrencyBounded => BatchesSafe
    BY DEF BatchesSafe
<1> QED BY <1>1, TypeCorrect, BreakerAgrees, BatchOrder, Throttled, PTL
==============================================================================
