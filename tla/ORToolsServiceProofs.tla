------------------------ MODULE ORToolsServiceProofs ------------------------
(***************************************************************************)
(* Proofs about ORToolsService, for any number of users, any threshold and *)
(* any recovery timeout and health TTL.                                    *)
(***************************************************************************)
EXTENDS ORToolsService, TLAPS

\* The first failure of an outage, and after it every failed probe, is paid
\* for with the age of the cached "healthy" answer: while that answer lasts,
\* the probes made so far took (failure_count - FailureThreshold) whole
\* recovery timeouts, and failure_age ticks passed since the last.
ProbesPaidFor ==
    (cb_state = "OPEN" /\ health = "healthy" /\ health_age < HealthTTL)
        => (failure_count - FailureThreshold) * (RecoveryTimeout + 1) + failure_age
               <= health_age

\* The inductive invariant. ProbesBounded alone is not inductive: a probe
\* raises the product, and only the age of the cached answer limits it.
IInv == TypeOK /\ OpenAgreesWithCount /\ ProbesPaidFor /\ ProbesBounded

USE ServiceAssumption

-----------------------------------------------------------------------------
\* One more probe costs one more recovery timeout.
LEMMA OneMore ==
    ASSUME NEW a \in Int, NEW b \in Int
    PROVE  (a + 1) * b = a * b + b
BY SMT

\* Below the threshold the product is not positive.
LEMMA NotPositive ==
    ASSUME NEW a \in Int, a <= 0, NEW b \in Nat
    PROVE  a * b <= 0
BY SMT

\* The invariant holds initially.
LEMMA InitIInv == Init => IInv
<1> SUFFICES ASSUME Init PROVE IInv
    OBVIOUS
<1>1. TypeOK /\ OpenAgreesWithCount /\ ProbesPaidFor
    BY DEF Init, TypeOK, OpenAgreesWithCount, ProbesPaidFor, NoFailure, Purposes
<1>2. ProbesBounded
    <2>1. (0 - FailureThreshold) * (RecoveryTimeout + 1) <= 0
        BY NotPositive
    <2> QED BY <2>1 DEF Init, ProbesBounded
<1> QED BY <1>1, <1>2 DEF IInv

\* What one run through the breaker can do: refuse or leave it alone, close
\* it, count a failure while it stays CLOSED, open it, or fail a probe.
LEMMA BreakerRun ==
    ASSUME IInv, ExecuteORTools
    PROVE  \/ UNCHANGED breaker
           \/ cb_state' = "CLOSED" /\ failure_count' = 0 /\ failure_age' = failure_age
           \/ /\ cb_state' = "CLOSED" /\ failure_age' = 0
              /\ failure_count' = failure_count + 1 /\ failure_count' < FailureThreshold
           \/ /\ cb_state' = "OPEN" /\ failure_age' = 0
              /\ failure_count' = FailureThreshold
           \/ /\ cb_state = "OPEN" /\ failure_age = RecoveryTimeout + 1
              /\ cb_state' = "OPEN" /\ failure_age' = 0
              /\ failure_count' = failure_count + 1 /\ failure_count >= FailureThreshold
<1>1. CASE cb_state = "OPEN"
    BY <1>1 DEF IInv, TypeOK, OpenAgreesWithCount, ExecuteORTools, ExecutionSucceeds,
                ExecutionFails, breaker
<1>2. CASE cb_state # "OPEN"
    BY <1>2 DEF IInv, TypeOK, OpenAgreesWithCount, ExecuteORTools, ExecutionSucceeds,
                ExecutionFails, breaker
<1> QED BY <1>1, <1>2

\* A run through the breaker behind a healthy answer of age `age` keeps every
\* part of the invariant that mentions the breaker.
LEMMA RunKeeps ==
    ASSUME IInv, ExecuteORTools,
           health' = "healthy", health_age' \in 0..HealthTTL,
           \/ cb_state = "CLOSED"
           \/ health = "healthy" /\ health_age' = health_age /\ health_age < HealthTTL
    PROVE  /\ cb_state' \in {"CLOSED", "OPEN"}
           /\ failure_count' \in Nat
           /\ failure_age' \in NoFailure..(RecoveryTimeout + 1)
           /\ OpenAgreesWithCount' /\ ProbesPaidFor' /\ ProbesBounded'
<1> DEFINE Cost == (failure_count - FailureThreshold) * (RecoveryTimeout + 1)
<1>1. /\ failure_count \in Nat /\ failure_age \in NoFailure..(RecoveryTimeout + 1)
      /\ health_age \in 0..HealthTTL /\ cb_state \in {"CLOSED", "OPEN"}
    BY DEF IInv, TypeOK
<1>2. CASE UNCHANGED breaker
    BY <1>1, <1>2 DEF IInv, breaker, OpenAgreesWithCount, ProbesPaidFor, ProbesBounded, NoFailure
<1>3. CASE cb_state' = "CLOSED" /\ failure_count' = 0 /\ failure_age' = failure_age
    <2>1. (0 - FailureThreshold) * (RecoveryTimeout + 1) <= 0
        BY NotPositive
    <2> QED BY <1>1, <1>3, <2>1 DEF OpenAgreesWithCount, ProbesPaidFor, ProbesBounded
<1>4. CASE /\ cb_state' = "CLOSED" /\ failure_age' = 0
           /\ failure_count' = failure_count + 1 /\ failure_count' < FailureThreshold
    <2>1. (failure_count' - FailureThreshold) * (RecoveryTimeout + 1) <= 0
        BY <1>1, <1>4, NotPositive
    <2> QED BY <1>1, <1>4, <2>1 DEF OpenAgreesWithCount, ProbesPaidFor, ProbesBounded, NoFailure
<1>5. CASE /\ cb_state' = "OPEN" /\ failure_age' = 0
           /\ failure_count' = FailureThreshold
    <2>1. (failure_count' - FailureThreshold) * (RecoveryTimeout + 1) = 0
        BY <1>5
    <2> QED BY <1>1, <1>5, <2>1 DEF OpenAgreesWithCount, ProbesPaidFor, ProbesBounded, NoFailure
<1>6. CASE /\ cb_state = "OPEN" /\ failure_age = RecoveryTimeout + 1
           /\ cb_state' = "OPEN" /\ failure_age' = 0
           /\ failure_count' = failure_count + 1 /\ failure_count >= FailureThreshold
    <2>1. health = "healthy" /\ health_age' = health_age /\ health_age < HealthTTL
        BY <1>6
    <2>2. Cost + (RecoveryTimeout + 1) <= health_age
        BY <1>6, <2>1 DEF IInv, ProbesPaidFor
    <2>3. (failure_count' - FailureThreshold) * (RecoveryTimeout + 1)
              = Cost + (RecoveryTimeout + 1)
        <3>1. failure_count' - FailureThreshold = (failure_count - FailureThreshold) + 1
            BY <1>1, <1>6
        <3>2. failure_count - FailureThreshold \in Int /\ RecoveryTimeout + 1 \in Int
            BY <1>1
        <3> HIDE DEF Cost
        <3>3. ((failure_count - FailureThreshold) + 1) * (RecoveryTimeout + 1)
                  = Cost + (RecoveryTimeout + 1)
            BY <3>2, OneMore DEF Cost
        <3> QED BY <3>1, <3>3
    <2>4. Cost \in Int
        BY <1>1
    <2> HIDE DEF Cost
    <2> QED BY <1>1, <1>6, <2>1, <2>2, <2>3, <2>4
            DEF OpenAgreesWithCount, ProbesPaidFor, ProbesBounded, NoFailure
<1> QED BY <1>2, <1>3, <1>4, <1>5, <1>6, BreakerRun

\* Every step keeps the invariant.
LEMMA StepIInv == IInv /\ [Next]_vars => IInv'
<1> SUFFICES ASSUME IInv, [Next]_vars PROVE IInv'
    OBVIOUS
<1> USE DEF Purposes
<1>1. ASSUME NEW u \in Users, NEW purpose \in Purposes, CachedHealth(u, purpose)
      PROVE  IInv'
    <2>1. CASE purpose = "optimize" /\ health = "healthy"
        <3>1. ExecuteORTools /\ health' = "healthy" /\ health_age' \in 0..HealthTTL
            BY <1>1, <2>1 DEF CachedHealth, IInv, TypeOK
        <3>2. health = "healthy" /\ health_age' = health_age /\ health_age < HealthTTL
            BY <1>1, <2>1 DEF CachedHealth, IInv, TypeOK
        <3> QED BY <1>1, <3>1, <3>2, RunKeeps DEF CachedHealth, IInv, TypeOK
    <2>2. CASE ~(purpose = "optimize" /\ health = "healthy")
        BY <1>1, <2>2 DEF CachedHealth, IInv, TypeOK, breaker, OpenAgreesWithCount,
                          ProbesPaidFor, ProbesBounded
    <2> QED BY <2>1, <2>2
<1>2. ASSUME NEW u \in Users, NEW purpose \in Purposes, StartHealthTest(u, purpose)
      PROVE  IInv'
    <2>1. /\ pc' \in [Users -> {"idle"} \cup Purposes]
          /\ check_age' \in [Users -> 0..HealthTTL]
        <3>1. \/ /\ pc' = [pc EXCEPT ![u] = purpose]
                 /\ check_age' = [check_age EXCEPT ![u] = 0]
              \/ UNCHANGED <<pc, check_age>>
            BY <1>2, Zenon DEF StartHealthTest
        <3> QED BY <3>1 DEF IInv, TypeOK
    <2>2. initialized' \in BOOLEAN
        BY <1>2, Zenon DEF StartHealthTest, IInv, TypeOK
    <2>3. UNCHANGED <<health, health_age, breaker>>
        BY <1>2, Zenon DEF StartHealthTest
    <2> QED BY <2>1, <2>2, <2>3 DEF IInv, TypeOK, breaker, OpenAgreesWithCount,
                              ProbesPaidFor, ProbesBounded
<1>3. ASSUME NEW u \in Users, NEW test_ok \in BOOLEAN, FinishHealthTest(u, test_ok)
      PROVE  IInv'
    <2>1. /\ pc' \in [Users -> {"idle"} \cup Purposes]
          /\ check_age' \in [Users -> 0..HealthTTL] /\ initialized' \in BOOLEAN
          /\ health' \in {"healthy", "unhealthy"} /\ health_age' \in 0..HealthTTL
        BY <1>3 DEF FinishHealthTest, IInv, TypeOK
    <2>2. CASE test_ok /\ cb_state = "CLOSED" /\ pc[u] = "optimize"
        <3>1. ExecuteORTools /\ health' = "healthy"
            BY <1>3, <2>2 DEF FinishHealthTest
        <3> QED BY <2>1, <2>2, <3>1, RunKeeps DEF IInv, TypeOK
    <2>3. CASE ~(test_ok /\ cb_state = "CLOSED" /\ pc[u] = "optimize")
        <3>1. UNCHANGED breaker /\ (cb_state = "OPEN" => health' = "unhealthy")
            BY <1>3, <2>3 DEF FinishHealthTest
        <3> QED BY <2>1, <3>1 DEF IInv, TypeOK, breaker, OpenAgreesWithCount,
                                  ProbesPaidFor, ProbesBounded
    <2> QED BY <2>2, <2>3
<1>4. ASSUME Tick PROVE IInv'
    <2>1. TypeOK'
        BY <1>4 DEF Tick, Saturated, IInv, TypeOK, NoFailure
    <2>2. OpenAgreesWithCount' /\ ProbesBounded'
        BY <1>4 DEF Tick, IInv, OpenAgreesWithCount, ProbesBounded
    <2>3. ProbesPaidFor'
        <3> DEFINE Cost == (failure_count - FailureThreshold) * (RecoveryTimeout + 1)
        <3>1. Cost \in Int
            BY DEF IInv, TypeOK
        <3>2. Cost' = Cost
            BY <1>4 DEF Tick
        <3>3. (cb_state = "OPEN" /\ health = "healthy" /\ health_age < HealthTTL)
                  => Cost + failure_age <= health_age
            BY DEF IInv, ProbesPaidFor
        <3>4. health_age' < HealthTTL => health_age' = health_age + 1 /\ health_age < HealthTTL
            BY <1>4 DEF Tick, Saturated, IInv, TypeOK
        <3>5. failure_age' \in Int /\ failure_age \in Int /\ failure_age' <= failure_age + 1
            BY <1>4 DEF Tick, Saturated, IInv, TypeOK, NoFailure
        <3>6. cb_state' = cb_state /\ health' = health /\ health_age \in Int
            BY <1>4 DEF Tick, IInv, TypeOK
        <3>7. ProbesPaidFor' <=> ((cb_state' = "OPEN" /\ health' = "healthy" /\ health_age' < HealthTTL)
                  => Cost' + failure_age' <= health_age')
            BY DEF ProbesPaidFor
        <3> HIDE DEF Cost
        <3> QED BY <3>1, <3>2, <3>3, <3>4, <3>5, <3>6, <3>7
    <2> QED BY <2>1, <2>2, <2>3 DEF IInv
<1>5. CASE UNCHANGED vars
    BY <1>5 DEF vars, breaker, IInv, TypeOK, OpenAgreesWithCount, ProbesPaidFor, ProbesBounded
<1> QED BY <1>1, <1>2, <1>3, <1>4, <1>5 DEF Next

\* The inductive invariant holds in every behaviour of the service.
THEOREM Invariant == Spec => []IInv
BY InitIInv, StepIInv, PTL DEF Spec

\* Type correctness: in particular HALF_OPEN is never left behind by a run.
THEOREM TypeCorrect == Spec => []TypeOK
<1>1. IInv => TypeOK
    BY DEF IInv
<1> QED BY <1>1, Invariant, PTL

\* The breaker is OPEN exactly when the counter has reached the threshold.
THEOREM OpenIffCount == Spec => []OpenAgreesWithCount
<1>1. IInv => OpenAgreesWithCount
    BY DEF IInv
<1> QED BY <1>1, Invariant, PTL

\* However many users call, an outage sees a bounded number of probes.
THEOREM Probes == Spec => []ProbesBounded
<1>1. IInv => ProbesBounded
    BY DEF IInv
<1> QED BY <1>1, Invariant, PTL

-----------------------------------------------------------------------------
\* The health check and the breaker wait for each other: once the breaker is
\* OPEN without a fresh "healthy" answer, it stays so for ever.
THEOREM Lockout == Spec => LockoutIsPermanent
<1>1. IInv /\ [Next]_vars => (LockedOut => LockedOut')
    <2> SUFFICES ASSUME IInv, [Next]_vars, LockedOut PROVE LockedOut'
        OBVIOUS
    <2>1. ASSUME NEW u \in Users, NEW purpose \in Purposes, CachedHealth(u, purpose)
          PROVE  LockedOut'
        <3>1. health # "healthy"
            BY <2>1 DEF CachedHealth, LockedOut, IInv, TypeOK
        <3> QED BY <2>1, <3>1 DEF CachedHealth, LockedOut, breaker
    <2>2. ASSUME NEW u \in Users, NEW purpose \in Purposes, StartHealthTest(u, purpose)
          PROVE  LockedOut'
        BY <2>2 DEF StartHealthTest, LockedOut, breaker
    <2>3. ASSUME NEW u \in Users, NEW test_ok \in BOOLEAN, FinishHealthTest(u, test_ok)
          PROVE  LockedOut'
        BY <2>3 DEF FinishHealthTest, LockedOut, breaker
    <2>4. ASSUME Tick PROVE LockedOut'
        BY <2>4 DEF Tick, Saturated, LockedOut, IInv, TypeOK
    <2>5. CASE UNCHANGED vars
        BY <2>5 DEF vars, breaker, LockedOut
    <2> QED BY <2>1, <2>2, <2>3, <2>4, <2>5 DEF Next
<1> QED BY <1>1, Invariant, PTL DEF LockoutIsPermanent, Spec

\* All that is checked of the states of the service.
THEOREM Safe == Spec => []ServiceSafe
<1>1. TypeOK /\ ProbesBounded /\ OpenAgreesWithCount => ServiceSafe
    BY DEF ServiceSafe
<1> QED BY <1>1, TypeCorrect, Probes, OpenIffCount, PTL
=============================================================================
