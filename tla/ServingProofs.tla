--------------------------- MODULE ServingProofs ----------------------------
(***************************************************************************)
(* Theorems about what serves a request: City2GraphBreaker (the breaker by *)
(* itself), Monitoring (the alerts agree with the window), and what two    *)
(* endpoints promise of an answer, ItineraryEndpoint (complete even when   *)
(* every optimiser has failed) and MultimodalEndpoint (every day filled,   *)
(* no place suggested twice). They hold for any calls, thresholds, windows,*)
(* trips and answers of the services they await.                           *)
(***************************************************************************)
EXTENDS City2GraphBreaker, Monitoring, ItineraryEndpoint, MultimodalEndpoint,
        RecursionLemmas, FunctionTheorems, SequenceTheorems, FiniteSetTheorems, TLAPS

-----------------------------------------------------------------------------
(* City2GraphBreaker *)

USE BreakerAssumption

LEMMA InitSafe == Init => BreakerSafe
    BY DEF Init, BreakerSafe, TypeOK, StateAgreesWithCount, NoFailure

\* One more failure stays within the bound and is seen by the threshold.
LEMMA IncrementBounds ==
    ASSUME NEW n \in 0..MaxFailures
    PROVE  /\ Increment(n) \in 0..MaxFailures
           /\ n >= FailureThreshold => Increment(n) >= FailureThreshold
    BY DEF Increment

\* BreakerSafe is inductive as it stands: a call in flight may have been
\* admitted in any phase, and the outcome of each keeps the agreement of state
\* and counter from every state.
LEMMA StepSafe == BreakerSafe /\ [Next]_vars => BreakerSafe'
<1> SUFFICES ASSUME BreakerSafe, [Next]_vars PROVE BreakerSafe'
    OBVIOUS
<1> USE DEF BreakerSafe, TypeOK, StateAgreesWithCount, NoFailure
<1>1. ASSUME NEW c \in Calls, Admit(c) \/ AdmitProbe(c) PROVE BreakerSafe'
    BY <1>1 DEF Admit, AdmitProbe
<1>2. ASSUME NEW c \in Calls, Succeed(c) PROVE BreakerSafe'
    BY <1>2 DEF Succeed
<1>3. ASSUME NEW c \in Calls, Fail(c) PROVE BreakerSafe'
    <2>1. /\ failure_count' \in 0..MaxFailures
          /\ failure_count >= FailureThreshold => failure_count' >= FailureThreshold
        BY <1>3, IncrementBounds DEF Fail
    <2>2. since_failure' \in NoFailure..(RecoveryTimeout + 1)
        BY <1>3 DEF Fail
    <2>3. /\ state' \in {"CLOSED", "OPEN", "HALF_OPEN"}
          /\ (state' = "CLOSED") <=> (failure_count' < FailureThreshold)
        BY <1>3, <2>1 DEF Fail
    <2> QED BY <1>3, <2>1, <2>2, <2>3 DEF Fail
<1>4. CASE Tick
    BY <1>4 DEF Tick
<1>5. CASE UNCHANGED vars
    BY <1>5 DEF vars
<1> QED BY <1>1, <1>2, <1>3, <1>4, <1>5 DEF Next, Refuse

\* The state of the breaker and its counter agree under every interleaving of
\* admissions, probes and late outcomes.
THEOREM Safe == Spec => []BreakerSafe
    BY InitSafe, StepSafe, PTL DEF Spec

\* A breaker that is over its threshold leaves OPEN only for HALF_OPEN: the late
\* success of a call admitted before the outage does not close it.
THEOREM ProbeFirst == Spec => [][state = "OPEN" => state' # "CLOSED"]_vars
<1>1. BreakerSafe /\ [Next]_vars => [state = "OPEN" => state' # "CLOSED"]_vars
    <2> SUFFICES ASSUME BreakerSafe, [Next]_vars, state = "OPEN" PROVE state' # "CLOSED"
        OBVIOUS
    <2>1. ASSUME NEW c \in Calls,
                 Admit(c) \/ AdmitProbe(c) \/ Refuse(c) \/ Succeed(c) \/ Fail(c)
          PROVE  state' # "CLOSED"
        BY <2>1 DEF Admit, AdmitProbe, Refuse, Succeed, Fail, vars
    <2>2. CASE Tick \/ UNCHANGED vars
        BY <2>2 DEF Tick, vars
    <2> QED BY <2>1, <2>2 DEF Next
<1> QED BY <1>1, Safe, PTL DEF Spec

HIDE BreakerAssumption

-----------------------------------------------------------------------------
(* Monitoring *)

Metric == [in_window : BOOLEAN, status : Statuses, method : Methods]

MonitorTypes ==
    /\ metrics \in Seq(Metric) /\ Len(metrics) <= MaxMetrics
    /\ current_window \in [Statuses -> Nat]
    /\ window_over \in BOOLEAN

\* The n metrics of the window that are still in the deque are its last ones.
WindowIsSuffix(q, n) ==
    /\ \A i \in DOMAIN q : q[i].in_window <=> i + n > Len(q)
    /\ Len(q) >= (IF n < MaxMetrics THEN n ELSE MaxMetrics)

InWindow(q, s) == {i \in DOMAIN q : q[i].in_window /\ q[i].status = s}

Counted(q, w) == \A s \in Statuses : Cardinality(InWindow(q, s)) <= w[s]

AlertsAgree == Total(current_window) >= MinData => active_alerts = Alerting(current_window)

\* The inductive invariant: nothing is said of a window that is over, whose
\* counters and deque drift apart until it is replaced.
MonitorInv ==
    /\ MonitorTypes
    /\ ~window_over => /\ WindowIsSuffix(metrics, Total(current_window))
                       /\ Counted(metrics, current_window)
                       /\ AlertsAgree

\* What deque.append does.
LEMMA AppendedMetric ==
    ASSUME NEW q \in Seq(Metric), Len(q) <= MaxMetrics, NEW x \in Metric
    PROVE  \E drop \in {0, 1} :
              /\ Appended(q, x) \in Seq(Metric)
              /\ Len(Appended(q, x)) <= MaxMetrics
              /\ Len(Appended(q, x)) = Len(q) + 1 - drop
              /\ drop = 1 => Len(q) >= MaxMetrics
              /\ Appended(q, x)[Len(Appended(q, x))] = x
              /\ \A i \in 1..(Len(Appended(q, x)) - 1) :
                    i + drop \in DOMAIN q /\ Appended(q, x)[i] = q[i + drop]
<1>1. /\ MaxMetrics \in Nat /\ MaxMetrics > 0 /\ Len(q) \in Nat /\ DOMAIN q = 1..Len(q)
      /\ Len(q) < MaxMetrics \/ Len(q) >= MaxMetrics
    BY MonitorAssumption
<1>2. CASE Len(q) < MaxMetrics
    <2> DEFINE r == Append(q, x)
    <2>1. Appended(q, x) = r
        BY <1>2 DEF Appended
    <2>2. r \in Seq(Metric) /\ Len(r) = Len(q) + 1
        BY AppendProperties
    <2>3. r[Len(q) + 1] = x
        BY AppendProperties
    <2>4. \A i \in 1..Len(q) : r[i] = q[i]
        BY AppendProperties
    <2> HIDE DEF r
    <2>5. Len(r) - 1 = Len(q) /\ Len(r) = Len(q) + 1 - 0 /\ Len(r) <= MaxMetrics
        BY <1>1, <1>2, <2>2
    <2>6. r[Len(r)] = x
        BY <2>2, <2>3
    <2>7. \A i \in 1..(Len(r) - 1) : i + 0 \in DOMAIN q /\ r[i] = q[i + 0]
        <3>1. \A i \in 1..Len(q) : i + 0 = i /\ i \in DOMAIN q
            BY <1>1
        <3> QED BY <2>4, <2>5, <3>1
    <2>8. 0 \in {0, 1} /\ (0 = 1 => Len(q) >= MaxMetrics)
        OBVIOUS
    <2> QED BY <2>1, <2>2, <2>5, <2>6, <2>7, <2>8
<1>3. CASE Len(q) >= MaxMetrics
    <2> DEFINE tail == Tail(q)
               r == Append(tail, x)
    <2>1. Appended(q, x) = r
        BY <1>1, <1>3 DEF Appended
    <2>2. q # <<>>
        BY <1>1, <1>3
    <2>3. tail \in Seq(Metric) /\ Len(tail) = Len(q) - 1
        BY <2>2, HeadTailProperties
    <2>4. \A i \in 1..Len(tail) : tail[i] = q[i + 1]
        BY <2>2, HeadTailProperties
    <2> HIDE DEF tail
    <2>5. r \in Seq(Metric) /\ Len(r) = Len(tail) + 1
        BY <2>3, AppendProperties
    <2>6. r[Len(tail) + 1] = x
        BY <2>3, AppendProperties
    <2>7. \A i \in 1..Len(tail) : r[i] = tail[i]
        BY <2>3, AppendProperties
    <2> HIDE DEF r
    <2>8. /\ Len(r) - 1 = Len(tail) /\ Len(r) = Len(q) + 1 - 1 /\ Len(r) <= MaxMetrics
          /\ Len(tail) = Len(q) - 1
        BY <1>1, <1>3, <2>3, <2>5
    <2>9. r[Len(r)] = x
        BY <2>5, <2>6
    <2>10. \A i \in 1..(Len(r) - 1) : i + 1 \in DOMAIN q /\ r[i] = q[i + 1]
        <3>1. \A i \in 1..Len(tail) : i + 1 \in DOMAIN q
            BY <1>1, <2>8
        <3> QED BY <2>4, <2>7, <2>8, <3>1
    <2>11. 1 \in {0, 1} /\ (1 = 1 => Len(q) >= MaxMetrics)
        BY <1>3
    <2> QED BY <2>1, <2>5, <2>8, <2>9, <2>10, <2>11
<1> QED BY <1>1, <1>2, <1>3

\* A metric of the window makes its suffix longer.
LEMMA SuffixGrows ==
    ASSUME NEW q \in Seq(Metric), Len(q) <= MaxMetrics, NEW x \in Metric, NEW n \in Nat,
           x.in_window, WindowIsSuffix(q, n)
    PROVE  WindowIsSuffix(Appended(q, x), n + 1)
<1> DEFINE r == Appended(q, x)
<1>1. PICK drop \in {0, 1} :
              /\ r \in Seq(Metric)
              /\ Len(r) <= MaxMetrics
              /\ Len(r) = Len(q) + 1 - drop
              /\ drop = 1 => Len(q) >= MaxMetrics
              /\ r[Len(r)] = x
              /\ \A i \in 1..(Len(r) - 1) : i + drop \in DOMAIN q /\ r[i] = q[i + drop]
    BY AppendedMetric
<1> HIDE DEF r
<1>2. Len(q) \in Nat /\ Len(r) \in Nat /\ DOMAIN r = 1..Len(r) /\ MaxMetrics \in Nat /\ MaxMetrics > 0
    BY <1>1, MonitorAssumption
<1>3. ASSUME NEW i \in DOMAIN r PROVE r[i].in_window <=> i + (n + 1) > Len(r)
    <2>1. CASE i = Len(r)
        BY <1>1, <1>2, <2>1
    <2>2. CASE i # Len(r)
        <3>1. i \in 1..(Len(r) - 1)
            BY <1>2, <2>2
        <3>2. i + drop \in DOMAIN q /\ r[i] = q[i + drop]
            BY <1>1, <3>1
        <3>3. r[i].in_window <=> (i + drop) + n > Len(q)
            BY <3>2 DEF WindowIsSuffix
        <3> QED BY <1>1, <1>2, <3>1, <3>3
    <2> QED BY <2>1, <2>2
<1>4. Len(r) >= (IF n + 1 < MaxMetrics THEN n + 1 ELSE MaxMetrics)
    <2>1. Len(q) >= (IF n < MaxMetrics THEN n ELSE MaxMetrics)
        BY DEF WindowIsSuffix
    <2> QED BY <1>1, <1>2, <2>1
<1> QED BY <1>3, <1>4 DEF WindowIsSuffix, r

LEMMA InWindowFinite ==
    ASSUME NEW q \in Seq(Metric), NEW s
    PROVE  IsFiniteSet(InWindow(q, s)) /\ Cardinality(InWindow(q, s)) \in Nat
<1>1. DOMAIN q = 1..Len(q) /\ Len(q) \in Int
    OBVIOUS
<1>2. IsFiniteSet(1..Len(q))
    BY <1>1, FS_Interval
<1>3. InWindow(q, s) \in SUBSET (1..Len(q))
    BY <1>1 DEF InWindow
<1> QED BY <1>2, <1>3, FS_Subset, FS_CardinalityType

\* A metric adds at most itself to the metrics of its status in the window.
LEMMA InWindowGrows ==
    ASSUME NEW q \in Seq(Metric), Len(q) <= MaxMetrics, NEW x \in Metric, NEW s \in Statuses
    PROVE  Cardinality(InWindow(Appended(q, x), s))
               <= Cardinality(InWindow(q, s)) + (IF x.status = s THEN 1 ELSE 0)
<1> DEFINE r == Appended(q, x)
           kept == InWindow(r, s) \ {Len(r)}
<1>1. PICK drop \in {0, 1} :
              /\ r \in Seq(Metric)
              /\ Len(r) <= MaxMetrics
              /\ Len(r) = Len(q) + 1 - drop
              /\ drop = 1 => Len(q) >= MaxMetrics
              /\ r[Len(r)] = x
              /\ \A i \in 1..(Len(r) - 1) : i + drop \in DOMAIN q /\ r[i] = q[i + drop]
    BY AppendedMetric
<1> HIDE DEF r
<1>2. Len(q) \in Nat /\ Len(r) \in Nat /\ DOMAIN r = 1..Len(r)
    BY <1>1
<1>3. /\ IsFiniteSet(InWindow(q, s)) /\ Cardinality(InWindow(q, s)) \in Nat
      /\ IsFiniteSet(InWindow(r, s)) /\ Cardinality(InWindow(r, s)) \in Nat
    BY <1>1, InWindowFinite
<1>4. ASSUME NEW i \in kept
      PROVE  i \in 1..(Len(r) - 1) /\ i + drop \in InWindow(q, s)
    <2>1. i \in DOMAIN r /\ r[i].in_window /\ r[i].status = s /\ i # Len(r)
        BY DEF InWindow
    <2>2. i \in 1..(Len(r) - 1)
        BY <1>2, <2>1
    <2>3. i + drop \in DOMAIN q /\ r[i] = q[i + drop]
        BY <1>1, <2>2
    <2> QED BY <2>1, <2>2, <2>3 DEF InWindow
<1> DEFINE f == [i \in kept |-> i + drop]
<1>5. f \in Injection(kept, InWindow(q, s))
    <2>1. f \in [kept -> InWindow(q, s)]
        BY <1>4
    <2>2. ASSUME NEW i \in kept, NEW j \in kept, f[i] = f[j] PROVE i = j
        <3>1. i \in Int /\ j \in Int /\ i + drop = j + drop
            BY <1>2, <1>4, <2>2
        <3> QED BY <3>1
    <2> QED BY <2>1, <2>2 DEF Injection, IsInjective
<1>6. IsFiniteSet(kept) /\ Cardinality(kept) <= Cardinality(InWindow(q, s))
    BY <1>3, <1>5, FS_Injection
<1>7. Cardinality(kept) \in Nat
    BY <1>6, FS_CardinalityType
<1>8. Cardinality(kept) = IF Len(r) \in InWindow(r, s) THEN Cardinality(InWindow(r, s)) - 1
                          ELSE Cardinality(InWindow(r, s))
    BY <1>3, FS_RemoveElement
<1>9. Len(r) \in InWindow(r, s) => x.status = s
    BY <1>1 DEF InWindow
<1> HIDE DEF kept
<1>10. Cardinality(InWindow(r, s))
           <= Cardinality(InWindow(q, s)) + (IF x.status = s THEN 1 ELSE 0)
    BY <1>3, <1>6, <1>7, <1>8, <1>9
<1> QED BY <1>10 DEF r

\* One more request in the counters.
LEMMA CountedOnce ==
    ASSUME NEW w \in [Statuses -> Nat], NEW s \in Statuses
    PROVE  /\ Total(w) \in Nat
           /\ [w EXCEPT ![s] = @ + 1] \in [Statuses -> Nat]
           /\ Total([w EXCEPT ![s] = @ + 1]) = Total(w) + 1
<1>1. \A u \in Statuses : w[u] \in Nat
    OBVIOUS
<1>2. Total(w) \in Nat
    BY <1>1 DEF Total, Statuses
<1>3. [w EXCEPT ![s] = @ + 1] \in [Statuses -> Nat]
    BY <1>1
<1>4. Total([w EXCEPT ![s] = @ + 1]) = Total(w) + 1
    <2> DEFINE v == [w EXCEPT ![s] = @ + 1]
    <2>1. v[s] = w[s] + 1 /\ \A u \in Statuses \ {s} : v[u] = w[u]
        OBVIOUS
    <2> HIDE DEF v
    <2>2. Total(v) = Total(w) + 1
        BY <1>1, <2>1 DEF Total, Statuses
    <2> QED BY <2>2 DEF v
<1> QED BY <1>2, <1>3, <1>4

LEMMA NewWindowEmpty ==
    _create_new_window \in [Statuses -> Nat] /\ Total(_create_new_window) = 0
BY DEF _create_new_window, Total, Statuses

LEMMA MonitorInitial == MonitorInit => MonitorInv
<1> SUFFICES ASSUME MonitorInit PROVE MonitorInv
    OBVIOUS
<1>1. metrics = <<>> /\ current_window = _create_new_window /\ window_over = FALSE
    BY DEF MonitorInit
<1>2. metrics \in Seq(Metric) /\ Len(metrics) = 0 /\ DOMAIN metrics = {}
    BY <1>1
<1>3. MonitorTypes
    <2>1. metrics \in Seq(Metric) /\ Len(metrics) <= MaxMetrics
        BY <1>2, MonitorAssumption
    <2> QED BY <1>1, <2>1, NewWindowEmpty DEF MonitorTypes
<1>4. WindowIsSuffix(metrics, Total(current_window))
    BY <1>1, <1>2, NewWindowEmpty, MonitorAssumption DEF WindowIsSuffix
<1>5. Counted(metrics, current_window)
    <2>1. ASSUME NEW s \in Statuses PROVE Cardinality(InWindow(metrics, s)) <= current_window[s]
        <3>1. InWindow(metrics, s) = {}
            BY <1>2 DEF InWindow
        <3> QED BY <1>1, <3>1, FS_EmptySet DEF _create_new_window
    <2> QED BY <2>1 DEF Counted
<1>6. AlertsAgree
    <2>1. Alerting(_create_new_window) = {}
        <3>1. ~_check_success_rate_alert(_create_new_window)
            BY NewWindowEmpty DEF _check_success_rate_alert, _create_new_window, Statuses
        <3>2. ~_check_error_rate_alert(_create_new_window)
            BY NewWindowEmpty DEF _check_error_rate_alert, _create_new_window, Statuses
        <3> QED BY <3>1, <3>2
                DEF Alerting, AlertTypes, _check_avg_time_alert, _check_p95_time_alert
    <2> QED BY <1>1, <2>1 DEF MonitorInit, AlertsAgree
<1> QED BY <1>3, <1>4, <1>5, <1>6 DEF MonitorInv

LEMMA RecordKeeps ==
    ASSUME MonitorInv, NEW s \in Statuses, NEW method \in Methods, record_optimization(s, method)
    PROVE  MonitorInv'
<1> DEFINE x == [in_window |-> ~window_over, status |-> s, method |-> method]
           q == Appended(metrics, x)
           w == _update_current_window(s)
<1>1. /\ metrics \in Seq(Metric) /\ Len(metrics) <= MaxMetrics
      /\ current_window \in [Statuses -> Nat] /\ window_over \in BOOLEAN
    BY DEF MonitorInv, MonitorTypes
<1>2. x \in Metric
    BY <1>1 DEF Metric
<1>3. q \in Seq(Metric) /\ Len(q) <= MaxMetrics
    BY <1>1, <1>2, AppendedMetric
<1>4. w \in [Statuses -> Nat]
    BY <1>1, CountedOnce DEF _update_current_window
<1>5. CASE ~window_over /\ metrics' = q /\ current_window' = w /\ _check_alerts(w)
           /\ UNCHANGED <<window_over, hourly>>
    <2>1. Total(current_window) < MaxTotal
        BY <1>5 DEF record_optimization
    <2>2. w = [current_window EXCEPT ![s] = @ + 1]
        BY <2>1 DEF _update_current_window
    <2>3. Total(w) = Total(current_window) + 1 /\ Total(current_window) \in Nat
        BY <1>1, <2>2, CountedOnce
    <2>4. x.in_window /\ x.status = s
        BY <1>5
    <2> HIDE DEF x, w
    <2>5. WindowIsSuffix(q, Total(w))
        BY <1>1, <1>2, <1>5, <2>3, <2>4, SuffixGrows DEF MonitorInv
    <2>6. Counted(q, w)
        <3>1. ASSUME NEW u \in Statuses PROVE Cardinality(InWindow(q, u)) <= w[u]
            <4>1. Cardinality(InWindow(q, u))
                      <= Cardinality(InWindow(metrics, u)) + (IF x.status = u THEN 1 ELSE 0)
                BY <1>1, <1>2, InWindowGrows
            <4>2. Cardinality(InWindow(metrics, u)) <= current_window[u]
                BY <1>5 DEF MonitorInv, Counted
            <4>3. /\ Cardinality(InWindow(q, u)) \in Nat
                  /\ Cardinality(InWindow(metrics, u)) \in Nat /\ current_window[u] \in Nat
                BY <1>1, <1>3, InWindowFinite
            <4>4. w[u] = current_window[u] + (IF x.status = u THEN 1 ELSE 0)
                BY <1>1, <2>2, <2>4, <4>3
            <4> QED BY <4>1, <4>2, <4>3, <4>4
        <3> QED BY <3>1 DEF Counted
    <2>7. Total(w) >= MinData => active_alerts' = Alerting(w)
        <3>1. Total(w) \in Nat /\ MinData \in Nat
            BY <2>3, MonitorAssumption
        <3> QED BY <1>5, <3>1 DEF _check_alerts
    <2>8. metrics' = q /\ current_window' = w /\ window_over' = window_over
        BY <1>5
    <2> QED BY <1>1, <1>3, <1>4, <2>5, <2>6, <2>7, <2>8
            DEF MonitorInv, MonitorTypes, AlertsAgree
<1>6. CASE metrics' = q /\ current_window' = w /\ window_over /\ window_over' = window_over
    BY <1>1, <1>3, <1>4, <1>6 DEF MonitorInv, MonitorTypes
<1>7. CASE /\ window_over /\ metrics' = [i \in DOMAIN q |-> [q[i] EXCEPT !.in_window = FALSE]]
           /\ current_window' = _create_new_window /\ window_over' = FALSE
           /\ _check_alerts(_create_new_window)
    <2> HIDE DEF q
    <2>1. DOMAIN q = 1..Len(q) /\ Len(q) \in Nat
        BY <1>3
    <2>2. ASSUME NEW i \in 1..Len(q)
          PROVE  metrics'[i] \in Metric /\ ~metrics'[i].in_window
        <3>1. q[i] \in Metric
            BY <1>3, <2>1
        <3>2. metrics'[i] = [q[i] EXCEPT !.in_window = FALSE]
            BY <1>7, <2>1
        <3> QED BY <3>1, <3>2 DEF Metric
    <2>3. metrics' = [i \in 1..Len(q) |-> metrics'[i]]
        BY <1>7, <2>1
    <2>4. metrics' \in Seq(Metric) /\ Len(metrics') = Len(q) /\ DOMAIN metrics' = 1..Len(q)
        BY <2>1, <2>2, <2>3
    <2>5. WindowIsSuffix(metrics', Total(_create_new_window))
        BY <2>1, <2>2, <2>4, NewWindowEmpty, MonitorAssumption DEF WindowIsSuffix
    <2>6. Counted(metrics', _create_new_window)
        <3>1. ASSUME NEW u \in Statuses
              PROVE  Cardinality(InWindow(metrics', u)) <= _create_new_window[u]
            <4>1. InWindow(metrics', u) = {}
                BY <2>2, <2>4 DEF InWindow
            <4> QED BY <4>1, FS_EmptySet DEF _create_new_window
        <3> QED BY <3>1 DEF Counted
    <2>7. Total(_create_new_window) >= MinData => active_alerts' = Alerting(_create_new_window)
        BY <1>7, NewWindowEmpty, MonitorAssumption DEF _check_alerts
    <2> QED BY <1>3, <1>7, <2>4, <2>5, <2>6, <2>7, NewWindowEmpty
            DEF MonitorInv, MonitorTypes, AlertsAgree
<1> QED BY <1>5, <1>6, <1>7 DEF record_optimization

LEMMA MonitorStepKeeps == MonitorInv /\ [MonitorNext]_monitorVars => MonitorInv'
<1> SUFFICES ASSUME MonitorInv, [MonitorNext]_monitorVars PROVE MonitorInv'
    OBVIOUS
<1>1. CASE Record
    BY <1>1, RecordKeeps
       DEF Record, record_ortools_execution, record_legacy_execution, Statuses, Methods
<1>2. CASE WindowEnds
    BY <1>2 DEF WindowEnds, MonitorInv, MonitorTypes
<1>3. CASE UNCHANGED monitorVars
    BY <1>3 DEF monitorVars, MonitorInv, MonitorTypes, WindowIsSuffix, Counted, InWindow, AlertsAgree
<1> QED BY <1>1, <1>2, <1>3 DEF MonitorNext

LEMMA InvWindowAgrees == MonitorInv => WindowAgrees
<1> SUFFICES ASSUME MonitorInv, ~window_over PROVE WindowAgrees
    BY DEF WindowAgrees
<1> DEFINE n == Total(current_window)
           kept == IF n < MaxMetrics THEN n ELSE MaxMetrics
<1>1. metrics \in Seq(Metric) /\ Len(metrics) <= MaxMetrics /\ current_window \in [Statuses -> Nat]
    BY DEF MonitorInv, MonitorTypes
<1>2. n \in Nat /\ MaxMetrics \in Nat /\ Len(metrics) \in Nat /\ DOMAIN metrics = 1..Len(metrics)
    <2>1. "error" \in Statuses
        BY DEF Statuses
    <2>2. n \in Nat
        BY <1>1, <2>1, CountedOnce
    <2> HIDE DEF n
    <2> QED BY <1>1, <2>2, MonitorAssumption
<1>3. /\ \A i \in DOMAIN metrics : metrics[i].in_window <=> i + n > Len(metrics)
      /\ Len(metrics) >= kept
    BY DEF MonitorInv, WindowIsSuffix
<1> HIDE DEF n
<1>4. WindowMetrics(metrics) = (Len(metrics) - kept + 1)..Len(metrics)
    <2>1. ASSUME NEW i \in 1..Len(metrics)
          PROVE  i + n > Len(metrics) <=> i >= Len(metrics) - kept + 1
        BY <1>1, <1>2, <1>3
    <2>2. (Len(metrics) - kept + 1)..Len(metrics) \subseteq 1..Len(metrics)
        BY <1>2, <1>3
    <2>3. WindowMetrics(metrics) = {i \in 1..Len(metrics) : i + n > Len(metrics)}
        BY <1>2, <1>3 DEF WindowMetrics
    <2> QED BY <1>2, <2>1, <2>2, <2>3
<1>5. Cardinality(WindowMetrics(metrics)) = kept
    <2> DEFINE from == Len(metrics) - kept + 1
               to == Len(metrics)
    <2>1. from \in Int /\ to \in Int /\ kept \in Nat
        BY <1>2
    <2>2. from = to - kept + 1
        OBVIOUS
    <2>3. WindowMetrics(metrics) = from..to
        BY <1>4
    <2> HIDE DEF kept, from, to
    <2>4. Cardinality(from..to) = IF from > to THEN 0 ELSE to - from + 1
        BY <2>1, FS_Interval
    <2> QED BY <2>1, <2>2, <2>3, <2>4
<1>6. ASSUME n >= Len(metrics), NEW s \in Statuses
      PROVE  get_performance_summary(metrics).by_status[s] <= current_window[s]
    <2>1. \A i \in DOMAIN metrics : metrics[i].in_window
        BY <1>2, <1>3, <1>6
    <2>2. {i \in DOMAIN metrics : metrics[i].status = s} = InWindow(metrics, s)
        BY <2>1 DEF InWindow
    <2>3. get_performance_summary(metrics).by_status[s] = Cardinality(InWindow(metrics, s))
        BY <2>2 DEF get_performance_summary
    <2> QED BY <2>3 DEF MonitorInv, Counted
<1>7. n >= MinData => active_alerts = Alerting(current_window)
    BY DEF MonitorInv, AlertsAgree, n
<1> QED BY <1>5, <1>6, <1>7 DEF WindowAgrees, n

\* While a window runs, its counters, its metrics in the deque and its alerts
\* agree, whatever was recorded in windows whose finalising raised
\* (ortools_monitoring.py, record_optimization).
THEOREM MonitorAgrees == MonitorSpec => []WindowAgrees
BY MonitorInitial, MonitorStepKeeps, InvWindowAgrees, PTL DEF MonitorSpec

-----------------------------------------------------------------------------
(* ItineraryEndpoint *)

\* The first places and how many a day gets.
LEMMA DivisionFacts ==
    ASSUME NEW n \in Nat, NEW d \in Nat \ {0}
    PROVE  /\ n \div d \in Nat /\ n % d \in Nat /\ n % d < d
           /\ d * (n \div d) + (n % d) = n
OBVIOUS

\* current_place_index in closed form: i whole shares and what is left over.
IndexOf(n, d, i) == i * (n \div d) + (IF i < n % d THEN i ELSE n % d)

LEMMA IndexFacts ==
    ASSUME NEW n \in Nat, NEW d \in Nat \ {0}
    PROVE  /\ \A i \in Nat : IndexOf(n, d, i) \in Nat /\ PlacesThisDay(n, d, i) \in Nat
           /\ \A i \in Nat : IndexOf(n, d, i + 1) = IndexOf(n, d, i) + PlacesThisDay(n, d, i)
           /\ IndexOf(n, d, 0) = 0 /\ IndexOf(n, d, d) = n
<1> DEFINE q == n \div d
           m == n % d
<1>1. q \in Nat /\ m \in Nat /\ m < d /\ d * q + m = n
    BY DivisionFacts
<1>2. \A i \in Nat : PlacesThisDay(n, d, i) = q + (IF i < m THEN 1 ELSE 0)
    BY DEF PlacesThisDay
<1>3. \A i \in Nat : IndexOf(n, d, i) = i * q + (IF i < m THEN i ELSE m)
    BY DEF IndexOf
<1> HIDE DEF q, m
<1>4. \A i \in Nat : i * q \in Nat /\ (i + 1) * q = i * q + q
    BY <1>1
<1>5. ASSUME NEW i \in Nat
      PROVE  /\ IndexOf(n, d, i) \in Nat /\ PlacesThisDay(n, d, i) \in Nat
             /\ IndexOf(n, d, i + 1) = IndexOf(n, d, i) + PlacesThisDay(n, d, i)
    <2>1. i + 1 \in Nat /\ i * q \in Nat /\ (i + 1) * q = i * q + q
        BY <1>4
    <2>2. IndexOf(n, d, i + 1) = (i * q + q) + (IF i + 1 < m THEN i + 1 ELSE m)
        BY <1>3, <2>1
    <2> DEFINE iq == i * q
    <2>3. IndexOf(n, d, i) = iq + (IF i < m THEN i ELSE m)
        BY <1>3
    <2>4. IndexOf(n, d, i + 1) = (iq + q) + (IF i + 1 < m THEN i + 1 ELSE m) /\ iq \in Nat
        BY <2>1, <2>2
    <2> HIDE DEF iq
    <2> QED BY <1>1, <1>2, <2>3, <2>4
<1>6. IndexOf(n, d, 0) = 0
    BY <1>1, <1>3
<1>7. IndexOf(n, d, d) = n
    BY <1>1, <1>3
<1> QED BY <1>5, <1>6, <1>7

\* The recursive function is that closed form.
LEMMA PlaceIndex ==
    ASSUME NEW n \in Nat, NEW d \in Nat \ {0}
    PROVE  \A i \in Nat : current_place_index(n, d)[i] = IndexOf(n, d, i)
<1> DEFINE Solves(f) ==
               f = [i \in Nat |-> IF i = 0 THEN 0 ELSE f[i - 1] + PlacesThisDay(n, d, i - 1)]
           closed == [i \in Nat |-> IndexOf(n, d, i)]
           start == current_place_index(n, d)
           T == {i \in Nat : start[i] = IndexOf(n, d, i)}
<1>1. Solves(closed)
    <2>1. ASSUME NEW i \in Nat
          PROVE  closed[i] = IF i = 0 THEN 0 ELSE closed[i - 1] + PlacesThisDay(n, d, i - 1)
        <3>1. CASE i = 0
            BY <3>1, IndexFacts
        <3>2. CASE i # 0
            <4>1. i - 1 \in Nat /\ (i - 1) + 1 = i
                BY <3>2
            <4>2. IndexOf(n, d, (i - 1) + 1) = IndexOf(n, d, i - 1) + PlacesThisDay(n, d, i - 1)
                BY <4>1, IndexFacts
            <4>3. closed[i] = IndexOf(n, d, i) /\ closed[i - 1] = IndexOf(n, d, i - 1)
                BY <4>1
            <4> QED BY <3>2, <4>1, <4>2, <4>3
        <3> QED BY <3>1, <3>2
    <2>2. closed = [i \in Nat |-> closed[i]]
        OBVIOUS
    <2> HIDE DEF closed
    <2> QED BY <2>1, <2>2
<1>2. start = CHOOSE f : Solves(f)
    BY DEF current_place_index
<1>3. Solves(start)
    <2> HIDE DEF Solves, closed, start
    <2> QED BY <1>1, <1>2
<1>4. /\ start[0] = 0
      /\ \A i \in Nat : start[i + 1] = start[i] + PlacesThisDay(n, d, i)
    <2> HIDE DEF start
    <2>1. start[0] = 0
        BY <1>3
    <2>2. ASSUME NEW i \in Nat PROVE start[i + 1] = start[i] + PlacesThisDay(n, d, i)
        <3>1. i + 1 \in Nat /\ i + 1 # 0 /\ (i + 1) - 1 = i
            OBVIOUS
        <3>2. start[i + 1] = start[(i + 1) - 1] + PlacesThisDay(n, d, (i + 1) - 1)
            BY <1>3, <3>1
        <3> QED BY <3>1, <3>2
    <2> QED BY <2>1, <2>2
<1> HIDE DEF start
<1>5. 0 \in T
    BY <1>4, IndexFacts
<1>6. ASSUME NEW i \in Nat, i \in T PROVE i + 1 \in T
    <2>1. start[i] = IndexOf(n, d, i)
        BY <1>6
    <2>2. start[i + 1] = start[i] + PlacesThisDay(n, d, i)
        BY <1>4
    <2>3. IndexOf(n, d, i + 1) = IndexOf(n, d, i) + PlacesThisDay(n, d, i)
        BY IndexFacts
    <2> QED BY <2>1, <2>2, <2>3
<1>7. \A i \in Nat : i \in T
    <2> HIDE DEF T
    <2> QED BY <1>5, <1>6, SetInduction
<1> QED BY <1>7 DEF start

\* The days of the basic itinerary cut the places into consecutive pieces.
LEMMA FallbackDays ==
    ASSUME NEW I, NEW places \in Seq(I), NEW d \in Nat \ {0}
    PROVE  LET days == fallback_days(places, d)
               n == Len(places)
           IN  /\ DOMAIN days = 1..d /\ Len(days) = d
               /\ \A i \in 1..d :
                     /\ IndexOf(n, d, i - 1) \in 0..n /\ IndexOf(n, d, i) \in 0..n
                     /\ IndexOf(n, d, i - 1) <= IndexOf(n, d, i)
                     /\ days[i] = SubSeq(places, IndexOf(n, d, i - 1) + 1, IndexOf(n, d, i))
                     /\ Len(days[i]) \in {n \div d, (n \div d) + 1}
<1> DEFINE n == Len(places)
           days == fallback_days(places, d)
           At(i) == IndexOf(n, d, i)
           Share(i) == PlacesThisDay(n, d, i)
<1>1. n \in Nat
    OBVIOUS
<1>2. /\ \A i \in Nat : At(i) \in Nat /\ Share(i) \in Nat /\ At(i + 1) = At(i) + Share(i)
      /\ At(0) = 0 /\ At(d) = n
    BY <1>1, IndexFacts
<1>3. \A i \in Nat : Share(i) \in {n \div d, (n \div d) + 1} /\ n \div d \in Nat
    BY <1>1, DivisionFacts DEF PlacesThisDay
<1>4. days = [i \in 1..d |-> SubSeq(places, At(i - 1) + 1, At(i - 1) + Share(i - 1))]
    <2>1. \A i \in 1..d : i - 1 \in Nat
        OBVIOUS
    <2>2. \A i \in 1..d : current_place_index(n, d)[i - 1] = At(i - 1)
        BY <1>1, <2>1, PlaceIndex
    <2> QED BY <2>2 DEF fallback_days
<1> HIDE DEF n, days, At, Share
\* No index is beyond the last place: the later ones are at least as large.
<1>5. \A k \in Nat : k <= d => At(d - k) <= n
    <2> DEFINE T == {k \in Nat : k <= d => At(d - k) <= n}
    <2>1. 0 \in T
        BY <1>1, <1>2
    <2>2. ASSUME NEW k \in Nat, k \in T PROVE k + 1 \in T
        <3>1. CASE k + 1 <= d
            <4>1. d - (k + 1) \in Nat /\ (d - (k + 1)) + 1 = d - k /\ k <= d
                BY <3>1
            <4>2. At(d - k) = At(d - (k + 1)) + Share(d - (k + 1)) /\ At(d - k) <= n
                BY <1>2, <2>2, <4>1
            <4>3. At(d - (k + 1)) \in Nat /\ Share(d - (k + 1)) \in Nat
                BY <1>2, <4>1
            <4>4. At(d - (k + 1)) <= n
                BY <1>1, <4>2, <4>3
            <4> QED BY <4>4
        <3>2. CASE ~(k + 1 <= d)
            BY <3>2
        <3> QED BY <3>1, <3>2
    <2>3. \A k \in Nat : k \in T
        <3> HIDE DEF T
        <3> QED BY <2>1, <2>2, SetInduction
    <2> QED BY <2>3
<1>6. \A i \in 0..d : At(i) \in 0..n
    <2> SUFFICES ASSUME NEW i \in 0..d PROVE At(i) \in 0..n
        OBVIOUS
    <2>1. d - i \in Nat /\ d - i <= d /\ d - (d - i) = i /\ i \in Nat
        OBVIOUS
    <2>2. At(d - (d - i)) <= n
        BY <1>5, <2>1
    <2>3. At(i) <= n /\ At(i) \in Nat
        BY <1>2, <2>1, <2>2
    <2> QED BY <1>1, <2>3
<1>7. DOMAIN days = 1..d /\ Len(days) = d
    BY <1>4
<1>8. ASSUME NEW i \in 1..d
      PROVE  /\ At(i - 1) \in 0..n /\ At(i) \in 0..n /\ At(i - 1) <= At(i)
             /\ days[i] = SubSeq(places, At(i - 1) + 1, At(i))
             /\ Len(days[i]) \in {n \div d, (n \div d) + 1}
    <2>1. i - 1 \in 0..d /\ i \in 0..d /\ i - 1 \in Nat /\ (i - 1) + 1 = i
        OBVIOUS
    <2>2. At(i) = At(i - 1) + Share(i - 1) /\ Share(i - 1) \in Nat
        BY <1>2, <2>1
    <2>3. At(i - 1) \in 0..n /\ At(i) \in 0..n
        BY <1>6, <2>1
    <2>4. days[i] = SubSeq(places, At(i - 1) + 1, At(i))
        BY <1>4, <2>2
    <2>5. Len(SubSeq(places, At(i - 1) + 1, At(i))) = Share(i - 1)
        <3> DEFINE a == At(i - 1) + 1
                   b == At(i)
        <3>1. a \in 1..(n + 1) /\ b \in (a - 1)..n /\ n = Len(places) /\ b - a + 1 = Share(i - 1)
            BY <1>1, <2>2, <2>3 DEF n
        <3>2. a \in 1..(Len(places) + 1) /\ b \in (a - 1)..Len(places)
            BY <3>1
        <3> HIDE DEF a, b
        <3>3. Len(SubSeq(places, a, b)) = IF a <= b THEN b - a + 1 ELSE 0
            BY <3>2, SubSeqProperties
        <3>4. a \in Nat /\ b \in Nat /\ b >= a - 1
            BY <1>1, <3>1
        <3>5. Len(SubSeq(places, a, b)) = b - a + 1
            BY <3>3, <3>4
        <3> QED BY <3>1, <3>5 DEF a, b
    <2>6. Len(days[i]) \in {n \div d, (n \div d) + 1}
        BY <1>3, <2>1, <2>4, <2>5
    <2> QED BY <1>1, <2>2, <2>3, <2>4, <2>6
<1> QED BY <1>7, <1>8 DEF n, days, At

\* An itinerary of the request r, as BasicItineraryComplete says it.
CompleteFor(r, days) ==
    LET wanted == r.places
        upto[i \in 0..Len(days)] == IF i = 0 THEN <<>> ELSE upto[i - 1] \o days[i]
    IN  /\ Len(days) = r.days
        /\ upto[Len(days)] \in {wanted, wanted \o <<Hotel>>}
        /\ \A i, j \in DOMAIN days : Len(days[i]) <= Len(days[j]) + 1

LEMMA BasicIsComplete ==
    ASSUME NEW r \in Trips, NEW places \in {r.places, r.places \o <<Hotel>>}
    PROVE  CompleteFor(r, fallback_days(places, r.days))
<1> DEFINE I == {r.places[i] : i \in DOMAIN r.places} \cup {Hotel}
           d == r.days
           days == fallback_days(places, d)
           n == Len(places)
           At(i) == IndexOf(n, d, i)
           Solves(f) == f = [i \in 0..Len(days) |-> IF i = 0 THEN <<>> ELSE f[i - 1] \o days[i]]
           upto == CHOOSE f : Solves(f)
           closed == [i \in 0..Len(days) |-> SubSeq(places, 1, At(i))]
           T == {k \in Nat : k <= d => upto[k] = SubSeq(places, 1, At(k))}
<1>1. r.places \in Seq({r.places[i] : i \in DOMAIN r.places}) /\ d \in Nat \ {0}
    BY EndpointAssumption
<1>2. places \in Seq(I)
    <2>1. r.places \in Seq(I) /\ <<Hotel>> \in Seq(I)
        BY <1>1
    <2> HIDE DEF I
    <2>2. r.places \o <<Hotel>> \in Seq(I)
        BY <2>1, ConcatProperties
    <2> QED BY <2>1, <2>2
<1> HIDE DEF I, d
<1>3. /\ DOMAIN days = 1..d /\ Len(days) = d
      /\ \A i \in 1..d :
            /\ At(i - 1) \in 0..n /\ At(i) \in 0..n /\ At(i - 1) <= At(i)
            /\ days[i] = SubSeq(places, At(i - 1) + 1, At(i))
            /\ Len(days[i]) \in {n \div d, (n \div d) + 1}
    BY <1>1, <1>2, FallbackDays
<1>4. n \in Nat /\ n \div d \in Nat /\ At(0) = 0 /\ At(d) = n
    <2>1. n \in Nat
        BY <1>2
    <2> HIDE DEF n
    <2> QED BY <1>1, <2>1, DivisionFacts, IndexFacts
<1> HIDE DEF days, At
<1>5. ASSUME NEW i \in 1..d
      PROVE  SubSeq(places, 1, At(i)) = SubSeq(places, 1, At(i - 1)) \o days[i]
    <2> DEFINE k == At(i - 1)
               m == At(i)
    <2>1. k \in 0..n /\ m \in 0..n /\ k <= m /\ days[i] = SubSeq(places, k + 1, m)
        BY <1>3
    <2> HIDE DEF k, m
    <2> SUFFICES SubSeq(places, 1, m) = SubSeq(places, 1, k) \o days[i]
        BY DEF k, m
    <2>2. CASE k = 0
        <3>1. SubSeq(places, 1, k) = <<>>
            BY <2>2, SubSeqEmpty
        <3>2. SubSeq(places, 1, m) \in Seq(I)
            <4>1. \A j \in 1..m : places[j] \in I
                BY <1>2, <2>1
            <4> QED BY <1>4, <2>1, <4>1, SubSeqProperties
        <3>3. <<>> \o SubSeq(places, 1, m) = SubSeq(places, 1, m)
            BY <3>2, ConcatEmptySeq
        <3>4. days[i] = SubSeq(places, 1, m)
            BY <2>1, <2>2
        <3> QED BY <3>1, <3>3, <3>4
    <2>3. CASE k # 0
        <3>1. 1 \in 1..(n + 1) /\ k \in (1 - 1)..n /\ m \in k..n
            BY <1>4, <2>1
        <3>2. SubSeq(places, 1, k) \o SubSeq(places, k + 1, m) = SubSeq(places, 1, m)
            BY <1>2, <3>1, ConcatAdjacentSubSeq
        <3> QED BY <2>1, <3>2
    <2> QED BY <2>2, <2>3
<1>6. Solves(closed)
    <2>1. ASSUME NEW i \in 0..Len(days)
          PROVE  closed[i] = IF i = 0 THEN <<>> ELSE closed[i - 1] \o days[i]
        <3>1. CASE i = 0
            <4>1. closed[i] = SubSeq(places, 1, 0)
                BY <1>4, <3>1
            <4>2. SubSeq(places, 1, 0) = <<>>
                BY SubSeqEmpty
            <4> QED BY <3>1, <4>1, <4>2
        <3>2. CASE i # 0
            <4>1. i \in 1..d /\ i - 1 \in 0..Len(days)
                BY <1>1, <1>3, <3>2
            <4>2. closed[i] = SubSeq(places, 1, At(i)) /\ closed[i - 1] = SubSeq(places, 1, At(i - 1))
                BY <4>1
            <4> QED BY <1>5, <3>2, <4>1, <4>2
        <3> QED BY <3>1, <3>2
    <2>2. closed = [i \in 0..Len(days) |-> closed[i]]
        OBVIOUS
    <2> HIDE DEF closed
    <2> QED BY <2>1, <2>2
<1>7. Solves(upto)
    <2> HIDE DEF Solves, closed
    <2> QED BY <1>6
<1> HIDE DEF upto
<1>8. 0 \in T
    <2>1. upto[0] = <<>>
        BY <1>1, <1>3, <1>7
    <2>2. SubSeq(places, 1, 0) = <<>>
        BY SubSeqEmpty
    <2> QED BY <1>4, <2>1, <2>2
<1>9. ASSUME NEW k \in Nat, k \in T PROVE k + 1 \in T
    <2> SUFFICES ASSUME k + 1 <= d PROVE upto[k + 1] = SubSeq(places, 1, At(k + 1))
        OBVIOUS
    <2>1. k + 1 \in 1..d /\ k + 1 \in 0..Len(days) /\ k + 1 # 0 /\ (k + 1) - 1 = k /\ k <= d
        BY <1>1, <1>3
    <2>2. upto[k + 1] = upto[(k + 1) - 1] \o days[k + 1]
        BY <1>7, <2>1
    <2>3. upto[k] = SubSeq(places, 1, At(k))
        BY <1>9, <2>1
    <2>4. SubSeq(places, 1, At(k + 1)) = SubSeq(places, 1, At((k + 1) - 1)) \o days[k + 1]
        BY <1>5, <2>1
    <2> QED BY <2>1, <2>2, <2>3, <2>4
<1>10. \A k \in Nat : k \in T
    <2> HIDE DEF T
    <2> QED BY <1>8, <1>9, SetInduction
<1>11. upto[Len(days)] = places
    <2>1. upto[d] = SubSeq(places, 1, n)
        BY <1>1, <1>4, <1>10
    <2>2. SubSeq(places, 1, n) = places
        BY <1>2, SubSeqFull
    <2> QED BY <1>3, <2>1, <2>2
<1>12. \A i, j \in DOMAIN days : Len(days[i]) <= Len(days[j]) + 1
    <2> SUFFICES ASSUME NEW i \in 1..d, NEW j \in 1..d PROVE Len(days[i]) <= Len(days[j]) + 1
        BY <1>3
    <2>1. Len(days[i]) \in {n \div d, (n \div d) + 1} /\ Len(days[j]) \in {n \div d, (n \div d) + 1}
        BY <1>3
    <2> DEFINE q == n \div d
    <2>2. q \in Nat /\ Len(days[i]) \in {q, q + 1} /\ Len(days[j]) \in {q, q + 1}
        BY <1>4, <2>1
    <2> HIDE DEF q
    <2> QED BY <2>2
<1>13. Len(days) = r.days
    BY <1>3 DEF d
<1>14. upto[Len(days)] \in {r.places, r.places \o <<Hotel>>}
    BY <1>11
<1>15. CompleteFor(r, days)
    BY <1>12, <1>13, <1>14 DEF CompleteFor, upto
<1> QED BY <1>15 DEF days, d

\* What may be told to the client of r.
GoodAnswer(r, a) == a.status = 200 => CompleteFor(r, a.days)

Lists == UNION {{r.places, r.places \o <<Hotel>>} : r \in Trips}

\* A call between two attempts, or in one.
Attempting(x) ==
    /\ x \in [at : {"optimizing", "sleeping"}, trip : Trips, places : Lists,
              attempt : Nat, bound : BOOLEAN]
    /\ x.places \in {x.trip.places, x.trip.places \o <<Hotel>>}

\* Where a call can be, and that its places are those of its trip.
GoodCall(x) ==
    \/ x = IdleCall
    \/ x.at = "hotels" /\ x.trip \in Trips
    \/ Attempting(x)
    \/ x.at = "answered" /\ x.trip \in Trips /\ GoodAnswer(x.trip, x.answer)

GoodEntry(r, entry) == GoodAnswer(r, entry.answer)

\* The inductive invariant: every answer on its way to a client, or cached for
\* one, is an answer to that client's request.
EndpointInv ==
    /\ call = [c \in Clients |-> call[c]]
    /\ result_cache = [r \in Trips |-> result_cache[r]]
    /\ \A c \in Clients : GoodCall(call[c])
    /\ \A r \in Trips : GoodEntry(r, result_cache[r])

LEMMA PlainAnswers == \A r : GoodAnswer(r, NoAnswer) /\ GoodAnswer(r, Error500)
BY DEF GoodAnswer, NoAnswer, Error500

LEMMA EndpointInitial == EndpointInit => EndpointInv
<1> SUFFICES ASSUME EndpointInit PROVE EndpointInv
    OBVIOUS
<1>1. call = [c \in Clients |-> IdleCall] /\ result_cache = [r \in Trips |-> NotCached]
    BY DEF EndpointInit
<1>2. GoodCall(IdleCall) /\ \A r : GoodEntry(r, NotCached)
    BY PlainAnswers DEF GoodCall, GoodEntry, NotCached
<1> QED BY <1>1, <1>2 DEF EndpointInv

\* A step of one call, to a good state, with the cache unchanged.
LEMMA SetCallKeeps ==
    ASSUME EndpointInv, NEW c \in Clients, NEW x, GoodCall(x), SetCall(c, x)
    PROVE  call' = [e \in Clients |-> call'[e]] /\ \A e \in Clients : GoodCall(call'[e])
<1>1. call' = [e \in Clients |-> IF e = c THEN x ELSE call[e]]
    BY DEF EndpointInv, SetCall
<1> QED BY <1>1 DEF EndpointInv

LEMMA CacheUntouched ==
    ASSUME EndpointInv, UNCHANGED result_cache,
           call' = [e \in Clients |-> call'[e]], \A e \in Clients : GoodCall(call'[e])
    PROVE  EndpointInv'
<1>1. \A r \in Trips : GoodEntry(r, result_cache'[r])
    BY DEF EndpointInv
<1>2. result_cache' = [r \in Trips |-> result_cache'[r]]
    BY DEF EndpointInv
<1> QED BY <1>1, <1>2 DEF EndpointInv

LEMMA CallsUntouched ==
    ASSUME EndpointInv, UNCHANGED call,
           result_cache' = [r \in Trips |-> result_cache'[r]],
           \A r \in Trips : GoodEntry(r, result_cache'[r])
    PROVE  EndpointInv'
<1>1. \A e \in Clients : GoodCall(call'[e])
    BY DEF EndpointInv
<1>2. call' = [e \in Clients |-> call'[e]]
    BY DEF EndpointInv
<1> QED BY <1>1, <1>2 DEF EndpointInv

\* The calls that are being optimised or wait for another attempt.
LEMMA Trying ==
    ASSUME EndpointInv, NEW c \in Clients, call[c].at \in {"optimizing", "sleeping"}
    PROVE  Attempting(call[c])
BY DEF EndpointInv, GoodCall, IdleCall

LEMMA GoodTrying ==
    ASSUME NEW r \in Trips, NEW places \in {r.places, r.places \o <<Hotel>>}
    PROVE  GoodCall(Optimizing(r, places, 1, FALSE))
<1>1. places \in Lists
    BY DEF Lists
<1>2. Attempting(Optimizing(r, places, 1, FALSE))
    BY <1>1 DEF Attempting, Optimizing
<1> QED BY <1>2 DEF GoodCall

LEMMA GoodAnswered ==
    ASSUME NEW r \in Trips, NEW a, GoodAnswer(r, a)
    PROVE  GoodCall(Answered(r, a))
BY DEF GoodCall, Answered

LEMMA ArriveKeeps ==
    ASSUME EndpointInv, NEW c \in Clients, NEW r \in Trips, Arrive(c, r)
    PROVE  EndpointInv'
<1> DEFINE x == IF result_cache[r].left > 0 THEN Answered(r, result_cache[r].answer)
                ELSE IF ~has_analytics \/ r.places = <<>> THEN Answered(r, Error500)
                ELSE IF r.accommodation THEN Optimizing(r, r.places, 1, FALSE)
                ELSE [at |-> "hotels", trip |-> r]
<1>1. SetCall(c, x) /\ UNCHANGED result_cache
    BY DEF Arrive
<1>2. GoodCall(Answered(r, result_cache[r].answer))
    BY GoodAnswered DEF EndpointInv, GoodEntry
<1>3. GoodCall(Answered(r, Error500))
    BY GoodAnswered, PlainAnswers
<1>4. GoodCall(Optimizing(r, r.places, 1, FALSE))
    BY GoodTrying DEF Optimizing
<1>5. GoodCall([at |-> "hotels", trip |-> r])
    BY DEF GoodCall
<1>6. GoodCall(x)
    BY <1>2, <1>3, <1>4, <1>5
<1> HIDE DEF x
<1> QED BY <1>1, <1>6, SetCallKeeps, CacheUntouched

LEMMA HotelsAnswerKeeps ==
    ASSUME EndpointInv, NEW c \in Clients, HotelsAnswer(c)
    PROVE  EndpointInv'
<1> DEFINE x == call[c]
           y(found) == Optimizing(x.trip, x.trip.places \o found, 1, FALSE)
<1>1. PICK found \in {<<>>, <<Hotel>>} : SetCall(c, y(found))
    BY DEF HotelsAnswer
<1>2. x.at = "hotels" /\ GoodCall(x)
    BY DEF HotelsAnswer, EndpointInv
<1>3. UNCHANGED result_cache
    BY DEF HotelsAnswer
<1>4. x.trip \in Trips
    BY <1>2 DEF GoodCall, IdleCall, Attempting
<1> DEFINE r == x.trip
<1>6. r.places \o found \in {r.places, r.places \o <<Hotel>>}
    <2>1. r.places \o <<>> = r.places
        BY <1>4, EndpointAssumption, ConcatEmptySeq
    <2> QED BY <2>1
<1>7. GoodCall(y(found))
    BY <1>4, <1>6, GoodTrying
<1> HIDE DEF y
<1> QED BY <1>1, <1>3, <1>7, SetCallKeeps, CacheUntouched

LEMMA AttemptSucceedsKeeps ==
    ASSUME EndpointInv, NEW c \in Clients, AttemptSucceeds(c)
    PROVE  EndpointInv'
<1>1. call[c].at = "optimizing" /\ SetCall(c, Answered(call[c].trip, Error500)) /\ UNCHANGED result_cache
    BY DEF AttemptSucceeds
<1>2. Attempting(call[c])
    BY <1>1, Trying
<1>3. call[c].trip \in Trips
    BY <1>2 DEF Attempting
<1>4. GoodCall(Answered(call[c].trip, Error500))
    BY <1>3, GoodAnswered, PlainAnswers
<1> QED BY <1>1, <1>4, SetCallKeeps, CacheUntouched

LEMMA AttemptFailsKeeps ==
    ASSUME EndpointInv, NEW c \in Clients, AttemptFails(c)
    PROVE  EndpointInv'
<1> DEFINE x == call[c]
           bound(rejected) == x.bound \/ rejected
           basic == [status |-> 200, days |-> fallback_days(x.places, x.trip.days)]
           next(rejected) == [x EXCEPT !.at = "sleeping", !.bound = bound(rejected)]
<1>1. x.at = "optimizing"
    BY DEF AttemptFails
<1>2. Attempting(x)
    BY <1>1, Trying
<1> HIDE DEF x
<1> DEFINE r == x.trip
<1>3. r \in Trips /\ x.places \in {r.places, r.places \o <<Hotel>>}
    BY <1>2 DEF Attempting
<1>5. PICK rejected \in BOOLEAN :
          \/ SetCall(c, next(rejected)) /\ UNCHANGED result_cache
          \/ SetCall(c, Answered(x.trip, Error500)) /\ UNCHANGED result_cache
          \/ /\ SetCall(c, Answered(x.trip, basic))
             /\ result_cache' = [result_cache EXCEPT ![x.trip] = [left |-> ExpiryTicks, answer |-> basic]]
    BY DEF AttemptFails, x
<1>6. GoodCall(next(rejected))
    <2>1. Attempting(next(rejected))
        BY <1>2 DEF Attempting
    <2> HIDE DEF next
    <2> QED BY <2>1 DEF GoodCall
<1>7. GoodCall(Answered(x.trip, Error500))
    BY <1>3, GoodAnswered, PlainAnswers
<1>8. GoodAnswer(r, basic)
    BY <1>3, BasicIsComplete DEF GoodAnswer
<1>9. GoodCall(Answered(x.trip, basic))
    <2> HIDE DEF basic
    <2> QED BY <1>3, <1>8, GoodAnswered
<1> HIDE DEF next, basic
<1>10. CASE SetCall(c, next(rejected)) /\ UNCHANGED result_cache
    BY <1>6, <1>10, SetCallKeeps, CacheUntouched
<1>11. CASE SetCall(c, Answered(x.trip, Error500)) /\ UNCHANGED result_cache
    BY <1>7, <1>11, SetCallKeeps, CacheUntouched
<1>12. CASE /\ SetCall(c, Answered(x.trip, basic))
            /\ result_cache' = [result_cache EXCEPT ![x.trip] = [left |-> ExpiryTicks, answer |-> basic]]
    <2>1. call' = [e \in Clients |-> call'[e]] /\ \A e \in Clients : GoodCall(call'[e])
        BY <1>9, <1>12, SetCallKeeps
    <2>2. result_cache' = [e \in Trips |-> IF e = r THEN [left |-> ExpiryTicks, answer |-> basic]
                                           ELSE result_cache[e]]
        BY <1>12 DEF EndpointInv
    <2>3. GoodEntry(r, [left |-> ExpiryTicks, answer |-> basic])
        BY <1>8 DEF GoodEntry
    <2>4. \A e \in Trips : GoodEntry(e, result_cache'[e])
        BY <2>2, <2>3 DEF EndpointInv
    <2>5. result_cache' = [e \in Trips |-> result_cache'[e]]
        BY <2>2
    <2> QED BY <2>1, <2>4, <2>5 DEF EndpointInv
<1> QED BY <1>5, <1>10, <1>11, <1>12

LEMMA RetryKeeps ==
    ASSUME EndpointInv, NEW c \in Clients, Retry(c)
    PROVE  EndpointInv'
<1> DEFINE x == call[c]
           next == [x EXCEPT !.at = "optimizing", !.attempt = @ + 1]
<1>1. x.at = "sleeping" /\ SetCall(c, next) /\ UNCHANGED result_cache
    BY DEF Retry
<1>2. Attempting(x)
    BY <1>1, Trying
<1> HIDE DEF x
<1>3. Attempting(next)
    <2> DEFINE k == x.attempt + 1
    <2>1. k \in Nat
        BY <1>2 DEF Attempting
    <2>2. next = [x EXCEPT !.at = "optimizing", !.attempt = k]
        OBVIOUS
    <2> HIDE DEF next, k
    <2> QED BY <1>2, <2>1, <2>2 DEF Attempting
<1> HIDE DEF next
<1>4. GoodCall(next)
    BY <1>3 DEF GoodCall
<1> QED BY <1>1, <1>4, SetCallKeeps, CacheUntouched

LEMMA LeaveKeeps ==
    ASSUME EndpointInv, NEW c \in Clients, Leave(c)
    PROVE  EndpointInv'
<1>1. GoodCall(IdleCall)
    BY DEF GoodCall
<1> QED BY <1>1, SetCallKeeps, CacheUntouched DEF Leave

LEMMA CacheStepKeeps ==
    ASSUME EndpointInv, CacheTick \/ cleanup_expired_cache \/ clear_cache
    PROVE  EndpointInv'
<1>1. UNCHANGED call
    BY DEF CacheTick, cleanup_expired_cache, clear_cache
<1>2. \A r : GoodEntry(r, NotCached)
    BY PlainAnswers DEF GoodEntry, NotCached
<1>3. CASE CacheTick
    <2> DEFINE older(r) == [result_cache[r] EXCEPT !.left = IF @ > 0 THEN @ - 1 ELSE 0]
    <2>1. result_cache' = [r \in Trips |-> older(r)]
        BY <1>3 DEF CacheTick
    <2>2. \A r \in Trips : older(r).answer = result_cache[r].answer
        OBVIOUS
    <2> HIDE DEF older
    <2>3. \A r \in Trips : GoodEntry(r, result_cache'[r])
        BY <2>1, <2>2 DEF EndpointInv, GoodEntry
    <2> QED BY <1>1, <2>1, <2>3, CallsUntouched
<1>4. CASE cleanup_expired_cache
    <2>1. result_cache' = [r \in Trips |-> IF result_cache[r].left = 0 THEN NotCached ELSE result_cache[r]]
        BY <1>4 DEF cleanup_expired_cache
    <2>2. \A r \in Trips : GoodEntry(r, result_cache'[r])
        BY <1>2, <2>1 DEF EndpointInv
    <2> QED BY <1>1, <2>1, <2>2, CallsUntouched
<1>5. CASE clear_cache
    <2>1. result_cache' = [r \in Trips |-> NotCached]
        BY <1>5 DEF clear_cache
    <2>2. \A r \in Trips : GoodEntry(r, result_cache'[r])
        BY <1>2, <2>1
    <2> QED BY <1>1, <2>1, <2>2, CallsUntouched
<1> QED BY <1>3, <1>4, <1>5

LEMMA EndpointStepKeeps == EndpointInv /\ [EndpointNext]_endpointVars => EndpointInv'
<1> SUFFICES ASSUME EndpointInv, [EndpointNext]_endpointVars PROVE EndpointInv'
    OBVIOUS
<1>1. ASSUME NEW c \in Clients, Serve(c) \/ Leave(c) \/ \E r \in Trips : Arrive(c, r)
      PROVE  EndpointInv'
    BY <1>1, HotelsAnswerKeeps, AttemptSucceedsKeeps, AttemptFailsKeeps, RetryKeeps, LeaveKeeps,
       ArriveKeeps DEF Serve
<1>2. CASE UNCHANGED endpointVars
    BY <1>2 DEF endpointVars, EndpointInv
<1> QED BY <1>1, <1>2, CacheStepKeeps DEF EndpointNext

\* Whatever was cached, retried, or computed by another client meanwhile, an
\* itinerary that is returned has every day and every place of the request it
\* answers, in order (api.py, the basic itinerary of /create_itinerary).
THEOREM EndpointComplete == EndpointSpec => []BasicItineraryComplete
<1>1. EndpointInv => BasicItineraryComplete
    <2> SUFFICES ASSUME EndpointInv, NEW c \in Clients,
                        call[c].at = "answered", call[c].answer.status = 200
                 PROVE  CompleteFor(call[c].trip, call[c].answer.days)
        BY DEF BasicItineraryComplete, CompleteFor
    <2> DEFINE x == call[c]
    <2>1. GoodCall(x) /\ x.at = "answered"
        BY DEF EndpointInv
    <2> HIDE DEF x
    <2>2. GoodAnswer(x.trip, x.answer)
        BY <2>1 DEF GoodCall, IdleCall, Attempting
    <2> QED BY <2>2 DEF GoodAnswer, x
<1> QED BY <1>1, EndpointInitial, EndpointStepKeeps, PTL DEF EndpointSpec

-----------------------------------------------------------------------------
(* MultimodalEndpoint *)

\* What can be suggested: places of Google's and made-up options.
Option ==
    (UNION {{PlacesNear[c][i] : i \in DOMAIN PlacesNear[c]} : c \in DOMAIN PlacesNear})
    \cup {[id |-> NoId, name |-> <<n, i>>] : n \in 0..3, i \in 1..PerDay}
    \cup {[id |-> NoId, name |-> <<"emergency", i>>] : i \in 1..PerDay}

Ids == {p.id : p \in Option}
Plans == UNION {[1..j.days -> SUBSET DOMAIN j.places] : j \in Journeys}
Fillings == UNION {[1..j.days -> Seq(Option)] : j \in Journeys}

\* SuggestedOnce of one day, and of two.
Distinct(s) ==
    \A i, k \in DOMAIN s :
        /\ (s[i].id # NoId /\ s[i].id = s[k].id) => i = k
        /\ (s[i].name = s[k].name /\ (s[i].id = NoId) = (s[k].id = NoId)) => i = k

Apart(s, t) == \A i \in DOMAIN s, k \in DOMAIN t : s[i].id # NoId => s[i].id # t[k].id

\* The days of a request so far: filled ones were empty and have three options,
\* nothing is suggested twice, and what is suggested is marked as used.
Filled(j, own, suggested) ==
    /\ own \in [1..j.days -> SUBSET DOMAIN j.places]
    /\ suggested \in [1..j.days -> Seq(Option)]
    /\ \A d \in 1..j.days : suggested[d] = <<>> \/ (own[d] = {} /\ Len(suggested[d]) = PerDay)
    /\ \A d \in 1..j.days : Distinct(suggested[d])
    /\ \A d, e \in 1..j.days : d # e => Apart(suggested[d], suggested[e])

Marked(s, used) == \A i \in DOMAIN s : s[i].id \in used \cup {NoId}

\* The places found for the day that is being filled: marked as well, and on no
\* other day.
FoundFits(found, suggested, used, searched) ==
    /\ found \in Seq(Option) /\ Len(found) <= searched
    /\ Marked(found, used) /\ Distinct(found)
    /\ \A i \in DOMAIN found : found[i].id # NoId
    /\ \A d \in DOMAIN suggested : Apart(found, suggested[d])

Suggesting(x) ==
    /\ x \in [at : {"suggesting"}, request : Journeys, own : Plans, suggested : Fillings,
              used : SUBSET Ids, day_number : Nat \ {0}, found : Seq(Option), searched : 0..2]
    /\ Filled(x.request, x.own, x.suggested)
    /\ \A d \in 1..x.request.days : Marked(x.suggested[d], x.used)
    /\ FoundFits(x.found, x.suggested, x.used, x.searched)
    /\ FreeDays(x.own, x.suggested) # {}

\* The inductive invariant: what a call can be doing.
JourneyFits(x) ==
    \/ x = NoJourney
    \/ x.at \in {"ortools", "legacy"} /\ x.request \in Journeys
    \/ x.at = "answered" /\ x.status = 500
    \/ /\ x.at = "answered" /\ x.request \in Journeys /\ x.status = 200
       /\ Filled(x.request, x.own, x.suggested) /\ FreeDays(x.own, x.suggested) = {}
    \/ Suggesting(x)

\* The place that FirstNew takes.
LEMMA FirstNewFits ==
    ASSUME NEW answer \in Seq(Option), NEW used, NEW found
    PROVE  \/ FirstNew(answer, used, found) = <<>>
           \/ \E p \in Option : /\ FirstNew(answer, used, found) = <<p>>
                                /\ p.id # NoId /\ p.id \notin used /\ Renamed(p, found)
<1> DEFINE new == {k \in DOMAIN answer : /\ answer[k].id # NoId /\ answer[k].id \notin used
                                         /\ Renamed(answer[k], found)}
           Least(k) == \A l \in new : k <= l
           first == CHOOSE k \in new : Least(k)
<1>1. FirstNew(answer, used, found) = IF new = {} THEN <<>> ELSE <<answer[first]>>
    BY DEF FirstNew, FirstAt
<1>2. CASE new = {}
    BY <1>1, <1>2
<1>3. CASE new # {}
    <2>1. new \subseteq Nat /\ \A k \in new : answer[k] \in Option
        <3>1. DOMAIN answer \subseteq Nat /\ \A k \in DOMAIN answer : answer[k] \in Option
            OBVIOUS
        <3> QED BY <3>1
    <2>2. \E k \in new : Least(k)
        <3> HIDE DEF new
        <3> QED BY <1>3, <2>1, LeastNumber
    <2>3. first \in new
        <3> HIDE DEF new, Least
        <3> QED BY <2>2
    <2> HIDE DEF first
    <2>4. /\ answer[first] \in Option
          /\ answer[first].id # NoId /\ answer[first].id \notin used
          /\ Renamed(answer[first], found)
        <3>1. \A k \in new : /\ answer[k].id # NoId /\ answer[k].id \notin used
                             /\ Renamed(answer[k], found)
            OBVIOUS
        <3> HIDE DEF new
        <3> QED BY <2>1, <2>3, <3>1
    <2>5. FirstNew(answer, used, found) = <<answer[first]>>
        BY <1>1, <1>3
    <2> QED BY <2>4, <2>5
<1> QED BY <1>2, <1>3

\* Today is one of the days left.
LEMMA TodayFree ==
    ASSUME Suggesting(journey)
    PROVE  /\ Today \in 1..journey.request.days
           /\ journey.own[Today] = {} /\ journey.suggested[Today] = <<>>
<1> DEFINE free == FreeDays(journey.own, journey.suggested)
           Least(d) == \A e \in free : d <= e
<1>1. free # {} /\ journey.request.days \in Nat
    BY MultimodalAssumption DEF Suggesting
<1>2. DOMAIN journey.own = 1..journey.request.days
    BY DEF Suggesting, Filled
<1>3. free \subseteq 1..journey.request.days /\ free \subseteq Nat
    BY <1>1, <1>2 DEF FreeDays
<1>4. \E d \in free : Least(d)
    <2> HIDE DEF free
    <2> QED BY <1>1, <1>3, LeastNumber
<1>5. Today = CHOOSE d \in free : Least(d)
    BY DEF Today
<1>6. Today \in free
    <2> HIDE DEF free, Least
    <2> QED BY <1>4, <1>5
<1> QED BY <1>3, <1>6 DEF FreeDays

\* What follows when a day has been filled.
LEMMA ContinueFits ==
    ASSUME NEW j \in Journeys, NEW own, NEW suggested, NEW used \in SUBSET Ids, NEW filled \in Nat,
           Filled(j, own, suggested), \A d \in 1..j.days : Marked(suggested[d], used)
    PROVE  JourneyFits(Continue(j, own, suggested, used, filled))
<1> DEFINE x == Continue(j, own, suggested, used, filled)
<1>1. own \in Plans /\ suggested \in Fillings
    BY DEF Filled, Plans, Fillings
<1>2. CASE FreeDays(own, suggested) = {}
    <2>1. x = [at |-> "answered", request |-> j, status |-> 200, own |-> own, suggested |-> suggested]
        BY <1>2 DEF Continue
    <2> HIDE DEF x
    <2>2. /\ x.at = "answered" /\ x.request = j /\ x.status = 200
          /\ x.own = own /\ x.suggested = suggested
        BY <2>1
    <2>3. JourneyFits(x)
        BY <1>2, <2>2 DEF JourneyFits
    <2> QED BY <2>3 DEF x
<1>3. CASE FreeDays(own, suggested) # {}
    <2>1. x = [at |-> "suggesting", request |-> j, own |-> own, suggested |-> suggested,
               used |-> used, day_number |-> filled + 1, found |-> <<>>, searched |-> 0]
        BY <1>3 DEF Continue
    <2> HIDE DEF x
    <2>2. /\ x.request = j /\ x.own = own /\ x.suggested = suggested /\ x.used = used
          /\ x.found = <<>> /\ x.searched = 0
        BY <2>1
    <2>3. filled + 1 \in Nat \ {0} /\ <<>> \in Seq(Option) /\ 0 \in 0..2
        OBVIOUS
    <2>4. x \in [at : {"suggesting"}, request : Journeys, own : Plans, suggested : Fillings,
                 used : SUBSET Ids, day_number : Nat \ {0}, found : Seq(Option), searched : 0..2]
        <3> DEFINE n == filled + 1
                   empty == <<>>
        <3>1. n \in Nat \ {0} /\ empty \in Seq(Option)
            BY <2>3
        <3>2. x = [at |-> "suggesting", request |-> j, own |-> own, suggested |-> suggested,
                   used |-> used, day_number |-> n, found |-> empty, searched |-> 0]
            BY <2>1
        <3> HIDE DEF n, empty
        <3> QED BY <1>1, <2>3, <3>1, <3>2
    <2>5. FoundFits(<<>>, suggested, used, 0)
        <3> DEFINE empty == <<>>
        <3>1. empty \in Seq(Option) /\ Len(empty) <= 0 /\ DOMAIN empty = {}
            OBVIOUS
        <3> HIDE DEF empty
        <3>2. Distinct(empty) /\ \A t : Apart(empty, t)
            BY <3>1 DEF Distinct, Apart
        <3>3. FoundFits(empty, suggested, used, 0)
            BY <3>1, <3>2 DEF FoundFits, Marked
        <3> QED BY <3>3 DEF empty
    <2>6. Suggesting(x)
        BY <1>3, <2>2, <2>4, <2>5 DEF Suggesting
    <2>7. JourneyFits(x)
        BY <2>6 DEF JourneyFits
    <2> QED BY <2>7 DEF x
<1> QED BY <1>2, <1>3

\* The options of a day are distinct, the made-up ones among them too.
LEMMA PaddedFits ==
    ASSUME NEW found \in Seq(Option), Len(found) <= PerDay, NEW n \in Nat \ {0},
           Distinct(found), \A i \in DOMAIN found : found[i].id # NoId
    PROVE  /\ Padded(found, n) \in Seq(Option) /\ Len(Padded(found, n)) = PerDay
           /\ Distinct(Padded(found, n))
           /\ \A i \in DOMAIN Padded(found, n) :
                 \/ Padded(found, n)[i].id = NoId
                 \/ i \in DOMAIN found /\ Padded(found, n)[i] = found[i]
<1> DEFINE made(i) == [id |-> NoId, name |-> <<(n - 1) % 4, i>>]
           pad == [i \in 1..(PerDay - Len(found)) |-> made(i)]
           L == Len(found)
           s == Padded(found, n)
<1>1. L \in Nat /\ L <= 3 /\ DOMAIN found = 1..L
    BY DEF PerDay
<1>2. (n - 1) % 4 \in 0..3
    OBVIOUS
<1>3. \A i \in 1..3 : made(i) \in Option /\ made(i).id = NoId /\ made(i).name = <<(n - 1) % 4, i>>
    <2>1. \A i \in 1..PerDay, k \in 0..3 : [id |-> NoId, name |-> <<k, i>>] \in Option
        <3> SUFFICES ASSUME NEW i \in 1..PerDay, NEW k \in 0..3
                     PROVE  [id |-> NoId, name |-> <<k, i>>] \in Option
            OBVIOUS
        <3> DEFINE x == [id |-> NoId, name |-> <<k, i>>]
        <3>1. x \in {[id |-> NoId, name |-> <<u, v>>] : u \in 0..3, v \in 1..PerDay}
            <4> DEFINE option(u, v) == [id |-> NoId, name |-> <<u, v>>]
            <4>1. x = option(k, i)
                OBVIOUS
            <4> HIDE DEF x, option
            <4>2. x \in {option(u, v) : u \in 0..3, v \in 1..PerDay}
                BY <4>1
            <4> QED BY <4>2 DEF option
        <3> HIDE DEF x
        <3>2. x \in Option
            BY <3>1 DEF Option
        <3> QED BY <3>2 DEF x
    <2> DEFINE k == (n - 1) % 4
    <2>2. k \in 0..3
        BY <1>2
    <2> HIDE DEF k
    <2>3. \A i \in 1..3 : [id |-> NoId, name |-> <<k, i>>] \in Option
        BY <2>1, <2>2 DEF PerDay
    <2> QED BY <2>3 DEF k
<1>4. \A i, k \in 1..3 : made(i).name = made(k).name => i = k
    OBVIOUS
<1> HIDE DEF made
<1>5. pad \in Seq(Option) /\ Len(pad) = 3 - L /\ \A i \in 1..(3 - L) : pad[i] = made(i)
    <2>1. 3 - L \in Nat /\ \A i \in 1..(3 - L) : i \in 1..3
        BY <1>1
    <2>2. pad = [i \in 1..(3 - L) |-> made(i)]
        BY DEF PerDay
    <2> HIDE DEF pad
    <2> QED BY <1>3, <2>1, <2>2
<1>6. s = found \o pad
    BY DEF Padded, made
<1> HIDE DEF pad, L, s
<1>7. /\ s \in Seq(Option) /\ Len(s) = L + (3 - L)
      /\ \A i \in 1..(L + (3 - L)) : s[i] = IF i <= L THEN found[i] ELSE pad[i - L]
    BY <1>5, <1>6, ConcatProperties DEF L
<1>8. L + (3 - L) = 3 /\ DOMAIN s = 1..3 /\ Len(s) = 3
    <2>1. L + (3 - L) = 3
        BY <1>1
    <2> QED BY <1>7, <2>1
<1>9. \A i \in 1..3 : IF i <= L THEN i \in DOMAIN found /\ s[i] = found[i]
                      ELSE i - L \in 1..3 /\ s[i] = made(i - L)
    <2> SUFFICES ASSUME NEW i \in 1..3
                 PROVE  IF i <= L THEN i \in DOMAIN found /\ s[i] = found[i]
                        ELSE i - L \in 1..3 /\ s[i] = made(i - L)
        OBVIOUS
    <2>1. CASE i <= L
        BY <1>1, <1>7, <1>8, <2>1
    <2>2. CASE ~(i <= L)
        <3>1. i - L \in 1..(3 - L) /\ i - L \in 1..3
            BY <1>1, <2>2
        <3> QED BY <1>5, <1>7, <1>8, <2>2, <3>1
    <2> QED BY <2>1, <2>2
<1>10. \A i \in 1..3 : s[i].id = NoId \/ (i \in DOMAIN found /\ s[i] = found[i])
    <2> SUFFICES ASSUME NEW i \in 1..3 PROVE s[i].id = NoId \/ (i \in DOMAIN found /\ s[i] = found[i])
        OBVIOUS
    <2>1. CASE i <= L
        BY <1>9, <2>1
    <2>2. CASE ~(i <= L)
        BY <1>3, <1>9, <2>2
    <2> QED BY <2>1, <2>2
<1>11. Distinct(s)
    <2> SUFFICES ASSUME NEW i \in 1..3, NEW k \in 1..3
                 PROVE  /\ (s[i].id # NoId /\ s[i].id = s[k].id) => i = k
                        /\ (s[i].name = s[k].name /\ (s[i].id = NoId) = (s[k].id = NoId)) => i = k
        BY <1>8 DEF Distinct
    <2>1. CASE i <= L /\ k <= L
        BY <1>9, <2>1 DEF Distinct
    <2>2. CASE ~(i <= L) /\ ~(k <= L)
        <3>1. i - L \in 1..3 /\ k - L \in 1..3 /\ s[i] = made(i - L) /\ s[k] = made(k - L)
            BY <1>9, <2>2
        <3>2. s[i].id = NoId /\ (s[i].name = s[k].name => i - L = k - L)
            BY <1>3, <1>4, <3>1
        <3>3. i - L = k - L => i = k
            BY <1>1
        <3> QED BY <3>2, <3>3
    <2>3. CASE i <= L /\ ~(k <= L)
        <3>1. k - L \in 1..3 /\ s[k] = made(k - L) /\ i \in DOMAIN found /\ s[i] = found[i]
            BY <1>9, <2>3
        <3>2. s[k].id = NoId /\ s[i].id # NoId
            BY <1>3, <3>1
        <3> QED BY <3>2
    <2>4. CASE ~(i <= L) /\ k <= L
        <3>1. i - L \in 1..3 /\ s[i] = made(i - L) /\ k \in DOMAIN found /\ s[k] = found[k]
            BY <1>9, <2>4
        <3>2. s[i].id = NoId /\ s[k].id # NoId
            BY <1>3, <3>1
        <3> QED BY <3>2
    <2> QED BY <2>1, <2>2, <2>3, <2>4
<1> QED BY <1>7, <1>8, <1>10, <1>11 DEF s, PerDay

LEMMA EmergencyFits ==
    /\ Emergency \in Seq(Option) /\ Len(Emergency) = PerDay
    /\ Distinct(Emergency)
    /\ \A i \in DOMAIN Emergency : Emergency[i].id = NoId
<1> DEFINE made(i) == [id |-> NoId, name |-> <<"emergency", i>>]
<1>1. Emergency = [i \in 1..3 |-> made(i)]
    BY DEF Emergency, PerDay
<1>2. \A i \in 1..3 : made(i) \in Option
    <2> SUFFICES ASSUME NEW i \in 1..3 PROVE made(i) \in Option
        OBVIOUS
    <2>1. i \in 1..PerDay
        BY DEF PerDay
    <2>2. made(i) \in {[id |-> NoId, name |-> <<"emergency", k>>] : k \in 1..PerDay}
        BY <2>1
    <2> HIDE DEF made
    <2> QED BY <2>2 DEF Option
<1>3. \A i, k \in 1..3 : made(i).id = NoId /\ (made(i).name = made(k).name => i = k)
    OBVIOUS
<1> HIDE DEF made
<1>4. Emergency \in Seq(Option) /\ Len(Emergency) = 3 /\ DOMAIN Emergency = 1..3
    BY <1>1, <1>2
<1>5. \A i \in 1..3 : Emergency[i] = made(i)
    BY <1>1
<1> QED BY <1>3, <1>4, <1>5 DEF Distinct, PerDay

\* Filling today with three options that are on no other day.
LEMMA EndDayFits ==
    ASSUME Suggesting(journey), NEW places \in Seq(Option), Len(places) = PerDay,
           NEW used \in SUBSET Ids, journey.used \subseteq used, Marked(places, used),
           Distinct(places),
           \A d \in 1..journey.request.days : Apart(places, journey.suggested[d]),
           EndDay(places, used)
    PROVE  JourneyFits(journey')
<1> DEFINE j == journey.request
           own == journey.own
           old == journey.suggested
           t == Today
           suggested == [old EXCEPT ![t] = places]
           filled == journey.day_number
<1>1. t \in 1..j.days /\ own[t] = {} /\ old[t] = <<>>
    BY TodayFree
<1>2. j \in Journeys /\ filled \in Nat
    BY DEF Suggesting
<1>3. Filled(j, own, old) /\ \A d \in 1..j.days : Marked(old[d], journey.used)
    BY DEF Suggesting
<1>4. journey' = Continue(j, own, suggested, used, filled)
    BY DEF EndDay
<1> HIDE DEF j, own, old, t, filled
<1>5. /\ own \in [1..j.days -> SUBSET DOMAIN j.places]
      /\ old \in [1..j.days -> Seq(Option)]
      /\ \A d \in 1..j.days : old[d] = <<>> \/ (own[d] = {} /\ Len(old[d]) = PerDay)
      /\ \A d \in 1..j.days : Distinct(old[d])
      /\ \A d, e \in 1..j.days : d # e => Apart(old[d], old[e])
    BY <1>3 DEF Filled
<1>6. suggested \in [1..j.days -> Seq(Option)]
    BY <1>1, <1>5
<1>7. suggested[t] = places /\ \A d \in 1..j.days : d # t => suggested[d] = old[d]
    BY <1>1, <1>5
<1> HIDE DEF suggested
<1>8. \A d \in 1..j.days : suggested[d] = <<>> \/ (own[d] = {} /\ Len(suggested[d]) = PerDay)
    BY <1>1, <1>5, <1>7
<1>9. \A d \in 1..j.days : Marked(suggested[d], used)
    <2> SUFFICES ASSUME NEW d \in 1..j.days PROVE Marked(suggested[d], used)
        OBVIOUS
    <2>1. CASE d = t
        BY <1>7, <2>1
    <2>2. CASE d # t
        <3>1. suggested[d] = old[d] /\ Marked(old[d], journey.used)
            BY <1>3, <1>7, <2>2
        <3> QED BY <3>1 DEF Marked
    <2> QED BY <2>1, <2>2
<1>10. \A d \in 1..j.days : Distinct(suggested[d])
    BY <1>5, <1>7
<1>11. ASSUME NEW d \in 1..j.days, NEW e \in 1..j.days, d # e
       PROVE  Apart(suggested[d], suggested[e])
    <2>1. CASE d # t /\ e # t
        BY <1>5, <1>7, <1>11, <2>1
    <2>2. CASE d = t
        <3>1. suggested[d] = places /\ suggested[e] = old[e]
            BY <1>7, <1>11, <2>2
        <3>2. Apart(places, old[e])
            BY DEF j, old
        <3> QED BY <3>1, <3>2
    <2>3. CASE e = t
        <3>1. suggested[d] = old[d] /\ suggested[e] = places
            BY <1>7, <1>11, <2>3
        <3>2. Apart(places, old[d])
            BY DEF j, old
        <3>3. Apart(old[d], places)
            BY <3>2 DEF Apart
        <3> QED BY <3>1, <3>3
    <2> QED BY <2>1, <2>2, <2>3
<1>12. Filled(j, own, suggested)
    BY <1>5, <1>6, <1>8, <1>10, <1>11 DEF Filled
<1> QED BY <1>2, <1>4, <1>9, <1>12, ContinueFits

LEMMA EmergencyDay ==
    ASSUME Suggesting(journey), SuggestEmergency
    PROVE  JourneyFits(journey')
<1>1. EndDay(Emergency, journey.used) /\ journey.used \in SUBSET Ids
    BY DEF SuggestEmergency, Suggesting
<1>2. Marked(Emergency, journey.used)
    BY EmergencyFits DEF Marked
<1>3. \A d \in 1..journey.request.days : Apart(Emergency, journey.suggested[d])
    BY EmergencyFits DEF Apart
<1> QED BY <1>1, <1>2, <1>3, EmergencyFits, EndDayFits

LEMMA SearchDay ==
    ASSUME Suggesting(journey), SearchCategory
    PROVE  JourneyFits(journey')
<1> DEFINE n == journey.day_number
           c == Category(n, journey.searched)
<1>1. /\ journey \in [at : {"suggesting"}, request : Journeys, own : Plans, suggested : Fillings,
                      used : SUBSET Ids, day_number : Nat \ {0}, found : Seq(Option), searched : 0..2]
      /\ Filled(journey.request, journey.own, journey.suggested)
      /\ \A d \in 1..journey.request.days : Marked(journey.suggested[d], journey.used)
      /\ FoundFits(journey.found, journey.suggested, journey.used, journey.searched)
      /\ FreeDays(journey.own, journey.suggested) # {}
    BY DEF Suggesting
<1>2. n \in Nat \ {0} /\ journey.searched \in 0..2 /\ journey.found \in Seq(Option)
      /\ journey.used \in SUBSET Ids
    BY <1>1
<1>3. c \in DOMAIN PlacesNear
    <2>1. Categories \in Seq(DOMAIN PlacesNear) /\ Categories # <<>>
        BY MultimodalAssumption
    <2>2. Len(Categories) \in Nat \ {0}
        BY <2>1
    <2> DEFINE k == ((n - 1) * PerDay) + journey.searched
               m == Len(Categories)
    <2>3. k \in Nat
        BY <1>2 DEF PerDay
    <2>4. c = Categories[(k % m) + 1]
        BY DEF Category
    <2> HIDE DEF k
    <2>5. (k % m) + 1 \in 1..m
        <3> HIDE DEF m
        <3>1. m \in Nat \ {0}
            BY <2>2 DEF m
        <3> QED BY <2>3, <3>1
    <2> HIDE DEF c
    <2> QED BY <2>1, <2>4, <2>5
<1> HIDE DEF c
<1>4. PICK answer \in {PlacesNear[c], <<>>} :
          LET new == FirstNew(answer, journey.used, journey.found)
              found == journey.found \o new
              used == journey.used \cup {new[i].id : i \in DOMAIN new}
          IN  IF journey.searched + 1 = PerDay THEN EndDay(Padded(found, n), used)
              ELSE journey' = [journey EXCEPT !.searched = @ + 1, !.found = found, !.used = used]
    BY DEF SearchCategory, c
<1>5. answer \in Seq(Option)
    <2>1. {PlacesNear[c][i] : i \in DOMAIN PlacesNear[c]} \subseteq Option
        BY <1>3 DEF Option
    <2>2. PlacesNear[c] \in Seq({PlacesNear[c][i] : i \in DOMAIN PlacesNear[c]})
        BY <1>3, MultimodalAssumption
    <2> DEFINE S == {PlacesNear[c][i] : i \in DOMAIN PlacesNear[c]}
    <2>3. PlacesNear[c] \in Seq(Option)
        <3>1. S \subseteq Option /\ PlacesNear[c] \in Seq(S)
            BY <2>1, <2>2
        <3> HIDE DEF S
        <3> QED BY <3>1
    <2>4. <<>> \in Seq(Option)
        OBVIOUS
    <2> HIDE DEF S
    <2> QED BY <2>3, <2>4
<1> DEFINE new == FirstNew(answer, journey.used, journey.found)
           found == journey.found \o new
           used == journey.used \cup {new[i].id : i \in DOMAIN new}
<1>6. IF journey.searched + 1 = PerDay THEN EndDay(Padded(found, n), used)
      ELSE journey' = [journey EXCEPT !.searched = @ + 1, !.found = found, !.used = used]
    BY <1>4
<1>7. \/ new = <<>>
      \/ \E p \in Option : new = <<p>> /\ p.id # NoId /\ p.id \notin journey.used
                           /\ Renamed(p, journey.found)
    BY <1>5, FirstNewFits
<1> HIDE DEF new
<1> DEFINE k == journey.searched + 1
\* The place found, if there is one, is nowhere yet.
<1>8. /\ FoundFits(found, journey.suggested, used, k)
      /\ used \in SUBSET Ids /\ journey.used \subseteq used
    <2> DEFINE old == journey.found
    <2>1. /\ old \in Seq(Option) /\ Len(old) <= journey.searched
          /\ Marked(old, journey.used) /\ Distinct(old)
          /\ \A i \in DOMAIN old : old[i].id # NoId
          /\ \A d \in DOMAIN journey.suggested : Apart(old, journey.suggested[d])
        BY <1>1 DEF FoundFits
    <2>2. \A d \in DOMAIN journey.suggested : Marked(journey.suggested[d], journey.used)
        BY <1>1 DEF Filled
    <2> HIDE DEF old
    <2>3. CASE new = <<>>
        <3>1. found = old
            BY <2>1, <2>3, ConcatEmptySeq DEF old
        <3>2. used = journey.used
            <4>1. DOMAIN new = {}
                BY <2>3
            <4> QED BY <4>1
        <3>3. Len(old) <= k
            BY <1>2, <2>1
        <3> HIDE DEF found, used, k
        <3> QED BY <1>2, <2>1, <3>1, <3>2, <3>3 DEF FoundFits
    <2>4. CASE new # <<>>
        <3>1. PICK p \in Option : new = <<p>> /\ p.id # NoId /\ p.id \notin journey.used
                                  /\ Renamed(p, journey.found)
            BY <1>7, <2>4
        <3>2. found = Append(old, p)
            BY <2>1, <3>1, AppendIsConcat DEF old
        <3>3. used = journey.used \cup {p.id}
            <4>1. DOMAIN new = {1} /\ new[1] = p
                BY <3>1
            <4> QED BY <4>1
        <3> HIDE DEF found, used
        <3> DEFINE L == Len(old)
        <3>4. L \in Nat /\ DOMAIN old = 1..L
            BY <2>1
        <3>5. found \in Seq(Option) /\ Len(found) = L + 1
            BY <2>1, <3>2, AppendProperties
        <3>6. found[L + 1] = p
            BY <2>1, <3>2, AppendProperties
        <3>7. \A i \in 1..L : found[i] = old[i]
            BY <2>1, <3>2, AppendProperties
        <3>8. DOMAIN found = 1..(L + 1) /\ L <= journey.searched
            BY <2>1, <3>5
        <3> HIDE DEF L
        <3>9. \A i \in DOMAIN found : i = L + 1 \/ i \in 1..L
            BY <3>4, <3>8
        <3>10. Len(found) <= k
            BY <1>2, <3>4, <3>5, <3>8
        <3>11. Marked(found, used)
            <4> SUFFICES ASSUME NEW i \in DOMAIN found PROVE found[i].id \in used \cup {NoId}
                BY DEF Marked
            <4>1. CASE i = L + 1
                BY <3>3, <3>6, <4>1
            <4>2. CASE i \in 1..L
                <5>1. found[i] = old[i] /\ old[i].id \in journey.used \cup {NoId}
                    BY <2>1, <3>4, <3>7, <4>2 DEF Marked
                <5> QED BY <3>3, <5>1
            <4> QED BY <3>9, <4>1, <4>2
        <3>12. \A i \in DOMAIN found : found[i].id # NoId
            <4> SUFFICES ASSUME NEW i \in DOMAIN found PROVE found[i].id # NoId
                OBVIOUS
            <4>1. CASE i = L + 1
                BY <3>1, <3>6, <4>1
            <4>2. CASE i \in 1..L
                BY <2>1, <3>4, <3>7, <4>2
            <4> QED BY <3>9, <4>1, <4>2
        <3>13. \A i \in 1..L : /\ old[i].id # p.id /\ old[i].name # p.name
            <4> SUFFICES ASSUME NEW i \in 1..L PROVE old[i].id # p.id /\ old[i].name # p.name
                OBVIOUS
            <4>1. old[i].id \in journey.used /\ i \in DOMAIN old
                BY <2>1, <3>4 DEF Marked
            <4>2. old[i].name # p.name
                BY <3>1, <4>1 DEF Renamed, old
            <4> QED BY <3>1, <4>1, <4>2
        <3>14. Distinct(found)
            <4> SUFFICES ASSUME NEW i \in DOMAIN found, NEW j \in DOMAIN found
                         PROVE  /\ (found[i].id # NoId /\ found[i].id = found[j].id) => i = j
                                /\ (found[i].name = found[j].name
                                       /\ (found[i].id = NoId) = (found[j].id = NoId)) => i = j
                BY DEF Distinct
            <4>1. CASE i \in 1..L /\ j \in 1..L
                <5>1. found[i] = old[i] /\ found[j] = old[j] /\ i \in DOMAIN old /\ j \in DOMAIN old
                    BY <3>4, <3>7, <4>1
                <5> QED BY <2>1, <5>1 DEF Distinct
            <4>2. CASE i = L + 1 /\ j \in 1..L
                BY <3>6, <3>7, <3>13, <4>2
            <4>3. CASE i \in 1..L /\ j = L + 1
                BY <3>6, <3>7, <3>13, <4>3
            <4>4. CASE i = L + 1 /\ j = L + 1
                BY <4>4
            <4> QED BY <3>9, <4>1, <4>2, <4>3, <4>4
        <3>15. \A d \in DOMAIN journey.suggested : Apart(found, journey.suggested[d])
            <4> SUFFICES ASSUME NEW d \in DOMAIN journey.suggested,
                                NEW i \in DOMAIN found, NEW e \in DOMAIN journey.suggested[d],
                                found[i].id # NoId
                         PROVE  found[i].id # journey.suggested[d][e].id
                BY DEF Apart
            <4>1. CASE i = L + 1
                <5>1. journey.suggested[d][e].id \in journey.used \cup {NoId}
                    BY <2>2 DEF Marked
                <5> QED BY <3>1, <3>6, <4>1, <5>1
            <4>2. CASE i \in 1..L
                <5>1. found[i] = old[i] /\ i \in DOMAIN old
                    BY <3>4, <3>7, <4>2
                <5> QED BY <2>1, <5>1 DEF Apart
            <4> QED BY <3>9, <4>1, <4>2
        <3>16. p.id \in Ids
            BY DEF Ids
        <3>17. used \in SUBSET Ids /\ journey.used \subseteq used
            BY <1>2, <3>3, <3>16
        <3> HIDE DEF k
        <3> QED BY <3>5, <3>10, <3>11, <3>12, <3>14, <3>15, <3>17 DEF FoundFits
    <2> QED BY <2>3, <2>4
<1> HIDE DEF found, used
<1>9. CASE journey.searched + 1 = PerDay
    <2>1. EndDay(Padded(found, n), used)
        BY <1>6, <1>9
    <2>2. /\ found \in Seq(Option) /\ Len(found) <= k /\ Marked(found, used) /\ Distinct(found)
          /\ \A i \in DOMAIN found : found[i].id # NoId
          /\ \A d \in DOMAIN journey.suggested : Apart(found, journey.suggested[d])
        BY <1>8 DEF FoundFits
    <2>3. Len(found) <= PerDay
        BY <1>9, <2>2
    <2> DEFINE s == Padded(found, n)
    <2>4. /\ s \in Seq(Option) /\ Len(s) = PerDay /\ Distinct(s)
          /\ \A i \in DOMAIN s : s[i].id = NoId \/ (i \in DOMAIN found /\ s[i] = found[i])
        BY <1>2, <2>2, <2>3, PaddedFits
    <2> HIDE DEF s
    <2>5. Marked(s, used)
        BY <2>2, <2>4 DEF Marked
    <2>6. \A d \in 1..journey.request.days : Apart(s, journey.suggested[d])
        <3> SUFFICES ASSUME NEW d \in 1..journey.request.days PROVE Apart(s, journey.suggested[d])
            OBVIOUS
        <3>1. d \in DOMAIN journey.suggested
            BY <1>1 DEF Filled
        <3>2. Apart(found, journey.suggested[d])
            BY <2>2, <3>1
        <3> QED BY <2>4, <3>2 DEF Apart
    <2> QED BY <1>8, <2>1, <2>4, <2>5, <2>6, EndDayFits DEF s
<1>10. CASE journey.searched + 1 # PerDay
    <2> DEFINE x == [journey EXCEPT !.searched = k, !.found = found, !.used = used]
    <2>1. journey' = x
        BY <1>6, <1>10
    <2>2. k \in 0..2
        BY <1>2, <1>10 DEF PerDay
    <2>3. found \in Seq(Option)
        BY <1>8 DEF FoundFits
    <2> HIDE DEF k
    <2>4. /\ x \in [at : {"suggesting"}, request : Journeys, own : Plans, suggested : Fillings,
                    used : SUBSET Ids, day_number : Nat \ {0}, found : Seq(Option), searched : 0..2]
          /\ x.request = journey.request /\ x.own = journey.own /\ x.suggested = journey.suggested
          /\ x.used = used /\ x.found = found /\ x.searched = k
        BY <1>1, <1>8, <2>2, <2>3
    <2> HIDE DEF x
    <2>5. \A d \in 1..journey.request.days : Marked(journey.suggested[d], used)
        BY <1>1, <1>8 DEF Marked
    <2>6. Suggesting(x)
        BY <1>1, <1>8, <2>4, <2>5 DEF Suggesting
    <2> QED BY <2>1, <2>6 DEF JourneyFits
<1> QED BY <1>9, <1>10

LEMMA BeginFits ==
    ASSUME NEW j \in Journeys, Begin(j)
    PROVE  JourneyFits(journey')
<1>1. \/ journey' = [at |-> "legacy", request |-> j]
      \/ journey' = [at |-> "ortools", request |-> j]
      \/ journey' = Error(j)
    BY DEF Begin
<1> QED BY <1>1 DEF JourneyFits, Error

LEMMA LegacyFits ==
    ASSUME JourneyFits(journey), LegacyAnswers
    PROVE  JourneyFits(journey')
<1> DEFINE j == journey.request
           own(day) == [d \in 1..j.days |-> {p \in DOMAIN j.places : day[p] = d}]
           none == [d \in 1..j.days |-> <<>>]
<1>1. j \in Journeys /\ j.days \in Nat
    BY MultimodalAssumption DEF LegacyAnswers, JourneyFits, Suggesting, NoJourney
<1>2. CASE journey' = Error(j)
    BY <1>2 DEF JourneyFits, Error
<1>3. ASSUME NEW day, journey' = Continue(j, own(day), none, {}, 0)
      PROVE  JourneyFits(journey')
    <2> DEFINE o == own(day)
    <2>1. o \in [1..j.days -> SUBSET DOMAIN j.places]
        OBVIOUS
    <2>2. none \in [1..j.days -> Seq(Option)] /\ \A d \in 1..j.days : none[d] = <<>>
        OBVIOUS
    <2> HIDE DEF j, o, none
    <2>3. \A t : Apart(<<>>, t) /\ Distinct(<<>>) /\ Marked(<<>>, {})
        <3> DEFINE empty == <<>>
        <3>1. DOMAIN empty = {}
            OBVIOUS
        <3> HIDE DEF empty
        <3>2. \A t : Apart(empty, t) /\ Distinct(empty) /\ Marked(empty, {})
            BY <3>1 DEF Apart, Distinct, Marked
        <3> QED BY <3>2 DEF empty
    <2>4. /\ \A d \in 1..j.days : Distinct(none[d]) /\ Marked(none[d], {})
          /\ \A d, e \in 1..j.days : Apart(none[d], none[e])
        BY <2>2, <2>3
    <2>5. Filled(j, o, none)
        BY <2>1, <2>2, <2>4 DEF Filled
    <2>6. {} \in SUBSET Ids /\ 0 \in Nat
        OBVIOUS
    <2>7. JourneyFits(Continue(j, o, none, {}, 0))
        BY <1>1, <2>4, <2>5, <2>6, ContinueFits
    <2> QED BY <1>3, <2>7 DEF o
<1>4. journey' = Error(j) \/ \E day : journey' = Continue(j, own(day), none, {}, 0)
    BY DEF LegacyAnswers
<1> QED BY <1>2, <1>3, <1>4

MultimodalInv == JourneyFits(journey)

LEMMA MultimodalStep == MultimodalInv /\ [MultimodalNext]_multimodalVars => MultimodalInv'
<1> SUFFICES ASSUME JourneyFits(journey), [MultimodalNext]_multimodalVars
             PROVE  JourneyFits(journey')
    BY DEF MultimodalInv
<1>1. CASE ORToolsFails
    <2>1. journey.at = "ortools" /\ journey' = [at |-> "legacy", request |-> journey.request]
        BY <1>1 DEF ORToolsFails
    <2>2. journey.request \in Journeys
        BY <2>1 DEF JourneyFits, Suggesting, NoJourney
    <2> QED BY <2>1, <2>2 DEF JourneyFits
<1>2. CASE SearchCategory \/ SuggestEmergency
    <2>1. journey.at = "suggesting"
        BY <1>2 DEF SearchCategory, SuggestEmergency
    <2>2. Suggesting(journey)
        BY <2>1 DEF JourneyFits, NoJourney
    <2> QED BY <1>2, <2>2, SearchDay, EmergencyDay
<1>3. CASE UNCHANGED multimodalVars
    BY <1>3 DEF multimodalVars
<1> QED BY <1>1, <1>2, <1>3, BeginFits, LegacyFits DEF MultimodalNext

LEMMA MultimodalInitial == MultimodalInit => MultimodalInv
BY DEF MultimodalInit, MultimodalInv, JourneyFits

\* What an itinerary that is returned looks like.
LEMMA AnsweredFits ==
    ASSUME JourneyFits(journey), Itinerary
    PROVE  /\ Filled(journey.request, journey.own, journey.suggested)
           /\ FreeDays(journey.own, journey.suggested) = {}
           /\ journey.request.days \in Nat
<1>1. journey.at = "answered" /\ journey.status = 200
    BY DEF Itinerary
<1>2. journey # NoJourney /\ ~Suggesting(journey)
    BY <1>1 DEF NoJourney, Suggesting
<1> QED BY <1>1, <1>2, MultimodalAssumption DEF JourneyFits

\* However the categories come round again and Google's answers overlap, no
\* place is suggested on two days or twice on one (api.py,
\* generate_smart_suggestions_for_day and its used_place_ids).
THEOREM MultimodalSuggestsOnce == MultimodalSpec => []SuggestedOnce
<1>1. MultimodalInv => SuggestedOnce
    <2> SUFFICES ASSUME JourneyFits(journey), Itinerary PROVE SuggestedOnce
        BY DEF SuggestedOnce, MultimodalInv
    <2> DEFINE s == journey.suggested
               n == journey.request.days
    <2>1. Filled(journey.request, journey.own, s)
        BY AnsweredFits
    <2>2. /\ DOMAIN s = 1..n
          /\ \A d \in 1..n : Distinct(s[d])
          /\ \A d, e \in 1..n : d # e => Apart(s[d], s[e])
        BY <2>1 DEF Filled
    <2> HIDE DEF s, n
    <2>3. ASSUME NEW d \in DOMAIN s, NEW e \in DOMAIN s, NEW i \in DOMAIN s[d], NEW k \in DOMAIN s[e]
          PROVE  /\ (s[d][i].id # NoId /\ s[d][i].id = s[e][k].id) => <<d, i>> = <<e, k>>
                 /\ (d = e /\ s[d][i].name = s[e][k].name
                        /\ (s[d][i].id = NoId) = (s[e][k].id = NoId)) => i = k
        <3>1. CASE d = e
            BY <2>2, <2>3, <3>1 DEF Distinct
        <3>2. CASE d # e
            BY <2>2, <2>3, <3>2 DEF Apart
        <3> QED BY <3>1, <3>2
    <2> QED BY <2>3 DEF SuggestedOnce, s
<1> QED BY <1>1, MultimodalInitial, MultimodalStep, PTL DEF MultimodalSpec

\* Whatever Google answers, a day with places keeps exactly these and a day
\* without gets three suggestions (api.py, "Asegurar exactamente 3 sugerencias").
THEOREM MultimodalFillsDays == MultimodalSpec => []EveryDayHasPlans
<1>1. MultimodalInv => EveryDayHasPlans
    <2> SUFFICES ASSUME JourneyFits(journey), Itinerary PROVE EveryDayHasPlans
        BY DEF EveryDayHasPlans, MultimodalInv
    <2> DEFINE s == journey.suggested
               own == journey.own
               n == journey.request.days
    <2>1. Filled(journey.request, own, s) /\ FreeDays(own, s) = {} /\ n \in Nat
        BY AnsweredFits
    <2>2. /\ own \in [1..n -> SUBSET DOMAIN journey.request.places]
          /\ s \in [1..n -> Seq(Option)]
          /\ \A d \in 1..n : s[d] = <<>> \/ (own[d] = {} /\ Len(s[d]) = PerDay)
        BY <2>1 DEF Filled
    <2> HIDE DEF own, s, n
    <2>3. Len(s) = n
        BY <2>1, <2>2
    <2>4. \A d \in 1..n : own[d] # {} \/ s[d] # <<>>
        BY <2>1, <2>2 DEF FreeDays
    <2>5. \A d \in 1..n : Len(s[d]) = (IF own[d] = {} THEN PerDay ELSE 0)
        <3> SUFFICES ASSUME NEW d \in 1..n PROVE Len(s[d]) = (IF own[d] = {} THEN PerDay ELSE 0)
            OBVIOUS
        <3>1. CASE own[d] = {}
            BY <2>2, <2>4, <3>1
        <3>2. CASE own[d] # {}
            <4>1. s[d] = <<>>
                BY <2>2, <3>2
            <4> QED BY <3>2, <4>1
        <3> QED BY <3>1, <3>2
    <2> QED BY <2>3, <2>5 DEF EveryDayHasPlans, own, s, n
<1> QED BY <1>1, MultimodalInitial, MultimodalStep, PTL DEF MultimodalSpec
==============================================================================
