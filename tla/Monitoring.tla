----------------------------- MODULE Monitoring -----------------------------
(***************************************************************************)
(* ORToolsMonitoring: the deque of metrics, the counters of the current    *)
(* window, its rotation and the alerts. Its coroutines await only each     *)
(* other, so one record_optimization is one step, raising or not.          *)
(*                                                                         *)
(* Time is what the code compares it with: the current window has ended or *)
(* not, and a metric lies in the current window or not.                    *)
(***************************************************************************)
EXTENDS Naturals, Sequences, FiniteSets

CONSTANTS MaxMetrics,   \* maxlen of the deque
          MinData,      \* requests before alerts are looked at
          MaxTotal      \* bound of total_requests of a window

ASSUME MonitorAssumption == MaxMetrics \in Nat \ {0} /\ MinData \in Nat /\ MaxTotal \in Nat

Statuses == {"success", "failure", "timeout", "error"}
Methods == {"ortools", "legacy"}

VARIABLES metrics,        \* deque of [in_window, status, method]
          current_window, \* its counters
          window_over,    \* now >= current_window.end_time
          hourly,         \* a window has been stored in hourly_stats
          active_alerts,  \* types with an active alert
          orphaned        \* types with an alert_history entry left ACTIVE when its alert was replaced

monitorVars == <<metrics, current_window, window_over, hourly, active_alerts, orphaned>>

AlertTypes == {"success_rate", "avg_execution_time", "p95_execution_time", "error_rate"}

_create_new_window == [s \in Statuses |-> 0]
Total(w) == w["success"] + w["failure"] + w["timeout"] + w["error"]

\* deque(maxlen): the oldest metric makes room.
Appended(q, x) == IF Len(q) < MaxMetrics THEN Append(q, x) ELSE Append(Tail(q), x)

-----------------------------------------------------------------------------
(* Rotation *)

\* Mutant of WindowMetrics: without the upper end of the interval.
WindowMetricsOpenEnded(q) == {i \in DOMAIN q : q[i].in_window \/ i = Len(q)}

\* start_time <= m.timestamp < end_time
WindowMetrics(q) == {i \in DOMAIN q : q[i].in_window}

\* _finalize_window raises whenever there is something to finalise, because
\* _create_daily_aggregate does not exist; the hourly entry is set before that.
_finalize_window(q) == IF WindowMetrics(q) = {} THEN "returns" ELSE "raises"

-----------------------------------------------------------------------------
(* Alerts *)

_check_success_rate_alert(w) == 100 * w["success"] < 95 * Total(w)
_check_error_rate_alert(w) == 100 * (w["error"] + w["timeout"]) > 5 * Total(w)

\* The averages of a window are 0 until _finalize_window computes them, and
\* then it is no longer the current one.
_check_avg_time_alert(w) == FALSE
_check_p95_time_alert(w) == FALSE

Alerting(w) ==
    {a \in AlertTypes :
        CASE a = "success_rate" -> _check_success_rate_alert(w)
          [] a = "error_rate" -> _check_error_rate_alert(w)
          [] a = "avg_execution_time" -> _check_avg_time_alert(w)
          [] a = "p95_execution_time" -> _check_p95_time_alert(w)}

\* Mutant of _check_alerts: alerts are only added.
CheckAlertsNeverClears(w) ==
    IF Total(w) < MinData THEN UNCHANGED <<active_alerts, orphaned>>
    ELSE /\ active_alerts' = active_alerts \cup Alerting(w)
         /\ UNCHANGED orphaned

\* A persisting condition triggers its alert again on every check: the new
\* alert takes the place of the active one, whose entry in alert_history is
\* never resolved.
_check_alerts(w) ==
    IF Total(w) < MinData THEN UNCHANGED <<active_alerts, orphaned>>
    ELSE /\ active_alerts' = Alerting(w)
         /\ orphaned' = orphaned \cup (active_alerts \cap Alerting(w))

-----------------------------------------------------------------------------
(* Operations *)

\* A window that is over stops counting at the bound: only being replaced
\* matters to it.
_update_current_window(s) ==
    IF Total(current_window) < MaxTotal THEN [current_window EXCEPT ![s] = @ + 1]
    ELSE current_window

\* One finished optimisation. The metric is counted in the current window even
\* when that has ended; if finalising raises, neither the window nor the alerts
\* are touched and the caller logs the exception.
record_optimization(s, method) ==
    LET q == Appended(metrics, [in_window |-> ~window_over, status |-> s, method |-> method])
        w == _update_current_window(s)
    IN /\ window_over \/ Total(current_window) < MaxTotal
       /\ \/ /\ ~window_over
             /\ metrics' = q /\ current_window' = w
             /\ _check_alerts(w)
             /\ UNCHANGED <<window_over, hourly>>
          \/ /\ window_over /\ _finalize_window(q) = "raises"
             /\ metrics' = q /\ current_window' = w
             /\ hourly' = TRUE
             /\ UNCHANGED <<window_over, active_alerts, orphaned>>
          \/ /\ window_over /\ _finalize_window(q) = "returns"
             /\ metrics' = [i \in DOMAIN q |-> [q[i] EXCEPT !.in_window = FALSE]]
             /\ current_window' = _create_new_window
             /\ window_over' = FALSE
             /\ _check_alerts(_create_new_window)
             /\ UNCHANGED hourly

record_ortools_execution(success) ==
    record_optimization(IF success THEN "success" ELSE "failure", "ortools")
record_legacy_execution(success) ==
    record_optimization(IF success THEN "success" ELSE "failure", "legacy")

\* Ten minutes have passed since the window was created.
WindowEnds ==
    /\ ~window_over
    /\ window_over' = TRUE
    /\ UNCHANGED <<metrics, current_window, hourly, active_alerts, orphaned>>

\* What the dashboard is told: the rates of whatever the deque still holds.
get_performance_summary(q) ==
    [total |-> Len(q),
     by_status |-> [s \in Statuses |-> Cardinality({i \in DOMAIN q : q[i].status = s})],
     by_method |-> [m \in Methods |-> Cardinality({i \in DOMAIN q : q[i].method = m})],
     active_alerts |-> active_alerts]

-----------------------------------------------------------------------------
MonitorInit ==
    /\ metrics = <<>>
    /\ current_window = _create_new_window
    /\ window_over = FALSE /\ hourly = FALSE
    /\ active_alerts = {}
    /\ orphaned = {}

Record ==
    \/ \E success \in BOOLEAN : record_ortools_execution(success) \/ record_legacy_execution(success)
    \/ \E s \in {"timeout", "error"} : record_optimization(s, "ortools")

MonitorNext == Record \/ WindowEnds

MonitorSpec == MonitorInit /\ [][MonitorNext]_monitorVars

\* Optimisations keep being recorded.
MonitorFairness == WF_monitorVars(Record)

-----------------------------------------------------------------------------
(* Properties *)

\* While a window runs, its counters and the dashboard's view of the deque are
\* about the same requests, up to what the bounded deque has dropped; and the
\* alerts are those of the counters once there is enough data.
WindowAgrees ==
    ~window_over =>
        /\ Cardinality(WindowMetrics(metrics)) =
               IF Total(current_window) < MaxMetrics THEN Total(current_window) ELSE MaxMetrics
        /\ Total(current_window) >= Len(metrics) =>
               \A s \in Statuses :
                   get_performance_summary(metrics).by_status[s] <= current_window[s]
        /\ Total(current_window) >= MinData =>
               active_alerts = Alerting(current_window)

\* A window that has ended with metrics cannot be finalised, and every record
\* raises; but each pushes one metric out of the deque, so as long as
\* optimisations are recorded the window is replaced at last.
WindowReplaced == window_over ~> ~window_over
=============================================================================
