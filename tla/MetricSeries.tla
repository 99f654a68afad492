---------------------------- MODULE MetricSeries ----------------------------
(***************************************************************************)
(* app/incidents/metrics.py and anomaly.py: per-minute buckets for every   *)
(* action and dimension cell, and the comparison of a recent window with   *)
(* the baseline before it.  Time is in minutes.  Rates are compared as     *)
(* integer cross products where the code divides floats, and an anomaly is *)
(* its severity_boost, 0 for none.  An event is a record with              *)
(*   action, country   what it is about (NoAction, NoCountry for None)     *)
(*   signal            "success", "pending", "failure", "none": outcome    *)
(*                     or status in the payload                            *)
(*   exception, status exception type present; HTTP status, 0 for None     *)
(*   counted           counts in the payload: "none", "parts", or "total"  *)
(*                     when total_count is one of them                     *)
(*   metrics           those counts, a missing one filled in               *)
(*   latency           milliseconds, or NoLatency                          *)
(* The provider, platform and payment-method cells are like the country's. *)
(***************************************************************************)
EXTENDS Integers, FiniteSetsExt

CONSTANTS Actions, NoAction,      \* business actions
          CriticalActions,        \* those that move money
          Countries, NoCountry,
          Minutes,                \* bucket_start values of the instance
          CurrentMinutes,         \* ANOMALY_CURRENT_WINDOW_MINUTES (5)
          BaselineMinutes,        \* ANOMALY_BASELINE_WINDOW_MINUTES (60)
          BaselineMinTotal,       \* ANOMALY_BASELINE_MIN_TOTAL (20)
          BaselineCriticalMinTotal, \* ANOMALY_BASELINE_CRITICAL_MIN_TOTAL (5)
          MinSampleSize,          \* ANOMALY_MIN_SAMPLE_SIZE (20)
          CriticalMinSampleSize   \* ANOMALY_CRITICAL_MIN_SAMPLE_SIZE (3)

ASSUME SeriesAssumption ==
  /\ NoAction \notin Actions /\ CriticalActions \subseteq Actions
  /\ NoCountry \notin Countries /\ "global" \notin Countries
  /\ Minutes \subseteq Nat /\ IsFiniteSet(Minutes) /\ Minutes # {}
  /\ {CurrentMinutes, BaselineMinutes, BaselineMinTotal, BaselineCriticalMinTotal,
      MinSampleSize, CriticalMinSampleSize} \subseteq Nat \ {0}

NoMetrics == [total |-> 0, success |-> 0, failure |-> 0, pending |-> 0]
NoLatency == -1

Cells == {"global"} \cup Countries
Keys  == Actions \X Cells \X Minutes

\* rows = 0: no such row.  A cell has at most one (uq_metric_bucket_cell).
NoBucket == [rows |-> 0, total |-> 0, success |-> 0, failure |-> 0, pending |-> 0,
             latencyCount |-> 0, latencySum |-> 0]

(***************************************************************************)
(* record_event_metrics                                                    *)
(***************************************************************************)

ClassifyEventOutcome(e) ==
  CASE e.signal # "none" -> e.signal
    [] e.signal = "none" /\ ~e.exception /\ e.status \in 1..399 -> "success"
    [] e.signal = "none" /\ (e.exception \/ e.status \notin 1..399) -> "failure"

Counts(e) ==
  IF e.counted # "none" THEN e.metrics
  ELSE [[NoMetrics EXCEPT !.total = 1] EXCEPT ![ClassifyEventOutcome(e)] = 1]

DimensionCells(e) ==
  {"global"} \cup IF e.country = NoCountry THEN {} ELSE {e.country}

\* Mutant: an absent latency is added like a measured one.
AddedUntimed(b, e) ==
  LET n == Counts(e)
  IN  [rows |-> 1,
       total |-> b.total + n.total, success |-> b.success + n.success,
       failure |-> b.failure + n.failure, pending |-> b.pending + n.pending,
       latencyCount |-> b.latencyCount + 1,
       latencySum |-> b.latencySum + e.latency]

Added(b, e) ==
  LET n == Counts(e)
      timed == IF e.latency = NoLatency THEN 0 ELSE 1
  IN  [rows |-> 1,
       total |-> b.total + n.total, success |-> b.success + n.success,
       failure |-> b.failure + n.failure, pending |-> b.pending + n.pending,
       latencyCount |-> b.latencyCount + timed,
       latencySum |-> b.latencySum + timed * e.latency]

\* seen is the global cell as the session loaded it: what other tasks have
\* committed to it since is overwritten.  The other cells are loaded behind the
\* UPDATE of the global one, whose lock keeps the minute's other tasks waiting.
RecordEventMetrics(buckets, seen, e, now) ==
  [k \in Keys |->
     CASE k = <<e.action, "global", now>> -> Added(seen, e)
       [] k \in {<<e.action, c, now>> : c \in DimensionCells(e) \ {"global"}} ->
            Added(buckets[k], e)
       [] OTHER -> buckets[k]]

(***************************************************************************)
(* The detectors                                                           *)
(***************************************************************************)

SampleSize(critical) == IF critical THEN CriticalMinSampleSize ELSE MinSampleSize

DetectFailureRate(failures, total, critical) ==
  IF total >= SampleSize(critical) /\ 100 * failures >= 30 * total THEN 50 ELSE 0

DetectPendingRate(pending, total) ==
  IF total >= MinSampleSize /\ 100 * pending >= 40 * total THEN 40 ELSE 0

DetectLatencyRegression(cur, base) ==
  IF /\ cur.latencyCount > 0 /\ base.latencyCount > 0 /\ base.latencySum > 0
     /\ cur.latencySum * base.latencyCount >= 2 * base.latencySum * cur.latencyCount
  THEN 30 ELSE 0

\* z = (current - mean) / stdev of the n counts in the series: times n, the
\* deviation over the root of the variance.  int(z * 10), at most 60.
DetectVolumeSpike(current, series, minutes) ==
  LET n == Cardinality(minutes)
      sum == SumFunctionOnSet(series, minutes)
      squares == SumFunctionOnSet([m \in minutes |-> series[m] * series[m]], minutes)
      variance == n * squares - sum * sum
      deviation == n * current - sum
  IN  CASE n < MinSampleSize -> 0
        [] n >= MinSampleSize /\ variance = 0 -> IF deviation > 0 THEN 40 ELSE 0
        [] n >= MinSampleSize /\ variance # 0 ->
             IF deviation > 0 /\ deviation * deviation >= 9 * variance
             THEN Max({z \in 0..60 : z * z * variance <= 100 * deviation * deviation})
             ELSE 0

\* Mutant: the boost in tenths instead of percent.
DetectSuccessRateDropTenths(cur, base, critical) ==
  LET drop == 10 * (base.success * cur.total - cur.success * base.total)
      scale == base.total * cur.total
  IN  IF /\ cur.total > 0
         /\ base.total >= IF critical THEN BaselineCriticalMinTotal ELSE BaselineMinTotal
         /\ drop >= 2 * scale
      THEN Min({60, drop \div scale}) ELSE 0

DetectSuccessRateDrop(cur, base, critical) ==
  LET drop == 100 * (base.success * cur.total - cur.success * base.total)
      scale == base.total * cur.total
  IN  IF /\ cur.total > 0
         /\ base.total >= IF critical THEN BaselineCriticalMinTotal ELSE BaselineMinTotal
         /\ drop >= 20 * scale
      THEN Min({60, drop \div scale}) ELSE 0

(***************************************************************************)
(* analyze_series and detect_baseline_anomaly.  The query has no upper     *)
(* bound: for an event that is processed late, minutes after its own       *)
(* belong to the current window.                                           *)
(***************************************************************************)
Rows(buckets, a, c) == {m \in Minutes : buckets[a, c, m].rows > 0}

Current(buckets, a, c, now) ==
  {m \in Rows(buckets, a, c) : m > now - CurrentMinutes}

Baseline(buckets, a, c, now) ==
  {m \in Rows(buckets, a, c) :
     m <= now - CurrentMinutes /\ m > now - CurrentMinutes - BaselineMinutes}

Fold(buckets, a, c, minutes) ==
  [field \in DOMAIN NoBucket |->
     SumFunctionOnSet([m \in minutes |-> buckets[a, c, m][field]], minutes)]

AnalyzeSeries(buckets, a, c, minutes, before) ==
  LET current == Fold(buckets, a, c, minutes)
      baseline == Fold(buckets, a, c, before)
      critical == a \in CriticalActions
  IN  Max({DetectSuccessRateDrop(current, baseline, critical),
           DetectFailureRate(current.failure, current.total, critical),
           DetectPendingRate(current.pending, current.total),
           DetectLatencyRegression(current, baseline),
           DetectVolumeSpike(current.total,
                             [m \in before |-> buckets[a, c, m].total], before)})

AnalyzeCell(buckets, a, c, now) ==
  AnalyzeSeries(buckets, a, c, Current(buckets, a, c, now), Baseline(buckets, a, c, now))

\* Mutant: only the first cell is compared.
DetectBaselineAnomalyGlobal(buckets, e, now) ==
  IF e.action = NoAction THEN 0 ELSE AnalyzeCell(buckets, e.action, "global", now)

DetectBaselineAnomaly(buckets, e, now) ==
  IF e.action = NoAction THEN 0
  ELSE Max({AnalyzeCell(buckets, e.action, c, now) : c \in DimensionCells(e)})

(***************************************************************************)
(* The same comparison for the dashboards, GET /dashboard/metrics and      *)
(* _metric_cells behind /dashboard/data, which read all cells at once and  *)
(* cut the windows themselves.                                             *)
(***************************************************************************)

\* Mutant: the minute of now comes on top of the window.
BoardStartEarly(now) == now - CurrentMinutes

BoardStart(now) == now - (CurrentMinutes - 1)

\* The anomaly of every cell that has a row in the current window.
MetricCells(buckets, now) ==
  LET rows == {k \in Keys : buckets[k].rows > 0 /\ k[3] >= BoardStart(now) - BaselineMinutes}
      of(a, c) == {k[3] : k \in {r \in rows : r[1] = a /\ r[2] = c}}
      current(a, c) == {m \in of(a, c) : m >= BoardStart(now)}
  IN  [x \in {<<k[1], k[2]>> : k \in {r \in rows : r[3] >= BoardStart(now)}} |->
         AnalyzeSeries(buckets, x[1], x[2], current(x[1], x[2]),
                       of(x[1], x[2]) \ current(x[1], x[2]))]

\* detect_anomaly on the counts of the payload: the first that trips, and none
\* without a total_count, which is not summed up here.  A producer's own
\* "critical" flag, p95 pair and volume series, which go through the same
\* detectors, are left out.
DetectAnomaly(e) ==
  LET failing == DetectFailureRate(e.metrics.failure, e.metrics.total, FALSE)
  IN  CASE e.counted # "total" -> 0
        [] e.counted = "total" /\ failing > 0 -> failing
        [] e.counted = "total" /\ failing = 0 ->
             DetectPendingRate(e.metrics.pending, e.metrics.total)
=============================================================================
