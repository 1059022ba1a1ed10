------------------------------ MODULE Telemetry ------------------------------
(***************************************************************************)
(* What triage reads of a recorded bundle and what it computes from it:    *)
(* the queries over metric samples (backends/bundle_duckdb.py), the robust *)
(* scores of services (triage/anomaly.py, triage/scoring.py) and the two   *)
(* windows they compare (triage/pipeline.choose_windows).                  *)
(*                                                                         *)
(* A sample is [at, service, metric, value, error] with whole values and   *)
(* times.  A score is in hundredths of a robust deviation, rounded down.   *)
(***************************************************************************)
EXTENDS Integers, Sequences, FiniteSets, SequencesExt, FiniteSetsExt

CONSTANTS
  ServiceOrder,     \* the names of all services, in the order they sort
  Directions,       \* metric -> "up", "down" or "either"
  CallsTotal,       \* the metric of which only errors are looked at
  MaxRows,          \* rows a tool is given
  MaxSeriesPoints,  \* rows a scorer is given, of all services together
  MinBaselinePoints,
  GuardSeconds,     \* between the baseline and the incident
  BaselineThirds,   \* <<n, d>>: the share of a recording without an alert that is baseline
  OnsetThreshold,   \* hundredths of a deviation that are an onset
  Tiny,             \* ABSOLUTE_MIN_SCALE, a scale below that of any sample
  Never             \* None: no alert, no service

ASSUME TelemetryAssumption ==
  /\ ServiceOrder \in Seq(ToSet(ServiceOrder)) /\ Never \notin ToSet(ServiceOrder)
  /\ MaxSeriesPoints \in Nat /\ Tiny \in Nat \ {0}

Metrics == DOMAIN Directions

SortPlace(service) == CHOOSE k \in DOMAIN ServiceOrder : ServiceOrder[k] = service

Sample == [at: Int, service: ToSet(ServiceOrder), metric: Metrics, value: Int, error: BOOLEAN]

----------------------------------------------------------------------------
(* Queries; what they give is a set of positions in the file *)

Window(start, end) == [start |-> start, end |-> end]

\* A window has both its ends; no services means all of them.
RowsIn(samples, metric, window, services) ==
  {k \in DOMAIN samples :
     /\ samples[k].metric = metric
     /\ samples[k].at >= window.start /\ samples[k].at <= window.end
     /\ services = {} \/ samples[k].service \in services}

\* Both orders leave ties: they keep the order of the file.
Earlier(samples, j, k) ==
  LET p == samples[j]
      q == samples[k]
  IN \/ p.at < q.at
     \/ p.at = q.at /\ SortPlace(p.service) < SortPlace(q.service)
     \/ p.at = q.at /\ p.service = q.service /\ j < k

ServiceFirst(samples, j, k) ==
  LET p == samples[j]
      q == samples[k]
  IN \/ SortPlace(p.service) < SortPlace(q.service)
     \/ p.service = q.service /\ p.at < q.at
     \/ p.service = q.service /\ p.at = q.at /\ j < k

\* ORDER BY ... LIMIT
FirstOf(Before(_, _), rows, limit) ==
  IF Cardinality(rows) <= limit THEN rows
  ELSE {k \in rows : Cardinality({j \in rows : Before(j, k)}) < limit}

\* base.check_limit
Capped(limit) == IF limit < MaxRows THEN limit ELSE MaxRows

\* BundleBackend.query_metrics: the earliest rows, cut off without a word.
QueryMetrics(samples, metric, window, services, limit) ==
  FirstOf(LAMBDA j, k : Earlier(samples, j, k), RowsIn(samples, metric, window, services), Capped(limit))

\* BundleBackend.metric_series: service by service, so that what is cut off
\* is the services that sort last.
MetricSeries(samples, metric, window, services) ==
  FirstOf(LAMBDA j, k : ServiceFirst(samples, j, k), RowsIn(samples, metric, window, services), MaxSeriesPoints)

\* scoring.error_only, after the rows were cut off.
ErrorOnly(samples, rows, metric) ==
  IF metric = CallsTotal THEN {k \in rows : samples[k].error} ELSE rows

\* scoring.fetch_metric
FetchMetric(samples, metric, window, services) ==
  ErrorOnly(samples, MetricSeries(samples, metric, window, services), metric)

\* Mutant: the tool compares all calls and not only the errors.
FetchRowsUnfiltered(samples, metric, window, services, limit) ==
  QueryMetrics(samples, metric, window, services, limit)

\* tools/metrics._fetch
FetchRows(samples, metric, window, services, limit) ==
  ErrorOnly(samples, QueryMetrics(samples, metric, window, services, limit), metric)

PointsOf(samples, rows, service) == {k \in rows : samples[k].service = service}

Values(samples, rows) == [k \in rows |-> samples[k].value]

ServicesOf(samples, rows) == {samples[k].service : k \in rows}

----------------------------------------------------------------------------
(* Robust scores *)

\* The value in place n when all are sorted: the least that n of them do not exceed.
Nth(values, n) ==
  Min({values[k] : k \in {j \in DOMAIN values : Cardinality({i \in DOMAIN values : values[i] <= values[j]}) >= n}})

\* Twice the median, 0 of nothing.
DoubleMedian(values) ==
  LET n == Cardinality(DOMAIN values)
  IN IF n = 0 THEN 0 ELSE Nth(values, (n + 1) \div 2) + Nth(values, (n + 2) \div 2)

Abs(n) == IF n < 0 THEN -n ELSE n

MaxOf(a, b) == IF a < b THEN b ELSE a

\* anomaly._zero_baseline_scale; medians are doubled and a scale is in
\* twenty-thousandths, so that five hundredths of a level are 500 of its double.
ZeroBaselineScale(double, reference) ==
  IF double = 0 /\ reference # 0 THEN 500 * Abs(reference) ELSE Tiny

\* anomaly.robust_scale: 1.4826 times the median absolute deviation, but no
\* less than five hundredths of the level.
RobustScale(values, reference) ==
  LET double == DoubleMedian(values)
      spread == DoubleMedian([k \in DOMAIN values |-> Abs(2 * values[k] - double)])
  IN IF Cardinality(DOMAIN values) < 2 THEN ZeroBaselineScale(0, reference)
     ELSE MaxOf(7413 * spread, MaxOf(500 * Abs(double), ZeroBaselineScale(double, reference)))

\* A distance between two doubled levels, in hundredths of a scale.
Deviations(distance, scale) ==
  LET whole == (Abs(distance) * 1000000) \div scale IN IF distance < 0 THEN -whole ELSE whole

\* anomaly.robust_z_score
RobustZ(baseline, incident) ==
  IF DOMAIN baseline = {} \/ DOMAIN incident = {} THEN 0
  ELSE Deviations(DoubleMedian(incident) - DoubleMedian(baseline),
                  RobustScale(baseline, DoubleMedian(incident)))

\* anomaly.score_series
ScoreSeries(baseline, incident, direction) ==
  LET signed == RobustZ(baseline, incident) IN
    [score |-> IF direction = "up" THEN MaxOf(signed, 0)
               ELSE IF direction = "down" THEN MaxOf(-signed, 0)
               ELSE Abs(signed),
     trustworthy |-> Cardinality(DOMAIN baseline) >= MinBaselinePoints /\ DOMAIN incident # {}]

\* scoring.score_services: a score for every metric and service with a sample.
ScoreServices(samples, baseline, incident) ==
  LET before == [m \in Metrics |-> FetchMetric(samples, m, baseline, {})]
      during == [m \in Metrics |-> FetchMetric(samples, m, incident, {})]
      Of(pair, rows) == Values(samples, PointsOf(samples, rows[pair[1]], pair[2]))
      pairs == UNION {{m} \X ServicesOf(samples, before[m] \cup during[m]) : m \in Metrics}
  IN [pair \in pairs |-> ScoreSeries(Of(pair, before), Of(pair, during), Directions[pair[1]])]

\* anomaly.rank_anomalies, as the set of pairs it keeps.
Trusted(scores, minimum) == {pair \in DOMAIN scores : scores[pair].trustworthy /\ scores[pair].score >= minimum}

Largest(scores, pairs) == IF pairs = {} THEN 0 ELSE Max({scores[pair].score : pair \in pairs})

\* tools/metrics.compare_windows, of one service and metric.
CompareWindows(samples, metric, service, baseline, incident) ==
  LET Read(window) == Values(samples, FetchRows(samples, metric, window, {service}, MaxSeriesPoints))
  IN ScoreSeries(Read(baseline), Read(incident), Directions[metric])

\* anomaly.onset_index with scoring.onset_seconds: the first crossings of the
\* services, upwards whatever the direction, and with no level to fall back on
\* where the baseline is flat at zero.
Crossings(samples, baseline, series) ==
  LET values == Values(samples, baseline)
      level == DoubleMedian(values)
      scale == RobustScale(values, 0)
  IN {samples[k].at : k \in {j \in series : Deviations(2 * samples[j].value - level, scale) >= OnsetThreshold}}

OnsetSeconds(samples, baseline, incident) ==
  LET before == [m \in Metrics |-> FetchMetric(samples, m, baseline, {})]
      during == [m \in Metrics |-> FetchMetric(samples, m, incident, {})]
      Crossed(s) ==
        UNION {Crossings(samples, PointsOf(samples, before[m], s), PointsOf(samples, during[m], s)) :
                 m \in {n \in Metrics : Cardinality(PointsOf(samples, before[n], s)) >= MinBaselinePoints}}
      abnormal == {s \in ToSet(ServiceOrder) : Crossed(s) # {}}
  IN [s \in abnormal |-> Min(Crossed(s)) - incident.start]

----------------------------------------------------------------------------
(* Windows *)

\* pipeline.choose_windows of a recording [start, end, alert].
Anchored(recording) ==
  /\ recording.alert # Never
  /\ recording.start + 2 * GuardSeconds < recording.alert
  /\ recording.alert < recording.end

Anchor(recording) ==
  IF Anchored(recording) THEN recording.alert
  ELSE recording.start + ((recording.end - recording.start) * BaselineThirds[1]) \div BaselineThirds[2]

ChooseWindows(recording) ==
  [baseline |-> Window(recording.start, MaxOf(Anchor(recording) - GuardSeconds, recording.start)),
   incident |-> Window(Anchor(recording), recording.end)]
=============================================================================
