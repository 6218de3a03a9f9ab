----------------------------- MODULE Regression -----------------------------
(***************************************************************************)
(* Has a query become slower?  (core/src/sql_analysis/regression.rs and    *)
(* statistics.rs.)  Executions of a query are recorded in the order the    *)
(* log files are parsed, which is not the order they ran in; the engine    *)
(* analyses the series it has: a comparison of halves for a short one, the *)
(* detector for a long one.                                                *)
(*                                                                         *)
(* Durations are whole milliseconds.  A mean is kept as a sum and a count, *)
(* quantiles are kept fourfold, percentages are compared by multiplication.*)
(* What needs transcendental functions (the p-values of the normality and  *)
(* the t test) is a choice.                                                *)
(***************************************************************************)
EXTENDS Integers, Sequences, SequencesExt, FiniteSetsExt, Functions

CONSTANTS
  Durations,         \* execution times in ms
  MaxSamples,        \* bound: executions recorded
  MaxLate,           \* bound: executions recorded after a later one
  MinBasic,          \* samples the basic engine needs (3)
  MinStatistical,    \* samples below which the detector is not asked (10)
  min_data_points,   \* RegressionDetectionConfig (20 to 50)
  MinWindow,         \* smallest change point window (5)
  minor_threshold, significant_threshold, critical_threshold  \* percent

ASSUME RegressionAssumption ==
  /\ Durations \subseteq Nat /\ MaxSamples \in Nat /\ MaxLate \in Nat
  /\ MinBasic \in 2 .. MinStatistical /\ MinStatistical \in Nat
  /\ min_data_points \in Nat /\ min_data_points >= 2 * MinWindow /\ MinWindow \in Nat \ {0}
  /\ 0 < minor_threshold /\ minor_threshold < significant_threshold
  /\ significant_threshold < critical_threshold

VARIABLES
  data,     \* PerformanceDataPoints in the order they were recorded
  analysis  \* RegressionAnalysis of data: <<>> for None

regressionVars == <<data, analysis>>

-----------------------------------------------------------------------------
(* A series of points, and the values in it.                               *)

sort_by_key(points) ==
  LET Rank(i) == Cardinality({j \in 1 .. Len(points) :
                   \/ points[j].timestamp < points[i].timestamp
                   \/ points[j].timestamp = points[i].timestamp /\ j < i})
  IN [k \in 1 .. Len(points) |-> points[CHOOSE i \in 1 .. Len(points) : Rank(i) = k - 1]]

Values(points) == [i \in 1 .. Len(points) |-> points[i].execution_time_ms]
SumOf(values) == FoldFunction(+, 0, values)
SquaresOf(values) == SumOf([i \in 1 .. Len(values) |-> values[i] * values[i]])

(* The mean of s is more than pct percent above (below) the mean of r.     *)
MeanAbove(r, s, pct) ==
  100 * (SumOf(s) * Len(r) - SumOf(r) * Len(s)) > pct * SumOf(r) * Len(s)
MeanBelow(r, s, pct) ==
  100 * (SumOf(r) * Len(s) - SumOf(s) * Len(r)) > pct * SumOf(r) * Len(s)
MeanAtLeast(r, s, pct) ==
  100 * (SumOf(s) * Len(r) - SumOf(r) * Len(s)) >= pct * SumOf(r) * Len(s)

SortedValues(values) ==
  Values(sort_by_key([i \in 1 .. Len(values) |->
           [timestamp |-> values[i], execution_time_ms |-> values[i]]]))

(* quantile(values, q / 4), times 4: between two neighbours by weight.     *)
quantile(values, q) ==
  LET sorted == SortedValues(values)
      index == q * (Len(values) + 1) - 4
      lower == index \div 4
      weight == index % 4
  IN IF index < 0 THEN 4 * sorted[1]
     ELSE IF index >= 4 * (Len(values) - 1) THEN 4 * Last(sorted)
     ELSE sorted[lower + 1] * (4 - weight)
            + (IF weight = 0 THEN 0 ELSE sorted[lower + 2] * weight)

Abs(x) == IF x < 0 THEN 0 - x ELSE x

(* Indexes outside the quartiles by more than 1.5 times their distance.    *)
detect_iqr_outliers(values) ==
  LET q1 == quantile(values, 1)
      q3 == quantile(values, 3)
  IN {i \in 1 .. Len(values) :
        \/ 8 * values[i] < 2 * q1 - 3 * (q3 - q1)
        \/ 8 * values[i] > 2 * q3 + 3 * (q3 - q1)}

detect_anomalies_mean(values) ==
  LET n == Len(values)
      deviations == [i \in 1 .. n |-> Abs(n * values[i] - SumOf(values))]
  IN {i \in 1 .. n : deviations[i] > 0 /\ 2 * deviations[i] > Max(ToSet(deviations))}

(* Indexes whose distance from the median is more than 3.5 / 0.6745 times  *)
(* the median of the distances; none when that is 0.  The distances are    *)
(* fourfold and their median is fourfold again.                            *)
detect_anomalies_modified_zscore(values) ==
  LET median == quantile(values, 2)
      deviations == [i \in 1 .. Len(values) |-> Abs(4 * values[i] - median)]
      mad == quantile(deviations, 2)
  IN IF mad = 0 THEN {}
     ELSE {i \in 1 .. Len(values) : 6745 * deviations[i] * 4 > 35000 * mad}

(* z > 4 tells a spike; a low value's score is negative, so never a drop.  *)
AnomalyType(values, i) ==
  LET median == quantile(values, 2)
      mad == quantile([j \in 1 .. Len(values) |-> Abs(4 * values[j] - median)], 2)
  IN IF 6745 * (4 * values[i] - median) * 4 > 40000 * mad THEN "Spike"
     ELSE IF 4 * values[i] > median THEN "HighValue" ELSE "LowValue"

detect_anomalies(values) ==
  [i \in detect_anomalies_modified_zscore(values) |-> AnomalyType(values, i)]
-----------------------------------------------------------------------------
(* RegressionDetector                                                      *)

(* The coefficient of variation is above a half.                           *)
IsVolatile(values) ==
  LET n == Len(values)
      s == SumOf(values)
  IN n >= 2 /\ s > 0 /\ 4 * n * (n * SquaresOf(values) - s * s) > (n - 1) * s * s

(* A first half of zeros makes the ratio infinite, or undefined.           *)
calculate_trend(values) ==
  LET mid == Len(values) \div 2
      first == SubSeq(values, 1, mid)
      second == SubSeq(values, mid + 1, Len(values))
  IN IF IsVolatile(values) THEN "Volatile"
     ELSE IF MeanAbove(first, second, 5) THEN "Degrading"
     ELSE IF SumOf(first) > 0 /\ MeanBelow(first, second, 5) THEN "Improving"
     ELSE "Stable"

window_size(n) ==
  LET tenth == n \div 10
  IN IF tenth < MinWindow THEN MinWindow ELSE IF tenth > 50 THEN 50 ELSE tenth

(* Positions, from 0, where the mean moves by more than a fifth.           *)
detect_change_points(values) ==
  LET w == window_size(Len(values))
      before(i) == SubSeq(values, i - w + 1, i)
      after(i) == SubSeq(values, i + 1, i + w)
  IN {<<i, "Degradation">> : i \in {k \in w .. Len(values) - w - 1 :
                                      MeanAbove(before(k), after(k), 20)}}
     \cup
     {<<i, "Improvement">> : i \in {k \in w .. Len(values) - w - 1 :
                                      /\ SumOf(before(k)) > 0
                                      /\ MeanBelow(before(k), after(k), 20)}}

classify_regression_severity(r, s) ==
  IF MeanAtLeast(r, s, critical_threshold) THEN "Critical"
  ELSE IF MeanAtLeast(r, s, significant_threshold) THEN "High" ELSE "Medium"

(* The last quarter of the series against the rest.                        *)
detect_metric_regressions(points) ==
  LET split == (Len(points) * 3) \div 4
      baseline == Values(SubSeq(points, 1, split))
      current == Values(SubSeq(points, split + 1, Len(points)))
  IN IF SumOf(baseline) = 0 \/ ~MeanAbove(baseline, current, minor_threshold) THEN <<>>
     ELSE <<[severity |-> classify_regression_severity(baseline, current),
             regression_start |-> points[split + 1].timestamp]>>

determine_overall_status(regressions) ==
  IF regressions = <<>> THEN "None"
  ELSE IF regressions[1].severity = "Critical" THEN "Critical"
  ELSE IF regressions[1].severity \in {"High", "Medium"} THEN "Significant" ELSE "Minor"

Recommendation(type, priority) == [type |-> type, priority |-> priority]

(* The strength of a trend (R squared of a fitted line) above 0.7: a       *)
(* choice here.                                                            *)
generate_recommendations(regressions, trend, strong, anomalies) ==
  (IF regressions = <<>> THEN <<>>
   ELSE CASE regressions[1].severity = "Critical" -> <<Recommendation("Investigation", "Critical")>>
          [] regressions[1].severity = "High" -> <<Recommendation("Optimization", "High")>>
          [] OTHER -> <<Recommendation("Monitoring", "Medium")>>)
  \o (IF trend = "Degrading" /\ strong THEN <<Recommendation("Investigation", "High")>> ELSE <<>>)
  \o (IF Cardinality(anomalies) > 5 THEN <<Recommendation("Investigation", "Medium")>> ELSE <<>>)

(* In tenths: the amount of data, the normality test, its distribution,    *)
(* and less than one anomaly in twenty.                                    *)
calculate_confidence_level(n, deviates, normal, anomalies) ==
  LET score == (IF n >= 1000 THEN 4 ELSE IF n >= 500 THEN 3 ELSE IF n >= 100 THEN 2 ELSE 1)
                 + (IF deviates THEN 2 ELSE 0) + (IF normal THEN 2 ELSE 0)
                 + (IF 20 * Cardinality(anomalies) < n THEN 2 ELSE 0)
  IN IF 10 * score >= 95 THEN "VeryHigh" ELSE IF 10 * score >= 85 THEN "High"
     ELSE IF score >= 7 THEN "Medium" ELSE "Low"

RegressionAnalysis(sorted, status, regressions, trend, recommendations, confidence) ==
  [status |-> status, metric_regressions |-> regressions, trend |-> trend,
   recommendations |-> recommendations, confidence |-> confidence,
   change_points |-> {}, anomalies |-> << >>, outliers |-> {},
   start |-> sorted[1].timestamp, end |-> Last(sorted).timestamp]

(* RegressionDetector::analyze on a series in the order it ran in.         *)
detect_unsorted(points, strong, deviates, normal) ==
  LET values == Values(points)
      anomalies == detect_anomalies(values)
      regressions == detect_metric_regressions(points)
      trend == calculate_trend(values)
  IN IF Len(points) < min_data_points THEN <<>>
     ELSE <<[RegressionAnalysis(points, determine_overall_status(regressions), regressions, trend,
               generate_recommendations(regressions, trend, strong, DOMAIN anomalies),
               calculate_confidence_level(Len(points), deviates, normal, DOMAIN anomalies))
             EXCEPT !.change_points = detect_change_points(values), !.anomalies = anomalies,
                    !.outliers = detect_iqr_outliers(values)]>>

(* <<>> for InsufficientData.                                              *)
detect(points, strong, deviates, normal) ==
  detect_unsorted(sort_by_key(points), strong, deviates, normal)

-----------------------------------------------------------------------------
(* basic_regression: the second half of the series against the first; a    *)
(* first half of zeros counts as no change.                                *)
basic_regression(points) ==
  LET sorted == sort_by_key(points)
      mid == Len(points) \div 2
      first == Values(SubSeq(sorted, 1, mid))
      second == Values(SubSeq(sorted, mid + 1, Len(points)))
      Rises(pct) == SumOf(first) > 0 /\ MeanAbove(first, second, pct)
      status == IF Rises(50) THEN "Critical" ELSE IF Rises(20) THEN "Significant"
                ELSE IF Rises(5) THEN "Minor" ELSE "None"
      severity == IF Rises(50) THEN "High" ELSE IF Rises(20) THEN "Medium" ELSE "Low"
      trend == IF Rises(5) THEN "Degrading"
               ELSE IF SumOf(first) > 0 /\ MeanBelow(first, second, 5) THEN "Improving"
               ELSE "Stable"
  IN RegressionAnalysis(sorted, status,
              IF Rises(5) THEN <<[severity |-> severity,
                                  regression_start |-> sorted[mid + 1].timestamp]>> ELSE <<>>,
              trend,
              (IF Rises(20) THEN <<Recommendation("Investigation", "Medium")>> ELSE <<>>)
                \o <<Recommendation("Monitoring", "Low")>>,
              "Low")

BasicRegressionEngine(points) ==
  IF Len(points) < MinBasic THEN <<>> ELSE <<basic_regression(points)>>

(* StatisticalRegressionEngine::analyze: falls back to the basic engine    *)
(* when the detector has too few points.                                   *)
StatisticalRegressionEngine(points, strong, deviates, normal) ==
  IF Len(points) < MinBasic THEN <<>>
  ELSE IF Len(points) < MinStatistical \/ detect(points, strong, deviates, normal) = <<>>
  THEN BasicRegressionEngine(points)
  ELSE detect(points, strong, deviates, normal)

-----------------------------------------------------------------------------
(* The next execution is recorded and the series analysed.  It ran after   *)
(* all others, or before the last one (its log file was parsed later).     *)
Late == Cardinality({i \in 2 .. Len(data) : data[i].timestamp < data[i - 1].timestamp})

record ==
  /\ Len(data) < MaxSamples
  /\ \E ms \in Durations, late \in BOOLEAN, strong, deviates, normal \in BOOLEAN :
       /\ late => data # <<>> /\ Late < MaxLate
       /\ strong \/ normal => Len(data) + 1 >= min_data_points
       /\ deviates => Len(data) + 1 >= 8  \* normality_test needs 8 values
       /\ data' = Append(data, [execution_time_ms |-> ms,
                                timestamp |-> IF late THEN 2 * Len(data) - 1
                                              ELSE 2 * Len(data) + 2])
       /\ analysis' = StatisticalRegressionEngine(data', strong, deviates, normal)

RegressionInit == data = <<>> /\ analysis = <<>>
RegressionSpec == RegressionInit /\ [][record]_regressionVars
-----------------------------------------------------------------------------
Chronological == Values(sort_by_key(data))
Found == analysis[1]

(* A series long enough for the basic engine is analysed, also where the   *)
(* detector has too few points ("the 10..min_data_points band would get no *)
(* analysis at all", regression.rs:1388, otherwise).  "callers feed data   *)
(* in parse order (which with multiple log files is arbitrary)" (:433): a  *)
(* regression is found in the order the executions ran in, and starts at   *)
(* an execution from which the mean is higher than before it.              *)
AnalysedInTheOrderRun ==
  /\ analysis = <<>> <=> Len(data) < MinBasic
  /\ analysis # <<>> =>
       /\ \A p \in ToSet(data) : Found.start <= p.timestamp /\ p.timestamp <= Found.end
       /\ Found.metric_regressions # <<>> =>
            LET from == Found.metric_regressions[1].regression_start
                Before(p) == p.timestamp < from
                old == Values(SelectSeq(data, Before))
                new == Values(SelectSeq(data, LAMBDA p : ~Before(p)))
            IN SumOf(new) * Len(old) > SumOf(old) * Len(new)

(* A query that never runs slower than it did before is not reported: no   *)
(* status, no regression, no degrading trend, no change point for the      *)
(* worse and nothing to optimize.                                          *)
NoFalseAlarm ==
  analysis # <<>> /\ (\A i \in 1 .. Len(data) - 1 : Chronological[i + 1] <= Chronological[i])
    => /\ Found.status = "None" /\ Found.metric_regressions = <<>>
       /\ Found.trend # "Degrading"
       /\ \A c \in Found.change_points : c[2] # "Degradation"
       /\ \A r \in ToSet(Found.recommendations) : r.type # "Optimization"

(* Whatever the series, at most half of it is anomalous or an outlier, and *)
(* a spike is above another execution.                                     *)
AnomaliesAreAMinority ==
  analysis # <<>> =>
    /\ 2 * Cardinality(DOMAIN Found.anomalies) <= Len(data)
    /\ 2 * Cardinality(Found.outliers) <= Len(data)
    /\ \A i \in DOMAIN Found.anomalies :
         Found.anomalies[i] = "Spike" => \E j \in 1 .. Len(data) : Chronological[j] < Chronological[i]

(* An alarm has a cause: a query that became no slower raises none, and    *)
(* what is called abnormal is not most of what happened.                   *)
AlarmsAreReal == NoFalseAlarm /\ AnomaliesAreAMinority
=============================================================================
