------------------------------ MODULE Severity ------------------------------
(***************************************************************************)
(* How bad a finding is: the four levels and the thresholds that decide    *)
(* between them for a workload (core/src/analysis/consolidated_config.rs), *)
(* and the assessment of a plan by its number of findings of each level    *)
(* (core/src/analysis/mod.rs).                                             *)
(***************************************************************************)
EXTENDS Integers

Low == 1
Medium == 2
High == 3
Critical == 4
Severities == Low .. Critical

MaxOf(a, b) == IF a >= b THEN a ELSE b

(* ThresholdLevels::classify                                               *)
classify(levels, value) ==
  CASE value >= levels.critical -> Critical
    [] value < levels.critical /\ value >= levels.high -> High
    [] value < levels.critical /\ value < levels.high /\ value >= levels.medium -> Medium
    [] OTHER -> Low

(* The levels around a base value, in tenths of it: they stay whole.       *)
levels_around(tenth) ==
  [low |-> tenth, medium |-> 10 * tenth, high |-> 100 * tenth, critical |-> 1000 * tenth]

WorkloadTypes == {"OLTP", "OLAP", "Analytics", "Mixed"}
DatabaseSizes == {"Small", "Medium", "Large", "VeryLarge"}
PerformanceTargets == {"Latency", "Throughput", "Balanced", "Efficiency"}

(* base_values_for_workload: the row and the cost base.  Multipliers are   *)
(* in tenths, so both come out as tenths of the base.                      *)
size_multiplier == [Small |-> 1, Medium |-> 10, Large |-> 100, VeryLarge |-> 1000]
row_base == [OLTP |-> 10000, OLAP |-> 1000000, Analytics |-> 500000, Mixed |-> 100000]
cost_base == [OLTP |-> 1000, OLAP |-> 100000, Analytics |-> 50000, Mixed |-> 10000]
performance_multiplier ==
  [Latency |-> 1, Throughput |-> 20, Balanced |-> 10, Efficiency |-> 50]

(* SmartThresholds::for_workload                                           *)
for_workload(w) ==
  LET rows == (row_base[w.workload_type] \div 100) * size_multiplier[w.database_size]
      costs == (cost_base[w.workload_type] \div 1000) * size_multiplier[w.database_size]
                 * performance_multiplier[w.performance_target]
  IN [row_counts |-> levels_around(rows), costs |-> levels_around(costs)]

-----------------------------------------------------------------------------
Excellent == 1
Good == 2
Fair == 3
Poor == 4
Severe == 5  \* PerformanceAssessment::Critical

assess_counts_any_high(c, h, m) ==
  CASE c >= 3 -> Severe
    [] c < 3 /\ (c >= 1 \/ h >= 5) -> Poor
    [] c = 0 /\ h < 5 /\ (h = 2 \/ m >= 5) -> Fair
    [] c = 0 /\ h < 5 /\ h # 2 /\ m < 5 /\ (h >= 1 \/ m >= 2) -> Good
    [] OTHER -> Excellent

(* CombinedAnalysisResult::assess_performance                              *)
assess_performance(c, h, m) ==
  CASE c >= 3 -> Severe
    [] c < 3 /\ (c >= 1 \/ h >= 5) -> Poor
    [] c = 0 /\ h < 5 /\ (h >= 2 \/ m >= 5) -> Fair
    [] c = 0 /\ h < 2 /\ m < 5 /\ (h >= 1 \/ m >= 2) -> Good
    [] OTHER -> Excellent
=============================================================================
