----------------------------- MODULE Analyzers ------------------------------
(***************************************************************************)
(* The plan analyzers (core/src/analysis/analyzers/*.rs): for each one the *)
(* visitor it walks over the plan, as a record, what visit_node adds to    *)
(* it, and what analyze makes of the visitor after the walk.               *)
(*                                                                         *)
(* A node is a record of its kind, estimated rows, width and costs, its    *)
(* actual rows and loops (sequences of length at most one: Option), and    *)
(* its properties, a function from property keys.  A condition's text is   *)
(* the set of what the analyzers look for in it.  Costs, blocks and bytes  *)
(* are whole numbers, ratios are compared by cross-multiplication.         *)
(***************************************************************************)
EXTENDS PlanTree, Severity

CONSTANTS
  Config,      \* AnalyzerConfigurations: enabled_findings and the workload
  work_mem_kb  \* AnalysisContext::work_mem_kb

ASSUME AnalyzersAssumption ==
  /\ work_mem_kb \in Nat \ {0}
  /\ Config.workload.workload_type \in WorkloadTypes
  /\ Config.workload.database_size \in DatabaseSizes
  /\ Config.workload.performance_target \in PerformanceTargets

thresholds == for_workload(Config.workload)
RowSeverity(rows) == classify(thresholds.row_counts, rows)
CostSeverity(cost) == classify(thresholds.costs, cost)
Enabled(type) == type \in Config.enabled_findings

Has(n, key) == key \in DOMAIN n.props
PropOr(n, key, default) == IF Has(n, key) THEN n.props[key] ELSE default

Scans == {"SeqScan", "IndexScan", "BitmapIndexScan", "BitmapHeapScan",
          "ParallelBitmapHeapScan"}
Joins == {"NestedLoop", "NestedLoopLeftJoin", "HashJoin", "MergeJoin"}

(* A finding at a node, or of the plan as a whole (no affected node).      *)
Finding(type, severity, p) == [type |-> type, severity |-> severity, nodes |-> {p}]
PlanFinding(type, severity) == [type |-> type, severity |-> severity, nodes |-> {}]

When(cond, finding) == IF cond THEN <<finding>> ELSE <<>>

ChildRows(plan, p, i, default) ==
  IF i <= child_count(plan, p) THEN plan[child_of(p, i - 1)].rows ELSE default
ChildWidth(plan, p, i) ==
  IF i <= child_count(plan, p) THEN plan[child_of(p, i - 1)].width ELSE 100

SaturatingSub(a, b) == IF a >= b THEN a - b ELSE 0

-----------------------------------------------------------------------------
(* row_estimation.rs                                                       *)

analyze_excessive_rows(plan, p) ==
  LET severity == RowSeverity(plan[p].rows)
  IN When(Enabled("ExcessiveRowProcessing") /\ severity >= Medium,
          Finding("ExcessiveRowProcessing", severity, p))

(* The estimate is more than 0.8 of the product of the inputs.             *)
detect_cartesian_product(plan, p) ==
  LET n == plan[p]
      expected == MaxOf(ChildRows(plan, p, 1, 1) * ChildRows(plan, p, 2, 1), 1)
  IN When(/\ Enabled("CartesianProduct")
          /\ n.kind = "NestedLoop" /\ ~Has(n, "Join Filter") /\ n.rows > 10000
          /\ 5 * n.rows > 4 * expected,
          Finding("CartesianProduct", Critical, p))

RowEstimationFindings(plan, p) ==
  analyze_excessive_rows(plan, p) \o detect_cartesian_product(plan, p)

(* scan_analysis.rs                                                        *)

analyze_sequential_scan(plan, p) ==
  LET rows == IF plan[p].actual_rows # <<>> THEN plan[p].actual_rows[1] ELSE plan[p].rows
  IN When(Enabled("LargeSequentialScan") /\ RowSeverity(rows) >= Medium,
          Finding("LargeSequentialScan", RowSeverity(rows), p))

analyze_index_scan_efficiency(plan, p) ==
  LET severity == MaxOf(CostSeverity(plan[p].total_cost), RowSeverity(plan[p].rows))
  IN When(Enabled("InefficiientScan") /\ severity >= High,
          Finding("InefficiientScan", severity, p))

(* Not conditional on enabled_findings.                                    *)
analyze_bitmap_scan(plan, p) ==
  When(RowSeverity(plan[p].rows) >= High,
       Finding("InefficiientScan", RowSeverity(plan[p].rows), p))

ScanFindings(plan, p) ==
  CASE plan[p].kind = "SeqScan" -> analyze_sequential_scan(plan, p)
    [] plan[p].kind = "IndexScan" -> analyze_index_scan_efficiency(plan, p)
    [] plan[p].kind \in {"BitmapIndexScan", "BitmapHeapScan", "ParallelBitmapHeapScan"}
         -> analyze_bitmap_scan(plan, p)
    [] OTHER -> <<>>

(* join_analysis.rs                                                        *)

analyze_nested_loop_join(plan, p) ==
  LET severity == MaxOf(RowSeverity(plan[p].rows), CostSeverity(plan[p].total_cost))
  IN When(Enabled("LargeNestedLoop") /\ severity >= High,
          Finding("LargeNestedLoop", severity, p))

(* In kB: rows, 24 bytes of overhead each, 1.5 buckets of 8 bytes (at      *)
(* least 1024), 12% fragmentation, 1 kB for 10000 rows, 10% margin.        *)
estimate_hash_join_memory(rows, left_width, right_width) ==
  LET width == IF left_width <= right_width THEN left_width ELSE right_width
      data == rows * (width + 24) + MaxOf(12 * rows, 8192)
      bytes == (data \div 100) * 112 + MaxOf((rows \div 1250) * 128, 1024)
  IN (bytes \div 10240) * 11

analyze_hash_join(plan, p) ==
  LET n == plan[p]
      left == ChildRows(plan, p, 1, 0)
      right == ChildRows(plan, p, 2, 0)
      memory == estimate_hash_join_memory(IF left <= right THEN left ELSE right,
                                          ChildWidth(plan, p, 1), ChildWidth(plan, p, 2))
      severity == CASE memory > 20 * work_mem_kb -> Critical
                    [] memory <= 20 * work_mem_kb /\ memory > 5 * work_mem_kb -> High
                    [] memory <= 5 * work_mem_kb /\ memory > 2 * work_mem_kb -> Medium
                    [] OTHER -> Low
  IN When(/\ Enabled("HashJoinMemorySpill")
          /\ \/ RowSeverity(n.rows) = Critical
             \/ CostSeverity(n.total_cost) >= High /\ n.rows > 1000000
          /\ 10 * memory > 12 * work_mem_kb,
          Finding("HashJoinMemorySpill", severity, p))

analyze_merge_join(plan, p) ==
  LET severity == CostSeverity(plan[p].total_cost)
  IN When(Enabled("IneffectiveJoinAlgorithm") /\ severity >= High,
          Finding("IneffectiveJoinAlgorithm", severity, p))

JoinFindings(plan, p) ==
  CASE plan[p].kind \in {"NestedLoop", "NestedLoopLeftJoin"} -> analyze_nested_loop_join(plan, p)
    [] plan[p].kind = "HashJoin" -> analyze_hash_join(plan, p)
    [] plan[p].kind = "MergeJoin" -> analyze_merge_join(plan, p)
    [] OTHER -> <<>>

(* query_pattern_analysis.rs                                               *)

detect_unnecessary_distinct(plan, p) ==
  When(/\ PropOr(plan[p], "Operation", "") = "Unique"
       /\ "eq" \in PropOr(plan[p], "Index Cond", {})
       /\ "and" \notin PropOr(plan[p], "Index Cond", {}),
       Finding("UnnecessaryDistinct", Low, p))

detect_function_in_where(plan, p) ==
  When("function" \in PropOr(plan[p], "Filter", {}),
       Finding("FunctionOnIndexedColumn", Medium, p))

detect_select_star(plan, p) ==
  When(plan[p].width > 500, Finding("WideRowSelection", Low, p))

QueryPatternFindings(plan, p) ==
  detect_unnecessary_distinct(plan, p) \o detect_function_in_where(plan, p)
    \o detect_select_star(plan, p)

(* startup_cost.rs                                                         *)

detect_high_startup_cost(plan, p) ==
  LET n == plan[p]
      startup == n.startup_cost
  IN When(startup > 10000,
          Finding("HighStartupCost",
                  IF startup > 100000 THEN Critical
                  ELSE IF startup > 50000 THEN High ELSE Medium, p))
     \o When(n.total_cost > 0 /\ 10 * startup > 9 * n.total_cost /\ startup > 1000,
             Finding("StartupCostDominant", Medium, p))
     \o When(n.kind = "Sort" /\ PropOr(n, "Sort Method", "none") = "external" /\ startup > 5000,
             Finding("ExternalSort", High, p))
     \o When(n.kind = "Materialize" /\ startup > 5000,
             Finding("ExpensiveMaterialization", Medium, p))

(* index_usage.rs                                                          *)

detect_missing_index_opportunity(plan, p) ==
  LET n == plan[p]
      filter == n.props["Filter"]
  IN IF ~Has(n, "Filter") THEN <<>>
     ELSE When(/\ "eq" \in filter /\ "or" \notin filter
               /\ n.rows > 1000 /\ n.rows < 1000000,
               Finding("MissingIndex",
                       IF n.rows > 100000 THEN High
                       ELSE IF n.rows > 10000 THEN Medium ELSE Low, p))
          \o When(filter \cap {"function", "cast"} # {},
                  Finding("FunctionInFilter", Medium, p))
          \o When("leading_wildcard" \in filter, Finding("LeadingWildcardLike", Low, p))

IndexUsageFindings(plan, p) ==
  CASE plan[p].kind = "SeqScan" -> detect_missing_index_opportunity(plan, p)
    [] plan[p].kind = "IndexScan" ->
         When(plan[p].rows > 50000, Finding("LargeIndexScan", Low, p))
    [] plan[p].kind = "BitmapHeapScan" ->
         When(plan[p].rows > 100000, Finding("LargeBitmapScan", Low, p))
    [] OTHER -> <<>>

(* buffer_analysis.rs: a Buffers or WAL line counts the node with all that *)
(* is below it; what the node did itself is that minus its children's.     *)

Sum(f) == FoldFunction(+, 0, f)

own_with_children(plan, p, key, field) ==
  IF ~Has(plan[p], key) THEN 0 ELSE plan[p].props[key][field]

own(plan, p, key, field) ==
  IF ~Has(plan[p], key) THEN 0
  ELSE SaturatingSub(plan[p].props[key][field],
         Sum([i \in {k \in 1 .. child_count(plan, p) : Has(plan[child_of(p, k - 1)], key)}
                |-> plan[child_of(p, i - 1)].props[key][field]]))

own_temp(plan, p) ==
  own(plan, p, "Buffers", "temp_read") + own(plan, p, "Buffers", "temp_written")
own_read(plan, p) ==
  own(plan, p, "Buffers", "shared_read") + own(plan, p, "Buffers", "local_read")
own_wal(plan, p) == own(plan, p, "WAL", "bytes")

(* Megabytes of 8192-byte blocks, compared without the division.           *)
BlocksAtLeast(blocks, mb) == blocks * 1024 >= mb * 125000

BufferWalFindings(plan, p) ==
  LET temp == own_temp(plan, p)
      read == own_read(plan, p)
      wal == own_wal(plan, p)
  IN When(temp >= 1,
          Finding("MemorySpill",
                  IF BlocksAtLeast(temp, 100) THEN Critical
                  ELSE IF BlocksAtLeast(temp, 10) THEN High
                  ELSE IF BlocksAtLeast(temp, 1) THEN Medium ELSE Low, p))
     \o When(read >= 1024,
             Finding("HighBufferReads",
                     IF BlocksAtLeast(read, 512) THEN High
                     ELSE IF BlocksAtLeast(read, 64) THEN Medium ELSE Low, p))
     \o When(wal >= 1048576,
             Finding("HighWalVolume",
                     IF wal >= 64000000 THEN High
                     ELSE IF wal >= 8000000 THEN Medium ELSE Low, p))

(* sort_memory.rs                                                          *)
SortMemoryFindings(plan, p) ==
  LET n == plan[p]
      batches == PropOr(n, "Batches", 0)
  IN When(\/ PropOr(n, "Sort Space Type", "none") = "Disk"
          \/ PropOr(n, "Sort Method", "none") = "external",
          Finding("MemorySpill",
                  IF PropOr(n, "Sort Space Used", 0) > 100000 THEN High ELSE Medium, p))
     \o When(batches > 1,
             Finding("HashJoinMemorySpill", IF batches > 8 THEN High ELSE Medium, p))

(* filter_efficiency.rs: at least 10000 rows removed, and less than a      *)
(* tenth of the rows kept or nothing known about the rows kept.            *)
severity_for_removed(removed) ==
  IF removed >= 1000000 THEN Critical ELSE IF removed >= 100000 THEN High ELSE Medium

FilterEfficiencyFindings(plan, p) ==
  LET n == plan[p]
      removed == PropOr(n, "Rows Removed by Filter", 0)
  IN When(/\ removed >= 10000
          /\ n.actual_rows # <<>> => 10 * n.actual_rows[1] < n.actual_rows[1] + removed,
          Finding("ExcessiveRowProcessing", severity_for_removed(removed), p))
     \o When(PropOr(n, "Rows Removed by Index Recheck", 0) >= 10000,
             Finding("PoorIndexSelectivity", Medium, p))
     \o When(PropOr(n, "Rows Removed by Join Filter", 0) >= 10000,
             Finding("IneffectiveJoinAlgorithm", Medium, p))

(* index_efficiency.rs: rows are per loop, heap fetches are over all loops.*)
IndexEfficiencyFindings(plan, p) ==
  LET n == plan[p]
      fetches == PropOr(n, "Heap Fetches", 0)
      loops == IF n.loops # <<>> THEN MaxOf(n.loops[1], 1) ELSE 1
      rows == IF n.actual_rows # <<>> THEN n.actual_rows[1] * loops ELSE 0
      lossy == PropOr(n, "Heap Blocks: lossy", 0)
      total == lossy + PropOr(n, "Heap Blocks: exact", 0)
  IN When(fetches >= 1000 /\ (rows > 0 => 10 * fetches > rows),
          Finding("IndexOnlyScanHeapFetches", IF fetches >= 100000 THEN High ELSE Medium, p))
     \o When(lossy >= 64 /\ 20 * lossy > total, Finding("MemorySpill", Medium, p))

(* parallelization.rs: a node that looks parallel is judged by the workers *)
(* it got, one that does not by what it could have saved.                  *)
is_parallel_operation(n) ==
  \/ Has(n, "Workers Planned") \/ Has(n, "Workers Launched")
  \/ n.kind \in {"Gather", "ParallelBitmapHeapScan"}

could_be_parallelized(n) ==
  n.kind \in Scans \cup {"HashJoin", "MergeJoin", "Aggregate"}

analyze_parallel_efficiency(plan, p) ==
  LET planned == PropOr(plan[p], "Workers Planned", 0)
      launched == PropOr(plan[p], "Workers Launched", 0)
  IN When(/\ Enabled("InefficientParallelism")
          /\ launched > 0 /\ planned > 0 /\ 2 * launched < planned,
          Finding("InefficientParallelism", Medium, p))

ParallelizationFindings(plan, p) ==
  LET n == plan[p]
      severity == MaxOf(RowSeverity(n.rows), CostSeverity(n.total_cost))
  IN IF ~Enabled("MissedParallelization") THEN <<>>
     ELSE IF is_parallel_operation(n) THEN analyze_parallel_efficiency(plan, p)
     ELSE When(severity >= High /\ could_be_parallelized(n),
               Finding("MissedParallelization", severity, p))

-----------------------------------------------------------------------------
(* The analyzers that judge the plan as a whole count while they walk.     *)

(* Every counter a visitor keeps; a ratio is in hundredths, rounded down.  *)
NewVisitor ==
  [findings |-> <<>>, nodes |-> 0, max_depth |-> 0,
   join_count |-> 0, subquery_count |-> 0, aggregate_count |-> 0,
   temp_blocks |-> 0, read_blocks |-> 0, wal_bytes |-> 0,
   max_self_cost |-> 0, dominant_path |-> <<>>,
   nodes_with_actuals |-> 0, over |-> 0, under |-> 0, ratio_sum |-> 0,
   max_ratio |-> 0, worst_path |-> <<>>]

Counted(v, plan, p) ==
  [v EXCEPT !.nodes = @ + 1,
            !.max_depth = MaxOf(@, Len(p)),
            !.join_count = @ + (IF plan[p].kind \in Joins THEN 1 ELSE 0),
            !.aggregate_count = @ + (IF plan[p].kind = "Aggregate" THEN 1 ELSE 0),
            !.subquery_count = @ + (IF Has(plan[p], "Subplan Name") THEN 1 ELSE 0)]

(* BufferWalVisitor's totals.                                              *)
CountedIo(v, plan, p) ==
  [v EXCEPT !.temp_blocks = @ + own_temp(plan, p),
            !.read_blocks = @ + own_read(plan, p),
            !.wal_bytes = @ + own_wal(plan, p)]

(* PlanShapeVisitor: the first node with the largest cost of its own.      *)
CountedCost(v, plan, p) ==
  LET below == Sum([i \in 1 .. child_count(plan, p) |-> plan[child_of(p, i - 1)].total_cost])
      self_cost == SaturatingSub(plan[p].total_cost, below)
  IN IF self_cost > v.max_self_cost
     THEN [v EXCEPT !.max_self_cost = self_cost, !.dominant_path = <<p>>]
     ELSE v

(* EstimationVisitor: over and under count the significant misestimates.   *)
CountedEstimate(v, plan, p) ==
  IF plan[p].actual_rows = <<>> THEN v
  ELSE LET actual == MaxOf(plan[p].actual_rows[1], 1)
           estimated == MaxOf(plan[p].rows, 1)
           ratio == (100 * MaxOf(actual, estimated)) \div
                      (IF actual <= estimated THEN actual ELSE estimated)
           significant == IF ratio >= 200 THEN 1 ELSE 0
       IN [v EXCEPT !.nodes_with_actuals = @ + 1,
                    !.max_ratio = MaxOf(@, ratio),
                    !.worst_path = IF ratio > v.max_ratio THEN <<p>> ELSE @,
                    !.ratio_sum = @ + significant * ratio,
                    !.under = @ + (IF actual > estimated THEN significant ELSE 0),
                    !.over = @ + (IF actual > estimated THEN 0 ELSE significant)]

visit_node(a, v, plan, p) ==
  LET w == Counted(v, plan, p)
  IN CASE a = "RowEstimation" -> [w EXCEPT !.findings = @ \o RowEstimationFindings(plan, p)]
       [] a = "Scan" -> [w EXCEPT !.findings = @ \o ScanFindings(plan, p)]
       [] a = "Join" -> [w EXCEPT !.findings = @ \o JoinFindings(plan, p)]
       [] a = "QueryPattern" -> [w EXCEPT !.findings = @ \o QueryPatternFindings(plan, p)]
       [] a = "StartupCost" -> [w EXCEPT !.findings = @ \o detect_high_startup_cost(plan, p)]
       [] a = "IndexUsage" -> [w EXCEPT !.findings = @ \o IndexUsageFindings(plan, p)]
       [] a = "BufferWal" ->
            [CountedIo(w, plan, p) EXCEPT !.findings = @ \o BufferWalFindings(plan, p)]
       [] a = "SortMemory" -> [w EXCEPT !.findings = @ \o SortMemoryFindings(plan, p)]
       [] a = "FilterEfficiency" -> [w EXCEPT !.findings = @ \o FilterEfficiencyFindings(plan, p)]
       [] a = "IndexEfficiency" -> [w EXCEPT !.findings = @ \o IndexEfficiencyFindings(plan, p)]
       [] a = "PlanShape" -> CountedCost(w, plan, p)
       [] a = "EstimationHealth" -> CountedEstimate(w, plan, p)
       [] a = "Parallelization" -> [w EXCEPT !.findings = @ \o ParallelizationFindings(plan, p)]

calculate_complexity_score(v) ==
  10 * v.join_count + 15 * v.subquery_count + 5 * v.aggregate_count
    + 3 * v.max_depth * v.max_depth

QueryPatternReport(v) ==
  LET score == calculate_complexity_score(v)
  IN When(score > 100, PlanFinding("OverlyComplexQuery", IF score > 200 THEN High ELSE Medium))
     \o When(v.max_depth > 5, PlanFinding("ExcessiveJoinDepth", Medium))

(* A large plan, and one node with 0.7 of the plan's cost.                 *)
PlanShapeReport(v, plan) ==
  LET cost == plan[root].total_cost
  IN When(v.max_depth >= 12 \/ v.nodes >= 40, Finding("ComplexPlanShape", Medium, root))
     \o When(v.nodes >= 2 /\ cost > 1000 /\ 10 * v.max_self_cost >= 7 * cost,
             [type |-> "ExpensiveOperation", severity |-> Medium,
              nodes |-> ToSet(v.dominant_path)])

(* Most significant misestimates agree and are 3x on average, or one node  *)
(* is off by 50x while no other is off by 2x.                              *)
EstimationHealthReport(v) ==
  LET significant == v.over + v.under
  IN When(/\ v.nodes_with_actuals >= 4 /\ significant >= 2
          /\ 10 * MaxOf(v.over, v.under) >= 8 * significant
          /\ v.ratio_sum >= 300 * significant,
          Finding("EstimationPatternSystematic",
                  IF v.ratio_sum >= 1000 * significant THEN High ELSE Medium, root))
     \o When(v.nodes_with_actuals >= 2 /\ significant = 1 /\ v.max_ratio >= 5000,
             [type |-> "EstimationPatternOutlier", severity |-> Medium,
              nodes |-> ToSet(v.worst_path)])

(* What analyze returns after the walk: the visitor's findings, then the   *)
(* plan's, and the metrics that are totals over the plan.                  *)
Report(a, v, plan) ==
  [analyzer |-> a,
   findings |-> v.findings \o
     (CASE a = "QueryPattern" -> QueryPatternReport(v)
        [] a = "PlanShape" -> PlanShapeReport(v, plan)
        [] a = "EstimationHealth" -> EstimationHealthReport(v)
        [] OTHER -> <<>>),
   metrics |-> [nodes_analyzed |-> v.nodes, temp_blocks |-> v.temp_blocks,
                shared_read_blocks |-> v.read_blocks, wal_bytes |-> v.wal_bytes]]
=============================================================================
