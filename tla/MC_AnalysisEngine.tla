------------------------- MODULE MC_AnalysisEngine --------------------------
(* Small plans that reach every detector and every severity of the tight   *)
(* workload below: rows and costs are classified around 1000, 10000 and    *)
(* 100000 (costs 100, 1000 and 10000).                                     *)
EXTENDS AnalysisEngine, TLC

MCConfig ==
  [workload |-> [workload_type |-> "OLTP", database_size |-> "Small",
                 performance_target |-> "Balanced"],
   enabled_findings |->
     {"ExcessiveRowProcessing", "CartesianProduct", "LargeSequentialScan", "InefficiientScan",
      "IneffectiveJoinAlgorithm", "LargeNestedLoop", "HashJoinMemorySpill",
      "InefficientParallelism", "MissedParallelization"}]

MCNode(kind, rows, width, startup, total, actual, props) ==
  [kind |-> kind, rows |-> rows, width |-> width, startup_cost |-> startup,
   total_cost |-> total, actual_rows |-> actual, loops |-> <<2>>, props |-> props]

NoProps == <<>>
Line(hit, read, tr, tw) ==
  [shared_hit |-> hit, shared_read |-> read, local_hit |-> 0, local_read |-> 1,
   temp_read |-> tr, temp_written |-> tw]
Bytes(n) == [bytes |-> n]

(* A sort that spills above a filtered scan; the lines are cumulative, and *)
(* the second child of the sort has none.                                  *)
MCSort ==
  (root :> MCNode("Sort", 20000, 600, 120000, 120100, <<20000>>,
     ("Buffers" :> Line(9, 70000, 300, 15000)) @@ ("WAL" :> Bytes(70000000))
       @@ ("Sort Method" :> "external") @@ ("Sort Space Type" :> "Disk")
       @@ ("Sort Space Used" :> 120000)))
  @@ (<<0>> :> MCNode("SeqScan", 20000, 60, 0, 500, <<1000>>,
     ("Buffers" :> Line(5, 9000, 0, 200)) @@ ("WAL" :> Bytes(9000000))
       @@ ("Filter" :> {"eq", "function"}) @@ ("Rows Removed by Filter" :> 150000)))
  @@ (<<1>> :> MCNode("Materialize", 5, 8, 6000, 6001, <<>>, NoProps))
  @@ (<<0, 0>> :> MCNode("SeqScan", 1500, 60, 0, 90, <<1500>>,
     ("Buffers" :> Line(1, 2000, 0, 150)) @@ ("WAL" :> Bytes(1500000))
       @@ ("Filter" :> {"eq", "leading_wildcard"})))

(* A hash join with batches over an index scan and a bitmap scan.          *)
MCJoin(left, right) ==
  (root :> MCNode("HashJoin", left, 40, 100, 20000, <<100>>, "Batches" :> 16))
  @@ (<<0>> :> MCNode("IndexScan", left, 150, 1, 1500, <<10>>,
        "Heap Fetches" :> 2000))
  @@ (<<1>> :> MCNode("BitmapHeapScan", right, 150, 1, 400, <<20>>,
        ("Heap Blocks: lossy" :> 100) @@ ("Heap Blocks: exact" :> 300)
          @@ ("Rows Removed by Index Recheck" :> 10000)))
  @@ (<<1, 0>> :> MCNode("BitmapIndexScan", right, 0, 1, 390, <<5>>, NoProps))

(* Nested loops without a join filter, one of them a merge join's input.   *)
MCLoops ==
  (root :> MCNode("NestedLoop", 90000, 40, 0, 200, <<1>>, "Subplan Name" :> 1))
  @@ (<<0>> :> MCNode("MergeJoin", 300, 40, 0, 1100, <<300>>,
        "Rows Removed by Join Filter" :> 20000))
  @@ (<<1>> :> MCNode("Gather", 310, 40, 0, 20, <<310>>,
        ("Workers Planned" :> 4) @@ ("Workers Launched" :> 1)))
  @@ (<<0, 0>> :> MCNode("Aggregate", 10, 8, 0, 5, <<12>>,
        ("Operation" :> "Unique") @@ ("Index Cond" :> {"eq"})))

(* A chain of joins and subplans: complex, and deeper than five.           *)
MCChain ==
  [p \in {[i \in 1 .. d |-> 0] : d \in 0 .. 6} |->
     MCNode(IF Len(p) < 6 THEN "NestedLoopLeftJoin" ELSE "SeqScan", 10, 8, 0, 100 - Len(p),
            <<40>>, "Subplan Name" :> 1)]

(* High findings only: losing a report leaves an even number of them.      *)
MCMild ==
  (root :> MCNode("MergeJoin", 10, 8, 0, 1500, <<>>, NoProps))
  @@ (<<0>> :> MCNode("IndexScan", 10, 8, 0, 1200, <<>>, NoProps))

MCPlans == {MCSort, MCJoin(120000, 100000), MCLoops, MCChain, MCMild}
MCSelections == {ToSet(analyzers), DefaultAnalyzers \ {"Scan"}}
=============================================================================
