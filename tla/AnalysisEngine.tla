--------------------------- MODULE AnalysisEngine ---------------------------
(***************************************************************************)
(* Analysing one plan with every analyzer (core/src/analysis/engine.rs):   *)
(* the analyzers run one after the other, each walks the plan depth first; *)
(* a panic or a run over max_analyzer_duration costs that analyzer's       *)
(* report only.  The reports that remain are summed up                     *)
(* (CombinedAnalysisResult, core/src/analysis/mod.rs).                     *)
(***************************************************************************)
EXTENDS Analyzers

CONSTANTS
  Plans,      \* the plans a behaviour may analyse
  Selections, \* the analyzers that the filter of analyze_filtered may admit
  MaxFaults   \* bound: analyzers that panic or take too long

(* with_default_analyzers, and the one that is not among them.             *)
analyzers == <<"RowEstimation", "Scan", "Join", "QueryPattern", "StartupCost",
               "IndexUsage", "BufferWal", "SortMemory", "FilterEfficiency",
               "IndexEfficiency", "PlanShape", "EstimationHealth", "Parallelization">>
DefaultAnalyzers == ToSet(analyzers) \ {"Parallelization"}

ASSUME EngineAssumption ==
  /\ \A plan \in Plans : IsPlan(plan)
  /\ Selections \subseteq SUBSET ToSet(analyzers)
  /\ MaxFaults \in Nat

VARIABLES
  plan,       \* the plan analysed
  selected,   \* the analyzers admitted by the filter
  results,    \* AnalyzerResults so far, in the order of the analyzers
  stack,      \* depth_first's stack; its top is the last frame
  visitor,    \* the running analyzer's visitor: <<>> between analyzers
  calls,      \* the calls depth_first made to the visitor, in order
  summary     \* AnalysisSummary: <<>> until it is computed

vars == <<plan, selected, results, stack, visitor, calls, summary>>

Running == visitor # <<>>
Left == Len(results) < Len(analyzers) /\ ~Running
Current == analyzers[Len(results) + 1]

Success(report) == [status |-> "success", report |-> <<report>>]
Failure == [status |-> "error", report |-> <<>>]
Skipped == [status |-> "skipped", report |-> <<>>]
Faults == Len(SelectSeq(results, LAMBDA r : r = Failure))

-----------------------------------------------------------------------------
skip_analyzer ==
  /\ Left /\ Current \notin selected
  /\ results' = Append(results, Skipped)
  /\ UNCHANGED <<plan, selected, stack, visitor, calls, summary>>

start_with_old_findings ==
  /\ Left /\ Current \in selected
  /\ visitor' = <<[NewVisitor EXCEPT !.findings =
       IF results # <<>> /\ Last(results).report # <<>>
       THEN Last(results).report[1].findings ELSE <<>>]>>
  /\ stack' = frames(root)
  /\ calls' = <<>>
  /\ UNCHANGED <<plan, selected, results, summary>>

(* run_single_analyzer calls analyze: a new visitor, a walk from the root. *)
start_analyzer ==
  /\ Left /\ Current \in selected
  /\ visitor' = <<NewVisitor>>
  /\ stack' = frames(root)
  /\ calls' = <<>>
  /\ UNCHANGED <<plan, selected, results, summary>>

(* One frame of depth_first's loop.                                        *)
depth_first ==
  /\ Running /\ stack # <<>>
  /\ LET f == Last(stack)
     IN /\ calls' = Append(calls, f)
        /\ stack' = IF f.kind = "Enter" THEN push_children(Front(stack), plan, f.path)
                    ELSE Front(stack)
        /\ visitor' = IF f.kind = "Visit"
                      THEN <<visit_node(Current, visitor[1], plan, f.path)>> ELSE visitor
  /\ UNCHANGED <<plan, selected, results, summary>>

Ends(result) ==
  /\ results' = Append(results, result)
  /\ visitor' = <<>> /\ stack' = <<>>
  /\ UNCHANGED <<plan, selected, calls, summary>>

(* catch_unwind: a panic anywhere in analyze.                              *)
analyzer_panics ==
  /\ Running /\ Faults < MaxFaults
  /\ Ends(Failure)

(* analyze returned after max_analyzer_duration: its report is dropped.    *)
analyzer_timed_out ==
  /\ Running /\ stack = <<>> /\ Faults < MaxFaults
  /\ Ends(Failure)

analyzer_succeeds ==
  /\ Running /\ stack = <<>>
  /\ Ends(Success(Report(Current, visitor[1], plan)))

Reports == FlattenSeq([i \in 1 .. Len(results) |-> results[i].report])
all_findings(reports) == FlattenSeq([i \in 1 .. Len(reports) |-> reports[i].findings])

OfSeverity(findings, s) == SelectSeq(findings, LAMBDA f : f.severity = s)
Count(findings, s) == Len(OfSeverity(findings, s))

Assess(findings) == assess_performance(Count(findings, Critical), Count(findings, High),
                                       Count(findings, Medium))

(* The top issues are a stable sort by severity, cut after five.           *)
calculate_summary(findings) ==
  LET sorted == OfSeverity(findings, Critical) \o OfSeverity(findings, High)
                  \o OfSeverity(findings, Medium) \o OfSeverity(findings, Low)
  IN [severity_counts |-> [s \in Severities |-> Count(findings, s)],
      total |-> Len(findings),
      top_issues |-> SubSeq(sorted, 1, IF Len(sorted) < 5 THEN Len(sorted) ELSE 5),
      assessment |-> Assess(findings)]

combine ==
  /\ Len(results) = Len(analyzers) /\ ~Running /\ summary = <<>>
  /\ summary' = <<calculate_summary(all_findings(Reports))>>
  /\ UNCHANGED <<plan, selected, results, stack, visitor, calls>>

Init ==
  /\ plan \in Plans /\ selected \in Selections
  /\ results = <<>> /\ stack = <<>> /\ visitor = <<>> /\ calls = <<>> /\ summary = <<>>

Next ==
  \/ skip_analyzer \/ start_analyzer \/ depth_first
  \/ analyzer_panics \/ analyzer_timed_out \/ analyzer_succeeds \/ combine

Spec == Init /\ [][Next]_vars
-----------------------------------------------------------------------------
PathsOf(kind) ==
  LET fs == SelectSeq(calls, LAMBDA f : f.kind = kind)
  IN [i \in 1 .. Len(fs) |-> fs[i].path]

(* depth_first enters every node once before, and visits it once after,    *)
(* all of its descendants, and leaves it only then: at every moment the    *)
(* nodes entered and not left are a node and its ancestors.                *)
WalkIsPostOrder ==
  LET open == ToSet(PathsOf("Enter")) \ ToSet(PathsOf("Exit"))
  IN /\ \A p, q \in open : p = q \/ is_ancestor(p, q) \/ is_ancestor(q, p)
     /\ IsPrefix(PathsOf("Enter"), InOrder(DOMAIN plan, PreOrderBefore))
     /\ IsPrefix(PathsOf("Visit"), InOrder(DOMAIN plan, PostOrderBefore))
     /\ Running /\ stack = <<>> => Len(calls) = 3 * Cardinality(DOMAIN plan)

(* The stack and queue loops of the other traversals return every node     *)
(* once, in pre-order or level by level; the relationships between nodes   *)
(* agree with the paths; the pairs are the edges of the plan.              *)
TraversalsAgree ==
  results = <<>> /\ ~Running =>
     /\ find_nodes(plan, LAMBDA p : TRUE) = InOrder(DOMAIN plan, PreOrderBefore)
     /\ breadth_first(plan) = InOrder(DOMAIN plan, LevelOrderBefore)
     /\ get_leaf_nodes(plan) =
          InOrder({p \in DOMAIN plan : \A q \in DOMAIN plan : ~is_ancestor(p, q)}, PreOrderBefore)
     /\ \A d \in 0 .. 3 : get_nodes_at_depth(plan, d) =
          InOrder({p \in DOMAIN plan : Len(p) = d}, PreOrderBefore)
     /\ ToSet(get_parent_child_pairs(plan)) =
          {<<p, q>> \in (DOMAIN plan) \X (DOMAIN plan) : p \in get_parent(plan, q)}
     /\ \A p \in DOMAIN plan :
          /\ get_ancestors(plan, p) =
               Reverse(InOrder({q \in DOMAIN plan : is_ancestor(q, p)}, PreOrderBefore))
          /\ ToSet(get_descendants(plan, p)) =
               {q \in DOMAIN plan : p \in ToSet(get_ancestors(plan, q))}
          /\ get_siblings(plan, p) =
               {q \in DOMAIN plan \ {p, root} : get_parent(plan, q) = get_parent(plan, p)}

(* EXPLAIN's counters are cumulative: a node's line counts all below it,   *)
(* and is left out where nothing was counted.                              *)
Cumulative(key, field) ==
  \A p \in DOMAIN plan :
    LET below == {q \in ToSet(children(plan, p)) : Has(plan[q], key)}
    IN /\ Has(plan[p], key) =>
            plan[p].props[key][field] >= Sum([q \in below |-> plan[q].props[key][field]])
       /\ ~Has(plan[p], key) => below = {}

Total(key, field) == IF Has(plan[root], key) THEN plan[root].props[key][field] ELSE 0

(* Of a plan with cumulative counters every block and byte is attributed   *)
(* to exactly one node: what BufferWalAnalyzer counts at the nodes adds up *)
(* to what the root's lines say.                                           *)
IoAttributedOnce ==
  \A i \in 1 .. Len(results) :
    analyzers[i] = "BufferWal" /\ results[i].status = "success" =>
      LET m == results[i].report[1].metrics
      IN /\ Cumulative("Buffers", "temp_read") /\ Cumulative("Buffers", "temp_written")
              => m.temp_blocks = Total("Buffers", "temp_read") + Total("Buffers", "temp_written")
         /\ Cumulative("Buffers", "shared_read") /\ Cumulative("Buffers", "local_read")
              => m.shared_read_blocks = Total("Buffers", "shared_read")
                                          + Total("Buffers", "local_read")
         /\ Cumulative("WAL", "bytes") => m.wal_bytes = Total("WAL", "bytes")

(* What an analyzer reports of the plan when it runs alone.                *)
Alone(a) ==
  Report(a, FoldLeft(LAMBDA v, p : visit_node(a, v, plan, p), NewVisitor,
                     InOrder(DOMAIN plan, PostOrderBefore)), plan)

(* A panic, a timeout or a skip of one analyzer removes its report and     *)
(* changes no other: the reports are, in the analyzers' order, what each   *)
(* one says of the plan alone.                                             *)
FailuresAreIsolated ==
  ~Running /\ results # <<>> =>
    LET i == Len(results)
    IN /\ results[i].status = "success" => results[i].report = <<Alone(analyzers[i])>>
       /\ results[i].status = "skipped" <=> analyzers[i] \notin selected

(* The top issues are the most severe findings, in the order reported, and *)
(* the counts are of all findings.                                         *)
SummaryIsFaithful ==
  summary # <<>> =>
    LET s == summary[1]
        found == all_findings(Reports)
        top == s.top_issues
        Copies(seq, f) == Cardinality({i \in 1 .. Len(seq) : seq[i] = f})
    IN /\ s.total = Len(found)
       /\ s.total = Sum(s.severity_counts)
       /\ Len(top) = 5 \/ Len(top) = s.total
       /\ \A i, j \in 1 .. Len(top) : i < j => top[i].severity >= top[j].severity
       /\ \A f \in ToSet(found) : Copies(top, f) < Copies(found, f) =>
            \A g \in ToSet(top) : g.severity >= f.severity

(* A report that is lost can only hide problems: with it, the plan's       *)
(* assessment would not have been better.                                  *)
LossNeverAlarms ==
  summary # <<>> =>
    summary[1].assessment <=
      Assess(all_findings([i \in 1 .. Len(analyzers) |-> Alone(analyzers[i])]))

(* Every node of a plan is seen once by every walk, and every block and    *)
(* byte of its cumulative counters is counted once.                        *)
EveryNodeOnce == WalkIsPostOrder /\ TraversalsAgree /\ IoAttributedOnce

(* The summary shows the worst of what was found, and what was lost did    *)
(* not make it worse.                                                      *)
AssessmentIsFaithful == SummaryIsFaithful /\ LossNeverAlarms
=============================================================================
