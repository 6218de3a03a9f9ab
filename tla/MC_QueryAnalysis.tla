-------------------------- MODULE MC_QueryAnalysis --------------------------
(***************************************************************************)
(* The analyses of a query's text, of its executions and of its plan, and  *)
(* the screen that shows the queries, in one instance: they share no state,*)
(* so each is explored with the others idle.                               *)
(***************************************************************************)
EXTENDS SqlAnalysis, Regression, MC_AnalysisEngine, ResultsScreen

SqlIdle == sql = Plain /\ edits = 0
PlanIdle == plan = MCMild /\ selected = ToSet(analyzers) /\ results = <<>> /\ visitor = <<>>

NotShown == processed_queries = <<>> /\ last_selected_query = <<>>

(* Two queries of one text, in two databases, and a third.                 *)
MCQuery(text, formatted, count, mean) ==
  [normalized_query |-> text, formatted_query |-> formatted,
   statistics |-> [o \in Orders |-> CASE o = "Count" -> count [] o = "Mean" -> mean [] OTHER -> 1]]
MCQueries == [a |-> MCQuery(1, 1, 2, 1), b |-> MCQuery(1, 1, 2, 2), c |-> MCQuery(2, 2, 1, 2)]
MCResults == {MCQueries, <<>>}

mcInit == SqlInit /\ RegressionInit /\ Init /\ ScreenInit /\ (PlanIdle \/ processed_queries = <<>>)

mcNext ==
  \/ NotShown /\ data = <<>> /\ PlanIdle /\ SqlNext /\ UNCHANGED <<regressionVars, vars, screenVars>>
  \/ NotShown /\ SqlIdle /\ PlanIdle /\ record /\ UNCHANGED <<sqlVars, vars, screenVars>>
  \/ NotShown /\ SqlIdle /\ data = <<>> /\ Next /\ UNCHANGED <<sqlVars, regressionVars, screenVars>>
  \/ SqlIdle /\ data = <<>> /\ PlanIdle /\ ScreenNext /\ UNCHANGED <<sqlVars, regressionVars, vars>>

mcSpec == mcInit /\ [][mcNext]_<<sqlVars, regressionVars, vars, screenVars>>
=============================================================================
