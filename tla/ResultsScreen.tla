---------------------------- MODULE ResultsScreen ----------------------------
(***************************************************************************)
(* The results screen of the terminal UI (tui/src/ui/state/                *)
(* results_state.rs, query_detail_view.rs) in the loop of app.rs: a frame  *)
(* is drawn, one key is processed, and so on.  A frame is which query each *)
(* of its panes shows; a rendered plan or text is the query it is of.  The *)
(* status line and the export, which change no query shown, are left out.  *)
(***************************************************************************)
EXTENDS Integers, Sequences, FiniteSets

CONSTANTS
  Results,        \* what may be shown: for each fingerprint a normalized query,
                  \* its representative's formatted text and a statistic per
                  \* order; numbers stand for texts and durations, in their order
  HighlightCap,   \* texts highlighted_sql_cache holds
  ScrollValues,   \* values of a scroll position, 2^16 in the code
  Orders,         \* what to sort by: Count, Mean, Min, Max, StdDev
  Tabs            \* Statistics, Complexity, Metadata, Regression, AnalysisInsights

ASSUME ResultsAssumption ==
  /\ ScrollValues \in Nat \ {0} /\ "Count" \in Orders /\ "Statistics" \in Tabs
  /\ \A queries \in Results :
       /\ IsFiniteSet(DOMAIN queries)
       /\ \A f \in DOMAIN queries : /\ queries[f].normalized_query \in Int
                                    /\ queries[f].statistics \in [Orders -> Int]

VARIABLES
  processed_queries, sorted_query_fingerprints,
  selected_query_index, last_selected_query, sort_state,
  scroll,                  \* query_scroll, plan_scroll, plan_horizontal_scroll
  focused_pane,
  view_mode,               \* <<>>: the list; else the one detail view
  plan_render_cache, highlighted_sql_cache,
  clipboard,               \* <<>> or what it holds
  frame,                   \* what the last frame shows; <<>> after a key
  running,
  shown, scrolled          \* history: the query shown at the last copy, and
                           \* the one selected at the last scroll

listVars == <<sorted_query_fingerprints, selected_query_index, sort_state>>
cacheVars == <<last_selected_query, plan_render_cache, highlighted_sql_cache>>
copyVars == <<clipboard, shown>>
screenVars == <<processed_queries, listVars, cacheVars, copyVars, scroll, focused_pane, view_mode,
                frame, running, scrolled>>

NoScroll == [query |-> 0, plan |-> 0, horizontal |-> 0]

get_unique_query_count == Len(sorted_query_fingerprints)
Selected == sorted_query_fingerprints[selected_query_index + 1]
IsSelection == selected_query_index < get_unique_query_count
NormalizedQuery(f) == processed_queries[f].normalized_query
FormattedQuery(f) == processed_queries[f].formatted_query

-----------------------------------------------------------------------------
(* By the statistic, then by the text; a query of two databases has equal  *)
(* texts, and sort_by is stable.                                           *)
SortsBefore(state, a, b) ==
  LET x == processed_queries[a].statistics[state.order]
      y == processed_queries[b].statistics[state.order]
  IN \/ IF state.ascending THEN x < y ELSE x > y
     \/ x = y /\ NormalizedQuery(a) < NormalizedQuery(b)

sort_processed_queries(fs, state) ==
  LET Rank(i) == Cardinality({j \in DOMAIN fs :
                    \/ SortsBefore(state, fs[j], fs[i])
                    \/ j <= i /\ ~SortsBefore(state, fs[i], fs[j])})
  IN [k \in DOMAIN fs |-> fs[CHOOSE i \in DOMAIN fs : Rank(i) = k]]

-----------------------------------------------------------------------------
(* Drawing.                                                                *)

cached_for_the_row(f) == last_selected_query = <<selected_query_index>>

(* The rendering of the plan is kept while its fingerprint is selected.    *)
is_cached(f) == plan_render_cache = <<f>>

highlight_sql(text) ==
  highlighted_sql_cache' =
    IF Cardinality(highlighted_sql_cache) < HighlightCap THEN highlighted_sql_cache \cup {text}
    ELSE highlighted_sql_cache

(* The row that is highlighted, from 1; 0 when there is none.              *)
render_queries_table == IF IsSelection THEN selected_query_index + 1 ELSE 0

render_query_details ==
  /\ last_selected_query' = <<selected_query_index>>
  /\ \/ /\ IsSelection
        /\ plan_render_cache' = IF is_cached(Selected) THEN plan_render_cache ELSE <<Selected>>
        /\ highlight_sql(FormattedQuery(Selected))
        /\ frame' = <<[row |-> render_queries_table, of |-> <<Selected>>, plan |-> plan_render_cache']>>
     \/ /\ ~IsSelection
        /\ frame' = <<[row |-> render_queries_table, of |-> <<>>, plan |-> <<>>]>>
        /\ UNCHANGED <<plan_render_cache, highlighted_sql_cache>>

render_results_screen ==
  /\ running /\ frame = <<>> /\ view_mode = <<>>
  /\ render_query_details
  /\ UNCHANGED <<processed_queries, listVars, copyVars, scroll, focused_pane, view_mode, running,
                 scrolled>>

(* update_analysis: 200 ms after the view was opened it is complete.       *)
update_analysis(view) ==
  {view} \cup (IF view.status = "Delayed" THEN {[view EXCEPT !.status = "Completed"]} ELSE {})

render_detail_view ==
  /\ running /\ frame = <<>> /\ view_mode # <<>>
  /\ \E view \in update_analysis(view_mode[1]) : view_mode' = <<view>>
  /\ highlight_sql(FormattedQuery(view_mode[1].fingerprint))
  /\ frame' = <<[row |-> 0, of |-> <<view_mode[1].fingerprint>>, plan |-> <<view_mode[1].fingerprint>>]>>
  /\ UNCHANGED <<processed_queries, listVars, last_selected_query, plan_render_cache, copyVars,
                 scroll, focused_pane, running, scrolled>>

-----------------------------------------------------------------------------
(* Keys.  Every one is followed by a new frame.                            *)

Key == running /\ frame # <<>> /\ frame' = <<>>
InList == Key /\ view_mode = <<>>
InDetail == Key /\ view_mode # <<>>

quit ==
  /\ Key /\ running' = FALSE
  /\ UNCHANGED <<processed_queries, listVars, cacheVars, copyVars, scroll, focused_pane, view_mode,
                 scrolled>>

(* A key that does nothing in this view or pane.                           *)
ignored_key ==
  /\ Key
  /\ UNCHANGED <<processed_queries, listVars, cacheVars, copyVars, scroll, focused_pane, view_mode,
                 running, scrolled>>

toggle(order) ==
  IF sort_state.order = order THEN [sort_state EXCEPT !.ascending = ~@]
  ELSE [order |-> order, ascending |-> FALSE]

sort_by(order) ==
  /\ InList
  /\ sort_state' = toggle(order)
  /\ sorted_query_fingerprints' = sort_processed_queries(sorted_query_fingerprints, toggle(order))
  /\ selected_query_index' = 0
  /\ scroll' = NoScroll
  /\ UNCHANGED <<processed_queries, cacheVars, copyVars, focused_pane, view_mode, running, scrolled>>

tab ==
  /\ InList
  /\ focused_pane' = CASE focused_pane = "QueryList" -> "QueryDetails"
                       [] focused_pane = "QueryDetails" -> "ExecutionPlan"
                       [] focused_pane = "ExecutionPlan" -> "QueryList"
  /\ UNCHANGED <<processed_queries, listVars, cacheVars, copyVars, scroll, view_mode, running, scrolled>>

(* Up and Down in the list.                                                *)
Moved(step) ==
  LET at == selected_query_index + step
  IN IF at >= 0 /\ at < get_unique_query_count THEN at ELSE selected_query_index

select(step) ==
  /\ InList /\ focused_pane = "QueryList"
  /\ selected_query_index' = Moved(step)
  /\ scroll' = IF Moved(step) = selected_query_index THEN scroll ELSE NoScroll
  /\ UNCHANGED <<processed_queries, sorted_query_fingerprints, sort_state, cacheVars, copyVars,
                 focused_pane, view_mode, running, scrolled>>

(* Upwards a position saturates, downwards it is added to.                 *)
Scrolled(at, lines) ==
  IF at + lines < 0 THEN 0 ELSE (at + lines) % ScrollValues

ScrollBy(field, lines) ==
  /\ scroll' = [scroll EXCEPT ![field] = Scrolled(@, lines)]
  /\ scrolled' = IF IsSelection THEN <<Selected>> ELSE <<>>
  /\ UNCHANGED <<processed_queries, listVars, cacheVars, copyVars, focused_pane, view_mode, running>>

scroll_pane(lines) ==
  /\ InList
  /\ \/ focused_pane = "QueryDetails" /\ ScrollBy("query", lines)
     \/ focused_pane = "ExecutionPlan" /\ ScrollBy("plan", lines)

scroll_sideways(columns) ==
  /\ InList /\ focused_pane = "ExecutionPlan" /\ ScrollBy("horizontal", columns)

switch_to_detail_view ==
  /\ InList /\ IsSelection
  /\ view_mode' = <<[fingerprint |-> Selected, tab |-> "Statistics", analysis_scroll |-> 0,
                     status |-> "Delayed"]>>
  /\ UNCHANGED <<processed_queries, listVars, cacheVars, copyVars, scroll, focused_pane, running, scrolled>>

switch_to_list_view ==
  /\ InDetail
  /\ view_mode' = <<>>
  /\ UNCHANGED <<processed_queries, listVars, cacheVars, copyVars, scroll, focused_pane, running, scrolled>>

DetailKey(view) ==
  /\ InDetail
  /\ view_mode' = <<view>>
  /\ UNCHANGED <<processed_queries, listVars, cacheVars, copyVars, scroll, focused_pane, running, scrolled>>

select_tab(t) == DetailKey([view_mode[1] EXCEPT !.tab = t])

scroll_analysis(lines) ==
  DetailKey([view_mode[1] EXCEPT !.analysis_scroll = Scrolled(@, lines)])

(* The clipboard may not be accessible.                                    *)
copy_with_feedback(content) ==
  /\ \/ clipboard' = content /\ shown' = frame[1].of
     \/ UNCHANGED copyVars
  /\ UNCHANGED <<processed_queries, listVars, cacheVars, scroll, focused_pane, view_mode, running, scrolled>>

(* get_current_sql and get_current_execution_plan.                         *)
copy ==
  \/ InList /\ IsSelection /\ copy_with_feedback(<<Selected>>)
  \/ InDetail /\ copy_with_feedback(<<view_mode[1].fingerprint>>)

(* The keys of a hash map, in any order, then sorted.                      *)
ScreenInit ==
  /\ processed_queries \in Results
  /\ sort_state = [order |-> "Count", ascending |-> FALSE]
  /\ \E keys \in [1 .. Cardinality(DOMAIN processed_queries) -> DOMAIN processed_queries] :
       /\ \A i, j \in DOMAIN keys : keys[i] = keys[j] => i = j
       /\ sorted_query_fingerprints = sort_processed_queries(keys, sort_state)
  /\ selected_query_index = 0 /\ last_selected_query = <<>>
  /\ scroll = NoScroll /\ focused_pane = "QueryList" /\ view_mode = <<>>
  /\ plan_render_cache = <<>> /\ highlighted_sql_cache = {}
  /\ clipboard = <<>> /\ frame = <<>> /\ running = TRUE
  /\ shown = <<>> /\ scrolled = <<>>

ScreenNext ==
  \/ render_results_screen \/ render_detail_view
  \/ quit \/ ignored_key \/ tab \/ switch_to_detail_view \/ switch_to_list_view \/ copy
  \/ \E order \in Orders : sort_by(order)
  \/ \E step \in {-1, 1} : select(step)
  \/ \E lines \in {-5, -1, 1, 5} : scroll_pane(lines)
  \/ \E columns \in {-1, 1} : scroll_sideways(columns)
  \/ \E t \in Tabs : select_tab(t)
  \/ \E lines \in {-10, -1, 1, 10} : scroll_analysis(lines)

ScreenSpec == ScreenInit /\ [][ScreenNext]_screenVars

-----------------------------------------------------------------------------
(* The panes of a frame are of one query, the one that is highlighted or   *)
(* whose details were opened, whatever was sorted, cached or opened since; *)
(* what was copied is what the screen showed; a query is not shown scrolled*)
(* as another one was; the rows are in the order that is asked for.        *)
ScreenIsOfOneQuery ==
  /\ \A i \in DOMAIN frame :
       /\ frame[i].plan = frame[i].of
       /\ frame[i].row > 0 => frame[i].of = <<sorted_query_fingerprints[frame[i].row]>>
       /\ view_mode # <<>> => IsSelection /\ frame[i].of = <<Selected>>
  /\ clipboard = shown
  /\ scroll # NoScroll /\ IsSelection => scrolled = <<Selected>>
  /\ {sorted_query_fingerprints[i] : i \in DOMAIN sorted_query_fingerprints} = DOMAIN processed_queries
  /\ \A i, j \in DOMAIN sorted_query_fingerprints :
       SortsBefore(sort_state, sorted_query_fingerprints[i], sorted_query_fingerprints[j]) => i < j
=============================================================================
