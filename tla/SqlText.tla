------------------------------- MODULE SqlText -------------------------------
(***************************************************************************)
(* What core/src/sql_analysis reads out of a statement: its fingerprint    *)
(* (normalization.rs), its complexity (complexity.rs), the anti-patterns   *)
(* in it (anti_patterns.rs) and its metadata (metadata.rs).                *)
(*                                                                         *)
(* A statement is the tree the SQL parser (an external crate) builds: a    *)
(* node has a kind k, a value v and parts c.                               *)
(*   Query         c = <<With, body, OrderBy, Limit>>                      *)
(*   SetOperation  v = operator, c = <<left, right>>                       *)
(*   Select        c = <<From, Projection, Where, GroupBy, Having>>        *)
(*   FromItem      c = <<relation, join, ...>>; Join v = operator,         *)
(*                 c = <<relation, On>>                                    *)
(*   Table         v = [table, alias]; Derived v = alias, c = <<query>>    *)
(*   Limit         c = <<Rows, Rows>>: LIMIT and OFFSET, of no part if     *)
(*                 there is none                                           *)
(*   InList        v = negated, c = <<operand, item, ...>>                 *)
(*   Column        v = [table, column]; "" for no qualifier, no alias      *)
(***************************************************************************)
EXTENDS Integers, Sequences, SequencesExt, FiniteSetsExt

CONSTANTS
  max_parameters,         \* NormalizationConfig
  large_offset_threshold, \* AntiPatternAnalyzer (1000)
  join_weight, subquery_weight, \* ComplexityConfig, tenths of a point
  max_hints               \* MetadataExtractionConfig

Node(k, v, c) == [k |-> k, v |-> v, c |-> c]
Leaf(k, v) == Node(k, v, <<>>)

MapSeq(f(_), s) == [i \in 1 .. Len(s) |-> f(s[i])]
IfThen(b, s) == IF b THEN s ELSE <<>>

RECURSIVE NodesOf(_)
NodesOf(n) == {n} \cup UNION {NodesOf(n.c[i]) : i \in 1 .. Len(n.c)}

-----------------------------------------------------------------------------
(* QueryNormalizer.  The counter and the truncated flag go through both    *)
(* passes; a pass visits a node's parts, then the node.                    *)

Counter == [parameter_counter |-> 0, truncated |-> FALSE]

add_parameter(st) ==
  IF st.parameter_counter >= max_parameters THEN [st EXCEPT !.truncated = TRUE]
  ELSE [st EXCEPT !.parameter_counter = @ + 1]

Parameterised(n, item(_), st) ==
  LET counted == add_parameter(st)
  IN <<IF counted.truncated THEN n ELSE item(counted.parameter_counter), counted>>

IsListOfLiterals(n) == n.k = "InList" /\ \A i \in 2 .. Len(n.c) : n.c[i].k = "Literal"

collapse_long_in_lists(n, st) ==
  IF ~st.truncated /\ IsListOfLiterals(n) /\ Len(n.c) > 3
  THEN Parameterised(n, LAMBDA p : Node("InList", n.v, <<n.c[1], Leaf("Placeholder", p)>>), st)
  ELSE <<n, st>>

(* A list of two or more literals becomes one placeholder.                 *)
collapse_in_list(n, st) ==
  IF ~st.truncated /\ IsListOfLiterals(n) /\ Len(n.c) > 2
  THEN Parameterised(n, LAMBDA p : Node("InList", n.v, <<n.c[1], Leaf("Placeholder", p)>>), st)
  ELSE <<n, st>>

replace_literal(n, st) ==
  IF ~st.truncated /\ n.k = "Literal"
  THEN Parameterised(n, LAMBDA p : Leaf("Placeholder", p), st)
  ELSE <<n, st>>

(* visit_expressions_mut, a walk of the SQL parser.                        *)
RECURSIVE visit_expressions_mut(_, _, _)
visit_expressions_mut(pass, n, st) ==
  LET Part(acc, child) ==
        LET r == visit_expressions_mut(pass, child, acc[2]) IN <<Append(acc[1], r[1]), r[2]>>
      parts == FoldLeft(Part, <<<<>>, st>>, n.c)
      rebuilt == Node(n.k, n.v, parts[1])
  IN IF pass = "collapse" THEN collapse_in_list(rebuilt, parts[2])
     ELSE replace_literal(rebuilt, parts[2])

(* normalize: the fingerprint, a hash of the text, stands for the text     *)
(* (no two texts collide).  A statement that does not parse keeps its own. *)
normalize(sql) ==
  LET collapsed == visit_expressions_mut("collapse", sql, Counter)
      replaced == visit_expressions_mut("replace", collapsed[1], collapsed[2])
  IN IF sql.k = "Unparsable"
     THEN [fingerprint |-> sql, parameter_count |-> 0, truncated |-> FALSE, successful |-> FALSE]
     ELSE [fingerprint |-> replaced[1], parameter_count |-> replaced[2].parameter_counter,
           truncated |-> replaced[2].truncated, successful |-> ~replaced[2].truncated]

-----------------------------------------------------------------------------
(* QueryComplexityAnalyzer.  Counts add up, the nesting level is the       *)
(* deepest, and group_by_columns is what was assigned last: <<>> where     *)
(* nothing was.                                                            *)

create_simple_breakdown ==
  [table_count |-> 0, joins |-> 0, inner_joins |-> 0, outer_joins |-> 0,
   cross_joins |-> 0, subqueries |-> 0, nesting |-> 0, exists_subqueries |-> 0, in_subqueries |-> 0,
   functions |-> 0, aggregates |-> 0, windows |-> 0, unique_functions |-> {},
   conditions |-> 0, cases |-> 0, having_clause |-> FALSE, group_by |-> <<>>]

last_nesting_level(a, b) == IF b = 0 THEN a ELSE b
max_nesting_level(a, b) == IF a < b THEN b ELSE a
Smaller(a, b) == IF a < b THEN a ELSE b

Then(a, b) ==
  [table_count |-> a.table_count + b.table_count, joins |-> a.joins + b.joins,
   inner_joins |-> a.inner_joins + b.inner_joins,
   outer_joins |-> a.outer_joins + b.outer_joins,
   cross_joins |-> a.cross_joins + b.cross_joins,
   subqueries |-> a.subqueries + b.subqueries,
   nesting |-> max_nesting_level(a.nesting, b.nesting),
   exists_subqueries |-> a.exists_subqueries + b.exists_subqueries,
   in_subqueries |-> a.in_subqueries + b.in_subqueries,
   functions |-> a.functions + b.functions, aggregates |-> a.aggregates + b.aggregates,
   windows |-> a.windows + b.windows,
   unique_functions |-> a.unique_functions \cup b.unique_functions,
   conditions |-> a.conditions + b.conditions, cases |-> a.cases + b.cases,
   having_clause |-> a.having_clause \/ b.having_clause,
   group_by |-> IF b.group_by = <<>> THEN a.group_by ELSE b.group_by]

Counting(f) == [create_simple_breakdown EXCEPT ![f] = 1]
InTurn(breakdowns) == FoldLeft(Then, create_simple_breakdown, breakdowns)

(* The names are those of a small set of functions.                        *)
is_aggregate_function(name) == name \in {"count", "sum"}
is_window_function(name) == name \in {"rank"}

RECURSIVE count_conditions(_)
count_conditions(e) ==
  IF e.k = "And" THEN 1 + count_conditions(e.c[1]) + count_conditions(e.c[2]) ELSE 1

Conditions(clause) ==
  [create_simple_breakdown EXCEPT !.conditions =
     IF clause.c = <<>> THEN 0 ELSE count_conditions(clause.c[1])]

(* Every join counts.  One written JOIN alone (JoinOperator::Join) is of   *)
(* no kind, and its ON is not counted.                                     *)
analyze_table_joins(item) ==
  LET Kind(op) == CASE op = "Inner" -> {"inner_joins"}
                    [] op \in {"Left", "Right", "Full"} -> {"outer_joins"}
                    [] op = "Cross" -> {"cross_joins"}
                    [] OTHER -> {}
      On(join) == IF join.v \in {"Inner", "Left", "Right", "Full"}
                  THEN Conditions(join.c[2]) ELSE create_simple_breakdown
      Joined(join) ==
        Then(On(join), [f \in DOMAIN create_simple_breakdown |->
                          IF f \in {"joins", "table_count"} \cup Kind(join.v) THEN 1
                          ELSE create_simple_breakdown[f]])
  IN Then(Counting("table_count"), InTurn(MapSeq(Joined, Tail(item.c))))

RECURSIVE analyze_expression(_, _), analyze_query_body(_, _), analyze_nested(_, _)
analyze_expression(e, depth) ==
  LET Parts(d) == InTurn(MapSeq(LAMBDA p : analyze_expression(p, d), e.c))
  IN CASE e.k = "Function" ->
            InTurn(<<[Counting("functions") EXCEPT !.unique_functions = {e.v}],
                     IF is_aggregate_function(e.v) THEN Counting("aggregates")
                     ELSE IF is_window_function(e.v) THEN Counting("windows")
                     ELSE create_simple_breakdown,
                     Parts(0)>>)
       [] e.k = "Subquery" ->
            Then(Counting("subqueries"), analyze_query_body(e.c[1].c[2], depth + 1))
       [] e.k = "Exists" ->
            InTurn(<<Counting("exists_subqueries"), Counting("subqueries"),
                     analyze_query_body(e.c[1].c[2], depth + 1)>>)
       [] e.k = "InSubquery" ->
            InTurn(<<Counting("in_subqueries"), Counting("subqueries"),
                     analyze_expression(e.c[1], depth),
                     analyze_query_body(e.c[2].c[2], depth + 1)>>)
       [] e.k = "Case" -> Then(Counting("cases"), Parts(depth))
       [] e.k \in {"And", "Compare", "UnaryOp"} -> Parts(depth)
       [] OTHER -> create_simple_breakdown

analyze_with(with, depth) ==
  InTurn(MapSeq(LAMBDA cte : Then(Counting("subqueries"), analyze_nested(cte, depth)), with.c))

analyze_select(s, depth) ==
  LET Clause(clause) ==
        Then(Conditions(clause),
             InTurn(MapSeq(LAMBDA e : analyze_expression(e, depth + 1), clause.c)))
  IN InTurn(<<InTurn(MapSeq(analyze_table_joins, s.c[1].c)),
              InTurn(MapSeq(LAMBDA e : analyze_expression(e, depth), s.c[2].c)),
              Clause(s.c[3]),
              [create_simple_breakdown EXCEPT !.group_by = <<Len(s.c[4].c)>>,
                                              !.having_clause = s.c[5].c # <<>>],
              Clause(s.c[5])>>)

analyze_query_body(body, depth) ==
  Then([create_simple_breakdown EXCEPT !.nesting = depth],
       CASE body.k = "Select" -> analyze_select(body, depth)
         [] body.k = "Query" -> analyze_nested(body, depth)
         [] body.k = "SetOperation" ->
              Then(analyze_query_body(body.c[1], depth), analyze_query_body(body.c[2], depth))
         [] OTHER -> create_simple_breakdown)

(* A CTE or a parenthesised query, with a WITH of its own.                 *)
analyze_nested(query, depth) ==
  Then(analyze_with(query.c[1], depth + 1), analyze_query_body(query.c[2], depth + 1))

analyze_statement(sql) ==
  IF sql.k # "Query" THEN create_simple_breakdown
  ELSE Then(analyze_with(sql.c[1], 1), analyze_query_body(sql.c[2], 1))

(* Scores in tenths of a point.                                            *)
calculate_component_scores(b) ==
  [join |-> Smaller(Smaller(30 * b.joins, 150) + 20 * b.outer_joins + 30 * b.cross_joins, join_weight),
   subquery |-> Smaller(Smaller(50 * b.subqueries, 150) + Smaller(20 * b.nesting, 50), subquery_weight),
   function |-> Smaller(Smaller(15 * b.functions, 100)
                          + Smaller(10 * Cardinality(b.unique_functions), 50), 150),
   condition |-> Smaller(Smaller(15 * b.conditions, 100) + Smaller(20 * b.cases, 50), 150),
   aggregation |-> Smaller(Smaller(20 * (IF b.group_by = <<>> THEN 0 ELSE b.group_by[1]), 60)
                             + Smaller(15 * b.aggregates, 40), 100),
   window |-> Smaller(30 * b.windows, 100)]

calculate_total_score(s) ==
  s.join + s.subquery + s.function + s.condition + s.aggregation + s.window

classify_complexity(total) ==
  IF total < 250 THEN "Simple" ELSE IF total < 500 THEN "Moderate"
  ELSE IF total < 750 THEN "Complex" ELSE "VeryComplex"
-----------------------------------------------------------------------------
(* AntiPatternAnalyzer.  Findings are one per kind (FindingCtx.seen), so   *)
(* a walk returns the set of kinds.  outer are the aliases of the          *)
(* enclosing queries.                                                      *)

collect_alias(relation) ==
  IF relation.k = "Table"
  THEN {IF relation.v.alias # "" THEN relation.v.alias ELSE relation.v.table}
  ELSE IF relation.v # "" THEN {relation.v} ELSE {}

Relations(item) == <<item.c[1]>> \o MapSeq(LAMBDA j : j.c[1], Tail(item.c))
ScopeOf(select) ==
  UNION {UNION {collect_alias(r) : r \in ToSet(Relations(i))} : i \in ToSet(select.c[1].c)}

RECURSIVE contains_column(_)
contains_column(e) ==
  \/ e.k = "Column"
  \/ e.k \in {"Cast", "Nested", "UnaryOp"} /\ contains_column(e.c[1])

wraps_column(e) ==
  \/ e.k = "Cast" /\ contains_column(e.c[1])
  \/ e.k = "Function" /\ ~is_aggregate_function(e.v) /\ \E a \in ToSet(e.c) : contains_column(a)

(* OFFSET without LIMIT, or a deep one.                                    *)
check_offset(query) ==
  LET limit == query.c[4].c[1].c
      offset == query.c[4].c[2].c
  IN IF offset # <<>> /\ (limit = <<>> \/ offset[1].v >= large_offset_threshold)
     THEN {"OffsetWithoutLimit"} ELSE {}

correlated_by_outer(column, outer, scope) ==
  IF column.v.table # "" /\ column.v.table \in outer
  THEN {"CorrelatedSubquery"} ELSE {}

correlated(column, outer, scope) ==
  IF column.v.table # "" /\ column.v.table \in outer /\ column.v.table \notin scope
  THEN {"CorrelatedSubquery"} ELSE {}

RECURSIVE walk_expr(_, _, _), walk_set_expr(_, _)
walk_query(query, outer) == check_offset(query) \cup walk_set_expr(query.c[2], outer)

walk_expr(e, outer, scope) ==
  LET Parts(s) == UNION {walk_expr(p, outer, scope) : p \in ToSet(s)}
      below == outer \cup scope
      NotIn == IF e.v = TRUE THEN {"NotIn"} ELSE {}
  IN CASE e.k = "Column" -> correlated(e, outer, scope)
       [] e.k = "Like" ->
            (IF e.c[2].k = "Literal" /\ e.v = "leading" THEN {"LeadingWildcardLike"} ELSE {})
              \cup Parts(<<e.c[1]>>)
       [] e.k = "InList" -> NotIn \cup Parts(<<e.c[1]>>)
       [] e.k = "InSubquery" -> NotIn \cup Parts(<<e.c[1]>>) \cup walk_set_expr(e.c[2].c[2], below)
       [] e.k = "Compare" ->
            (IF wraps_column(e.c[1]) \/ wraps_column(e.c[2])
             THEN {"FunctionWrappedPredicate"} ELSE {}) \cup Parts(e.c)
       [] e.k \in {"And", "UnaryOp", "Nested", "Cast", "Between"} -> Parts(e.c)
       [] e.k \in {"Subquery", "Exists"} -> walk_query(e.c[1], below)
       [] OTHER -> {}

walk_select(s, outer) ==
  LET scope == ScopeOf(s)
      Exprs(clause) == UNION {walk_expr(e, outer, scope) : e \in ToSet(clause.c)}
      Derived == UNION {{r \in ToSet(Relations(i)) : r.k = "Derived"} : i \in ToSet(s.c[1].c)}
  IN (IF \E e \in ToSet(s.c[2].c) : e.k = "Wildcard" THEN {"SelectStar"} ELSE {})
     \cup Exprs(s.c[3]) \cup Exprs(s.c[5]) \cup Exprs(s.c[2])
     \cup UNION {walk_query(r.c[1], outer \cup scope) : r \in Derived}

walk_set_expr(body, outer) ==
  CASE body.k = "Select" -> walk_select(body, outer)
    [] body.k = "Query" -> walk_query(body, outer)
    [] body.k = "SetOperation" ->
         (IF body.v = "Union" THEN {"UnionInsteadOfUnionAll"} ELSE {})
           \cup walk_set_expr(body.c[1], outer) \cup walk_set_expr(body.c[2], outer)
    [] OTHER -> {}

AntiPatterns(sql) == IF sql.k = "Query" THEN walk_query(sql, {}) ELSE {}

-----------------------------------------------------------------------------
(* MetadataExtractor.  The lists of references are passed along the walk;  *)
(* a subquery has tables of its own and shares the columns so far.         *)

NoReferences == [tables |-> <<>>, columns |-> <<>>, functions |-> <<>>]

Primary(tables) ==
  LET found == {i \in 1 .. Len(tables) : tables[i].access_type = "Primary"}
  IN IF found = {} THEN tables[1] ELSE tables[Min(found)]

(* Columns without a table get the primary table's alias or name.          *)
resolve_unqualified_columns(refs) ==
  IF refs.tables = <<>> THEN refs
  ELSE LET t == Primary(refs.tables)
           name == IF t.alias # "" THEN t.alias ELSE t.table
       IN [refs EXCEPT !.columns =
             MapSeq(LAMBDA col : IF col.table # "" THEN col ELSE [col EXCEPT !.table = name], @)]

extract_table_references(item) ==
  LET Ref(r, access) ==
        IfThen(r.k = "Table",
               <<[table |-> r.v.table, alias |-> r.v.alias, access_type |-> access]>>)
  IN Ref(item.c[1], "Primary")
     \o FlattenSeq(MapSeq(LAMBDA j : Ref(j.c[1], "Joined"), Tail(item.c)))

ColumnRef(table, column, usage) == [table |-> table, column |-> column, usage |-> usage]

categorize_function(name) ==
  CASE name \in {"count", "sum"} -> "Aggregate" [] name = "rank" -> "Window"
    [] name = "lower" -> "String" [] OTHER -> "Other"

RECURSIVE extract_from_expression(_, _, _), extract_from_set_expr(_, _)
ExtractAll(clause, usage, refs) ==
  FoldLeft(LAMBDA acc, e : extract_from_expression(e, usage, acc), refs, clause.c)

extract_from_query(query, refs) ==
  resolve_unqualified_columns(
    ExtractAll(query.c[3], "Ordered", extract_from_set_expr(query.c[2], refs)))

extract_from_expression(e, usage, refs) ==
  CASE e.k = "Column" ->
         [refs EXCEPT !.columns = Append(@, ColumnRef(e.v.table, e.v.column, usage))]
    [] e.k = "Wildcard" ->  \* extract_from_select_item
         [refs EXCEPT !.columns = Append(@, ColumnRef(e.v, "*", "Selected"))]
    [] e.k = "Function" ->
         ExtractAll(e, "Aggregated", [refs EXCEPT !.functions = Append(@, categorize_function(e.v))])
    [] e.k \in {"And", "Compare", "UnaryOp"} -> ExtractAll(e, usage, refs)
    [] e.k = "Subquery" ->
         [extract_from_query(e.c[1], [refs EXCEPT !.tables = <<>>]) EXCEPT !.tables = refs.tables]
    [] OTHER -> refs

extract_from_select(s, refs) ==
  LET named == [refs EXCEPT !.tables = @ \o FlattenSeq(MapSeq(extract_table_references, s.c[1].c))]
      Clauses == <<<<2, "Selected">>, <<3, "Filtered">>, <<4, "Grouped">>, <<5, "Filtered">>>>
  IN FoldLeft(LAMBDA acc, cl : ExtractAll(s.c[cl[1]], cl[2], acc), named, Clauses)

extract_from_set_expr(body, refs) ==
  CASE body.k = "Select" -> extract_from_select(body, refs)
    [] body.k = "Query" -> extract_from_query(body, refs)
    [] body.k = "SetOperation" ->
         extract_from_set_expr(body.c[2], extract_from_set_expr(body.c[1], refs))
    [] OTHER -> refs

Used(refs, usages) == SelectSeq(refs.columns, LAMBDA col : col.usage \in usages)

(* One hint for a table with columns that are filtered.                    *)
generate_index_hints(refs) ==
  LET filtered == SelectSeq(Used(refs, {"Filtered", "Joined"}), LAMBDA col : col.table # "")
  IN {[table |-> t, columns |-> MapSeq(LAMBDA col : col.column,
                                        SelectSeq(filtered, LAMBDA col : col.table = t))] :
        t \in {filtered[i].table : i \in 1 .. Len(filtered)}}

HasJoins(refs) == \E t \in ToSet(refs.tables) : t.access_type = "Joined"
HasAggregates(refs) == "Aggregate" \in ToSet(refs.functions)
AggregatesOf(refs) == SelectSeq(refs.functions, LAMBDA f : f = "Aggregate")

assess_parallel_potential(refs) ==
  LET aggregates == Used(refs, {"Aggregated"}) # <<>>
  IN IF aggregates /\ HasJoins(refs) /\ Len(refs.tables) > 2 THEN "High"
     ELSE IF aggregates # HasJoins(refs) THEN "Medium"
     ELSE IF ~aggregates /\ Len(refs.tables) = 1 THEN "Low" ELSE "None"

estimate_data_volume(refs) ==
  LET filters == Len(Used(refs, {"Filtered"}))
  IN IF filters = 0 THEN "VeryLarge" ELSE IF filters = 1 THEN "Large"
     ELSE IF filters = 2 THEN "Medium" ELSE "Small"

classify_workload_type(operation, refs) ==
  IF operation # "Select" THEN "OLTP"
  ELSE IF HasAggregates(refs) THEN (IF Len(refs.tables) > 3 THEN "OLAP" ELSE "Reporting")
  ELSE IF Len(refs.tables) = 1 THEN "OLTP" ELSE "Mixed"

classify_resource_pattern(refs) ==
  IF HasJoins(refs) /\ HasAggregates(refs)
  THEN (IF Len(refs.functions) > 5 THEN "CPUIntensive" ELSE "Balanced")
  ELSE IF HasJoins(refs) THEN "IOIntensive"
  ELSE IF HasAggregates(refs) THEN "CPUIntensive" ELSE "Balanced"

generate_performance_hints(refs) ==
  LET joins == SelectSeq(refs.tables, LAMBDA t : t.access_type = "Joined")
      hints == IfThen(Used(refs, {"Filtered"}) # <<>>, <<"Indexing">>)
                 \o IfThen(Len(joins) > 3, <<"BreakDownJoins">>)
                 \o IfThen(Len(AggregatesOf(refs)) > 3, <<"MaterializedView">>)
  IN SubSeq(hints, 1, Smaller(Len(hints), max_hints))

extract_from_statement(sql) ==
  LET refs == IF sql.k = "Query" THEN extract_from_query(sql, NoReferences) ELSE NoReferences
      operation == IF sql.k = "Query" THEN "Select" ELSE sql.k
  IN [operation |-> operation, references |-> refs,
      likely_full_scan |-> Used(refs, {"Filtered", "Joined"}) = <<>>,
      index_hints |-> generate_index_hints(refs),
      parallel_potential |-> assess_parallel_potential(refs),
      estimated_volume |-> estimate_data_volume(refs),
      workload_type |-> classify_workload_type(operation, refs),
      resource_pattern |-> classify_resource_pattern(refs),
      performance_hints |-> generate_performance_hints(refs)]
=============================================================================
