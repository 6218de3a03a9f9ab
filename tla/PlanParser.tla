----------------------------- MODULE PlanParser -----------------------------
(***************************************************************************)
(* core/src/plan_parser.rs: how the text of EXPLAIN and its JSON become a  *)
(* tree of plan nodes, and what is asked of the tree.                      *)
(*                                                                         *)
(* A plan is built node by node (the planner's choice), printed both ways  *)
(* as ExplainNode prints it, and read back.  The name of a node is a       *)
(* sequence of lower case words, "_" where a space is printed; tables,     *)
(* indexes and conditions are values; a cost is one number, rows are       *)
(* tenths.  Aliases, schemas and quoting are left out.                     *)
(***************************************************************************)
EXTENDS PlanTree, PlanProperties, TLC

CONSTANTS
  MAX_PLAN_DEPTH,  \* nesting the text parser accepts (256)
  MaxSteps         \* nodes and facts added to the root of a plan

VARIABLES plan, steps

planVars == <<plan, steps>>

-----------------------------------------------------------------------------
(* What the server prints (external).                                      *)

Kind(text, json, table, index) ==
  [text |-> text, json |-> json, table |-> table, index |-> index]

Named(name) == Kind(name, name, <<>>, <<>>)
On(text, json) == Kind(text, json, <<"t">>, <<>>)

Scan(words) == words \o <<"_", "scan">>

Kinds ==
  {On(Scan(<<"seq">>), Scan(<<"seq">>)),
   On(Scan(<<"parallel", "_", "seq">>), Scan(<<"seq">>)),
   Kind(Scan(<<"index">>), Scan(<<"index">>), <<"t">>, <<"i">>),
   Kind(Scan(<<"index">>) \o <<"_", "backward">>, Scan(<<"index">>), <<"t">>, <<"i">>),
   Kind(Scan(<<"index", "_", "only">>), Scan(<<"index", "_", "only">>), <<"t">>, <<"i">>),
   On(Scan(<<"bitmap", "_", "heap">>), Scan(<<"bitmap", "_", "heap">>)),
   On(Scan(<<"parallel", "_", "bitmap", "_", "heap">>), Scan(<<"bitmap", "_", "heap">>)),
   Kind(Scan(<<"bitmap", "_", "index">>), Scan(<<"bitmap", "_", "index">>), <<>>, <<"i">>),
   Named(Scan(<<"cte">>)),
   Named(<<"nested", "_", "loop">>),
   Kind(<<"nested", "_", "loop", "_", "left", "_", "join">>, <<"nested", "_", "loop">>, <<>>, <<>>),
   Named(<<"hash", "_", "join">>),
   Kind(<<"hash", "_", "left", "_", "join">>, <<"hash", "_", "join">>, <<>>, <<>>),
   Named(<<"merge", "_", "join">>),
   Named(<<"aggregate">>),
   Kind(<<"group", "aggregate">>, <<"aggregate">>, <<>>, <<>>),
   Kind(<<"hash", "aggregate">>, <<"aggregate">>, <<>>, <<>>),
   Named(<<"sort">>), Named(<<"incremental", "_", "sort">>), Named(<<"limit">>),
   Named(<<"gather", "_", "merge">>), Named(<<"gather">>), Named(<<"materialize">>),
   Named(<<"memoize">>), Named(<<"bitmap", "and">>), Named(<<"bitmap", "or">>),
   Named(<<"hash">>)}

(* What a node may have to say; a fact is one line of text and one or more *)
(* keys of JSON.                                                           *)
Facts ==
  {"filter", "removed", "heap", "sorted", "spilled", "hashed", "keys", "workers", "unique"}

FactText(fact) ==
  CASE fact = "filter" -> <<"Filter", <<Text("f")>>>>
    [] fact = "removed" -> <<"Rows Removed by Filter", <<Number(7)>>>>
    [] fact = "heap" -> <<"Heap Blocks", <<"exact", Number(3), "lossy", Number(2)>>>>
    [] fact = "sorted" -> <<"Sort Method", <<Text("quicksort"), "Memory", Number(25)>>>>
    [] fact = "spilled" -> <<"Sort Method", <<Text("external"), "Disk", Number(99)>>>>
    [] fact = "hashed" -> <<"Buckets", <<Number(64), "Batches", Number(4), "Memory Usage", Number(9)>>>>
    [] fact = "keys" -> <<"Sort Key", <<Text(<<"a", "DESC", ",", "b">>)>>>>
    [] fact = "workers" -> <<"Workers Planned", <<Number(2)>>>>
    [] fact = "unique" -> <<"Inner Unique", <<Text("true")>>>>

FactJson(fact) ==
  CASE fact = "filter" -> <<<<"Filter", Text("f")>>>>
    [] fact = "removed" -> <<<<"Rows Removed by Filter", Number(7)>>>>
    [] fact = "heap" -> <<<<"Exact Heap Blocks", Number(3)>>, <<"Lossy Heap Blocks", Number(2)>>>>
    [] fact = "sorted" -> <<<<"Sort Method", Text("quicksort")>>, <<"Sort Space Type", Text("Memory")>>,
                            <<"Sort Space Used", Number(25)>>>>
    [] fact = "spilled" -> <<<<"Sort Method", Text("external")>>, <<"Sort Space Type", Text("Disk")>>,
                             <<"Sort Space Used", Number(99)>>>>
    [] fact = "hashed" -> <<<<"Hash Buckets", Number(64)>>, <<"Hash Batches", Number(4)>>,
                            <<"Peak Memory Usage", Number(9)>>>>
    [] fact = "keys" -> <<<<"Sort Key", Text(<<"a", "DESC", ",", "b">>)>>>>
    [] fact = "workers" -> <<<<"Workers Planned", Number(2)>>>>
    [] fact = "unique" -> <<<<"Inner Unique", Text("true")>>>>

NodeLine(indent, n) ==
  [indent |-> indent, is_node |-> TRUE, name |-> n.kind.text, cost |-> n.cost, rows |-> n.rows,
   on |-> IF n.kind.table # <<>> THEN n.kind.table ELSE n.kind.index,
   using |-> IF n.kind.table # <<>> THEN n.kind.index ELSE <<>>]

OtherLine(indent, head, rest) ==
  [indent |-> indent, is_node |-> FALSE, head |-> head, rest |-> rest]

(* ExplainNode with es->indent = e: a label and an arrow each move in.     *)
RECURSIVE ExplainNode(_, _, _)
ExplainNode(tree, p, e) ==
  LET n == tree[p]
      labelled == IF n.label = "" THEN <<>> ELSE <<OtherLine(2 * e, n.label, <<>>)>>
      arrow == e + Len(labelled)
      inside == IF arrow = 0 THEN 1 ELSE arrow + 3
      facts == SetToSeq(n.facts)
  IN labelled \o <<NodeLine(2 * arrow, n)>>
       \o [i \in 1 .. Len(facts) |->
             OtherLine(2 * inside, FactText(facts[i])[1], FactText(facts[i])[2])]
       \o FlattenSeq([i \in 1 .. child_count(tree, p) |->
                        ExplainNode(tree, children(tree, p)[i], inside)])

(* auto_explain's text: the plan, then lines that are no part of it.       *)
Explain(tree) == ExplainNode(tree, root, 0) \o <<OtherLine(0, "Planning Time", <<Number(1)>>)>>

-----------------------------------------------------------------------------
(* The type of a node, from its line.                                      *)

contains(name, phrase) ==
  \E i \in 0 .. Len(name) - Len(phrase) : SubSeq(name, i + 1, i + Len(phrase)) = phrase

NodeType(class, type) ==
  [class |-> class, type |-> type, table |-> <<>>, index |-> <<>>, backward |-> FALSE, only |-> FALSE]

Unknown(first_word) == NodeType("Unknown", first_word)

ScanType_analyze(line) ==
  LET scan(type) == [NodeType("Scan", type) EXCEPT !.table = line.on]
  IN IF contains(line.name, Scan(<<"bitmap", "_", "index">>))
     THEN [NodeType("Scan", "BitmapIndexScan") EXCEPT !.index = line.on]
     ELSE IF line.on = <<>> THEN Unknown("UNKNOWN_SCAN")
     ELSE IF contains(line.name, <<"index">>)
     THEN [scan("IndexScan") EXCEPT !.index = line.using,
             !.backward = contains(line.name, <<"scan", "_", "backward">>),
             !.only = contains(line.name, <<"index", "_", "only">>)]
     ELSE IF contains(line.name, Scan(<<"parallel", "_", "bitmap", "_", "heap">>))
     THEN scan("ParallelBitmapHeapScan")
     ELSE IF contains(line.name, Scan(<<"bitmap", "_", "heap">>)) THEN scan("BitmapHeapScan")
     ELSE IF contains(line.name, Scan(<<"seq">>)) THEN scan("SeqScan")
     ELSE Unknown("UNKNOWN_SCAN")

(* The first pair whose phrase the name contains.                          *)
FirstOf(name, class, table, otherwise) ==
  LET hits == {i \in 1 .. Len(table) : contains(name, table[i][1])}
  IN IF hits = {} THEN Unknown(otherwise)
     ELSE NodeType(class, table[CHOOSE i \in hits : \A j \in hits : i <= j][2])

JoinType_analyze(line) ==
  FirstOf(line.name, "Join",
          <<<<<<"nested", "_", "loop", "_", "left", "_", "join">>, "NestedLoopLeftJoin">>,
            <<<<"nested", "_", "loop">>, "NestedLoop">>,
            <<<<"hash", "_", "join">>, "HashJoin">>,
            <<<<"merge", "_", "join">>, "MergeJoin">>>>, "UNKNOWN_JOIN")

AggregateType_analyze(line) ==
  FirstOf(line.name, "Aggregate",
          <<<<<<"group", "_", "aggregate">>, "GroupAggregate">>,
            <<<<"hash", "_", "aggregate">>, "HashAggregate">>,
            <<<<"aggregate">>, "Aggregate">>>>, "UNKNOWN_AGGREGATE")

UtilityType_analyze(line) ==
  FirstOf(line.name, "Utility",
          <<<<<<"sort">>, "Sort">>, <<<<"limit">>, "Limit">>,
            <<<<"gather", "_", "merge">>, "GatherMerge">>, <<<<"materialize">>, "Materialize">>,
            <<<<"memoize">>, "Memoize">>, <<<<"subplan">>, "SubPlan">>,
            <<<<"bitmap", "and">>, "BitmapAnd">>, <<<<"bitmap", "or">>, "BitmapOr">>>>, line.name[1])

parse_node_type_from_string(line) ==
  IF contains(line.name, <<"scan">>) THEN ScanType_analyze(line)
  ELSE IF contains(line.name, <<"join">>) \/ contains(line.name, <<"nested", "_", "loop">>)
  THEN JoinType_analyze(line)
  ELSE IF contains(line.name, <<"aggregate">>) THEN AggregateType_analyze(line)
  ELSE UtilityType_analyze(line)

-----------------------------------------------------------------------------
(* Property lines of the text.                                             *)

(* "method  Disk: n kB" is three properties.                               *)
parse_sort_method_line(properties, rest) ==
  IF Len(rest) = 1 THEN set(properties, "Sort Method", rest[1])
  ELSE set(set(set(properties, "Sort Method", rest[1]), "Sort Space Type", Text(rest[2])),
           "Sort Space Used", rest[3])

parse_heap_blocks_line(properties, rest) ==
  FoldLeft(LAMBDA ps, i : set(ps, IF rest[i] = "exact" THEN "Heap Blocks: exact" ELSE "Heap Blocks: lossy",
                              rest[i + 1]),
           properties, SelectSeq(<<1, 3>>, LAMBDA i : i < Len(rest)))

parse_hash_line(properties, rest) ==
  set(set(set(properties, "Buckets", rest[1]), "Batches", rest[3]), "Memory Usage", Text(rest[5].text))

(* Any other line is a property if it has a colon; a label has none.       *)
parse_property_line(properties, line) ==
  CASE line.head = "Sort Method" -> parse_sort_method_line(properties, line.rest)
    [] line.head = "Heap Blocks" -> parse_heap_blocks_line(properties, line.rest)
    [] line.head = "Buckets" -> parse_hash_line(properties, line.rest)
    [] line.rest = <<>> -> properties
    [] OTHER -> set(properties, line.head, line.rest[1])

(* Keys separated by commas, with a direction or none.                     *)
parse_sort_keys(value) ==
  LET starts == {i \in 1 .. Len(value) : value[i] # "," /\ (i = 1 \/ value[i - 1] = ",")}
  IN {[expression |-> value[i],
       direction |-> IF i < Len(value) /\ value[i + 1] \in {"DESC", "ASC"} THEN <<value[i + 1]>> ELSE <<>>] :
      i \in starts}

(* update_from_properties: what a node's type takes from its properties.   *)
DetailKeys(type) ==
  CASE type = "ParallelBitmapHeapScan" -> {"Workers Planned"}
    [] type = "BitmapHeapScan" -> {"Recheck Cond"}
    [] type \in {"NestedLoop", "NestedLoopLeftJoin"} -> {"Inner Unique"}
    [] type = "HashJoin" -> {"Hash Cond"}
    [] type = "MergeJoin" -> {"Merge Cond"}
    [] type \in {"GroupAggregate", "HashAggregate"} -> {"Group Key", "Output"}
    [] type = "Aggregate" -> {"Output"}
    [] type = "Sort" -> {"Sort Key", "Sort Method"}
    [] type = "GatherMerge" -> {"Workers Planned", "Workers Launched"}
    [] type = "Memoize" -> {"Cache Key", "Cache Mode"}
    [] OTHER -> {}

update_from_properties(node) ==
  [node EXCEPT !.details =
     [key \in {k \in DetailKeys(node.type.type) : to_hashmap(node.properties, k) # <<>>} |->
        IF key = "Sort Key" THEN parse_sort_keys(to_hashmap(node.properties, key)[1])
        ELSE to_hashmap(node.properties, key)[1]]]

-----------------------------------------------------------------------------
(* The tree.  A result is <<tree, next line>>, or <<>> for an error.       *)

PlanNode(type, cost, rows) ==
  [type |-> type, cost |-> cost, rows |-> rows, properties |-> <<>>, details |-> <<>>]

round(tenths) == (tenths + 5) \div 10

parse_single_node(line) == PlanNode(parse_node_type_from_string(line), line.cost, round(line.rows))

convert_raw_indentation_to_logical(raw) == raw \div 2

ends_only_outside(line_indent, current_indent) == line_indent < current_indent

(* A line no deeper than the node ends it.                                 *)
EndsNode(line_indent, current_indent) == line_indent <= current_indent

RECURSIVE parse_node_tree(_, _, _, _), NodeBody(_, _, _, _, _)
parse_node_tree(lines, start_idx, depth, path) ==
  IF depth >= MAX_PLAN_DEPTH \/ start_idx > Len(lines) THEN <<>>
  ELSE IF ~lines[start_idx].is_node THEN <<>>
  ELSE NodeBody(lines, start_idx + 1, depth, path,
                [nodes |-> path :> parse_single_node(lines[start_idx]), count |-> 0,
                 indent |-> convert_raw_indentation_to_logical(lines[start_idx].indent)])

(* The lines after a node's own, until one ends it.                        *)
NodeBody(lines, idx, depth, path, node) ==
  IF idx > Len(lines) \/ EndsNode(convert_raw_indentation_to_logical(lines[idx].indent), node.indent)
  THEN <<[node.nodes EXCEPT ![path] = update_from_properties(@)], idx>>
  ELSE IF lines[idx].is_node
  THEN LET child == parse_node_tree(lines, idx, depth + 1, child_of(path, node.count))
       IN IF child = <<>> THEN <<>>
          ELSE NodeBody(lines, child[2], depth, path,
                        [node EXCEPT !.nodes = @ @@ child[1], !.count = @ + 1])
  ELSE NodeBody(lines, idx + 1, depth, path,
                [node EXCEPT !.nodes[path].properties = parse_property_line(@, lines[idx])])

parse_plan(lines) ==
  LET tree == parse_node_tree(lines, 1, 0, root) IN IF tree = <<>> THEN <<>> ELSE <<tree[1]>>

-----------------------------------------------------------------------------
(* JSON: the tree is given; a node's type comes from "Node Type", and from *)
(* "Relation Name" and "Index Name" for a scan.                            *)

parse_json_node_type(n) ==
  LET name == n.kind.json
      scan(type) == [NodeType("Scan", type) EXCEPT !.table = n.kind.table]
      bare == [name |-> name, on |-> <<>>, using |-> <<>>]
  IN IF ~contains(name, <<"scan">>) \/ n.kind.table = <<>> THEN parse_node_type_from_string(bare)
     ELSE IF contains(name, <<"index">>) /\ ~contains(name, <<"bitmap">>)
     THEN [scan("IndexScan") EXCEPT !.index = n.kind.index,
             !.backward = contains(name, <<"backward">>), !.only = contains(name, <<"only">>)]
     ELSE IF contains(name, Scan(<<"bitmap", "_", "index">>))
     THEN [NodeType("Scan", "BitmapIndexScan") EXCEPT !.index = n.kind.index]
     ELSE IF contains(name, Scan(<<"bitmap", "_", "heap">>)) THEN scan("BitmapHeapScan")
     ELSE IF contains(name, Scan(<<"seq">>)) THEN scan("SeqScan")
     ELSE parse_node_type_from_string(bare)

JsonProperties(n) ==
  (IF n.kind.index = <<>> THEN <<>> ELSE <<<<"Index Name", Text(n.kind.index[1])>>>>)
    \o FlattenSeq([i \in 1 .. Cardinality(n.facts) |-> FactJson(SetToSeq(n.facts)[i])])

convert_json_node_to_plan_node(n) ==
  [PlanNode(parse_json_node_type(n), n.cost, round(n.rows)) EXCEPT
     !.properties = FoldLeft(LAMBDA ps, kv : set(ps, kv[1], kv[2]), <<>>, JsonProperties(n))]

from_json_plan_struct(tree) == [p \in DOMAIN tree |-> convert_json_node_to_plan_node(tree[p])]

-----------------------------------------------------------------------------
(* What is asked of a parsed plan.                                         *)

OrElse(a, b) == IF a # <<>> THEN a ELSE b

extract_table_name(node) ==
  IF node.type.class = "Scan" /\ node.type.type # "BitmapIndexScan" THEN node.type.table
  ELSE IF node.type.class = "Scan" THEN get(node.properties, "Relation Name")
  ELSE OrElse(get(node.properties, "Relation Name"), get(node.properties, "Alias"))

extract_index_name(node) ==
  IF node.type.type \in {"IndexScan", "BitmapIndexScan"} /\ node.type.index # <<>>
  THEN node.type.index ELSE get(node.properties, "Index Name")

total_cost_recursive(tree) == MapThenSumSet(LAMBDA p : tree[p].cost, DOMAIN tree)

max_depth(tree) == 1 + Max({Len(p) : p \in DOMAIN tree})

node_count(tree) == Cardinality(DOMAIN tree)

collect_scans(tree) == find_nodes(tree, LAMBDA p : tree[p].type.class = "Scan")

collect_joins(tree) == find_nodes(tree, LAMBDA p : tree[p].type.class = "Join")

get_tables(tree) ==
  LET reads == find_nodes(tree, LAMBDA p : /\ tree[p].type.class = "Scan"
                                           /\ tree[p].type.type # "BitmapIndexScan")
  IN [i \in 1 .. Len(reads) |-> tree[reads[i]].type.table]

uses_parallel_execution(tree) ==
  \E p \in DOMAIN tree : tree[p].type.type \in {"GatherMerge", "ParallelBitmapHeapScan"}

uses_indexes(tree) ==
  \E p \in DOMAIN tree : tree[p].type.type \in {"IndexScan", "BitmapIndexScan"}

-----------------------------------------------------------------------------
(* The planner's plans (external).                                         *)

Applies(fact, kind) ==
  CASE fact \in {"filter", "removed"} -> kind.table # <<>>
    [] fact = "heap" -> contains(kind.text, <<"heap">>)
    [] fact \in {"sorted", "spilled", "keys"} -> contains(kind.text, <<"sort">>)
    [] fact = "hashed" -> kind.text = <<"hash">>
    [] fact = "workers" -> kind.text[1] = "gather"
    [] fact = "unique" -> contains(kind.json, <<"join">>) \/ contains(kind.json, <<"loop">>)

Planned(kind, label) ==
  [kind |-> kind, label |-> label, facts |-> {}, cost |-> 1, rows |-> 14]

InnerKinds == {Named(<<"hash", "_", "join">>), Named(<<"sort">>),
               On(Scan(<<"bitmap", "_", "heap">>), Scan(<<"bitmap", "_", "heap">>))}

PlanInit == \E kind \in Kinds : plan = root :> Planned(kind, "") /\ steps = 0

(* A child, or an InitPlan or SubPlan printed under a label.  Costs and    *)
(* rows are told apart by the order of the nodes.                          *)
add_child(p, kind, label) ==
  /\ steps < MaxSteps
  /\ LET n == Cardinality(DOMAIN plan) + 1
     IN plan' = plan @@ (child_of(p, child_count(plan, p)) :>
                           [Planned(kind, label) EXCEPT !.cost = n, !.rows = 5 * n])
  /\ steps' = steps + 1

add_fact(p, fact) ==
  /\ steps < MaxSteps
  /\ Applies(fact, plan[p].kind)
  /\ fact \notin plan[p].facts
  /\ ~({"sorted", "spilled"} \subseteq {fact} \cup plan[p].facts)
  /\ plan' = [plan EXCEPT ![p].facts = @ \cup {fact}]
  /\ steps' = steps + 1

PlanNext ==
  \E p \in DOMAIN plan :
    \/ \E kind \in InnerKinds, label \in {"", "SubPlan 1"} : add_child(p, kind, label)
    \/ \E fact \in Facts : add_fact(p, fact)

PlanSpec == PlanInit /\ [][PlanNext]_planVars

-----------------------------------------------------------------------------
DetailIsOwn(p, key, detail) ==
  \E fact \in plan[p].facts : \E i \in 1 .. Len(FactJson(fact)) :
    /\ FactJson(fact)[i][1] = key
    /\ detail = IF key = "Sort Key" THEN {[expression |-> "a", direction |-> <<"DESC">>],
                                          [expression |-> "b", direction |-> <<>>]}
                ELSE FactJson(fact)[i][2].text

(* The text parser finds the tree the server printed, from indentation     *)
(* alone: every node under its parent and in its place, with the cost and  *)
(* the rows of its own line and details from its own properties, whatever  *)
(* labels and properties of others stand between;                          *)
(* it refuses exactly the plans nested deeper than MAX_PLAN_DEPTH.         *)
TextKeepsTheTree ==
  LET read == parse_plan(Explain(plan))
  IN /\ (read = <<>>) <=> Max({Len(p) : p \in DOMAIN plan}) >= MAX_PLAN_DEPTH
     /\ read # <<>> =>
          /\ DOMAIN read[1] = DOMAIN plan
          /\ \A p \in DOMAIN plan :
               /\ read[1][p].cost = plan[p].cost /\ read[1][p].rows = round(plan[p].rows)
               /\ \A key \in DOMAIN read[1][p].details : DetailIsOwn(p, key, read[1][p].details[key])

(* The properties the analyzers read.                                      *)
AnalyzerKeys ==
  {"Filter", "Rows Removed by Filter", "Heap Blocks: exact", "Heap Blocks: lossy", "Batches",
   "Buckets", "Sort Method", "Sort Space Type", "Sort Space Used", "Sort Key", "Workers Planned",
   "Inner Unique"}

OuterJoin(kind) == kind.text # kind.json /\ contains(kind.json, <<"join">>)

(* auto_explain may log text or JSON: the analyzers see the same plan, with*)
(* the same tables, indexes and properties at every node, whichever it is. *)
(* The one exception is the class of a hash or merge outer join, which the *)
(* text parser does not know.                                              *)
FormatsAgree ==
  LET text == parse_plan(Explain(plan))[1]
      json == from_json_plan_struct(plan)
  IN Max({Len(p) : p \in DOMAIN plan}) < MAX_PLAN_DEPTH =>
       /\ node_count(text) = node_count(json) /\ max_depth(text) = max_depth(json)
       /\ total_cost_recursive(text) = total_cost_recursive(json)
       /\ get_tables(text) = get_tables(json)
       /\ collect_scans(text) = collect_scans(json)
       /\ uses_indexes(text) = uses_indexes(json)
       /\ \A p \in DOMAIN plan :
            /\ extract_table_name(text[p]) = extract_table_name(json[p])
            /\ extract_index_name(text[p]) = extract_index_name(json[p])
            /\ OuterJoin(plan[p].kind) \/ text[p].type.class = json[p].type.class
            /\ \A key \in AnalyzerKeys :
                 /\ get(text[p].properties, key) = get(json[p].properties, key)
                 /\ typed_getter(text[p].properties, key) = typed_getter(json[p].properties, key)
=============================================================================
