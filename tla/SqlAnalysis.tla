----------------------------- MODULE SqlAnalysis -----------------------------
(***************************************************************************)
(* The statements of a log and what the SQL analysis says of them.  A log  *)
(* holds variants of a statement: the same text with other literals, or    *)
(* with longer lists of them, or a text grown by a predicate, a join, a    *)
(* CTE, a set operation, a grouping.                                       *)
(* Each step is the analysis of one more variant; the properties relate    *)
(* what is said of a statement and of its variant.                         *)
(***************************************************************************)
EXTENDS SqlText

CONSTANT MaxEdits  \* bound: variants of the first statement

VARIABLES sql, edits, normalized, breakdown, patterns, metadata

sqlVars == <<sql, edits, normalized, breakdown, patterns, metadata>>

-----------------------------------------------------------------------------
(* Texts.                                                                  *)
Column(table, column) == Leaf("Column", [table |-> table, column |-> column])
Literal(n) == Leaf("Literal", n)
Table(table, alias) == Leaf("Table", [table |-> table, alias |-> alias])
Clause(k, c) == Node(k, "", c)
LimitOffset(limit, offset) == Clause("Limit", <<Clause("Rows", limit), Clause("Rows", offset)>>)
NoLimit == LimitOffset(<<>>, <<>>)

Select(from, projection, where) ==
  Clause("Select", <<Clause("From", from), Clause("Projection", projection),
                     Clause("Where", where), Clause("GroupBy", <<>>), Clause("Having", <<>>)>>)
QueryOf(body) == Clause("Query", <<Clause("With", <<>>), body, Clause("OrderBy", <<>>), NoLimit>>)
From(relation) == Clause("FromItem", <<relation>>)
Compare(l, r) == Clause("Compare", <<l, r>>)

Plain == QueryOf(Select(<<From(Table("users", "u"))>>, <<Column("", "name")>>, <<>>))
Insert == Clause("Insert", <<Literal(1), Literal(2)>>)

(* Subqueries over orders: of an alias of its own, of u again (it hides    *)
(* the outer one), referring to the outer u or not.                        *)
Inner(alias, table) ==
  QueryOf(Select(<<From(Table("orders", alias))>>, <<Column(alias, "user_id")>>,
                 <<Compare(Column(table, "id"), Literal(7))>>))
Inners == {Inner("o", "o"), Inner("o", "u"), Inner("u", "u")}
Scalar(q) == Clause("Subquery", <<q>>)

Predicates ==
  {Compare(Column("", "id"), Literal(5)),
   Compare(Node("Function", "lower", <<Column("u", "name")>>), Literal(5)),
   Node("InList", FALSE, <<Column("u", "id"), Literal(1)>>),
   Node("InList", FALSE, <<Column("u", "id"), Literal(1), Literal(2)>>),
   Node("InList", TRUE, <<Column("u", "id"), Literal(1), Column("u", "ref")>>),
   Node("Like", "leading", <<Column("", "name"), Literal(3)>>),
   Clause("Case", <<Compare(Column("", "id"), Literal(1)), Literal(2)>>)}
  \cup {Clause("Exists", <<q>>) : q \in Inners}
  \cup {Node("InSubquery", TRUE, <<Column("u", "id"), q>>) : q \in Inners}
  \cup {Compare(Column("u", "id"), Scalar(q)) : q \in Inners \cup {Inner("o", "")}}
  \cup {Compare(Column("", "id"), Scalar(Inner("o", "o")))}

(* The select an edit applies to: the first one of the statement.          *)
RECURSIVE FirstSelect(_)
FirstSelect(n) ==
  CASE n.k = "Query" -> FirstSelect(n.c[2]) [] n.k = "SetOperation" -> FirstSelect(n.c[1])
    [] OTHER -> n

RECURSIVE WithSelect(_, _)
WithSelect(n, s) ==
  CASE n.k = "Query" -> [n EXCEPT !.c[2] = WithSelect(@, s)]
    [] n.k = "SetOperation" -> [n EXCEPT !.c[1] = WithSelect(@, s)]
    [] OTHER -> s

AndWhere(s, p) ==
  [s EXCEPT !.c[3].c = IF @ = <<>> THEN <<p>> ELSE <<Clause("And", <<@[1], p>>)>>]
GroupedBy(s) ==
  [s EXCEPT !.c[4].c = Append(@, Column("u", "name")),
            !.c[2].c = Append(@, Node("Function", "count", <<Column("u", "id")>>)),
            !.c[5].c = <<Compare(Node("Function", "count", <<Column("u", "id")>>), Literal(2))>>]
JoinedWith(s, op) ==
  [s EXCEPT !.c[1].c[1].c =
     Append(@, Node("Join", op, <<Table("teams", "t"),
                                  Clause("On", IF op = "Cross" THEN <<>>
                                               ELSE <<Compare(Column("t", "id"), Column("u", "team"))>>)>>))]

(* One clause more.                                                        *)
Grown(n) ==
  LET s == FirstSelect(n)
  IN {WithSelect(n, t) : t \in {AndWhere(s, p) : p \in Predicates}
                               \cup {GroupedBy(s)} \cup {JoinedWith(s, op) : op \in {"Join", "Left", "Cross"}}
                               \cup {[s EXCEPT !.c[2].c = Append(@, Leaf("Wildcard", ""))]}
                               \cup {[s EXCEPT !.c[1].c = Append(@, From(Node("Derived", "d", <<Inner("o", "u")>>)))]}}
     \cup {[n EXCEPT !.c[1].c = Append(@, Inner("o", "o"))],
           [n EXCEPT !.c[3].c = Append(@, Column("", "name"))],
           [n EXCEPT !.c[4] = LimitOffset(<<Literal(10)>>, <<Literal(large_offset_threshold)>>)],
           [n EXCEPT !.c[2] = Node("SetOperation", "Union", <<@, Inner("o", "o").c[2]>>)],
           [n EXCEPT !.c[2] = Node("SetOperation", "UnionAll", <<@, n>>)]}

(* Other literals.                                                         *)
RECURSIVE Reworded(_)
Reworded(n) ==
  IF n.k = "Literal" THEN Literal(n.v + 10) ELSE [n EXCEPT !.c = MapSeq(Reworded, @)]

(* One literal more in every list of literals.                             *)
RECURSIVE Lengthened(_)
Lengthened(n) ==
  [n EXCEPT !.c = LET c == MapSeq(Lengthened, @)
                  IN IF IsListOfLiterals(n) THEN Append(c, Literal(99)) ELSE c]

-----------------------------------------------------------------------------
(* The four analyses of a statement.  Complexity and metadata of one that  *)
(* does not parse are errors; the empty results stand for them.            *)
Analysed(statement) ==
  /\ sql' = statement
  /\ normalized' = normalize(statement)
  /\ breakdown' = analyze_statement(statement)
  /\ patterns' = AntiPatterns(statement)
  /\ metadata' = extract_from_statement(statement)

grown ==
  /\ sql.k = "Query" /\ edits < MaxEdits
  /\ edits' = edits + 1
  /\ \E statement \in Grown(sql) : Analysed(statement)

reworded ==
  /\ edits < MaxEdits
  /\ edits' = edits + 1
  /\ Analysed(Reworded(sql))

lengthened ==
  /\ edits < MaxEdits
  /\ edits' = edits + 1
  /\ Analysed(Lengthened(sql))

SqlInit ==
  /\ sql \in {Plain, Insert, Leaf("Unparsable", 1)}
  /\ edits = 0
  /\ normalized = normalize(sql)
  /\ breakdown = analyze_statement(sql)
  /\ patterns = AntiPatterns(sql)
  /\ metadata = extract_from_statement(sql)

SqlNext == grown \/ reworded \/ lengthened
SqlSpec == SqlInit /\ [][SqlNext]_sqlVars
-----------------------------------------------------------------------------
Parsable == sql.k # "Unparsable"

(* A fingerprint but for the numbers of its placeholders.                  *)
RECURSIVE Unnumbered(_)
Unnumbered(n) ==
  IF n.k = "Placeholder" THEN Leaf("Placeholder", "") ELSE [n EXCEPT !.c = MapSeq(Unnumbered, @)]

HasListOfOne == \E n \in NodesOf(sql) : IsListOfLiterals(n) /\ Len(n.c) = 2

(* "same shape should share a fingerprint" (normalization.rs:488): other   *)
(* literals, in whatever clause, do not change the fingerprint of a        *)
(* statement, nor does another length of its lists of two or more; a list  *)
(* of one that grows may only renumber the placeholders (collapse_in_lists *)
(* numbers the others first, and leaves it to the second pass).  That is   *)
(* unless the statement has more literals than max_parameters; and a       *)
(* literal is left in a fingerprint if and only if it has.                 *)
SameShapeSameFingerprint ==
  [][LET old == normalized.fingerprint
         new == normalized'.fingerprint
     IN /\ ~normalized.truncated /\ ~normalized'.truncated =>
             /\ reworded => new = old
             /\ lengthened => IF HasListOfOne THEN Unnumbered(new) = Unnumbered(old) ELSE new = old
        /\ Parsable' => (normalized'.truncated <=> \E n \in NodesOf(new) : n.k = "Literal")]_sqlVars

(* A longer statement is not reported as simpler: no count of its tables,  *)
(* joins, subqueries, functions and conditions falls, nor the nesting; and *)
(* no score but that of the aggregation, whose group_by_columns is         *)
(* assigned by every SELECT of the statement.                              *)
ComplexityGrows ==
  [][grown =>
       LET Scores(b) == calculate_component_scores(b)
           counts == DOMAIN breakdown \ {"unique_functions", "having_clause", "group_by"}
       IN /\ \A f \in counts : breakdown[f] <= breakdown'[f]
          /\ breakdown.unique_functions \subseteq breakdown'.unique_functions
          /\ breakdown.having_clause => breakdown'.having_clause
          /\ \A f \in DOMAIN Scores(breakdown) \ {"aggregation"} :
               Scores(breakdown)[f] <= Scores(breakdown')[f]]_sqlVars

(* A correlated subquery is reported only where a column is qualified by   *)
(* an alias of an enclosing query that its own query does not define.      *)
RECURSIVE FreeIn(_, _, _)
FreeIn(n, scope, outer) ==
  \/ n.k = "Column" /\ n.v.table \notin scope /\ n.v.table \in outer
  \/ IF n.k = "Select"
     THEN \E i \in 1 .. Len(n.c) : FreeIn(n.c[i], ScopeOf(n), outer \cup scope)
     ELSE \E i \in 1 .. Len(n.c) : FreeIn(n.c[i], scope, outer)
CorrelatedIsFree == "CorrelatedSubquery" \in patterns => FreeIn(sql, {}, {})

(* The filters of a query, each with the name of the table it is of: its   *)
(* qualifier, or the first table that the FROM of its own query lists, and *)
(* in the order they are written.  The extractor looks at comparisons and  *)
(* at scalar subqueries (which stand in the WHERE of these statements).    *)
OwnTable(select) ==
  LET relations == FlattenSeq(MapSeq(Relations, select.c[1].c))
      tables == SelectSeq(relations, LAMBDA r : r.k = "Table")
  IN IF tables = <<>> THEN "" ELSE CHOOSE name \in collect_alias(tables[1]) : TRUE

RECURSIVE FiltersOf(_, _)
FiltersOf(n, own) ==
  LET OfParts(parts, table) == FlattenSeq(MapSeq(LAMBDA p : FiltersOf(p, table), parts))
  IN CASE n.k = "Column" ->
            <<[table |-> IF n.v.table # "" THEN n.v.table ELSE own, column |-> n.v.column]>>
       [] n.k \in {"And", "Compare", "UnaryOp"} -> OfParts(n.c, own)
       [] n.k = "Subquery" -> FiltersOf(n.c[1].c[2], "")
       [] n.k = "Query" -> FiltersOf(n.c[2], own)
       [] n.k = "SetOperation" -> OfParts(n.c, own)
       [] n.k = "Select" -> OfParts(n.c[3].c \o n.c[5].c, OwnTable(n))
       [] OTHER -> <<>>

(* Two places where the extractor gives an unqualified column to a table   *)
(* of another query, for the columns found are one list: a scalar subquery *)
(* takes those that its enclosing query, or the left side of its set       *)
(* operation, names before it; and the left side of a set operation those  *)
(* of the right side.                                                      *)
RECURSIVE Marks(_)
Marks(n) ==
  CASE n.k = "Column" -> IfThen(n.v.table = "", <<"unqualified">>)
    [] n.k \in {"And", "Compare", "UnaryOp", "SetOperation"} -> FlattenSeq(MapSeq(Marks, n.c))
    [] n.k = "Subquery" -> <<"subquery">>
    [] n.k = "Query" -> Marks(n.c[2])
    [] n.k = "Select" -> FlattenSeq(MapSeq(Marks, n.c[3].c \o n.c[5].c))
    [] OTHER -> <<>>

NodesOfKind(n, k) == {m \in NodesOf(n) : m.k = k}
TakenByAnother ==
  \/ \E q \in NodesOfKind(sql, "Query") : \E i, j \in DOMAIN Marks(q) :
       i < j /\ Marks(q)[i] = "unqualified" /\ Marks(q)[j] = "subquery"
  \/ \E n \in NodesOfKind(sql, "SetOperation") : \E s \in NodesOfKind(n.c[2], "Select") :
       "unqualified" \in ToSet(Marks(s))

(* An index is hinted for the columns that are filtered, all of them, and  *)
(* each for a table of the query its filter stands in, but where another   *)
(* query takes its columns.                                                *)
HintsAreOfItsTables ==
  LET filters == FiltersOf(sql, "")
      Of(t) == SelectSeq(filters, LAMBDA f : f.table = t)
  IN ~TakenByAnother =>
       metadata.index_hints = {[table |-> t, columns |-> MapSeq(LAMBDA f : f.column, Of(t))] :
                                 t \in {filters[i].table : i \in 1 .. Len(filters)}}

(* What the analysis says of a name agrees with the query it stands in: a  *)
(* correlated subquery is one with a name of an enclosing query, and the   *)
(* hints are those of the filters, each of its own query's table; of the   *)
(* hints of a statement with TakenByAnother it says nothing.               *)
NamesAreScoped == CorrelatedIsFree /\ HintsAreOfItsTables
=============================================================================
