----------------------------- MODULE LogParser -----------------------------
(***************************************************************************)
(* How a log becomes plans: the read loop of core/src/log_parser.rs        *)
(* (parse_into_sink), the entry state machine of parsing/log_entry_parser  *)
(* .rs, the builders of parsing/plan_builders.rs and the sink's limit      *)
(* (grouping.rs).                                                          *)
(*                                                                         *)
(* A line is what the parser tells apart: its kind, the brackets it opens  *)
(* less those it closes (outside strings), its size.  <<id, n>>, the n-th  *)
(* line of message id, stands for its text.                                *)
(***************************************************************************)
EXTENDS Integers, Sequences, FiniteSets, SequencesExt, Selection

CONSTANTS
  Messages,         \* the forms of message a log may hold
  MaxMessages,      \* bound: messages in the log
  LogDatabases,        \* databases of the messages, by turns
  max_line_bytes, max_entry_bytes,
  Caps              \* limits on the plans a sink accepts; 0: none

ASSUME ParserAssumption ==
  /\ Messages \subseteq {"text", "two_lines", "long_line", "subscript", "array",
                         "json", "query_json", "refused_text", "refused_json",
                         "error", "bad_stamp"}
  /\ MaxMessages \in Nat /\ Caps \subseteq Nat
  /\ max_line_bytes \in Nat /\ max_entry_bytes \in Nat

VARIABLES
  log,              \* the messages written
  file,             \* the lines the parser is given
  pos,              \* lines read
  state,            \* LogParsingState
  builder,          \* its QueryPlanBuilder
  entry_bytes, current_database,
  max_plans, sink,  \* the sink's limit, and the plans accepted, in order
  truncated,
  done,
  discarded         \* messages dropped by the limit on an entry

parserVars == <<log, file, pos, state, builder, entry_bytes, current_database, max_plans, sink,
                truncated, done, discarded>>

-----------------------------------------------------------------------------
(* The log the server writes (external): auto_explain's messages, others   *)
(* between them, in files that may end anywhere.                           *)

Line(k, balance) == [k |-> k, balance |-> balance, size |-> 1, plan |-> FALSE, stamped |-> TRUE]
PlanJson(k, balance) == [Line(k, balance) EXCEPT !.plan = TRUE]

Header == Line("header", 0)
QueryLine == Line("query", 0)
PlanLine == Line("plan", 0)
OfPlan == Line("text", 0)
RefusedLine == Line("refused", 0)  \* of a plan, where TextPlanParser returns an Err
Long == [OfPlan EXCEPT !.size = max_line_bytes + 1]

Shape(message) ==
  CASE message = "text"      -> <<Header, QueryLine, PlanLine, OfPlan>>
    [] message = "two_lines" -> <<Header, QueryLine, OfPlan, Line("blank", 0), PlanLine>>
    [] message = "long_line" -> <<Header, QueryLine, Long, PlanLine>>
    [] message = "subscript" -> <<Header, QueryLine, Line("json", 0), PlanLine>>
    [] message = "array"     -> <<Header, QueryLine, Line("json", 1), Line("text", -1), PlanLine>>
    [] message = "json"      -> <<Header, PlanJson("json", 1), PlanJson("text", 1), PlanJson("text", -2)>>
    [] message = "query_json" -> <<Header, QueryLine, PlanJson("json", 1), PlanJson("text", -1)>>
    [] message = "refused_text" -> <<Header, QueryLine, PlanLine, RefusedLine>>
    [] message = "refused_json" -> <<Header, QueryLine, Line("json", 1), Line("text", -1)>>
    [] message = "error"     -> <<Line("log", 0)>>
    [] message = "bad_stamp" -> <<[Header EXCEPT !.stamped = FALSE], QueryLine, PlanLine>>

DatabaseOf(id) == <<SetToSeq(LogDatabases)[1 + (id % Cardinality(LogDatabases))]>>

LinesOf(message, id) ==
  [n \in 1 .. Len(Shape(message)) |-> [l |-> Shape(message)[n], id |-> id, n |-> n]]

Written(messages) ==
  LET upTo[id \in 0 .. Len(messages)] ==
        IF id = 0 THEN <<>> ELSE upTo[id - 1] \o LinesOf(messages[id], id)
  IN upTo[Len(messages)]

-----------------------------------------------------------------------------
(* Builders.                                                               *)

NoBuilder == [id |-> 0, query |-> <<>>, content |-> <<>>, depth |-> 0]

NewBuilder(id) == [NoBuilder EXCEPT !.id = id]

(* The text of a line: a long one is cut and the rest of it skipped.       *)
TextOf(line) == <<line.id, line.n, line.l.size > max_line_bytes>>

BytesRead(line) == IF line.l.size > max_line_bytes THEN max_line_bytes ELSE line.l.size

Plan(b) == [id |-> b.id, query |-> b.query, content |-> [i \in 1 .. Len(b.content) |-> TextOf(b.content[i])]]

set_query_text(b, line) == [b EXCEPT !.query = <<TextOf(line)>>]
append_query_line(b, line) == [b EXCEPT !.query = Append(@, TextOf(line))]

(* build_query_plan: whether the content is the JSON of a plan; the query  *)
(* is taken from it if there is none yet.  A document that fails the       *)
(* schema is none either: add_line warns and it is read as query text.     *)
IsPlanDocument(b) == b.depth <= 0 /\ \A i \in 1 .. Len(b.content) : b.content[i].l.plan

build_query_plan(b) ==
  IF IsPlanDocument(b)
  THEN <<Plan([b EXCEPT !.query = IF @ = <<>> THEN <<TextOf(b.content[1])>> ELSE @])>> ELSE <<>>

(* The accumulated lines of what was no plan go back to the query.         *)
into_query_builder(b) ==
  [b EXCEPT !.query = @ \o [i \in 1 .. Len(b.content) |-> TextOf(b.content[i])],
            !.content = <<>>, !.depth = 0]

-----------------------------------------------------------------------------
(* The state machine.  An outcome is the next state and builder, and a     *)
(* plan or <<>>.                                                           *)

Outcome(s, b, plan) == [state |-> s, builder |-> b, plan |-> plan]
To(s, b) == Outcome(s, b, <<>>)

(* TextPlanBuilder::finalize returns an error, which finalize_plan drops   *)
(* (.ok()): the plan is nested too deep, or has a line it cannot read.     *)
IsRefused(b) == \E i \in 1 .. Len(b.content) : b.content[i].l.k = "refused"

finalize_plan(s, b) ==
  CASE s = "ParsingTextPlan" -> IF b.content = <<>> \/ IsRefused(b) THEN <<>> ELSE <<Plan(b)>>
    [] s = "ParsingJsonPlan" -> build_query_plan(b)
    [] OTHER -> <<>>

advance_text(b, line) == To("ParsingTextPlan", [b EXCEPT !.content = Append(@, line)])

(* add_line: complete when the brackets balance.                           *)
scan_completion(b, line) == b.depth + line.l.balance <= 0

advance_json_builder(b, line) ==
  LET added == [b EXCEPT !.content = Append(@, line), !.depth = @ + line.l.balance]
  IN IF ~scan_completion(b, line) THEN To("ParsingJsonPlan", added)
     ELSE IF build_query_plan(added) # <<>> THEN Outcome("None", NoBuilder, build_query_plan(added))
     ELSE To("ParsingQuery", into_query_builder(added))

advance_continuation(s, b, line) ==
  CASE s = "WaitingForQuery" /\ line.l.k = "query" -> To("ParsingQuery", set_query_text(b, line))
    [] s = "WaitingForQuery" /\ line.l.k = "json" -> advance_json_builder(b, line)
    [] s = "ParsingQuery" /\ line.l.k = "json" -> advance_json_builder(b, line)
    [] s = "ParsingQuery" /\ line.l.k = "plan" -> advance_text(b, line)
    [] s = "ParsingQuery" /\ line.l.k \notin {"json", "plan"} -> To(s, append_query_line(b, line))
    [] s = "ParsingTextPlan" -> advance_text(b, line)
    [] s = "ParsingJsonPlan" -> advance_json_builder(b, line)
    [] OTHER -> To(s, b)

-----------------------------------------------------------------------------
(* The read loop.                                                          *)

is_full == max_plans > 0 /\ Len(sink) >= max_plans

sink_accept(plan, database) ==
  /\ sink' = IF plan = <<>> \/ is_full THEN sink
             ELSE Append(sink, [plan |-> plan[1], database |-> database])
  /\ truncated' = (truncated \/ (plan # <<>> /\ is_full))

NextLine == file[pos + 1]

(* The line counts towards the limit of the entry being read, which is     *)
(* dropped when it is exceeded.                                            *)
EntryBytes == IF state = "None" THEN 0 ELSE entry_bytes + BytesRead(NextLine)
Exceeded == state # "None" /\ EntryBytes > max_entry_bytes
Limited == IF Exceeded THEN To("None", NoBuilder) ELSE To(state, builder)

Reads ==
  /\ ~done /\ ~is_full /\ pos < Len(file)
  /\ pos' = pos + 1
  /\ entry_bytes' = IF Exceeded THEN 0 ELSE EntryBytes
  /\ discarded' = IF Exceeded THEN discarded \cup {builder.id} ELSE discarded
  /\ UNCHANGED <<log, file, max_plans, done>>

database_of_the_new_entry(old) == DatabaseOf(NextLine.id)

(* mem::replace: the plan that ends has the database of its own header.    *)
finished_database(old) == old

reset_with_builder ==
  /\ Reads
  /\ NextLine.l.k = "header" /\ NextLine.l.stamped
  /\ sink_accept(finalize_plan(Limited.state, Limited.builder), finished_database(current_database))
  /\ current_database' = DatabaseOf(NextLine.id)
  /\ state' = "WaitingForQuery"
  /\ builder' = NewBuilder(NextLine.id)

(* Another message, or one whose time stamp cannot be read.                *)
finish ==
  /\ Reads
  /\ NextLine.l.k = "log" \/ (NextLine.l.k = "header" /\ ~NextLine.l.stamped)
  /\ sink_accept(finalize_plan(Limited.state, Limited.builder), current_database)
  /\ state' = "None"
  /\ builder' = NoBuilder
  /\ UNCHANGED current_database

process_continuation_line ==
  /\ Reads
  /\ NextLine.l.k \notin {"header", "log"}
  /\ LET outcome == IF NextLine.l.k = "blank" THEN Limited
                    ELSE advance_continuation(Limited.state, Limited.builder, NextLine)
     IN /\ state' = outcome.state
        /\ builder' = outcome.builder
        /\ sink_accept(outcome.plan, current_database)
  /\ UNCHANGED current_database

(* The sink is full: input left unread is reported.                        *)
Stop(unread) ==
  /\ LET plan == finalize_plan(state, builder)
     IN /\ sink' = IF plan = <<>> \/ is_full THEN sink
                   ELSE Append(sink, [plan |-> plan[1], database |-> current_database])
        /\ truncated' = (truncated \/ unread \/ (plan # <<>> /\ is_full))
  /\ state' = "None"
  /\ builder' = NoBuilder
  /\ done' = TRUE
  /\ UNCHANGED <<log, file, pos, entry_bytes, current_database, max_plans, discarded>>

stop_silently == ~done /\ is_full /\ Stop(FALSE)

stop_when_full == ~done /\ is_full /\ Stop(pos < Len(file))

end_of_file == ~done /\ ~is_full /\ pos = Len(file) /\ Stop(FALSE)

ParserInit ==
  /\ log \in UNION {[1 .. n -> Messages] : n \in 1 .. MaxMessages}
  /\ \E length \in 0 .. Len(Written(log)) :
       /\ length > Len(Written(log)) - Len(Shape(log[Len(log)]))
       /\ file = SubSeq(Written(log), 1, length)
  /\ pos = 0 /\ state = "None" /\ builder = NoBuilder
  /\ entry_bytes = 0 /\ current_database = <<>>
  /\ max_plans \in Caps /\ sink = <<>> /\ truncated = FALSE /\ done = FALSE /\ discarded = {}

ParserNext ==
  \/ reset_with_builder \/ finish \/ process_continuation_line
  \/ stop_when_full \/ end_of_file

ParserSpec == ParserInit /\ [][ParserNext]_parserVars

-----------------------------------------------------------------------------
Body(id) ==
  Selected(file, {line \in ToSet(file) :
                    line.id = id /\ line.n > 1 /\ line.l.k # "blank"})

TextsOf(lines) == [i \in 1 .. Len(lines) |-> TextOf(lines[i])]

(* The JSON document holds the query; otherwise it is the lines before.    *)
LinesOfPlan(plan) ==
  IF plan.query = SubSeq(plan.content, 1, 1) THEN plan.content ELSE plan.query \o plan.content

OfThePlan(line) == line.l.k = "plan" \/ line.l.plan

(* A plan is made of the lines of one log entry, all of them, with the     *)
(* query before the plan, under the duration and the database of that      *)
(* entry's own header: brackets in a query, an entry that ends where the   *)
(* next begins, or one that was dropped, mix nothing.                      *)
OneEntryEach ==
  \A i \in 1 .. Len(sink) :
    LET plan == sink[i].plan
        body == Body(plan.id)
        first == {n \in 1 .. Len(body) : OfThePlan(body[n])}
    IN /\ LinesOfPlan(plan) = TextsOf(body)
       /\ first # {} /\ plan.content[1] = TextOf(body[CHOOSE n \in first : \A m \in first : n <= m])
       /\ sink[i].database = DatabaseOf(plan.id)

(* The messages of which the file holds a plan that can be read, and that  *)
(* the builder does not refuse.                                            *)
Loggable ==
  {id \in 1 .. Len(log) :
     /\ log[id] \notin {"error", "bad_stamp"}
     /\ IF log[id] \in {"json", "query_json"} THEN Len(Body(id)) = Len(Shape(log[id])) - 1
        ELSE /\ \E n \in 1 .. Len(Body(id)) : OfThePlan(Body(id)[n])
             /\ \A n \in 1 .. Len(Body(id)) : Body(id)[n].l.k # "refused"}

(* At the end of the file every plan in it that the builders accept has    *)
(* been accepted once and in order, or was dropped by the limit on an      *)
(* entry, or the loss is reported (mark_truncated); and no plan is made of *)
(* anything else.  A plan its builder refuses is lost with no report at    *)
(* all if it is a text (finalize_plan's .ok()), with a warning if it is a  *)
(* JSON document (add_line); the next entries are accounted all the same.  *)
EveryPlanIsAccounted ==
  /\ \A i, j \in 1 .. Len(sink) : i < j => sink[i].plan.id < sink[j].plan.id
  /\ {sink[i].plan.id : i \in 1 .. Len(sink)} \subseteq Loggable
  /\ done /\ ~truncated => Loggable = {sink[i].plan.id : i \in 1 .. Len(sink)} \cup (discarded \cap Loggable)
=============================================================================
