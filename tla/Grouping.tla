------------------------------ MODULE Grouping ------------------------------
(***************************************************************************)
(* Query grouping (core/src/grouping.rs): plans are folded one by one into *)
(* the group of their fingerprint and database, and groupers of adjacent   *)
(* ranges are merged.  The batch path (log_parser.rs                       *)
(* get_processed_queries), which holds every plan, is the reference.       *)
(* Finalising a group (sums, percentiles, histogram) is a function of its  *)
(* executions alone, shared by both paths, and is left out.                *)
(***************************************************************************)
EXTENDS Naturals, Sequences, Selection

CONSTANTS
  Texts,         \* raw query texts
  Databases,     \* databases a log line may name
  NoDatabase,    \* plan.database = None
  FingerprintOf, \* normalize_query_enhanced: the fingerprint of each text
  Timestamps, Durations

ASSUME GroupingAssumption ==
  /\ NoDatabase \notin Databases
  /\ DOMAIN FingerprintOf = Texts
  /\ Timestamps \subseteq Nat /\ Durations \subseteq Nat

Plans == [query_text : Texts, database : Databases \cup {NoDatabase},
          timestamp : Timestamps, duration_ms : Durations]

Executions == [timestamp : Timestamps, duration_ms : Durations]

Accumulators ==
  [representative : Plans, executions : Seq(Executions),
   min_timestamp : Timestamps, max_timestamp : Timestamps]

Record(p) == [timestamp |-> p.timestamp, duration_ms |-> p.duration_ms]
Earlier(a, b) == IF b < a THEN b ELSE a
Later(a, b)   == IF b > a THEN b ELSE a

(* The group of a plan: the bare fingerprint, or with its database.        *)
key(p) ==
  LET fingerprint == FingerprintOf[p.query_text]
  IN IF p.database = NoDatabase THEN <<fingerprint>>
     ELSE <<fingerprint, p.database>>

-----------------------------------------------------------------------------
(* GroupAccumulator::new *)
new_group(p) ==
  [representative |-> p, executions |-> <<Record(p)>>,
   min_timestamp |-> p.timestamp, max_timestamp |-> p.timestamp]

slower_first_wins(a, b) ==
  IF b.duration_ms > a.duration_ms THEN b ELSE a

(* The slower of two plans; the later one when they are equally slow.      *)
slower(a, b) == IF b.duration_ms >= a.duration_ms THEN b ELSE a

(* GroupAccumulator::push *)
push_plan(g, p) ==
  [representative |-> slower(g.representative, p),
   executions     |-> Append(g.executions, Record(p)),
   min_timestamp  |-> Earlier(g.min_timestamp, p.timestamp),
   max_timestamp  |-> Later(g.max_timestamp, p.timestamp)]

(* GroupAccumulator::merge: every execution of g came before those of o.   *)
merge_group(g, o) ==
  [representative |-> slower(g.representative, o.representative),
   executions     |-> g.executions \o o.executions,
   min_timestamp  |-> Earlier(g.min_timestamp, o.min_timestamp),
   max_timestamp  |-> Later(g.max_timestamp, o.max_timestamp)]

-----------------------------------------------------------------------------
(* QueryGrouper::new *)
EmptyGroups == [k \in {} |-> {}]
NewGrouper == [groups |-> EmptyGroups, accepted |-> 0]

(* QueryGrouper::fold of a plan the date filter lets through.              *)
fold_accepted(q, p) ==
  LET k == key(p)
      group == IF k \in DOMAIN q.groups THEN push_plan(q.groups[k], p)
                                        ELSE new_group(p)
  IN [groups   |-> [j \in DOMAIN q.groups \cup {k} |->
                      IF j = k THEN group ELSE q.groups[j]],
      accepted |-> q.accepted + 1]

(* QueryGrouper::fold with the window of --since and --until; the callers  *)
(* here set no plan cap.                                                   *)
fold(q, p, window) ==
  IF p.timestamp \in window THEN fold_accepted(q, p) ELSE q

(* The merged groups of two groupers.                                      *)
merge_groups(a, b) ==
  [k \in DOMAIN a \cup DOMAIN b |->
     IF k \notin DOMAIN b THEN a[k]
     ELSE IF k \notin DOMAIN a THEN b[k]
     ELSE merge_group(a[k], b[k])]

(* QueryGrouper::merge *)
merge(q, r) ==
  [groups   |-> merge_groups(q.groups, r.groups),
   accepted |-> q.accepted + r.accepted]

-----------------------------------------------------------------------------
(* The wanted ones of some plans, in their order.                          *)
PlansIn(plans, wanted) == Selected(plans, wanted)

(* process_query_group: the executions of one group in order, the last of  *)
(* its slowest plans, and the first and last timestamps.                   *)
process_query_group(plans, k) ==
  LET group == PlansIn(plans, {p \in Plans : key(p) = k})
      idx == DOMAIN group
      slowest == CHOOSE i \in idx :
                   /\ \A j \in idx : group[j].duration_ms <= group[i].duration_ms
                   /\ \A j \in idx : j > i =>
                        group[j].duration_ms < group[i].duration_ms
  IN [representative |-> group[slowest],
      executions     |-> [i \in idx |-> Record(group[i])],
      min_timestamp  |-> CHOOSE t \in {group[i].timestamp : i \in idx} :
                           \A i \in idx : t <= group[i].timestamp,
      max_timestamp  |-> CHOOSE t \in {group[i].timestamp : i \in idx} :
                           \A i \in idx : t >= group[i].timestamp]

(* get_processed_queries over all the plans at once.                       *)
get_processed_queries(plans) ==
  [k \in {key(plans[i]) : i \in DOMAIN plans} |-> process_query_group(plans, k)]
=============================================================================
