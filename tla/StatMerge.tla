------------------------------ MODULE StatMerge ------------------------------
(***************************************************************************)
(* What persist_rows stores of a query (pg_extension/src/lib.rs): the row  *)
(* a batch of captures is aggregated to (aggregate.rs) and the UPSERTs     *)
(* that fold it into statements, query_histogram and metrics_window.  The  *)
(* worker's batches, cut wherever it drains, and the single captures of    *)
(* synchronous backends meet in the same row.                              *)
(*                                                                         *)
(* One fingerprint of one database; analyses are the capture they are of.  *)
(***************************************************************************)
EXTENDS Integers, Sequences, FiniteSets, FiniteSetsExt

CONSTANTS
  Captures,           \* duration_ms, timestamp, query_id (0: none), plan
  Bounds,             \* LATENCY_BUCKET_BOUNDS_SECONDS, increasing
  slo_threshold_ms,
  MinutesPerHour,
  MaxCaptures,        \* bound: captures in a behaviour
  MaxCutoff           \* bound: the edge of the metrics window

ASSUME StatAssumption ==
  /\ \A c \in Captures : c.duration_ms \in Nat /\ c.timestamp \in Nat
  /\ slo_threshold_ms \in Int /\ MinutesPerHour \in Nat \ {0}
  /\ Bounds \in Seq(Nat)
  /\ \A i, j \in DOMAIN Bounds : i < j => Bounds[i] < Bounds[j]

VARIABLES
  batch,              \* captures the worker has drained
  statements,         \* the row of the query, if any, in a set
  query_histogram, metrics_window,
  cutoff,             \* the oldest minute metrics_window keeps
  stored,             \* captures stored since the last reset (history)
  captures            \* how many there were

statVars == <<batch, statements, query_histogram, metrics_window, cutoff, stored, captures>>

-----------------------------------------------------------------------------
(* The aggregate of a batch.                                               *)

(* The first bound that is no less, or the bucket after the last.          *)
latency_bucket_index(duration) ==
  1 + Cardinality({i \in DOMAIN Bounds : Bounds[i] < duration})

Buckets == 1 .. Len(Bounds) + 1

minute(c) == c.timestamp
hour(c) == c.timestamp \div MinutesPerHour

(* The wanted captures, in the order of the batch.                         *)
CapturesIn(batched, wanted) ==
  LET upTo[n \in 0 .. Len(batched)] ==
        IF n = 0 THEN <<>>
        ELSE IF batched[n] \in wanted THEN Append(upTo[n - 1], batched[n])
        ELSE upTo[n - 1]
  IN upTo[Len(batched)]

(* query_plan_from_capture: one whose plan cannot be parsed is left out.   *)
Usable(batched) == CapturesIn(batched, {c \in Captures : c.plan # "bad"})

Sum(values) ==
  LET upTo[n \in 0 .. Len(values)] ==
        IF n = 0 THEN 0 ELSE upTo[n - 1] + values[n]
  IN upTo[Len(values)]

durations(batched) == [i \in DOMAIN batched |-> batched[i].duration_ms]
Durations(batched) == {batched[i].duration_ms : i \in DOMAIN batched}

BucketsOf(batched) ==
  [b \in Buckets |->
     Len(CapturesIn(batched, {c \in Captures : latency_bucket_index(c.duration_ms) = b}))]

(* The slowest execution, the last of them if several are.                 *)
representative(batched) ==
  CHOOSE i \in DOMAIN batched :
    \A j \in DOMAIN batched :
      \/ batched[j].duration_ms < batched[i].duration_ms
      \/ batched[j].duration_ms = batched[i].duration_ms /\ j <= i

(* qid_by_norm keeps the first id of the batch.                            *)
query_id(batched) ==
  LET known == CapturesIn(batched, {c \in Captures : c.query_id # 0})
  IN IF known = <<>> THEN 0 ELSE known[1].query_id

count_slo_breaches(batched) ==
  IF slo_threshold_ms <= 0 THEN 0
  ELSE Len(CapturesIn(batched, {c \in Captures : c.duration_ms > slo_threshold_ms}))

build_stat_row(batched) ==
  LET times == {batched[i].timestamp : i \in DOMAIN batched}
      slowest == batched[representative(batched)]
  IN [calls |-> Len(batched),
      total_time_ms |-> Sum(durations(batched)),
      sum_sq_time_ms |->
        Sum([i \in DOMAIN batched |-> batched[i].duration_ms * batched[i].duration_ms]),
      slo_breaches |-> count_slo_breaches(batched),
      latency_buckets |-> BucketsOf(batched),
      min_time_ms |-> Min(Durations(batched)), max_time_ms |-> Max(Durations(batched)),
      first_seen |-> Min(times), last_seen |-> Max(times),
      representative_sql |-> slowest,
      plan_analysis |-> IF slowest.plan = "none" THEN {} ELSE {slowest},
      query_id |-> query_id(batched)]

(* The executions of one hour or minute, and their rows.                   *)
OfHour(batched, h) == CapturesIn(batched, {c \in Captures : hour(c) = h})
OfMinute(batched, m) == CapturesIn(batched, {c \in Captures : minute(c) = m})

HistogramRow(batched) ==
  [calls |-> Len(batched), total_time_ms |-> Sum(durations(batched)),
   min_time_ms |-> Min(Durations(batched)), max_time_ms |-> Max(Durations(batched))]
HistogramOf(batched) ==
  [h \in {hour(batched[i]) : i \in DOMAIN batched} |-> HistogramRow(OfHour(batched, h))]

WindowRow(batched) ==
  [calls |-> Len(batched), total_time_ms |-> Sum(durations(batched)),
   latency_buckets |-> BucketsOf(batched)]
WindowOf(batched) ==
  [m \in {minute(batched[i]) : i \in DOMAIN batched} |-> WindowRow(OfMinute(batched, m))]

-----------------------------------------------------------------------------
(* The UPSERTs: old is the row that is there, new is EXCLUDED.             *)

Least(a, b) == IF b < a THEN b ELSE a
Greatest(a, b) == IF b > a THEN b ELSE a
Coalesce(a, b) == IF a # 0 THEN a ELSE b

add_bucket_arrays(a, b) == [i \in DOMAIN a |-> a[i] + b[i]]

refreshes_if_slower(old, new) == new.max_time_ms > old.max_time_ms

(* The representative is replaced by one that is at least as slow.         *)
refreshes(old, new) == new.max_time_ms >= old.max_time_ms

upsert(old, new) ==
  LET newer == refreshes(old, new)
  IN [calls |-> old.calls + new.calls,
      total_time_ms |-> old.total_time_ms + new.total_time_ms,
      sum_sq_time_ms |-> old.sum_sq_time_ms + new.sum_sq_time_ms,
      slo_breaches |-> old.slo_breaches + new.slo_breaches,
      latency_buckets |-> add_bucket_arrays(old.latency_buckets, new.latency_buckets),
      min_time_ms |-> Least(old.min_time_ms, new.min_time_ms),
      max_time_ms |-> Greatest(old.max_time_ms, new.max_time_ms),
      first_seen |-> Least(old.first_seen, new.first_seen),
      last_seen |-> Greatest(old.last_seen, new.last_seen),
      representative_sql |-> IF newer THEN new.representative_sql ELSE old.representative_sql,
      plan_analysis |-> IF newer THEN new.plan_analysis ELSE old.plan_analysis,
      query_id |-> IF newer THEN Coalesce(new.query_id, old.query_id)
                            ELSE Coalesce(old.query_id, new.query_id)]

histogram_upsert(old, new) ==
  [calls |-> old.calls + new.calls, total_time_ms |-> old.total_time_ms + new.total_time_ms,
   min_time_ms |-> Least(old.min_time_ms, new.min_time_ms),
   max_time_ms |-> Greatest(old.max_time_ms, new.max_time_ms)]

window_upsert(old, new) ==
  [calls |-> old.calls + new.calls, total_time_ms |-> old.total_time_ms + new.total_time_ms,
   latency_buckets |-> add_bucket_arrays(old.latency_buckets, new.latency_buckets)]

(* ON CONFLICT: a key that is there is updated, another is inserted.       *)
OnConflict(table, rows, update(_, _)) ==
  [k \in DOMAIN table \cup DOMAIN rows |->
     IF k \notin DOMAIN rows THEN table[k]
     ELSE IF k \notin DOMAIN table THEN rows[k] ELSE update(table[k], rows[k])]

Kept(table) == [m \in {k \in DOMAIN table : k >= cutoff} |-> table[m]]

-----------------------------------------------------------------------------
persist(batched) ==
  LET rows == Usable(batched)
      new == build_stat_row(rows)
  IN IF rows = <<>> THEN UNCHANGED <<statements, query_histogram, metrics_window, stored>>
     ELSE /\ statements' = IF statements = {} THEN {new} ELSE {upsert(old, new) : old \in statements}
          /\ query_histogram' = OnConflict(query_histogram, HistogramOf(rows), histogram_upsert)
          /\ metrics_window' = Kept(OnConflict(metrics_window, Kept(WindowOf(rows)), window_upsert))
          /\ stored' = stored \o rows

(* A capture drained from the ring...                                      *)
drain(c) ==
  /\ captures < MaxCaptures
  /\ batch' = Append(batch, c) /\ captures' = captures + 1
  /\ UNCHANGED <<statements, query_histogram, metrics_window, cutoff, stored>>

(* ... and stored with the others of its batch.                            *)
aggregate_captures ==
  /\ batch # <<>>
  /\ persist(batch) /\ batch' = <<>>
  /\ UNCHANGED <<cutoff, captures>>

(* A synchronous backend stores its capture itself.                        *)
persist_one(c) ==
  /\ captures < MaxCaptures
  /\ persist(<<c>>) /\ captures' = captures + 1
  /\ UNCHANGED <<batch, cutoff>>

plansight_reset ==
  /\ statements # {}
  /\ statements' = {} /\ query_histogram' = <<>> /\ metrics_window' = <<>>
  /\ stored' = <<>>
  /\ UNCHANGED <<batch, cutoff, captures>>

minute_passes ==
  /\ cutoff < MaxCutoff
  /\ cutoff' = cutoff + 1
  /\ UNCHANGED <<batch, statements, query_histogram, metrics_window, stored, captures>>

StatInit ==
  /\ batch = <<>> /\ statements = {}
  /\ query_histogram = <<>> /\ metrics_window = <<>>
  /\ cutoff = 0 /\ stored = <<>> /\ captures = 0

StatNext ==
  \/ \E c \in Captures : drain(c) \/ persist_one(c)
  \/ aggregate_captures
  \/ plansight_reset
  \/ minute_passes

StatSpec == StatInit /\ [][StatNext]_statVars

-----------------------------------------------------------------------------
WithoutId(row) == [row EXCEPT !.query_id = 0]

(* How captures are cut into batches, and who stores them, cannot be seen: *)
(* the tables hold what one batch of all captures since the reset would    *)
(* have stored, the representative and its analysis included, save for the *)
(* choice among several query ids, of which none is lost; the buckets are  *)
(* the counts of the executions within each bound.                         *)
BatchingIsInvisible ==
  /\ statements = {} <=> stored = <<>>
  /\ query_histogram = HistogramOf(stored)
  /\ \A m \in DOMAIN WindowOf(stored) :
       m >= cutoff => m \in DOMAIN metrics_window /\ metrics_window[m] = WindowOf(stored)[m]
  /\ \A row \in statements :
       /\ WithoutId(row) = WithoutId(build_stat_row(stored))
       /\ (row.query_id = 0) = (query_id(stored) = 0)
       /\ \A b \in DOMAIN Bounds :
            Sum([i \in 1 .. b |-> row.latency_buckets[i]])
              = Len(CapturesIn(stored, {c \in Captures : c.duration_ms <= Bounds[b]}))
=============================================================================
