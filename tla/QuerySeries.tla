---------------------------- MODULE QuerySeries ----------------------------
(***************************************************************************)
(* The metrics of a query: what the exporter records for one               *)
(* (update_query_metrics of exporter/src/collector.rs), the backends it    *)
(* records them in (metrics/composite_backend.rs, prometheus_backend.rs,   *)
(* otel_backend.rs) and the limit on the hashes Prometheus exposes         *)
(* (QueryCardinalityLimiter).  A scrape (metrics_handler of server.rs) may *)
(* come between any two steps, and is itself many: registry.gather() reads *)
(* the metrics one after the other.                                        *)
(*                                                                         *)
(* A series is its metric and labels; its value is left out.               *)
(***************************************************************************)
EXTENDS Integers, Sequences, FiniteSets, SequencesExt

CONSTANTS
  Hashes, Databases,
  Cardinalities,      \* values of max_query_cardinality; 0: no limit
  MaxEmissions,       \* bound: queries recorded
  Families            \* the metrics whose samples are followed in a scrape

(* "none" is no hash: it stands for the label that a series does not have. *)
ASSUME SeriesAssumption ==
  /\ Cardinalities \subseteq Nat /\ MaxEmissions \in Nat
  /\ "none" \notin Hashes
  /\ Families # {}

VARIABLES
  max_query_cardinality,
  tick, entries, order, \* the limiter
  series,             \* the series in the vectors of the Prometheus registry
  otel,               \* what OpenTelemetry was given
  emission,           \* the query being recorded and how far; NoEmission
  removing,           \* series of the evicted hash still to be removed
  emissions,
  unread,             \* metrics a scrape has still to read; {}: none runs
  answer,             \* what the scrape has read: metrics and hashes
  replaced            \* history: hashes evicted since it began

limiterVars == <<tick, entries, order>>
scrapeVars == <<unread, answer, replaced>>
seriesVars == <<max_query_cardinality, tick, entries, order, series, otel, emission, removing,
                emissions, unread, answer, replaced>>

NoEmission == [hash |-> "none", database |-> "none", step |-> 0, phase |-> "idle"]

-----------------------------------------------------------------------------
(* update_query_metrics: the order of the calls, one execution, one slow   *)
(* threshold, one scan and one join.                                       *)
Emissions ==
  <<"query_first_seen_seconds", "query_last_seen_seconds", "query_duration", "query_executions",
    "slow_queries", "query_plan_cost", "scan_types", "join_types", "query_latency_cv",
    "query_total_time_share_pct", "query_latency_p95_ms", "query_latency_p99_ms">>

(* PrometheusBackend::new: the metrics with the label normalized_query_hash.*)
PerQuery ==
  {"query_duration", "query_executions", "query_plan_cost", "query_rows_examined",
   "query_latency_cv", "query_total_time_share_pct", "query_latency_p95_ms",
   "query_latency_p99_ms", "query_first_seen_seconds", "query_last_seen_seconds"}

Series(metric, hash, database) ==
  [metric |-> metric, hash |-> IF metric \in PerQuery THEN hash ELSE "none", database |-> database]

Recorded == Emissions[emission.step]

Status(metric, database) == IF metric = "query_executions" THEN {database} ELSE {}

-----------------------------------------------------------------------------
(* The limiter.                                                            *)

lru(ticks) == CHOOSE t \in ticks : \A u \in ticks : t <= u

NoHash == {}

(* Whom touch evicts: the hash touched longest ago, if all places are      *)
(* taken.                                                                  *)
evict_lru(hash) ==
  IF hash \notin DOMAIN entries /\ Cardinality(DOMAIN entries) >= max_query_cardinality
  THEN {order[lru(DOMAIN order)]} ELSE NoHash

Entry(old, database, status) ==
  [tick |-> tick + 1, databases |-> old.databases \cup {database},
   executions |-> old.executions \cup status]

NewEntry == [databases |-> {}, executions |-> {}]

status_of_a_new_hash_only(hash, database, status) ==
  IF hash \in DOMAIN entries THEN Entry(entries[hash], database, {})
  ELSE Entry(NewEntry, database, status)

(* The labels a hash has series for: those it had and these.               *)
touched_entry(hash, database, status) ==
  Entry(IF hash \in DOMAIN entries THEN entries[hash] ELSE NewEntry, database, status)

touch(hash, database, status) ==
  LET kept == DOMAIN entries \ evict_lru(hash)
      ticks == {t \in DOMAIN order : order[t] \in kept \ {hash}}
  IN /\ tick' = tick + 1
     /\ entries' = [h \in kept \cup {hash} |->
                      IF h = hash THEN touched_entry(hash, database, status) ELSE entries[h]]
     /\ order' = [t \in ticks \cup {tick + 1} |-> IF t = tick + 1 THEN hash ELSE order[t]]

(* remove_query_series: nine series for each database, then the counters   *)
(* of executions.                                                          *)
Removed ==
  <<"query_duration", "query_plan_cost", "query_rows_examined", "query_latency_cv",
    "query_total_time_share_pct", "query_latency_p95_ms", "query_latency_p99_ms",
    "query_first_seen_seconds", "query_last_seen_seconds">>

remove_query_series(hash) ==
  LET databases == SetToSeq(entries[hash].databases)
      executions == SetToSeq(entries[hash].executions)
      n == Len(Removed)
  IN [i \in 1 .. n * Len(databases) |->
        Series(Removed[((i - 1) % n) + 1], hash, databases[((i - 1) \div n) + 1])]
       \o [i \in 1 .. Len(executions) |-> Series("query_executions", hash, executions[i])]

-----------------------------------------------------------------------------
update_query_metrics(hash, database) ==
  /\ emission = NoEmission
  /\ emissions < MaxEmissions
  /\ emission' = [hash |-> hash, database |-> database, step |-> 1, phase |-> "note"]
  /\ emissions' = emissions + 1
  /\ UNCHANGED <<max_query_cardinality, limiterVars, series, otel, removing, scrapeVars>>

(* Under the limiter's lock, which is released before the series of the    *)
(* hash it evicts are removed.                                             *)
note_query ==
  /\ emission.phase = "note"
  /\ emission' = [emission EXCEPT !.phase = "observe"]
  /\ IF Recorded \in PerQuery /\ max_query_cardinality > 0
     THEN /\ touch(emission.hash, emission.database, Status(Recorded, emission.database))
          /\ removing' = IF evict_lru(emission.hash) = NoHash THEN <<>>
                         ELSE remove_query_series(order[lru(DOMAIN order)])
          /\ replaced' = IF unread = {} THEN replaced
                         ELSE replaced \cup evict_lru(emission.hash)
     ELSE UNCHANGED <<limiterVars, removing, replaced>>
  /\ UNCHANGED <<max_query_cardinality, series, otel, emissions, unread, answer>>

remove_label_values ==
  /\ removing # <<>>
  /\ series' = series \ {Head(removing)}
  /\ removing' = Tail(removing)
  /\ UNCHANGED <<max_query_cardinality, limiterVars, otel, emission, emissions, scrapeVars>>

(* with_label_values creates the series it is asked for.                   *)
with_label_values ==
  /\ emission.phase = "observe" /\ removing = <<>>
  /\ series' = series \cup {Series(Recorded, emission.hash, emission.database)}
  /\ emission' = [emission EXCEPT !.phase = "forward"]
  /\ UNCHANGED <<max_query_cardinality, limiterVars, otel, removing, emissions, scrapeVars>>

(* OpenTelemetryBackend keeps every attribute set it is given.             *)
otel_record(s) == otel' = otel \cup {s}

(* CompositeBackend: then the next backend is called.                      *)
forward ==
  /\ emission.phase = "forward"
  /\ otel_record(Series(Recorded, emission.hash, emission.database))
  /\ emission' = IF emission.step = Len(Emissions) THEN NoEmission
                 ELSE [emission EXCEPT !.step = @ + 1, !.phase = "note"]
  /\ UNCHANGED <<max_query_cardinality, limiterVars, series, removing, emissions, scrapeVars>>

(* What it reads of a metric, but for the databases: the hashes it shows.  *)
Shown(metric) ==
  {[metric |-> metric, hash |-> s.hash] : s \in {x \in series : x.metric = metric}}

(* metrics_handler: registry.gather() reads the metrics in the order of a  *)
(* HashMap, each under the lock of its own vector only.  Here the first.   *)
gather(metric) ==
  /\ unread = {} /\ answer = {}
  /\ unread' = Families \ {metric}
  /\ answer' = Shown(metric)
  /\ replaced' = {removing[i].hash : i \in DOMAIN removing}
  /\ UNCHANGED <<max_query_cardinality, limiterVars, series, otel, emission, removing, emissions>>

collect(metric) ==
  /\ metric \in unread
  /\ unread' = unread \ {metric}
  /\ answer' = answer \cup Shown(metric)
  /\ UNCHANGED <<max_query_cardinality, limiterVars, series, otel, emission, removing,
                 emissions, replaced>>

(* The answer is encoded and sent.                                         *)
respond ==
  /\ unread = {} /\ answer # {}
  /\ answer' = {} /\ replaced' = {}
  /\ UNCHANGED <<max_query_cardinality, limiterVars, series, otel, emission, removing,
                 emissions, unread>>

SeriesInit ==
  /\ max_query_cardinality \in Cardinalities
  /\ tick = 0 /\ entries = <<>> /\ order = <<>>
  /\ series = {} /\ otel = {}
  /\ emission = NoEmission /\ removing = <<>> /\ emissions = 0
  /\ unread = {} /\ answer = {} /\ replaced = {}

SeriesNext ==
  \/ \E hash \in Hashes, database \in Databases : update_query_metrics(hash, database)
  \/ note_query
  \/ remove_label_values
  \/ with_label_values
  \/ forward
  \/ \E metric \in Families : gather(metric) \/ collect(metric)
  \/ respond

SeriesSpec == SeriesInit /\ [][SeriesNext]_seriesVars

-----------------------------------------------------------------------------
HashesOf(s) == {x.hash : x \in s} \ {"none"}

HashesOfMetric(s, metric) == {x.hash : x \in {y \in s : y.metric = metric}} \ {"none"}

(* At no moment, also between the eviction of a hash and the removal of    *)
(* its last series, do the vectors hold series of more than                *)
(* max_query_cardinality hashes.                                           *)
SeriesAreBounded == Cardinality(HashesOf(series)) <= max_query_cardinality

(* An answer may mix moments, so it can show more hashes than the limit,   *)
(* but no metric of it does, and what it shows too much are hashes that    *)
(* were being replaced while it was gathered.                              *)
ScrapeIsBounded ==
  /\ \A metric \in Families :
       Cardinality(HashesOfMetric(answer, metric)) <= max_query_cardinality
  /\ Cardinality(HashesOf(answer) \ replaced) <= max_query_cardinality

(* Eviction is all or nothing: the limit holds in the registry all the     *)
(* time and in a scrape's answer but for the hashes replaced meanwhile,    *)
(* and, once a query is recorded, the series of a hash are those ever      *)
(* recorded for it, in every database, if the limiter tracks it, and none  *)
(* if it was evicted: no series outlives its entry.                        *)
EvictionIsWhole ==
  /\ max_query_cardinality > 0 => SeriesAreBounded /\ ScrapeIsBounded
  /\ emission = NoEmission /\ max_query_cardinality > 0 =>
       /\ HashesOf(series) = DOMAIN entries
       /\ \A s \in otel : s.hash \in DOMAIN entries /\ s.database \in entries[s.hash].databases
                            => s \in series
       /\ series \subseteq otel
=============================================================================
