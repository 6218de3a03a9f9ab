# pg-plansight in TLA+

TLA+ models of pg-plansight, the configurations that model-check them with TLC,
and machine-checked proofs (TLAPS) about the extension (capture ring, executor
hooks, log tail, tables and their locks), the exporter (collector, daemon, metrics,
PostgreSQL source), the log parser, its scanners and the parallel grouping, and the
results screen. Paths below are relative to `src/crates/`. `PROJECT.json` lists every component, run, mutant, finding, hazard
and theorem, and maps each definition to the lines it stands for.

    tlc -workers 2 -config CaptureRing.cfg MC_CaptureRing     # a run
    tlapm CaptureRingProofs.tla                               # the proofs

## 1. The system

pg-plansight collects execution plans of PostgreSQL queries along two paths.

* The **extension** (`pg_extension`) captures executions inside the server. Each
  backend's executor hooks sample queries and push finished ones into a ring in
  shared memory; one background worker drains the ring, aggregates, and folds
  the result into SQL tables. In log mode the same worker tails the server log.
* The **exporter** (`exporter`) is a daemon beside the server. A scheduler polls
  log files, a parser and grouper from **core** turn new ranges into query
  statistics, which go into monotonic metrics; SQLite keeps a checkpoint per
  file. A second source polls the extension's views. The **tui** reads files
  interactively through the same core and shows what the analyses of core say of
  each query: its text, its plan, and the series of its executions.

### 1.1 Inventory

| component | state | operations | interacts through | hard behaviour | what makes it correct |
|---|---|---|---|---|---|
| ring (`pg_extension/src/ring.rs`) | slots, lifetime counters, overhead sums | push, drain, record/reset overhead, stats | one LWLock | many pushers and a drainer, full ring, foreign databases | bounded FIFO; counters exact; a database's text never leaves it |
| executor hooks (`hook.rs`, `nesting.c`) | sample map by QueryDesc address, CAPTURING, nesting level, seen queryIds | ExecutorStart/Run/Finish/End, transaction callback | ring, persist_rows, other extensions' hooks | errors unwinding the stack, cursors in any order, reused addresses, settings flipped mid-query | an entry serves its own query; the level is the depth; nothing outlives the transaction |
| worker: hook drain (`bgworker.rs`) | batch in hand, connection, LAST_DROPPED | drain, aggregate, persist | ring, tables | death between drain and commit, restart, re-pointing | at most once; only the own database |
| worker: log tail (`bgworker.rs`) | stored byte offset | one flush cycle | log file, tables | half-written entries, rotation, abort | offset and statistics agree; whole entries |
| persistence (`lib.rs`, `aggregate.rs`) | statements, histogram, window tables | persist_rows, ingest, reset | row locks | concurrent writers, retention edge, batches cut anywhere | every writer commits; purge keeps the window; UPSERT merges like a batch |
| collector (`exporter/src/collector.rs`) | per-file runtime, checkpoint in SQLite | poll, process-rest, retention, reload | log files, state store, metrics | rotation between stat and read, failures between emission and checkpoint, budget windows | no silent skip, no unexplained double count, progress |
| state store (`state.rs`) | processed_files, query_hashes | get/update/delete, batch record, migrate, reset | one connection behind a mutex | failed or partial writes | checkpoint is what was parsed |
| scheduler, reload, health (`main.rs`, `scheduler.rs`, `config_watcher.rs`, `server.rs`) | timers, watch channel, last success, staleness limit | tick, SIGHUP, reload, probe, shutdown | collector | a reload while a pass runs, a task that dies, limits fixed at start | every accepted config is applied; a daemon that collects stays ready |
| metrics (`metrics/`) | label sets, LRU of query hashes | record, evict, scrape | collector, scrapers | eviction between the series of one query | an evicted query leaves no series, a tracked one all |
| PostgreSQL source (`postgres_source.rs`) | connection, last snapshot | poll, scrape | remote server | commits between two queries, a server that hangs at any await | a scrape is of one moment, and recent |
| log parser (`core/log_parser.rs`, `parsing/`) | entry under construction, limits | feed line, finish, stop | collector, aggregate, tui | entries back to back, brackets in queries, limits on line, entry and plans | a plan is of one entry, with its own header; losses are reported |
| byte scanners (`core/simd_scan.rs`) | none | scan a line | log parser, plan parser | block ends, masks, rare shapes of numbers | vector, scalar and regex forms agree |
| plan parser (`core/plan_parser.rs`, `plan_properties.rs`) | node stack, property list | text and JSON to a tree | grouping, analyzers | nesting by indentation, InitPlans, multi-line properties, keys that differ by format | the tree the server printed; formats agree |
| grouping (`core/grouping.rs`) | groups, fingerprint cache | accept, merge, take | parser, collector | parallel merge | streaming result = batch result |
| analyzers and engine (`core/analysis/`) | visitors, reports | walk, report, summarise | tui | analyzers that panic or are slow; cumulative counters | each node once; failures isolated; summary faithful |
| SQL analysis (`core/sql_analysis/`) | none | normalise, weigh, extract, hint | grouping, tui | scopes of names, lists, nested queries | same shape, same fingerprint; names in scope; no simpler by growing |
| regression (`sql_analysis/regression.rs`, `statistics.rs`) | series of executions | add, analyse | tui | parse order differs from run order, short series | a finding is in the order run, and real |
| terminal UI (`tui`) | file progress, parsing and analysis results, selection, sort, caches | keys, 100 ms refresh | channels from a parsing thread and an analysis task | files ending in any order, a failed file, late or missing messages; re-sorting under a selection and caches | what is parsed is one sequential pass; the screen settles; all panes are of one query |
| configuration, export, parser utilities, bench harness | none | pure functions, a driver | - | - | - |

## 2. Modules

Modules take their sizes as CONSTANTS with named assumptions and have one action
per operation, so that each can be proved about; only `PlanParser`, `SqlText` and `SqlAnalysis`,
whose subjects are recursions over a plan or a statement, declare RECURSIVE
operators.

| part | modules | composed in | abstract specification or reference definition |
|---|---|---|---|
| ring and worker | `SampleStore`, `CaptureRing`, `CaptureRingProofs` | `MC_CaptureRing` | `SampleStore`, "a sampler, not a ledger": `KeepsPromise` |
| backend | `HookBackend`, `HookBackendProofs` | `MC_HookBackend` | - |
| log tail | `LogTail`, `LogTailProofs` | - | - |
| tables | `PersistLocks`, `StatMerge`, `PersistenceProofs` | `MC_PersistLocks` | one batch of all captures (`BatchingIsInvisible`) |
| collector | `Collector`, `CollectorProofs` | - | - |
| daemon, metrics, source | `ExporterDaemon`, `QuerySeries`, `PostgresSource`, `ExporterProofs` | `MC_Exporter` | - |
| from bytes to groups | `SimdScan`, `PlanProperties`, `PlanParser`, `LogParser`, `Selection`, `Grouping`, `ParallelParse`, `LogParsingProofs` | `MC_LogParsing` | byte-by-byte scans; the tree that was printed; batch grouping |
| analyses and their screen | `PlanTree`, `Severity`, `Analyzers`, `AnalysisEngine`, `SqlText`, `SqlAnalysis`, `Regression`, `ResultsScreen`, `ResultsScreenProofs` | `MC_AnalysisEngine`, `MC_QueryAnalysis` | orders of a tree by its paths; what an analyzer reports alone |

`MC_PersistLocks`, `MC_Exporter`, `MC_LogParsing` and `MC_QueryAnalysis` put
components into one instance that hand each other only values: the daemon is told
whether a pass succeeded, the grouper is given plans, the screen is given results. Each is explored completely with the
others at rest, from the initial states of all; their interleavings would
multiply the states and change no property, because no variable is shared.

What is left to do: `AssessmentIsFaithful` of `AnalysisEngine` and
`AlarmsAreReal` of `Regression` are the next theorems worth attempting;
compressed files and several files of one cycle are the next extension of
`Collector`.

## 3. The modules and the code

Actions carry the names of the functions they model. History variables (marked
`history` in the declarations) are written but never read by a guard.

**SampleStore** is the abstract contract: an execution is observed, and a
pending one may be settled by being counted once in the database it ran in, or
by being lost. **CaptureRing** implements it (`KeepsPromise`, an INSTANCE with
`pending` mapped to what is in the ring or in the worker's hands). Everything
done under the ring's lock is one step; filtering, aggregating and persisting
are later steps of the worker, between which it may die. A record is an id and
the database stamped on it. The worker's process has a life: it is "starting",
`plansight_bgworker_main` connects to the configured database or, when that is one
of `Missing`, ends in a FATAL; `respawn` is the postmaster's `set_restart_time`,
after which the setting is read again; `sigterm` ends it in good order
("exited"), and then nothing but a server restart brings it back. `ServerRestart`
empties the ring as `Ring::default()` does.

**HookBackend** is one backend, a single thread; what interleaves is the lives
of its queries. `frames` is the C stack of ExecutorRun/Finish calls; `Unwind`
is PG_CATCH in each frame that an error leaves. Addresses are reused as soon as
a query is gone, which is what makes stale entries dangerous. `capture` is the
one capture at work; its own queries (`self`) run through the same hooks.

**LogTail** and **Collector** represent a file as a sequence of lines, each the
id of the entry it starts or 0 for a continuation: this keeps what the code
distinguishes (header or not, position) and abstracts bytes. In LogTail the
read and the commit are two steps of one transaction. In Collector a cycle is
`process_log_file` (stat and decision), `parse_range_blocking` (the read on the
blocking pool), `emit_query_metrics` and `update_file_state`; the server and
logrotate act between any two. `row_gen`/`gen` number the contents so that a
property can say which content a checkpoint belongs to.

**PersistLocks** keeps the rows a transaction has still to lock (`todo`), first
those persist_rows upserts, then those its DELETE visits, and the one of them it is
at (`asks`). `ordered` says which upsert may come next: statements rows in the
order of the sort, each before the window rows of its fingerprint, and those in any
order, since aggregate.rs keeps them in a HashMap. `scanned` is the DELETE's order,
the same for every transaction. `now` is the transaction's start, `edge` the
clock's retention edge. Histogram rows are only written under their statement row
and are not separate locks.

**Selection** is what is wanted of a sequence, in its order, as a recursive
function; `Grouping` takes from it the plans in the window, `LogParser` the lines
of a message. **Grouping** has no state: it is `QueryGrouper` as operators on a record of
groups and a count, and `get_processed_queries` as the definition to compare it
with. `normalize_query_enhanced` is a constant function from texts to
fingerprints, which also makes the fingerprint cache invisible. **ParallelParse**
is the parsing screen around it: `task[f]` is a file's rayon task, `parts` the
ranges waiting to be reduced (only neighbours are combined, as rayon does), the
two channels are sequences, and `process_key` is one pass of `App::run`: it
drains both channels, then looks at the key. `heavy_phase` is one phase of the
analysis task, which works on its own copy of the groups.

**StatMerge** is what persist_rows stores of one fingerprint: `build_stat_row` of a
batch is what `aggregate.rs` makes of it, `upsert`, `histogram_upsert` and
`window_upsert` are the ON CONFLICT clauses of `lib.rs`, column by column,
`add_bucket_arrays` the SQL function. Captures arrive one by one (a synchronous
backend) or in batches cut at any point (the worker), a reset empties the tables,
and the window's edge moves.

**QuerySeries** is the recording of one query: `update_query_metrics` makes its
calls in order, the Prometheus backend asks `QueryCardinalityLimiter` first
(`entries` by last use, `order` by tick) and removes the evicted hash's series
one vector at a time. A scrape is not one read: `gather` and then `collect` read one
metric family each, under its own lock and in any order, and `respond` sends what
was collected (`answer`); evictions and recordings go on between them, and `replaced`
remembers whom they evicted meanwhile. `Families` are the metrics a scrape
collects, two of those a query has series in. **PostgresSource**
is the poll loop: a connection, BEGIN at repeatable read, three queries, ROLLBACK,
each under a deadline, against a server that commits, hangs or dies; the scrape
reads the shared snapshot. **ExporterDaemon** has `run_daemon`'s select, the
scheduler's select over the interval, the watch channel and shutdown, the
reloader's reading and validating, and the readiness probe; time passes in units
while a pass runs or the scheduler waits.

**SimdScan** has each scanner twice: over blocks of `BLOCK` bytes, the last one
overlapping the one before, and as the regular expression or the byte-by-byte
scan it stands in for. A line starts as the server prints it; actions damage one
byte of it or cut it. The scanners are the time stamp at the start of a line,
the indentation, the search of a literal, and the cost of a node with its give-ups.
**LogParser** writes a log of messages (plain text, text over two lines, JSON,
queries with subscripts or arrays, plans in text or JSON that their builder refuses,
errors, lines too long, a broken timestamp),
cuts it into lines and feeds them to the state machine; `entry_bytes`, the
builder, the database of the header and the sink's cap are those of the code. Why a
builder refuses (depth, normalisation, a JSON schema) is abstracted to
`IsRefused`; what follows is not: `finalize_plan`'s `.ok()` drops the plan and
nothing else happens.
**PlanParser** grows a plan node by node, with labels and properties, prints it
as PostgreSQL does in text and in JSON, and has both parsers read it back;
**PlanProperties** is the list behind a node, with canonical keys and typed
values.

**PlanTree** keeps a plan as a function from paths (child indexes from the root)
to nodes, so that orders of a traversal can be stated on paths; `depth_first`'s
explicit stack of Enter, Visit and Exit frames is the one the engine uses.
**Severity** has thresholds by workload, in tenths so that they stay whole, and
the assessment. **Analyzers** has, for each of the thirteen analyzers, the
visitor as a record, what a node adds to it and what is reported after the walk.
**AnalysisEngine** runs them: one action per frame of the stack, and the failures
`catch_unwind` and `max_analyzer_duration` turn into a missing report.

**SqlText** reads a statement as the tree the SQL parser (an external crate)
builds: normalisation to a fingerprint (literals of every clause, LIMIT and OFFSET
included, then lists of two or more collapsed), the complexity's counters (ON
conditions of the four operators the code lists, so not of a plain JOIN), the
anti-patterns, and the metadata with its scopes. **SqlAnalysis** starts from a
plain SELECT; `grown`, `reworded` and `lengthened` say whether a step added to it,
exchanged literals, or lengthened a list of literals, from one element on; each step
is the analysis of one more variant. **Regression** records durations in and out of order and has both
engines: the halves of a short series, and for a longer one change points,
anomalies by median deviation and the severity. What needs a p-value is a choice
of the outcome.

**ResultsScreen** is the loop of `app.rs` after parsing: a frame is drawn, then
one key is processed. A frame is, for every pane, which query it shows, through
the list's order, the selection, the plan cache (`is_cached`) and the bounded
cache of highlighted texts. Keys are the list's, the panes', the sort order's,
the detail view's and the clipboard's.

### Assumptions

* The log is plain text in Collector: compressed files take a different branch.
* Any write to the file changes its (mtime, size); an inode is not reused.
* `process-rest` does not overlap a cycle of the daemon.
* A parse task that panics has the effect of one that fails; what it does to
  the parser's configuration is not modelled.
* A file's plans are fixed when it is opened in ParallelParse; how lines become
  plans is `LogParser`'s subject.
* In PersistLocks a DELETE scans by minute (`metrics_window_minute_idx`), rows of a
  minute in the same order in every transaction. A sequential scan after updates
  could come in another order; what is proved of deadlocks rests on this one.
* A repeatable-read transaction reads one state of the database (PostgreSQL's
  promise), and `tokio::time::timeout` ends an await at its deadline.
* sqlparser gives the tree described at the head of `SqlText`.
* Durations, costs and times are whole numbers; ratios are compared by
  multiplication. Rounding of floats is left out.

## 4. The runs

| run | question | distinct states |
|---|---|---|
| `CaptureRing` | does the ring and its worker keep the sampler's contract, isolate databases, and never wedge? | 388 thousand |
| `HookBackend` | do nesting, entries and flags survive errors, cursors, nested and own queries? | 370 thousand |
| `LogTail` | do offset and statistics agree, whatever fails or rotates; does a backlog drain? | 225 thousand |
| `PersistLocks` | does every writer commit, does a purge keep the window, and can the cut into batches be seen? | 381 thousand |
| `Collector` | is a second emission always explained, and is nothing skipped or halved? | 3.7 million |
| `CollectorLive` | does each read resume in its own file, and is every entry exported? | 189 thousand |
| `Exporter` | is an eviction whole, a scrape of one recent moment, a daemon that works ready, a reload applied? | 724 thousand |
| `LogParsing` | is every byte, line, node and plan attributed to what it came from, whatever the chunking and the order of files? | 380 thousand |
| `QueryAnalysis` | are fingerprints, hints, scores, alarms, findings and the frames that show them those of the query they name? | 189 thousand |
| `LogTail_backlog` | does every backlog drain? No | violation |
| `PersistLocks_transactions` | does sorting each batch exclude deadlocks? No | violation |
| `Collector_giveup` | does a skipped range stay skipped? No | violation |

Deadlock checking is off everywhere because each model has bounds on what its
environment does and may come to rest.

### What the properties say

* `RingIsDrained`: what is in the ring is drained and every drop warned of, or the
  worker is found unable to serve (stopped by SIGTERM, or configured for a database
  that does not exist). Once it can serve again, the ring is drained after all.
* `EvictionIsWhole`: once a query is recorded, a tracked hash has every series ever
  recorded for it, in every database, and an evicted one none; in the registry the
  cap holds at every moment, the middle of a removal included. A scrape's answer
  may mix moments and hold more hashes than the cap: each of its metrics keeps the
  cap, and so does the answer but for hashes evicted while it was collected.
* `ScrapeIsOneMoment`, `NeverServedStale`: calls, buckets and rate of a scrape come
  from one state of the database, at most three timeouts old while shown as up.
* `HealthyStaysReady`: if passes succeed and are no slower than the interval, the
  probe stays green through reloads to intervals no longer than the first; longer
  ones are the finding below. `ReloadIsApplied` is its liveness counterpart.
* `BatchingIsInvisible`: the tables are those of one batch of all captures, except
  which of several query ids a row keeps.
* `OneEntryEach`, `EveryPlanIsAccounted`: a plan has all lines, the duration and
  the database of one entry; at the end each plan that its builder accepts was
  accepted, was dropped by the entry limit, or the loss was marked. A plan the
  builder refuses is lost, as text without any report: that is a finding below, and
  what the property says of it is that it takes no other plan with it.
* `ScannersAgree`, `TextKeepsTheTree`, `FormatsAgree`: the fast scans say what the
  slow ones say; the parsed tree is the one printed; text and JSON lead to the
  same properties.
* `EveryNodeOnce`, `FailuresAreIsolated`, `AssessmentIsFaithful`: walks see every
  node once and count every block once; a lost report changes no other and can
  only hide problems; the summary shows the worst finding.
* `SameShapeSameFingerprint`: other literals give the same fingerprint, and so does
  another length of a list; a list of one that grows may renumber the placeholders
  (a finding below).
* `ComplexityGrows`: no count of a statement that grew falls, nor a score but the
  aggregation's (`group_by_columns`, a finding below).
* `NamesAreScoped`: a correlated subquery is one with a name of an enclosing query,
  and the index hints are exactly the filtered columns of each table; but where
  columns of one query are taken by the table of another (`TakenByAnother`, a
  finding below) nothing is said of the hints.
* `AnalysedInTheOrderRun`, `AlarmsAreReal`: a regression is found in the order the
  executions ran and starts where the mean rises; a series that did not become
  slower raises none, and anomalies are a minority.
* `ScreenIsOfOneQuery`: all panes, the copied text and the scroll positions are of
  the query highlighted or opened, through any sorting and caching.

### What the violations show

1. *Backlog.* One entry as long as a read leaves no boundary; the offset never
   moves again. What does hold is `ShortEntriesDrain`.
2. *Transactions.* Sorting orders the locks of one call. A synchronous backend
   makes one call per statement inside the user's transaction.
3. *Give-up.* The give-up branch does not store the new identity, so after a
   rotation the skipped range is read again at every cycle.

### Other disagreements met

Each is in `findings`, with the line it contradicts; the models have the
behaviour, and the properties above are stated so that they hold with it.

* The worker reads `plansight.database` once; a reload does not end the discarding
  that `plansight_check()` says it ends.
* `swap_remove` breaks the age order that evicting index 0 relies on.
* A checkpoint that fails after the emission makes the next cycle emit again.
* `entry_bytes` adds up over back-to-back entries, so a small entry after large
  ones may be discarded.
* A poll interval of zero passes validation and ends the daemon; a negative one
  ends hot reload.
* The readiness limit and the slow-query thresholds are fixed at start.
* The query id of a row may be another execution's than the representative.
* `min_severity`, `max_findings_per_analyzer` and `continue_on_error` are read by
  nothing; the basic regression engine ignores its thresholds, and
  `AnomalyType::Drop` is never reached.
* `PlanProperties::set` with an alias keeps two properties.
* `group_by_columns` is assigned where its neighbours are added to.
* A text plan its builder refuses disappears in `finalize_plan`'s `.ok()` without a
  warning or a truncation mark; JSON plans get one, so as not to lose them silently.
* Columns are resolved on a list shared with scalar subqueries and set operations,
  so an earlier unqualified column goes to the other query's table.
* `collapse_in_lists` leaves lists of one alone: beside another literal, `IN (1)` and
  `IN (1, 2)` number their placeholders differently, two fingerprints of one shape.
* The join operators whose ON conditions are counted leave out `JoinOperator::Join`,
  which a plain JOIN is parsed to.

Smaller ones are only noted here. A give-up on a file without a row stores no
identity, so the next replacement is only compared by size; `process-rest` has no
rotation check (both break `ResumesInItsFile` when `BadEntries` or `MaxRests` of
`CollectorLive.cfg` is not empty or 0). A restarted worker reports earlier drops
again. `want_capture` marks a queryId as captured before it is. A window row that
expires while its writer waits lets the retention DELETE deadlock with an upsert
(`BatchMinutes = OldMinutes = {1}`): this is the hazard the second condition of
`FreshWritersDoNotDeadlock` sets aside, and the run's minutes exclude it. The parsing screen does not tell a closed
channel from an empty one: after a panic in the background it shows "parsing" for
ever.

### Bounds, and why they are enough

* CaptureRing: two databases and two backends make every record home or foreign
  to the worker, a third name is of a database that does not exist; two slots and
  three captures fill, drain and overflow the ring;
  costs 1 and 3 with maxima 5 and 12 saturate both sums.
* HookBackend: three executions at three addresses with a map of two entries
  reach eviction, reuse of an address after an error, removal out of order,
  nesting two deep and a capture's own query.
* LogTail: five entries and lines with reads of three lines need several reads;
  two rotations let a replacement regrow past the offset; two failures follow
  each other.
* PersistLocks: two writers and two fingerprints are the smallest circle; three
  transactions let one writer come back; an old minute expires while the writers
  wait, two batch minutes give a fingerprint window rows in either order. Three
  captures with durations on both sides of two bounds and of the SLO, in three
  minutes of two hours, with and without ids and plans, make every way of cutting
  three into batches; the theorems of section 5 say why three are enough.
* Collector: four lines with a budget of two make windows that end inside and
  between entries; one rotation of each kind; a size limit of three lines makes
  files that are skipped until they are replaced; an entry that never parses
  reaches the give-up, two errors combine with it.
* CollectorLive: a budget of one line is smaller than any entry with its
  successor, so the window must widen.
* Exporter: three hashes under a cap of one or two evict (0 is no cap); two databases
  give a hash several label sets; three recordings under a cap of one evict twice
  while one scrape collects two families.
  An interval of 1 and a timeout of 2 over nine units are several polls with a
  hang in each await. Two edits let a reload meet a reload; intervals 2 and 3
  are a shorter and a longer one, 0 is the one that passes validation and is fatal.
* LogParsing: three files are the fewest that can be reduced in two ways; one
  fails, one thread panics. Three messages put each of eleven forms before, between and
  after others; a cap of two stops inside the log; an entry limit of nine bytes is
  passed only by entries that follow each other, none being longer than five.
  Blocks of two bytes under a time stamp of three overlap in the middle, and
  lines of indentation reach past two blocks. Plans grow by three steps with a depth limit of three, so some are
  refused.
* QueryAnalysis: three edits nest a join in a CTE in a set operation; five plans
  reach every detector and every severity, two faults hit two analyzers or the
  last; six samples with limits scaled to 3, 4 and 5 reach both engines and the
  band between them, one late sample is enough to disorder a series; three queries,
  two of them of one text, are the fewest that can be confused by a cache.

The limits of the code that the configurations scale down (sample counts, block
size, byte limits, depth) are constants of the modules.

### Fairness

* `CaptureRing`: weak fairness of the worker as a whole. Its latch times out every
  `flush_interval`, and the postmaster starts it again after a failure
  (`set_restart_time`). That a start succeeds is not assumed: with a database that
  does not exist the worker dies and is respawned for ever (bgworker.rs:44). Nor is
  it assumed that nobody sends SIGTERM or restarts the server. Nothing is assumed of
  backends or of which step the worker takes.
* `LogTail`: weak fairness of the two halves of a cycle: the worker wakes for
  ever; `flush_fails` is not fair and bounded.
* `PersistLocks`: weak fairness of each writer's steps: a lock wait ends when the
  lock is free. No fairness on starting transactions or on the clock.
* `Collector`: weak fairness of a cycle's steps: `tokio::time::interval` keeps
  ticking and the await of a blocking task returns.
* `Exporter`: weak fairness of the reloader's answer to a signal, of a pass's end,
  of the tick and of the end that a dead task brings; strong fairness of
  `config_changed`, because `tokio::select!` picks at random among ready branches,
  so a branch that is ready at every round is not passed over for ever. Nothing is
  assumed of edits, signals or time.
* `LogParsing`: weak fairness of each file's reading, of the reduction, the
  final send, the analysis task and of the refresh: threads and tasks are
  scheduled (`#[tokio::main]` is multi-threaded), and `wait_event` times out after
  100 ms while `is_noninteractive`. Nothing is assumed of the user, of failures
  or of panics.

### Mutants

Each property of a passing run names a mutant: an operator, defined beside the
one it replaces, that changes it as a plausible bug would (an off-by-one in the
full test, a map that is searched at the top, a checkpoint at the observed size,
a transaction at read committed, a cache keyed by the row). Under the mutant TLC
finds the property violated, so no property holds by the shape of the model alone.

## 5. The proofs

Every theorem is for all values of the constants that satisfy the named ASSUME of
its module; these say that bounds are natural numbers, that a cap or a batch is not
empty, that sets the code iterates over are finite. The one that says more is
`DaemonAssumption`, which is the premise of the property: no pass takes longer than
an interval. Each invariant below was checked by TLC on the module's run before it
was proved.

### The extension

`CaptureRingProofs`, from `RingAssumption`:

* `TypeCorrect`: `Spec => []TypeOK`.
* `RingKeepsItsRecords`: `Spec => [](RingIsFifo /\ CountersExact)`. Inductive
  together with TypeOK: push appends to both sides of
  `accepted = taken \o recs` (`AppendAfterTaken`), drain moves `recs` over.
* `StoredOnceAtHome`: `Spec => [](InFlightIsFresh /\ CountedAtMostOnce /\
  DatabaseIsolation)`. The two claims about the tables are not inductive: a
  persist step adds the batch to the counts, so one must know that no execution
  in the batch has been counted, that each is in one place only, and that its
  stamp is its origin and the worker's database. That is `InFlightIsFresh`. The
  interesting steps are push (a fresh id), drain (the filter, and ids moving from
  ring to batch) and persist (at most once per id).
* `SamplerPromiseKept`: `Spec => KeepsPromise`. Each action is shown to be
  Observe, Settle or a stutter of `SampleStore` under the mapping; `IssueIsObserved`,
  `PersistIsSettled` and `LeavingIsSettled` (a loss) are the three ways, and the
  invariant above supplies that what a step settles was pending, at home and not
  counted.
* `OverheadSampled`: `Spec => []OverheadIsASample`. Adding a cost keeps
  `sum^2 <= count * sum_of_squares` (`SquareOfSum`), also where the sums
  saturate.

`HookBackendProofs`, from `HookAssumption`, proves the four properties of the
backend with one invariant: `NestingDepth`, `EntriesMatch`, `UsersOnly`,
`CleanWhenIdle`. None is inductive alone. A capture's entry is its own because
whatever else was at the address is dropped when an execution starts there
(`EntriesOfTheLiving`), executions are numbered (`StartedInOrder`) and the map has
one entry per address, which `swap_remove` keeps (`SwapRemoved`); the flag goes
down because only the capture at work raised it, and an error that is caught below
a capture ends it (`CaptureOnTop`); `NothingOutside` is what the transaction
callback starts from.

`LogTailProofs`, from `LogTailAssumption`: `OffsetLedger`,
`Spec => []OffsetIsLedger`. Between the read and the commit the file may grow or be
rotated, so the invariant says what the cycle holds: lines of this file from the
offset on, with a header behind them (`HoldsLines`), or of one that is gone
(`HoldsOldLines`). `NothingSettledAhead` is what makes an offset harmless that a
rotation left pointing into another file, `WrittenInOrder` that an entry is in one
place only.

`PersistenceProofs`, from `StatAssumption` and `PersistAssumption`:

* `UpsertsMayBeRegrouped`: the UPSERT of statements is associative in every column
  but the query id, and a known id is not lost. Sums, extremes and buckets are
  associative by themselves; the representative and its analysis follow the
  maximum (`RefreshAssociative`), where the ties decide.
* `TablesMayBeRegrouped`: the same for query_histogram and metrics_window as whole
  tables, where batches touch different hours and minutes.
* `BatchesDoNotShow`: `StatSpec => []BatchingIsInvisible`. In `StatInv` the
  statements are the row of everything stored since the reset, with some query id
  (`BatchOf`), the histogram is that of everything stored, and the window agrees
  with it on the minutes that are kept (`WindowIs`). That one more batch keeps this
  is the associativity above, together with what a batch is row by row: the rows,
  the histogram and the window of `s \o t` are the upsert of those of `t` on those
  of `s` (`RowsConcat`, `HistogramConcat`, `WindowConcat`), and the cumulative
  buckets count the captures within each bound (`WithinBound`, `BucketsWithin`).
* `PurgedIsExpired`: `Spec => PurgeKeepsTheWindow`, an action property. `ClockInv`
  says that a transaction's start is never ahead of the edge and that what it has
  removed lay before its start.
* `LockOrderSuffices`: `Spec => []FreshWritersDoNotDeadlock`, for any writers, rows,
  calls and clock. A set of writers that wait for each other in a circle has one
  that is in a later call of its transaction, or one that has upserted a minute which
  expired since. `LocksInOrder` says how far the order of the first call goes: a
  fingerprint's statements row before its window rows and before later
  fingerprints, window rows in any order, and the DELETE in the order of its scan.
  Among fresh writers a window row that is being upserted is never waited for,
  because its writer has the statements row of its fingerprint alone; so the upserter
  that asks for the greatest fingerprint waits for one that does not wait for any of
  the set, and among deleters the one at the last row of the scan does (`LastRow`).
  Both conditions are needed: `PersistLocks_transactions` has the circle without the
  first, section 4 the one without the second.

### The exporter

`CollectorProofs`, from `CollectorAssumption`: `CountedOnce`
(`[]EmittedOncePerCheckpoint`) and `NothingLost` (`[]NothingSkipped`). An emission
is covered when a checkpoint accounts for it. `CoveredIsBehind` says that no cycle
that could start now would read a covered entry: all are in this content, before
the checkpoint, and the rotation check would not reset it. `RowAccounts` is the
other direction, that what lies before the checkpoint was emitted or given up. A
cycle under way carries both over the server's steps (`JobStarts`, `JobHolds`,
with one case for a file replaced before the read, one for after), and
`CutsBetweenEntries` is inductive with them.

`ResumesInItsFile` does not hold for every value of the constants (see "Smaller
ones" in section 4): a file truncated in place may outgrow its checkpoint,
`process-rest` does not ask, and a give-up on a file without a row stores a
checkpoint without an identity. Two theorems say that these are all the reasons.

* `ResumesByIdentity`: without truncations and `process-rest`
  (`NoticedByIdentity`), `Spec /\ []CheckpointsCarryIdentity =>
  []ResumesInItsFile`. `IdentityOfContent` says that a row with the file's identity
  was computed in this content, and the same of the job under way.
* `ResumesUnlessUnidentified`: under the same assumption,
  `Spec /\ [][~GivesUpUnidentified]_vars => []ResumesInItsFile`. Errors, unparsable
  entries, crashes and give-ups are all allowed, any number of them; only the give-up
  on a file that has no identified checkpoint yet is not, which is the one step that
  stores a checkpoint without an identity (`IdentityIsKept`). The hypothesis is on
  the behaviour: the code does not exclude such a give-up, and after one the property
  may fail.

`ExporterProofs`:

* `HealthyIsReady`: `DaemonSpec => []HealthyStaysReady`. `TicksAreTimely` splits the
  three intervals of staleness: a pass starts within one of the last success, lasts
  at most one, and the next tick comes within one of its start. A reload restarts
  the interval, which is where the third goes; a tick that is skipped lands on the
  next multiple (`QuotientBelow`).
* `EvictionLeavesNothing`: `SeriesSpec => []EvictionIsWhole`, for any metric families.
  A family may be collected between two removals, so the cap must hold with the
  evicted hash still partly shown: `OneIsRemoved` says that then the new hash has no
  series yet. `ScrapeInv` says of the answer under way that each family collected
  was within the cap, and that a hash in it that is not tracked any more was
  replaced meanwhile. `NoOrphans`
  (a series is tracked or being removed), `NothingMissing` (what OpenTelemetry has
  of a tracked hash is shown or about to be) and the bookkeeping of ticks and entries
  (`LimiterTypes`) carry the rest.
* `ServedValuesAreRecent`: `SourceSpec => []NeverServedStale`. The property speaks of
  a snapshot and the clock; what bounds its age is where the loop stands. `ClockInv`
  says it for each place: no await outlasts its deadline, a tick comes within a
  timeout of the last, and the deadline of the connect is within two, of the fetch
  within three timeouts of the last snapshot that is still up.
* `ScrapesAreConsistent`: `SourceSpec => []ScrapeIsOneMoment`. `MomentInv` says that
  the transaction's snapshot is one moment of the database and that the columns
  read so far are those of it, query by query, so that what is published at the
  end is one moment too.

### Core and screen

`LogParsingProofs` has three subjects. The first is the parallel parse, for any
number of files with any plans in them, any texts, databases and fingerprints, from
`GroupingAssumption` and `ParallelParseAssumption`:

* `ReductionIsSound`: `merge` is associative and `NewGrouper` is its identity on
  both sides, as the comment at log_parser.rs:721 argues. `GroupMergeAssociative`
  carries it: concatenation, minimum, maximum and "the slower one, the later among
  equals" are each associative (`PartsAssociative`).
* `FoldIsMerge`: folding a plan is merging the grouper of that single plan.
* `FoldIsBatch`, `MergeIsBatch`: the grouper of a sequence is the batch definition
  `get_processed_queries` of it, plan by plan and range by range. The first says
  what one more plan does to every field of a group, the second follows by
  induction on the later sequence.
* `ParallelIsBatch`, `ScreenIsTruthful`: `Spec => []ResultsAreBatch` and
  `Spec => []ScreenMatchesFiles`. `ParseInv` follows a plan from its line to the
  screen. A task holds the batch of what it has read (`TasksFold`). A part of the
  reduction stands for its range of files: merged behind whatever plans come before
  it, it gives the plans up to its end (`StandsForItsRange`); that is what neighbours
  keep when they are merged, in any order, and it needs no induction over files.
  Every ended file is in one part (`PartsCover`); what the channel and the screen
  say of a file is so (`FilesReported`); the message with the result carries the
  batch of all plans (`ResultSent`), the screen what it took from that message
  (`ResultTaken`), the analysis what the screen holds (`AnalysisFollows`). None of
  these is inductive alone: the screen believes messages, and messages what the
  tasks did.

The second is the byte scanners, from `BlockAssumption` (a block holds a byte) and
`ShapeAssumption` (a time stamp begins with a digit and is one to two blocks long):

* `ScannersReplaceNothing`: `ScanSpec => []ScannersAgree`, for any width of a block.
  The invariant is only that the line is a text over the symbols; the work is in
  the lemmas, which hold of every such text. `LineStartAsByRegex`: where the
  accelerated time stamp gives up or ends is where the expression does, for every
  combination of fraction and zone. `WsKernelIsScalar` and `LiteralKernelIsScalar`:
  the kernel is a recursive function over offsets that skips blocks and re-reads the
  last one; the byte-by-byte scan is shown to solve the kernel's equations, and these
  have one solution (`OneSolution`). `WindowsSeeAll` is why the blocks, the
  overlapping last one included, miss no byte. `CostIsCost`: where the cost reader
  does not give up, what it read is what the expression captures; what the
  expression chooses is determined by the first place where each bound is met.

The third is the entry state machine, from `ParserAssumption` (the forms of message
a log holds, and limits that are numbers), for a log of any length that ends
anywhere in its last message, any limits on lines, entries and plans, and any
databases:

* `EachPlanIsItsEntry`, `PlansAreAccounted`: `ParserSpec => []OneEntryEach` and
  `ParserSpec => []EveryPlanIsAccounted`, from the invariant `LogParserInv`.
  `EntryInv` ties the parser to its place in the file: the state is the one `Stage`
  gives after so many lines of a message of this form, and the builder holds exactly
  the lines of the entry read so far, in order, the query's before the content's,
  with as many brackets open as `OpenBrackets` says (`Holds`). Without the lines
  `OneEntryEach` is not inductive: a plan is accepted from what the builder holds.
  `SinkInv` says that all messages up to the one being read are settled, accepted in
  order or dropped. `EveryLineFollows` is the table of what each next line does;
  `HoldsNext` shows, row by row, that the state machine does it: a subscript or an
  array in a query opens and closes brackets and goes back to the query, a document
  that closes becomes a plan at the last line of its message. `FinalPlan` is the
  other way an entry ends: what the builder holds becomes a plan if and only if the
  file holds one that is not refused. What becomes of a refused plan is part of the
  model (it is lost) and the statement excepts it (`Loggable`). `FileIsLaidOut` and `NextLineIs` follow the file from `Written`,
  so that an entry ends where the next begins.

`ResultsScreenProofs`, from `ResultsAssumption`: `PanesAgree`,
`ScreenSpec => []ScreenIsOfOneQuery`. First that sorting loses and repeats no row
and leaves them in order (`RanksArePlaces`, `SortReorders`), for every order that
compares as numbers do; then that after each key the plan cache is keyed by what it
holds, the details are of the selection, the scroll positions of the query last
selected, and the frame is one the state could still draw (`ScreenInv`).

### Only model-checked

* What the walks and the parser of plans compute of a whole tree (`EveryNodeOnce`,
  `FailuresAreIsolated`, `TextKeepsTheTree`, `FormatsAgree`). Induction is not the
  obstacle where the data are sequences: `NatsByInduction` states it for a set
  instead of a predicate, which the provers can use, and the theorems on grouping,
  tables and scanners rest on it. Here the data are trees, read by recursive
  operators and by folds of the library, of which nothing can be proved without
  rewriting them.
* `AssessmentIsFaithful`, and `Regression` (`AnalysedInTheOrderRun`,
  `AlarmsAreReal`): sorting, medians and sums over subsets by the same folds.
* Everything about `SqlText` (recursive operators), and `SqlAnalysis` with it.
* Liveness: `RingIsDrained`, `ShortEntriesDrain`, `EveryWriterCommits`,
  `EveryEntryIsExported`, `ReloadIsApplied`, `ParsingSettles`. Their proofs under
  fairness need ENABLED.

## 6. Not modelled

* Text: truncation to slot sizes, EXPLAIN rendering, labels, logging, layout.
* SQL views and status functions: read-only over modelled state.
* Export: serialisation. Parser utilities: regular expressions without state.
* XML and YAML plans, and node kinds whose details no analyzer reads.
* Statements other than SELECT beyond their literals; the grammar is sqlparser's.
* Seasonality, correlations, distribution fits and p-values: floating-point
  statistics.
* Compressed files in the collector, several files in one cycle, migration and
  reset of the state store.
* Deserialisation of configuration, bench harness, TUI colours, status line and
  export key.
* Hazards without a property say so in PROJECT.json.
