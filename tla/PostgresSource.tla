--------------------------- MODULE PostgresSource ---------------------------
(***************************************************************************)
(* The exporter's second source (exporter/src/postgres_source.rs): a task  *)
(* that polls the extension's views over a connection, and the collector a *)
(* scrape calls, which shows the last snapshot.                            *)
(*                                                                         *)
(* Time passes in units; what awaits the server must end within a timeout. *)
(* A query's row is its calls and the top of its latency buckets.          *)
(***************************************************************************)
EXTENDS Integers, FiniteSets

CONSTANTS
  Queries,
  interval,           \* poll_interval
  MinTimeout,         \* the shortest timeout
  MaxCalls,           \* bound: calls of a query
  MaxTime             \* bound: units of time

ASSUME IntervalAssumption == interval \in Nat \ {0} /\ MinTimeout \in Nat \ {0}

VARIABLES
  clock,
  server,             \* "up", "hung" or "down"
  db,                 \* the views: of each query its calls and buckets
  client,             \* the connection: "none", "open" or "closed"
  poll,               \* where the loop is: "idle", "connect" or a query of fetch
  next_tick, deadline,
  txn,                \* the transaction's snapshot
  fetched,            \* the rows read so far
  polled_at,          \* of fetched
  snapshot            \* the state shared with the collector

sourceVars == <<clock, server, db, client, poll, next_tick, deadline, txn, fetched, polled_at, snapshot>>

timeout == IF interval > MinTimeout THEN interval ELSE MinTimeout

NoRows == [calls |-> <<>>, buckets |-> <<>>, recent |-> <<>>]

(* Snapshot::default: down, with no series.                                *)
Down == [up |-> FALSE, polled_at |-> 0, rows |-> NoRows]

-----------------------------------------------------------------------------
(* The server (external): calls are persisted, it may hang, die, restart.  *)

persist(q) ==
  /\ server = "up"
  /\ db[q].calls < MaxCalls
  /\ db' = [db EXCEPT ![q] = [calls |-> @.calls + 1, buckets |-> @.buckets + 1, recent |-> @.recent + 1]]
  /\ UNCHANGED <<clock, server, client, poll, next_tick, deadline, txn, fetched, polled_at, snapshot>>

fails(to) ==
  /\ server = "up" /\ to # "up"
  /\ server' = to
  /\ client' = IF to = "down" /\ client = "open" THEN "closed" ELSE client
  /\ UNCHANGED <<clock, db, poll, next_tick, deadline, txn, fetched, polled_at, snapshot>>

recovers ==
  /\ server # "up"
  /\ server' = "up"
  /\ UNCHANGED <<clock, db, client, poll, next_tick, deadline, txn, fetched, polled_at, snapshot>>

-----------------------------------------------------------------------------
(* poll_loop.  MissedTickBehavior::Delay: the next tick is an interval     *)
(* after this one.                                                         *)

Awaits(step, until) ==
  /\ poll' = step
  /\ deadline' = until

ticker_tick ==
  /\ poll = "idle" /\ clock >= next_tick
  /\ next_tick' = clock + interval
  /\ Awaits(IF client = "open" THEN "begin" ELSE "connect", clock + timeout)
  /\ UNCHANGED <<clock, server, db, client, txn, fetched, polled_at, snapshot>>

(* connect: TLS, or without it; either reaches the server or fails.        *)
connect ==
  /\ poll = "connect" /\ server = "up"
  /\ client' = "open"
  /\ Awaits("begin", clock + timeout)
  /\ UNCHANGED <<clock, server, db, next_tick, txn, fetched, polled_at, snapshot>>

begin_transaction ==
  /\ poll = "begin" /\ server = "up" /\ client = "open"
  /\ txn' = db
  /\ fetched' = NoRows
  /\ Awaits("calls", deadline)
  /\ UNCHANGED <<clock, server, db, client, next_tick, polled_at, snapshot>>

read_committed == db

(* What the transaction's queries see: REPEATABLE READ.                    *)
repeatable_read == txn

(* fetch_in_transaction: SERIES_SQL, BUCKETS_SQL, RECENT_SQL, one by one.  *)
After(step) == CASE step = "calls" -> "buckets" [] step = "buckets" -> "recent" [] step = "recent" -> "rollback"

query(step) ==
  /\ poll = step /\ server = "up" /\ client = "open"
  /\ fetched' = [fetched EXCEPT ![step] = [q \in Queries |-> repeatable_read[q][step]]]
  /\ polled_at' = IF step = "recent" THEN clock ELSE polled_at
  /\ Awaits(After(step), deadline)
  /\ UNCHANGED <<clock, server, db, client, next_tick, txn, snapshot>>

rollback ==
  /\ poll = "rollback" /\ server = "up" /\ client = "open"
  /\ snapshot' = [up |-> TRUE, polled_at |-> polled_at, rows |-> fetched]
  /\ Awaits("idle", 0)
  /\ UNCHANGED <<clock, server, db, client, next_tick, txn, fetched, polled_at>>

mark_down == snapshot' = Down

no_timeout == FALSE

TimedOut == clock >= deadline

(* Any await may fail or time out: the source is marked down and the       *)
(* connection dropped.  Of ROLLBACK only the timeout counts.               *)
poll_fails ==
  /\ poll # "idle"
  /\ poll # "rollback" \/ TimedOut
  /\ mark_down
  /\ client' = "none"
  /\ Awaits("idle", 0)
  /\ UNCHANGED <<clock, server, db, next_tick, txn, fetched, polled_at>>

rollback_ignored ==
  /\ poll = "rollback" /\ (server = "down" \/ client # "open")
  /\ snapshot' = [up |-> TRUE, polled_at |-> polled_at, rows |-> fetched]
  /\ Awaits("idle", 0)
  /\ UNCHANGED <<clock, server, db, client, next_tick, txn, fetched, polled_at>>

(* Time passes unless the loop has something to do at once.                *)
MustAct ==
  \/ poll = "idle" /\ clock >= next_tick
  \/ poll # "idle" /\ TimedOut
time_passes ==
  /\ clock < MaxTime
  /\ ~MustAct
  /\ clock' = clock + 1
  /\ UNCHANGED <<server, db, client, poll, next_tick, deadline, txn, fetched, polled_at, snapshot>>

SourceInit ==
  /\ clock = 0 /\ server = "up"
  /\ db = [q \in Queries |-> [calls |-> 0, buckets |-> 0, recent |-> 0]]
  /\ client = "none" /\ poll = "idle" /\ next_tick = 0 /\ deadline = 0
  /\ txn = db /\ fetched = NoRows /\ polled_at = 0
  /\ snapshot = Down

Poller ==
  \/ ticker_tick \/ connect \/ begin_transaction
  \/ \E step \in {"calls", "buckets", "recent"} : query(step)
  \/ rollback \/ rollback_ignored \/ poll_fails

SourceNext ==
  \/ \E q \in Queries : persist(q)
  \/ \E to \in {"hung", "down"} : fails(to)
  \/ recovers
  \/ Poller
  \/ time_passes

SourceSpec == SourceInit /\ [][SourceNext]_sourceVars

-----------------------------------------------------------------------------
(* families: what a scrape shows of a query.                               *)
histogram_metric(q) ==
  [sample_count |-> snapshot.rows.calls[q], top |-> snapshot.rows.buckets[q]]

(* A scrape shows one moment: the calls, the histogram and the recent rate *)
(* of a query are of the same state of the database, however many commits  *)
(* came between the queries of a poll.                                     *)
ScrapeIsOneMoment ==
  snapshot.up => \A q \in Queries :
    /\ histogram_metric(q).top = histogram_metric(q).sample_count
    /\ snapshot.rows.recent[q] = snapshot.rows.calls[q]

(* What a scrape shows as up is recent: a server that hangs, at any await, *)
(* does not leave the last values served as live for longer than the poll  *)
(* that read them and the connect and fetch of the next may take.          *)
NeverServedStale ==
  snapshot.up => clock - snapshot.polled_at <= 3 * timeout
=============================================================================
