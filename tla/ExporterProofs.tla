--------------------------- MODULE ExporterProofs ---------------------------
(***************************************************************************)
(* The exporter's daemon, PostgreSQL source and metrics, for any value of  *)
(* their constants: an exporter whose passes succeed stays ready; what a   *)
(* scrape shows of the source is one moment of the database, at most three *)
(* timeouts old; what it shows of the queries is no more hashes than the   *)
(* limit, none of them in part.                                            *)
(***************************************************************************)
EXTENDS PostgresSource, QuerySeries, ExporterDaemon, SequenceTheorems,
        FiniteSetTheorems, WellFoundedInduction, TLAPS

-----------------------------------------------------------------------------
(* The PostgreSQL source (postgres_source.rs).                             *)
Steps == {"calls", "buckets", "recent"}
PollStates == {"idle", "connect", "begin", "rollback"} \cup Steps

(* The views of one moment: a call is in the bucket that it is counted in. *)
Moments ==
  {d \in [Queries -> [Steps -> Nat]] :
     \A q \in Queries : d[q]["buckets"] = d[q]["calls"] /\ d[q]["recent"] = d[q]["calls"]}

Column(d, step) == [q \in Queries |-> d[q][step]]

(* What a transaction has read after the queries in S.                     *)
HasRead(rows, S) == \A step \in S : rows[step] = Column(txn, step)

OfOneMoment(rows) ==
  \A q \in Queries : rows["buckets"][q] = rows["calls"][q] /\ rows["recent"][q] = rows["calls"][q]

MomentInv ==
  /\ poll \in PollStates
  /\ db \in Moments /\ txn \in Moments
  /\ DOMAIN fetched = Steps
  /\ poll = "buckets" => HasRead(fetched, {"calls"})
  /\ poll = "recent" => HasRead(fetched, {"calls", "buckets"})
  /\ poll = "rollback" => HasRead(fetched, Steps)
  /\ snapshot.up => OfOneMoment(snapshot.rows)

ClockInv ==
  /\ poll \in PollStates
  /\ clock \in Nat /\ next_tick \in Nat /\ deadline \in Nat /\ polled_at \in Nat
  /\ snapshot.polled_at \in Nat
  /\ next_tick <= clock + timeout
  /\ poll # "idle" => clock <= deadline /\ deadline <= clock + timeout
  /\ poll = "rollback" => deadline <= polled_at + timeout /\ next_tick <= polled_at + timeout
  /\ snapshot.up =>
       /\ poll = "idle" => /\ clock <= snapshot.polled_at + timeout
                           /\ next_tick <= snapshot.polled_at + timeout
       /\ poll = "connect" => deadline <= snapshot.polled_at + 2 * timeout
       /\ poll \notin {"idle", "connect"} => deadline <= snapshot.polled_at + 3 * timeout

-----------------------------------------------------------------------------
(* poll_loop's timeout is the interval, or the shortest timeout.           *)
LEMMA TimeoutBounds == timeout \in Nat /\ interval <= timeout /\ interval \in Nat
  BY IntervalAssumption DEF timeout

(* Every moment the clock invariant is about: no await outlasts its        *)
(* deadline, and a tick comes no later than a timeout after the last.      *)
LEMMA ClockInitially == SourceInit => ClockInv
  BY TimeoutBounds DEF SourceInit, ClockInv, PollStates, Steps, Down

LEMMA ClockKept == ClockInv /\ [SourceNext]_sourceVars => ClockInv'
<1> SUFFICES ASSUME ClockInv, [SourceNext]_sourceVars PROVE ClockInv'
  OBVIOUS
<1> timeout' = timeout BY DEF timeout
<1> USE TimeoutBounds
<1>1. CASE UNCHANGED sourceVars BY <1>1 DEF ClockInv, sourceVars
<1>2. CASE \E q \in Queries : persist(q) BY <1>2 DEF ClockInv, persist
<1>3. CASE \E to \in {"hung", "down"} : fails(to) BY <1>3 DEF ClockInv, fails
<1>4. CASE recovers BY <1>4 DEF ClockInv, recovers
<1>5. CASE ticker_tick BY <1>5 DEF ClockInv, ticker_tick, Awaits, PollStates
<1>6. CASE connect BY <1>6 DEF ClockInv, connect, Awaits, PollStates
<1>7. CASE begin_transaction BY <1>7 DEF ClockInv, begin_transaction, Awaits, PollStates, Steps
<1>8. ASSUME NEW step \in Steps, query(step) PROVE ClockInv'
  <2>1. CASE step = "calls" BY <1>8, <2>1 DEF ClockInv, query, Awaits, After, PollStates, Steps
  <2>2. CASE step = "buckets" BY <1>8, <2>2 DEF ClockInv, query, Awaits, After, PollStates, Steps
  <2>3. CASE step = "recent" BY <1>8, <2>3 DEF ClockInv, query, Awaits, After, PollStates, Steps
  <2> QED BY <2>1, <2>2, <2>3 DEF Steps
<1>9. CASE rollback BY <1>9 DEF ClockInv, rollback, Awaits, PollStates
<1>10. CASE rollback_ignored BY <1>10 DEF ClockInv, rollback_ignored, Awaits, PollStates
<1>11. CASE poll_fails BY <1>11 DEF ClockInv, poll_fails, mark_down, Down, Awaits, PollStates
<1>12. CASE time_passes BY <1>12 DEF ClockInv, time_passes, MustAct, TimedOut
<1> QED
  BY <1>1, <1>2, <1>3, <1>4, <1>5, <1>6, <1>7, <1>8, <1>9, <1>10, <1>11, <1>12
  DEF SourceNext, Poller, Steps

-----------------------------------------------------------------------------
LEMMA MomentInitially == SourceInit => MomentInv
  BY DEF SourceInit, MomentInv, Moments, PollStates, Steps, NoRows, Down

(* A call is persisted in all of its row's columns at once.                *)
LEMMA PersistIsOneMoment ==
  ASSUME db \in Moments, NEW q \in Queries, persist(q)
  PROVE  db' \in Moments
  BY DEF Moments, persist, Steps

LEMMA MomentKept == MomentInv /\ [SourceNext]_sourceVars => MomentInv'
<1> SUFFICES ASSUME MomentInv, [SourceNext]_sourceVars PROVE MomentInv'
  OBVIOUS
<1> USE DEF HasRead, OfOneMoment
<1>1. CASE UNCHANGED sourceVars BY <1>1 DEF MomentInv, sourceVars, Column
<1>2. ASSUME NEW q \in Queries, persist(q) PROVE MomentInv'
  BY <1>2, PersistIsOneMoment DEF MomentInv, persist, Column
<1>3. CASE \E to \in {"hung", "down"} : fails(to) BY <1>3 DEF MomentInv, fails, Column
<1>4. CASE recovers BY <1>4 DEF MomentInv, recovers, Column
<1>5. CASE ticker_tick BY <1>5 DEF MomentInv, ticker_tick, Awaits, PollStates
<1>6. CASE connect BY <1>6 DEF MomentInv, connect, Awaits, PollStates
<1>7. CASE begin_transaction
  BY <1>7 DEF MomentInv, begin_transaction, Awaits, PollStates, Steps, NoRows
<1>8. ASSUME NEW step \in Steps, query(step) PROVE MomentInv'
  <2>1. /\ DOMAIN fetched' = Steps /\ fetched'[step] = Column(txn', step)
        /\ \A s \in Steps \ {step} : fetched'[s] = fetched[s]
    BY <1>8 DEF MomentInv, query, repeatable_read, Column
  <2>2. txn' = txn /\ db' = db /\ snapshot' = snapshot /\ poll = step /\ poll' = After(step)
    BY <1>8 DEF query, Awaits
  <2>3. CASE step = "calls" BY <2>1, <2>2, <2>3 DEF MomentInv, After, PollStates, Steps
  <2>4. CASE step = "buckets" BY <2>1, <2>2, <2>4 DEF MomentInv, After, PollStates, Steps, Column
  <2>5. CASE step = "recent" BY <2>1, <2>2, <2>5 DEF MomentInv, After, PollStates, Steps, Column
  <2> QED BY <2>3, <2>4, <2>5 DEF Steps
<1>9. CASE rollback \/ rollback_ignored
  <2>1. /\ poll = "rollback" /\ poll' = "idle" /\ db' = db /\ txn' = txn /\ fetched' = fetched
        /\ snapshot'.rows = fetched
    BY <1>9 DEF rollback, rollback_ignored, Awaits
  <2>2. OfOneMoment(fetched) BY <2>1 DEF MomentInv, Moments, Column, Steps
  <2> QED BY <2>1, <2>2 DEF MomentInv, PollStates
<1>10. CASE poll_fails BY <1>10 DEF MomentInv, poll_fails, mark_down, Down, Awaits, PollStates
<1>11. CASE time_passes BY <1>11 DEF MomentInv, time_passes, Column
<1> QED
  BY <1>1, <1>2, <1>3, <1>4, <1>5, <1>6, <1>7, <1>8, <1>9, <1>10, <1>11
  DEF SourceNext, Poller, Steps

-----------------------------------------------------------------------------
(* A value served as live is no older than three timeouts, wherever the    *)
(* server stops answering (poll_loop's timeouts in postgres_source.rs).    *)
THEOREM ServedValuesAreRecent == SourceSpec => []NeverServedStale
<1>1. ClockInv => NeverServedStale
  BY TimeoutBounds DEF ClockInv, NeverServedStale, PollStates
<1> QED BY <1>1, ClockInitially, ClockKept, PTL DEF SourceSpec

(* Counts, buckets and recent rates of a scrape are of one state of the    *)
(* database: fetch reads them in one REPEATABLE READ transaction.          *)
THEOREM ScrapesAreConsistent == SourceSpec => []ScrapeIsOneMoment
<1>1. MomentInv => ScrapeIsOneMoment
  BY DEF MomentInv, ScrapeIsOneMoment, histogram_metric, OfOneMoment
<1> QED BY <1>1, MomentInitially, MomentKept, PTL DEF SourceSpec

-----------------------------------------------------------------------------
(* The metrics of queries (prometheus_backend.rs).  A series is in the     *)
(* list of those being removed.                                            *)
Listed(s) == \E i \in 1 .. Len(removing) : removing[i] = s

Metrics == {Emissions[i] : i \in 1 .. Len(Emissions)}

AllSeries ==
  {Series(metric, hash, database) : metric \in Metrics, hash \in Hashes, database \in Databases}

TheSeries == Series(Recorded, emission.hash, emission.database)

SeriesTypes ==
  /\ max_query_cardinality \in Cardinalities
  /\ \/ emission = NoEmission
     \/ emission \in [hash : Hashes, database : Databases, step : 1 .. Len(Emissions),
                      phase : {"note", "observe", "forward"}]
  /\ series \subseteq AllSeries /\ otel \subseteq AllSeries
  /\ removing \in Seq([metric : PerQuery, hash : Hashes, database : Databases])

LimiterTypes ==
  /\ tick \in Nat
  /\ DOMAIN entries \subseteq Hashes
  /\ \A h \in DOMAIN entries :
       /\ entries[h].databases \subseteq Databases /\ IsFiniteSet(entries[h].databases)
       /\ entries[h].executions \subseteq Databases /\ IsFiniteSet(entries[h].executions)
  /\ DOMAIN order \subseteq 1 .. tick
  /\ {order[t] : t \in DOMAIN order} = DOMAIN entries

(* The limiter tracks no more hashes than it may.                          *)
LimitHolds ==
  IsFiniteSet(DOMAIN entries) /\ Cardinality(DOMAIN entries) <= max_query_cardinality

(* The limiter knows of a series if it would remove it.                    *)
Tracked(s) ==
  /\ s.hash \in DOMAIN entries
  /\ s.database \in IF s.metric = "query_executions" THEN entries[s.hash].executions
                    ELSE entries[s.hash].databases

NoOrphans == \A s \in series : s.hash = "none" \/ Tracked(s) \/ Listed(s)

(* What is being removed is the series of one hash, evicted for another    *)
(* that has none yet.                                                      *)
OneIsRemoved ==
  removing # <<>> =>
    /\ emission.phase = "observe" /\ emission.hash \in DOMAIN entries
    /\ \A s \in series : s.hash # emission.hash
    /\ \E g \in Hashes \ DOMAIN entries : \A i \in 1 .. Len(removing) : removing[i].hash = g

EachIsShown ==
  \A h \in DOMAIN entries :
    \/ \E s \in series : s.hash = h
    \/ emission.phase = "observe" /\ Recorded \in PerQuery /\ emission.hash = h

(* A series is shown before it is forwarded.                               *)
ForwardedLast ==
  /\ emission.phase = "forward" => TheSeries \in series
  /\ \A s \in series \ otel : emission.phase = "forward" /\ s = TheSeries

(* The series that the query being recorded is still to get.               *)
Pending(s) ==
  /\ s.hash = emission.hash /\ s.database = emission.database
  /\ \E i \in emission.step .. Len(Emissions) :
       Emissions[i] = s.metric /\ (emission.phase = "forward" => i # emission.step)

NothingMissing ==
  \A s \in otel : s.hash \in DOMAIN entries /\ s.database \in entries[s.hash].databases
                    => s \in series \/ Pending(s)

(* The hash being recorded is tracked from its first metric on.            *)
EmittedIsTracked ==
  /\ emission.step > 1 \/ emission.phase \in {"observe", "forward"} =>
       emission.hash \in DOMAIN entries /\ emission.database \in entries[emission.hash].databases
  /\ emission.phase \in {"observe", "forward"} /\ Recorded = "query_executions" =>
       emission.database \in entries[emission.hash].executions

SeriesInv ==
  /\ SeriesTypes
  /\ max_query_cardinality > 0 =>
       /\ LimiterTypes /\ LimitHolds /\ NoOrphans /\ OneIsRemoved /\ EachIsShown
       /\ ForwardedLast /\ NothingMissing /\ EmittedIsTracked
  /\ removing # <<>> => max_query_cardinality > 0

-----------------------------------------------------------------------------
(* What the metrics of the model are.                                      *)
LEMMA EmissionFacts ==
  /\ Len(Emissions) = 12 /\ DOMAIN Emissions = 1 .. 12
  /\ \A i \in 1 .. 12 : Emissions[i] \in Metrics
  /\ \A m \in Metrics : \E i \in 1 .. 12 : Emissions[i] = m
  /\ Emissions[1] \in PerQuery
<1>1. Len(Emissions) = 12 /\ DOMAIN Emissions = 1 .. 12 BY DEF Emissions
<1>2. Emissions[1] \in PerQuery BY DEF Emissions, PerQuery
<1> QED BY <1>1, <1>2 DEF Metrics

(* remove_query_series leaves out no metric with the label of a hash.      *)
LEMMA RemovedFacts ==
  /\ Len(Removed) = 9 /\ DOMAIN Removed = 1 .. 9
  /\ \A k \in 1 .. 9 : Removed[k] \in PerQuery
  /\ \A m \in PerQuery : m = "query_executions" \/ \E k \in 1 .. 9 : Removed[k] = m
  /\ "query_executions" \in PerQuery
<1>1. Len(Removed) = 9 /\ DOMAIN Removed = 1 .. 9 BY DEF Removed
<1>2. \A k \in 1 .. 9 : Removed[k] \in PerQuery
  <2> SUFFICES ASSUME NEW k \in 1 .. 9 PROVE Removed[k] \in PerQuery OBVIOUS
  <2>1. k \in {1, 2, 3, 4, 5, 6, 7, 8, 9} OBVIOUS
  <2> QED BY <2>1 DEF Removed, PerQuery
<1>3. ASSUME NEW m \in PerQuery, m # "query_executions"
      PROVE  \E k \in 1 .. 9 : Removed[k] = m
  <2>1. /\ Removed[1] = "query_duration" /\ Removed[2] = "query_plan_cost"
        /\ Removed[3] = "query_rows_examined" /\ Removed[4] = "query_latency_cv"
        /\ Removed[5] = "query_total_time_share_pct"
        /\ Removed[6] = "query_latency_p95_ms" /\ Removed[7] = "query_latency_p99_ms"
        /\ Removed[8] = "query_first_seen_seconds"
        /\ Removed[9] = "query_last_seen_seconds"
    BY DEF Removed
  <2> QED BY <1>3, <2>1, 1 \in 1 .. 9, 2 \in 1 .. 9, 3 \in 1 .. 9, 4 \in 1 .. 9,
             5 \in 1 .. 9, 6 \in 1 .. 9, 7 \in 1 .. 9, 8 \in 1 .. 9, 9 \in 1 .. 9
          DEF PerQuery
<1>4. "query_executions" \in PerQuery BY DEF PerQuery
<1> QED BY <1>1, <1>2, <1>3, <1>4

(* The labels of a series.                                                 *)
LEMMA SeriesIsRecord ==
  ASSUME NEW m, NEW h, NEW d
  PROVE  /\ Series(m, h, d).metric = m /\ Series(m, h, d).database = d
         /\ Series(m, h, d).hash = IF m \in PerQuery THEN h ELSE "none"
  BY DEF Series

(* A sequence of the elements of a set has each of them.                   *)
LEMMA SequenceOfSet ==
  ASSUME NEW S, IsFiniteSet(S)
  PROVE  /\ SetToSeq(S) \in Seq(S)
         /\ \A x \in S : \E i \in 1 .. Len(SetToSeq(S)) : SetToSeq(S)[i] = x
<1> DEFINE n == Cardinality(S)
           s == SetToSeq(S)
<1>1. n \in Nat /\ ExistsBijection(1 .. n, S) BY FS_CardinalityType
<1>2. \E f \in [1 .. n -> S] : IsInjective(f)
  BY <1>1, Zenon DEF ExistsBijection, Bijection, Injection
<1>3. s \in [1 .. n -> S] /\ IsInjective(s) BY <1>2, Zenon DEF SetToSeq
<1>4. s \in Injection(1 .. n, S) BY <1>3, Zenon DEF Injection
<1>5. Cardinality(1 .. n) = n BY <1>1, FS_Interval
<1>6. s \in Surjection(1 .. n, S)
  <2> HIDE DEF s
  <2> QED BY <1>4, <1>5, FS_Injection, Zenon
<1>7. s \in Seq(S) /\ Len(s) = n
  <2> HIDE DEF s, n
  <2> QED BY <1>1, <1>3
<1>8. \A x \in S : \E i \in 1 .. n : s[i] = x BY <1>6, Zenon DEF Surjection
<1> QED BY <1>7, <1>8

(* The parts of a concatenation.                                           *)
LEMMA TwoParts ==
  ASSUME NEW X, NEW p \in Nat, NEW q \in Nat,
         NEW a \in [1 .. p -> X], NEW b \in [1 .. q -> X]
  PROVE  /\ a \o b \in Seq(X) /\ Len(a \o b) = p + q
         /\ \A i \in 1 .. p : (a \o b)[i] = a[i]
         /\ \A i \in 1 .. q : (a \o b)[p + i] = b[i]
<1>1. a \in Seq(X) /\ Len(a) = p OBVIOUS
<1>2. b \in Seq(X) /\ Len(b) = q OBVIOUS
<1>3. a \o b \in Seq(X) /\ Len(a \o b) = p + q BY <1>1, <1>2
<1>4. \A i \in 1 .. p : (a \o b)[i] = a[i] BY <1>1, <1>2
<1>5. \A i \in 1 .. q : (a \o b)[p + i] = b[i]
  <2> SUFFICES ASSUME NEW i \in 1 .. q PROVE (a \o b)[p + i] = b[i] OBVIOUS
  <2>1. p + i \in 1 .. p + q /\ p + i > p /\ p + i - p = i OBVIOUS
  <2> QED BY <1>1, <1>2, <2>1
<1> QED BY <1>3, <1>4, <1>5

(* remove_query_series names every series that the limiter knows of a      *)
(* hash, and none of another.                                              *)
LEMMA RemovesTheTracked ==
  ASSUME NEW g \in DOMAIN entries, g \in Hashes, LimiterTypes
  PROVE  LET r == remove_query_series(g)
         IN /\ r \in Seq([metric : PerQuery, hash : Hashes, database : Databases])
            /\ \A i \in 1 .. Len(r) : r[i].hash = g
            /\ \A s \in AllSeries : s.hash = g /\ Tracked(s) => \E i \in 1 .. Len(r) : r[i] = s
<1> DEFINE ds == SetToSeq(entries[g].databases)
           es == SetToSeq(entries[g].executions)
           X == [metric : PerQuery, hash : Hashes, database : Databases]
           a == [i \in 1 .. 9 * Len(ds) |->
                   Series(Removed[((i - 1) % 9) + 1], g, ds[((i - 1) \div 9) + 1])]
           b == [i \in 1 .. Len(es) |-> Series("query_executions", g, es[i])]
           r == remove_query_series(g)
<1>1. r = a \o b BY RemovedFacts DEF remove_query_series
<1>2. /\ ds \in Seq(Databases)
      /\ \A d \in entries[g].databases : \E i \in 1 .. Len(ds) : ds[i] = d
  <2>1. ds \in Seq(entries[g].databases)
        /\ \A d \in entries[g].databases : \E i \in 1 .. Len(ds) : ds[i] = d
    BY SequenceOfSet DEF LimiterTypes
  <2>2. entries[g].databases \subseteq Databases BY DEF LimiterTypes
  <2> HIDE DEF ds
  <2> QED BY <2>1, <2>2
<1>3. /\ es \in Seq(Databases)
      /\ \A d \in entries[g].executions : \E i \in 1 .. Len(es) : es[i] = d
  <2>1. es \in Seq(entries[g].executions)
        /\ \A d \in entries[g].executions : \E i \in 1 .. Len(es) : es[i] = d
    BY SequenceOfSet DEF LimiterTypes
  <2>2. entries[g].executions \subseteq Databases BY DEF LimiterTypes
  <2> HIDE DEF es
  <2> QED BY <2>1, <2>2
<1> HIDE DEF ds, es
<1>4. ASSUME NEW m \in PerQuery, NEW d \in Databases
      PROVE  Series(m, g, d) = [metric |-> m, hash |-> g, database |-> d]
             /\ Series(m, g, d) \in X
  BY <1>4 DEF Series
<1>5. ASSUME NEW i \in 1 .. 9 * Len(ds)
      PROVE  /\ ((i - 1) % 9) + 1 \in 1 .. 9
             /\ ((i - 1) \div 9) + 1 \in 1 .. Len(ds)
  BY <1>2
<1>6. ASSUME NEW i \in 1 .. 9 * Len(ds) PROVE a[i] \in X /\ a[i].hash = g
  <2>1. a[i] = Series(Removed[((i - 1) % 9) + 1], g, ds[((i - 1) \div 9) + 1]) OBVIOUS
  <2>2. Removed[((i - 1) % 9) + 1] \in PerQuery BY <1>5, RemovedFacts
  <2>3. ds[((i - 1) \div 9) + 1] \in Databases BY <1>2, <1>5
  <2> HIDE DEF a
  <2> QED BY <2>1, <2>2, <2>3, <1>4
<1>7. ASSUME NEW i \in 1 .. Len(es) PROVE b[i] \in X /\ b[i].hash = g
  BY <1>3, <1>4, RemovedFacts
<1>8. 9 * Len(ds) \in Nat /\ Len(es) \in Nat BY <1>2, <1>3
<1>9. a \in [1 .. 9 * Len(ds) -> X] /\ b \in [1 .. Len(es) -> X]
  <2> HIDE DEF X
  <2> QED BY <1>6, <1>7
<1>10. /\ r \in Seq(X) /\ Len(r) = 9 * Len(ds) + Len(es)
       /\ \A i \in 1 .. 9 * Len(ds) : r[i] = a[i]
       /\ \A i \in 1 .. Len(es) : r[9 * Len(ds) + i] = b[i]
  <2> DEFINE p == 9 * Len(ds)
             q == Len(es)
  <2>1. p \in Nat /\ q \in Nat BY <1>8
  <2>2. a \in [1 .. p -> X] /\ b \in [1 .. q -> X] BY <1>9
  <2> SUFFICES /\ r \in Seq(X) /\ Len(r) = p + q
               /\ \A i \in 1 .. p : r[i] = a[i]
               /\ \A i \in 1 .. q : r[p + i] = b[i]
    OBVIOUS
  <2> HIDE DEF a, b, X, r, p, q
  <2>3. /\ a \o b \in Seq(X) /\ Len(a \o b) = p + q
        /\ \A i \in 1 .. p : (a \o b)[i] = a[i]
        /\ \A i \in 1 .. q : (a \o b)[p + i] = b[i]
    BY <2>1, <2>2, TwoParts
  <2> QED BY <1>1, <2>3
<1>11. \A i \in 1 .. Len(r) : r[i].hash = g
  <2> SUFFICES ASSUME NEW i \in 1 .. Len(r) PROVE r[i].hash = g OBVIOUS
  <2>1. CASE i \in 1 .. 9 * Len(ds) BY <2>1, <1>6, <1>10
  <2>2. CASE i \notin 1 .. 9 * Len(ds)
    <3>1. i - 9 * Len(ds) \in 1 .. Len(es) BY <2>2, <1>2, <1>3, <1>10
    <3>2. r[i] = b[i - 9 * Len(ds)]
      <4>1. i = 9 * Len(ds) + (i - 9 * Len(ds)) BY <1>2
      <4> HIDE DEF b, r
      <4> QED BY <3>1, <4>1, <1>10
    <3> QED BY <3>1, <3>2, <1>7
  <2> QED BY <2>1, <2>2
<1>12. ASSUME NEW s \in AllSeries, s.hash = g, Tracked(s)
       PROVE  \E i \in 1 .. Len(r) : r[i] = s
  <2>1. PICK m \in Metrics, h \in Hashes, d \in Databases : s = Series(m, h, d)
    BY DEF AllSeries
  <2>2. m \in PerQuery /\ s = Series(m, g, d) /\ s.metric = m /\ s.database = d
    BY <1>12, <2>1, SeriesIsRecord, SeriesAssumption
  <2>3. CASE m = "query_executions"
    <3>1. PICK j \in 1 .. Len(es) : es[j] = d BY <1>3, <1>12, <2>2, <2>3 DEF Tracked
    <3>2. b[j] = s BY <3>1, <2>2, <2>3
    <3>3. 9 * Len(ds) + j \in 1 .. Len(r) BY <1>2, <1>3, <1>10
    <3> QED BY <3>2, <3>3, <1>10
  <2>4. CASE m # "query_executions"
    <3>1. PICK j \in 1 .. Len(ds) : ds[j] = d BY <1>2, <1>12, <2>2, <2>4 DEF Tracked
    <3>2. PICK k \in 1 .. 9 : Removed[k] = m BY <2>2, <2>4, RemovedFacts
    <3> DEFINE i == 9 * (j - 1) + k
    <3>3. /\ i \in 1 .. 9 * Len(ds) /\ ((i - 1) % 9) + 1 = k
          /\ ((i - 1) \div 9) + 1 = j
      BY <1>2
    <3>4. a[i] = s
      <4>1. a[i] = Series(Removed[((i - 1) % 9) + 1], g, ds[((i - 1) \div 9) + 1])
        BY <3>3
      <4> HIDE DEF a, i
      <4> QED BY <3>1, <3>2, <3>3, <4>1, <2>2
    <3>5. i \in 1 .. Len(r) BY <1>2, <1>3, <1>10, <3>3
    <3> HIDE DEF i, a, r
    <3> QED BY <3>3, <3>4, <3>5, <1>10
  <2> QED BY <2>3, <2>4
<1> QED BY <1>10, <1>11, <1>12

(* The hash touched longest ago is one that the limiter tracks.            *)
LEMMA LeastTick ==
  ASSUME NEW ticks \in SUBSET Nat, ticks # {}
  PROVE  lru(ticks) \in ticks
<1>1. PICK t \in ticks : \A u \in ticks : ~(<<u, t>> \in OpToRel(<, Nat))
  BY NatLessThanWellFounded, WFMin
<1>2. \A u \in ticks : t <= u
  <2> SUFFICES ASSUME NEW u \in ticks PROVE t <= u OBVIOUS
  <2>1. ~(u < t) BY <1>1 DEF OpToRel
  <2> QED BY <2>1
<1> QED BY <1>2, Zenon DEF lru

(* A hash is evicted only for a new one, and at the limit.                 *)
LEMMA EvictedIsTracked ==
  ASSUME LimiterTypes, LimitHolds, max_query_cardinality \in Nat \ {0},
         NEW hash, evict_lru(hash) # NoHash
  PROVE  LET g == order[lru(DOMAIN order)]
         IN /\ evict_lru(hash) = {g} /\ hash \notin DOMAIN entries /\ g \in DOMAIN entries
            /\ Cardinality(DOMAIN entries) = max_query_cardinality
<1>1. /\ hash \notin DOMAIN entries
      /\ Cardinality(DOMAIN entries) >= max_query_cardinality
      /\ evict_lru(hash) = {order[lru(DOMAIN order)]}
  BY Zenon DEF evict_lru, NoHash
<1>2. Cardinality(DOMAIN entries) = max_query_cardinality
  BY <1>1, FS_CardinalityType DEF LimitHolds
<1>3. DOMAIN entries # {} BY <1>2, FS_EmptySet
<1>4. DOMAIN order # {} BY <1>3, Zenon DEF LimiterTypes
<1>5. DOMAIN order \in SUBSET Nat BY DEF LimiterTypes
<1>6. lru(DOMAIN order) \in DOMAIN order BY <1>4, <1>5, LeastTick
<1> QED BY <1>1, <1>2, <1>6, Zenon DEF LimiterTypes

(* What touch does to the limiter.                                         *)
LEMMA TouchKeepsLimiter ==
  ASSUME LimiterTypes, LimitHolds, max_query_cardinality \in Nat \ {0},
         NEW hash \in Hashes, NEW database \in Databases,
         NEW status \in SUBSET Databases, IsFiniteSet(status),
         touch(hash, database, status),
         UNCHANGED max_query_cardinality
  PROVE  /\ LimiterTypes' /\ LimitHolds'
         /\ DOMAIN entries' = (DOMAIN entries \ evict_lru(hash)) \cup {hash}
         /\ \A h \in DOMAIN entries' : h # hash => entries'[h] = entries[h]
         /\ entries'[hash].databases =
              (IF hash \in DOMAIN entries THEN entries[hash].databases ELSE {}) \cup {database}
         /\ entries'[hash].executions =
              (IF hash \in DOMAIN entries THEN entries[hash].executions ELSE {}) \cup status
<1> DEFINE kept == DOMAIN entries \ evict_lru(hash)
           ticks == {t \in DOMAIN order : order[t] \in kept \ {hash}}
<1>1. /\ tick' = tick + 1
      /\ entries' = [h \in kept \cup {hash} |->
                       IF h = hash THEN touched_entry(hash, database, status) ELSE entries[h]]
      /\ order' = [t \in ticks \cup {tick + 1} |-> IF t = tick + 1 THEN hash ELSE order[t]]
  BY Zenon DEF touch
<1>2. DOMAIN entries' = kept \cup {hash} BY <1>1, Zenon
<1>3. \A h \in DOMAIN entries' : h # hash => entries'[h] = entries[h] BY <1>1, Zenon
<1>4. entries'[hash] = touched_entry(hash, database, status) BY <1>1, Zenon
<1>5. /\ entries'[hash].databases =
           (IF hash \in DOMAIN entries THEN entries[hash].databases ELSE {}) \cup {database}
      /\ entries'[hash].executions =
           (IF hash \in DOMAIN entries THEN entries[hash].executions ELSE {}) \cup status
  BY <1>4 DEF touched_entry, Entry, NewEntry
<1>6. tick \in Nat /\ DOMAIN order \subseteq 1 .. tick
      /\ {order[t] : t \in DOMAIN order} = DOMAIN entries
  BY DEF LimiterTypes
<1>7. tick' \in Nat /\ DOMAIN order' \subseteq 1 .. tick'
  BY <1>1, <1>6
<1>8. {order'[t] : t \in DOMAIN order'} = DOMAIN entries'
  <2>1. tick + 1 \notin DOMAIN order BY <1>6
  <2>2. DOMAIN order' = ticks \cup {tick + 1} /\ order'[tick + 1] = hash
    BY <1>1, Zenon
  <2>3. \A t \in ticks : order'[t] = order[t]
    BY <1>1, <2>1, Zenon
  <2>4. \A t \in DOMAIN order' : order'[t] \in DOMAIN entries'
    BY <1>2, <2>2, <2>3, Zenon
  <2>5. ASSUME NEW h \in DOMAIN entries' PROVE \E t \in DOMAIN order' : order'[t] = h
    <3>1. CASE h = hash BY <3>1, <2>2, Zenon
    <3>2. CASE h # hash
      <4>1. h \in kept BY <3>2, <1>2
      <4>2. PICK t \in DOMAIN order : order[t] = h BY <4>1, <1>6
      <4>3. t \in ticks BY <4>1, <4>2, <3>2
      <4> QED BY <4>2, <4>3, <2>2, <2>3, Zenon
    <3> QED BY <3>1, <3>2
  <2> QED BY <2>4, <2>5
<1>9. ASSUME NEW h \in DOMAIN entries'
      PROVE /\ h \in Hashes
            /\ entries'[h].databases \subseteq Databases /\ IsFiniteSet(entries'[h].databases)
            /\ entries'[h].executions \subseteq Databases /\ IsFiniteSet(entries'[h].executions)
  <2>1. CASE h # hash
    <3>1. h \in DOMAIN entries /\ entries'[h] = entries[h] BY <2>1, <1>2, <1>3
    <3> QED BY <3>1, Zenon DEF LimiterTypes
  <2>2. CASE h = hash /\ hash \in DOMAIN entries
    <3>1. /\ entries[h].databases \subseteq Databases /\ IsFiniteSet(entries[h].databases)
          /\ entries[h].executions \subseteq Databases /\ IsFiniteSet(entries[h].executions)
      BY <2>2 DEF LimiterTypes
    <3>2. IsFiniteSet(entries[h].databases \cup {database})
      BY <3>1, FS_AddElement
    <3>3. IsFiniteSet(entries[h].executions \cup status)
      BY <3>1, FS_Union
    <3> QED BY <2>2, <3>1, <3>2, <3>3, <1>5
  <2>3. CASE h = hash /\ hash \notin DOMAIN entries
    <3>1. IsFiniteSet({database}) BY FS_Singleton
    <3>2. entries'[h].databases = {database} /\ entries'[h].executions = status
      BY <2>3, <1>5
    <3> QED BY <2>3, <3>1, <3>2
  <2> QED BY <2>1, <2>2, <2>3
<1>10. LimiterTypes'
  <2>1. \A h \in DOMAIN entries' :
          /\ entries'[h].databases \subseteq Databases /\ IsFiniteSet(entries'[h].databases)
          /\ entries'[h].executions \subseteq Databases /\ IsFiniteSet(entries'[h].executions)
    BY <1>9
  <2>2. DOMAIN entries' \subseteq Hashes BY <1>9
  <2> QED BY <1>7, <1>8, <2>1, <2>2, Zenon DEF LimiterTypes
<1>11. LimitHolds'
  <2>1. IsFiniteSet(DOMAIN entries) /\ Cardinality(DOMAIN entries) \in Nat
        /\ Cardinality(DOMAIN entries) <= max_query_cardinality
    BY FS_CardinalityType DEF LimitHolds
  <2>2. CASE evict_lru(hash) # NoHash
    <3>1. PICK g \in DOMAIN entries :
            evict_lru(hash) = {g} /\ hash \notin DOMAIN entries
      BY <2>2, EvictedIsTracked
    <3>2. kept = DOMAIN entries \ {g} BY <3>1
    <3>3. IsFiniteSet(kept) /\ Cardinality(kept) = Cardinality(DOMAIN entries) - 1
      BY <3>2, <2>1, FS_RemoveElement
    <3>4. /\ IsFiniteSet(kept \cup {hash})
          /\ Cardinality(kept \cup {hash}) = Cardinality(kept) + 1
      <4>1. hash \notin kept BY <3>1
      <4> HIDE DEF kept
      <4> QED BY <4>1, <3>3, FS_AddElement
    <3> HIDE DEF kept
    <3> QED BY <3>3, <3>4, <2>1, <1>2 DEF LimitHolds
  <2>3. CASE evict_lru(hash) = NoHash
    <3>1. kept = DOMAIN entries BY <2>3 DEF NoHash
    <3>2. CASE hash \in DOMAIN entries
      <4>1. DOMAIN entries' = DOMAIN entries BY <3>1, <3>2, <1>2
      <4> QED BY <4>1, <2>1, Zenon DEF LimitHolds
    <3>3. CASE hash \notin DOMAIN entries
      <4>1. ~(Cardinality(DOMAIN entries) >= max_query_cardinality)
        BY <2>3, <3>3, Zenon DEF evict_lru, NoHash
      <4>2. /\ IsFiniteSet(DOMAIN entries \cup {hash})
            /\ Cardinality(DOMAIN entries \cup {hash}) = Cardinality(DOMAIN entries) + 1
        BY <3>3, <2>1, FS_AddElement
      <4> HIDE DEF kept
      <4> QED BY <2>1, <3>1, <4>1, <4>2, <1>2 DEF LimitHolds
    <3> QED BY <3>2, <3>3
  <2> QED BY <2>2, <2>3
<1> QED BY <1>2, <1>3, <1>5, <1>10, <1>11

-----------------------------------------------------------------------------
(* Nothing is recorded, so nothing is missing.                             *)
LEMMA SeriesInitially == SeriesInit => SeriesInv
<1> SUFFICES ASSUME SeriesInit PROVE SeriesInv OBVIOUS
<1>1. /\ emission = NoEmission /\ series = {} /\ otel = {} /\ removing = <<>>
      /\ max_query_cardinality \in Cardinalities /\ tick = 0
      /\ DOMAIN entries = {} /\ DOMAIN order = {}
  BY DEF SeriesInit
<1>2. SeriesTypes BY <1>1 DEF SeriesTypes
<1>3. LimiterTypes BY <1>1 DEF LimiterTypes
<1>4. max_query_cardinality \in Nat BY <1>1, SeriesAssumption
<1>5. LimitHolds BY <1>1, <1>4, FS_EmptySet DEF LimitHolds
<1>6. NoOrphans /\ EachIsShown /\ ForwardedLast /\ NothingMissing /\ OneIsRemoved
  BY <1>1 DEF NoOrphans, EachIsShown, ForwardedLast, NothingMissing, OneIsRemoved, NoEmission
<1>7. EmittedIsTracked BY <1>1 DEF EmittedIsTracked, NoEmission
<1> QED BY <1>1, <1>2, <1>3, <1>5, <1>6, <1>7 DEF SeriesInv

(* A query is taken up when none is: its series are all pending.           *)
LEMMA QueryTaken ==
  ASSUME SeriesInv, NEW hash \in Hashes, NEW database \in Databases,
         update_query_metrics(hash, database)
  PROVE  SeriesInv'
<1>1. /\ emission = NoEmission
      /\ emission' = [hash |-> hash, database |-> database, step |-> 1, phase |-> "note"]
      /\ UNCHANGED <<max_query_cardinality, tick, entries, order, series, otel, removing>>
  BY DEF update_query_metrics, limiterVars
<1>2. SeriesTypes' BY <1>1, EmissionFacts DEF SeriesInv, SeriesTypes
<1>3. ASSUME max_query_cardinality > 0
      PROVE  /\ LimiterTypes' /\ LimitHolds' /\ NoOrphans' /\ OneIsRemoved' /\ EachIsShown'
             /\ ForwardedLast' /\ NothingMissing' /\ EmittedIsTracked'
  <2>1. /\ LimiterTypes /\ LimitHolds /\ NoOrphans /\ OneIsRemoved /\ EachIsShown
        /\ ForwardedLast /\ NothingMissing /\ EmittedIsTracked
    BY <1>3 DEF SeriesInv
  <2>2. emission.phase = "idle" /\ emission.hash = "none" /\ emission'.phase = "note"
        /\ emission'.step = 1
    BY <1>1 DEF NoEmission
  <2>3. LimiterTypes' /\ LimitHolds' BY <1>1, <2>1 DEF LimiterTypes, LimitHolds
  <2>4. NoOrphans' BY <1>1, <2>1 DEF NoOrphans, Tracked, Listed
  <2>5. OneIsRemoved' BY <1>1, <2>1, <2>2 DEF OneIsRemoved
  <2>6. EachIsShown' BY <1>1, <2>1, <2>2 DEF EachIsShown
  <2>7. ForwardedLast' BY <1>1, <2>1, <2>2 DEF ForwardedLast
  <2>8. NothingMissing'
    <3>1. ASSUME NEW s \in otel, s.hash \in DOMAIN entries,
                 s.database \in entries[s.hash].databases
          PROVE  s \in series
      <4>1. s.hash \in Hashes BY <2>1, <3>1 DEF LimiterTypes
      <4> QED BY <2>1, <2>2, <3>1, <4>1, SeriesAssumption DEF NothingMissing, Pending
    <3> QED BY <3>1, <1>1 DEF NothingMissing
  <2>9. EmittedIsTracked' BY <2>2 DEF EmittedIsTracked
  <2> QED BY <2>3, <2>4, <2>5, <2>6, <2>7, <2>8, <2>9
<1>4. max_query_cardinality' = max_query_cardinality /\ removing' = removing BY <1>1
<1> QED BY <1>2, <1>3, <1>4 DEF SeriesInv

(* The tail of a sequence has what the sequence has but its head.          *)
LEMMA TailHas ==
  ASSUME NEW X, NEW s \in Seq(X), s # <<>>
  PROVE  /\ Tail(s) \in Seq(X) /\ Head(s) = s[1] /\ 1 \in 1 .. Len(s)
         /\ \A i \in 1 .. Len(Tail(s)) : i + 1 \in 1 .. Len(s) /\ Tail(s)[i] = s[i + 1]
         /\ \A i \in 1 .. Len(s) : i = 1 \/ (i - 1 \in 1 .. Len(Tail(s)) /\ Tail(s)[i - 1] = s[i])
  OBVIOUS

(* Removing a series of the evicted hash leaves the others complete.       *)
LEMMA SeriesRemoved ==
  ASSUME SeriesInv, remove_label_values
  PROVE  SeriesInv'
<1>1. /\ removing # <<>> /\ series' = series \ {Head(removing)} /\ removing' = Tail(removing)
      /\ UNCHANGED <<max_query_cardinality, tick, entries, order, otel, emission>>
  BY DEF remove_label_values, limiterVars
<1> DEFINE X == [metric : PerQuery, hash : Hashes, database : Databases]
<1>2. removing \in Seq(X) BY DEF SeriesInv, SeriesTypes
<1>3. /\ Tail(removing) \in Seq(X) /\ Head(removing) = removing[1] /\ 1 \in 1 .. Len(removing)
      /\ \A i \in 1 .. Len(removing') : i + 1 \in 1 .. Len(removing)
                                        /\ removing'[i] = removing[i + 1]
      /\ \A i \in 1 .. Len(removing) :
           i = 1 \/ (i - 1 \in 1 .. Len(removing') /\ removing'[i - 1] = removing[i])
  <2> HIDE DEF X
  <2> QED BY <1>1, <1>2, TailHas
<1>4. SeriesTypes' BY <1>1, <1>3 DEF SeriesInv, SeriesTypes
<1>5. max_query_cardinality > 0 BY <1>1 DEF SeriesInv
<1>6. /\ LimiterTypes /\ LimitHolds /\ NoOrphans /\ OneIsRemoved /\ EachIsShown
      /\ ForwardedLast /\ NothingMissing /\ EmittedIsTracked
  BY <1>5 DEF SeriesInv
<1> HIDE DEF X
<1>7. PICK g \in Hashes \ DOMAIN entries : \A i \in 1 .. Len(removing) : removing[i].hash = g
  BY <1>1, <1>6 DEF OneIsRemoved
<1>8. \A s \in series : s.hash # g => s \in series'
  <2>1. Head(removing).hash = g BY <1>3, <1>7
  <2> QED BY <2>1, <1>1
<1>9. LimiterTypes' /\ LimitHolds' BY <1>1, <1>6 DEF LimiterTypes, LimitHolds
<1>10. NoOrphans'
  <2> SUFFICES ASSUME NEW s \in series', s.hash # "none", ~Tracked(s)
               PROVE  Listed(s)'
    BY <1>1 DEF NoOrphans, Tracked
  <2>1. s \in series /\ s # removing[1] BY <1>1, <1>3
  <2>2. PICK i \in 1 .. Len(removing) : removing[i] = s BY <2>1, <1>6 DEF NoOrphans, Listed
  <2>3. i - 1 \in 1 .. Len(removing') /\ removing'[i - 1] = s BY <2>1, <2>2, <1>3
  <2> QED BY <2>3 DEF Listed
<1>11. OneIsRemoved'
  <2>1. \A i \in 1 .. Len(removing') : removing'[i].hash = g BY <1>3, <1>7
  <2>2. /\ emission.phase = "observe" /\ emission.hash \in DOMAIN entries
        /\ \A s \in series : s.hash # emission.hash
    BY <1>1, <1>6 DEF OneIsRemoved
  <2> QED BY <2>1, <2>2, <1>1 DEF OneIsRemoved
<1>12. EachIsShown'
  <2> SUFFICES ASSUME NEW h \in DOMAIN entries
               PROVE  \/ \E s \in series' : s.hash = h
                      \/ emission.phase = "observe" /\ Recorded \in PerQuery /\ emission.hash = h
    BY <1>1 DEF EachIsShown, Recorded
  <2> QED BY <1>6, <1>7, <1>8 DEF EachIsShown
<1>13. ForwardedLast' BY <1>1, <1>6 DEF ForwardedLast, OneIsRemoved
<1>14. NothingMissing'
  <2> SUFFICES ASSUME NEW s \in otel, s.hash \in DOMAIN entries,
                      s.database \in entries[s.hash].databases
               PROVE  s \in series' \/ Pending(s)
    BY <1>1 DEF NothingMissing, Pending
  <2> QED BY <1>6, <1>7, <1>8 DEF NothingMissing
<1>15. EmittedIsTracked' BY <1>1, <1>6 DEF EmittedIsTracked, Recorded
<1> QED BY <1>1, <1>4, <1>5, <1>9, <1>10, <1>11, <1>12, <1>13, <1>14, <1>15 DEF SeriesInv

(* The query being recorded, when one is.                                  *)
LEMMA Emitted ==
  ASSUME SeriesTypes, emission.phase # "idle"
  PROVE  /\ emission.hash \in Hashes /\ emission.database \in Databases
         /\ emission.step \in 1 .. 12
         /\ emission.phase \in {"note", "observe", "forward"}
         /\ emission = [hash |-> emission.hash, database |-> emission.database,
                        step |-> emission.step, phase |-> emission.phase]
         /\ Recorded \in Metrics
         /\ TheSeries \in AllSeries /\ TheSeries.metric = Recorded
         /\ TheSeries.database = emission.database
         /\ TheSeries.hash = IF Recorded \in PerQuery THEN emission.hash ELSE "none"
<1>1. emission # NoEmission BY DEF NoEmission
<1>2. emission \in [hash : Hashes, database : Databases, step : 1 .. 12,
                    phase : {"note", "observe", "forward"}]
  BY <1>1, EmissionFacts DEF SeriesTypes
<1>3. Recorded \in Metrics BY <1>2, EmissionFacts DEF Recorded
<1>4. TheSeries \in AllSeries
  <2>1. emission.hash \in Hashes /\ emission.database \in Databases BY <1>2
  <2> QED BY <2>1, <1>3 DEF TheSeries, AllSeries
<1>5. /\ TheSeries.metric = Recorded /\ TheSeries.database = emission.database
      /\ TheSeries.hash = IF Recorded \in PerQuery THEN emission.hash ELSE "none"
  BY SeriesIsRecord DEF TheSeries
<1> QED BY <1>2, <1>3, <1>4, <1>5

(* A series with the label of a hash is one of the metrics per query.      *)
LEMMA OfAHash ==
  ASSUME NEW s \in AllSeries, s.hash \in Hashes
  PROVE  s.metric \in PerQuery /\ s.metric \in Metrics /\ s = Series(s.metric, s.hash, s.database)
<1>1. PICK m \in Metrics, h \in Hashes, d \in Databases : s = Series(m, h, d)
  BY DEF AllSeries
<1>2. s.metric = m /\ s.database = d /\ s.hash = IF m \in PerQuery THEN h ELSE "none"
  BY <1>1, SeriesIsRecord
<1>3. m \in PerQuery /\ s.hash = h BY <1>2, SeriesAssumption
<1> QED BY <1>1, <1>2, <1>3

(* The limiter is told of the metric before the series is touched: whom it *)
(* evicts is listed for removal, and the new hash has nothing yet.         *)
LEMMA QueryNoted ==
  ASSUME SeriesInv, note_query
  PROVE  SeriesInv'
<1>1. /\ emission.phase = "note" /\ emission' = [emission EXCEPT !.phase = "observe"]
      /\ UNCHANGED <<max_query_cardinality, series, otel>>
      /\ IF Recorded \in PerQuery /\ max_query_cardinality > 0
         THEN /\ touch(emission.hash, emission.database, Status(Recorded, emission.database))
              /\ removing' = IF evict_lru(emission.hash) = NoHash THEN <<>>
                             ELSE remove_query_series(order[lru(DOMAIN order)])
         ELSE UNCHANGED <<limiterVars, removing>>
  BY DEF note_query
<1> DEFINE hash == emission.hash
           database == emission.database
           status == Status(Recorded, database)
           X == [metric : PerQuery, hash : Hashes, database : Databases]
<1>2. SeriesTypes BY DEF SeriesInv
<1>3. /\ hash \in Hashes /\ database \in Databases /\ emission.step \in 1 .. 12
      /\ emission'.hash = hash /\ emission'.database = database
      /\ emission'.step = emission.step /\ emission'.phase = "observe"
      /\ Recorded' = Recorded /\ Recorded \in Metrics
      /\ emission' \in [hash : Hashes, database : Databases, step : 1 .. Len(Emissions),
                        phase : {"note", "observe", "forward"}]
  BY <1>1, <1>2, Emitted, EmissionFacts DEF Recorded
<1>4. removing = <<>> BY <1>1 DEF SeriesInv, OneIsRemoved
<1>5. CASE ~(max_query_cardinality > 0)
  <2>1. removing' = <<>> BY <1>1, <1>4, <1>5
  <2> QED BY <2>1, <1>1, <1>2, <1>3, <1>5 DEF SeriesInv, SeriesTypes
<1>6. CASE max_query_cardinality > 0
  <2>1. /\ LimiterTypes /\ LimitHolds /\ NoOrphans /\ OneIsRemoved /\ EachIsShown
        /\ ForwardedLast /\ NothingMissing /\ EmittedIsTracked
    BY <1>6 DEF SeriesInv
  <2>2. max_query_cardinality \in Nat \ {0}
    BY <1>6, <1>2, SeriesAssumption DEF SeriesTypes
  <2>3. ForwardedLast' BY <1>1, <1>3, <2>1 DEF ForwardedLast
  <2>4. CASE Recorded \notin PerQuery
    <3>1. UNCHANGED <<tick, entries, order, removing>>
      BY <1>1, <2>4 DEF limiterVars
    <3>2. emission.step > 1
      BY <1>3, <2>4, EmissionFacts DEF Recorded
    <3>3. SeriesTypes' BY <1>1, <1>2, <1>3, <3>1 DEF SeriesTypes
    <3>4. LimiterTypes' /\ LimitHolds'
      BY <1>1, <2>1, <3>1 DEF LimiterTypes, LimitHolds
    <3>5. NoOrphans' BY <1>1, <2>1, <3>1 DEF NoOrphans, Tracked, Listed
    <3>6. OneIsRemoved' BY <1>4, <3>1 DEF OneIsRemoved
    <3>7. EachIsShown' BY <1>1, <2>1, <3>1 DEF EachIsShown
    <3>8. NothingMissing' BY <1>1, <1>3, <2>1, <3>1 DEF NothingMissing, Pending
    <3>9. EmittedIsTracked'
      BY <1>1, <1>3, <2>1, <2>4, <3>1, <3>2, RemovedFacts DEF EmittedIsTracked
    <3> QED BY <2>3, <3>1, <3>3, <3>4, <3>5, <3>6, <3>7, <3>8, <3>9, <1>4 DEF SeriesInv
  <2>5. CASE Recorded \in PerQuery
    <3>1. touch(hash, database, status) BY <1>1, <1>6, <2>5
    <3>2. status \in SUBSET Databases /\ IsFiniteSet(status)
      BY <1>3, FS_Singleton, FS_EmptySet DEF Status
    <3>3. /\ LimiterTypes' /\ LimitHolds'
          /\ DOMAIN entries' = (DOMAIN entries \ evict_lru(hash)) \cup {hash}
          /\ \A h \in DOMAIN entries' : h # hash => entries'[h] = entries[h]
          /\ entries'[hash].databases =
               (IF hash \in DOMAIN entries THEN entries[hash].databases ELSE {}) \cup {database}
          /\ entries'[hash].executions =
               (IF hash \in DOMAIN entries THEN entries[hash].executions ELSE {}) \cup status
      <4> HIDE DEF status, hash, database
      <4> QED BY <1>1, <1>3, <2>1, <2>2, <3>1, <3>2, TouchKeepsLimiter
    (* What was evicted is listed: its removal is all or nothing.          *)
    <3>4. /\ removing' \in Seq(X)
          /\ removing' # <<>> =>
               /\ hash \notin DOMAIN entries
               /\ \E g \in Hashes \ DOMAIN entries' : \A i \in 1 .. Len(removing') : removing'[i].hash = g
          /\ \A s \in AllSeries : Tracked(s) /\ s.hash \in evict_lru(hash) => Listed(s)'
      <4>1. CASE evict_lru(hash) = NoHash
        <5>1. removing' = <<>> BY <1>1, <1>6, <2>5, <4>1
        <5> QED BY <4>1, <5>1 DEF NoHash
      <4>2. CASE evict_lru(hash) # NoHash
        <5> DEFINE g == order[lru(DOMAIN order)]
        <5>1. /\ evict_lru(hash) = {g} /\ hash \notin DOMAIN entries /\ g \in DOMAIN entries
          <6> HIDE DEF hash
          <6> QED BY <2>1, <2>2, <4>2, EvictedIsTracked
        <5>2. removing' = remove_query_series(g) BY <1>1, <1>6, <2>5, <4>2
        <5>3. g \in Hashes BY <2>1, <5>1 DEF LimiterTypes
        <5> HIDE DEF g
        <5>4. /\ removing' \in Seq(X)
              /\ \A i \in 1 .. Len(removing') : removing'[i].hash = g
              /\ \A s \in AllSeries : s.hash = g /\ Tracked(s) =>
                   \E i \in 1 .. Len(removing') : removing'[i] = s
          BY <2>1, <5>1, <5>2, <5>3, RemovesTheTracked
        <5>5. g \notin DOMAIN entries' BY <3>3, <5>1
        <5> HIDE DEF X, hash
        <5> QED BY <5>1, <5>3, <5>4, <5>5 DEF Listed
      <4> QED BY <4>1, <4>2
    <3>5. SeriesTypes' BY <1>1, <1>2, <1>3, <3>4 DEF SeriesTypes
    <3> HIDE DEF status, hash, database, X
    <3>6. NoOrphans'
      <4> SUFFICES ASSUME NEW s \in series, s.hash # "none"
                   PROVE  Tracked(s)' \/ Listed(s)'
        BY <1>1 DEF NoOrphans
      <4>1. Tracked(s) /\ s \in AllSeries
        BY <1>2, <1>4, <2>1 DEF NoOrphans, Listed, SeriesTypes
      <4>2. CASE s.hash \in evict_lru(hash) BY <3>4, <4>1, <4>2
      <4>3. CASE s.hash \notin evict_lru(hash)
        <5>1. s.hash \in DOMAIN entries /\ s.hash \in DOMAIN entries' BY <3>3, <4>1, <4>3 DEF Tracked
        <5>2. CASE s.hash # hash
          <6>1. entries'[s.hash] = entries[s.hash] BY <3>3, <5>1, <5>2
          <6> QED BY <4>1, <5>1, <6>1 DEF Tracked
        <5>3. CASE s.hash = hash
          BY <3>3, <4>1, <5>1, <5>3 DEF Tracked
        <5> QED BY <5>2, <5>3
      <4> QED BY <4>2, <4>3
    (* A hash the limiter did not know has no series.                      *)
    <3>7. OneIsRemoved'
      <4> SUFFICES ASSUME removing' # <<>>
                   PROVE  /\ emission'.phase = "observe" /\ emission'.hash \in DOMAIN entries'
                          /\ \A s \in series' : s.hash # emission'.hash
                          /\ \E g \in Hashes \ DOMAIN entries' :
                               \A i \in 1 .. Len(removing') : removing'[i].hash = g
        BY DEF OneIsRemoved
      <4>1. hash \in DOMAIN entries' BY <3>3
      <4>2. ASSUME NEW s \in series' PROVE s.hash # hash
        <5>1. s \in series /\ hash \notin DOMAIN entries /\ hash # "none"
          BY <1>1, <1>3, <3>4, SeriesAssumption DEF hash
        <5>2. s.hash = "none" \/ Tracked(s) BY <1>4, <2>1, <5>1 DEF NoOrphans, Listed
        <5> QED BY <5>1, <5>2 DEF Tracked
      <4>3. emission'.hash = hash /\ emission'.phase = "observe" BY <1>3 DEF hash
      <4> QED BY <3>4, <4>1, <4>2, <4>3
    <3>8. EachIsShown'
      <4> SUFFICES ASSUME NEW h \in DOMAIN entries', h # hash
                   PROVE  \E s \in series : s.hash = h
        BY <1>1, <1>3, <2>5 DEF EachIsShown, hash
      <4>1. h \in DOMAIN entries BY <3>3
      <4> QED BY <4>1, <1>1, <2>1 DEF EachIsShown, hash
    <3>9. NothingMissing'
      <4> SUFFICES ASSUME NEW s \in otel, s.hash \in DOMAIN entries',
                          s.database \in entries'[s.hash].databases
                   PROVE  s \in series \/ Pending(s)'
        BY <1>1 DEF NothingMissing
      <4>1. Pending(s) => Pending(s)' BY <1>1, <1>3 DEF Pending, hash, database
      <4>2. CASE s.hash # hash
        <5>1. s.hash \in DOMAIN entries /\ entries'[s.hash] = entries[s.hash]
          BY <3>3, <4>2
        <5> QED BY <5>1, <2>1, <4>1 DEF NothingMissing
      <4>3. CASE s.hash = hash /\ hash \in DOMAIN entries /\ s.database \in entries[hash].databases
        BY <2>1, <4>1, <4>3 DEF NothingMissing
      <4>4. CASE s.hash = hash /\ ~(hash \in DOMAIN entries /\ database \in entries[hash].databases)
                 /\ s.database = database
        <5>1. emission.step = 1
          BY <1>3, <2>1, <4>4 DEF EmittedIsTracked, hash, database
        <5>2. s \in AllSeries BY <1>2 DEF SeriesTypes
        <5>3. PICK i \in 1 .. 12 : Emissions[i] = s.metric
          BY <1>3, <4>4, <5>2, OfAHash, EmissionFacts DEF hash
        <5>4. /\ s.hash = emission'.hash /\ s.database = emission'.database
              /\ i \in emission'.step .. Len(Emissions) /\ emission'.phase # "forward"
          BY <1>3, <4>4, <5>1, <5>3, EmissionFacts DEF hash, database
        <5> QED BY <5>3, <5>4, Zenon DEF Pending
      <4> QED BY <3>3, <4>2, <4>3, <4>4
    <3>10. EmittedIsTracked'
      <4>1. hash \in DOMAIN entries' /\ database \in entries'[hash].databases BY <3>3
      <4>2. Recorded = "query_executions" => database \in entries'[hash].executions
        BY <3>3 DEF Status, status
      <4> QED BY <4>1, <4>2, <1>3 DEF EmittedIsTracked, hash, database
    <3> QED BY <1>1, <1>6, <2>3, <3>3, <3>5, <3>6, <3>7, <3>8, <3>9, <3>10 DEF SeriesInv
  <2> QED BY <2>4, <2>5
<1> QED BY <1>5, <1>6, <1>2, SeriesAssumption DEF SeriesTypes

(* The series of a metric appears only when its hash is tracked.           *)
LEMMA SeriesCreated ==
  ASSUME SeriesInv, with_label_values
  PROVE  SeriesInv'
<1>1. /\ emission.phase = "observe" /\ removing = <<>> /\ removing' = <<>>
      /\ series' = series \cup {TheSeries}
      /\ emission' = [emission EXCEPT !.phase = "forward"]
      /\ UNCHANGED <<max_query_cardinality, tick, entries, order, otel>>
  BY DEF with_label_values, TheSeries, limiterVars
<1>2. SeriesTypes BY DEF SeriesInv
<1>3. /\ emission.hash \in Hashes /\ emission.database \in Databases
      /\ emission.step \in 1 .. 12 /\ emission'.step = emission.step
      /\ emission'.hash = emission.hash /\ emission'.database = emission.database
      /\ emission'.phase = "forward" /\ Recorded' = Recorded /\ TheSeries' = TheSeries
      /\ emission' \in [hash : Hashes, database : Databases, step : 1 .. Len(Emissions),
                        phase : {"note", "observe", "forward"}]
      /\ TheSeries \in AllSeries /\ TheSeries.metric = Recorded
      /\ TheSeries.database = emission.database
      /\ TheSeries.hash = IF Recorded \in PerQuery THEN emission.hash ELSE "none"
  <2>1. emission.hash \in Hashes /\ emission.database \in Databases
        /\ emission.step \in 1 .. 12
        /\ emission' = [hash |-> emission.hash, database |-> emission.database,
                        step |-> emission.step, phase |-> "forward"]
    BY <1>1, <1>2, Emitted
  <2>2. /\ emission'.step = emission.step /\ emission'.hash = emission.hash
        /\ emission'.database = emission.database /\ emission'.phase = "forward"
        /\ emission' \in [hash : Hashes, database : Databases, step : 1 .. Len(Emissions),
                          phase : {"note", "observe", "forward"}]
    BY <2>1, EmissionFacts
  <2>3. Recorded' = Recorded /\ TheSeries' = TheSeries BY <2>2, Zenon DEF Recorded, TheSeries
  <2> QED BY <2>1, <2>2, <2>3, <1>1, <1>2, Emitted
<1>4. SeriesTypes' BY <1>1, <1>2, <1>3 DEF SeriesTypes
<1>5. ASSUME max_query_cardinality > 0
      PROVE  /\ LimiterTypes' /\ LimitHolds' /\ NoOrphans' /\ OneIsRemoved' /\ EachIsShown'
             /\ ForwardedLast' /\ NothingMissing' /\ EmittedIsTracked'
  <2>1. /\ LimiterTypes /\ LimitHolds /\ NoOrphans /\ OneIsRemoved /\ EachIsShown
        /\ ForwardedLast /\ NothingMissing /\ EmittedIsTracked
    BY <1>5 DEF SeriesInv
  <2>2. /\ emission.hash \in DOMAIN entries
        /\ emission.database \in entries[emission.hash].databases
        /\ Recorded = "query_executions" =>
             emission.database \in entries[emission.hash].executions
    BY <1>1, <2>1 DEF EmittedIsTracked
  <2>3. LimiterTypes' /\ LimitHolds' BY <1>1, <2>1 DEF LimiterTypes, LimitHolds
  <2>4. NoOrphans'
    <3>1. TheSeries.hash = "none" \/ Tracked(TheSeries) BY <1>3, <2>2 DEF Tracked
    <3>2. \A s : Tracked(s) => Tracked(s)' BY <1>1 DEF Tracked
    <3> QED BY <1>1, <2>1, <3>1, <3>2 DEF NoOrphans, Listed
  <2>5. OneIsRemoved' BY <1>1 DEF OneIsRemoved
  <2>6. EachIsShown'
    <3> SUFFICES ASSUME NEW h \in DOMAIN entries PROVE \E s \in series' : s.hash = h
      BY <1>1 DEF EachIsShown
    <3>1. CASE \E s \in series : s.hash = h BY <3>1, <1>1
    <3>2. CASE ~ \E s \in series : s.hash = h
      <4>1. Recorded \in PerQuery /\ emission.hash = h BY <2>1, <3>2 DEF EachIsShown
      <4>2. TheSeries.hash = h BY <4>1, <1>3
      <4> QED BY <4>2, <1>1
    <3> QED BY <3>1, <3>2
  <2>7. ForwardedLast' BY <1>1, <1>3, <2>1 DEF ForwardedLast
  <2>8. NothingMissing'
    <3> SUFFICES ASSUME NEW s \in otel, s.hash \in DOMAIN entries,
                        s.database \in entries[s.hash].databases, s \notin series'
                 PROVE  Pending(s)'
      BY <1>1 DEF NothingMissing
    <3>1. Pending(s) /\ s # TheSeries BY <1>1, <2>1 DEF NothingMissing
    <3>2. PICK i \in emission.step .. Len(Emissions) : Emissions[i] = s.metric
      BY <3>1 DEF Pending
    <3>3. s \in AllSeries /\ s.hash \in Hashes
      BY <1>2, <2>1 DEF SeriesTypes, LimiterTypes
    <3>4. s = Series(s.metric, s.hash, s.database) BY <3>3, OfAHash
    <3>5. i # emission.step
      BY <3>1, <3>2, <3>4 DEF TheSeries, Recorded, Pending
    <3> QED BY <1>3, <3>1, <3>2, <3>5 DEF Pending
  <2>9. EmittedIsTracked' BY <1>1, <1>3, <2>2 DEF EmittedIsTracked
  <2> QED BY <2>3, <2>4, <2>5, <2>6, <2>7, <2>8, <2>9
<1> QED BY <1>1, <1>4, <1>5 DEF SeriesInv

(* OpenTelemetry is given what Prometheus already shows.                   *)
LEMMA QueryForwarded ==
  ASSUME SeriesInv, forward
  PROVE  SeriesInv'
<1>1. /\ emission.phase = "forward" /\ otel' = otel \cup {TheSeries}
      /\ emission' = IF emission.step = 12 THEN NoEmission
                     ELSE [emission EXCEPT !.step = @ + 1, !.phase = "note"]
      /\ UNCHANGED <<max_query_cardinality, tick, entries, order, series, removing>>
  BY EmissionFacts DEF forward, otel_record, TheSeries, limiterVars
<1>2. SeriesTypes BY DEF SeriesInv
<1>3. /\ emission.hash \in Hashes /\ emission.database \in Databases
      /\ emission.step \in 1 .. 12
      /\ TheSeries \in AllSeries /\ TheSeries.metric = Recorded
      /\ TheSeries.database = emission.database
      /\ TheSeries.hash = IF Recorded \in PerQuery THEN emission.hash ELSE "none"
  BY <1>1, <1>2, Emitted
<1>4. /\ emission'.phase \in {"idle", "note"}
      /\ emission.step # 12 =>
           /\ emission'.step = emission.step + 1 /\ emission'.hash = emission.hash
           /\ emission'.database = emission.database
           /\ emission' \in [hash : Hashes, database : Databases, step : 1 .. Len(Emissions),
                             phase : {"note", "observe", "forward"}]
      /\ emission.step = 12 => emission' = NoEmission /\ emission'.step = 0
  <2>1. emission = [hash |-> emission.hash, database |-> emission.database,
                    step |-> emission.step, phase |-> emission.phase]
    BY <1>1, <1>2, Emitted
  <2>2. CASE emission.step = 12 BY <1>1, <2>2 DEF NoEmission
  <2>3. CASE emission.step # 12
    <3>1. emission' = [hash |-> emission.hash, database |-> emission.database,
                       step |-> emission.step + 1, phase |-> "note"]
      BY <1>1, <2>1, <2>3
    <3>2. emission.step + 1 \in 1 .. Len(Emissions) BY <1>3, <2>3, EmissionFacts
    <3> QED BY <1>3, <2>3, <3>1, <3>2
  <2> QED BY <2>2, <2>3
<1>5. SeriesTypes' BY <1>1, <1>2, <1>3, <1>4 DEF SeriesTypes
<1>6. ASSUME max_query_cardinality > 0
      PROVE  /\ LimiterTypes' /\ LimitHolds' /\ NoOrphans' /\ OneIsRemoved' /\ EachIsShown'
             /\ ForwardedLast' /\ NothingMissing' /\ EmittedIsTracked'
  <2>1. /\ LimiterTypes /\ LimitHolds /\ NoOrphans /\ OneIsRemoved /\ EachIsShown
        /\ ForwardedLast /\ NothingMissing /\ EmittedIsTracked
    BY <1>6 DEF SeriesInv
  <2>2. removing = <<>> BY <1>1, <2>1 DEF OneIsRemoved
  <2>3. emission.hash \in DOMAIN entries
        /\ emission.database \in entries[emission.hash].databases
    BY <1>1, <2>1 DEF EmittedIsTracked
  <2>4. LimiterTypes' /\ LimitHolds' BY <1>1, <2>1 DEF LimiterTypes, LimitHolds
  <2>5. NoOrphans' BY <1>1, <2>1 DEF NoOrphans, Tracked, Listed
  <2>6. OneIsRemoved' BY <1>1, <2>2 DEF OneIsRemoved
  <2>7. EachIsShown' BY <1>1, <2>1 DEF EachIsShown
  <2>8. ForwardedLast'
    <3>1. emission'.phase # "forward" BY <1>4
    <3> QED BY <3>1, <1>1, <2>1 DEF ForwardedLast
  <2>9. NothingMissing'
    <3> SUFFICES ASSUME NEW s \in otel', s.hash \in DOMAIN entries,
                        s.database \in entries[s.hash].databases, s \notin series
                 PROVE  Pending(s)'
      BY <1>1 DEF NothingMissing
    <3>1. s \in otel BY <1>1, <2>1 DEF ForwardedLast
    <3>2. Pending(s) BY <2>1, <3>1 DEF NothingMissing
    <3>3. PICK i \in emission.step .. Len(Emissions) :
            Emissions[i] = s.metric /\ i # emission.step
      BY <1>1, <3>2 DEF Pending
    <3>4. emission.step # 12 /\ i \in emission.step + 1 .. Len(Emissions)
      BY <1>3, <3>3, EmissionFacts
    <3> QED BY <1>4, <3>2, <3>3, <3>4 DEF Pending
  <2>10. EmittedIsTracked' BY <1>4, <2>3, <1>1 DEF EmittedIsTracked, NoEmission
  <2> QED BY <2>4, <2>5, <2>6, <2>7, <2>8, <2>9, <2>10
<1> QED BY <1>1, <1>5, <1>6 DEF SeriesInv

(* Every step of recording keeps the series complete; a scrape only reads. *)
LEMMA SeriesStep == SeriesInv /\ [SeriesNext]_seriesVars => SeriesInv'
<1> SUFFICES ASSUME SeriesInv, [SeriesNext]_seriesVars PROVE SeriesInv' OBVIOUS
<1>1. CASE UNCHANGED <<max_query_cardinality, limiterVars, series, otel, emission, removing>>
  BY <1>1 DEF limiterVars, SeriesInv, SeriesTypes, LimiterTypes, LimitHolds, NoOrphans, Tracked,
              Listed, OneIsRemoved, EachIsShown, Recorded, ForwardedLast, TheSeries,
              NothingMissing, Pending, EmittedIsTracked
<1>2. CASE UNCHANGED seriesVars BY <1>1, <1>2 DEF seriesVars, limiterVars
<1>3. CASE respond \/ \E metric \in Families : gather(metric) \/ collect(metric)
  BY <1>1, <1>3 DEF respond, gather, collect
<1> QED BY <1>2, <1>3, QueryTaken, QueryNoted, SeriesRemoved, SeriesCreated, QueryForwarded
        DEF SeriesNext

(* Between an eviction and the removal of its last series the vectors hold *)
(* the evicted hash, and not yet the one it was evicted for.               *)
LEMMA RegistryBound ==
  ASSUME SeriesInv, max_query_cardinality > 0
  PROVE  IsFiniteSet(HashesOf(series)) /\ SeriesAreBounded
<1> USE DEF SeriesAreBounded
<1>1. LimiterTypes /\ LimitHolds /\ NoOrphans /\ OneIsRemoved BY DEF SeriesInv
<1>2. max_query_cardinality \in Nat BY SeriesAssumption DEF SeriesInv, SeriesTypes
<1>3. IsFiniteSet(DOMAIN entries) /\ Cardinality(DOMAIN entries) \in Nat
      /\ Cardinality(DOMAIN entries) <= max_query_cardinality
  BY <1>1, FS_CardinalityType DEF LimitHolds
<1>4. CASE removing = <<>>
  <2>1. HashesOf(series) \in SUBSET DOMAIN entries
    BY <1>1, <1>4 DEF HashesOf, NoOrphans, Tracked, Listed
  <2>2. Cardinality(HashesOf(series)) \in Nat /\ IsFiniteSet(HashesOf(series))
        /\ Cardinality(HashesOf(series)) <= Cardinality(DOMAIN entries)
    BY <1>3, <2>1, FS_Subset, FS_CardinalityType
  <2> QED BY <1>2, <1>3, <2>2
<1>5. CASE removing # <<>>
  <2>1. PICK g \in Hashes \ DOMAIN entries :
          \A i \in 1 .. Len(removing) : removing[i].hash = g
    BY <1>1, <1>5 DEF OneIsRemoved
  <2> DEFINE rest == DOMAIN entries \ {emission.hash}
  <2>2. IsFiniteSet(rest) /\ Cardinality(rest) = Cardinality(DOMAIN entries) - 1
    BY <1>1, <1>3, <1>5, FS_RemoveElement DEF OneIsRemoved
  <2>3. IsFiniteSet(rest \cup {g}) /\ Cardinality(rest \cup {g}) = Cardinality(DOMAIN entries)
    <3>1. g \notin rest BY <2>1
    <3>2. Cardinality(rest \cup {g}) = Cardinality(rest) + 1 /\ IsFiniteSet(rest \cup {g})
      <4> HIDE DEF rest
      <4> QED BY <2>2, <3>1, FS_AddElement
    <3> HIDE DEF rest
    <3> QED BY <1>3, <2>2, <3>2
  <2>4. HashesOf(series) \in SUBSET (rest \cup {g})
    BY <1>1, <1>5, <2>1 DEF HashesOf, NoOrphans, Tracked, Listed, OneIsRemoved
  <2>5. Cardinality(HashesOf(series)) \in Nat /\ IsFiniteSet(HashesOf(series))
        /\ Cardinality(HashesOf(series)) <= Cardinality(rest \cup {g})
    <3> HIDE DEF rest
    <3> QED BY <2>3, <2>4, FS_Subset, FS_CardinalityType
  <2> HIDE DEF rest
  <2> QED BY <1>2, <1>3, <2>3, <2>5
<1> QED BY <1>4, <1>5

(* A scrape while it runs: what it has read, but for the hashes replaced   *)
(* since it began, is tracked, and the hash being removed is among those.  *)
ScrapeInv ==
  /\ unread \subseteq Families
  /\ \A a \in answer : a.metric \notin unread
  /\ max_query_cardinality > 0 => ScrapeIsBounded
  /\ max_query_cardinality > 0 /\ unread # {} =>
       /\ HashesOf(answer) \ replaced \subseteq DOMAIN entries
       /\ \A i \in 1 .. Len(removing) : removing[i].hash \in replaced

(* The limiter forgets the hash it evicts only, and that one is removed.   *)
LEMMA NotedLimiter ==
  ASSUME SeriesInv, note_query, max_query_cardinality > 0
  PROVE  \/ UNCHANGED <<entries, removing, replaced>>
         \/ /\ DOMAIN entries \ evict_lru(emission.hash) \subseteq DOMAIN entries'
            /\ \A i \in 1 .. Len(removing') : removing'[i].hash \in evict_lru(emission.hash)
            /\ replaced' = IF unread = {} THEN replaced
                           ELSE replaced \cup evict_lru(emission.hash)
<1>1. /\ emission.phase = "note" /\ UNCHANGED max_query_cardinality
      /\ IF Recorded \in PerQuery /\ max_query_cardinality > 0
         THEN /\ touch(emission.hash, emission.database, Status(Recorded, emission.database))
              /\ removing' = IF evict_lru(emission.hash) = NoHash THEN <<>>
                             ELSE remove_query_series(order[lru(DOMAIN order)])
              /\ replaced' = IF unread = {} THEN replaced
                             ELSE replaced \cup evict_lru(emission.hash)
         ELSE UNCHANGED <<limiterVars, removing, replaced>>
  BY DEF note_query
<1> DEFINE hash == emission.hash
           status == Status(Recorded, emission.database)
<1>2. SeriesTypes /\ LimiterTypes /\ LimitHolds BY DEF SeriesInv
<1>3. max_query_cardinality \in Nat \ {0} BY <1>2, SeriesAssumption DEF SeriesTypes
<1>4. CASE Recorded \notin PerQuery BY <1>1, <1>4 DEF limiterVars
<1>5. CASE Recorded \in PerQuery
  <2>1. /\ touch(hash, emission.database, status)
        /\ removing' = IF evict_lru(hash) = NoHash THEN <<>>
                       ELSE remove_query_series(order[lru(DOMAIN order)])
    BY <1>1, <1>5
  <2>2. hash \in Hashes /\ emission.database \in Databases BY <1>1, <1>2, Emitted
  <2>3. status \in SUBSET Databases /\ IsFiniteSet(status)
    BY <2>2, FS_Singleton, FS_EmptySet DEF Status
  <2> HIDE DEF hash, status
  <2>4. DOMAIN entries' = (DOMAIN entries \ evict_lru(hash)) \cup {hash}
    BY <1>1, <1>2, <1>3, <2>1, <2>2, <2>3, TouchKeepsLimiter
  <2>5. \A i \in 1 .. Len(removing') : removing'[i].hash \in evict_lru(hash)
    <3>1. CASE evict_lru(hash) = NoHash BY <2>1, <3>1
    <3>2. CASE evict_lru(hash) # NoHash
      <4> DEFINE g == order[lru(DOMAIN order)]
      <4>1. evict_lru(hash) = {g} /\ g \in DOMAIN entries
        BY <1>2, <1>3, <3>2, EvictedIsTracked
      <4>2. g \in Hashes BY <1>2, <4>1 DEF LimiterTypes
      <4>3. removing' = remove_query_series(g) BY <2>1, <3>2
      <4> HIDE DEF g
      <4>4. \A i \in 1 .. Len(removing') : removing'[i].hash = g
        BY <1>2, <4>1, <4>2, <4>3, RemovesTheTracked
      <4> QED BY <4>1, <4>4
    <3> QED BY <3>1, <3>2
  <2> QED BY <1>1, <1>5, <2>4, <2>5 DEF hash
<1> QED BY <1>4, <1>5

(* Every series is of a tracked hash, or of the one being removed.         *)
LEMMA ShownHashes ==
  ASSUME SeriesInv, max_query_cardinality > 0, NEW metric
  PROVE  /\ \A a \in Shown(metric) : a.metric = metric
         /\ \A a \in Shown(metric) : a.hash # "none" =>
              /\ a.hash \in HashesOf(series)
              /\ \/ a.hash \in DOMAIN entries
                 \/ \E i \in 1 .. Len(removing) : removing[i].hash = a.hash
<1>1. ASSUME NEW a \in Shown(metric), a.hash # "none"
      PROVE  /\ a.hash \in HashesOf(series)
             /\ \/ a.hash \in DOMAIN entries
                \/ \E i \in 1 .. Len(removing) : removing[i].hash = a.hash
  <2>1. PICK x \in series : a = [metric |-> metric, hash |-> x.hash] BY DEF Shown
  <2>2. a.hash = x.hash BY <2>1
  <2>3. Tracked(x) \/ Listed(x) BY <1>1, <2>2 DEF SeriesInv, NoOrphans
  <2> QED BY <1>1, <2>2, <2>3 DEF HashesOf, Tracked, Listed
<1> QED BY <1>1 DEF Shown

(* Reading one more metric: it shows what the vectors hold now.            *)
LEMMA MetricRead ==
  ASSUME SeriesInv, max_query_cardinality > 0, NEW metric \in Families, NEW old,
         \A a \in old : a.metric # metric,
         \A m \in Families : Cardinality(HashesOfMetric(old, m)) <= max_query_cardinality,
         HashesOf(old) \ replaced' \subseteq DOMAIN entries,
         \A i \in 1 .. Len(removing) : removing[i].hash \in replaced',
         answer' = old \cup Shown(metric),
         UNCHANGED max_query_cardinality
  PROVE  /\ ScrapeIsBounded'
         /\ HashesOf(answer') \ replaced' \subseteq DOMAIN entries
<1>1. max_query_cardinality \in Nat BY SeriesAssumption DEF SeriesInv, SeriesTypes
<1>2. HashesOf(answer') \ replaced' \subseteq DOMAIN entries
  <2> SUFFICES ASSUME NEW a \in answer', a.hash # "none", a.hash \notin replaced'
               PROVE  a.hash \in DOMAIN entries
    BY DEF HashesOf
  <2>1. CASE a \in old BY <2>1 DEF HashesOf
  <2>2. CASE a \in Shown(metric) BY <2>2, ShownHashes
  <2> QED BY <2>1, <2>2
<1>3. Cardinality(HashesOf(answer') \ replaced') <= max_query_cardinality
  <2>1. IsFiniteSet(DOMAIN entries) /\ Cardinality(DOMAIN entries) <= max_query_cardinality
    BY DEF SeriesInv, LimitHolds
  <2>2. LET T == HashesOf(answer') \ replaced'
        IN Cardinality(T) \in Nat /\ Cardinality(T) <= Cardinality(DOMAIN entries)
    BY <1>2, <2>1, FS_Subset, FS_CardinalityType
  <2>3. Cardinality(DOMAIN entries) \in Nat BY <2>1, FS_CardinalityType
  <2> QED BY <1>1, <2>1, <2>2, <2>3
<1>4. ASSUME NEW m \in Families
      PROVE  Cardinality(HashesOfMetric(answer', m)) <= max_query_cardinality
  <2>1. CASE m # metric
    <3>1. {y \in answer' : y.metric = m} = {y \in old : y.metric = m}
      BY <2>1, ShownHashes
    <3> QED BY <3>1, Zenon DEF HashesOfMetric
  <2>2. CASE m = metric
    <3>1. HashesOfMetric(answer', m) \in SUBSET HashesOf(series)
      <4> SUFFICES ASSUME NEW a \in answer', a.metric = metric, a.hash # "none"
                   PROVE  a.hash \in HashesOf(series)
        BY <2>2 DEF HashesOfMetric
      <4>1. a \in Shown(metric) OBVIOUS
      <4> QED BY <4>1, ShownHashes
    <3>2. IsFiniteSet(HashesOf(series)) /\ Cardinality(HashesOf(series)) <= max_query_cardinality
      BY RegistryBound DEF SeriesAreBounded
    <3>3. /\ Cardinality(HashesOfMetric(answer', m)) \in Nat
          /\ Cardinality(HashesOfMetric(answer', m)) <= Cardinality(HashesOf(series))
          /\ Cardinality(HashesOf(series)) \in Nat
      BY <3>1, <3>2, FS_Subset, FS_CardinalityType
    <3> QED BY <1>1, <3>2, <3>3
  <2> QED BY <2>1, <2>2
<1> QED BY <1>2, <1>3, <1>4 DEF ScrapeIsBounded

(* The scrape keeps its bound whatever is recorded and evicted meanwhile.  *)
LEMMA ScrapeStep ==
  ASSUME SeriesInv, ScrapeInv, [SeriesNext]_seriesVars
  PROVE  ScrapeInv'
<1>1. CASE UNCHANGED <<max_query_cardinality, entries, scrapeVars>> /\ removing' = removing
  BY <1>1 DEF scrapeVars, ScrapeInv, ScrapeIsBounded, HashesOf, HashesOfMetric
<1>2. CASE remove_label_values
  <2>1. UNCHANGED <<max_query_cardinality, entries, scrapeVars>>
        /\ removing # <<>> /\ removing' = Tail(removing)
    BY <1>2 DEF remove_label_values, limiterVars
  <2> DEFINE X == [metric : PerQuery, hash : Hashes, database : Databases]
  <2>2. removing \in Seq(X) BY DEF SeriesInv, SeriesTypes
  <2>3. \A i \in 1 .. Len(removing') : \E j \in 1 .. Len(removing) : removing'[i] = removing[j]
    <3> HIDE DEF X
    <3> QED BY <2>1, <2>2, TailHas
  <2> QED BY <2>1, <2>3 DEF scrapeVars, ScrapeInv, ScrapeIsBounded, HashesOf, HashesOfMetric
<1>3. CASE note_query
  <2>1. UNCHANGED <<max_query_cardinality, unread, answer>> BY <1>3 DEF note_query
  <2>2. unread' \subseteq Families /\ \A a \in answer' : a.metric \notin unread'
    BY <2>1 DEF ScrapeInv
  <2>3. CASE max_query_cardinality > 0
    <3>1. CASE UNCHANGED <<entries, removing, replaced>>
      BY <1>1, <2>1, <3>1 DEF scrapeVars
    <3>2. CASE /\ DOMAIN entries \ evict_lru(emission.hash) \subseteq DOMAIN entries'
               /\ \A i \in 1 .. Len(removing') : removing'[i].hash \in evict_lru(emission.hash)
               /\ replaced' = IF unread = {} THEN replaced
                              ELSE replaced \cup evict_lru(emission.hash)
      <4>1. CASE unread = {}
        BY <2>1, <2>2, <3>2, <4>1 DEF ScrapeInv, ScrapeIsBounded, HashesOf, HashesOfMetric
      <4>2. CASE unread # {}
        <5>1. HashesOf(answer)' \ replaced' \subseteq DOMAIN entries'
          BY <2>1, <2>3, <3>2, <4>2 DEF ScrapeInv, HashesOf
        <5>2. \A i \in 1 .. Len(removing') : removing'[i].hash \in replaced'
          BY <3>2, <4>2
        <5>3. Cardinality(HashesOf(answer') \ replaced') <= max_query_cardinality
          <6> DEFINE T == HashesOf(answer') \ replaced'
          <6>1. T \in SUBSET (HashesOf(answer) \ replaced)
            BY <2>1, <3>2, <4>2 DEF HashesOf
          <6>2. HashesOf(answer) \ replaced \subseteq DOMAIN entries
            BY <2>3, <4>2 DEF ScrapeInv
          <6>3. IsFiniteSet(DOMAIN entries) /\ Cardinality(DOMAIN entries) <= max_query_cardinality
            BY <2>3 DEF SeriesInv, LimitHolds
          <6> HIDE DEF T
          <6>4. T \in SUBSET DOMAIN entries BY <6>1, <6>2
          <6>5. Cardinality(T) \in Nat /\ Cardinality(T) <= Cardinality(DOMAIN entries)
                /\ Cardinality(DOMAIN entries) \in Nat
            BY <6>3, <6>4, FS_Subset, FS_CardinalityType
          <6>6. max_query_cardinality \in Nat
            BY SeriesAssumption DEF SeriesInv, SeriesTypes
          <6> QED BY <6>3, <6>5, <6>6 DEF T
        <5>4. ScrapeIsBounded'
          BY <2>1, <2>3, <5>3 DEF ScrapeInv, ScrapeIsBounded, HashesOfMetric, HashesOf
        <5> QED BY <2>1, <2>2, <5>1, <5>2, <5>4 DEF ScrapeInv
      <4> QED BY <4>1, <4>2
    <3> QED BY <1>3, <2>3, <3>1, <3>2, NotedLimiter
  <2>4. CASE ~(max_query_cardinality > 0) BY <2>1, <2>2, <2>4 DEF ScrapeInv
  <2> QED BY <2>3, <2>4
<1>4. ASSUME NEW metric \in Families, gather(metric) PROVE ScrapeInv'
  <2>1. /\ unread = {} /\ unread' = Families \ {metric} /\ answer' = Shown(metric)
        /\ replaced' = {removing[i].hash : i \in DOMAIN removing}
        /\ UNCHANGED <<max_query_cardinality, entries, removing>>
    BY <1>4 DEF gather, limiterVars
  <2>2. \A a \in answer' : a.metric \notin unread' BY <2>1 DEF Shown
  <2>3. ASSUME max_query_cardinality > 0
        PROVE  /\ ScrapeIsBounded' /\ HashesOf(answer') \ replaced' \subseteq DOMAIN entries
               /\ \A i \in 1 .. Len(removing) : removing[i].hash \in replaced'
    <3>1. \A i \in 1 .. Len(removing) : removing[i].hash \in replaced'
      BY <2>1 DEF SeriesInv, SeriesTypes
    <3>2. \A m \in Families : Cardinality(HashesOfMetric({}, m)) <= max_query_cardinality
      <4>1. Cardinality({}) = 0 BY FS_EmptySet
      <4>2. \A m \in Families : HashesOfMetric({}, m) = {} BY DEF HashesOfMetric
      <4>3. max_query_cardinality \in Nat BY SeriesAssumption DEF SeriesInv, SeriesTypes
      <4> QED BY <2>3, <4>1, <4>2, <4>3
    <3>3. HashesOf({}) \ replaced' \subseteq DOMAIN entries BY DEF HashesOf
    <3>4. answer' = {} \cup Shown(metric) /\ \A a \in {} : a.metric # metric BY <2>1
    <3> QED BY <2>1, <2>3, <3>1, <3>2, <3>3, <3>4, MetricRead
  <2> QED BY <2>1, <2>2, <2>3 DEF ScrapeInv, HashesOf
<1>5. ASSUME NEW metric \in Families, collect(metric) PROVE ScrapeInv'
  <2>1. /\ metric \in unread /\ unread' = unread \ {metric}
        /\ answer' = answer \cup Shown(metric)
        /\ UNCHANGED <<max_query_cardinality, entries, removing, replaced>>
    BY <1>5 DEF collect, limiterVars
  <2>2. \A a \in answer' : a.metric \notin unread' BY <2>1 DEF ScrapeInv, Shown
  <2>3. ASSUME max_query_cardinality > 0
        PROVE  /\ ScrapeIsBounded' /\ HashesOf(answer') \ replaced' \subseteq DOMAIN entries
               /\ \A i \in 1 .. Len(removing) : removing[i].hash \in replaced'
    <3>1. /\ \A i \in 1 .. Len(removing) : removing[i].hash \in replaced'
          /\ HashesOf(answer) \ replaced' \subseteq DOMAIN entries
          /\ \A a \in answer : a.metric # metric
          /\ \A m \in Families : Cardinality(HashesOfMetric(answer, m)) <= max_query_cardinality
      BY <2>1, <2>3 DEF ScrapeInv, ScrapeIsBounded
    <3> QED BY <2>1, <2>3, <3>1, MetricRead
  <2>4. unread' \subseteq Families BY <2>1 DEF ScrapeInv
  <2> QED BY <2>1, <2>2, <2>3, <2>4 DEF ScrapeInv, HashesOf
<1>6. CASE respond
  <2>1. /\ unread' = {} /\ answer' = {} /\ UNCHANGED max_query_cardinality
    BY <1>6 DEF respond
  <2>2. ASSUME max_query_cardinality > 0 PROVE ScrapeIsBounded'
    <3>1. Cardinality({}) = 0 BY FS_EmptySet
    <3>2. HashesOf(answer') \ replaced' = {} /\ \A m : HashesOfMetric(answer', m) = {}
      BY <2>1 DEF HashesOf, HashesOfMetric
    <3>3. max_query_cardinality \in Nat BY SeriesAssumption DEF SeriesInv, SeriesTypes
    <3> QED BY <2>1, <2>2, <3>1, <3>2, <3>3 DEF ScrapeIsBounded
  <2> QED BY <2>1, <2>2 DEF ScrapeInv
<1>7. CASE \/ with_label_values \/ forward \/ UNCHANGED seriesVars
           \/ \E hash \in Hashes, database \in Databases : update_query_metrics(hash, database)
  BY <1>1, <1>7 DEF with_label_values, forward, update_query_metrics, seriesVars, limiterVars,
                    scrapeVars
<1> QED BY <1>2, <1>3, <1>4, <1>5, <1>6, <1>7 DEF SeriesNext

(* No scrape has begun.                                                    *)
LEMMA ScrapeInitially == SeriesInit => ScrapeInv
<1> SUFFICES ASSUME SeriesInit PROVE ScrapeInv OBVIOUS
<1>1. unread = {} /\ answer = {} /\ max_query_cardinality \in Nat
  BY SeriesAssumption DEF SeriesInit
<1>2. HashesOf(answer) \ replaced = {} /\ \A m : HashesOfMetric(answer, m) = {}
  BY <1>1 DEF HashesOf, HashesOfMetric
<1>3. Cardinality({}) = 0 BY FS_EmptySet
<1> QED BY <1>1, <1>2, <1>3 DEF ScrapeInv, ScrapeIsBounded

(* The limit on the hashes Prometheus exposes (prometheus_backend.rs):     *)
(* for any hashes, databases, limit and number of queries, the registry is *)
(* within the limit at any moment, a scrape's answer is but for hashes     *)
(* evicted while it was gathered, and once a query is recorded each        *)
(* tracked hash has all its series and an evicted one has none.            *)
THEOREM EvictionLeavesNothing == SeriesSpec => []EvictionIsWhole
<1>1. SeriesInv /\ ScrapeInv => EvictionIsWhole
  <2> SUFFICES ASSUME SeriesInv, emission = NoEmission, max_query_cardinality > 0
               PROVE  /\ HashesOf(series) = DOMAIN entries
                      /\ \A s \in otel : s.hash \in DOMAIN entries
                                         /\ s.database \in entries[s.hash].databases => s \in series
                      /\ series \subseteq otel
    BY RegistryBound DEF EvictionIsWhole, ScrapeInv
  <2>1. /\ LimiterTypes /\ NoOrphans /\ OneIsRemoved /\ EachIsShown
        /\ ForwardedLast /\ NothingMissing
    BY DEF SeriesInv
  <2>2. emission.phase = "idle" /\ emission.hash = "none" BY DEF NoEmission
  <2>3. removing = <<>> BY <2>1, <2>2 DEF OneIsRemoved
  <2>4. "none" \notin DOMAIN entries BY <2>1, SeriesAssumption DEF LimiterTypes
  <2>5. HashesOf(series) = DOMAIN entries
    <3>1. ASSUME NEW s \in series, s.hash # "none" PROVE s.hash \in DOMAIN entries
      BY <2>1, <2>3, <3>1 DEF NoOrphans, Listed, Tracked
    <3>2. ASSUME NEW h \in DOMAIN entries PROVE \E s \in series : s.hash = h
      BY <2>1, <2>2 DEF EachIsShown
    <3> QED BY <3>1, <3>2, <2>4 DEF HashesOf
  <2>6. \A s \in otel : s.hash \in DOMAIN entries
                        /\ s.database \in entries[s.hash].databases => s \in series
    BY <2>1, <2>2, <2>4 DEF NothingMissing, Pending
  <2>7. series \subseteq otel BY <2>1, <2>2 DEF ForwardedLast
  <2> QED BY <2>5, <2>6, <2>7
<1>2. SeriesInv /\ ScrapeInv /\ [SeriesNext]_seriesVars => SeriesInv' /\ ScrapeInv'
  BY SeriesStep, ScrapeStep
<1>3. SeriesInit => SeriesInv /\ ScrapeInv BY SeriesInitially, ScrapeInitially
<1> QED BY <1>1, <1>2, <1>3, PTL DEF SeriesSpec

-----------------------------------------------------------------------------
(* The daemon (main.rs, scheduler.rs, server.rs).                          *)

(* The types of what readiness depends on; an interval of no time is one   *)
(* the scheduler died of.                                                  *)
DaemonTypes ==
  /\ time \in Nat /\ passed \in 0 .. MaxPass
  /\ config_file.poll \in Polls /\ sent.poll \in Polls
  /\ poll_interval \in Polls /\ (scheduler # "dead" => poll_interval > 0)
  /\ scheduler \in {"collecting", "select", "dead"}
  /\ next_tick_at \in Int /\ last_success \in Int
  /\ max_staleness \in Nat \ {0} /\ excused \in BOOLEAN

last == IF last_success < 0 THEN 0 ELSE last_success

(* One of the three intervals that make the staleness is up at the latest  *)
(* when the next pass starts, another when it ends: a pass starts within   *)
(* an interval of the last success, and next_tick_at is within one.        *)
TicksAreTimely ==
  /\ 3 * poll_interval <= max_staleness
  /\ 3 * (time - passed - last) <= max_staleness
  /\ IF scheduler = "collecting"
     THEN next_tick_at <= time - passed + poll_interval
     ELSE /\ passed = 0
          /\ next_tick_at <= time \/ 3 * (next_tick_at - last) <= max_staleness

DaemonInv == DaemonTypes /\ (excused \/ TicksAreTimely)
-----------------------------------------------------------------------------
(* The tick that MissedTickBehavior::Skip comes to is at most one interval *)
(* away, however many were missed.                                         *)
LEMMA QuotientBelow ==
  ASSUME NEW a \in Nat, NEW p \in Nat \ {0}
  PROVE  a \div p \in Nat /\ p * (a \div p) <= a
  OBVIOUS

LEMMA TickWithinInterval ==
  ASSUME time \in Nat, next_tick_at \in Int, poll_interval \in Nat \ {0},
         next_tick_at <= time
  PROVE  NextTick \in Int /\ NextTick <= time + poll_interval
<1> DEFINE a == time - next_tick_at
           d == a \div poll_interval
<1>1. a \in Nat OBVIOUS
<1>2. d \in Nat /\ poll_interval * d <= a
  <2> HIDE DEF a
  <2> QED BY <1>1, QuotientBelow
<1>3. NextTick = next_tick_at + poll_interval * (1 + d) BY DEF NextTick
<1> HIDE DEF d
<1>4. poll_interval * (1 + d) = poll_interval + poll_interval * d BY <1>2
<1>5. poll_interval * d \in Nat BY <1>2
<1> QED BY <1>2, <1>3, <1>4, <1>5

(* Three intervals of any configuration are within its staleness.          *)
LEMMA StalenessCovers ==
  ASSUME NEW seconds \in Nat
  PROVE  /\ staleness_of(seconds) \in Nat /\ 3 * seconds <= staleness_of(seconds)
         /\ seconds > 0 => staleness_of(seconds) > 0
<1>1. MinStaleness \in Nat BY DaemonAssumption
<1> QED BY <1>1 DEF staleness_of

(* It starts with a pass.                                                  *)
LEMMA DaemonInitially == DaemonInit => DaemonInv
<1> SUFFICES ASSUME DaemonInit PROVE DaemonInv OBVIOUS
<1>1. PICK seconds \in Polls :
        /\ seconds > 0 /\ config_file = Config(seconds, 1, "valid")
        /\ poll_interval = seconds /\ max_staleness = staleness_of(seconds)
  BY DEF DaemonInit, Started
<1>2. seconds \in Nat /\ config_file.poll = seconds
  BY <1>1, DaemonAssumption DEF Config
<1>3. /\ max_staleness \in Nat \ {0} /\ 3 * seconds <= max_staleness
  BY <1>1, <1>2, StalenessCovers
<1>4. /\ time = 0 /\ passed = 0 /\ sent = config_file /\ next_tick_at = 0
      /\ scheduler = "collecting" /\ last_success = -1 /\ excused = FALSE
  BY DEF DaemonInit, Started
<1>5. MaxPass \in Nat BY DaemonAssumption
<1>6. DaemonTypes
  <2>1. 0 \in 0 .. MaxPass /\ -1 \in Int /\ poll_interval > 0 BY <1>1, <1>2, <1>5
  <2>2. config_file.poll \in Polls /\ sent.poll \in Polls BY <1>2, <1>4
  <2>3. poll_interval \in Polls BY <1>1
  <2>4. /\ time \in Nat /\ passed \in 0 .. MaxPass
        /\ next_tick_at \in Int /\ last_success \in Int
    BY <1>4, <2>1
  <2>5. scheduler \in {"collecting", "select", "dead"} /\ excused \in BOOLEAN
    BY <1>4
  <2> QED BY <1>3, <2>1, <2>2, <2>3, <2>4, <2>5, Zenon DEF DaemonTypes
<1>7. TicksAreTimely BY <1>1, <1>2, <1>3, <1>4 DEF TicksAreTimely, last
<1> QED BY <1>6, <1>7 DEF DaemonInv

(* A pass is over within an interval of its start.                         *)
LEMMA PassWithinInterval ==
  ASSUME DaemonInv
  PROVE  /\ Polls \subseteq Nat /\ MaxPass \in Nat /\ last \in Nat
         /\ poll_interval \in Nat
         /\ poll_interval > 0 => MaxPass <= poll_interval
  BY DaemonAssumption DEF DaemonInv, DaemonTypes, last

(* Only a raised interval or a failed pass makes a pass late.              *)
LEMMA DaemonStep == DaemonInv /\ [DaemonNext]_daemonVars => DaemonInv'
<1> SUFFICES ASSUME DaemonInv, [DaemonNext]_daemonVars PROVE DaemonInv' OBVIOUS
<1>1. ASSUME NEW seconds \in Polls, NEW text \in {"valid", "invalid", "panics"},
             edit(Config(seconds, edits + 2, text))
      PROVE  DaemonInv'
  <2>1. config_file'.poll \in Polls BY <1>1 DEF edit, Config
  <2> QED BY <1>1, <2>1
          DEF edit, taskVars, healthVars, DaemonInv, DaemonTypes, TicksAreTimely, last
<1>2. CASE kill_hup
  BY <1>2 DEF kill_hup, taskVars, healthVars, DaemonInv, DaemonTypes, TicksAreTimely, last
(* Time passes in a pass, or up to the next tick.                          *)
<1>3. CASE time_goes_on
  <2>1. /\ time' = time + 1 /\ scheduler # "dead"
        /\ passed' = IF scheduler = "collecting" THEN passed + 1 ELSE 0
        /\ scheduler = "collecting" => passed < MaxPass
        /\ scheduler = "select" => time < next_tick_at
        /\ UNCHANGED <<config_file, sent, scheduler, poll_interval,
                       next_tick_at, last_success, max_staleness, excused>>
    BY <1>3 DEF time_goes_on, TickDue, taskVars, healthVars, DaemonInv, DaemonTypes
  <2>2. DaemonTypes' BY <2>1, PassWithinInterval DEF DaemonInv, DaemonTypes
  <2>3. ASSUME ~excused PROVE TicksAreTimely'
    <3>1. TicksAreTimely BY <2>3 DEF DaemonInv
    <3>2. last' = last BY <2>1 DEF last
    <3>3. CASE scheduler = "collecting"
      BY <2>1, <3>1, <3>2, <3>3, PassWithinInterval
         DEF TicksAreTimely, DaemonInv, DaemonTypes
    <3>4. CASE scheduler = "select"
      BY <2>1, <3>1, <3>2, <3>4, PassWithinInterval
         DEF TicksAreTimely, DaemonInv, DaemonTypes
    <3> QED BY <2>1, <3>3, <3>4 DEF DaemonInv, DaemonTypes
  <2> QED BY <2>1, <2>2, <2>3 DEF DaemonInv
<1>4. CASE try_reload
  BY <1>4 DEF try_reload, healthVars, DaemonInv, DaemonTypes, TicksAreTimely, last
(* A pass ends: a success starts the staleness anew, and the tick after it *)
(* is within an interval of its start.                                     *)
<1>5. ASSUME NEW ok \in BOOLEAN, collected(ok) PROVE DaemonInv'
  <2>1. /\ scheduler = "collecting" /\ scheduler' = "select" /\ passed' = 0
        /\ last_success' = IF ok THEN time ELSE last_success
        /\ excused' = (excused \/ ~ok)
        /\ UNCHANGED <<time, config_file, sent, poll_interval, next_tick_at,
                       max_staleness>>
    BY <1>5 DEF collected
  <2>2. DaemonTypes' BY <2>1, PassWithinInterval DEF DaemonInv, DaemonTypes
  <2>3. ASSUME ~excused' PROVE TicksAreTimely'
    <3>1. TicksAreTimely /\ ok BY <2>1, <2>3 DEF DaemonInv
    <3>2. last' = time BY <2>1, <3>1 DEF last, DaemonInv, DaemonTypes
    <3> QED BY <2>1, <3>1, <3>2, PassWithinInterval
            DEF TicksAreTimely, DaemonInv, DaemonTypes
  <2> QED BY <2>2, <2>3 DEF DaemonInv
(* A pass starts, no later than the tick it was waiting for.               *)
<1>6. CASE interval_tick
  <2>1. /\ scheduler = "select" /\ time >= next_tick_at
        /\ scheduler' = "collecting" /\ next_tick_at' = NextTick
        /\ UNCHANGED <<time, passed, config_file, sent, poll_interval,
                       last_success, max_staleness, excused>>
    BY <1>6 DEF interval_tick, TickDue, Collects, healthVars
  <2>2. poll_interval \in Nat \ {0}
    BY <2>1, PassWithinInterval DEF DaemonInv, DaemonTypes
  <2>3. NextTick \in Int /\ NextTick <= time + poll_interval
    BY <2>1, <2>2, TickWithinInterval DEF DaemonInv, DaemonTypes
  <2>4. DaemonTypes' BY <2>1, <2>2, <2>3 DEF DaemonInv, DaemonTypes
  <2>5. ASSUME ~excused PROVE TicksAreTimely'
    <3>1. TicksAreTimely BY <2>5 DEF DaemonInv
    <3>2. passed = 0 /\ last' = last BY <2>1, <3>1 DEF TicksAreTimely, last
    <3> QED BY <2>1, <2>2, <2>3, <3>1, <3>2
            DEF TicksAreTimely, DaemonInv, DaemonTypes
  <2> QED BY <2>1, <2>4, <2>5 DEF DaemonInv
(* A reload ticks at once, or keeps the tick it had.                       *)
<1>7. CASE config_changed
  <2>1. /\ scheduler = "select" /\ poll_interval' = sent.poll
        /\ scheduler' = IF sent.poll = 0 THEN "dead" ELSE "select"
        /\ next_tick_at' \in {next_tick_at, time}
        /\ excused' = (excused \/ staleness_of(sent.poll) > max_staleness)
        /\ UNCHANGED <<time, passed, config_file, sent, last_success,
                       max_staleness>>
    BY <1>7 DEF config_changed, tick_after_reload
  <2>2. sent.poll \in Nat BY PassWithinInterval DEF DaemonInv, DaemonTypes
  <2>3. /\ staleness_of(sent.poll) \in Nat
        /\ 3 * sent.poll <= staleness_of(sent.poll)
    BY <2>2, StalenessCovers
  <2>4. DaemonTypes' BY <2>1, <2>2, <2>3 DEF DaemonInv, DaemonTypes
  <2>5. ASSUME ~excused' PROVE TicksAreTimely'
    <3>1. TicksAreTimely /\ ~(staleness_of(sent.poll) > max_staleness)
      BY <2>1, <2>5 DEF DaemonInv
    <3>2. last' = last BY <2>1 DEF last
    <3>3. 3 * poll_interval' <= max_staleness
      BY <2>1, <2>2, <2>3, <3>1 DEF DaemonInv, DaemonTypes
    <3>4. scheduler' # "collecting" BY <2>1
    <3> QED BY <2>1, <3>1, <3>2, <3>3, <3>4
            DEF TicksAreTimely, DaemonInv, DaemonTypes
  <2> QED BY <2>4, <2>5 DEF DaemonInv
<1>8. CASE channel_closed
  BY <1>8 DEF channel_closed, healthVars, DaemonInv, DaemonTypes, TicksAreTimely, last
<1>9. CASE shutdown_signal \/ task_ended
  BY <1>9 DEF shutdown_signal, task_ended, taskVars, healthVars, DaemonInv, DaemonTypes,
              TicksAreTimely, last
<1>10. CASE UNCHANGED daemonVars
  BY <1>10 DEF daemonVars, DaemonInv, DaemonTypes, TicksAreTimely, last
<1> QED BY <1>1, <1>2, <1>3, <1>4, <1>5, <1>6, <1>7, <1>8, <1>9, <1>10
        DEF DaemonNext, Scheduler

-----------------------------------------------------------------------------
(* Readiness of a healthy exporter (main.rs, scheduler.rs, server.rs): for *)
(* any intervals it is started with and reloaded to, passes that succeed   *)
(* and none slower than its interval keep it ready until an interval is    *)
(* raised beyond what the readiness was set up for.                        *)
THEOREM HealthyIsReady == DaemonSpec => []HealthyStaysReady
<1>1. DaemonInv => HealthyStaysReady
  <2> SUFFICES ASSUME DaemonInv, ~excused PROVE time - last < max_staleness
    BY DEF HealthyStaysReady, is_ready, last
  <2>1. DaemonTypes /\ TicksAreTimely BY DEF DaemonInv
  <2>2. 3 * passed <= max_staleness
    <3>1. CASE scheduler = "collecting"
      BY <2>1, <3>1, PassWithinInterval DEF DaemonTypes, TicksAreTimely
    <3>2. CASE scheduler # "collecting"
      BY <2>1, <3>2 DEF DaemonTypes, TicksAreTimely
    <3> QED BY <3>1, <3>2
  <2>3. 3 * (time - passed - last) <= max_staleness
    BY <2>1 DEF TicksAreTimely
  <2>4. time \in Int /\ passed \in Int /\ last \in Int
        /\ max_staleness \in Nat \ {0}
    BY <2>1, PassWithinInterval DEF DaemonTypes
  <2> QED BY <2>2, <2>3, <2>4
<1> QED BY DaemonInitially, DaemonStep, <1>1, PTL DEF DaemonSpec
=============================================================================
