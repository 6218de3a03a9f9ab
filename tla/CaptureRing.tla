---------------------------- MODULE CaptureRing ----------------------------
(***************************************************************************)
(* The shared-memory ring of captured executions (pg_extension/src/ring.rs)*)
(* between the backends whose executor hooks push into it and the one      *)
(* background worker that drains it, aggregates and persists               *)
(* (bgworker.rs drain_hook_ring).  Everything done under the ring's LWLock *)
(* is one step; the worker's work after the lock is released is not.       *)
(***************************************************************************)
EXTENDS Integers, Sequences, FiniteSets

CONSTANTS
  Backends,     \* client backends with capture_mode = hook
  Databases,    \* databases of the cluster
  Missing,      \* names plansight.database may hold that are no database
  BackendDb,    \* BackendDb[b]: MyDatabaseId of backend b
  RingCap,      \* RING_CAP
  MaxCaptures,  \* bound: executions captured in a behaviour
  Costs,        \* overheads (ns) one capture may have
  U64Max,       \* u64::MAX, where ovh_sum_ns saturates
  U128Max       \* u128::MAX, where ovh_sumsq_ns saturates

Ids == 1 .. MaxCaptures
WarnedCap == MaxCaptures + 1  \* bound: warned stops counting here

ASSUME RingAssumption ==
  /\ BackendDb \in [Backends -> Databases]
  /\ Databases # {} /\ Databases \cap Missing = {}
  /\ RingCap \in Nat \ {0}
  /\ MaxCaptures \in Nat
  /\ Costs \subseteq Nat
  /\ U64Max \in Nat /\ U128Max \in Nat
  /\ \A ns \in Costs : ns <= U64Max

Captures == [id : Ids, db_oid : Databases]

VARIABLES
  recs,            \* Ring.recs[0..len)
  captured_total, dropped_total,
  drained,         \* Ring.last_drain_epoch # 0.0
  ovh,             \* Ring.ovh_*: count, sum, sumsq, min, max
  wstate,          \* worker: "starting", "waiting" for its latch,
                   \* "aggregating", "persisting", "down" until the
                   \* postmaster restarts it, or "exited" for good
  worker_db,       \* the database its process connects to (local `db`)
  batch,           \* captures (later: parsed captures) the worker holds
  last_dropped,    \* LAST_DROPPED, a thread-local of the worker process
  guc_database,    \* plansight.database as last reloaded
  calls,           \* calls[d][i]: times i is counted in d's statements
  issued,          \* history: executions captured so far, ids 1..issued
  origin,          \* history: origin[i], the database execution i ran in
  accepted, taken, \* history: captures appended to / copied out of the ring
  pushed,          \* history: calls of push
  warned           \* history: total of the "dropped N execution(s)" warnings

ringVars   == <<recs, captured_total, dropped_total, drained, ovh>>
workerVars == <<wstate, worker_db, batch, last_dropped>>
histVars   == <<issued, origin, accepted, taken, pushed, warned>>
vars == <<ringVars, workerVars, guc_database, calls, histVars>>

Elems(s) == {s[k] : k \in DOMAIN s}
LowerOf(a, b)  == IF a <= b THEN a ELSE b
HigherOf(a, b) == IF a >= b THEN a ELSE b

-----------------------------------------------------------------------------
(* Ring::default and Ring::reset_overhead: the minimum starts at u64::MAX.  *)
NoOverhead == [count |-> 0, sum |-> 0, sumsq |-> 0, min |-> U64Max, max |-> 0]

record_overhead_wraps(o, ns) ==
  [count |-> o.count + 1,
   sum   |-> (o.sum + ns) % (U64Max + 1),
   sumsq |-> (o.sumsq + ns * ns) % (U128Max + 1),
   min   |-> LowerOf(o.min, ns), max |-> HigherOf(o.max, ns)]

(* Ring::record_overhead: both sums saturate.                              *)
record_overhead(o, ns) ==
  [count |-> o.count + 1,
   sum   |-> LowerOf(o.sum + ns, U64Max),
   sumsq |-> LowerOf(o.sumsq + ns * ns, U128Max),
   min   |-> LowerOf(o.min, ns),
   max   |-> HigherOf(o.max, ns)]

push_rec_overwrites(c) ==
  /\ recs' = IF Len(recs) >= RingCap THEN Append(Tail(recs), c)
                                     ELSE Append(recs, c)
  /\ captured_total' = captured_total + 1
  /\ accepted' = Append(accepted, c)
  /\ UNCHANGED dropped_total

(* Ring::push_rec: append, or drop and count when every slot is taken.     *)
push_rec(c) ==
  \/ /\ Len(recs) >= RingCap
     /\ dropped_total' = dropped_total + 1
     /\ UNCHANGED <<recs, captured_total, accepted>>
  \/ /\ Len(recs) < RingCap
     /\ recs' = Append(recs, c)
     /\ captured_total' = captured_total + 1
     /\ accepted' = Append(accepted, c)
     /\ UNCHANGED dropped_total

(* A capture nobody has made yet, by backend b.                            *)
IssueTo(b) ==
  /\ issued < MaxCaptures
  /\ issued' = issued + 1
  /\ origin' = [origin EXCEPT ![issued + 1] = BackendDb[b]]

(* capture_async -> ring::push: record and overhead in one locked section. *)
push(b, ns) ==
  /\ IssueTo(b)
  /\ push_rec([id |-> issued + 1, db_oid |-> BackendDb[b]])
  /\ ovh' = record_overhead(ovh, ns)
  /\ pushed' = pushed + 1
  /\ UNCHANGED <<drained, workerVars, guc_database, calls, taken, warned>>

(* capture_synchronous: the backend upserts into its own database, or the  *)
(* subtransaction fails and is rolled back; the overhead counts either way.*)
capture_synchronous(b, ns) ==
  /\ IssueTo(b)
  /\ \/ calls' = [calls EXCEPT ![BackendDb[b]][issued + 1] = @ + 1]
     \/ UNCHANGED calls
  /\ ovh' = record_overhead(ovh, ns)
  /\ UNCHANGED <<recs, captured_total, dropped_total, drained, workerVars,
                 guc_database, accepted, taken, pushed, warned>>

(* plansight_reset_stats -> ring::reset_overhead.                          *)
reset_overhead ==
  /\ ovh' = NoOverhead
  /\ UNCHANGED <<recs, captured_total, dropped_total, drained, workerVars,
                 guc_database, calls, histVars>>

-----------------------------------------------------------------------------
take_recs_into_requeues_foreign ==
  LET home(c) == c.db_oid = worker_db
      foreign(c) == ~home(c)
  IN /\ taken' = taken \o SelectSeq(recs, home)
     /\ recs' = SelectSeq(recs, foreign)
     /\ drained' = TRUE

(* Ring::take_recs_into: copy the populated records out, len := 0.         *)
take_recs_into ==
  /\ taken' = taken \o recs
  /\ recs' = <<>>
  /\ drained' = TRUE

kept_all == Elems(recs)

(* The filter of ring::drain, after the lock is released.                  *)
kept == {c \in Elems(recs) : c.db_oid = worker_db}

(* A tick ends with the wait for the next one; in log mode flush_cycle runs *)
(* first, and a hard error in it ends the worker process.                  *)
TickEnds == {"waiting", "down"}

(* The drops a drain warns of: those since this worker's last drain.       *)
new_drops == HigherOf(dropped_total - last_dropped, 0)

(* drain_hook_ring up to its first early return.                           *)
drain ==
  /\ wstate = "waiting"
  /\ take_recs_into
  /\ batch' = kept
  /\ IF batch' = {} THEN wstate' \in TickEnds ELSE wstate' = "aggregating"
  /\ warned' = LowerOf(WarnedCap, warned + new_drops)
  /\ last_dropped' = dropped_total
  /\ UNCHANGED <<captured_total, dropped_total, ovh, worker_db, guc_database,
                 calls, issued, origin, accepted, pushed>>

(* aggregate_captures under PgTry: captures whose plan does not parse are  *)
(* skipped, a failed analysis drops the batch; no rows, nothing to persist.*)
aggregate_captures ==
  /\ wstate = "aggregating"
  /\ \E parsed \in SUBSET batch :
       /\ batch' = parsed
       /\ IF parsed = {} THEN wstate' \in TickEnds
                         ELSE wstate' = "persisting"
  /\ UNCHANGED <<ringVars, worker_db, last_dropped, guc_database, calls,
                 histVars>>

(* Every execution of cs counted once more in database d.                  *)
Folded(d, cs) ==
  [calls EXCEPT ![d] = [i \in Ids |->
     IF \E c \in cs : c.id = i THEN @[i] + 1 ELSE @[i]]]

(* persist_rows in one transaction: it commits, or it fails and the batch  *)
(* is gone; a hard error also ends the worker process.                     *)
persist_batch ==
  /\ wstate = "persisting"
  /\ batch' = {}
  /\ calls' \in {calls, Folded(worker_db, batch)}
  /\ wstate' \in TickEnds
  /\ UNCHANGED <<ringVars, worker_db, last_dropped, guc_database, histVars>>

(* plansight_bgworker_main up to its loop: connect to plansight.database.  *)
(* For a name that is no database connect_worker_to_spi raises FATAL.      *)
plansight_bgworker_main ==
  /\ wstate = "starting"
  /\ wstate' = IF worker_db \in Databases THEN "waiting" ELSE "down"
  /\ UNCHANGED <<ringVars, worker_db, batch, last_dropped, guc_database,
                 calls, histVars>>

(* The postmaster starts the worker again after set_restart_time: a new    *)
(* process, which reads what plansight.database says now.                  *)
respawn ==
  /\ wstate = "down"
  /\ wstate' = "starting"
  /\ worker_db' = guc_database
  /\ last_dropped' = 0
  /\ UNCHANGED <<ringVars, batch, guc_database, calls, histVars>>

(* SIGTERM (a shutdown, pg_terminate_backend): wait_latch returns false,   *)
(* main returns, and a worker that ends with code 0 is not restarted.      *)
sigterm ==
  /\ wstate = "waiting"
  /\ wstate' = "exited"
  /\ UNCHANGED <<ringVars, worker_db, batch, last_dropped, guc_database,
                 calls, histVars>>

(* plansight.database edited and reloaded.                                 *)
reload_database(d) ==
  /\ guc_database # d
  /\ guc_database' = d
  /\ UNCHANGED <<ringVars, workerVars, calls, histVars>>

(* The server restarts (or a crash makes it reinitialise shared memory):   *)
(* the ring is Ring::default() again and the tables are what was committed.*)
ServerRestart ==
  /\ issued > 0
  /\ recs' = <<>> /\ captured_total' = 0 /\ dropped_total' = 0
  /\ drained' = FALSE /\ ovh' = NoOverhead
  /\ wstate' = "starting" /\ worker_db' = guc_database
  /\ batch' = {} /\ last_dropped' = 0
  /\ accepted' = <<>> /\ taken' = <<>> /\ pushed' = 0 /\ warned' = 0
  /\ UNCHANGED <<guc_database, calls, issued, origin>>

-----------------------------------------------------------------------------
Init ==
  /\ recs = <<>> /\ captured_total = 0 /\ dropped_total = 0
  /\ drained = FALSE /\ ovh = NoOverhead
  /\ wstate = "starting" /\ batch = {} /\ last_dropped = 0
  /\ guc_database \in Databases \cup Missing /\ worker_db = guc_database
  /\ calls = [d \in Databases |-> [i \in Ids |-> 0]]
  /\ issued = 0 /\ origin = [i \in Ids |-> CHOOSE d \in Databases : TRUE]
  /\ accepted = <<>> /\ taken = <<>> /\ pushed = 0 /\ warned = 0

Worker == drain \/ aggregate_captures \/ persist_batch
          \/ plansight_bgworker_main \/ respawn

Next ==
  \/ \E b \in Backends, ns \in Costs : push(b, ns) \/ capture_synchronous(b, ns)
  \/ reset_overhead
  \/ Worker
  \/ sigterm
  \/ \E d \in Databases \cup Missing : reload_database(d)
  \/ ServerRestart

Spec == Init /\ [][Next]_vars

(* What is fair is the worker's own code and its respawn: the latch times  *)
(* out every flush_interval, a tick ends, and the postmaster starts a dead *)
(* worker again after ten seconds.  Whether a start succeeds is not        *)
(* assumed (the database may not exist), nor that nobody sends SIGTERM,    *)
(* nor that a server which lost its worker is ever restarted.              *)
FairSpec == Spec /\ WF_vars(Worker)
-----------------------------------------------------------------------------
(* The worker's states between its connection and its end.                 *)
Connected == {"waiting", "aggregating", "persisting"}

TypeOK ==
  /\ recs \in Seq(Captures) /\ accepted \in Seq(Captures)
  /\ taken \in Seq(Captures) /\ batch \subseteq Captures
  /\ captured_total \in Nat /\ dropped_total \in Nat /\ drained \in BOOLEAN
  /\ ovh \in [count : Nat, sum : Nat, sumsq : Nat, min : Nat, max : Nat]
  /\ wstate \in Connected \cup {"starting", "down", "exited"}
  /\ worker_db \in Databases \cup Missing
  /\ guc_database \in Databases \cup Missing
  /\ wstate \in Connected => worker_db \in Databases
  /\ last_dropped \in Nat /\ warned \in Nat /\ pushed \in Nat
  /\ calls \in [Databases -> [Ids -> Nat]]
  /\ issued \in 0 .. MaxCaptures
  /\ origin \in [Ids -> Databases]

(* Nothing is lost, duplicated or reordered between a push that was        *)
(* accepted and the drain that takes it: what the worker has copied out    *)
(* followed by what is still in the slots is what was accepted, in order.  *)
RingIsFifo == accepted = taken \o recs

(* The lifetime counters of plansight_capture_stats() account for every    *)
(* push: captured_total counts the accepted ones, dropped_total the rest,  *)
(* and no burst writes past the last slot.                                 *)
CountersExact ==
  /\ captured_total = Len(accepted)
  /\ pushed = captured_total + dropped_total
  /\ Len(recs) <= RingCap

(* An execution is counted at most once in the statistics, across drains,  *)
(* failed batches, worker restarts and server restarts.                    *)
CountedAtMostOnce == \A d \in Databases, i \in Ids : calls[d][i] <= 1

(* "One database's SQL/plan text is never written into another's tables"   *)
(* (ring.rs): a row of database d counts only executions that ran in d,    *)
(* whichever database the worker was or is connected to.                   *)
DatabaseIsolation ==
  \A d \in Databases, i \in Ids : calls[d][i] > 0 => origin[i] = d

(* What DatabaseIsolation and CountedAtMostOnce rest on.  Every capture in *)
(* the ring or in the worker's hands is an execution that happened, of the *)
(* database stamped on it; it is in one place only and counted nowhere;    *)
(* and what the worker holds is of the database it is connected to.        *)
InFlight == Elems(recs) \cup batch

InFlightIsFresh ==
  /\ \A c \in InFlight : c.id <= issued /\ c.db_oid = origin[c.id]
  /\ \A k, l \in DOMAIN recs : recs[k].id = recs[l].id => k = l
  /\ \A c \in Elems(recs), e \in batch : c.id # e.id
  /\ \A c \in InFlight, d \in Databases : calls[d][c.id] = 0
  /\ \A i \in Ids, d \in Databases : i > issued => calls[d][i] = 0
  /\ \A c \in batch : c.db_oid = worker_db
  /\ wstate \notin {"aggregating", "persisting"} => batch = {}

(* The self-overhead accumulator stays a possible sample: the mean lies    *)
(* between min and max and the variance is not negative, unless a sum has  *)
(* saturated; it never wraps.                                              *)
OverheadIsASample ==
  IF ovh.count = 0 THEN ovh = NoOverhead
  ELSE /\ ovh.min <= ovh.max
       /\ ovh.sum <= ovh.count * ovh.max
       /\ ovh.sum < U64Max => ovh.count * ovh.min <= ovh.sum
       /\ ovh.sum < U64Max /\ ovh.sumsq < U128Max
            => ovh.sum * ovh.sum <= ovh.count * ovh.sumsq
       /\ ovh.max <= ovh.sum

(* Nobody drains the ring: the worker was stopped, or its process is for a *)
(* database that does not exist and dies at every start.                   *)
Unserved == wstate = "exited" \/ worker_db \in Missing

(* A capture does not stay in the ring, nor a drop unreported, but for a   *)
(* worker that is kept from serving: whenever the ring holds something it  *)
(* is emptied later, foreign databases' records included, or the worker is *)
(* found Unserved; and each drop is in a warning later, also one that came *)
(* while the worker was down, and one of a burst that left it nothing to   *)
(* persist.  So once the worker is Unserved no more (the setting corrected,*)
(* the server restarted), what was left in the ring is drained after all.  *)
RingIsDrained ==
  /\ recs # <<>> ~> recs = <<>> \/ Unserved
  /\ \A n \in Ids :
       dropped_total >= n ~> warned >= n \/ dropped_total = 0 \/ Unserved

(* Every step is a step of the sampler's promise, with what sits in the    *)
(* ring or in the worker's hands pending.                                  *)
Promise == INSTANCE SampleStore WITH
  observed <- 1 .. issued,
  home     <- origin,
  pending  <- {c.id : c \in InFlight}

KeepsPromise == Promise!Spec
=============================================================================
