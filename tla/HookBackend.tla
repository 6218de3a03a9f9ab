---------------------------- MODULE HookBackend ----------------------------
(***************************************************************************)
(* The executor hooks of one backend (pg_extension/src/hook.rs and         *)
(* nesting.c): which executions are sampled at ExecutorStart, how the      *)
(* entry made there is found again at ExecutorEnd, and what errors,        *)
(* cursors, nested queries and the extension's own queries do in between.  *)
(* A backend is one thread; what interleaves is the lives of its queries.  *)
(***************************************************************************)
EXTENDS Integers, Sequences, FiniteSets

CONSTANTS
  Addrs,          \* addresses a QueryDesc may be allocated at
  QueryIds,       \* core queryIds, 0 when there is none
  Gucs,           \* settings a session may switch between, at any time
  SampleMapCap,   \* SAMPLE_MAP_CAP
  SeenCap,        \* SEEN_QUERY_IDS_CAP
  MaxExecs        \* bound: executions started in a behaviour

Execs == 1 .. MaxExecs
Rates == {"none", "some", "all"}     \* sample_rate <= 0, in between, >= 1
Opts  == {"stats", "rows", "timed"}  \* capture_plan off; on; with track_timing

ASSUME HookAssumption ==
  /\ MaxExecs \in Nat /\ SampleMapCap \in Nat \ {0} /\ SeenCap \in Nat \ {0}
  /\ Gucs \subseteq [hook : BOOLEAN, rate : Rates, by_query_id : BOOLEAN,
                     track_nested : BOOLEAN, opts : Opts]
  /\ 0 \in QueryIds

(* An execution between ExecutorStart and ExecutorEnd.  level is the number*)
(* of executors running around it, own says that our hook allocated its    *)
(* totaltime, instr what its plan nodes were instrumented for, self that   *)
(* our own capture work runs it.                                           *)
Queries == [exec : Execs, addr : Addrs, level : Nat, own : BOOLEAN,
            instr : Opts, nested_ok : BOOLEAN, self : BOOLEAN]
Entries == [addr : Addrs, opts : Opts, exec : Execs]

VARIABLES
  in_xact,        \* inside a transaction
  live,           \* the executions started and not ended
  frames,         \* ExecutorRun/ExecutorFinish calls on the C stack
  nesting_level,  \* plansight_nesting_level
  sample_map,     \* SAMPLE_MAP; exec is the execution that made the entry
  capturing,      \* CAPTURING
  capture,        \* {}, or the one maybe_capture at work
  seen,           \* SEEN_QUERY_IDS
  guc,            \* the session's settings
  started,        \* history: executions started
  evicted         \* history: executions whose entry SAMPLE_MAP_CAP dropped

hookVars == <<nesting_level, sample_map, capturing, capture, seen>>
vars == <<in_xact, live, frames, hookVars, guc, started, evicted>>

Front(s, k) == SubSeq(s, 1, k)
IndexOf(addr) == {k \in DOMAIN sample_map : sample_map[k].addr = addr}

-----------------------------------------------------------------------------
(* Vec::swap_remove: the last element takes the place of the removed one.  *)
swap_remove(s, k) ==
  [j \in 1 .. Len(s) - 1 |-> IF j = k THEN s[Len(s)] ELSE s[j]]

drop_stale_never(addr) == sample_map

(* A fresh QueryDesc at a known address: the entry there is stale.         *)
drop_stale(addr) ==
  IF IndexOf(addr) = {} THEN sample_map
  ELSE swap_remove(sample_map, CHOOSE k \in IndexOf(addr) : TRUE)

(* At the cap, the entry at index 0 makes room.                            *)
evict(s) == IF Len(s) >= SampleMapCap THEN Tail(s) ELSE s

eligible_capturing(g) == g.hook /\ (nesting_level = 0 \/ g.track_nested)

(* executor_start: eligible (a bare EXPLAIN starts no execution here).     *)
eligible(g) == g.hook /\ ~capturing /\ (nesting_level = 0 \/ g.track_nested)

(* want_capture marks a queryId as seen when it draws by queryId.          *)
by_id(g, qid) == g.rate = "some" /\ g.by_query_id /\ qid # 0
seen_after(g, qid) ==
  IF by_id(g, qid)
  THEN (IF Cardinality(seen) >= SeenCap THEN {} ELSE seen) \cup {qid}
  ELSE seen
first_seen(g, qid) ==
  by_id(g, qid) /\ (qid \notin seen \/ Cardinality(seen) >= SeenCap)

(* want_capture's possible answers: a draw, unless rate or queryId decides.*)
want_capture(g, qid) ==
  CASE g.rate = "all"     -> {TRUE}
    [] g.rate = "none"    -> {FALSE}
    [] first_seen(g, qid) -> {TRUE}
    [] OTHER              -> BOOLEAN

nesting_after_keeps(k) == nesting_level
(* PG_CATCH of each frame that is left decrements the level.               *)
nesting_after(k) == nesting_level - (Len(frames) - k)

(* An error caught at depth k: no ExecutorEnd comes for the executions in  *)
(* the frames that are left, nor for the cursors (lost) that the rollback  *)
(* closes with them.                                                       *)
Unwind(k, lost) ==
  /\ live' = {q \in live \ lost :
               \A j \in k + 1 .. Len(frames) : frames[j] # q.exec}
  /\ frames' = Front(frames, k)
  /\ nesting_level' = nesting_after(k)

SelfQueries == {q \in live : q.self}
FreeAddrs == Addrs \ {q.addr : q \in live}
Running(q) == \E j \in DOMAIN frames : frames[j] = q.exec

-----------------------------------------------------------------------------
(* executor_start, when the previous hook returns: the other extension may *)
(* have allocated totaltime first (then the query is not ours).            *)
executor_start(addr, qid) ==
  /\ in_xact /\ started < MaxExecs /\ addr \in FreeAddrs
  /\ LET e == eligible(guc)
         id == IF e THEN qid ELSE 0
         exec == started + 1
     IN \E want \in (IF e THEN want_capture(guc, id) ELSE {FALSE}),
           free \in BOOLEAN :
          LET own == want /\ free
              cleared == drop_stale(addr)
              full == own /\ Len(cleared) >= SampleMapCap
              room == evict(cleared)
          IN /\ seen' = IF e THEN seen_after(guc, id) ELSE seen
             /\ live' = live \cup
                  {[exec |-> exec, addr |-> addr,
                    level |-> Len(frames), own |-> own,
                    instr |-> IF want THEN guc.opts ELSE "stats",
                    nested_ok |-> guc.track_nested,
                    self |-> capture # {}]}
             /\ sample_map' =
                  IF own THEN Append(room, [addr |-> addr, opts |-> guc.opts,
                                            exec |-> exec])
                         ELSE cleared
             /\ evicted' = IF full THEN evicted \cup {cleared[1].exec}
                                   ELSE evicted
             /\ started' = exec
  /\ UNCHANGED <<in_xact, frames, nesting_level, capturing, capture, guc>>

(* plansight_ExecutorRun / plansight_ExecutorFinish go in and return.      *)
plansight_ExecutorRun(q) ==
  /\ ~Running(q)
  /\ capture # {} => q.self
  /\ frames' = Append(frames, q.exec)
  /\ nesting_level' = nesting_level + 1
  /\ UNCHANGED <<in_xact, live, sample_map, capturing, capture, seen, guc,
                 started, evicted>>

ExecutorRunReturns ==
  /\ frames # <<>>
  /\ capture # {} => \E q \in live : q.self /\ q.exec = frames[Len(frames)]
  /\ frames' = Front(frames, Len(frames) - 1)
  /\ nesting_level' = nesting_level - 1
  /\ UNCHANGED <<in_xact, live, sample_map, capturing, capture, seen, guc,
                 started, evicted>>

(* executor_end looks its entry up by address and removes it.              *)
entry_of(q) == IndexOf(q.addr)

(* executor_end without a capture: no entry, a re-entered hook, or one of  *)
(* maybe_capture's gates (parallel worker, aborting, min_duration_ms).     *)
executor_end(q) ==
  /\ ~Running(q)
  /\ capture # {} => q.self
  /\ sample_map' = IF entry_of(q) = {} THEN sample_map
                   ELSE swap_remove(sample_map, CHOOSE k \in entry_of(q) : TRUE)
  /\ live' = live \ {q}
  /\ UNCHANGED <<in_xact, frames, nesting_level, capturing, capture, seen, guc,
                 started, evicted>>

(* executor_end up to the point where maybe_capture sets CAPTURING.        *)
maybe_capture(q) ==
  /\ ~Running(q) /\ capture = {} /\ ~capturing
  /\ \E k \in entry_of(q) :
       /\ sample_map' = swap_remove(sample_map, k)
       /\ capture' = {[query |-> q, entry |-> sample_map[k],
                       depth |-> Len(frames)]}
  /\ capturing' = TRUE
  /\ UNCHANGED <<in_xact, live, frames, nesting_level, seen, guc, started,
                 evicted>>

(* The capture is over, with its own queries ended: pushed or persisted,   *)
(* or failed in its subtransaction; ReentryGuard drops; the user's query   *)
(* ends either way.                                                        *)
capture_ends ==
  /\ \E c \in capture :
       \/ /\ SelfQueries = {} /\ Len(frames) = c.depth
          /\ live' = live \ {c.query}
          /\ UNCHANGED <<frames, nesting_level>>
       \/ Unwind(c.depth, SelfQueries \cup {c.query})
  /\ capture' = {} /\ capturing' = FALSE
  /\ UNCHANGED <<in_xact, sample_map, seen, guc, started, evicted>>

-----------------------------------------------------------------------------
xact_callback_keeps_flag ==
  /\ nesting_level' = 0 /\ sample_map' = <<>> /\ UNCHANGED capturing

(* xact_callback, at every transaction end.                                *)
xact_callback ==
  /\ nesting_level' = 0
  /\ sample_map' = <<>>
  /\ capturing' = FALSE

(* An error caught inside the transaction (PL/pgSQL EXCEPTION, ROLLBACK TO *)
(* SAVEPOINT) at depth k.  One raised by a chained C hook while we capture *)
(* jumps over ReentryGuard: the flag stays set.                            *)
CaughtError(k) ==
  /\ in_xact
  /\ \A c \in capture : k <= c.depth
  /\ \E lost \in SUBSET live :
       Unwind(k, lost \cup SelfQueries \cup {c.query : c \in capture})
  /\ capture' = {}
  /\ UNCHANGED <<in_xact, sample_map, capturing, seen, guc, started, evicted>>

(* The previous ExecutorStart hook raises: the queryId is marked already   *)
(* and the map is untouched; what the error unwinds is a CaughtError.      *)
executor_start_raises(qid) ==
  /\ in_xact /\ capture = {} /\ eligible(guc)
  /\ seen' = seen_after(guc, qid)
  /\ UNCHANGED <<in_xact, live, frames, nesting_level, sample_map, capturing,
                 capture, guc, started, evicted>>

Begin ==
  /\ ~in_xact /\ in_xact' = TRUE
  /\ UNCHANGED <<live, frames, hookVars, guc, started, evicted>>

(* Commit, when every portal has been ended, or abort, whatever is live.   *)
TransactionEnds ==
  /\ in_xact
  /\ in_xact' = FALSE
  /\ xact_callback
  /\ live' = {} /\ frames' = <<>> /\ capture' = {}
  /\ UNCHANGED <<seen, guc, started, evicted>>

SetGuc(g) ==
  /\ g # guc /\ capture = {}
  /\ guc' = g
  /\ UNCHANGED <<in_xact, live, frames, hookVars, started, evicted>>

Init ==
  /\ in_xact = FALSE /\ live = {} /\ frames = <<>>
  /\ nesting_level = 0 /\ sample_map = <<>> /\ capturing = FALSE
  /\ capture = {} /\ seen = {} /\ guc \in Gucs
  /\ started = 0 /\ evicted = {}

Next ==
  \/ \E addr \in Addrs, qid \in QueryIds : executor_start(addr, qid)
  \/ \E q \in live : plansight_ExecutorRun(q) \/ executor_end(q)
                     \/ maybe_capture(q)
  \/ ExecutorRunReturns \/ capture_ends \/ Begin \/ TransactionEnds
  \/ \E k \in 0 .. Len(frames) : CaughtError(k)
  \/ \E qid \in QueryIds : executor_start_raises(qid)
  \/ \E g \in Gucs : SetGuc(g)

Spec == Init /\ [][Next]_vars
-----------------------------------------------------------------------------
(* The counter the C shim keeps is the depth of the executor stack, after  *)
(* any error and whatever the transaction end resets.                      *)
NestingIsDepth == nesting_level = Len(frames)

(* An execution we instrumented is not forgotten while it lives, in        *)
(* whatever order cursors end: only SAMPLE_MAP_CAP may drop its entry.     *)
OwnedIsTracked ==
  \A q \in live : q.own =>
    \/ \E k \in DOMAIN sample_map : sample_map[k].exec = q.exec
    \/ q.exec \in evicted
    \/ \E c \in capture : c.query = q

(* A capture uses the entry its own ExecutorStart made, never one that an  *)
(* errored execution left at the same address: it is ours, and it renders  *)
(* what its nodes were instrumented for, not what the settings say now;    *)
(* and none of ours is lost.                                               *)
EntryOfItsQuery ==
  /\ \A c \in capture : /\ c.entry.exec = c.query.exec /\ c.query.own
                         /\ c.entry.opts = c.query.instr
  /\ \A j, k \in DOMAIN sample_map :
       sample_map[j].addr = sample_map[k].addr => j = k
  /\ OwnedIsTracked

(* What is captured is the user's: never a query our own capture work ran, *)
(* and a nested one only if it started under track_nested.                 *)
CapturesAreTheUsers ==
  \A q \in live : q.own => ~q.self /\ (q.level = 0 \/ q.nested_ok)

(* Nothing outlives its transaction: no level, no entry, and no stuck      *)
(* re-entrancy flag that would disable capture for the backend's life.     *)
IdleIsClean ==
  ~in_xact => nesting_level = 0 /\ sample_map = <<>> /\ ~capturing

=============================================================================
