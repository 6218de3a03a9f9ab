---------------------------- MODULE PersistLocks ----------------------------
(***************************************************************************)
(* The row locks persist_rows takes (pg_extension/src/lib.rs) when several *)
(* writers fold batches into the same tables: the background worker,       *)
(* plansight_ingest, and backends in synchronous mode, whose upserts run   *)
(* in the user's own transaction.  A row lock is held to the transaction's *)
(* end; a writer whose next row another writer holds waits for it.         *)
(***************************************************************************)
EXTENDS Integers, FiniteSets

CONSTANTS
  Writers,
  Fingerprints,  \* numbers, in the order fingerprints sort in
  BatchMinutes,  \* minutes a batch may have window rows for
  OldMinutes,    \* minutes that have rows in metrics_window at the start
  Calls,         \* Calls[w]: persist_rows calls one transaction of w makes
  MaxClock,      \* bound: the retention window's edge moves from 1 to here
  MaxTxns        \* bound: transactions in a behaviour

ASSUME PersistAssumption ==
  /\ Fingerprints \subseteq Nat /\ IsFiniteSet(Fingerprints)
  /\ BatchMinutes \cup OldMinutes \subseteq Nat \ {0}
  /\ IsFiniteSet(BatchMinutes) /\ IsFiniteSet(OldMinutes)
  /\ Calls \in [Writers -> Nat \ {0}]
  /\ MaxClock \in Nat \ {0} /\ MaxTxns \in Nat

(* <<f, 0>> is the row of fingerprint f in statements (its histogram rows  *)
(* are only written under it); <<f, m>> its row in metrics_window.         *)
Minutes == BatchMinutes \cup OldMinutes

VARIABLES
  window,  \* the rows committed in metrics_window
  edge,    \* oldest minute the retention window keeps, by the clock
  pc,      \* pc[w]: "idle", "upsert", "delete" or "open" between calls
  todo,    \* todo[w]: the rows w still has to lock
  asks,    \* asks[w]: the one of them it is at, {} where none is left
  held,    \* held[w]: the rows whose lock w holds
  added, removed,  \* window rows w's transaction has upserted / deleted
  now,     \* now[w]: edge by now(), the start of w's transaction
  made,    \* made[w]: persist_rows calls this transaction has begun
  txns     \* history: transactions begun

vars == <<window, edge, pc, todo, asks, held, added, removed, now, made, txns>>

(* A statements row comes before those of later fingerprints and before    *)
(* the window rows of its own, which come in the order of a HashMap.       *)
Before(r, s) == r[1] < s[1] \/ (r[1] = s[1] /\ r[2] = 0 /\ s[2] # 0)

in_any_order(w, rows) ==
  LET sorts == w = CHOOSE v \in Writers : TRUE
  IN {r \in rows : \A s \in rows : IF sorts THEN ~Before(s, r) ELSE ~Before(r, s)}

(* The rows of a batch that may be upserted next.                          *)
ordered(w, rows) == {r \in rows : \A s \in rows : ~Before(s, r)}

(* The rows a DELETE may meet next: it scans them by minute, in the same   *)
(* order in every transaction (metrics_window_minute_idx).                 *)
ScannedBefore(r, s) == r[2] < s[2] \/ (r[2] = s[2] /\ r[1] < s[1])
scanned(rows) == {r \in rows : \A s \in rows \ {r} : ScannedBefore(r, s)}

(* w goes on to lock rows, one of those that may be next at first.         *)
GoesOn(w, rows, next) ==
  /\ todo' = [todo EXCEPT ![w] = rows]
  /\ \/ rows = {} /\ asks' = [asks EXCEPT ![w] = {}]
     \/ \E r \in next : asks' = [asks EXCEPT ![w] = {r}]

(* The rows of a batch: window rows older than the clock's edge are left   *)
(* out, "would be purged right away".                                      *)
batch_rows(fs, minutes) ==
  {<<f, 0>> : f \in fs} \cup (fs \X {m \in minutes : m >= edge})

-----------------------------------------------------------------------------
(* A call of persist_rows with a batch of fingerprints, in a transaction   *)
(* that has just begun or one that has made calls before.                  *)
persist_rows(w) ==
  /\ \/ pc[w] = "idle" /\ txns < MaxTxns
        /\ txns' = txns + 1 /\ made' = [made EXCEPT ![w] = 1]
        /\ now' = [now EXCEPT ![w] = edge]
     \/ pc[w] = "open" /\ made[w] < Calls[w]
        /\ made' = [made EXCEPT ![w] = @ + 1]
        /\ UNCHANGED <<txns, now>>
  /\ \E fs \in (SUBSET Fingerprints) \ {{}}, minutes \in SUBSET BatchMinutes :
       LET rows == batch_rows(fs, minutes)
       IN /\ GoesOn(w, rows, ordered(w, rows))
          /\ added' = [added EXCEPT ![w] = @ \cup {r \in rows : r[2] # 0}]
          /\ removed' = [removed EXCEPT ![w] = @ \ rows]
  /\ pc' = [pc EXCEPT ![w] = "upsert"]
  /\ UNCHANGED <<window, edge, held>>

Holders(w, r) == {v \in Writers \ {w} : r \in held[v]}

(* The row asked for, once nobody else holds it.                           *)
Lock(w) ==
  /\ \E r \in asks[w] :
       /\ Holders(w, r) = {}
       /\ held' = [held EXCEPT ![w] = @ \cup {r}]
       /\ LET rest == todo[w] \ {r}
          IN GoesOn(w, rest, IF pc[w] = "upsert" THEN ordered(w, rest) ELSE scanned(rest))
  /\ UNCHANGED <<window, edge, pc, added, removed, now, made, txns>>

Expired_one_more(w) == {r \in window \cup added[w] : r[2] <= now[w]}

(* DELETE FROM metrics_window WHERE minute < now() - the retention window. *)
Expired(w) == {r \in window \cup added[w] : r[2] < now[w]}

DeleteExpired(w) ==
  /\ pc[w] = "upsert" /\ todo[w] = {}
  /\ pc' = [pc EXCEPT ![w] = "delete"]
  /\ GoesOn(w, Expired(w), scanned(Expired(w)))
  /\ removed' = [removed EXCEPT ![w] = @ \cup Expired(w)]
  /\ UNCHANGED <<window, edge, held, added, now, made, txns>>

persist_rows_returns(w) ==
  /\ pc[w] = "delete" /\ todo[w] = {}
  /\ pc' = [pc EXCEPT ![w] = "open"]
  /\ UNCHANGED <<window, edge, todo, asks, held, added, removed, now, made, txns>>

(* The transaction commits; its locks are released.                        *)
Commit(w) ==
  /\ pc[w] = "open"
  /\ pc' = [pc EXCEPT ![w] = "idle"]
  /\ window' = (window \cup added[w]) \ removed[w]
  /\ held' = [held EXCEPT ![w] = {}]
  /\ added' = [added EXCEPT ![w] = {}]
  /\ removed' = [removed EXCEPT ![w] = {}]
  /\ UNCHANGED <<edge, todo, asks, now, made, txns>>

Tick ==
  /\ edge < MaxClock /\ edge' = edge + 1
  /\ UNCHANGED <<window, pc, todo, asks, held, added, removed, now, made, txns>>

Init ==
  /\ window = Fingerprints \X OldMinutes
  /\ edge = 1
  /\ pc = [w \in Writers |-> "idle"] /\ todo = [w \in Writers |-> {}]
  /\ asks = [w \in Writers |-> {}] /\ held = [w \in Writers |-> {}]
  /\ added = [w \in Writers |-> {}] /\ removed = [w \in Writers |-> {}]
  /\ now = [w \in Writers |-> 1] /\ made = [w \in Writers |-> 0]
  /\ txns = 0

Step(w) ==
  Lock(w) \/ DeleteExpired(w) \/ persist_rows_returns(w) \/ Commit(w)

Next == Tick \/ \E w \in Writers : persist_rows(w) \/ Step(w)

Spec == Init /\ [][Next]_vars

(* Every backend runs on while it is not waiting for a lock; a transaction *)
(* that has nothing left to do ends.                                       *)
Fairness == \A w \in Writers : WF_vars(Step(w))

FairSpec == Spec /\ Fairness
-----------------------------------------------------------------------------
WaitsFor(w) == UNION {Holders(w, r) : r \in asks[w]}

(* "A consistent lock order makes that impossible (one writer simply waits *)
(* for the other)" (lib.rs:489): no set of writers each waits for another. *)
NoDeadlock ==
  \A S \in (SUBSET Writers) \ {{}} : \E w \in S : WaitsFor(w) \cap S = {}

(* What is true of it: a circle needs a writer in a later call of its      *)
(* transaction, which has no place in the order, or one that has upserted  *)
(* a minute which expired before it commits, so that another's DELETE      *)
(* takes it out of order.                                                  *)
Fresh(w) == made[w] <= 1 /\ \A r \in added[w] : r[2] >= edge
FreshWritersDoNotDeadlock ==
  \A S \in (SUBSET Writers) \ {{}} :
    (\A w \in S : Fresh(w)) => \E w \in S : WaitsFor(w) \cap S = {}

(* Every writer gets its locks and commits: waiting ends.                  *)
EveryWriterCommits == \A w \in Writers : pc[w] # "idle" ~> pc[w] = "idle"

(* The purge never deletes a row that the retention window still keeps.    *)
PurgeKeepsTheWindow ==
  [][\A r \in window \ window' : r[2] < edge']_vars
=============================================================================
