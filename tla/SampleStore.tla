---------------------------- MODULE SampleStore ----------------------------
(***************************************************************************)
(* What in-process capture promises, whatever the ring, the worker and the *)
(* backends do in between: "a sampler, not a ledger".  An execution that   *)
(* is observed is either waiting to be stored, stored once in the          *)
(* statistics of the database it ran in, or given up.  It is never stored  *)
(* twice and never in another database's tables.                           *)
(***************************************************************************)
EXTENDS Naturals

CONSTANTS Ids,        \* executions
          Databases   \* databases of the cluster

VARIABLES observed,   \* executions the hook has looked at so far
          home,       \* home[i]: the database execution i ran in
          pending,    \* observed, neither stored nor given up
          calls       \* calls[d][i]: times i is counted in d's statistics

vars == <<observed, home, pending, calls>>

TypeOK ==
  /\ observed \subseteq Ids
  /\ home \in [Ids -> Databases]
  /\ pending \subseteq observed
  /\ calls \in [Databases -> [Ids -> Nat]]

Init ==
  /\ observed = {}
  /\ home \in [Ids -> Databases]
  /\ pending = {}
  /\ calls = [d \in Databases |-> [i \in Ids |-> 0]]

(* The statistics with each execution of S counted once more, at home.     *)
Counted(S) ==
  [d \in Databases |->
     [i \in Ids |-> calls[d][i] + (IF i \in S /\ home[i] = d THEN 1 ELSE 0)]]

(* A new execution is queued, stored at once, or given up.                 *)
Observe(i, d) ==
  /\ i \notin observed
  /\ observed' = observed \cup {i}
  /\ home' = [home EXCEPT ![i] = d]
  /\ \/ pending' = pending \cup {i} /\ UNCHANGED calls
     \/ UNCHANGED <<pending, calls>>
     \/ /\ UNCHANGED pending
        /\ calls' = [calls EXCEPT ![d][i] = @ + 1]

(* Some pending executions leave the queue; a subset of them is stored.    *)
Settle(S, K) ==
  /\ pending' = pending \ S
  /\ calls' = Counted(K)
  /\ UNCHANGED <<observed, home>>

Next ==
  \/ \E i \in Ids, d \in Databases : Observe(i, d)
  \/ \E S \in SUBSET pending : \E K \in SUBSET S : Settle(S, K)

Spec == Init /\ [][Next]_vars
=============================================================================
