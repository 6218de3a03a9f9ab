-------------------------- MODULE MC_PersistLocks --------------------------
(***************************************************************************)
(* The locks persist_rows takes and what it stores, in one instance: the   *)
(* values stored are not part of the locking, so each is explored with the *)
(* other idle.                                                             *)
(***************************************************************************)
EXTENDS PersistLocks, StatMerge, TLC

CONSTANTS worker, backend

(* The worker and plansight_ingest persist one batch per transaction...    *)
MCOneCall == [w \in Writers |-> 1]

(* ...a synchronous backend one per statement of the user's transaction.   *)
MCBackendInTransaction == (worker :> 1) @@ (backend :> 2)

MCBounds == <<1, 2>>
MCCaptures ==
  [duration_ms : {1, 3}, timestamp : 0 .. 2, query_id : {5, 6}, plan : {"ok"}]
    \cup [duration_ms : {1, 3}, timestamp : 0 .. 2, query_id : {0}, plan : {"none"}]
    \cup [duration_ms : {9}, timestamp : {0}, query_id : {7}, plan : {"bad"}]

mcInit == Init /\ StatInit

mcNext ==
  \/ captures = 0 /\ cutoff = 0 /\ Next /\ UNCHANGED statVars
  \/ txns = 0 /\ edge = 1 /\ StatNext /\ UNCHANGED vars

mcSpec == mcInit /\ [][mcNext]_<<vars, statVars>>
mcFairSpec == mcSpec /\ Fairness
=============================================================================
