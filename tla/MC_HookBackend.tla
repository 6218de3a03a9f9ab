--------------------------- MODULE MC_HookBackend ---------------------------
(* Settings a session may flip between: top-level captures with timing;    *)
(* nested ones with row counts, drawn by queryId; capture off.             *)
EXTENDS HookBackend, TLC

CONSTANTS a1, a2, a3, a4
AddrSymmetry == Permutations(Addrs)

MCGucs ==
  {[hook |-> TRUE, rate |-> "all", by_query_id |-> FALSE,
    track_nested |-> FALSE, opts |-> "timed"],
   [hook |-> TRUE, rate |-> "some", by_query_id |-> TRUE,
    track_nested |-> TRUE, opts |-> "rows"],
   [hook |-> FALSE, rate |-> "all", by_query_id |-> FALSE,
    track_nested |-> FALSE, opts |-> "stats"]}

MCAlways ==
  {[hook |-> TRUE, rate |-> "all", by_query_id |-> FALSE,
    track_nested |-> TRUE, opts |-> "rows"]}
=============================================================================
