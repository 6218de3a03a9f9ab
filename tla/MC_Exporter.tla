----------------------------- MODULE MC_Exporter -----------------------------
(***************************************************************************)
(* The exporter's daemon, backends and PostgreSQL source in one instance.  *)
(* What they share is passed on as inputs (a pass succeeds or not, a query *)
(* is recorded), so each is explored with the others at rest: no query     *)
(* recorded, a server that was not polled, a daemon that was stopped.      *)
(***************************************************************************)
EXTENDS QuerySeries, PostgresSource, ExporterDaemon

NoQueries == SeriesInit /\ max_query_cardinality = 0
NotPolled == SourceInit
Stopped == Started /\ daemon = "signalled" /\ poll_interval = CHOOSE p \in Polls : p > 0

(* A scrape is followed where there is a limit; its answer, once complete, *)
(* is read and changed by nobody, and need not be carried past other steps.*)
Complete == unread = {} /\ answer # {}

FollowScrapes ==
  /\ max_query_cardinality = 0 => UNCHANGED scrapeVars
  /\ Complete => respond

mcInit ==
  \/ SeriesInit /\ NotPolled /\ Stopped
  \/ NoQueries /\ NotPolled /\ DaemonInit

mcNext ==
  \/ /\ NotPolled /\ Stopped
     /\ SeriesNext /\ FollowScrapes
     /\ UNCHANGED <<sourceVars, daemonVars>>
  \/ /\ NoQueries /\ Stopped
     /\ SourceNext /\ UNCHANGED <<seriesVars, daemonVars>>
  \/ /\ NoQueries /\ NotPolled
     /\ DaemonNext /\ UNCHANGED <<seriesVars, sourceVars>>

mcSpec ==
  mcInit /\ [][mcNext]_<<seriesVars, sourceVars, daemonVars>> /\ DaemonFairness
=============================================================================
