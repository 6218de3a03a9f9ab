--------------------------- MODULE ExporterDaemon ---------------------------
(***************************************************************************)
(* The exporter's daemon: run_daemon of exporter/src/main.rs and the tasks *)
(* it supervises, the scheduler (scheduler.rs), the reloader               *)
(* (config_watcher.rs) and the HTTP server with the readiness it reports   *)
(* (server.rs); what a reload changes in the collector (update_config).    *)
(*                                                                         *)
(* A configuration is its poll interval and the rest, told apart by a      *)
(* number; its text is valid, or not, or makes the parser of durations     *)
(* panic.  Passes over the logs are the Collector's: here they take time   *)
(* and succeed or not.                                                     *)
(***************************************************************************)
EXTENDS Integers

CONSTANTS
  Polls,              \* poll intervals a configuration may have
  MinStaleness,       \* the least staleness readiness allows
  MaxPass,            \* bound: time a pass takes
  MaxUptime, MaxEdits \* bounds

(* No pass is slower than an interval it may be started for.               *)
ASSUME DaemonAssumption ==
  /\ Polls \subseteq Nat /\ {MinStaleness, MaxPass} \subseteq Nat
  /\ \A poll \in Polls \ {0} : MaxPass <= poll

VARIABLES
  time, passed,       \* now; units the current pass has taken
  config_file, edits, \* the configuration file
  sighup,             \* a signal is pending
  reloader,           \* "listening" or "dead"
  sent, seen,         \* the watch channel: its value, what was received of it
  scheduler,          \* "collecting", "select" or "dead"
  hot_reload,         \* config_rx is there
  poll_interval, next_tick_at,
  collector,          \* what update_config sets
  last_success,       \* HealthState; -1: none
  max_staleness,
  excused,            \* a pass had errors, or the interval was raised (history)
  daemon              \* "running", "signalled" or "task_died"

daemonVars == <<time, passed, config_file, edits, sighup, reloader, sent, seen, scheduler, hot_reload,
                poll_interval, next_tick_at, collector, last_success, max_staleness, excused, daemon>>
taskVars == <<reloader, sent, seen, scheduler, hot_reload, poll_interval, next_tick_at, collector>>
healthVars == <<last_success, max_staleness, excused>>

Config(poll, rest, text) == [poll |-> poll, rest |-> rest, text |-> text]

(* Config::validate and the checks of try_reload: an interval of no time   *)
(* is accepted.                                                            *)
validate(config) == config.text = "valid"

parse_duration_panics(config) == config.text = "panics"

(* LogCollector::new, then update_config: the thresholds of slow queries   *)
(* are resolved once.                                                      *)
NewCollector(config) ==
  [config |-> config, filter_patterns |-> config.rest, log_parser |-> config.rest,
   max_plans |-> config.rest, slow_thresholds |-> config.rest]

update_config(config) ==
  [collector EXCEPT !.config = config, !.filter_patterns = config.rest,
                    !.log_parser = config.rest, !.max_plans = config.rest]

(* Three intervals without a success, and no less than a minute.           *)
staleness_of(poll) == IF 3 * poll > MinStaleness THEN 3 * poll ELSE MinStaleness

-----------------------------------------------------------------------------
(* External: the operator and time.                                        *)

edit(config) ==
  /\ edits < MaxEdits /\ config # config_file
  /\ config_file' = config /\ edits' = edits + 1
  /\ UNCHANGED <<time, passed, sighup, taskVars, healthVars, daemon>>

kill_hup ==
  /\ daemon = "running" /\ reloader = "listening" /\ ~sighup /\ config_file # sent
  /\ sighup' = TRUE
  /\ UNCHANGED <<time, passed, config_file, edits, taskVars, healthVars, daemon>>

TickDue == scheduler = "select" /\ time >= next_tick_at

time_goes_on ==
  /\ daemon = "running" /\ time < MaxUptime
  /\ ~TickDue /\ scheduler # "dead"
  /\ scheduler = "collecting" => passed < MaxPass
  /\ time' = time + 1
  /\ passed' = IF scheduler = "collecting" THEN passed + 1 ELSE 0
  /\ UNCHANGED <<config_file, edits, sighup, taskVars, healthVars, daemon>>

-----------------------------------------------------------------------------
(* The reloader: a configuration that cannot be loaded leaves the one      *)
(* before it, one whose parsing panics ends the task.                      *)

only_if_poll_changed(config) == validate(config) /\ config.poll # sent.poll
is_sent(config) == validate(config)

try_reload ==
  /\ daemon = "running" /\ reloader = "listening" /\ sighup
  /\ sighup' = FALSE
  /\ reloader' = IF parse_duration_panics(config_file) THEN "dead" ELSE "listening"
  /\ sent' = IF is_sent(config_file) THEN config_file ELSE sent
  /\ UNCHANGED <<time, passed, config_file, edits, seen, scheduler, hot_reload, poll_interval,
                 next_tick_at, collector, healthVars, daemon>>

-----------------------------------------------------------------------------
(* The scheduler.                                                          *)

Collects(at) ==
  /\ scheduler' = "collecting"
  /\ next_tick_at' = at

(* collect_metrics ends; a pass in which a file failed is no success.      *)
collected(ok) ==
  /\ daemon = "running" /\ scheduler = "collecting"
  /\ scheduler' = "select" /\ passed' = 0
  /\ last_success' = IF ok THEN time ELSE last_success
  /\ excused' = (excused \/ ~ok)
  /\ UNCHANGED <<time, config_file, edits, sighup, reloader, sent, seen, hot_reload, poll_interval,
                 next_tick_at, collector, max_staleness, daemon>>

(* MissedTickBehavior::Skip: the next tick is the next multiple after now. *)
NextTick ==
  next_tick_at + poll_interval * (1 + ((time - next_tick_at) \div poll_interval))

interval_tick ==
  /\ daemon = "running" /\ TickDue
  /\ Collects(NextTick)
  /\ UNCHANGED <<time, passed, config_file, edits, sighup, reloader, sent, seen, hot_reload,
                 poll_interval, collector, healthVars, daemon>>

tick_after_a_period(config) == time + config.poll

(* The same interval goes on, a new one ticks at once.                     *)
tick_after_reload(config) == IF config.poll = poll_interval THEN next_tick_at ELSE time

(* rx.changed: an interval of no time makes time::interval panic.          *)
config_changed ==
  /\ daemon = "running" /\ scheduler = "select" /\ hot_reload /\ seen # sent
  /\ seen' = sent
  /\ collector' = update_config(sent)
  /\ poll_interval' = sent.poll
  /\ scheduler' = IF sent.poll = 0 THEN "dead" ELSE "select"
  /\ next_tick_at' = tick_after_reload(sent)
  /\ excused' = (excused \/ staleness_of(sent.poll) > max_staleness)
  /\ UNCHANGED <<time, passed, config_file, edits, sighup, reloader, sent, hot_reload, last_success,
                 max_staleness, daemon>>

channel_closed ==
  /\ daemon = "running" /\ scheduler = "select" /\ hot_reload
  /\ reloader = "dead" /\ seen = sent
  /\ hot_reload' = FALSE
  /\ UNCHANGED <<time, passed, config_file, edits, sighup, reloader, sent, seen, scheduler,
                 poll_interval, next_tick_at, collector, healthVars, daemon>>

-----------------------------------------------------------------------------
(* run_daemon's select: a signal, or a task that ends.                     *)

shutdown_signal ==
  /\ daemon = "running"
  /\ daemon' = "signalled"
  /\ UNCHANGED <<time, passed, config_file, edits, sighup, taskVars, healthVars>>

task_ended ==
  /\ daemon = "running" /\ scheduler = "dead"
  /\ daemon' = "task_died"
  /\ UNCHANGED <<time, passed, config_file, edits, sighup, taskVars, healthVars>>

(* HealthState::is_ready; the process started at 0.                        *)
is_ready == time - (IF last_success < 0 THEN 0 ELSE last_success) < max_staleness

Started ==
  /\ time = 0 /\ passed = 0
  /\ \E poll \in Polls :
       /\ poll > 0
       /\ config_file = Config(poll, 1, "valid")
       /\ poll_interval = poll
       /\ max_staleness = staleness_of(poll)
  /\ edits = 0 /\ sighup = FALSE /\ reloader = "listening"
  /\ sent = config_file /\ seen = config_file /\ hot_reload = TRUE
  /\ scheduler = "collecting" /\ next_tick_at = 0
  /\ collector = NewCollector(config_file)
  /\ last_success = -1 /\ excused = FALSE

DaemonInit == Started /\ daemon = "running"

Scheduler ==
  \/ \E ok \in BOOLEAN : collected(ok)
  \/ interval_tick
  \/ config_changed
  \/ channel_closed

DaemonNext ==
  \/ \E poll \in Polls, text \in {"valid", "invalid", "panics"} : edit(Config(poll, edits + 2, text))
  \/ kill_hup
  \/ time_goes_on
  \/ try_reload
  \/ Scheduler
  \/ shutdown_signal
  \/ task_ended

(* The runtime polls every task that can run; select! takes the branches   *)
(* that are ready in random order, so none is passed over for ever.        *)
DaemonFairness ==
  /\ WF_daemonVars(try_reload)
  /\ WF_daemonVars(\E ok \in BOOLEAN : collected(ok))
  /\ WF_daemonVars(interval_tick)
  /\ SF_daemonVars(config_changed)
  /\ WF_daemonVars(task_ended)

DaemonSpec == DaemonInit /\ [][DaemonNext]_daemonVars /\ DaemonFairness

-----------------------------------------------------------------------------
(* An exporter whose passes succeed, none slower than its interval, stays  *)
(* ready, whatever is reloaded, while the interval is no longer than the   *)
(* one it was started with: the ticks that are skipped, the pass that is   *)
(* under way and the interval a reload starts anew never add up to the     *)
(* staleness.                                                              *)
HealthyStaysReady ==
  (daemon = "running" /\ ~excused) => is_ready

(* A signalled change of a valid configuration reaches the collector, or   *)
(* a later one does, unless the daemon stops or the reloader has died.     *)
ReloadIsApplied ==
  \A rest \in 1 .. MaxEdits + 1 :
    (sighup /\ config_file.rest = rest /\ validate(config_file))
      ~> (collector.config.rest >= rest \/ config_file.rest # rest \/ daemon # "running" \/ reloader = "dead"
           \/ ~validate(config_file))
=============================================================================
