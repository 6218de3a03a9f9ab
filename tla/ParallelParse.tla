--------------------------- MODULE ParallelParse ---------------------------
(***************************************************************************)
(* Opening log files in the terminal UI: one rayon task per file folds its *)
(* plans into a grouper, adjacent groupers are reduced as they finish, and *)
(* the parsing thread sends the result (core/src/log_parser.rs             *)
(* parse_multiple_files_with_prefix_async); a task analyses it in phases;  *)
(* the screen (tui/src/ui/state/log_parsing_state.rs) polls both channels  *)
(* at every key or timeout.                                                *)
(***************************************************************************)
EXTENDS Grouping, FiniteSets, SequencesExt

CONSTANTS
  NFiles,        \* log files given on the command line
  Contents,      \* the sequences of files' plans a behaviour may start with
  Compressed,    \* files whose size is smaller than what is read from them
  Window,        \* timestamps that DateFilter::matches
  MaxCallbacks,  \* bound: progress reports before the files' last ones
  MaxFailures,   \* bound: files whose parse fails
  MaxPanics      \* bound: panics of a background thread or task

Files == 1 .. NFiles

ASSUME ParallelParseAssumption ==
  /\ NFiles \in Nat /\ Compressed \subseteq Files
  /\ Contents \subseteq [Files -> Seq(Plans)]
  /\ Window \subseteq Timestamps
  /\ MaxCallbacks \in Nat /\ MaxFailures \in Nat /\ MaxPanics \in Nat

(* What start_heavy_processing announces, in order.                        *)
Phases == <<"QueryNormalization", "StatisticalAnalysis", "HistogramGeneration",
            "ComplexityAnalysis", "MetadataExtraction", "RegressionAnalysis",
            "PlanAnalysis">>
(* The phases that annotate the groups; the others are done while folding. *)
Annotations == {"ComplexityAnalysis", "MetadataExtraction",
                "RegressionAnalysis", "PlanAnalysis"}

VARIABLES
  content,         \* plans of each file, in file order
  task,            \* task[f]: the file's rayon task: how many plans it has
                   \* read, its grouper, its reports, plans reported, its end
  parts,           \* groupers of finished ranges of files, not yet reduced
  thread,          \* parsing thread: "running", "sent" its result, "panicked"
  progress_ch,     \* ParseProgress messages not yet received
  heavy,           \* analysis task: "none", "running", "sent", "panicked"
  phase_idx,       \* phases it has announced
  processing_ch,   \* ProcessingProgress messages not yet received
  screen,          \* "parsing", "results" or "exited"
  file_progress,   \* the screen's FileProgress entries
  total_queries_parsed,
  parsing_complete,
  grouped,         \* GroupedPlans moved into post-processing
  date_range,      \* date_range_start and _end: <<>> while None
  processing_phase, awaiting_user_input,
  processed_queries, \* what AllComplete brought: <<>> while None
  results          \* history: what the results screen was given

taskVars == <<content, task, parts, thread, heavy, phase_idx>>
uiVars == <<screen, file_progress, total_queries_parsed, parsing_complete,
            grouped, date_range, processing_phase, awaiting_user_input,
            processed_queries, results>>
vars == <<taskVars, progress_ch, processing_ch, uiVars>>

Running == screen # "exited" /\ thread = "running"
Panics == Cardinality({x \in {"thread", "heavy"} :
            \/ x = "thread" /\ thread = "panicked"
            \/ x = "heavy" /\ heavy = "panicked"})
Ended(f) == task[f].end # "no"
Failed(f) == task[f].end = "failed"

-----------------------------------------------------------------------------
(* The tasks of the parsing thread.                                        *)

Send(m) == progress_ch' = Append(progress_ch, m)
Progress(f, p, n) == [type |-> "Progress", file |-> f, progress |-> p, queries |-> n]
Error(f) == [type |-> "Error", file |-> f]
Complete(q) == [type |-> "Complete", plan_count |-> q.accepted, groups |-> q.groups]

(* parse_into_sink delivers the next plan to the file's grouper.           *)
accept(f) ==
  /\ Running /\ ~Ended(f)
  /\ task[f].read < Len(content[f])
  /\ task' = [task EXCEPT ![f].read = @ + 1,
                          ![f].grouper = fold(@, content[f][task[f].read + 1], Window)]
  /\ UNCHANGED <<content, parts, thread, progress_ch, heavy, phase_idx,
                 processing_ch, uiVars>>

(* A plan is delivered when the entry after it, or the end, is read: all   *)
(* lines of a file may have been read with its last plan still to come.    *)
AllLinesRead(f) == task[f].read + 1 >= Len(content[f])

(* A report after 10000 lines: the share of the file's size that was read  *)
(* (of a compressed file possibly all of it), and the plans since the last.*)
progress_callback(f) ==
  /\ Running /\ ~Ended(f)
  /\ Cardinality({g \in Files : task[g].reports > 0}) < MaxCallbacks
  /\ task[f].reports = 0
  /\ \E p \in {"part", "full"} :
       /\ p = "full" => f \in Compressed \/ AllLinesRead(f)
       /\ Send(Progress(f, p, task[f].grouper.accepted - task[f].reported))
  /\ task' = [task EXCEPT ![f].reports = @ + 1,
                          ![f].reported = task[f].grouper.accepted]
  /\ UNCHANGED <<content, parts, thread, heavy, phase_idx, processing_ch, uiVars>>

(* Ok(()): the last report; the grouper goes into the reduction, which     *)
(* folds it into the identity.                                             *)
file_ends(f) ==
  /\ Running /\ ~Ended(f)
  /\ task[f].read = Len(content[f])
  /\ Send(Progress(f, "full", 0))
  /\ task' = [task EXCEPT ![f].end = "parsed", ![f].grouper = NewGrouper]
  /\ parts' = parts \cup {[lo |-> f, hi |-> f,
                           grouper |-> merge(NewGrouper, task[f].grouper)]}
  /\ UNCHANGED <<content, thread, heavy, phase_idx, processing_ch, uiVars>>

(* Err: opening or reading fails; what was read so far is discarded.       *)
file_fails(f) ==
  /\ Running /\ ~Ended(f)
  /\ Cardinality({g \in Files : Failed(g)}) < MaxFailures
  /\ Send(Error(f))
  /\ task' = [task EXCEPT ![f].end = "failed", ![f].grouper = NewGrouper]
  /\ parts' = parts \cup {[lo |-> f, hi |-> f,
                           grouper |-> merge(NewGrouper, NewGrouper)]}
  /\ UNCHANGED <<content, thread, heavy, phase_idx, processing_ch, uiVars>>

(* rayon combines adjacent ranges only, the left one first.                *)
reduce ==
  /\ Running
  /\ \E p, q \in parts :
       /\ p.hi + 1 = q.lo
       /\ parts' = (parts \ {p, q}) \cup
            {[lo |-> p.lo, hi |-> q.hi, grouper |-> merge(p.grouper, q.grouper)]}
  /\ UNCHANGED <<content, task, thread, progress_ch, heavy, phase_idx,
                 processing_ch, uiVars>>

(* The reduction is done: send the result, and the thread ends.            *)
send_complete ==
  /\ Running
  /\ \A f \in Files : Ended(f)
  /\ Cardinality(parts) <= 1
  /\ Send(Complete(IF parts = {} THEN NewGrouper
                   ELSE (CHOOSE p \in parts : TRUE).grouper))
  /\ thread' = "sent"
  /\ parts' = {}
  /\ UNCHANGED <<content, task, heavy, phase_idx, processing_ch, uiVars>>

(* A panic in a rayon task is resumed in the thread: the sender is gone.   *)
thread_panics ==
  /\ Running
  /\ Panics < MaxPanics
  /\ thread' = "panicked"
  /\ UNCHANGED <<content, task, parts, progress_ch, heavy, phase_idx,
                 processing_ch, uiVars>>

-----------------------------------------------------------------------------
(* The analysis task of start_heavy_processing.                            *)

(* PhaseStarted, then the phase's work on every group; after the last one, *)
(* AllComplete.                                                            *)
heavy_phase ==
  /\ screen # "exited" /\ heavy = "running"
  /\ IF phase_idx < Len(Phases)
     THEN /\ processing_ch' = Append(processing_ch,
               [type |-> "PhaseStarted", phase |-> Phases[phase_idx + 1]])
          /\ phase_idx' = phase_idx + 1
          /\ UNCHANGED heavy
     ELSE /\ processing_ch' = Append(processing_ch,
               [type |-> "AllComplete", groups |-> grouped, annotated |->
                  Annotations \cap {Phases[i] : i \in 1 .. phase_idx}])
          /\ heavy' = "sent"
          /\ UNCHANGED phase_idx
  /\ UNCHANGED <<content, task, parts, thread, progress_ch, uiVars>>

heavy_panics ==
  /\ screen # "exited" /\ heavy = "running"
  /\ Panics < MaxPanics
  /\ heavy' = "panicked"
  /\ UNCHANGED <<content, task, parts, thread, phase_idx, progress_ch,
                 processing_ch, uiVars>>

-----------------------------------------------------------------------------
(* The screen.                                                             *)

on_progress_any_share(fp, m) ==
  CASE m.type = "Progress" ->
         [fp EXCEPT ![m.file].progress = m.progress, ![m.file].completed = TRUE]
    [] m.type = "Error" ->
         [fp EXCEPT ![m.file] = [progress |-> "none", completed |-> TRUE,
                                 error |-> TRUE]]
    [] OTHER -> fp

(* The FileProgress entries after one message.                             *)
on_progress(fp, m) ==
  CASE m.type = "Progress" ->
         [fp EXCEPT ![m.file].progress = m.progress,
                    ![m.file].completed = @ \/ m.progress = "full"]
    [] m.type = "Error" ->
         [fp EXCEPT ![m.file] = [progress |-> "none", completed |-> TRUE,
                                 error |-> TRUE]]
    [] OTHER -> fp

add_queries(n, m) == IF m.type = "Progress" THEN n + m.queries ELSE n

(* At the end, files that neither completed nor failed count as completed. *)
mark_remaining(fp) ==
  [f \in Files |-> IF fp[f].completed \/ fp[f].error THEN fp[f]
                   ELSE [progress |-> "full", completed |-> TRUE, error |-> FALSE]]

(* total_queries_parsed.store(plan_count) replaces what was counted so far.*)
final_total(counted, plan_count) == plan_count

(* calculate_date_range: from the groups' own first and last timestamps.   *)
calculate_date_range(groups) ==
  LET mins == {groups[k].min_timestamp : k \in DOMAIN groups}
      maxs == {groups[k].max_timestamp : k \in DOMAIN groups}
  IN IF groups = EmptyGroups THEN <<>>
     ELSE <<CHOOSE t \in mins : \A u \in mins : t <= u,
            CHOOSE t \in maxs : \A u \in maxs : t >= u>>

(* Drain the channel; on Complete take the result (always Ok), and start   *)
(* post-processing on the groups.                                          *)
check_parsing_progress_sync ==
  LET received == FoldLeft(on_progress, file_progress, progress_ch)
      counted  == FoldLeft(add_queries, total_queries_parsed, progress_ch)
      complete == {i \in DOMAIN progress_ch : progress_ch[i].type = "Complete"}
  IN IF parsing_complete
     THEN UNCHANGED <<progress_ch, file_progress, total_queries_parsed,
                      parsing_complete, grouped, date_range, heavy>>
     ELSE /\ progress_ch' = <<>>
          /\ IF complete = {}
             THEN /\ file_progress' = received
                  /\ total_queries_parsed' = counted
                  /\ UNCHANGED <<parsing_complete, grouped, date_range, heavy>>
             ELSE LET result == progress_ch[CHOOSE i \in complete : TRUE]
                  IN /\ file_progress' = mark_remaining(received)
                     /\ total_queries_parsed' =
                          final_total(counted, result.plan_count)
                     /\ parsing_complete' = TRUE
                     /\ grouped' = result.groups
                     /\ date_range' = calculate_date_range(result.groups)
                     /\ heavy' = "running"

(* Drain the other channel.  A task started by this very call has sent     *)
(* nothing yet.                                                            *)
check_post_processing_progress ==
  LET last == processing_ch[Len(processing_ch)]
  IN /\ processing_ch' = <<>>
     /\ IF processing_ch = <<>>
        THEN UNCHANGED <<processing_phase, awaiting_user_input, processed_queries>>
        ELSE IF last.type = "AllComplete"
        THEN /\ processing_phase' = "Complete"
             /\ awaiting_user_input' = TRUE
             /\ processed_queries' = <<last>>
        ELSE /\ processing_phase' = last.phase
             /\ UNCHANGED <<awaiting_user_input, processed_queries>>

(* LogParsingState::process_key and what App::run does with its answer.    *)
process_key(code) ==
  /\ screen = "parsing"
  /\ check_parsing_progress_sync
  /\ check_post_processing_progress
  /\ CASE code = "q" -> screen' = "exited" /\ UNCHANGED results
       [] code = "Enter" /\ awaiting_user_input' /\ processed_queries' # <<>> ->
            /\ screen' = "results"
            /\ results' = [groups     |-> processed_queries'[1].groups,
                           annotated  |-> processed_queries'[1].annotated,
                           date_range |-> date_range']
       [] OTHER -> UNCHANGED <<screen, results>>
  /\ UNCHANGED <<content, task, parts, thread, phase_idx>>

-----------------------------------------------------------------------------
Init ==
  /\ content \in Contents
  /\ task = [f \in Files |-> [read |-> 0, grouper |-> NewGrouper, reports |-> 0,
                              reported |-> 0, end |-> "no"]]
  /\ parts = {} /\ thread = "running" /\ progress_ch = <<>>
  /\ heavy = "none" /\ phase_idx = 0 /\ processing_ch = <<>>
  /\ screen = "parsing"
  /\ file_progress = [f \in Files |->
       [progress |-> "none", completed |-> FALSE, error |-> FALSE]]
  /\ total_queries_parsed = 0 /\ parsing_complete = FALSE
  /\ grouped = EmptyGroups /\ date_range = <<>>
  /\ processing_phase = "DateRange" /\ awaiting_user_input = FALSE
  /\ processed_queries = <<>> /\ results = <<>>

until_parsed == ~parsing_complete

(* LogParsingState::is_noninteractive *)
is_noninteractive == ~awaiting_user_input

TaskStep(f) == accept(f) \/ file_ends(f)

(* wait_event times out after 100 ms while the screen is not interactive.  *)
Refresh == is_noninteractive /\ process_key("Null")

Next ==
  \/ \E f \in Files : TaskStep(f) \/ progress_callback(f) \/ file_fails(f)
  \/ reduce \/ send_complete \/ thread_panics
  \/ heavy_phase \/ heavy_panics
  \/ \E code \in {"q", "Enter", "Null"} : process_key(code)

Spec == Init /\ [][Next]_vars

(* Threads and tasks are scheduled, and the screen refreshes; nothing is   *)
(* assumed of the user.                                                    *)
Fairness ==
  /\ \A f \in Files : WF_vars(TaskStep(f))
  /\ WF_vars(reduce) /\ WF_vars(send_complete)
  /\ WF_vars(heavy_phase) /\ WF_vars(Refresh)

FairSpec == Spec /\ Fairness
-----------------------------------------------------------------------------
(* The plans that count: those in the window, of files that were parsed,   *)
(* in file order.                                                          *)
InWindow == {p \in Plans : p.timestamp \in Window}
KeptOf(f) == IF Failed(f) THEN <<>> ELSE PlansIn(content[f], InWindow)
Kept == FlattenSeq([f \in Files |-> KeptOf(f)])

(* Whatever order the files end and are reduced in, the groups are those   *)
(* the batch path computes from all the plans in file order, the same      *)
(* representative among equally slow plans included ("The two produce      *)
(* identical output", log_parser.rs), and a failed file contributes        *)
(* nothing; the user is shown them annotated by every phase.               *)
ResultsAreBatch ==
  LET batch == get_processed_queries(Kept)
      stamps == {Kept[i].timestamp : i \in DOMAIN Kept}
  IN /\ parsing_complete => grouped = batch
     /\ screen = "results" =>
          /\ results.groups = batch /\ results.annotated = Annotations
          /\ IF stamps = {} THEN results.date_range = <<>>
             ELSE /\ results.date_range[1] \in stamps
                  /\ results.date_range[2] \in stamps
                  /\ \A t \in stamps : results.date_range[1] <= t
                                       /\ t <= results.date_range[2]

(* The number of queries shown when parsing is complete is the number of   *)
(* plans in the results, though reports of failed files were counted and   *)
(* plans after a file's last report were not.                              *)
TotalIsPlanCount == parsing_complete => total_queries_parsed = Len(Kept)

(* The screen tells the truth: of the number of plans, and of the files,   *)
(* each of which is shown at the end as completed, and as failed exactly   *)
(* if it failed; and before, a file whose size is what is read from it is  *)
(* shown completed only when it was read.                                  *)
ScreenMatchesFiles ==
  /\ TotalIsPlanCount
  /\ parsing_complete =>
       \A f \in Files : /\ file_progress[f].completed
                        /\ file_progress[f].error <=> Failed(f)
  /\ \A f \in Files \ Compressed : file_progress[f].completed =>
       Ended(f) \/ AllLinesRead(f)

(* The screen comes to wait for ENTER, unless a background thread or task  *)
(* panicked or the user left before.                                       *)
ParsingSettles == <>(awaiting_user_input \/ screen # "parsing" \/ Panics > 0)
=============================================================================
