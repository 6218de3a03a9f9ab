----------------------------- MODULE Collector -----------------------------
(***************************************************************************)
(* The exporter's collector on one plain-text log file                     *)
(* (exporter/src/collector.rs): each poll reads the new range of the file, *)
(* emits its queries into the process's counters, then stores a checkpoint *)
(* in SQLite (state.rs).  The server appends and logrotate replaces or     *)
(* truncates the file between any two of these steps; a parse or a write   *)
(* may fail and the process may die.                                       *)
(*                                                                         *)
(* As in LogTail, a file is a sequence of lines; a line is the id of the   *)
(* entry it starts (its timestamped line), or 0 when it continues one.     *)
(***************************************************************************)
EXTENDS Integers, Sequences, FiniteSetsExt

CONSTANTS
  MaxFileLines,   \* max_file_size_mb, in lines; 0 = unlimited
  ReadBudget,     \* max_read_bytes_per_cycle, in lines; 0 = unlimited
  MaxQueries,     \* max_queries_per_file; 0 = unlimited
  BadEntries,     \* entries that fail any parse of a range they are in
  MaxEntries,     \* bound: entries ever logged
  MaxLines,       \* bound: lines of the file
  MaxRotations,   \* bound: logrotate's create (a new inode)
  MaxTruncations, \* bound: logrotate's copytruncate (the same inode)
  MaxErrors,      \* bound: transient failures of a parse or a write
  MaxRestarts,    \* bound: crashes of the process
  MaxRests        \* bound: runs of process-rest

ASSUME CollectorAssumption ==
  /\ {MaxFileLines, ReadBudget, MaxQueries, MaxEntries, MaxLines, MaxRotations,
      MaxTruncations, MaxErrors, MaxRestarts, MaxRests} \subseteq Nat
  /\ BadEntries \subseteq 1 .. MaxEntries

QUIESCENT_CYCLES == 2
MAX_PARSE_FAILURES == 3
Entries == 1 .. MaxEntries
NoIno == 0     \* dev/ino NULL: no row yet, or one stored without identity
Lost == MaxRotations + MaxTruncations + 1  \* no content: see row_gen

VARIABLES
  file, present, \* the file's lines; whether it exists
  ino,           \* its (dev, ino)
  changed,       \* (mtime, size) differ from runtime.last_observed
  row,           \* its row of processed_files (get_file_state's default
                 \* when there is none)
  runtime,       \* FileRuntime: unchanged_cycles, parse_failures,
                 \* budget_stalls
  pc,            \* "idle", "parse", "emit" or "save"
  job,           \* what the cycle holds across its awaits
  emitted,       \* emitted[e]: times e was counted in the metrics
  gen,           \* history: number of the content, counting both rotations
  row_gen,       \* history: the content the checkpoint was computed in
  unsaved,       \* history: emissions of e that no checkpoint covers
  given_up,      \* history: entries skipped by a cap
  logged, truncations, errors, restarts, rests  \* history: for the bounds

fileVars  == <<file, present, ino, gen, logged, truncations>>
cycleVars == <<pc, job>>
emitVars  == <<emitted, unsaved>>
boundVars == <<errors, restarts, rests>>
vars == <<fileVars, changed, row, row_gen, runtime, cycleVars, emitVars,
          given_up, boundVars>>

NoRow == [pos |-> 0, size |-> 0, ino |-> NoIno]
NoRuntime == [unchanged |-> 0, failures |-> 0, stalls |-> 0]
NoJob == [rest |-> FALSE, pos |-> 0, size |-> 0, ino |-> NoIno, gen |-> 0,
          end |-> 0, hold_back |-> FALSE, clamped |-> FALSE, lines |-> <<>>,
          upto |-> 0, read_gen |-> 0]

Headers(lines) == {p \in DOMAIN lines : lines[p] # 0}
EntriesOf(lines) == {lines[p] : p \in Headers(lines)}

-----------------------------------------------------------------------------
(* The identity differs, both sides known, or the file is shorter than the *)
(* size stored with the checkpoint.                                        *)
rotated ==
  \/ row.ino # NoIno /\ row.ino # ino
  \/ Len(file) < row.size

(* Doubled for each stalled cycle in a row.                                *)
effective_read_budget == ReadBudget * 2 ^ Min({runtime.stalls, 20})

read_end(pos) ==
  IF ReadBudget = 0 THEN Len(file)
  ELSE Min({Len(file), pos + effective_read_budget})

(* A clamped window is never treated as EOF.                               *)
hold_back(quiescent, clamped) == ~quiescent \/ clamped

(* One cycle of process_log_file up to the await of the parse.             *)
process_log_file ==
  /\ pc = "idle" /\ present
  /\ MaxFileLines = 0 \/ Len(file) <= MaxFileLines
  /\ LET unchanged == IF changed THEN 0
                      ELSE Min({runtime.unchanged + 1, QUIESCENT_CYCLES})
         pos == IF rotated THEN 0 ELSE row.pos
         clamped == read_end(pos) < Len(file)
     IN /\ runtime' = [runtime EXCEPT !.unchanged = unchanged]
        /\ \/ Len(file) <= pos /\ UNCHANGED cycleVars
           \/ /\ Len(file) > pos
              /\ pc' = "parse"
              /\ job' = [NoJob EXCEPT
                   !.pos = pos, !.size = Len(file), !.ino = ino, !.gen = gen,
                   !.end = read_end(pos), !.clamped = clamped,
                   !.hold_back = hold_back(unchanged = QUIESCENT_CYCLES,
                                           clamped)]
  /\ changed' = FALSE
  /\ UNCHANGED <<fileVars, row, row_gen, emitVars, given_up, boundVars>>

(* collect_metrics drops the runtime state of a file that is gone.         *)
retain_file_runtime ==
  /\ pc = "idle" /\ ~present
  /\ runtime' = NoRuntime /\ changed' = TRUE
  /\ UNCHANGED <<fileVars, row, row_gen, cycleVars, emitVars, given_up,
                 boundVars>>

(* process_remaining_content, by a process of its own: no rotation check,  *)
(* no hold-back.                                                           *)
process_remaining_content ==
  /\ pc = "idle" /\ present
  /\ rests < MaxRests /\ rests' = rests + 1
  /\ Len(file) > row.pos
  /\ pc' = "parse"
  /\ job' = [NoJob EXCEPT !.rest = TRUE, !.pos = row.pos, !.size = Len(file),
                          !.ino = ino, !.gen = gen, !.end = Len(file)]
  /\ UNCHANGED <<fileVars, changed, row, row_gen, runtime, emitVars, given_up,
                 errors, restarts>>

-----------------------------------------------------------------------------
(* Lines before the last timestamped one.                                  *)
last_entry_boundary(lines) ==
  IF Headers(lines) = {} THEN 0 ELSE Max(Headers(lines)) - 1

(* The lines the cycle parses, from the file as it is now.                 *)
Window == SubSeq(file, job.pos + 1, Min({job.end, Len(file)}))
Parsed ==
  IF job.hold_back THEN SubSeq(Window, 1, last_entry_boundary(Window))
  ELSE Window

(* A range that is not held back must still lie within the file.           *)
BadRange == ~job.hold_back /\ job.end > Len(file)

Readable ==
  present /\ ~BadRange /\ EntriesOf(Parsed) \cap BadEntries = {}

(* The grouper stops the read at max_queries_per_file.                     *)
Accepted(lines) ==
  IF MaxQueries = 0 THEN EntriesOf(lines)
  ELSE {lines[p] : p \in {q \in Headers(lines) :
          Cardinality({r \in Headers(lines) : r <= q}) <= MaxQueries}}

stalls_never_widen(made_progress) == 0
(* A clamped window without a complete entry widens the next one.          *)
stalls_after(made_progress) ==
  IF job.clamped /\ ~made_progress THEN runtime.stalls + 1 ELSE 0

(* parse_range_blocking succeeds; without a safe boundary the cycle ends.  *)
parse_range_blocking ==
  /\ pc = "parse" /\ Readable
  /\ \/ /\ Parsed = <<>>
        /\ pc' = "idle" /\ job' = NoJob
     \/ /\ Parsed # <<>>
        /\ pc' = "emit"
        /\ job' = [job EXCEPT !.lines = Parsed, !.read_gen = gen,
                              !.upto = job.pos + Len(Parsed)]
  /\ runtime' = IF job.rest THEN runtime
                ELSE [runtime EXCEPT !.failures = 0,
                                     !.stalls = stalls_after(Parsed # <<>>)]
  /\ UNCHANGED <<fileVars, changed, row, row_gen, emitVars, given_up,
                 boundVars>>

(* Either the range cannot be parsed now, or the failure is transient.     *)
ParseError ==
  \/ ~Readable /\ UNCHANGED errors
  \/ Readable /\ errors < MaxErrors /\ errors' = errors + 1

(* What skips a range: the identity is not among the fields it sets.       *)
given_up_row(j) == [row EXCEPT !.pos = j.size, !.size = j.size]

(* The error branch: retry the range, until the cap skips all of the file. *)
parse_fails ==
  /\ pc = "parse" /\ ParseError
  /\ LET failures == runtime.failures + 1
     IN \/ /\ job.rest \/ failures < MAX_PARSE_FAILURES
           /\ runtime' = IF job.rest THEN runtime
                         ELSE [runtime EXCEPT !.failures = failures]
           /\ UNCHANGED <<row, row_gen, given_up>>
        \/ /\ ~job.rest /\ failures >= MAX_PARSE_FAILURES
           /\ row' = given_up_row(job)
           /\ row_gen' = IF job.pos = 0 \/ row_gen = job.gen THEN job.gen
                         ELSE Lost
           /\ given_up' = given_up \cup
                (IF gen = job.gen
                 THEN EntriesOf(SubSeq(file, job.pos + 1, job.size)) ELSE {})
           /\ runtime' = [runtime EXCEPT !.failures = 0]
  /\ pc' = "idle" /\ job' = NoJob
  /\ UNCHANGED <<fileVars, changed, emitVars, restarts, rests>>

(* The skip itself is not stored: the count stays at the cap.              *)
give_up_fails ==
  /\ pc = "parse" /\ ~job.rest
  /\ runtime.failures + 1 >= MAX_PARSE_FAILURES
  /\ errors' = errors + (IF Readable THEN 2 ELSE 1) /\ errors' <= MaxErrors
  /\ runtime' = [runtime EXCEPT !.failures = MAX_PARSE_FAILURES]
  /\ pc' = "idle" /\ job' = NoJob
  /\ UNCHANGED <<fileVars, changed, row, row_gen, emitVars, given_up, restarts,
                 rests>>

(* The entries of es counted once more, or once less.                      *)
Plus(f, es) == [e \in Entries |-> f[e] + (IF e \in es THEN 1 ELSE 0)]
Minus(f, es) == [e \in Entries |-> f[e] - (IF e \in es THEN 1 ELSE 0)]

(* emit_query_metrics, once record_query_hashes has committed.             *)
emit_query_metrics ==
  /\ pc = "emit" /\ pc' = "save"
  /\ emitted' = Plus(emitted, Accepted(job.lines))
  /\ unsaved' = Plus(unsaved, Accepted(job.lines))
  /\ UNCHANGED <<fileVars, changed, row, row_gen, runtime, job, given_up,
                 boundVars>>

StateFails == errors < MaxErrors /\ errors' = errors + 1

(* record_query_hashes fails before any metric is touched; nothing else    *)
(* remembers the cycle.                                                    *)
record_query_hashes_fails ==
  /\ pc = "emit" /\ Accepted(job.lines) # {} /\ StateFails
  /\ pc' = "idle" /\ job' = NoJob
  /\ UNCHANGED <<fileVars, changed, row, row_gen, runtime, emitVars, given_up,
                 restarts, rests>>

row_of_start(j) == [pos |-> j.pos, size |-> j.size, ino |-> j.ino]
row_without_identity(j) == [pos |-> j.upto, size |-> j.size, ino |-> row.ino]
row_of_observed_size(j) == [pos |-> j.size, size |-> j.size, ino |-> j.ino]

(* The checkpoint: what was parsed, the size and identity first observed.  *)
row_of(j) == [pos |-> j.upto, size |-> j.size, ino |-> j.ino]

update_file_state ==
  /\ pc = "save" /\ pc' = "idle" /\ job' = NoJob
  /\ row' = row_of(job)
  /\ row_gen' = IF job.pos = 0 \/ row_gen = job.read_gen THEN job.read_gen
                ELSE Lost
  /\ given_up' = given_up \cup (EntriesOf(job.lines) \ Accepted(job.lines))
  /\ unsaved' = IF job.gen = job.read_gen
                THEN Minus(unsaved, Accepted(job.lines)) ELSE unsaved
  /\ UNCHANGED <<fileVars, changed, runtime, emitted, boundVars>>

update_file_state_fails ==
  /\ pc = "save" /\ StateFails
  /\ pc' = "idle" /\ job' = NoJob
  /\ UNCHANGED <<fileVars, changed, row, row_gen, runtime, emitVars, given_up,
                 restarts, rests>>

(* The retention pass forgets a file that no longer exists.                *)
cleanup_blocking ==
  /\ pc = "idle" /\ ~present
  /\ row' = NoRow /\ row_gen' = 0
  /\ UNCHANGED <<fileVars, changed, runtime, cycleVars, emitVars, given_up,
                 boundVars>>

(* The process dies at any point and comes back with an empty FileRuntime. *)
Restart ==
  /\ restarts < MaxRestarts /\ restarts' = restarts + 1
  /\ pc' = "idle" /\ job' = NoJob
  /\ runtime' = NoRuntime /\ changed' = TRUE
  /\ UNCHANGED <<fileVars, row, row_gen, emitVars, given_up, errors, rests>>

-----------------------------------------------------------------------------
(* The server and logrotate.                                               *)
AppendEntry ==
  /\ present /\ Len(file) < MaxLines
  /\ logged < MaxEntries /\ logged' = logged + 1
  /\ file' = Append(file, logged + 1)
  /\ changed' = TRUE
  /\ UNCHANGED <<present, ino, gen, truncations, row, row_gen, runtime,
                 cycleVars, emitVars, given_up, boundVars>>

AppendLine ==
  /\ present /\ Len(file) < MaxLines
  /\ file # <<>>
  /\ file' = Append(file, 0)
  /\ changed' = TRUE
  /\ UNCHANGED <<present, ino, gen, logged, truncations, row, row_gen, runtime,
                 cycleVars, emitVars, given_up, boundVars>>

Remove ==
  /\ present /\ ino <= MaxRotations
  /\ present' = FALSE
  /\ UNCHANGED <<file, ino, gen, logged, truncations, changed, row, row_gen,
                 runtime, cycleVars, emitVars, given_up, boundVars>>

Create ==
  /\ ~present /\ present' = TRUE
  /\ file' = <<>> /\ ino' = ino + 1 /\ gen' = gen + 1
  /\ changed' = TRUE
  /\ UNCHANGED <<logged, truncations, row, row_gen, runtime, cycleVars,
                 emitVars, given_up, boundVars>>

Truncate ==
  /\ present /\ file # <<>>
  /\ truncations < MaxTruncations /\ truncations' = truncations + 1
  /\ file' = <<>> /\ gen' = gen + 1
  /\ changed' = TRUE
  /\ UNCHANGED <<present, ino, logged, row, row_gen, runtime, cycleVars,
                 emitVars, given_up, boundVars>>

Init ==
  /\ file = <<>> /\ present = TRUE /\ ino = 1 /\ gen = 0 /\ logged = 0
  /\ truncations = 0 /\ changed = TRUE
  /\ row = NoRow /\ row_gen = 0 /\ runtime = NoRuntime
  /\ pc = "idle" /\ job = NoJob
  /\ emitted = [e \in Entries |-> 0] /\ unsaved = [e \in Entries |-> 0]
  /\ given_up = {} /\ errors = 0 /\ restarts = 0 /\ rests = 0

Cycle ==
  \/ process_log_file \/ parse_range_blocking \/ parse_fails \/ give_up_fails
  \/ emit_query_metrics \/ record_query_hashes_fails
  \/ update_file_state \/ update_file_state_fails

Next ==
  \/ Cycle \/ retain_file_runtime \/ cleanup_blocking
  \/ process_remaining_content \/ Restart
  \/ AppendEntry \/ AppendLine \/ Remove \/ Create \/ Truncate

Spec == Init /\ [][Next]_vars

(* The scheduler's interval keeps ticking and a cycle it starts ends.      *)
FairSpec == Spec /\ WF_vars(Cycle)
-----------------------------------------------------------------------------
(* Counters are monotonic, so an entry must not be emitted again: whatever *)
(* fails, restarts or rotates, a second emission can only follow one whose *)
(* checkpoint was lost, or was taken of a file that had been replaced      *)
(* between its stat and its read.                                          *)
EmittedOncePerCheckpoint == \A e \in Entries : emitted[e] <= 1 + unsaved[e]

(* "Cutting mid-backlog is not the same as 'the writer stopped here'"      *)
(* (collector.rs:462): a read that stops short of the end stops where an   *)
(* entry starts, so no entry is emitted in two halves.                     *)
CutsBetweenEntries ==
  pc \in {"emit", "save"} /\ job.read_gen = gen /\ job.gen = gen
    /\ job.upto < job.size => file[job.upto + 1] # 0

(* "last_position advances only to the boundary actually parsed (so nothing*)
(* is skipped)" (collector.rs:551): in the content it was computed in,     *)
(* what lies before the checkpoint was emitted or given up by a cap, and   *)
(* what is emitted is whole.                                               *)
NothingSkipped ==
  /\ CutsBetweenEntries
  /\ row_gen = gen =>
       \A p \in Headers(file) :
         p <= row.pos => emitted[file[p]] > 0 \/ file[p] \in given_up

(* A replaced file is read from its head, even when it has outgrown the    *)
(* old checkpoint (file_identity): a read that starts further down starts  *)
(* at a checkpoint of this very content.                                   *)
ResumesInItsFile ==
  pc = "parse" /\ job.gen = gen => job.pos = 0 \/ row_gen = gen

(* No entry waits forever: not the last one of a silent file, not one      *)
(* larger than the budget, not one behind a range that cannot be parsed.   *)
EveryEntryIsExported ==
  \A e \in Entries :
    present /\ e \in EntriesOf(file)
      ~> emitted[e] > 0 \/ e \in given_up \/ ~present \/ e \notin EntriesOf(file)

(* "Consecutive parse failures after which the failing range is skipped"   *)
(* (collector.rs:58): a range that was given up is not read again.         *)
SkippedStaysSkipped ==
  pc = "parse" /\ job.gen = gen =>
    \A p \in Headers(file) : file[p] \in given_up => p <= job.pos
=============================================================================
