------------------------------ MODULE LogTail ------------------------------
(***************************************************************************)
(* Log mode of the background worker (pg_extension/src/bgworker.rs): it    *)
(* tails the auto_explain log, folds complete entries into the statistics  *)
(* and keeps its place in plansight.ingest_offset, both in one transaction.*)
(* The server appends and logrotate replaces the file meanwhile.           *)
(*                                                                         *)
(* A file is a sequence of lines and an offset a number of lines: every    *)
(* boundary the code computes is the start of a line.  A line is the id of *)
(* the plan entry it is the header of, or 0 for any other line.            *)
(***************************************************************************)
EXTENDS Integers, Sequences, FiniteSetsExt

CONSTANTS
  MaxReadLines,   \* MAX_READ_BYTES, in lines
  MaxEntries,     \* bound: plan entries ever written
  MaxLines,       \* bound: length of one file
  MaxRotations,   \* bound: times the file is replaced
  MaxFailures     \* bound: hard errors and crashes of the worker

ASSUME LogTailAssumption ==
  /\ MaxReadLines \in Nat \ {0}
  /\ {MaxEntries, MaxLines, MaxRotations, MaxFailures} \subseteq Nat

Entries == 1 .. MaxEntries
Lost == MaxRotations + 1  \* no file: a rotation went unnoticed

VARIABLES
  file,        \* the log file at log_path, a sequence of lines
  byte_offset, \* plansight.ingest_offset; 0 when there is no row
  calls,       \* calls[e]: times entry e is counted in the statistics
  tick,        \* "idle", or "read" between the read and the commit
  text,        \* the lines the cycle holds
  new_offset,  \* the offset it will store
  gen,         \* history: number of the file, counting rotations
  read_gen,    \* history: the file the cycle read
  offset_gen,  \* history: the file byte_offset was computed in
  written,     \* history: entries the server has written
  given_up,    \* history: entries in chunks the parser refused
  failures     \* history: failed cycles

dbVars    == <<byte_offset, calls>>
cycleVars == <<tick, text, new_offset, read_gen>>
logVars   == <<file, gen, written>>
histVars  == <<offset_gen, given_up, failures>>
vars == <<logVars, dbVars, cycleVars, histVars>>

Headers(lines)  == {p \in DOMAIN lines : lines[p] # 0}
EntriesOf(lines) == {lines[p] : p \in Headers(lines)}

-----------------------------------------------------------------------------
(* Lines before the last header; none with fewer than two headers.         *)
last_complete_boundary(lines) ==
  IF Cardinality(Headers(lines)) < 2 THEN 0 ELSE Max(Headers(lines)) - 1

start_ignores_size(offset) == offset

(* A file shorter than the stored offset was rotated: restart at 0.        *)
start_of(offset) == IF Len(file) < offset THEN 0 ELSE offset

(* At most MAX_READ_BYTES from where to start.                             *)
chunk(start) ==
  SubSeq(file, start + 1, Min({Len(file), start + MaxReadLines}))

(* flush_cycle reads its offset and the file; the transaction is open.     *)
read_new_complete ==
  /\ tick = "idle" /\ tick' = "read"
  /\ LET start    == start_of(byte_offset)
         buf      == chunk(start)
         boundary == last_complete_boundary(buf)
     IN /\ text' = SubSeq(buf, 1, boundary)
        /\ new_offset' = start + boundary
  /\ read_gen' = gen
  /\ UNCHANGED <<logVars, dbVars, histVars>>

(* Every entry of the chunk counted once more.                             *)
Counted(es) == [e \in Entries |-> calls[e] + (IF e \in es THEN 1 ELSE 0)]

(* The commit: the statistics of the text, if the parser takes it, and the *)
(* offset; with no text, only an offset that a rotation reset.             *)
flush_cycle ==
  /\ tick = "read" /\ tick' = "idle"
  /\ \/ /\ text = <<>>
        /\ UNCHANGED <<calls, given_up>>
     \/ /\ text # <<>>
        /\ calls' = Counted(EntriesOf(text))
        /\ UNCHANGED given_up
     \/ /\ text # <<>>
        /\ given_up' = given_up \cup EntriesOf(text)
        /\ UNCHANGED calls
  /\ byte_offset' = new_offset
  /\ offset_gen' = IF new_offset = Len(text) \/ offset_gen = read_gen
                   THEN read_gen ELSE Lost
  /\ text' = <<>> /\ new_offset' = 0
  /\ UNCHANGED <<logVars, read_gen, failures>>

failure_keeps_counts == Counted(EntriesOf(text))

(* An aborted transaction leaves no statistics.                            *)
undone == calls

(* A hard error or a crash before the commit: the transaction is undone    *)
(* and the worker (or the server) starts over with what was committed.     *)
flush_fails ==
  /\ tick = "read" /\ tick' = "idle"
  /\ failures < MaxFailures /\ failures' = failures + 1
  /\ calls' = undone
  /\ text' = <<>> /\ new_offset' = 0
  /\ UNCHANGED <<logVars, byte_offset, read_gen, offset_gen, given_up>>

(* The server logs a plan, or anything else.                               *)
AppendEntry ==
  /\ Len(file) < MaxLines /\ written < MaxEntries
  /\ written' = written + 1
  /\ file' = Append(file, written + 1)
  /\ UNCHANGED <<gen, dbVars, cycleVars, histVars>>

AppendLine ==
  /\ Len(file) < MaxLines
  /\ file' = Append(file, 0)
  /\ UNCHANGED <<gen, written, dbVars, cycleVars, histVars>>

Rotate ==
  /\ gen < MaxRotations
  /\ gen' = gen + 1
  /\ file' = <<>>
  /\ UNCHANGED <<written, dbVars, cycleVars, histVars>>

Init ==
  /\ file = <<>> /\ gen = 0 /\ written = 0
  /\ byte_offset = 0 /\ calls = [e \in Entries |-> 0]
  /\ tick = "idle" /\ text = <<>> /\ new_offset = 0 /\ read_gen = 0
  /\ offset_gen = 0 /\ given_up = {} /\ failures = 0

Next ==
  \/ read_new_complete \/ flush_cycle \/ flush_fails
  \/ AppendEntry \/ AppendLine \/ Rotate

Spec == Init /\ [][Next]_vars

(* The worker wakes every flush_interval and a cycle terminates.           *)
FairSpec == Spec /\ WF_vars(read_new_complete) /\ WF_vars(flush_cycle)
-----------------------------------------------------------------------------
(* "Restarts never double-count" (bgworker.rs): whatever fails, restarts   *)
(* or rotates between the read and the commit.                             *)
CountedAtMostOnce == \A e \in Entries : calls[e] <= 1

(* No entry is read in two halves: one that is counted was complete, the   *)
(* next header already written, so nothing can be appended to it.          *)
WholeEntriesOnly ==
  \A p \in Headers(file) :
    calls[file[p]] > 0 \/ file[p] \in EntriesOf(text)
      => \E r \in Headers(file) : r > p

(* "The offset advances iff the stats it produced committed": while the    *)
(* offset is a place in the current file (a rotation that regrew past it   *)
(* unnoticed loses the place), what lies before it is counted, or was      *)
(* refused by the parser, and nothing behind it is; nothing is counted     *)
(* twice or in halves.                                                     *)
OffsetIsLedger ==
  /\ CountedAtMostOnce /\ WholeEntriesOnly
  /\ offset_gen = gen =>
       \A p \in Headers(file) :
         IF p <= byte_offset THEN calls[file[p]] = 1 \/ file[p] \in given_up
                             ELSE calls[file[p]] = 0 /\ file[p] \notin given_up

(* "Larger backlogs drain over multiple ticks" (bgworker.rs:20): an entry  *)
(* that is complete behind the offset is read, unless its file is replaced.*)
Behind(e) ==
  /\ offset_gen = gen
  /\ \E p, r \in Headers(file) : byte_offset < p /\ p < r /\ file[p] = e

Drained(e) == calls[e] = 1 \/ e \in given_up \/ e \notin EntriesOf(file)

BacklogDrains == \A e \in Entries : Behind(e) ~> Drained(e)

(* What holds of it, as long as two entries start in any MAX_READ_BYTES of *)
(* the log: a backlog of several reads drains, whatever fails and rotates  *)
(* meanwhile, and so does a new file from its first line, unless it grew   *)
(* past the old offset before the worker saw it shorter.                   *)
ShortEntries ==
  \A p \in 1 .. Len(file) - MaxReadLines + 1 :
    Cardinality(Headers(file) \cap (p .. p + MaxReadLines - 1)) >= 2

Complete(e) == \E p, r \in Headers(file) : p < r /\ file[p] = e
Regrown == offset_gen # gen /\ byte_offset \in 1 .. Len(file)

ShortEntriesDrain ==
  \A e \in Entries :
    Complete(e) /\ ShortEntries /\ (Behind(e) \/ Len(file) < byte_offset)
      ~> Drained(e) \/ ~ShortEntries \/ Regrown
=============================================================================
