--------------------------- MODULE CollectorProofs ---------------------------
(***************************************************************************)
(* Proofs about Collector for every budget, cap and bound, whatever ranges *)
(* cannot be parsed: what a checkpoint covers is emitted once, and nothing *)
(* before it is skipped.                                                   *)
(***************************************************************************)
EXTENDS Collector, SequenceTheorems, FiniteSetTheorems, WellFoundedInduction,
        TLAPS

Rows == [pos : Nat, size : Nat, ino : Nat]
Runtimes == [unchanged : Nat, failures : Nat, stalls : Nat]
Jobs == [rest : BOOLEAN, pos : Nat, size : Nat, ino : Nat, gen : Nat,
         end : Int, hold_back : BOOLEAN, clamped : BOOLEAN, lines : Seq(Nat),
         upto : Nat, read_gen : Nat]

(* The types of the file, the checkpoint, the cycle and the counters; each *)
(* rotation of either kind starts a content of its own.                    *)
TypeOK ==
  /\ file \in Seq(Nat) /\ present \in BOOLEAN /\ logged \in 0 .. MaxEntries
  /\ ino \in 1 .. MaxRotations + 1 /\ (~present => ino <= MaxRotations)
  /\ truncations \in 0 .. MaxTruncations /\ gen = ino - 1 + truncations
  /\ row \in Rows /\ row_gen \in (0 .. gen) \cup {Lost}
  /\ runtime \in Runtimes /\ job \in Jobs
  /\ pc \in {"idle", "parse", "emit", "save"}
  /\ emitted \in [Entries -> Nat] /\ unsaved \in [Entries -> Int]
  /\ given_up \subseteq Entries

(* Emitted, and a checkpoint that was stored accounts for it.              *)
Covered(e) == emitted[e] - unsaved[e] = 1

(* The server numbers its entries in the order it logs them; an emission   *)
(* is covered once at most, and only of an entry that was logged.          *)
LoggedInOrder ==
  /\ \A p \in Headers(file) : file[p] \in 1 .. logged
  /\ \A p, q \in Headers(file) : p < q => file[p] < file[q]
  /\ \A e \in Entries : /\ emitted[e] - unsaved[e] \in {0, 1}
                        /\ Covered(e) => e <= logged

(* What a checkpoint covers lies before the place any cycle would start.   *)
CoveredIsBehind ==
  present => \A p \in Headers(file) :
               Covered(file[p]) => ~rotated /\ p <= row.pos

(* A checkpoint computed in this content accounts for what lies before it. *)
RowAccounts ==
  row_gen = gen =>
    /\ row.pos <= Len(file)
    /\ \A p \in Headers(file) :
         p <= row.pos => emitted[file[p]] > 0 \/ file[p] \in given_up

(* The cycle under way starts at the checkpoint or at the head, behind all *)
(* that is covered of the content it saw, and has seen that content's size.*)
JobStarts ==
  pc # "idle" =>
    /\ job.gen <= gen /\ job.pos \in {0, row.pos} /\ job.pos < job.size
    /\ job.end <= job.size /\ (~job.hold_back => job.end = job.size)
    /\ job.gen = gen => job.size <= Len(file) /\ job.ino = ino
    /\ present => \A p \in Headers(file) :
                    Covered(file[p]) => job.gen = gen /\ p <= job.pos

(* What it parsed are lines of the content it read, and not yet covered.   *)
JobHolds ==
  pc \in {"emit", "save"} =>
    /\ job.read_gen \in job.gen .. gen
    /\ job.upto = job.pos + Len(job.lines)
    /\ \A e \in EntriesOf(job.lines) :
         e \in 1 .. logged /\ (job.gen = job.read_gen => ~Covered(e))
    /\ IF job.read_gen = gen
       THEN /\ job.upto <= Len(file)
            /\ \A i \in DOMAIN job.lines : job.lines[i] = file[job.pos + i]
       ELSE EntriesOf(job.lines) \cap EntriesOf(file) = {}

EmittedBeforeSaved ==
  pc = "save" => \A e \in Accepted(job.lines) : emitted[e] > 0

IInv ==
  /\ TypeOK /\ LoggedInOrder /\ CoveredIsBehind /\ RowAccounts /\ JobStarts
  /\ JobHolds /\ EmittedBeforeSaved /\ CutsBetweenEntries
-----------------------------------------------------------------------------
(* A nonempty set of numbers below a bound has a largest element.          *)
LEMMA MaxOfNaturals ==
  ASSUME NEW n \in Nat, NEW S \in SUBSET (0 .. n), S # {}
  PROVE  Max(S) \in S /\ \A x \in S : Max(S) >= x
<1> DEFINE T == {n - x : x \in S}
<1>1. T \subseteq Nat /\ T # {}
  <2>1. \A x \in S : n - x \in Nat OBVIOUS
  <2>2. PICK x \in S : TRUE OBVIOUS
  <2>3. n - x \in T OBVIOUS
  <2> QED BY <2>1, <2>3
<1>2. PICK t \in T : \A y \in T : ~(<<y, t>> \in OpToRel(<, Nat))
  <2> HIDE DEF T
  <2> QED BY <1>1, NatLessThanWellFounded, WFMin
<1>3. PICK x \in S : t = n - x OBVIOUS
<1>4. \A y \in S : x >= y
  <2> SUFFICES ASSUME NEW y \in S PROVE x >= y OBVIOUS
  <2>1. n - y \in T /\ n - y \in Nat /\ t \in Nat OBVIOUS
  <2>2. ~(n - y < t)
    <3> HIDE DEF T
    <3> QED BY <1>2, <2>1 DEF OpToRel
  <2> QED BY <2>2, <1>3
<1> QED BY <1>4 DEF Max

(* The prefix of a sequence.                                               *)
LEMMA PrefixOf ==
  ASSUME NEW s \in Seq(Nat), NEW n \in 0 .. Len(s)
  PROVE  /\ SubSeq(s, 1, n) \in Seq(Nat) /\ Len(SubSeq(s, 1, n)) = n
         /\ \A i \in 1 .. n : SubSeq(s, 1, n)[i] = s[i]
<1>1. Len(s) \in Nat /\ \A i \in 1 .. n : s[i] \in Nat
  BY LenProperties, ElementOfSeq
<1> QED BY <1>1, SubSeqProperties

(* One more line at the end of the log.                                    *)
LEMMA AppendedLine ==
  ASSUME NEW s \in Seq(Nat), NEW n \in Nat
  PROVE  /\ Append(s, n) \in Seq(Nat) /\ Len(Append(s, n)) = Len(s) + 1
         /\ Append(s, n)[Len(s) + 1] = n
         /\ \A p \in 1 .. Len(s) : Append(s, n)[p] = s[p]
         /\ Headers(Append(s, n))
              = Headers(s) \cup (IF n = 0 THEN {} ELSE {Len(s) + 1})
<1>1. /\ Append(s, n) \in Seq(Nat) /\ Len(Append(s, n)) = Len(s) + 1
      /\ Append(s, n)[Len(s) + 1] = n
      /\ \A p \in 1 .. Len(s) : Append(s, n)[p] = s[p]
  BY AppendProperties
<1>2. Len(s) \in Nat /\ DOMAIN s = 1 .. Len(s)
      /\ DOMAIN Append(s, n) = 1 .. Len(s) + 1
  BY <1>1, LenProperties
<1> QED BY <1>1, <1>2 DEF Headers
(* The boundary of a window is in it, and the line behind it is a header.  *)
LEMMA BoundaryBeforeHeader ==
  ASSUME NEW lines \in Seq(Nat)
  PROVE  LET b == last_entry_boundary(lines)
         IN b \in 0 .. Len(lines) /\ (b > 0 => b + 1 \in Headers(lines))
<1> DEFINE H == Headers(lines)
<1>1. Len(lines) \in Nat /\ H \subseteq 1 .. Len(lines)
  BY LenProperties DEF Headers
<1>2. CASE H = {} BY <1>1, <1>2 DEF last_entry_boundary
<1>3. CASE H # {}
  <2>1. H \in SUBSET (0 .. Len(lines)) BY <1>1
  <2>2. last_entry_boundary(lines) = Max(H) - 1
    BY <1>3 DEF last_entry_boundary
  <2> HIDE DEF H
  <2>3. Max(H) \in H BY <1>1, <1>3, <2>1, MaxOfNaturals
  <2>4. PICK m \in H : m = Max(H) BY <2>3
  <2>5. m \in 1 .. Len(lines) /\ last_entry_boundary(lines) = m - 1
    BY <1>1, <2>2, <2>4
  <2>6. m - 1 \in 0 .. Len(lines) /\ (m - 1) + 1 = m BY <1>1, <2>5
  <2> QED BY <2>4, <2>5, <2>6 DEF H
<1> QED BY <1>2, <1>3

(* Facts about the file and the cycle that every step uses.                *)
LEMMA FileFacts ==
  ASSUME IInv
  PROVE  /\ Len(file) \in Nat /\ DOMAIN file = 1 .. Len(file)
         /\ Headers(file) \subseteq 1 .. Len(file)
         /\ \A p \in Headers(file) : file[p] \in Entries
         /\ \A p, q \in Headers(file) : file[p] = file[q] => p = q
         /\ gen \in Nat /\ gen < Lost /\ MaxEntries \in Nat
         /\ row.pos \in Nat /\ row.size \in Nat
         /\ job.lines \in Seq(Nat) /\ Len(job.lines) \in Nat
         /\ DOMAIN job.lines = 1 .. Len(job.lines)
         /\ Headers(job.lines) \subseteq 1 .. Len(job.lines)
         /\ job.pos \in Nat /\ job.size \in Nat /\ job.end \in Int
         /\ job.upto \in Nat /\ job.gen \in Nat /\ job.read_gen \in Nat
<1>1. Len(file) \in Nat /\ DOMAIN file = 1 .. Len(file)
  BY LenProperties DEF IInv, TypeOK
<1>2. MaxEntries \in Nat /\ MaxRotations \in Nat /\ MaxTruncations \in Nat
  BY CollectorAssumption
<1>3. \A p \in Headers(file) : file[p] \in Entries
  BY <1>2 DEF IInv, TypeOK, LoggedInOrder, Entries
<1>4. \A p, q \in Headers(file) : file[p] = file[q] => p = q
  <2> SUFFICES ASSUME NEW p \in Headers(file), NEW q \in Headers(file),
                      file[p] = file[q], p # q
               PROVE  FALSE
    OBVIOUS
  <2>1. p \in Nat /\ q \in Nat BY <1>1 DEF Headers
  <2>2. p < q \/ q < p BY <2>1
  <2>3. file[p] < file[q] \/ file[q] < file[p]
    BY <2>2 DEF IInv, LoggedInOrder
  <2> QED BY <2>3, <1>3 DEF Entries
<1>5. gen \in Nat /\ gen < Lost BY <1>2 DEF IInv, TypeOK, Lost
<1>6. row.pos \in Nat /\ row.size \in Nat BY DEF IInv, TypeOK, Rows
<1>7. job \in Jobs BY DEF IInv, TypeOK
<1>8. /\ job.lines \in Seq(Nat)
      /\ job.pos \in Nat /\ job.size \in Nat /\ job.end \in Int
      /\ job.upto \in Nat /\ job.gen \in Nat /\ job.read_gen \in Nat
  BY <1>7 DEF Jobs
<1>9. /\ Len(job.lines) \in Nat /\ DOMAIN job.lines = 1 .. Len(job.lines)
  BY <1>8, LenProperties
<1> QED BY <1>1, <1>2, <1>3, <1>4, <1>5, <1>6, <1>8, <1>9 DEF Headers

(* The lesser of two numbers.                                              *)
LEMMA MinOfTwo ==
  ASSUME NEW a \in Int, NEW b \in Int
  PROVE  Min({a, b}) = IF a <= b THEN a ELSE b
<1> DEFINE S == {a, b}
<1>1. \E x \in S : \A y \in S : x =< y OBVIOUS
<1>2. Min(S) \in S /\ \A y \in S : Min(S) =< y BY <1>1 DEF Min
<1> QED BY <1>2

(* The lines w stand in the file behind the first start lines.             *)
TakenFrom(w, start, lines) ==
  /\ w \in Seq(Nat) /\ Len(w) \in Nat
  /\ \A i \in 1 .. Len(w) : /\ start + i \in 1 .. Len(lines)
                           /\ w[i] = lines[start + i]

(* The lines of a file from one place up to another in it.                 *)
LEMMA WindowOfFile ==
  ASSUME NEW lines \in Seq(Nat), NEW start \in Nat, NEW m \in Int,
         m <= Len(lines)
  PROVE  LET w == SubSeq(lines, start + 1, m)
         IN TakenFrom(w, start, lines) /\ (Len(w) > 0 => start + Len(w) = m)
<1> DEFINE w == SubSeq(lines, start + 1, m)
<1>1. Len(lines) \in Nat BY LenProperties
<1>2. \A i \in start + 1 .. m : lines[i] \in Nat
  <2> SUFFICES ASSUME NEW i \in start + 1 .. m PROVE i \in 1 .. Len(lines)
    BY ElementOfSeq
  <2> QED BY <1>1
<1>3. /\ w \in Seq(Nat)
      /\ Len(w) = IF start + 1 <= m THEN m - (start + 1) + 1 ELSE 0
      /\ \A i \in 1 .. m - (start + 1) + 1 : w[i] = lines[start + 1 + i - 1]
  <2>1. start + 1 \in Int OBVIOUS
  <2> QED BY <1>2, <2>1, SubSeqProperties
<1> HIDE DEF w
<1>4. Len(w) = IF start + 1 <= m THEN m - start ELSE 0 BY <1>3
<1>5. ASSUME NEW i \in 1 .. Len(w)
      PROVE  start + i \in 1 .. Len(lines) /\ w[i] = lines[start + i]
  <2>1. start + 1 <= m /\ i \in 1 .. m - (start + 1) + 1 BY <1>4
  <2>2. start + 1 + i - 1 = start + i BY <2>1
  <2>3. w[i] = lines[start + i] BY <2>1, <2>2, <1>3
  <2>4. start + i \in 1 .. Len(lines) BY <2>1, <1>1
  <2> QED BY <2>3, <2>4
<1>6. Len(w) \in Nat BY <1>4
<1>7. Len(w) > 0 => start + Len(w) = m BY <1>4
<1> QED BY <1>3, <1>5, <1>6, <1>7 DEF w, TakenFrom

(* The same held back: it stops before the last line that starts an entry. *)
LEMMA HeldBackWindow ==
  ASSUME NEW lines \in Seq(Nat), NEW start \in Nat, NEW w,
         TakenFrom(w, start, lines)
  PROVE  LET h == SubSeq(w, 1, last_entry_boundary(w))
         IN /\ TakenFrom(h, start, lines)
            /\ Len(h) > 0 => /\ start + Len(h) <= Len(lines)
                             /\ lines[start + Len(h) + 1] # 0
<1> DEFINE b == last_entry_boundary(w)
           h == SubSeq(w, 1, b)
<1>0. /\ w \in Seq(Nat)
      /\ \A i \in 1 .. Len(w) : /\ start + i \in 1 .. Len(lines)
                               /\ w[i] = lines[start + i]
  BY DEF TakenFrom
<1>1. b \in 0 .. Len(w) /\ (b > 0 => b + 1 \in Headers(w))
  BY <1>0, BoundaryBeforeHeader
<1> HIDE DEF b
<1>3. /\ h \in Seq(Nat) /\ Len(h) = b
      /\ \A i \in 1 .. b : h[i] = w[i]
  BY <1>0, <1>1, PrefixOf
<1> HIDE DEF h
<1>4. Len(w) \in Nat /\ DOMAIN w = 1 .. Len(w) /\ Len(lines) \in Nat
  BY <1>0, LenProperties
<1>5. ASSUME NEW i \in 1 .. b
      PROVE  start + i \in 1 .. Len(lines) /\ h[i] = lines[start + i]
  <2>1. i \in 1 .. Len(w) BY <1>1, <1>4
  <2> QED BY <2>1, <1>0, <1>3
<1>6. ASSUME b > 0
      PROVE  start + b <= Len(lines) /\ lines[start + b + 1] # 0
  <2>1. b + 1 \in 1 .. Len(w) /\ w[b + 1] # 0
    BY <1>1, <1>4, <1>6 DEF Headers
  <2>2. start + (b + 1) = start + b + 1 BY <1>1
  <2>3. start + (b + 1) \in 1 .. Len(lines) BY <1>0, <2>1
  <2> QED BY <2>1, <2>2, <2>3, <1>0, <1>1, <1>4
<1>7. /\ h \in Seq(Nat) /\ Len(h) \in Nat /\ Len(h) = b
  BY <1>1, <1>3, <1>4
<1>8. \A i \in 1 .. Len(h) : start + i \in 1 .. Len(lines) /\ h[i] = lines[start + i]
  BY <1>5, <1>7
<1>9. Len(h) > 0 => start + Len(h) <= Len(lines) /\ lines[start + Len(h) + 1] # 0
  BY <1>6, <1>7
<1> QED BY <1>7, <1>8, <1>9 DEF TakenFrom, b, h

(* What a parse takes, held back or not: lines of the file from where the  *)
(* cycle starts, up to the end it saw or to a line that starts an entry.   *)
LEMMA ParsedIsOfFile ==
  ASSUME IInv, pc = "parse"
  PROVE  /\ TakenFrom(Parsed, job.pos, file)
         /\ Len(Parsed) > 0 =>
              /\ job.pos + Len(Parsed) <= Len(file)
              /\ job.gen = gen /\ job.pos + Len(Parsed) < job.size
                   => file[job.pos + Len(Parsed) + 1] # 0
<1> DEFINE start == job.pos
           end == job.end
           size == job.size
<1>1. start \in Nat /\ end \in Int /\ size \in Nat BY FileFacts
<1>2. file \in Seq(Nat) BY DEF IInv, TypeOK
<1>3. PICK m \in Int : /\ m = IF end <= Len(file) THEN end ELSE Len(file)
                      /\ m <= Len(file)
                      /\ Window = SubSeq(file, start + 1, m)
  <2>1. Len(file) \in Int BY FileFacts
  <2>2. Min({end, Len(file)}) = IF end <= Len(file) THEN end ELSE Len(file)
    BY <1>1, <2>1, MinOfTwo
  <2> DEFINE k == IF end <= Len(file) THEN end ELSE Len(file)
  <2>3. k \in Int /\ k <= Len(file)
    <3> HIDE DEF end
    <3> QED BY <1>1, <2>1
  <2>4. Window = SubSeq(file, start + 1, k) BY <2>2 DEF Window
  <2> QED BY <2>3, <2>4
<1>4. /\ job.gen = gen => size <= Len(file)
      /\ ~job.hold_back => end = size
  BY DEF IInv, JobStarts
<1> SUFFICES /\ TakenFrom(Parsed, start, file)
             /\ Len(Parsed) > 0 =>
                  /\ start + Len(Parsed) <= Len(file)
                  /\ job.gen = gen /\ start + Len(Parsed) < size
                       => file[start + Len(Parsed) + 1] # 0
  OBVIOUS
<1> HIDE DEF start, end, size
<1>5. /\ TakenFrom(Window, start, file)
      /\ Len(Window) > 0 => start + Len(Window) = m
  BY <1>1, <1>2, <1>3, WindowOfFile
<1>6. CASE job.hold_back
  <2>1. Parsed = SubSeq(Window, 1, last_entry_boundary(Window))
    BY <1>6 DEF Parsed
  <2>2. /\ TakenFrom(Parsed, start, file)
        /\ Len(Parsed) > 0 => /\ start + Len(Parsed) <= Len(file)
                              /\ file[start + Len(Parsed) + 1] # 0
    BY <1>1, <1>2, <1>5, <2>1, HeldBackWindow
  <2> QED BY <2>2
<1>7. CASE ~job.hold_back
  <2>1. Parsed = Window BY <1>7 DEF Parsed
  <2>2. job.gen = gen => m = size BY <1>3, <1>4, <1>7
  <2>4. Len(Window) > 0 =>
          /\ start + Len(Window) <= Len(file)
          /\ job.gen = gen => start + Len(Window) = size
    BY <1>3, <1>5, <2>2
  <2>5. job.gen = gen => ~(size < size) BY <1>1
  <2> QED BY <1>5, <2>1, <2>4, <2>5
<1> QED BY <1>6, <1>7

(* A window ends within the file.                                          *)
LEMMA ReadEndWithinFile ==
  ASSUME IInv, NEW pos \in Nat
  PROVE  read_end(pos) \in Int /\ read_end(pos) <= Len(file)
<1> DEFINE n == Min({runtime.stalls, 20})
<1>1. Len(file) \in Nat BY FileFacts
<1>2. ReadBudget \in Nat BY CollectorAssumption
<1>3. runtime.stalls \in Nat BY DEF IInv, TypeOK, Runtimes
<1>4. n \in Nat BY <1>3, MinOfTwo
<1> HIDE DEF n
<1>5. ReadBudget * 2 ^ n \in Int BY <1>2, <1>4
<1>6. pos + effective_read_budget \in Int
  <2>1. effective_read_budget = ReadBudget * 2 ^ n
    BY DEF effective_read_budget, n
  <2> QED BY <1>5, <2>1
<1>7. CASE ReadBudget = 0 BY <1>1, <1>7 DEF read_end
<1>8. CASE ReadBudget # 0
  <2> DEFINE far == pos + effective_read_budget
  <2>1. read_end(pos) = Min({Len(file), far}) BY <1>8 DEF read_end
  <2> HIDE DEF far
  <2>2. far \in Int BY <1>6 DEF far
  <2>3. Min({Len(file), far}) = IF Len(file) <= far THEN Len(file) ELSE far
    BY <1>1, <2>2, MinOfTwo
  <2> QED BY <1>1, <2>1, <2>2, <2>3
<1> QED BY <1>7, <1>8

(* The constants are numbers.                                              *)
LEMMA Numbers ==
  /\ MaxEntries \in Nat /\ MaxRotations \in Nat /\ MaxTruncations \in Nat
  /\ Lost \in Nat /\ MaxEntries + 1 \in Nat
BY CollectorAssumption DEF Lost

(* Whatever is accepted of some lines starts in them.                      *)
LEMMA AcceptedStart ==
  ASSUME NEW lines
  PROVE  Accepted(lines) \subseteq EntriesOf(lines)
BY DEF Accepted, EntriesOf

-----------------------------------------------------------------------------
LEMMA InitInv == Init => IInv
<1> SUFFICES ASSUME Init PROVE IInv OBVIOUS
<1> USE Numbers
<1>1. /\ file = <<>> /\ file \in Seq(Nat) /\ Len(file) = 0
      /\ Headers(file) = {}
  BY DEF Init, Headers
<1>2. row \in Rows /\ runtime \in Runtimes /\ job \in Jobs
  BY DEF Init, NoRow, NoRuntime, NoJob, NoIno, Rows, Runtimes, Jobs
<1>3. TypeOK BY <1>1, <1>2 DEF Init, TypeOK
<1>4. LoggedInOrder BY <1>1 DEF Init, LoggedInOrder, Covered
<1>5. CoveredIsBehind /\ RowAccounts
  BY <1>1 DEF Init, CoveredIsBehind, RowAccounts, NoRow
<1>6. /\ JobStarts /\ JobHolds /\ EmittedBeforeSaved /\ CutsBetweenEntries
  BY DEF Init, JobStarts, JobHolds, EmittedBeforeSaved, CutsBetweenEntries
<1> QED BY <1>3, <1>4, <1>5, <1>6 DEF IInv

(* While the file, the checkpoint and the counters stay, so does what they *)
(* say of each other.                                                      *)
LEMMA LedgerStays ==
  ASSUME IInv, UNCHANGED <<fileVars, row, row_gen, emitVars, given_up>>,
         runtime' \in Runtimes, job' \in Jobs,
         pc' \in {"idle", "parse", "emit", "save"}
  PROVE  /\ TypeOK' /\ LoggedInOrder' /\ CoveredIsBehind' /\ RowAccounts'
         /\ Headers(file)' = Headers(file)
         /\ \A e : Covered(e)' = Covered(e)
<1> USE DEF fileVars, emitVars
<1>1. TypeOK' BY DEF IInv, TypeOK
<1>2. Headers(file)' = Headers(file) BY DEF Headers
<1>3. \A e : Covered(e)' = Covered(e) BY DEF Covered
<1>4. LoggedInOrder' BY <1>2, <1>3 DEF IInv, LoggedInOrder
<1>5. CoveredIsBehind' BY <1>2, <1>3 DEF IInv, CoveredIsBehind, rotated
<1>6. RowAccounts' BY <1>2 DEF IInv, RowAccounts
<1> QED BY <1>1, <1>2, <1>3, <1>4, <1>5, <1>6

(* Between two cycles nothing is said of one.                              *)
LEMMA NoCycle ==
  ASSUME pc' = "idle"
  PROVE  JobStarts' /\ JobHolds' /\ EmittedBeforeSaved' /\ CutsBetweenEntries'
BY DEF JobStarts, JobHolds, EmittedBeforeSaved, CutsBetweenEntries

LEMMA NoJobIsJob == NoJob \in Jobs BY DEF NoJob, NoIno, Jobs

(* A cycle that ends without a checkpoint, whichever way it ends.          *)
LEMMA CycleEnds ==
  ASSUME IInv, UNCHANGED <<fileVars, row, row_gen, emitVars, given_up>>,
         runtime' \in Runtimes, pc' = "idle", job' = NoJob
  PROVE  IInv'
<1>1. TypeOK' /\ LoggedInOrder' /\ CoveredIsBehind' /\ RowAccounts'
  BY NoJobIsJob, LedgerStays
<1>2. JobStarts' /\ JobHolds' /\ EmittedBeforeSaved' /\ CutsBetweenEntries'
  BY NoCycle
<1> QED BY <1>1, <1>2 DEF IInv

(* A cycle that starts to read, at the head or at the checkpoint.          *)
LEMMA CycleStarts ==
  ASSUME IInv, UNCHANGED <<fileVars, row, row_gen, emitVars, given_up>>,
         runtime' \in Runtimes, pc' = "parse", job' \in Jobs,
         job'.gen = gen, job'.ino = ino, job'.size = Len(file),
         job'.pos \in {0, row.pos}, job'.pos < Len(file),
         job'.end <= Len(file), ~job'.hold_back => job'.end = Len(file),
         present => \A p \in Headers(file) :
                      Covered(file[p]) => p <= job'.pos
  PROVE  IInv'
<1>1. /\ TypeOK' /\ LoggedInOrder' /\ CoveredIsBehind' /\ RowAccounts'
      /\ Headers(file)' = Headers(file)
      /\ \A e : Covered(e)' = Covered(e)
  BY LedgerStays
<1>2. JobStarts'
  <2>1. gen \in Nat /\ Len(file) \in Nat BY FileFacts
  <2>2. /\ job'.gen <= gen' /\ job'.pos \in {0, row'.pos}
        /\ job'.gen = gen' => job'.size <= Len(file') /\ job'.ino = ino'
    BY <2>1 DEF fileVars
  <2>3. present' => \A p \in Headers(file)' :
                      Covered(file[p])' => job'.gen = gen' /\ p <= job'.pos
    BY <1>1 DEF fileVars
  <2> QED BY <2>2, <2>3 DEF JobStarts
<1>3. JobHolds' /\ EmittedBeforeSaved' /\ CutsBetweenEntries'
  BY DEF JobHolds, EmittedBeforeSaved, CutsBetweenEntries
<1> QED BY <1>1, <1>2, <1>3 DEF IInv

LEMMA ProcessLogFileInv == IInv /\ process_log_file => IInv'
<1> SUFFICES ASSUME IInv, process_log_file PROVE IInv' OBVIOUS
<1> DEFINE pos == IF rotated THEN 0 ELSE row.pos
           clamped == read_end(pos) < Len(file)
           unchanged == IF changed THEN 0
                        ELSE Min({runtime.unchanged + 1, QUIESCENT_CYCLES})
<1>1. UNCHANGED <<fileVars, row, row_gen, emitVars, given_up>>
  BY DEF process_log_file
<1>2. runtime' \in Runtimes
  <2>1. runtime \in Runtimes BY DEF IInv, TypeOK
  <2>2. unchanged \in Nat
    <3>1. runtime.unchanged + 1 \in Nat BY <2>1 DEF Runtimes
    <3>2. Min({runtime.unchanged + 1, 2}) \in Nat BY <3>1, MinOfTwo
    <3> QED BY <3>2 DEF QUIESCENT_CYCLES
  <2>3. runtime' = [runtime EXCEPT !.unchanged = unchanged]
    BY DEF process_log_file
  <2> HIDE DEF unchanged
  <2> QED BY <2>1, <2>2, <2>3 DEF Runtimes
<1>3. CASE UNCHANGED cycleVars
  <2>1. /\ TypeOK' /\ LoggedInOrder' /\ CoveredIsBehind' /\ RowAccounts'
    BY <1>1, <1>2, <1>3, LedgerStays DEF IInv, TypeOK, cycleVars
  <2>2. pc' = "idle" BY <1>3 DEF process_log_file, cycleVars
  <2> QED BY <2>1, <2>2, NoCycle DEF IInv
<1>4. CASE /\ Len(file) > pos /\ pc' = "parse"
           /\ job' = [NoJob EXCEPT
                !.pos = pos, !.size = Len(file), !.ino = ino, !.gen = gen,
                !.end = read_end(pos), !.clamped = clamped,
                !.hold_back = hold_back(unchanged = QUIESCENT_CYCLES,
                                        clamped)]
  <2>1. /\ pos \in Nat /\ Len(file) \in Nat /\ gen \in Nat /\ ino \in Nat
    BY FileFacts, Numbers DEF IInv, TypeOK
  <2>2. read_end(pos) \in Int /\ read_end(pos) <= Len(file)
    BY <2>1, ReadEndWithinFile
  <2>3. \A p \in Headers(file) : present /\ Covered(file[p]) => p <= pos
    BY DEF IInv, CoveredIsBehind
  <2>4. pos \in {0, row.pos} OBVIOUS
  <2> DEFINE held == hold_back(unchanged = QUIESCENT_CYCLES, clamped)
             end == read_end(pos)
  <2>5. held \in BOOLEAN /\ clamped \in BOOLEAN /\ (~held => end = Len(file))
    BY <2>1, <2>2 DEF hold_back
  <2>6. job' = [NoJob EXCEPT !.pos = pos, !.size = Len(file), !.ino = ino,
                  !.gen = gen, !.end = end, !.clamped = clamped,
                  !.hold_back = held]
    BY <1>4
  <2> HIDE DEF pos, clamped, held, end
  <2>7. /\ job'.pos = pos /\ job'.size = Len(file) /\ job'.ino = ino
        /\ job'.gen = gen /\ job'.end = end /\ job'.hold_back = held
    BY <2>6 DEF NoJob
  <2>8. job' \in Jobs
    BY <2>1, <2>2, <2>5, <2>6, NoJobIsJob DEF Jobs, end
  <2>9. job'.pos < Len(file) BY <1>4, <2>1, <2>7
  <2>10. job'.end <= Len(file) BY <2>2, <2>7 DEF end
  <2>11. job'.pos \in {0, row.pos} BY <2>4, <2>7
  <2>12. ~job'.hold_back => job'.end = Len(file) BY <2>5, <2>7
  <2>13. present => \A p \in Headers(file) : Covered(file[p]) => p <= job'.pos
    BY <2>3, <2>7
  <2> QED
    BY <1>1, <1>2, <1>4, <2>7, <2>8, <2>9, <2>10, <2>11, <2>12, <2>13,
       CycleStarts
<1> QED BY <1>3, <1>4 DEF process_log_file

LEMMA RetainInv == IInv /\ retain_file_runtime => IInv'
<1> SUFFICES ASSUME IInv, retain_file_runtime PROVE IInv' OBVIOUS
<1> USE DEF retain_file_runtime
<1>1. runtime' \in Runtimes BY DEF NoRuntime, Runtimes
<1>2. job' \in Jobs /\ pc' = "idle" BY DEF cycleVars, IInv, TypeOK
<1>3. TypeOK' /\ LoggedInOrder' /\ CoveredIsBehind' /\ RowAccounts'
  BY <1>1, <1>2, LedgerStays
<1> QED BY <1>2, <1>3, NoCycle DEF IInv

LEMMA RemainingInv == IInv /\ process_remaining_content => IInv'
<1> SUFFICES ASSUME IInv, process_remaining_content PROVE IInv' OBVIOUS
<1> DEFINE pos == row.pos
<1>1. /\ UNCHANGED <<fileVars, row, row_gen, emitVars, given_up>>
      /\ runtime' = runtime /\ pc' = "parse" /\ Len(file) > pos
  BY DEF process_remaining_content
<1>2. /\ pos \in Nat /\ Len(file) \in Nat /\ gen \in Nat /\ ino \in Nat
  BY FileFacts, Numbers DEF IInv, TypeOK
<1>3. runtime' \in Runtimes BY <1>1 DEF IInv, TypeOK
<1>4. job' = [NoJob EXCEPT !.rest = TRUE, !.pos = pos, !.size = Len(file),
                           !.ino = ino, !.gen = gen, !.end = Len(file)]
  BY DEF process_remaining_content
<1>5. \A p \in Headers(file) : present /\ Covered(file[p]) => p <= pos
  BY DEF IInv, CoveredIsBehind
<1>6. pos \in {0, row.pos} OBVIOUS
<1> HIDE DEF pos
<1>7. /\ job'.pos = pos /\ job'.size = Len(file) /\ job'.ino = ino
      /\ job'.gen = gen /\ job'.end = Len(file)
  BY <1>4 DEF NoJob
<1>8. job' \in Jobs
  <2> DEFINE len == Len(file)
  <2>1. len \in Nat /\ len \in Int BY <1>2
  <2>2. job' = [NoJob EXCEPT !.rest = TRUE, !.pos = pos, !.size = len,
                             !.ino = ino, !.gen = gen, !.end = len]
    BY <1>4
  <2> HIDE DEF len
  <2> QED BY <1>2, <2>1, <2>2, NoJobIsJob DEF Jobs
<1>9. job'.pos < Len(file) /\ job'.end <= Len(file) BY <1>1, <1>2, <1>7
<1> QED BY <1>1, <1>3, <1>5, <1>6, <1>7, <1>8, <1>9, CycleStarts

(* A cycle under way goes on: what it started from still holds.            *)
LEMMA CycleGoesOn ==
  ASSUME IInv, UNCHANGED <<fileVars, row, row_gen, emitVars, given_up>>,
         runtime' \in Runtimes, pc # "idle", pc' \in {"parse", "emit", "save"},
         job' \in Jobs,
         job'.gen = job.gen, job'.ino = job.ino, job'.size = job.size,
         job'.pos = job.pos, job'.end = job.end,
         job'.hold_back = job.hold_back
  PROVE  /\ TypeOK' /\ LoggedInOrder' /\ CoveredIsBehind' /\ RowAccounts'
         /\ JobStarts'
<1>1. /\ TypeOK' /\ LoggedInOrder' /\ CoveredIsBehind' /\ RowAccounts'
      /\ Headers(file)' = Headers(file)
      /\ \A e : Covered(e)' = Covered(e)
  BY LedgerStays
<1>2. JobStarts'
  <2>1. /\ job.gen <= gen /\ job.pos \in {0, row.pos} /\ job.pos < job.size
        /\ job.end <= job.size /\ (~job.hold_back => job.end = job.size)
        /\ job.gen = gen => job.size <= Len(file) /\ job.ino = ino
    BY DEF IInv, JobStarts
  <2>2. present => \A p \in Headers(file) :
                     Covered(file[p]) => job.gen = gen /\ p <= job.pos
    BY DEF IInv, JobStarts
  <2>3. present' => \A p \in Headers(file)' :
                      Covered(file[p])' => job'.gen = gen' /\ p <= job'.pos
    BY <1>1, <2>2 DEF fileVars
  <2> QED BY <2>1, <2>3 DEF JobStarts, fileVars
<1> QED BY <1>1, <1>2

LEMMA ParseRangeInv == IInv /\ parse_range_blocking => IInv'
<1> SUFFICES ASSUME IInv, parse_range_blocking PROVE IInv' OBVIOUS
<1> DEFINE start == job.pos
           upto == start + Len(Parsed)
<1>1. /\ UNCHANGED <<fileVars, row, row_gen, emitVars, given_up>>
      /\ pc = "parse" /\ present
  BY DEF parse_range_blocking, Readable
<1>2. runtime' \in Runtimes
  <2>1. runtime \in Runtimes BY DEF IInv, TypeOK
  <2>2. stalls_after(Parsed # <<>>) \in Nat
    BY <2>1 DEF stalls_after, Runtimes
  <2>3. runtime' = IF job.rest THEN runtime
                   ELSE [runtime EXCEPT !.failures = 0,
                           !.stalls = stalls_after(Parsed # <<>>)]
    BY DEF parse_range_blocking
  <2> QED BY <2>1, <2>2, <2>3 DEF Runtimes
<1>3. CASE pc' = "idle" /\ job' = NoJob BY <1>1, <1>2, <1>3, CycleEnds
<1>4. CASE /\ Parsed # <<>> /\ pc' = "emit"
           /\ job' = [job EXCEPT !.lines = Parsed, !.read_gen = gen,
                                 !.upto = upto]
  <2>1. /\ TakenFrom(Parsed, start, file)
        /\ Len(Parsed) > 0 =>
             /\ upto <= Len(file)
             /\ job.gen = gen /\ upto < job.size => file[upto + 1] # 0
    BY <1>1, ParsedIsOfFile
  <2>2. /\ Parsed \in Seq(Nat) /\ Len(Parsed) \in Nat
        /\ DOMAIN Parsed = 1 .. Len(Parsed)
        /\ \A i \in 1 .. Len(Parsed) : /\ start + i \in 1 .. Len(file)
                                       /\ Parsed[i] = file[start + i]
    BY <2>1, LenProperties DEF TakenFrom
  <2>3. Len(Parsed) > 0 BY <1>4, <2>2, EmptySeq
  <2>4. /\ job \in Jobs /\ start \in Nat /\ gen \in Nat
        /\ DOMAIN file = 1 .. Len(file)
    BY FileFacts DEF IInv, TypeOK
  <2>5. upto \in Nat BY <2>2, <2>4
  <2> DEFINE lines == Parsed
  <2>6. job' = [job EXCEPT !.lines = lines, !.read_gen = gen, !.upto = upto]
    BY <1>4
  <2>7. lines \in Seq(Nat) BY <2>2
  <2> HIDE DEF upto, lines
  <2>8. job' \in Jobs BY <2>4, <2>5, <2>6, <2>7 DEF Jobs
  <2>9. /\ job'.gen = job.gen /\ job'.ino = job.ino /\ job'.size = job.size
        /\ job'.pos = job.pos /\ job'.end = job.end
        /\ job'.hold_back = job.hold_back
        /\ job'.lines = lines /\ job'.read_gen = gen /\ job'.upto = upto
    BY <2>4, <2>6 DEF Jobs
  <2>10. /\ TypeOK' /\ LoggedInOrder' /\ CoveredIsBehind' /\ RowAccounts'
         /\ JobStarts'
    BY <1>1, <1>2, <1>4, <2>8, <2>9, CycleGoesOn
  <2>11. \A e \in EntriesOf(lines) :
           e \in 1 .. logged /\ (job.gen = gen => ~Covered(e))
    <3> SUFFICES ASSUME NEW e \in EntriesOf(lines)
                 PROVE  e \in 1 .. logged /\ (job.gen = gen => ~Covered(e))
      OBVIOUS
    <3>1. PICK i \in 1 .. Len(Parsed) : e = Parsed[i] /\ Parsed[i] # 0
      BY <2>2 DEF EntriesOf, Headers, lines
    <3>2. start + i \in Headers(file) /\ e = file[start + i]
      BY <2>2, <2>4, <3>1 DEF Headers
    <3>3. e \in 1 .. logged BY <3>2 DEF IInv, LoggedInOrder
    <3>4. ~(start + i <= start) BY <2>4
    <3>5. Covered(e) => start + i <= start
      BY <1>1, <3>2 DEF IInv, JobStarts
    <3> QED BY <3>3, <3>4, <3>5
  <2>12. JobHolds'
    <3>1. gen \in job.gen .. gen
      BY <1>1, <2>4, FileFacts DEF IInv, JobStarts
    <3>2. upto = start + Len(lines) BY DEF upto, lines
    <3>3. \A e : Covered(e)' = Covered(e) BY <1>1 DEF Covered, emitVars
    <3>4. \A e \in EntriesOf(lines) :
            e \in 1 .. logged' /\ (job.gen = gen => ~Covered(e)')
      BY <1>1, <2>11, <3>3 DEF fileVars
    <3>5. upto <= Len(file) BY <2>1, <2>3 DEF upto
    <3>6. \A i \in DOMAIN lines : lines[i] = file[start + i]
      BY <2>2 DEF lines
    <3>7. gen' = gen /\ file' = file BY <1>1 DEF fileVars
    <3>8. job'.pos = start BY <2>9
    <3> HIDE DEF start
    <3>9. JobHolds' <=>
            (pc' \in {"emit", "save"} =>
               /\ gen \in job.gen .. gen
               /\ upto = start + Len(lines)
               /\ \A e \in EntriesOf(lines) :
                    e \in 1 .. logged' /\ (job.gen = gen => ~Covered(e)')
               /\ upto <= Len(file)
               /\ \A i \in DOMAIN lines : lines[i] = file[start + i])
      BY <2>9, <3>7, <3>8 DEF JobHolds
    <3> QED BY <3>1, <3>2, <3>4, <3>5, <3>6, <3>9
  <2>13. CutsBetweenEntries'
    BY <1>1, <2>1, <2>3, <2>9 DEF CutsBetweenEntries, upto, fileVars
  <2>14. EmittedBeforeSaved' BY <1>4 DEF EmittedBeforeSaved
  <2> QED BY <2>10, <2>12, <2>13, <2>14 DEF IInv
<1> QED BY <1>3, <1>4 DEF parse_range_blocking

LEMMA ParseFailsInv == IInv /\ parse_fails => IInv'
<1> SUFFICES ASSUME IInv, parse_fails PROVE IInv' OBVIOUS
<1> DEFINE start == job.pos
           size == job.size
<1>1. /\ UNCHANGED <<fileVars, emitVars>>
      /\ pc = "parse" /\ pc' = "idle" /\ job' = NoJob
  BY DEF parse_fails
<1>2. runtime' \in Runtimes
  <2>1. runtime \in Runtimes BY DEF IInv, TypeOK
  <2>2. runtime.failures + 1 \in Nat /\ 0 \in Nat BY <2>1 DEF Runtimes
  <2>3. \/ runtime' = runtime
        \/ runtime' = [runtime EXCEPT !.failures = runtime.failures + 1]
        \/ runtime' = [runtime EXCEPT !.failures = 0]
    BY DEF parse_fails
  <2> QED BY <2>1, <2>2, <2>3 DEF Runtimes
<1>3. CASE UNCHANGED <<row, row_gen, given_up>>
  BY <1>1, <1>2, <1>3, CycleEnds
<1>4. CASE /\ row' = given_up_row(job)
           /\ row_gen' = IF start = 0 \/ row_gen = job.gen THEN job.gen
                         ELSE Lost
           /\ given_up' = given_up \cup
                (IF gen = job.gen
                 THEN EntriesOf(SubSeq(file, start + 1, size)) ELSE {})
  <2> DEFINE range == SubSeq(file, start + 1, size)
  <2>1. /\ start \in Nat /\ size \in Nat /\ job.gen \in Nat /\ gen \in Nat
        /\ Lost \in Nat /\ gen < Lost
        /\ Len(file) \in Nat /\ DOMAIN file = 1 .. Len(file)
        /\ row \in Rows
    BY Numbers, FileFacts DEF IInv, TypeOK
  <2>2. /\ job.gen <= gen /\ start \in {0, row.pos} /\ start < size
        /\ job.gen = gen => size <= Len(file) /\ job.ino = ino
        /\ present => \A p \in Headers(file) :
                        Covered(file[p]) => job.gen = gen /\ p <= start
    BY <1>1 DEF IInv, JobStarts
  <2>3. /\ Headers(file)' = Headers(file) /\ \A e : Covered(e)' = Covered(e)
        /\ file' = file /\ gen' = gen /\ emitted' = emitted /\ ino' = ino
        /\ present' = present
    BY <1>1 DEF Headers, Covered, fileVars, emitVars
  <2>4. row' = [row EXCEPT !.pos = size, !.size = size]
    BY <1>4 DEF given_up_row
  <2> HIDE DEF start, size
  <2>5. /\ row' \in Rows /\ row'.pos = size /\ row'.size = size
        /\ row'.ino = row.ino
    BY <2>1, <2>4 DEF Rows
  <2>6. ASSUME job.gen = gen
        PROVE  /\ EntriesOf(range) \subseteq Entries
               /\ \A p \in Headers(file) :
                    start < p /\ p <= size => file[p] \in EntriesOf(range)
    <3>1. file \in Seq(Nat) BY DEF IInv, TypeOK
    <3>2. size \in Int /\ size <= Len(file) BY <2>1, <2>2, <2>6
    <3>3. /\ TakenFrom(range, start, file)
          /\ Len(range) > 0 => start + Len(range) = size
      BY <2>1, <3>1, <3>2, WindowOfFile
    <3> HIDE DEF range
    <3>4. /\ range \in Seq(Nat) /\ Len(range) \in Nat
          /\ DOMAIN range = 1 .. Len(range)
          /\ \A i \in 1 .. Len(range) : /\ start + i \in 1 .. Len(file)
                                        /\ range[i] = file[start + i]
      BY <3>3, LenProperties DEF TakenFrom
    <3>5. EntriesOf(range) \subseteq Entries
      <4> SUFFICES ASSUME NEW i \in DOMAIN range, range[i] # 0
                   PROVE  range[i] \in Entries
        BY DEF EntriesOf, Headers
      <4>1. start + i \in Headers(file) /\ range[i] = file[start + i]
        BY <2>1, <3>4 DEF Headers
      <4> QED BY <4>1, FileFacts
    <3>6. ASSUME NEW p \in Headers(file), start < p, p <= size
          PROVE  file[p] \in EntriesOf(range)
      <4>1. Len(range) = size - start
        <5>1. Len(SubSeq(file, start + 1, size)) = size - start
          <6>1. start + 1 \in Int /\ size \in Int /\ start + 1 <= size
            BY <2>1, <2>2
          <6>2. \A i \in start + 1 .. size : file[i] \in Nat
            BY <2>1, <3>1, <3>2, ElementOfSeq
          <6>3. Len(SubSeq(file, start + 1, size))
                  = IF start + 1 <= size THEN size - (start + 1) + 1 ELSE 0
            BY <6>1, <6>2, SubSeqProperties
          <6> QED BY <6>1, <6>3, <2>1
        <5> QED BY <5>1 DEF range
      <4>2. p \in 1 .. Len(file) BY FileFacts
      <4>3. p - start \in 1 .. Len(range) /\ start + (p - start) = p
        BY <2>1, <3>6, <4>1, <4>2
      <4>4. range[p - start] = file[p] /\ file[p] # 0
        BY <3>4, <4>3 DEF Headers
      <4> QED BY <3>4, <4>3, <4>4 DEF EntriesOf, Headers
    <3> QED BY <3>5, <3>6
  <2>7. TypeOK'
    <3>1. row_gen' \in (0 .. gen) \cup {Lost} BY <1>4, <2>1, <2>2
    <3>2. given_up' \subseteq Entries
      BY <1>4, <2>6 DEF IInv, TypeOK
    <3> QED
      BY <1>1, <1>2, <2>5, <3>1, <3>2, NoJobIsJob
         DEF IInv, TypeOK, fileVars, emitVars
  <2>8. LoggedInOrder'
    BY <1>1, <2>3 DEF IInv, LoggedInOrder, fileVars, emitVars
  <2>9. CoveredIsBehind'
    <3> SUFFICES ASSUME present, NEW p \in Headers(file), Covered(file[p])
                 PROVE  ~rotated' /\ p <= row'.pos
      BY <2>3 DEF CoveredIsBehind
    <3>1. p \in 1 .. Len(file) BY FileFacts
    <3>2. job.gen = gen /\ p <= start BY <2>2
    <3>3. p <= size /\ size <= Len(file) BY <2>1, <2>2, <3>1, <3>2
    <3>4. ~(row.ino # NoIno /\ row.ino # ino)
      BY DEF IInv, CoveredIsBehind, rotated
    <3>5. ~(Len(file) < size) BY <2>1, <3>3
    <3>6. ~rotated' BY <2>3, <2>5, <3>4, <3>5 DEF rotated
    <3> QED BY <2>5, <3>3, <3>6
  <2>10. RowAccounts'
    <3> SUFFICES ASSUME row_gen' = gen
                 PROVE  /\ size <= Len(file)
                        /\ \A p \in Headers(file) :
                             p <= size => \/ emitted[file[p]] > 0
                                          \/ file[p] \in given_up'
      BY <2>3, <2>5 DEF RowAccounts
    <3>1. job.gen = gen /\ (start = 0 \/ row_gen = gen) BY <1>4, <2>1
    <3>2. ASSUME NEW p \in Headers(file), p <= size
          PROVE  emitted[file[p]] > 0 \/ file[p] \in given_up'
      <4>1. p \in 1 .. Len(file) BY FileFacts
      <4>2. CASE start < p BY <1>4, <2>6, <3>1, <3>2, <4>2
      <4>3. CASE p <= start
        <5>1. start # 0 BY <4>1, <4>3
        <5>2. start = row.pos /\ row_gen = gen BY <2>2, <3>1, <5>1
        <5>3. emitted[file[p]] > 0 \/ file[p] \in given_up
          BY <4>3, <5>2 DEF IInv, RowAccounts
        <5> QED BY <1>4, <5>3
      <4> QED BY <2>1, <4>1, <4>2, <4>3
    <3> QED BY <2>2, <3>1, <3>2
  <2> QED BY <1>1, <2>7, <2>8, <2>9, <2>10, NoCycle DEF IInv
<1> QED BY <1>3, <1>4 DEF parse_fails

LEMMA OtherEndsInv ==
  IInv /\ (give_up_fails \/ record_query_hashes_fails
           \/ update_file_state_fails \/ Restart) => IInv'
<1> SUFFICES ASSUME IInv, give_up_fails \/ record_query_hashes_fails
                          \/ update_file_state_fails \/ Restart
             PROVE  IInv'
  OBVIOUS
<1>1. /\ UNCHANGED <<fileVars, row, row_gen, emitVars, given_up>>
      /\ pc' = "idle" /\ job' = NoJob
  BY DEF give_up_fails, record_query_hashes_fails, update_file_state_fails,
         Restart
<1>2. runtime' \in Runtimes
  <2>1. runtime \in Runtimes BY DEF IInv, TypeOK
  <2>2. \/ runtime' = runtime
        \/ runtime' = [runtime EXCEPT !.failures = MAX_PARSE_FAILURES]
        \/ runtime' = NoRuntime
    BY DEF give_up_fails, record_query_hashes_fails, update_file_state_fails,
           Restart
  <2> QED BY <2>1, <2>2 DEF Runtimes, NoRuntime, MAX_PARSE_FAILURES
<1> QED BY <1>1, <1>2, CycleEnds

LEMMA EmitInv == IInv /\ emit_query_metrics => IInv'
<1> SUFFICES ASSUME IInv, emit_query_metrics PROVE IInv' OBVIOUS
<1> DEFINE es == Accepted(job.lines)
<1>1. /\ UNCHANGED <<fileVars, row, row_gen, given_up, runtime, job>>
      /\ pc = "emit" /\ pc' = "save"
      /\ emitted' = Plus(emitted, es) /\ unsaved' = Plus(unsaved, es)
  BY DEF emit_query_metrics
<1>2. emitted \in [Entries -> Nat] /\ unsaved \in [Entries -> Int]
  BY DEF IInv, TypeOK
<1> HIDE DEF es
<1>3. /\ emitted' \in [Entries -> Nat] /\ unsaved' \in [Entries -> Int]
      /\ \A e \in Entries : /\ emitted'[e] >= emitted[e]
                            /\ e \in es => emitted'[e] > 0
                            /\ emitted'[e] - unsaved'[e] = emitted[e] - unsaved[e]
  BY <1>1, <1>2 DEF Plus
<1>4. \A e \in Entries : Covered(e)' = Covered(e)
  BY <1>3 DEF Covered
<1>5. \A p \in Headers(file) : file[p] \in Entries BY FileFacts
<1>6. Headers(file)' = Headers(file) BY <1>1 DEF fileVars, Headers
<1>7. TypeOK' BY <1>1, <1>3 DEF IInv, TypeOK, fileVars
<1>8. LoggedInOrder'
  BY <1>1, <1>3, <1>4, <1>6 DEF IInv, LoggedInOrder, fileVars
<1>9. CoveredIsBehind'
  BY <1>1, <1>4, <1>5, <1>6 DEF IInv, CoveredIsBehind, rotated, fileVars
<1>10. RowAccounts'
  <2> SUFFICES ASSUME row_gen = gen
               PROVE  /\ row.pos <= Len(file)
                      /\ \A p \in Headers(file) :
                           p <= row.pos => \/ emitted'[file[p]] > 0
                                           \/ file[p] \in given_up
    BY <1>1, <1>6 DEF RowAccounts, fileVars
  <2>1. /\ row.pos <= Len(file)
        /\ \A p \in Headers(file) :
             p <= row.pos => emitted[file[p]] > 0 \/ file[p] \in given_up
    BY DEF IInv, RowAccounts
  <2>2. \A e \in Entries : emitted[e] > 0 => emitted'[e] > 0
    BY <1>2, <1>3
  <2> QED BY <1>5, <2>1, <2>2
<1>11. JobStarts'
  BY <1>1, <1>4, <1>5, <1>6 DEF IInv, JobStarts, fileVars
<1>12. JobHolds'
  <2>1. \A e \in EntriesOf(job.lines) : e \in 1 .. logged BY <1>1 DEF IInv, JobHolds
  <2>2. \A e \in EntriesOf(job.lines) : e \in Entries
    BY <2>1, Numbers DEF IInv, TypeOK, Entries
  <2> QED BY <1>1, <1>4, <2>2 DEF IInv, JobHolds, fileVars
<1>13. EmittedBeforeSaved'
  <2>1. es \subseteq Entries
    <3>1. \A e \in EntriesOf(job.lines) : e \in 1 .. logged
      BY <1>1 DEF IInv, JobHolds
    <3> QED
      BY <3>1, AcceptedStart, Numbers DEF IInv, TypeOK, Entries, es
  <2> QED BY <1>1, <1>3, <2>1 DEF EmittedBeforeSaved, es
<1>14. CutsBetweenEntries'
  BY <1>1 DEF IInv, CutsBetweenEntries, fileVars
<1> QED
  BY <1>7, <1>8, <1>9, <1>10, <1>11, <1>12, <1>13, <1>14 DEF IInv

LEMMA UpdateFileStateInv == IInv /\ update_file_state => IInv'
<1> SUFFICES ASSUME IInv, update_file_state PROVE IInv' OBVIOUS
<1> DEFINE start == job.pos
           upto == job.upto
           size == job.size
           lines == job.lines
           es == Accepted(lines)
<1>1. /\ UNCHANGED <<fileVars, runtime, emitted>>
      /\ pc = "save" /\ pc' = "idle" /\ job' = NoJob
      /\ row' = [pos |-> upto, size |-> size, ino |-> job.ino]
      /\ row_gen' = IF start = 0 \/ row_gen = job.read_gen THEN job.read_gen
                    ELSE Lost
      /\ given_up' = given_up \cup (EntriesOf(lines) \ es)
      /\ unsaved' = IF job.gen = job.read_gen THEN Minus(unsaved, es)
                    ELSE unsaved
  BY DEF update_file_state, row_of
<1>2. /\ start \in Nat /\ upto \in Nat /\ size \in Nat
      /\ job.gen \in Nat /\ job.read_gen \in Nat /\ gen \in Nat /\ gen < Lost
      /\ lines \in Seq(Nat) /\ Len(lines) \in Nat
      /\ DOMAIN lines = 1 .. Len(lines)
      /\ Len(file) \in Nat /\ DOMAIN file = 1 .. Len(file)
      /\ Lost \in Nat
  BY Numbers, FileFacts
<1>3. /\ job.gen <= gen /\ start \in {0, row.pos} /\ start < size
      /\ job.gen = gen => size <= Len(file) /\ job.ino = ino
      /\ present => \A p \in Headers(file) :
                      Covered(file[p]) => job.gen = gen /\ p <= start
  BY <1>1 DEF IInv, JobStarts
<1>4. /\ job.read_gen \in job.gen .. gen
      /\ upto = start + Len(lines)
      /\ \A e \in EntriesOf(lines) :
           e \in 1 .. logged /\ (job.gen = job.read_gen => ~Covered(e))
      /\ job.read_gen = gen =>
           /\ upto <= Len(file)
           /\ \A i \in DOMAIN lines : lines[i] = file[start + i]
      /\ job.read_gen # gen => EntriesOf(lines) \cap EntriesOf(file) = {}
  BY <1>1 DEF IInv, JobHolds
<1>5. \A e \in es : e \in EntriesOf(lines) /\ emitted[e] > 0
  BY <1>1, AcceptedStart DEF IInv, EmittedBeforeSaved
<1>6. job.ino \in Nat BY DEF IInv, TypeOK, Jobs
<1> HIDE DEF start, upto, size, lines, es
<1>7. row' \in Rows /\ row'.pos = upto /\ row'.size = size
      /\ row'.ino = job.ino
  BY <1>1, <1>2, <1>6 DEF Rows
<1>8. /\ Headers(file)' = Headers(file) /\ file' = file /\ gen' = gen
      /\ emitted' = emitted /\ ino' = ino /\ present' = present
      /\ logged' = logged
  BY <1>1 DEF Headers, fileVars
<1>9. emitted \in [Entries -> Nat] /\ unsaved \in [Entries -> Int]
  BY DEF IInv, TypeOK
<1>10. logged \in 0 .. MaxEntries /\ Entries = 1 .. MaxEntries
  BY DEF IInv, TypeOK, Entries
<1>11. EntriesOf(lines) \subseteq Entries BY <1>4, <1>10, Numbers
<1>12. /\ unsaved' \in [Entries -> Int]
       /\ \A e \in Entries :
            unsaved'[e] = IF job.gen = job.read_gen /\ e \in es
                          THEN unsaved[e] - 1 ELSE unsaved[e]
  BY <1>1, <1>9 DEF Minus
<1>13. \A e \in Entries :
         /\ emitted'[e] - unsaved'[e] \in {0, 1}
         /\ Covered(e)' => \/ Covered(e)
                           \/ job.gen = job.read_gen /\ e \in es
  <2> SUFFICES ASSUME NEW e \in Entries
               PROVE  /\ emitted[e] - unsaved'[e] \in {0, 1}
                      /\ emitted[e] - unsaved'[e] = 1 =>
                           \/ emitted[e] - unsaved[e] = 1
                           \/ job.gen = job.read_gen /\ e \in es
    BY <1>8 DEF Covered
  <2>1. /\ emitted[e] \in Int /\ unsaved[e] \in Int
        /\ emitted[e] - unsaved[e] \in {0, 1}
    BY <1>9 DEF IInv, LoggedInOrder
  <2>2. CASE job.gen = job.read_gen /\ e \in es
    <3>1. emitted[e] - unsaved[e] = 0
      BY <1>4, <1>5, <2>1, <2>2 DEF Covered
    <3>2. unsaved'[e] = unsaved[e] - 1 BY <1>12, <2>2
    <3> QED BY <2>1, <2>2, <3>1, <3>2
  <2>3. CASE ~(job.gen = job.read_gen /\ e \in es)
    BY <1>12, <2>1, <2>3
  <2> QED BY <2>2, <2>3
<1>14. TypeOK'
  <2>1. row_gen' \in (0 .. gen) \cup {Lost} BY <1>1, <1>2, <1>4
  <2>2. given_up' \subseteq Entries BY <1>1, <1>11 DEF IInv, TypeOK
  <2> QED
    BY <1>1, <1>7, <1>12, <2>1, <2>2, NoJobIsJob DEF IInv, TypeOK, fileVars
<1>15. LoggedInOrder'
  <2>1. \A e \in Entries : Covered(e)' => e <= logged
    BY <1>4, <1>5, <1>10, <1>13 DEF IInv, LoggedInOrder
  <2> QED BY <1>8, <1>13, <2>1 DEF IInv, LoggedInOrder
<1>16. CoveredIsBehind'
  <2> SUFFICES ASSUME present, NEW p \in Headers(file), Covered(file[p])'
               PROVE  ~rotated' /\ p <= upto
    BY <1>7, <1>8 DEF CoveredIsBehind
  <2>1. file[p] \in Entries /\ p \in 1 .. Len(file) BY FileFacts
  <2>2. job.gen = gen /\ p <= upto
    <3>1. CASE Covered(file[p])
      <4>1. job.gen = gen /\ p <= start BY <1>3, <3>1
      <4> QED BY <1>2, <1>4, <2>1, <4>1
    <3>2. CASE job.gen = job.read_gen /\ file[p] \in es
      <4>1. file[p] \in EntriesOf(lines) /\ file[p] \in EntriesOf(file)
        BY <1>5, <3>2 DEF EntriesOf
      <4>2. job.read_gen = gen BY <1>4, <4>1
      <4>3. PICK i \in DOMAIN lines : lines[i] = file[p] /\ lines[i] # 0
        BY <4>1 DEF EntriesOf, Headers
      <4>4. start + i <= upto /\ start + i \in 1 .. Len(file)
        BY <1>2, <1>4, <4>2, <4>3
      <4>5. start + i \in Headers(file) /\ file[start + i] = file[p]
        BY <1>2, <1>4, <4>2, <4>3, <4>4 DEF Headers
      <4>6. start + i = p BY <4>5, FileFacts
      <4>7. p <= upto BY <4>4, <4>6
      <4>8. job.gen = gen BY <3>2, <4>2
      <4> QED BY <4>7, <4>8
    <3>3. Covered(file[p]) \/ (job.gen = job.read_gen /\ file[p] \in es)
      BY <1>8, <1>13, <2>1 DEF Covered
    <3> QED BY <3>1, <3>2, <3>3
  <2>3. ~(Len(file) < size) BY <1>2, <1>3, <2>2
  <2>4. ~rotated' BY <1>3, <1>7, <1>8, <2>2, <2>3 DEF rotated
  <2> QED BY <2>2, <2>4
<1>17. RowAccounts'
  <2> SUFFICES ASSUME row_gen' = gen
               PROVE  /\ upto <= Len(file)
                      /\ \A p \in Headers(file) :
                           p <= upto => \/ emitted[file[p]] > 0
                                        \/ file[p] \in given_up'
    BY <1>7, <1>8 DEF RowAccounts
  <2>1. job.read_gen = gen /\ (start = 0 \/ row_gen = gen) BY <1>1, <1>2
  <2>2. ASSUME NEW p \in Headers(file), p <= upto
        PROVE  emitted[file[p]] > 0 \/ file[p] \in given_up'
    <3>1. p \in 1 .. Len(file) /\ file[p] # 0 BY FileFacts DEF Headers
    <3>2. CASE start < p
      <4>1. p - start \in DOMAIN lines /\ start + (p - start) = p
        BY <1>2, <1>4, <2>2, <3>1, <3>2
      <4>2. lines[p - start] = file[p] BY <1>4, <2>1, <4>1
      <4>3. file[p] \in EntriesOf(lines)
        BY <3>1, <4>1, <4>2 DEF EntriesOf, Headers
      <4> QED BY <1>1, <1>5, <4>3
    <3>3. CASE p <= start
      <4>1. start # 0 BY <3>1, <3>3
      <4>2. start = row.pos /\ row_gen = gen BY <1>3, <2>1, <4>1
      <4>3. emitted[file[p]] > 0 \/ file[p] \in given_up
        BY <3>3, <4>2 DEF IInv, RowAccounts
      <4> QED BY <1>1, <4>3
    <3> QED BY <1>2, <3>1, <3>2, <3>3
  <2> QED BY <1>4, <2>1, <2>2
<1> QED BY <1>1, <1>14, <1>15, <1>16, <1>17, NoCycle DEF IInv

LEMMA CleanupInv == IInv /\ cleanup_blocking => IInv'
<1> SUFFICES ASSUME IInv, cleanup_blocking PROVE IInv' OBVIOUS
<1>1. /\ UNCHANGED <<fileVars, runtime, emitVars, given_up, job>>
      /\ pc = "idle" /\ pc' = "idle" /\ ~present
      /\ row' = [pos |-> 0, size |-> 0, ino |-> NoIno] /\ row_gen' = 0
  BY DEF cleanup_blocking, cycleVars, NoRow
<1>2. /\ Headers(file)' = Headers(file)
      /\ \A e : Covered(e)' = Covered(e)
  BY <1>1 DEF Headers, Covered, fileVars, emitVars
<1>3. row' \in Rows /\ row'.pos = 0 BY <1>1 DEF Rows, NoIno
<1>4. TypeOK'
  <2>1. row_gen' \in 0 .. gen BY <1>1, FileFacts
  <2> QED BY <1>1, <1>3, <2>1 DEF IInv, TypeOK, fileVars, emitVars
<1>5. LoggedInOrder'
  BY <1>1, <1>2 DEF IInv, LoggedInOrder, fileVars, emitVars
<1>6. CoveredIsBehind' BY <1>1 DEF CoveredIsBehind, fileVars
<1>7. RowAccounts'
  <2>1. \A p \in Headers(file) : ~(p <= 0) BY FileFacts
  <2>2. 0 <= Len(file) BY FileFacts
  <2> QED BY <1>1, <1>2, <1>3, <2>1, <2>2 DEF RowAccounts, fileVars
<1> QED BY <1>1, <1>4, <1>5, <1>6, <1>7, NoCycle DEF IInv

-----------------------------------------------------------------------------
(* The server logs a line that starts an entry of its own, or goes on with *)
(* the last one.                                                           *)
LEMMA AppendInv == IInv /\ (AppendEntry \/ AppendLine) => IInv'
<1> SUFFICES ASSUME IInv, AppendEntry \/ AppendLine PROVE IInv' OBVIOUS
<1> DEFINE len == Len(file)
<1>1. PICK line \in Nat :
        /\ file' = Append(file, line) /\ present
        /\ \/ /\ line = logged + 1 /\ logged < MaxEntries
              /\ logged' = logged + 1
           \/ line = 0 /\ logged' = logged
        /\ UNCHANGED <<present, ino, gen, truncations, row, row_gen, runtime,
                       cycleVars, emitVars, given_up>>
  <2>1. logged \in Nat BY Numbers DEF IInv, TypeOK
  <2>2. CASE AppendEntry
    <3>1. logged + 1 \in Nat BY <2>1
    <3> QED BY <2>2, <3>1 DEF AppendEntry
  <2>3. CASE AppendLine BY <2>3 DEF AppendLine
  <2> QED BY <2>2, <2>3
<1>2. file \in Seq(Nat) BY DEF IInv, TypeOK
<1>3. /\ file' \in Seq(Nat) /\ Len(file') = len + 1
      /\ file'[len + 1] = line
      /\ \A p \in 1 .. len : file'[p] = file[p]
      /\ Headers(file') = Headers(file)
                            \cup (IF line = 0 THEN {} ELSE {len + 1})
  BY <1>1, <1>2, AppendedLine
<1>4. /\ len \in Nat /\ Headers(file) \subseteq 1 .. len
      /\ DOMAIN file = 1 .. len
      /\ \A p \in Headers(file) : file[p] \in Entries
  BY FileFacts
<1>5. logged \in 0 .. MaxEntries /\ MaxEntries \in Nat /\ logged' <= MaxEntries
      /\ logged <= logged' /\ logged' \in Nat
  BY <1>1, Numbers DEF IInv, TypeOK
<1> HIDE DEF len
<1>6. /\ \A e : Covered(e)' = Covered(e)
      /\ \A e \in Entries : Covered(e) => e <= logged
  BY <1>1 DEF IInv, LoggedInOrder, Covered, emitVars
(* The new header is behind all others, and its entry is not covered.      *)
<1>7. ASSUME NEW p \in Headers(file')
      PROVE  \/ p \in Headers(file) /\ p \in 1 .. len /\ file'[p] = file[p]
             \/ /\ p = len + 1 /\ file'[p] = logged + 1 /\ logged' = logged + 1
                /\ file'[p] \in Entries /\ ~Covered(file'[p])
  <2>1. CASE p \in Headers(file) BY <1>3, <1>4, <2>1
  <2>2. CASE p \notin Headers(file)
    <3>1. p = len + 1 /\ line # 0 BY <1>3, <2>2
    <3>2. file'[p] = logged + 1 /\ logged' = logged + 1
      BY <1>1, <1>3, <3>1
    <3>3. logged + 1 \in Entries /\ ~(logged + 1 <= logged)
      BY <1>5, <3>2 DEF Entries
    <3> QED BY <1>6, <3>1, <3>2, <3>3
  <2> QED BY <2>1, <2>2
<1>8. TypeOK'
  BY <1>1, <1>3, <1>5 DEF IInv, TypeOK, cycleVars, emitVars
<1>9. LoggedInOrder'
  <2>1. \A p \in Headers(file) : file[p] \in 1 .. logged
    BY DEF IInv, LoggedInOrder
  <2>2. ASSUME NEW p \in Headers(file') PROVE file'[p] \in 1 .. logged'
    BY <1>5, <1>7, <2>1
  <2>3. ASSUME NEW p \in Headers(file'), NEW q \in Headers(file'), p < q
        PROVE  file'[p] < file'[q]
    <3>1. p \in Headers(file) /\ file'[p] = file[p]
      BY <1>4, <1>7, <2>3
    <3>2. CASE q \in Headers(file) /\ file'[q] = file[q]
      BY <2>3, <3>1, <3>2 DEF IInv, LoggedInOrder
    <3>3. CASE file'[q] = logged + 1
      BY <1>5, <2>1, <3>1, <3>3
    <3> QED BY <1>7, <3>2, <3>3
  <2>4. \A e \in Entries : /\ emitted[e] - unsaved[e] \in {0, 1}
                           /\ Covered(e) => e <= logged
    BY DEF IInv, LoggedInOrder
  <2>5. \A e \in Entries : /\ emitted'[e] - unsaved'[e] \in {0, 1}
                           /\ Covered(e)' => e <= logged'
    <3> SUFFICES ASSUME NEW e \in Entries
                 PROVE  /\ emitted'[e] - unsaved'[e] \in {0, 1}
                        /\ Covered(e)' => e <= logged'
      OBVIOUS
    <3>1. emitted'[e] - unsaved'[e] \in {0, 1}
      BY <1>1, <2>4 DEF emitVars
    <3>2. e \in Nat BY <1>5 DEF Entries
    <3> QED BY <1>5, <1>6, <3>1, <3>2
  <2> QED BY <2>2, <2>3, <2>5 DEF LoggedInOrder
<1>10. CoveredIsBehind'
  <2> SUFFICES ASSUME NEW p \in Headers(file'), Covered(file'[p])
               PROVE  ~rotated' /\ p <= row.pos
    BY <1>1, <1>6 DEF CoveredIsBehind, Covered, emitVars
  <2>1. p \in Headers(file) /\ Covered(file[p]) BY <1>7
  <2>2. ~rotated /\ p <= row.pos
    BY <1>1, <2>1 DEF IInv, CoveredIsBehind
  <2>3. row.size \in Nat BY FileFacts
  <2>4. ~rotated' BY <1>1, <1>3, <1>4, <2>2, <2>3 DEF rotated, len
  <2> QED BY <2>2, <2>4
<1>11. RowAccounts'
  <2> SUFFICES ASSUME row_gen = gen
               PROVE  /\ row.pos <= len + 1
                      /\ \A p \in Headers(file') :
                           p <= row.pos => \/ emitted[file'[p]] > 0
                                           \/ file'[p] \in given_up
    BY <1>1, <1>3 DEF RowAccounts, emitVars
  <2>1. /\ row.pos <= len
        /\ \A p \in Headers(file) :
             p <= row.pos => emitted[file[p]] > 0 \/ file[p] \in given_up
    BY DEF IInv, RowAccounts, len
  <2>2. row.pos \in Nat BY FileFacts
  <2>3. ~(len + 1 <= row.pos) /\ row.pos <= len + 1 BY <1>4, <2>1, <2>2
  <2> QED BY <1>7, <2>1, <2>3
<1>12. JobStarts'
  <2> SUFFICES ASSUME pc # "idle"
               PROVE  /\ job.gen <= gen /\ job.pos \in {0, row.pos}
                      /\ job.pos < job.size /\ job.end <= job.size
                      /\ ~job.hold_back => job.end = job.size
                      /\ job.gen = gen => job.size <= len + 1 /\ job.ino = ino
                      /\ \A p \in Headers(file') :
                           Covered(file'[p]) => job.gen = gen /\ p <= job.pos
    BY <1>1, <1>3, <1>6 DEF JobStarts, cycleVars, Covered, emitVars
  <2>1. /\ job.gen <= gen /\ job.pos \in {0, row.pos} /\ job.pos < job.size
        /\ job.end <= job.size /\ (~job.hold_back => job.end = job.size)
        /\ job.gen = gen => job.size <= len /\ job.ino = ino
        /\ \A p \in Headers(file) :
             Covered(file[p]) => job.gen = gen /\ p <= job.pos
    BY <1>1 DEF IInv, JobStarts, len
  <2>2. job.size \in Nat BY FileFacts
  <2>3. job.size <= len => job.size <= len + 1 BY <1>4, <2>2
  <2> QED BY <1>7, <2>1, <2>3
<1>13. JobHolds'
  <2> SUFFICES ASSUME pc \in {"emit", "save"}
               PROVE  JobHolds'
    BY <1>1 DEF JobHolds, cycleVars
  <2> DEFINE upto == job.upto
             start == job.pos
             lines == job.lines
  <2>1. /\ job.read_gen \in job.gen .. gen
        /\ upto = start + Len(lines)
        /\ \A e \in EntriesOf(lines) :
             e \in 1 .. logged /\ (job.gen = job.read_gen => ~Covered(e))
        /\ job.read_gen = gen =>
             upto <= len /\ \A i \in DOMAIN lines : lines[i] = file[start + i]
        /\ job.read_gen # gen => EntriesOf(lines) \cap EntriesOf(file) = {}
    BY DEF IInv, JobHolds, len
  <2>2. /\ start \in Nat /\ upto \in Nat /\ Len(lines) \in Nat
        /\ DOMAIN lines = 1 .. Len(lines)
    BY FileFacts
  <2> HIDE DEF upto, start, lines
  <2>3. \A e \in EntriesOf(lines) :
          e \in 1 .. logged' /\ (job.gen = job.read_gen => ~Covered(e)')
    BY <1>5, <1>6, <2>1
  <2>4. job.read_gen = gen =>
          /\ upto <= len + 1
          /\ \A i \in DOMAIN lines : lines[i] = file'[start + i]
    <3> SUFFICES ASSUME job.read_gen = gen
                 PROVE  /\ upto <= len + 1
                        /\ \A i \in DOMAIN lines : lines[i] = file'[start + i]
      OBVIOUS
    <3>1. upto <= len + 1 BY <1>4, <2>1, <2>2
    <3>2. \A i \in DOMAIN lines : start + i \in 1 .. len
      BY <1>4, <2>1, <2>2
    <3> QED BY <1>3, <2>1, <3>1, <3>2
  <2>5. job.read_gen # gen => EntriesOf(lines) \cap EntriesOf(file') = {}
    <3> SUFFICES ASSUME job.read_gen # gen, NEW e \in EntriesOf(lines),
                        e \in EntriesOf(file')
                 PROVE  FALSE
      OBVIOUS
    <3>1. PICK p \in Headers(file') : e = file'[p] BY DEF EntriesOf
    <3>2. e \in 1 .. logged BY <2>1
    <3>3. ~(logged + 1 \in 1 .. logged) BY <1>5
    <3>4. p \in Headers(file) /\ e = file[p] BY <1>7, <3>1, <3>2, <3>3
    <3> QED BY <2>1, <3>4 DEF EntriesOf
  <2>6. job' = job /\ gen' = gen BY <1>1 DEF cycleVars
  <2> QED BY <1>3, <2>1, <2>3, <2>4, <2>5, <2>6 DEF JobHolds, upto, start, lines
<1>14. EmittedBeforeSaved'
  BY <1>1 DEF IInv, EmittedBeforeSaved, cycleVars, emitVars
<1>15. CutsBetweenEntries'
  <2> DEFINE upto == job.upto
             size == job.size
  <2> SUFFICES ASSUME pc \in {"emit", "save"}, job.read_gen = gen,
                      job.gen = gen, upto < size
               PROVE  file'[upto + 1] # 0
    BY <1>1 DEF CutsBetweenEntries, cycleVars
  <2>1. file[upto + 1] # 0 BY DEF IInv, CutsBetweenEntries
  <2>2. size <= len /\ upto \in Nat /\ size \in Nat
    BY FileFacts DEF IInv, JobStarts, len
  <2> HIDE DEF upto, size
  <2>3. upto + 1 \in 1 .. len BY <1>4, <2>2
  <2> QED BY <1>3, <2>1, <2>3
<1> QED
  BY <1>8, <1>9, <1>10, <1>11, <1>12, <1>13, <1>14, <1>15 DEF IInv

LEMMA RemoveInv == IInv /\ Remove => IInv'
<1> SUFFICES ASSUME IInv, Remove PROVE IInv' OBVIOUS
<1>1. /\ UNCHANGED <<file, ino, gen, logged, truncations, row, row_gen,
                     runtime, cycleVars, emitVars, given_up>>
      /\ ino <= MaxRotations /\ present' = FALSE
  BY DEF Remove
<1>2. /\ Headers(file)' = Headers(file)
      /\ \A e : Covered(e)' = Covered(e)
  BY <1>1 DEF Headers, Covered, emitVars
<1>3. TypeOK' BY <1>1 DEF IInv, TypeOK, cycleVars, emitVars
<1>4. LoggedInOrder' BY <1>1, <1>2 DEF IInv, LoggedInOrder, emitVars
<1>5. CoveredIsBehind' BY <1>1 DEF CoveredIsBehind
<1>6. RowAccounts' BY <1>1, <1>2 DEF IInv, RowAccounts, emitVars
<1>7. JobStarts' BY <1>1 DEF IInv, JobStarts, cycleVars
<1>8. JobHolds' BY <1>1, <1>2 DEF IInv, JobHolds, cycleVars
<1>9. EmittedBeforeSaved'
  BY <1>1 DEF IInv, EmittedBeforeSaved, cycleVars, emitVars
<1>10. CutsBetweenEntries' BY <1>1 DEF IInv, CutsBetweenEntries, cycleVars
<1> QED
  BY <1>3, <1>4, <1>5, <1>6, <1>7, <1>8, <1>9, <1>10 DEF IInv

(* A rotation of either kind: a content in which nothing is known yet.     *)
LEMMA NewContentInv == IInv /\ (Create \/ Truncate) => IInv'
<1> SUFFICES ASSUME IInv, Create \/ Truncate PROVE IInv' OBVIOUS
<1>1. /\ UNCHANGED <<logged, row, row_gen, runtime, cycleVars, emitVars,
                     given_up>>
      /\ file' = <<>> /\ gen' = gen + 1
  BY DEF Create, Truncate
<1>2. /\ file' \in Seq(Nat) /\ Len(file') = 0 /\ Headers(file') = {}
      /\ EntriesOf(file') = {}
  BY <1>1 DEF Headers, EntriesOf
<1>3. \A e : Covered(e)' = Covered(e) BY <1>1 DEF Covered, emitVars
<1>4. /\ present' \in BOOLEAN /\ ino' \in 1 .. MaxRotations + 1
      /\ truncations' \in 0 .. MaxTruncations
      /\ gen' = ino' - 1 + truncations' /\ (~present' => ino' <= MaxRotations)
  <2>1. /\ ino \in 1 .. MaxRotations + 1 /\ truncations \in 0 .. MaxTruncations
        /\ gen = ino - 1 + truncations /\ (~present => ino <= MaxRotations)
    BY DEF IInv, TypeOK
  <2>2. CASE Create
    <3>1. /\ ino <= MaxRotations /\ present' = TRUE /\ ino' = ino + 1
          /\ truncations' = truncations
      BY <2>1, <2>2 DEF Create
    <3>2. gen' = ino' - 1 + truncations' BY <1>1, <2>1, <3>1, Numbers
    <3>3. ino' \in 1 .. MaxRotations + 1 BY <2>1, <3>1, Numbers
    <3> QED BY <2>1, <3>1, <3>2, <3>3
  <2>3. CASE Truncate
    <3>1. /\ present' = TRUE /\ present /\ ino' = ino
          /\ truncations < MaxTruncations /\ truncations' = truncations + 1
      BY <2>3 DEF Truncate, IInv, TypeOK
    <3>2. gen' = ino' - 1 + truncations' BY <1>1, <2>1, <3>1, Numbers
    <3>3. truncations' \in 0 .. MaxTruncations BY <2>1, <3>1, Numbers
    <3> QED BY <2>1, <3>1, <3>2, <3>3
  <2> QED BY <2>2, <2>3
<1>5. gen \in Nat /\ gen + 1 \in Nat /\ gen + 1 < Lost
      /\ row_gen \in (0 .. gen) \cup {Lost} /\ Lost \in Nat
  <2>1. gen \in Nat /\ row_gen \in (0 .. gen) \cup {Lost}
    BY FileFacts DEF IInv, TypeOK
  <2>2. gen + 1 < Lost /\ Lost \in Nat
    <3>1. gen + 1 = ino' - 1 + truncations' BY <1>1, <1>4
    <3>2. /\ ino' \in Nat /\ ino' <= MaxRotations + 1
          /\ truncations' \in Nat /\ truncations' <= MaxTruncations
      BY <1>4, Numbers
    <3> QED BY <3>1, <3>2, Numbers DEF Lost
  <2> QED BY <2>1, <2>2
<1>6. TypeOK'
  <2>1. row_gen \in (0 .. gen + 1) \cup {Lost} BY <1>5
  <2> QED BY <1>1, <1>2, <1>4, <2>1 DEF IInv, TypeOK, cycleVars, emitVars
<1>7. LoggedInOrder' BY <1>1, <1>2, <1>3 DEF IInv, LoggedInOrder, emitVars
<1>8. CoveredIsBehind' BY <1>2 DEF CoveredIsBehind
<1>9. row_gen # gen + 1 BY <1>5
<1>10. RowAccounts' BY <1>1, <1>9 DEF RowAccounts
<1>11. JobStarts'
  <2> SUFFICES ASSUME pc # "idle" PROVE JobStarts'
    BY <1>1 DEF JobStarts, cycleVars
  <2>1. job.gen <= gen /\ job.gen \in Nat BY FileFacts DEF IInv, JobStarts
  <2>2. job.gen <= gen + 1 /\ job.gen # gen + 1 BY <1>5, <2>1
  <2>3. /\ job.pos \in {0, row.pos} /\ job.pos < job.size
        /\ job.end <= job.size /\ (~job.hold_back => job.end = job.size)
    BY DEF IInv, JobStarts
  <2>4. job' = job /\ row' = row BY <1>1 DEF cycleVars
  <2> QED BY <1>1, <1>2, <2>2, <2>3, <2>4 DEF JobStarts
<1>12. JobHolds' /\ CutsBetweenEntries'
  <2> SUFFICES ASSUME pc \in {"emit", "save"}
               PROVE  JobHolds' /\ CutsBetweenEntries'
    BY <1>1 DEF JobHolds, CutsBetweenEntries, cycleVars
  <2>1. /\ job.read_gen \in job.gen .. gen
        /\ job.upto = job.pos + Len(job.lines)
        /\ \A e \in EntriesOf(job.lines) :
             e \in 1 .. logged /\ (job.gen = job.read_gen => ~Covered(e))
    BY DEF IInv, JobHolds
  <2>2. job.gen \in Nat BY FileFacts
  <2>3. job.read_gen \in job.gen .. gen + 1 /\ job.read_gen # gen + 1
    BY <1>5, <2>1, <2>2
  <2>4. job' = job /\ logged' = logged BY <1>1 DEF cycleVars
  <2> QED
    BY <1>1, <1>2, <1>3, <2>1, <2>3, <2>4 DEF JobHolds, CutsBetweenEntries
<1>13. EmittedBeforeSaved'
  BY <1>1 DEF IInv, EmittedBeforeSaved, cycleVars, emitVars
<1> QED BY <1>6, <1>7, <1>8, <1>10, <1>11, <1>12, <1>13 DEF IInv

(* IInv is inductive: whatever the cycle, the server or a restart does.    *)
LEMMA NextInv == IInv /\ [Next]_vars => IInv'
<1> SUFFICES ASSUME IInv, [Next]_vars PROVE IInv' OBVIOUS
<1>1. CASE Cycle
  BY <1>1, ProcessLogFileInv, ParseRangeInv, ParseFailsInv, EmitInv,
     UpdateFileStateInv, OtherEndsInv
     DEF Cycle
<1>2. CASE retain_file_runtime \/ cleanup_blocking \/ process_remaining_content
  BY <1>2, RetainInv, CleanupInv, RemainingInv
<1>3. CASE Restart BY <1>3, OtherEndsInv
<1>4. CASE AppendEntry \/ AppendLine \/ Remove \/ Create \/ Truncate
  BY <1>4, AppendInv, RemoveInv, NewContentInv
<1>5. CASE UNCHANGED vars
  <2> USE <1>5 DEF vars
  <2>1. Headers(file)' = Headers(file) /\ \A e : Covered(e)' = Covered(e)
    BY DEF Headers, Covered, fileVars, emitVars
  <2>2. /\ TypeOK' /\ LoggedInOrder' /\ CoveredIsBehind' /\ RowAccounts'
    BY LedgerStays DEF cycleVars, IInv, TypeOK
  <2>3. JobStarts'
    BY <2>1 DEF IInv, JobStarts, cycleVars, fileVars
  <2>4. JobHolds' BY <2>1 DEF IInv, JobHolds, cycleVars, fileVars
  <2>5. EmittedBeforeSaved' /\ CutsBetweenEntries'
    BY DEF IInv, EmittedBeforeSaved, CutsBetweenEntries, cycleVars, fileVars,
           emitVars
  <2> QED BY <2>2, <2>3, <2>4, <2>5 DEF IInv
<1> QED BY <1>1, <1>2, <1>3, <1>4, <1>5 DEF Next

-----------------------------------------------------------------------------
(* Whatever fails, restarts, rotates or is given up, an entry is counted a *)
(* second time only behind an emission whose checkpoint was lost, or was   *)
(* taken of a file replaced between its stat and its read.                 *)
THEOREM CountedOnce == Spec => []EmittedOncePerCheckpoint
<1>1. IInv => EmittedOncePerCheckpoint
  <2> SUFFICES ASSUME IInv, NEW e \in Entries
               PROVE  emitted[e] <= 1 + unsaved[e]
    BY DEF EmittedOncePerCheckpoint
  <2>1. emitted[e] \in Int /\ unsaved[e] \in Int BY DEF IInv, TypeOK
  <2>2. emitted[e] - unsaved[e] \in {0, 1} BY DEF IInv, LoggedInOrder
  <2> QED BY <2>1, <2>2
<1> QED BY <1>1, InitInv, NextInv, PTL DEF Spec

(* A read that stops short of the end stops where an entry starts, and what*)
(* lies before the checkpoint, in the content it was computed in, was      *)
(* emitted or given up by a cap.                                           *)
THEOREM NothingLost == Spec => []NothingSkipped
<1>1. IInv => NothingSkipped
  BY DEF IInv, RowAccounts, NothingSkipped
<1> QED BY <1>1, InitInv, NextInv, PTL DEF Spec
-----------------------------------------------------------------------------
(* Where a read starts.  The rotation check sees a replaced file by its    *)
(* identity; it is no help to a file truncated in place that has outgrown  *)
(* its checkpoint, nor to process-rest, which does not ask.                *)
NoticedByIdentity == MaxTruncations = 0 /\ MaxRests = 0

(* A checkpoint carries the identity of the file it was taken of: what     *)
(* update_file_state stores always does, a give-up keeps the one it finds, *)
(* and finds none while the file has no row.                               *)
CheckpointsCarryIdentity == row.pos > 0 => row.ino # NoIno

(* A row with the identity of the file was computed in its content, and    *)
(* nothing is known of files to come.                                      *)
IdentityOfContent ==
  /\ rests = 0
  /\ row.ino <= ino /\ (row.ino = ino => row_gen = gen)
  /\ pc # "idle" =>
       /\ job.gen = job.ino - 1 /\ row.ino <= job.ino
       /\ job.gen = gen => job.pos = 0 \/ row_gen = gen

LEMMA IdentityInit == Init => IdentityOfContent
BY CollectorAssumption DEF Init, IdentityOfContent, NoRow, NoIno

(* What types and the state of the cycle say of identities.                *)
LEMMA IdentityFacts ==
  ASSUME NoticedByIdentity, IInv
  PROVE  /\ gen = ino - 1 /\ ino \in Nat \ {0} /\ truncations = 0
         /\ row.ino \in Nat /\ row.pos \in Nat /\ job.ino \in Nat
         /\ job.gen \in Nat /\ job.pos \in Nat
         /\ pc # "idle" => job.gen <= gen
         /\ pc \in {"emit", "save"} => job.read_gen \in job.gen .. gen
BY Numbers DEF IInv, TypeOK, NoticedByIdentity, Rows, Jobs, JobStarts, JobHolds

LEMMA IdentityNext ==
  ASSUME NoticedByIdentity
  PROVE  IInv /\ CheckpointsCarryIdentity /\ IdentityOfContent /\ [Next]_vars
           => IdentityOfContent'
<1> SUFFICES ASSUME IInv, CheckpointsCarryIdentity, IdentityOfContent,
                    [Next]_vars
             PROVE  IdentityOfContent'
  OBVIOUS
<1> USE IdentityFacts DEF IdentityOfContent, fileVars, cycleVars, boundVars
<1>1. CASE process_log_file
  <2> DEFINE pos == IF rotated THEN 0 ELSE row.pos
  <2>1. UNCHANGED <<fileVars, row, row_gen, boundVars>>
    BY <1>1 DEF process_log_file
  <2>2. CASE UNCHANGED cycleVars BY <2>1, <2>2
  <2>3. CASE pc' = "parse" /\ job'.pos = pos /\ job'.ino = ino /\ job'.gen = gen
    <3>1. pos = 0 \/ row_gen = gen
      BY DEF rotated, CheckpointsCarryIdentity, NoIno
    <3> QED BY <2>1, <2>3, <3>1
  <2> QED BY <1>1, <2>2, <2>3 DEF process_log_file, NoJob
<1>2. CASE parse_range_blocking
  <2>1. /\ UNCHANGED <<fileVars, row, row_gen, boundVars>> /\ pc # "idle"
        /\ \/ pc' = "idle"
           \/ /\ pc' = "emit" /\ job'.pos = job.pos /\ job'.gen = job.gen
              /\ job'.ino = job.ino
    BY <1>2 DEF parse_range_blocking, IInv, TypeOK, Jobs
  <2> QED BY <2>1
<1>3. CASE parse_fails
  <2>1. /\ UNCHANGED <<fileVars, rests>> /\ pc' = "idle" /\ pc = "parse"
        /\ \/ UNCHANGED <<row, row_gen>>
           \/ /\ row'.ino = row.ino
              /\ row_gen' = IF job.pos = 0 \/ row_gen = job.gen THEN job.gen
                            ELSE Lost
    BY <1>3 DEF parse_fails, given_up_row, IInv, TypeOK, Rows
  <2>2. row'.ino = row.ino /\ (row'.ino = ino => row_gen' = gen)
    BY <2>1
  <2> QED BY <2>1, <2>2
<1>4. CASE update_file_state
  <2>1. /\ UNCHANGED <<fileVars, boundVars>> /\ pc' = "idle" /\ pc = "save"
        /\ row'.ino = job.ino
        /\ row_gen' = IF job.pos = 0 \/ row_gen = job.read_gen
                      THEN job.read_gen ELSE Lost
    BY <1>4 DEF update_file_state, row_of
  <2>2. row'.ino <= ino /\ (row'.ino = ino => row_gen' = gen) BY <2>1
  <2> QED BY <2>1, <2>2
<1>5. CASE emit_query_metrics
  BY <1>5 DEF emit_query_metrics
<1>6. CASE \/ give_up_fails \/ record_query_hashes_fails
           \/ update_file_state_fails \/ retain_file_runtime \/ Restart
  BY <1>6 DEF give_up_fails, record_query_hashes_fails,
     update_file_state_fails, retain_file_runtime, Restart
<1>7. CASE cleanup_blocking
  BY <1>7 DEF cleanup_blocking, NoRow, NoIno
<1>8. CASE process_remaining_content
  BY <1>8, Numbers DEF process_remaining_content, NoticedByIdentity
<1>9. CASE AppendEntry \/ AppendLine \/ Remove
  BY <1>9 DEF AppendEntry, AppendLine, Remove
<1>10. CASE Create
  <2>1. /\ ino' = ino + 1 /\ gen' = gen + 1
        /\ UNCHANGED <<row, row_gen, cycleVars, boundVars>>
    BY <1>10 DEF Create
  <2> QED BY <2>1
<1>11. CASE Truncate
  BY <1>11 DEF Truncate, NoticedByIdentity
<1>12. CASE UNCHANGED vars BY <1>12 DEF vars
<1> QED BY <1>1, <1>2, <1>3, <1>4, <1>5, <1>6, <1>7, <1>8, <1>9, <1>10, <1>11,
           <1>12 DEF Next, Cycle

(* "A rotated file that has already outgrown the old checkpoint" is read   *)
(* from its head: where replacement is noticed by identity and no          *)
(* checkpoint lacks one, a read that starts further down starts at a       *)
(* checkpoint of this very content.                                        *)
THEOREM ResumesByIdentity ==
  ASSUME NoticedByIdentity
  PROVE  Spec /\ []CheckpointsCarryIdentity => []ResumesInItsFile
<1>1. IdentityOfContent => ResumesInItsFile
  BY DEF IdentityOfContent, ResumesInItsFile
<1>2. IInv /\ CheckpointsCarryIdentity /\ IdentityOfContent /\ [Next]_vars
        => IdentityOfContent'
  BY IdentityNext
<1> QED BY <1>1, <1>2, IdentityInit, InitInv, NextInv, PTL DEF Spec

(* A range is given up (the cap of the error branch) while no checkpoint   *)
(* has told which file the row is of.                                      *)
GivesUpUnidentified == parse_fails /\ row' # row /\ row.ino = NoIno

(* Nothing but such a give-up stores a checkpoint without an identity.     *)
LEMMA IdentityIsKept ==
  ASSUME NoticedByIdentity
  PROVE  IInv /\ IdentityOfContent /\ CheckpointsCarryIdentity
           /\ [Next]_vars /\ [~GivesUpUnidentified]_vars => CheckpointsCarryIdentity'
<1> SUFFICES ASSUME IInv, IdentityOfContent, CheckpointsCarryIdentity,
                    [Next]_vars, [~GivesUpUnidentified]_vars
             PROVE  CheckpointsCarryIdentity'
  OBVIOUS
<1>1. CASE UNCHANGED row BY <1>1 DEF CheckpointsCarryIdentity
<1>2. CASE parse_fails /\ row' # row
  <2>1. ~GivesUpUnidentified BY <1>2 DEF vars
  <2>2. row.ino # NoIno BY <1>2, <2>1 DEF GivesUpUnidentified
  <2>3. row'.ino = row.ino
    BY <1>2 DEF parse_fails, given_up_row, IInv, TypeOK, Rows
  <2> QED BY <2>2, <2>3 DEF CheckpointsCarryIdentity
<1>3. CASE update_file_state
  <2>1. row'.ino = job.ino /\ pc = "save" BY <1>3 DEF update_file_state, row_of
  <2>2. job.gen = job.ino - 1 /\ job.gen \in Nat /\ job.ino \in Nat
    BY <2>1, IdentityFacts DEF IdentityOfContent
  <2>3. job.ino # NoIno BY <2>2 DEF NoIno
  <2> QED BY <2>1, <2>3 DEF CheckpointsCarryIdentity
<1>4. CASE cleanup_blocking
  BY <1>4 DEF cleanup_blocking, NoRow, CheckpointsCarryIdentity
<1>5. parse_fails \/ update_file_state \/ cleanup_blocking \/ UNCHANGED row
  BY DEF Next, Cycle, process_log_file, parse_range_blocking, give_up_fails,
         emit_query_metrics, record_query_hashes_fails, update_file_state_fails,
         retain_file_runtime, process_remaining_content, Restart, AppendEntry,
         AppendLine, Remove, Create, Truncate, vars
<1> QED BY <1>1, <1>2, <1>3, <1>4, <1>5

(* For any log, budget, caps, failures, entries that cannot be parsed and  *)
(* crashes, and however many ranges are given up: a replaced file is read  *)
(* from its head, unless a range was given up of a file that had no        *)
(* checkpoint yet.                                                         *)
THEOREM ResumesUnlessUnidentified ==
  ASSUME NoticedByIdentity
  PROVE  Spec /\ [][~GivesUpUnidentified]_vars => []ResumesInItsFile
<1>1. IdentityOfContent => ResumesInItsFile
  BY DEF IdentityOfContent, ResumesInItsFile
<1>2. IInv /\ CheckpointsCarryIdentity /\ IdentityOfContent /\ [Next]_vars
        => IdentityOfContent'
  BY IdentityNext
<1>3. IInv /\ IdentityOfContent /\ CheckpointsCarryIdentity
        /\ [Next]_vars /\ [~GivesUpUnidentified]_vars => CheckpointsCarryIdentity'
  BY IdentityIsKept
<1>4. Init => CheckpointsCarryIdentity
  BY DEF Init, NoRow, CheckpointsCarryIdentity
<1> QED BY <1>1, <1>2, <1>3, <1>4, IdentityInit, InitInv, NextInv, PTL DEF Spec
=============================================================================
