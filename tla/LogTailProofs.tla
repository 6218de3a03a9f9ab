---------------------------- MODULE LogTailProofs ----------------------------
(***************************************************************************)
(* Proofs about LogTail for every size of the reads, the log and the       *)
(* number of entries, rotations and failures: the stored offset is the     *)
(* ledger of what is counted.                                              *)
(***************************************************************************)
EXTENDS LogTail, SequenceTheorems, FiniteSetTheorems, WellFoundedInduction,
        TLAPS

(* The types of the log, the tables and the cycle.                         *)
TypeOK ==
  /\ file \in Seq(Nat) /\ gen \in 0 .. MaxRotations
  /\ written \in 0 .. MaxEntries
  /\ byte_offset \in Nat /\ calls \in [Entries -> Nat]
  /\ tick \in {"idle", "read"} /\ text \in Seq(Nat)
  /\ new_offset \in Nat /\ read_gen \in 0 .. gen
  /\ offset_gen \in (0 .. gen) \cup {Lost}
  /\ given_up \subseteq Entries /\ failures \in Nat

(* An entry whose fate is decided: counted, or refused by the parser.      *)
Settled(e) == calls[e] > 0 \/ e \in given_up

(* The server numbers its entries in the order it writes them, and what is *)
(* settled has been written.                                               *)
WrittenInOrder ==
  /\ \A p \in Headers(file) : file[p] \in 1 .. written
  /\ \A p, q \in Headers(file) : p < q => file[p] < file[q]
  /\ \A e \in Entries : Settled(e) => e <= written

Untouched(from) == \A p \in Headers(file) : p > from => ~Settled(file[p])

(* Wherever a cycle would start, nothing behind it is settled: the offset  *)
(* is a place in the file, or the file is one the worker never read.       *)
NothingSettledAhead ==
  Untouched(0) \/ (byte_offset <= Len(file) /\ Untouched(byte_offset))

(* An offset computed in this file separates the settled from the rest.    *)
Ledger ==
  offset_gen = gen =>
    /\ byte_offset <= Len(file) /\ Untouched(byte_offset)
    /\ \A p \in Headers(file) : p <= byte_offset => Settled(file[p])

Start == new_offset - Len(text)

(* What a cycle holds, if its file is still there: the lines from Start to *)
(* new_offset, with a later header in the file.                            *)
HoldsLines ==
  /\ new_offset <= Len(file) /\ Untouched(Start)
  /\ \A i \in DOMAIN text : text[i] = file[Start + i]
  /\ offset_gen = gen => Start = byte_offset
  /\ Len(text) > 0 => \E r \in Headers(file) : r > new_offset

(* The same after a rotation: a file it never read.                        *)
HoldsOldLines ==
  /\ Untouched(0)
  /\ EntriesOf(text) \cap EntriesOf(file) = {}

CycleInv ==
  IF tick = "idle" THEN text = <<>>
  ELSE /\ Len(text) <= new_offset
       /\ \A e \in EntriesOf(text) : e \in 1 .. written /\ ~Settled(e)
       /\ IF read_gen = gen THEN HoldsLines ELSE HoldsOldLines

IInv ==
  /\ TypeOK /\ WrittenInOrder /\ CountedAtMostOnce /\ WholeEntriesOnly
  /\ NothingSettledAhead /\ Ledger /\ CycleInv
-----------------------------------------------------------------------------
(* A nonempty set of numbers below a bound has a largest element.          *)
LEMMA MaxOfNaturals ==
  ASSUME NEW n \in Nat, NEW S \in SUBSET (0 .. n), S # {}
  PROVE  Max(S) \in S /\ \A x \in S : Max(S) >= x
<1> DEFINE T == {n - x : x \in S}
<1>1. T \subseteq Nat /\ T # {}
  <2>1. \A x \in S : n - x \in Nat OBVIOUS
  <2>2. PICK x \in S : TRUE OBVIOUS
  <2>3. n - x \in T OBVIOUS
  <2> QED BY <2>1, <2>3
<1>2. PICK t \in T : \A y \in T : ~(<<y, t>> \in OpToRel(<, Nat))
  <2> HIDE DEF T
  <2> QED BY <1>1, NatLessThanWellFounded, WFMin
<1>3. PICK x \in S : t = n - x OBVIOUS
<1>4. \A y \in S : x >= y
  <2> SUFFICES ASSUME NEW y \in S PROVE x >= y OBVIOUS
  <2>1. n - y \in T /\ n - y \in Nat /\ t \in Nat OBVIOUS
  <2>2. ~(n - y < t)
    <3> HIDE DEF T
    <3> QED BY <1>2, <2>1 DEF OpToRel
  <2> QED BY <2>2, <1>3
<1> QED BY <1>4 DEF Max

(* The boundary of a chunk is in it, and the line behind it is a header.   *)
LEMMA BoundaryBeforeHeader ==
  ASSUME NEW lines \in Seq(Nat)
  PROVE  LET b == last_complete_boundary(lines)
         IN b \in 0 .. Len(lines) /\ (b > 0 => b + 1 \in Headers(lines))
<1> DEFINE H == Headers(lines)
<1>1. Len(lines) \in Nat /\ H \subseteq 1 .. Len(lines)
  BY LenProperties DEF Headers
<1>2. CASE Cardinality(H) < 2
  BY <1>1, <1>2 DEF last_complete_boundary
<1>3. CASE ~(Cardinality(H) < 2)
  <2>1. H # {}
    <3> SUFFICES ASSUME H = {} PROVE FALSE OBVIOUS
    <3>1. Cardinality(H) = 0
      <4> HIDE DEF H
      <4> QED BY FS_EmptySet
    <3> QED BY <3>1, <1>3
  <2>2. Max(H) \in H
    <3>1. H \in SUBSET (0 .. Len(lines)) BY <1>1
    <3> HIDE DEF H
    <3> QED BY <1>1, <2>1, <3>1, MaxOfNaturals
  <2>3. last_complete_boundary(lines) = Max(H) - 1
    BY <1>3 DEF last_complete_boundary
  <2> HIDE DEF H
  <2>4. last_complete_boundary(lines) \in 0 .. Len(lines)
        /\ last_complete_boundary(lines) + 1 \in H
    <3>1. Max(H) \in 1 .. Len(lines) BY <1>1, <2>2
    <3>2. PICK m \in H : m = Max(H) BY <2>2
    <3>3. last_complete_boundary(lines) = m - 1 BY <2>3, <3>2
    <3>4. m \in 1 .. Len(lines) BY <3>1, <3>2
    <3>5. m - 1 \in 0 .. Len(lines) /\ (m - 1) + 1 = m BY <3>4, <1>1
    <3> QED BY <3>2, <3>3, <3>5
  <2> QED BY <2>4 DEF H
<1> QED BY <1>2, <1>3

(* What a read takes: the lines of the file from where it starts.          *)
LEMMA ChunkIsOfFile ==
  ASSUME file \in Seq(Nat), NEW start \in 0 .. Len(file)
  PROVE  /\ chunk(start) \in Seq(Nat)
         /\ start + Len(chunk(start)) <= Len(file)
         /\ \A i \in 1 .. Len(chunk(start)) :
              chunk(start)[i] = file[start + i]
<1>1. Len(file) \in Nat /\ \A i \in 1 .. Len(file) : file[i] \in Nat
  BY LenProperties, ElementOfSeq
<1>2. MaxReadLines \in Nat BY LogTailAssumption
<1> DEFINE m == Min({Len(file), start + MaxReadLines})
<1>3. m \in Nat /\ m <= Len(file) /\ start <= m
  <2>1. \E x \in {Len(file), start + MaxReadLines} :
          \A y \in {Len(file), start + MaxReadLines} : x =< y
    BY <1>1, <1>2
  <2>2. /\ m \in {Len(file), start + MaxReadLines}
        /\ \A y \in {Len(file), start + MaxReadLines} : m =< y
    BY <2>1 DEF Min
  <2> HIDE DEF m
  <2> QED BY <1>1, <1>2, <2>2
<1>4. \A i \in start + 1 .. m : file[i] \in Nat BY <1>1, <1>3
<1>5. chunk(start) = SubSeq(file, start + 1, m) BY DEF chunk
<1> HIDE DEF m
<1>6. /\ chunk(start) \in Seq(Nat)
      /\ Len(chunk(start)) = m - start
      /\ \A i \in 1 .. m - start : chunk(start)[i] = file[start + i]
  <2>1. start + 1 \in Int /\ m \in Int BY <1>3
  <2>2. /\ SubSeq(file, start + 1, m) \in Seq(Nat)
        /\ Len(SubSeq(file, start + 1, m))
             = IF start + 1 <= m THEN m - (start + 1) + 1 ELSE 0
        /\ \A i \in 1 .. m - (start + 1) + 1 :
             SubSeq(file, start + 1, m)[i] = file[start + 1 + i - 1]
    BY <2>1, <1>4, SubSeqProperties
  <2>3. \A i \in 1 .. m - start : start + 1 + i - 1 = start + i BY <1>3
  <2> QED BY <1>3, <1>5, <2>2, <2>3
<1> QED BY <1>3, <1>6

(* The prefix of a sequence.                                               *)
LEMMA PrefixOf ==
  ASSUME NEW s \in Seq(Nat), NEW n \in 0 .. Len(s)
  PROVE  /\ SubSeq(s, 1, n) \in Seq(Nat) /\ Len(SubSeq(s, 1, n)) = n
         /\ \A i \in 1 .. n : SubSeq(s, 1, n)[i] = s[i]
<1>1. Len(s) \in Nat /\ \A i \in 1 .. n : s[i] \in Nat
  BY LenProperties, ElementOfSeq
<1> QED BY <1>1, SubSeqProperties

(* One more line at the end of the log.                                    *)
LEMMA AppendedLine ==
  ASSUME NEW s \in Seq(Nat), NEW n \in Nat
  PROVE  /\ Append(s, n) \in Seq(Nat) /\ Len(Append(s, n)) = Len(s) + 1
         /\ Append(s, n)[Len(s) + 1] = n
         /\ \A p \in 1 .. Len(s) : Append(s, n)[p] = s[p]
         /\ Headers(Append(s, n))
              = Headers(s) \cup (IF n = 0 THEN {} ELSE {Len(s) + 1})
<1>1. /\ Append(s, n) \in Seq(Nat) /\ Len(Append(s, n)) = Len(s) + 1
      /\ Append(s, n)[Len(s) + 1] = n
      /\ \A p \in 1 .. Len(s) : Append(s, n)[p] = s[p]
  BY AppendProperties
<1>2. Len(s) \in Nat /\ DOMAIN s = 1 .. Len(s)
      /\ DOMAIN Append(s, n) = 1 .. Len(s) + 1
  BY <1>1, LenProperties
<1> QED BY <1>1, <1>2 DEF Headers
-----------------------------------------------------------------------------
(* The start: an empty log, nothing counted, the offset at its beginning.  *)
LEMMA InitInv == Init => IInv
<1> SUFFICES ASSUME Init PROVE IInv OBVIOUS
<1>1. <<>> \in Seq(Nat) /\ Len(<<>>) = 0 /\ Headers(<<>>) = {}
  BY EmptySeq DEF Headers
<1>2. TypeOK BY <1>1, LogTailAssumption DEF Init, TypeOK
<1>3. Headers(file) = {} /\ text = <<>> /\ tick = "idle"
      /\ byte_offset = 0 /\ Len(file) = 0
  BY <1>1 DEF Init
<1>4. \A e \in Entries : calls[e] = 0 /\ ~Settled(e) BY DEF Init, Settled
<1> QED BY <1>2, <1>3, <1>4
        DEF IInv, WrittenInOrder, CountedAtMostOnce, WholeEntriesOnly,
            NothingSettledAhead, Untouched, Ledger, CycleInv, EntriesOf, Headers

(* Facts about the log that every step uses.                               *)
LEMMA LogFacts ==
  ASSUME IInv
  PROVE  /\ Len(file) \in Nat /\ DOMAIN file = 1 .. Len(file)
         /\ Headers(file) \subseteq 1 .. Len(file)
         /\ \A p \in Headers(file) : file[p] \in Entries
         /\ \A p, q \in Headers(file) : file[p] = file[q] => p = q
         /\ Len(text) \in Nat /\ DOMAIN text = 1 .. Len(text)
         /\ Headers(text) \subseteq 1 .. Len(text)
         /\ MaxEntries \in Nat /\ MaxRotations \in Nat
<1>1. /\ Len(file) \in Nat /\ DOMAIN file = 1 .. Len(file)
      /\ Len(text) \in Nat /\ DOMAIN text = 1 .. Len(text)
  BY LenProperties DEF IInv, TypeOK
<1>2. MaxEntries \in Nat /\ MaxRotations \in Nat BY LogTailAssumption
<1>3. \A p \in Headers(file) : file[p] \in Entries
  BY <1>2 DEF IInv, TypeOK, WrittenInOrder, Entries
<1>4. \A p, q \in Headers(file) : file[p] = file[q] => p = q
  <2> SUFFICES ASSUME NEW p \in Headers(file), NEW q \in Headers(file),
                      file[p] = file[q], p # q
               PROVE  FALSE
    OBVIOUS
  <2>1. p \in Nat /\ q \in Nat BY <1>1 DEF Headers
  <2>2. p < q \/ q < p BY <2>1
  <2>3. file[p] < file[q] \/ file[q] < file[p]
    BY <2>2 DEF IInv, WrittenInOrder
  <2> QED BY <2>3, <1>3 DEF Entries
<1> QED BY <1>1, <1>2, <1>3, <1>4 DEF Headers

(* A cycle takes complete, unsettled entries: it stops before a header.    *)
LEMMA ReadInv == IInv /\ read_new_complete => IInv'
<1> SUFFICES ASSUME IInv, read_new_complete PROVE IInv' OBVIOUS
<1> DEFINE start == start_of(byte_offset)
           buf == chunk(start)
           b == last_complete_boundary(buf)
<1>1. /\ text' = SubSeq(buf, 1, b) /\ new_offset' = start + b
      /\ read_gen' = gen /\ tick = "idle" /\ tick' = "read"
  BY DEF read_new_complete
<1>2. UNCHANGED <<logVars, dbVars, histVars>> BY DEF read_new_complete
<1>3. start \in 0 .. Len(file) /\ Untouched(start)
  BY LogFacts
     DEF start_of, IInv, TypeOK, NothingSettledAhead, Untouched, Headers
<1>4. offset_gen = gen => start = byte_offset
  BY LogFacts DEF start_of, IInv, Ledger, TypeOK
<1>5. /\ buf \in Seq(Nat) /\ start + Len(buf) <= Len(file)
      /\ \A i \in 1 .. Len(buf) : buf[i] = file[start + i]
  BY <1>3, ChunkIsOfFile DEF IInv, TypeOK
<1>6. Len(buf) \in Nat /\ DOMAIN buf = 1 .. Len(buf) BY <1>5, LenProperties
<1>7. b \in 0 .. Len(buf) /\ (b > 0 => b + 1 \in Headers(buf))
  BY <1>5, BoundaryBeforeHeader
<1> HIDE DEF start, buf, b
<1>8. /\ text' \in Seq(Nat) /\ Len(text') = b
      /\ \A i \in 1 .. b : text'[i] = file[start + i]
      /\ DOMAIN text' = 1 .. b
  <2>1. /\ text' \in Seq(Nat) /\ Len(text') = b
        /\ \A i \in 1 .. b : text'[i] = buf[i]
    BY <1>1, <1>5, <1>7, PrefixOf
  <2>2. DOMAIN text' = 1 .. b BY <2>1, LenProperties
  <2>3. \A i \in 1 .. b : i \in 1 .. Len(buf) BY <1>6, <1>7
  <2> QED BY <2>1, <2>2, <2>3, <1>5
<1>9. /\ start' = start /\ Start' = start
      /\ new_offset' \in Nat /\ new_offset' <= Len(file)
  <2>1. start' = start BY <1>2 DEF start, start_of, logVars, dbVars
  <2>2. start \in Nat /\ b \in Nat BY <1>3, <1>7
  <2> QED BY <2>1, <2>2, <1>1, <1>3, <1>5, <1>6, <1>7, <1>8, LogFacts DEF Start
<1>10. \A i \in Headers(text') :
         /\ i \in 1 .. b /\ text'[i] = file[start + i]
         /\ start + i \in Headers(file) /\ start + i > start
         /\ start + i <= new_offset'
  <2> SUFFICES ASSUME NEW i \in Headers(text')
               PROVE  /\ i \in 1 .. b /\ text'[i] = file[start + i]
                      /\ start + i \in Headers(file) /\ start + i > start
                      /\ start + i <= new_offset'
    OBVIOUS
  <2>1. i \in 1 .. b /\ text'[i] # 0 BY <1>8 DEF Headers
  <2>2. text'[i] = file[start + i] BY <2>1, <1>8
  <2>3. start + i \in 1 .. Len(file)
    BY <2>1, <1>3, <1>5, <1>6, <1>7, LogFacts
  <2>4. start + i \in Headers(file) BY <2>1, <2>2, <2>3, LogFacts DEF Headers
  <2> QED BY <2>1, <2>2, <2>4, <1>1, <1>3, <1>7
<1>11. b > 0 => \E r \in Headers(file) : r > new_offset'
  <2> SUFFICES ASSUME b > 0 PROVE start + b + 1 \in Headers(file)
                                  /\ start + b + 1 > new_offset'
    OBVIOUS
  <2>1. b + 1 \in 1 .. Len(buf) /\ buf[b + 1] # 0
    BY <1>6, <1>7 DEF Headers
  <2>2. file[start + b + 1] # 0
    <3>1. buf[b + 1] = file[start + (b + 1)] BY <2>1, <1>5
    <3>2. start + (b + 1) = start + b + 1 BY <1>3, <1>7
    <3> QED BY <2>1, <3>1, <3>2
  <2>3. start + b + 1 \in 1 .. Len(file)
    BY <2>1, <1>3, <1>5, <1>6, <1>7, LogFacts
  <2> QED BY <2>2, <2>3, <1>1, <1>3, <1>7, LogFacts DEF Headers
<1>12. TypeOK'
  BY <1>1, <1>2, <1>8, <1>9
     DEF IInv, TypeOK, logVars, dbVars, histVars
<1>13. /\ WrittenInOrder' /\ CountedAtMostOnce' /\ NothingSettledAhead'
       /\ Ledger'
  BY <1>2 DEF IInv, WrittenInOrder, CountedAtMostOnce, NothingSettledAhead,
              Ledger, Untouched, Settled, Headers, logVars, dbVars, histVars
<1>14. \A e \in EntriesOf(text') : e \in 1 .. written /\ ~Settled(e)
  <2> SUFFICES ASSUME NEW i \in Headers(text')
               PROVE  text'[i] \in 1 .. written /\ ~Settled(text'[i])
    BY DEF EntriesOf
  <2> QED BY <1>3, <1>10 DEF Untouched, IInv, WrittenInOrder
<1>15. WholeEntriesOnly'
  <2> SUFFICES ASSUME NEW p \in Headers(file),
                      calls[file[p]] > 0 \/ file[p] \in EntriesOf(text')
               PROVE  \E r \in Headers(file) : r > p
    BY <1>2 DEF WholeEntriesOnly, logVars, dbVars
  <2>1. CASE calls[file[p]] > 0
    BY <2>1 DEF IInv, WholeEntriesOnly
  <2>2. CASE file[p] \in EntriesOf(text')
    <3>1. PICK i \in Headers(text') : file[p] = text'[i]
      BY <2>2 DEF EntriesOf
    <3>2. p = start + i BY <3>1, <1>10, LogFacts
    <3>3. b > 0 /\ p <= new_offset' BY <3>2, <1>10, <1>7
    <3>4. PICK r \in Headers(file) : r > new_offset' BY <3>3, <1>11
    <3>5. r \in Nat /\ p \in Nat BY LogFacts
    <3> QED BY <3>3, <3>4, <3>5, <1>9
  <2> QED BY <2>1, <2>2
<1>16. CycleInv'
  <2>1. UNCHANGED <<file, gen, written, byte_offset, calls, offset_gen, given_up>>
    BY <1>2 DEF logVars, dbVars, histVars
  <2>2. HoldsLines'
    BY <2>1, <1>3, <1>4, <1>8, <1>9, <1>11
       DEF HoldsLines, Untouched, Settled, Headers
  <2>3. Len(text') <= new_offset' BY <1>1, <1>3, <1>7, <1>8
  <2>4. \A e \in EntriesOf(text') : (e \in 1 .. written /\ ~Settled(e))'
    BY <2>1, <1>14 DEF Settled
  <2> QED BY <2>1, <2>2, <2>3, <2>4, <1>1 DEF CycleInv, EntriesOf, Headers
<1> QED BY <1>12, <1>13, <1>15, <1>16 DEF IInv

(* The commit: the offset moves past what is settled by the same step.     *)
LEMMA CommitInv == IInv /\ flush_cycle => IInv'
<1> SUFFICES ASSUME IInv, flush_cycle PROVE IInv' OBVIOUS
<1> DEFINE es == EntriesOf(text)
           settles(e) == calls'[e] > 0 \/ e \in given_up'
<1>1. /\ tick = "read" /\ tick' = "idle" /\ text' = <<>> /\ new_offset' = 0
      /\ byte_offset' = new_offset /\ read_gen' = read_gen
      /\ failures' = failures
      /\ UNCHANGED <<file, gen, written>>
      /\ offset_gen' = IF new_offset = Len(text) \/ offset_gen = read_gen
                       THEN read_gen ELSE Lost
  BY DEF flush_cycle, logVars
<1>2. /\ Len(text) <= new_offset
      /\ \A e \in es : e \in 1 .. written /\ ~Settled(e)
      /\ IF read_gen = gen THEN HoldsLines ELSE HoldsOldLines
  BY <1>1 DEF IInv, CycleInv
<1>3. \A e \in es : e \in Entries /\ calls[e] = 0
  BY <1>2, LogFacts DEF IInv, TypeOK, Settled, Entries
<1>4. /\ calls' \in [Entries -> Nat] /\ given_up' \subseteq Entries
      /\ \A e \in Entries :
           /\ calls'[e] <= 1
           /\ calls'[e] > 0 => calls[e] > 0 \/ e \in es
           /\ settles(e) <=> Settled(e) \/ e \in es
  <2>1. CASE text = <<>> /\ UNCHANGED <<calls, given_up>>
    <3>1. es = {} BY <2>1 DEF EntriesOf, Headers
    <3> QED BY <2>1, <3>1
            DEF IInv, TypeOK, CountedAtMostOnce, Settled
  <2>2. CASE calls' = Counted(es) /\ UNCHANGED given_up
    <3>1. calls' \in [Entries -> Nat]
      BY <2>2 DEF IInv, TypeOK, Counted
    <3>2. \A e \in Entries :
            calls'[e] = calls[e] + (IF e \in es THEN 1 ELSE 0)
            /\ calls[e] \in Nat
      BY <2>2 DEF IInv, TypeOK, Counted
    <3> HIDE DEF es
    <3> QED BY <2>2, <3>1, <3>2, <1>3
            DEF IInv, TypeOK, CountedAtMostOnce, Settled
  <2>3. CASE given_up' = given_up \cup es /\ UNCHANGED calls
    BY <2>3, <1>3 DEF IInv, TypeOK, CountedAtMostOnce, Settled
  <2> QED BY <2>1, <2>2, <2>3 DEF flush_cycle
<1>5. TypeOK'
  <2>1. <<>> \in Seq(Nat) BY EmptySeq
  <2> QED BY <1>1, <1>4, <2>1, LogFacts DEF IInv, TypeOK
<1>6. WrittenInOrder'
  <2>1. \A e \in Entries : settles(e) => e <= written
    <3> HIDE DEF settles
    <3> QED BY <1>2, <1>4 DEF IInv, WrittenInOrder
  <2> QED BY <2>1, <1>1 DEF IInv, WrittenInOrder, Headers, Settled
<1>7. CountedAtMostOnce' BY <1>4 DEF CountedAtMostOnce
<1>8. WholeEntriesOnly'
  <2> SUFFICES ASSUME NEW p \in Headers(file), calls'[file[p]] > 0
               PROVE  \E r \in Headers(file) : r > p
    BY <1>1 DEF WholeEntriesOnly, EntriesOf, Headers
  <2>1. file[p] \in Entries BY LogFacts
  <2>2. calls[file[p]] > 0 \/ file[p] \in EntriesOf(text) BY <1>4, <2>1
  <2> QED BY <2>2 DEF IInv, WholeEntriesOnly
<1> HIDE DEF settles
(* The file the cycle read: what it held is now before the offset.         *)
<1>9. CASE read_gen = gen
  <2>1. HoldsLines BY <1>2, <1>9
  <2>2. new_offset \in Nat /\ Start \in Nat /\ Start + Len(text) = new_offset
    BY <1>2, LogFacts DEF IInv, TypeOK, Start
  <2>3. \A p \in Headers(file) : p > new_offset => file[p] \notin es
    <3> SUFFICES ASSUME NEW p \in Headers(file), p > new_offset,
                        NEW i \in Headers(text), file[p] = text[i]
                 PROVE  FALSE
      BY DEF EntriesOf
    <3>1. i \in 1 .. Len(text) /\ text[i] = file[Start + i] /\ text[i] # 0
      BY <2>1, LogFacts DEF HoldsLines, Headers
    <3>2. Start + i \in Headers(file)
      BY <3>1, <2>1, <2>2, LogFacts DEF HoldsLines, Headers
    <3> QED BY <3>1, <3>2, <2>2, LogFacts
  <2>4. Untouched(byte_offset)'
    <3> SUFFICES ASSUME NEW p \in Headers(file), p > new_offset
                 PROVE  ~settles(file[p])
      BY <1>1 DEF Untouched, Settled, settles, Headers
    <3>1. p > Start BY <2>2, LogFacts
    <3>2. ~Settled(file[p]) BY <3>1, <2>1 DEF HoldsLines, Untouched
    <3> QED BY <3>2, <2>3, <1>4, LogFacts
  <2>5. (byte_offset <= Len(file))' BY <1>1, <2>1 DEF HoldsLines
  <2>6. Ledger'
    <3> SUFFICES ASSUME offset_gen' = gen, NEW p \in Headers(file),
                        p <= new_offset
                 PROVE  settles(file[p])
      BY <2>4, <2>5, <1>1 DEF Ledger, Untouched, Settled, settles, Headers
    <3>1. Start = 0 \/ offset_gen = gen
      BY <1>1, <1>9, <2>2, LogFacts DEF Lost, IInv, TypeOK
    <3>2. CASE p <= Start
      <4>1. p > 0 BY LogFacts
      <4>2. offset_gen = gen /\ p <= byte_offset
        BY <3>1, <3>2, <4>1, <2>1, <2>2, LogFacts DEF HoldsLines
      <4>3. Settled(file[p]) BY <4>2 DEF IInv, Ledger
      <4> QED BY <4>3, <1>4, LogFacts
    <3>3. CASE p > Start
      <4>1. p - Start \in 1 .. Len(text) /\ Start + (p - Start) = p
        BY <3>3, <2>2, LogFacts
      <4>2. text[p - Start] = file[p] /\ file[p] # 0
        <5>1. text[p - Start] = file[Start + (p - Start)]
          BY <4>1, <2>1, LogFacts DEF HoldsLines
        <5>2. file[p] # 0 BY DEF Headers
        <5> QED BY <5>1, <5>2, <4>1
      <4>3. file[p] \in es
        BY <4>1, <4>2, LogFacts DEF EntriesOf, Headers
      <4> QED BY <4>3, <1>4, LogFacts
    <3> QED BY <3>2, <3>3, <2>2, LogFacts
  <2>7. NothingSettledAhead' BY <2>4, <2>5 DEF NothingSettledAhead
  <2>8. CycleInv' BY <1>1 DEF CycleInv
  <2> QED BY <1>5, <1>6, <1>7, <1>8, <2>6, <2>7, <2>8 DEF IInv
(* A file that was replaced meanwhile: nothing of the new one is settled.  *)
<1>10. CASE read_gen # gen
  <2>1. HoldsOldLines BY <1>2, <1>10
  <2>2. Untouched(0)'
    <3> SUFFICES ASSUME NEW p \in Headers(file) PROVE ~settles(file[p])
      BY <1>1 DEF Untouched, Settled, settles, Headers
    <3>1. ~Settled(file[p])
      BY <2>1, LogFacts DEF HoldsOldLines, Untouched
    <3>2. file[p] \notin es BY <2>1 DEF HoldsOldLines, EntriesOf
    <3> QED BY <3>1, <3>2, <1>4, LogFacts
  <2>3. offset_gen' # gen'
    BY <1>1, <1>10, LogFacts DEF Lost, IInv, TypeOK
  <2>4. Ledger' BY <2>3 DEF Ledger
  <2>5. NothingSettledAhead' BY <2>2 DEF NothingSettledAhead
  <2>6. CycleInv' BY <1>1 DEF CycleInv
  <2> QED BY <1>5, <1>6, <1>7, <1>8, <2>4, <2>5, <2>6 DEF IInv
<1> QED BY <1>9, <1>10

(* A failed cycle leaves everything as it was committed.                   *)
LEMMA FailureInv == IInv /\ flush_fails => IInv'
<1> SUFFICES ASSUME IInv, flush_fails PROVE IInv' OBVIOUS
<1>1. /\ tick' = "idle" /\ text' = <<>> /\ new_offset' = 0
      /\ failures' = failures + 1
      /\ UNCHANGED <<file, gen, written, byte_offset, calls, read_gen,
                     offset_gen, given_up>>
  BY DEF flush_fails, undone, logVars
<1>2. TypeOK'
  <2>1. <<>> \in Seq(Nat) BY EmptySeq
  <2> QED BY <1>1, <2>1 DEF IInv, TypeOK
<1>3. /\ WrittenInOrder' /\ CountedAtMostOnce' /\ NothingSettledAhead'
      /\ Ledger'
  BY <1>1 DEF IInv, WrittenInOrder, CountedAtMostOnce, NothingSettledAhead,
              Ledger, Untouched, Settled, Headers
<1>4. WholeEntriesOnly'
  BY <1>1 DEF IInv, WholeEntriesOnly, EntriesOf, Headers
<1>5. CycleInv' BY <1>1 DEF CycleInv
<1> QED BY <1>2, <1>3, <1>4, <1>5 DEF IInv

(* What an append of a header or of another line does to the invariant:    *)
(* the line is behind everything the worker has or will have read.         *)
LEMMA AppendInv ==
  ASSUME IInv, NEW n \in {0, written + 1},
         file' = Append(file, n), n = 0 => written' = written,
         n # 0 => written' = n /\ written < MaxEntries,
         UNCHANGED <<gen, dbVars, cycleVars, histVars>>
  PROVE  IInv'
<1> DEFINE last == Len(file) + 1
<1>1. UNCHANGED <<gen, byte_offset, calls, tick, text, new_offset, read_gen,
                  offset_gen, given_up, failures>>
  BY DEF dbVars, cycleVars, histVars
<1>2. written \in Nat /\ n \in Nat /\ written <= written'
      /\ written' \in 0 .. MaxEntries
  BY LogFacts DEF IInv, TypeOK
<1>3. /\ file' \in Seq(Nat) /\ Len(file') = Len(file) + 1
      /\ file'[last] = n
      /\ \A p \in 1 .. Len(file) : file'[p] = file[p]
      /\ Headers(file')
           = Headers(file) \cup (IF n = 0 THEN {} ELSE {last})
  BY <1>2, AppendedLine DEF IInv, TypeOK
<1>4. \A e \in Entries : Settled(e)' <=> Settled(e) BY <1>1 DEF Settled
<1>5. n # 0 => n = written + 1 /\ n \in Entries /\ ~Settled(n)
  <2>1. n # 0 => n = written + 1 /\ n \in Entries
    BY <1>2 DEF Entries
  <2>2. n # 0 => ~(n <= written) BY <2>1, <1>2
  <2> QED BY <2>1, <2>2 DEF IInv, WrittenInOrder
<1>6. \A p \in Headers(file) :
        /\ p \in Headers(file') /\ file'[p] = file[p] /\ p < last
        /\ file[p] \in Entries /\ file[p] <= written
  BY <1>3, LogFacts DEF IInv, WrittenInOrder
<1>7. \A p \in Headers(file') :
        p \in Headers(file) \/ (p = last /\ n # 0 /\ file'[p] = n)
  BY <1>3
<1> HIDE DEF last
<1>8. TypeOK' BY <1>1, <1>2, <1>3 DEF IInv, TypeOK
<1>9. WrittenInOrder'
  <2>1. \A p \in Headers(file') : file'[p] \in 1 .. written'
    <3> TAKE p \in Headers(file')
    <3>1. CASE p \in Headers(file)
      <4>1. file[p] \in 1 .. written BY <3>1 DEF IInv, WrittenInOrder
      <4>2. file'[p] = file[p] BY <3>1, <1>6
      <4>3. written' \in Nat BY <1>2, LogFacts
      <4> QED BY <4>1, <4>2, <4>3, <1>2
    <3>2. CASE p = last /\ n # 0 /\ file'[p] = n BY <3>2, <1>2, <1>5
    <3> QED BY <3>1, <3>2, <1>7
  <2>2. \A p, q \in Headers(file') : p < q => file'[p] < file'[q]
    <3> SUFFICES ASSUME NEW p \in Headers(file'), NEW q \in Headers(file'),
                        p < q
                 PROVE  file'[p] < file'[q]
      OBVIOUS
    <3>1. last \in Nat BY LogFacts DEF last
    <3>2. p \in Headers(file)
      <4> SUFFICES ASSUME p = last PROVE FALSE BY <1>7
      <4>1. q <= last BY <1>6, <1>7, <3>1, LogFacts
      <4>2. q \in Nat BY <1>7, <3>1, LogFacts
      <4> QED BY <4>1, <4>2, <3>1
    <3>3. CASE q \in Headers(file)
      <4>1. file[p] < file[q] BY <3>2, <3>3 DEF IInv, WrittenInOrder
      <4> QED BY <4>1, <3>2, <3>3, <1>6
    <3>4. CASE q = last /\ n # 0 /\ file'[q] = n
      <4>1. file'[p] = file[p] /\ file[p] <= written
        BY <3>2, <1>6
      <4>2. file[p] \in Nat BY <3>2, LogFacts DEF Entries
      <4>3. file'[q] = written + 1 BY <3>4, <1>5
      <4> QED BY <4>1, <4>2, <4>3, <1>2
    <3> QED BY <3>3, <3>4, <1>7
  <2>3. \A e \in Entries : Settled(e)' => e <= written'
    <3> TAKE e \in Entries
    <3>1. Settled(e) => e <= written BY DEF IInv, WrittenInOrder
    <3>2. e \in Nat BY DEF Entries
    <3> QED BY <3>1, <3>2, <1>1, <1>2 DEF Settled
  <2> QED BY <2>1, <2>2, <2>3, <1>1 DEF WrittenInOrder, Settled
<1>10. CountedAtMostOnce' BY <1>1 DEF IInv, CountedAtMostOnce
(* The new line is not settled, so what was ahead and unsettled stays so.  *)
<1>11. \A p \in Headers(file') :
         Settled(file'[p]) => p \in Headers(file) /\ Settled(file[p])
  BY <1>5, <1>6, <1>7
<1>12. /\ Untouched(0) => Untouched(0)'
       /\ Untouched(byte_offset) => Untouched(byte_offset)'
       /\ Untouched(Start) => Untouched(Start)'
  BY <1>1, <1>6, <1>11 DEF Untouched, Settled, Start
<1>13. NothingSettledAhead'
  BY <1>1, <1>3, <1>12, LogFacts DEF IInv, NothingSettledAhead, TypeOK
<1>14. Ledger'
  <2> SUFFICES ASSUME offset_gen = gen
               PROVE  /\ (byte_offset <= Len(file))'
                      /\ Untouched(byte_offset)'
                      /\ \A p \in Headers(file') :
                           p <= byte_offset => Settled(file'[p])
    BY <1>1 DEF Ledger, Settled
  <2>1. /\ byte_offset <= Len(file) /\ Untouched(byte_offset)
        /\ \A p \in Headers(file) : p <= byte_offset => Settled(file[p])
    BY DEF IInv, Ledger
  <2>2. byte_offset \in Nat /\ ~(last <= byte_offset)
    BY <2>1, LogFacts DEF IInv, TypeOK, last
  <2>3. (byte_offset <= Len(file))' BY <1>1, <1>3, <2>1, <2>2, LogFacts
  <2> QED BY <2>1, <2>2, <2>3, <1>6, <1>7, <1>12
<1>15. WholeEntriesOnly'
  <2> SUFFICES ASSUME NEW p \in Headers(file'),
                      calls[file'[p]] > 0 \/ file'[p] \in EntriesOf(text)
               PROVE  \E r \in Headers(file') : r > p
    BY <1>1 DEF WholeEntriesOnly, EntriesOf, Headers
  <2>1. \A e \in EntriesOf(text) : e <= written /\ e \in Nat
    <3>1. CASE tick = "idle"
      BY <3>1 DEF IInv, CycleInv, EntriesOf, Headers
    <3>2. CASE tick # "idle" BY <3>2 DEF IInv, CycleInv
    <3> QED BY <3>1, <3>2
  <2>2. p \in Headers(file)
    <3> SUFFICES ASSUME n # 0, file'[p] = n PROVE FALSE BY <1>7
    <3>1. n \in EntriesOf(text) => FALSE BY <2>1, <1>2, <1>5
    <3>2. calls[n] > 0 => FALSE BY <1>5 DEF Settled
    <3> QED BY <3>1, <3>2
  <2>3. PICK r \in Headers(file) : r > p
    BY <2>2, <1>6 DEF IInv, WholeEntriesOnly
  <2> QED BY <2>3, <1>6
<1>16. CycleInv'
  <2>1. CASE tick = "idle" BY <2>1, <1>1 DEF IInv, CycleInv
  <2>2. CASE tick # "idle"
    <3>1. /\ Len(text) <= new_offset
          /\ \A e \in EntriesOf(text) : e \in 1 .. written /\ ~Settled(e)
          /\ IF read_gen = gen THEN HoldsLines ELSE HoldsOldLines
      BY <2>2 DEF IInv, CycleInv
    <3>2. \A e \in EntriesOf(text) : e \in 1 .. written' /\ ~Settled(e)
      BY <3>1, <1>2
    <3>3. ASSUME HoldsLines PROVE HoldsLines'
      <4>1. new_offset <= Len(file)' /\ new_offset \in Nat
        BY <3>3, <1>3, LogFacts DEF HoldsLines, IInv, TypeOK
      <4>2. \A i \in DOMAIN text : text[i] = file'[Start + i]
        <5> SUFFICES ASSUME NEW i \in DOMAIN text
                     PROVE  Start + i \in 1 .. Len(file)
          BY <3>3, <1>3 DEF HoldsLines
        <5>1. i \in 1 .. Len(text) BY LogFacts
        <5>2. new_offset \in Nat /\ Len(text) \in Nat /\ Len(file) \in Nat
          BY LogFacts DEF IInv, TypeOK
        <5> QED BY <5>1, <5>2, <3>1, <3>3 DEF Start, HoldsLines
      <4>3. Len(text) > 0 => \E r \in Headers(file') : r > new_offset
        BY <3>3, <1>6 DEF HoldsLines
      <4> QED BY <4>1, <4>2, <4>3, <3>3, <1>1, <1>12 DEF HoldsLines, Start
    <3>4. ASSUME HoldsOldLines PROVE HoldsOldLines'
      <4>1. \A p \in Headers(file') : file'[p] \notin EntriesOf(text)
        <5> TAKE p \in Headers(file')
        <5>1. CASE p \in Headers(file)
          BY <5>1, <3>4, <1>6 DEF HoldsOldLines, EntriesOf
        <5>2. CASE n # 0 /\ file'[p] = n BY <5>2, <3>1, <1>2, <1>5
        <5> QED BY <5>1, <5>2, <1>7
      <4>2. EntriesOf(text)' = EntriesOf(text)
        BY <1>1 DEF EntriesOf, Headers
      <4>3. (EntriesOf(text) \cap EntriesOf(file))' = {}
        BY <4>1, <4>2 DEF EntriesOf
      <4> QED BY <4>3, <3>4, <1>12 DEF HoldsOldLines
    <3> QED BY <2>2, <3>1, <3>2, <3>3, <3>4, <1>1
            DEF CycleInv, EntriesOf, Headers, Settled
  <2> QED BY <2>1, <2>2
<1> QED BY <1>8, <1>9, <1>10, <1>13, <1>14, <1>15, <1>16 DEF IInv

(* A rotation: an empty file, which no stored offset belongs to.           *)
LEMMA RotateInv == IInv /\ Rotate => IInv'
<1> SUFFICES ASSUME IInv, Rotate PROVE IInv' OBVIOUS
<1>1. /\ gen' = gen + 1 /\ file' = <<>> /\ gen < MaxRotations
      /\ UNCHANGED <<written, byte_offset, calls, tick, text, new_offset,
                     read_gen, offset_gen, given_up, failures>>
  BY DEF Rotate, dbVars, cycleVars, histVars
<1>2. file' \in Seq(Nat) /\ Headers(file') = {}
  BY <1>1, EmptySeq DEF Headers
<1>3. read_gen # gen' /\ offset_gen # gen'
  BY <1>1, LogFacts DEF IInv, TypeOK, Lost
<1>4. TypeOK' BY <1>1, <1>2, LogFacts DEF IInv, TypeOK
<1>5. WrittenInOrder' /\ CountedAtMostOnce' /\ WholeEntriesOnly'
  BY <1>1, <1>2
     DEF IInv, WrittenInOrder, CountedAtMostOnce, WholeEntriesOnly, Settled
<1>6. Untouched(0)' BY <1>2 DEF Untouched
<1>7. NothingSettledAhead' /\ Ledger'
  BY <1>1, <1>3, <1>6 DEF NothingSettledAhead, Ledger
<1>8. CycleInv'
  <2>1. CASE tick = "idle" BY <2>1, <1>1 DEF IInv, CycleInv
  <2>2. CASE tick # "idle"
    <3>1. HoldsOldLines' BY <1>2, <1>6 DEF HoldsOldLines, EntriesOf
    <3> QED BY <2>2, <3>1, <1>1, <1>3
            DEF IInv, CycleInv, EntriesOf, Headers, Settled
  <2> QED BY <2>1, <2>2
<1> QED BY <1>4, <1>5, <1>7, <1>8 DEF IInv

-----------------------------------------------------------------------------
(* "The offset advances iff the stats it produced committed" and "restarts *)
(* never double-count" (bgworker.rs), for every log, read size, number of  *)
(* rotations and failures: an entry is counted at most once and only when  *)
(* it is complete, and an offset that belongs to the file separates what   *)
(* is counted (or refused by the parser) from what is still to be read.    *)
THEOREM OffsetLedger == Spec => []OffsetIsLedger
<1>1. IInv /\ [Next]_vars => IInv'
  <2> SUFFICES ASSUME IInv, [Next]_vars PROVE IInv' OBVIOUS
  <2>1. CASE read_new_complete BY <2>1, ReadInv
  <2>2. CASE flush_cycle BY <2>2, CommitInv
  <2>3. CASE flush_fails BY <2>3, FailureInv
  <2>4. CASE AppendEntry
    <3>1. written + 1 \in {0, written + 1} /\ written + 1 # 0
      BY DEF IInv, TypeOK
    <3> QED BY <2>4, <3>1, AppendInv DEF AppendEntry
  <2>5. CASE AppendLine BY <2>5, AppendInv DEF AppendLine
  <2>6. CASE Rotate BY <2>6, RotateInv
  <2>7. CASE UNCHANGED vars
    BY <2>7 DEF vars, logVars, dbVars, cycleVars, histVars, IInv, TypeOK,
       WrittenInOrder, CountedAtMostOnce, WholeEntriesOnly,
       NothingSettledAhead, Ledger, CycleInv, HoldsLines, HoldsOldLines,
       Untouched, Settled, Start, EntriesOf, Headers
  <2> QED BY <2>1, <2>2, <2>3, <2>4, <2>5, <2>6, <2>7 DEF Next
<1>2. IInv => OffsetIsLedger
  <2> SUFFICES ASSUME IInv, offset_gen = gen, NEW p \in Headers(file)
               PROVE  IF p <= byte_offset
                      THEN calls[file[p]] = 1 \/ file[p] \in given_up
                      ELSE calls[file[p]] = 0 /\ file[p] \notin given_up
    BY DEF OffsetIsLedger, IInv
  <2>1. file[p] \in Entries /\ p \in Nat /\ byte_offset \in Nat
    BY LogFacts DEF IInv, TypeOK
  <2>2. calls[file[p]] \in Nat /\ calls[file[p]] <= 1
    BY <2>1 DEF IInv, TypeOK, CountedAtMostOnce
  <2>3. IF p <= byte_offset THEN Settled(file[p]) ELSE ~Settled(file[p])
    BY <2>1 DEF IInv, Ledger, Untouched
  <2> QED BY <2>2, <2>3 DEF Settled
<1> QED BY InitInv, <1>1, <1>2, PTL DEF Spec
=============================================================================
