------------------------- MODULE CaptureRingProofs -------------------------
(***************************************************************************)
(* Proofs about CaptureRing for every number of backends, databases, slots *)
(* and captures: its types, the queue discipline of the ring, that an      *)
(* execution is stored at most once and only where it ran, and that the    *)
(* overhead accumulator stays a possible sample.                           *)
(***************************************************************************)
EXTENDS CaptureRing, SequenceTheorems, TLAPS

-----------------------------------------------------------------------------
(* The elements of a sequence after the changes the ring makes to it.      *)
LEMMA ElemsOfAppend ==
  ASSUME NEW S, NEW s \in Seq(S), NEW e \in S
  PROVE  /\ Append(s, e) \in Seq(S)
         /\ Elems(Append(s, e)) = Elems(s) \cup {e}
         /\ Len(Append(s, e)) = Len(s) + 1
         /\ DOMAIN Append(s, e) = DOMAIN s \cup {Len(s) + 1}
<1>1. /\ Append(s, e) \in Seq(S) /\ Len(Append(s, e)) = Len(s) + 1
      /\ \A i \in 1 .. Len(s) : Append(s, e)[i] = s[i]
      /\ Append(s, e)[Len(s) + 1] = e
  BY AppendProperties
<1>2. /\ DOMAIN s = 1 .. Len(s) /\ Len(s) \in Nat
      /\ DOMAIN Append(s, e) = 1 .. Len(s) + 1
  BY <1>1, LenProperties
<1>3. DOMAIN Append(s, e) = DOMAIN s \cup {Len(s) + 1}
  BY <1>2
<1> QED BY <1>1, <1>2, <1>3 DEF Elems

(* A drained ring holds nothing.                                          *)
LEMMA ElemsOfEmpty == Elems(<<>>) = {}
  BY DEF Elems

(* What a sequence holds has the type of its elements.                     *)
LEMMA ElemsTyped ==
  ASSUME NEW S, NEW s \in Seq(S)
  PROVE  Elems(s) \subseteq S
  BY ElementOfSeq, LenProperties DEF Elems

(* Folding an overhead into the accumulator keeps it a record of numbers.  *)
Accumulators == [count : Nat, sum : Nat, sumsq : Nat, min : Nat, max : Nat]

LEMMA OverheadTyped ==
  ASSUME NEW o \in Accumulators, NEW ns \in Costs
  PROVE  record_overhead(o, ns) \in Accumulators /\ NoOverhead \in Accumulators
<1>1. ns \in Nat /\ U64Max \in Nat /\ U128Max \in Nat BY RingAssumption
<1>2. ns * ns \in Nat BY <1>1
<1>3. \A a, b \in Nat : LowerOf(a, b) \in Nat /\ HigherOf(a, b) \in Nat
  BY DEF LowerOf, HigherOf
<1>4. /\ o.count + 1 \in Nat /\ o.sum + ns \in Nat /\ o.sumsq + ns * ns \in Nat
      /\ o.min \in Nat /\ o.max \in Nat
  BY <1>1, <1>2 DEF Accumulators
<1>5. NoOverhead \in Accumulators BY <1>1 DEF NoOverhead, Accumulators
<1> HIDE DEF LowerOf, HigherOf
<1>6. record_overhead(o, ns) \in Accumulators
  BY <1>1, <1>3, <1>4 DEF record_overhead, Accumulators
<1> QED BY <1>5, <1>6

(* Counting a set of executions once more keeps the counts numbers.        *)
LEMMA FoldedTyped ==
  ASSUME calls \in [Databases -> [Ids -> Nat]], NEW d \in Databases, NEW cs
  PROVE  Folded(d, cs) \in [Databases -> [Ids -> Nat]]
  BY DEF Folded

-----------------------------------------------------------------------------
(* Every variable keeps its type: the ring's records, its counters and     *)
(* accumulators, the worker's local state and the tables' counts.          *)
THEOREM TypeCorrect == Spec => []TypeOK
<1>1. Init => TypeOK
  <2> SUFFICES ASSUME Init PROVE TypeOK OBVIOUS
  <2>1. ovh = NoOverhead /\ NoOverhead \in Accumulators
    BY RingAssumption DEF Init, NoOverhead, Accumulators
  <2>2. <<>> \in Seq(Captures) BY EmptySeq
  <2>3. /\ calls \in [Databases -> [Ids -> Nat]]
        /\ origin \in [Ids -> Databases]
    BY RingAssumption DEF Init
  <2>4. issued \in 0 .. MaxCaptures BY RingAssumption DEF Init
  <2> QED BY <2>1, <2>2, <2>3, <2>4 DEF Init, TypeOK, Accumulators, Connected
<1>2. TypeOK /\ [Next]_vars => TypeOK'
  <2> SUFFICES ASSUME TypeOK, [Next]_vars PROVE TypeOK' OBVIOUS
  <2>1. ASSUME NEW b \in Backends, NEW ns \in Costs,
               push(b, ns) \/ capture_synchronous(b, ns)
        PROVE  TypeOK'
    <3>1. ovh' \in Accumulators
      BY <2>1, OverheadTyped
         DEF TypeOK, Accumulators, push, capture_synchronous
    <3>2. BackendDb[b] \in Databases BY RingAssumption
    <3>3. issued + 1 \in Ids /\ issued' \in 0 .. MaxCaptures
          /\ origin' \in [Ids -> Databases]
      <4>1. IssueTo(b) BY <2>1 DEF push, capture_synchronous
      <4>2. issued + 1 \in Ids /\ issued' \in 0 .. MaxCaptures
        BY <4>1, RingAssumption DEF TypeOK, IssueTo, Ids
      <4> QED BY <4>1, <4>2, <3>2 DEF TypeOK, IssueTo
    <3> DEFINE c == [id |-> issued + 1, db_oid |-> BackendDb[b]]
    <3>4. c \in Captures BY <3>2, <3>3 DEF Captures
    <3>5. CASE push(b, ns)
      <4>1. /\ recs' \in Seq(Captures) /\ accepted' \in Seq(Captures)
            /\ captured_total' \in Nat /\ dropped_total' \in Nat
        <5> HIDE DEF c
        <5>1. push_rec(c) BY <3>5 DEF push, c
        <5>2. Append(recs, c) \in Seq(Captures)
              /\ Append(accepted, c) \in Seq(Captures)
          BY <3>4, ElemsOfAppend DEF TypeOK
        <5>3. \/ UNCHANGED <<recs, accepted, captured_total>>
                 /\ dropped_total' = dropped_total + 1
              \/ /\ recs' = Append(recs, c) /\ accepted' = Append(accepted, c)
                 /\ captured_total' = captured_total + 1
                 /\ dropped_total' = dropped_total
          BY <5>1, Zenon DEF push_rec
        <5>4. recs' \in Seq(Captures) /\ accepted' \in Seq(Captures)
          BY <5>2, <5>3, Zenon DEF TypeOK
        <5>5. captured_total' \in Nat /\ dropped_total' \in Nat
          <6>1. captured_total \in Nat /\ dropped_total \in Nat BY DEF TypeOK
          <6>2. /\ captured_total' \in {captured_total, captured_total + 1}
                /\ dropped_total' \in {dropped_total, dropped_total + 1}
            BY <5>3, Zenon
          <6> QED BY <6>1, <6>2
        <5> QED BY <5>4, <5>5
      <4>2. pushed' \in Nat BY <3>5 DEF push, TypeOK
      <4> QED BY <3>1, <3>3, <3>5, <4>1, <4>2
              DEF push, TypeOK, workerVars, Accumulators, Connected
    <3>6. CASE capture_synchronous(b, ns)
      <4>1. calls' \in [Databases -> [Ids -> Nat]]
        <5> DEFINE f == [calls EXCEPT ![BackendDb[b]][issued + 1] = @ + 1]
        <5>1. calls[BackendDb[b]] \in [Ids -> Nat] BY <3>2 DEF TypeOK
        <5>2. [calls[BackendDb[b]] EXCEPT ![issued + 1] = @ + 1] \in [Ids -> Nat]
          BY <5>1, <3>3
        <5>3. f \in [Databases -> [Ids -> Nat]] BY <5>2, <3>2 DEF TypeOK
        <5>4. calls' \in {calls, f} BY <3>6 DEF capture_synchronous
        <5> QED BY <5>3, <5>4 DEF TypeOK
      <4> QED BY <3>1, <3>3, <3>6, <4>1
              DEF capture_synchronous, TypeOK, workerVars, Accumulators,
                  Connected
    <3> QED BY <2>1, <3>5, <3>6
  <2>2. CASE reset_overhead
    BY <2>2, RingAssumption
       DEF reset_overhead, NoOverhead, TypeOK, workerVars, histVars, Connected
  <2>3. CASE drain
    <3>1. taken' \in Seq(Captures) /\ recs' \in Seq(Captures)
      BY <2>3, ConcatProperties DEF drain, take_recs_into, TypeOK
    <3>2. kept \in SUBSET Captures
      BY ElemsTyped DEF kept, TypeOK
    <3>3. warned' \in Nat /\ last_dropped' \in Nat
      <4>1. WarnedCap \in Nat BY RingAssumption DEF WarnedCap
      <4>2. new_drops \in Nat BY DEF new_drops, HigherOf, TypeOK
      <4> QED BY <2>3, <4>1, <4>2 DEF drain, LowerOf, TypeOK
    <3> QED BY <2>3, <3>1, <3>2, <3>3
            DEF drain, take_recs_into, TickEnds, TypeOK, Connected
  <2>4. CASE aggregate_captures
    BY <2>4 DEF aggregate_captures, TickEnds, TypeOK, ringVars, histVars,
                Connected
  <2>5. CASE persist_batch
    <3>1. calls' \in [Databases -> [Ids -> Nat]]
      BY <2>5, FoldedTyped DEF persist_batch, TypeOK, Connected
    <3> QED BY <2>5, <3>1
            DEF persist_batch, TickEnds, TypeOK, ringVars, histVars, Connected
  <2>6. CASE plansight_bgworker_main \/ respawn \/ sigterm
    <3>1. /\ UNCHANGED <<ringVars, batch, guc_database, calls, histVars>>
          /\ last_dropped' \in {last_dropped, 0}
      BY <2>6 DEF plansight_bgworker_main, respawn, sigterm
    <3>2. /\ wstate' \in Connected \cup {"starting", "down", "exited"}
          /\ worker_db' \in Databases \cup Missing
          /\ wstate' \in Connected => worker_db' \in Databases
      BY <2>6 DEF plansight_bgworker_main, respawn, sigterm, TypeOK, Connected
    <3> QED BY <3>1, <3>2 DEF TypeOK, ringVars, histVars
  <2>7. ASSUME NEW d \in Databases \cup Missing, reload_database(d)
        PROVE  TypeOK'
    BY <2>7 DEF reload_database, TypeOK, ringVars, workerVars, histVars,
                Connected
  <2>8. CASE ServerRestart
    <3>1. NoOverhead \in Accumulators
      BY RingAssumption DEF NoOverhead, Accumulators
    <3>2. <<>> \in Seq(Captures) BY EmptySeq
    <3> QED BY <2>8, <3>1, <3>2 DEF ServerRestart, TypeOK, Accumulators,
               Connected
  <2>9. CASE UNCHANGED vars
    BY <2>9 DEF vars, ringVars, workerVars, histVars, TypeOK, Connected
  <2> QED BY <2>1, <2>2, <2>3, <2>4, <2>5, <2>6, <2>7, <2>8, <2>9
          DEF Next, Worker
<1> QED BY <1>1, <1>2, PTL DEF Spec

-----------------------------------------------------------------------------
(* Appending a record commutes with what was copied out before it.         *)
LEMMA AppendAfterTaken ==
  \A t, r \in Seq(Captures), e \in Captures :
    Append(t \o r, e) = t \o Append(r, e)
<1> TAKE t, r \in Seq(Captures), e \in Captures
<1>1. <<e>> \in Seq(Captures) OBVIOUS
<1>2. t \o r \in Seq(Captures) BY ConcatProperties
<1>3. Append(t \o r, e) = (t \o r) \o <<e>> BY <1>2, AppendIsConcat
<1>4. Append(r, e) = r \o <<e>> BY AppendIsConcat
<1> QED BY <1>1, <1>3, <1>4, ConcatAssociative

(* The ring is a bounded queue: what was accepted is what was taken        *)
(* followed by what is in the slots, and the counters account for every    *)
(* push (push_rec, take_recs_into, the lifetime counters).                 *)
THEOREM RingKeepsItsRecords == Spec => [](RingIsFifo /\ CountersExact)
<1> DEFINE Inv == RingIsFifo /\ CountersExact
<1>1. Init => Inv
  <2> SUFFICES ASSUME Init PROVE Inv OBVIOUS
  <2>1. recs = <<>> /\ taken = <<>> /\ accepted = <<>> BY DEF Init
  <2>2. <<>> \o <<>> = <<>> /\ Len(<<>>) = 0
    BY EmptySeq, ConcatEmptySeq
  <2> QED BY <2>1, <2>2, RingAssumption DEF Init, RingIsFifo, CountersExact
<1>2. TypeOK /\ Inv /\ [Next]_vars => Inv'
  <2> SUFFICES ASSUME TypeOK, Inv, [Next]_vars PROVE Inv' OBVIOUS
  <2>1. ASSUME NEW b \in Backends, NEW ns \in Costs, push(b, ns) PROVE Inv'
    <3> DEFINE c == [id |-> issued + 1, db_oid |-> BackendDb[b]]
    <3>1. c \in Captures
      BY <2>1, RingAssumption DEF push, IssueTo, Captures, Ids, TypeOK
    <3>2. push_rec(c) /\ taken' = taken /\ pushed' = pushed + 1
      BY <2>1 DEF push
    <3> HIDE DEF c
    <3>3. CASE Len(recs) >= RingCap /\ dropped_total' = dropped_total + 1
               /\ UNCHANGED <<recs, captured_total, accepted>>
      BY <3>2, <3>3 DEF RingIsFifo, CountersExact, TypeOK
    <3>4. CASE /\ Len(recs) < RingCap /\ recs' = Append(recs, c)
               /\ captured_total' = captured_total + 1
               /\ accepted' = Append(accepted, c) /\ UNCHANGED dropped_total
      <4>1. accepted' = taken' \o recs'
        <5>1. taken \in Seq(Captures) /\ recs \in Seq(Captures) BY DEF TypeOK
        <5>2. Append(taken \o recs, c) = taken \o Append(recs, c)
          BY <3>1, <5>1, AppendAfterTaken, Zenon
        <5> QED BY <3>2, <3>4, <5>2, Zenon DEF RingIsFifo
      <4>2. Len(accepted') = Len(accepted) + 1 /\ Len(recs') = Len(recs) + 1
        BY <3>1, <3>4, AppendProperties DEF TypeOK
      <4>3. Len(recs) \in Nat /\ RingCap \in Nat
        BY LenProperties, RingAssumption DEF TypeOK
      <4>4. captured_total' = Len(accepted') BY <3>4, <4>2 DEF CountersExact
      <4>5. pushed' = captured_total' + dropped_total'
        BY <3>2, <3>4 DEF CountersExact, TypeOK
      <4>6. Len(recs') <= RingCap
        <5>1. Len(recs) < RingCap BY <3>4
        <5> QED BY <5>1, <4>2, <4>3
      <4> QED BY <4>1, <4>4, <4>5, <4>6 DEF RingIsFifo, CountersExact
    <3> QED BY <3>2, <3>3, <3>4 DEF push_rec
  <2>2. ASSUME NEW b \in Backends, NEW ns \in Costs,
               capture_synchronous(b, ns)
        PROVE  Inv'
    BY <2>2 DEF capture_synchronous, RingIsFifo, CountersExact
  <2>3. CASE drain
    <3>1. taken' = taken \o recs /\ recs' = <<>>
          /\ UNCHANGED <<accepted, captured_total, dropped_total, pushed>>
      BY <2>3 DEF drain, take_recs_into
    <3>2. taken \o recs \in Seq(Captures)
      BY ConcatProperties DEF TypeOK
    <3>3. taken' \o recs' = taken \o recs BY <3>1, <3>2, ConcatEmptySeq
    <3>4. Len(recs') = 0 BY <3>1, EmptySeq
    <3> QED BY <3>1, <3>3, <3>4, RingAssumption
            DEF RingIsFifo, CountersExact
  <2>4. CASE \/ reset_overhead \/ aggregate_captures \/ persist_batch
             \/ plansight_bgworker_main \/ respawn \/ sigterm
             \/ \E d \in Databases \cup Missing : reload_database(d)
    BY <2>4 DEF reset_overhead, aggregate_captures, persist_batch,
       plansight_bgworker_main, respawn, sigterm, reload_database, ringVars, workerVars,
       histVars, RingIsFifo, CountersExact
  <2>5. CASE ServerRestart
    <3>1. <<>> \o <<>> = <<>> /\ Len(<<>>) = 0
      BY EmptySeq, ConcatEmptySeq
    <3> QED BY <2>5, <3>1, RingAssumption
            DEF ServerRestart, RingIsFifo, CountersExact
  <2>6. CASE UNCHANGED vars
    BY <2>6 DEF vars, ringVars, histVars, RingIsFifo, CountersExact
  <2> QED BY <2>1, <2>2, <2>3, <2>4, <2>5, <2>6 DEF Next, Worker
<1> QED BY <1>1, <1>2, TypeCorrect, PTL DEF Spec

-----------------------------------------------------------------------------
(* Captures in flight are of the captures' type, so their ids index calls. *)
LEMMA InFlightTyped ==
  ASSUME TypeOK
  PROVE  /\ InFlight \subseteq Captures
         /\ \A c \in InFlight : c.id \in Ids /\ c.db_oid \in Databases
         /\ issued \in Nat /\ \A i \in Ids : i \in Nat
<1>1. Elems(recs) \subseteq Captures BY ElemsTyped DEF TypeOK
<1>2. InFlight \subseteq Captures BY <1>1 DEF TypeOK, InFlight
<1>3. \A c \in Captures : c.id \in Ids /\ c.db_oid \in Databases
  BY DEF Captures
<1>4. issued \in Nat /\ \A i \in Ids : i \in Nat
  BY RingAssumption DEF TypeOK, Ids
<1> QED BY <1>2, <1>3, <1>4

StoredOnce == InFlightIsFresh /\ CountedAtMostOnce /\ DatabaseIsolation

(* A new execution of b: its id is new, and it is of b's database.         *)
LEMMA IssueIsFresh ==
  ASSUME TypeOK, StoredOnce, NEW b \in Backends, IssueTo(b)
  PROVE  /\ issued + 1 \in Ids /\ BackendDb[b] \in Databases
         /\ \A c \in InFlight : c.id <= issued' /\ c.id # issued + 1
                                /\ c.db_oid = origin'[c.id]
         /\ \A i \in Ids : i # issued + 1 => origin'[i] = origin[i]
         /\ origin'[issued + 1] = BackendDb[b]
         /\ \A d \in Databases : calls[d][issued + 1] = 0
<1>1. issued + 1 \in Ids /\ BackendDb[b] \in Databases
  BY RingAssumption DEF IssueTo, Ids, TypeOK
<1>2. /\ origin' = [origin EXCEPT ![issued + 1] = BackendDb[b]]
      /\ issued' = issued + 1
  BY DEF IssueTo
<1>3. /\ \A i \in Ids : i # issued + 1 => origin'[i] = origin[i]
      /\ origin'[issued + 1] = BackendDb[b]
  BY <1>1, <1>2 DEF TypeOK
<1>4. \A c \in InFlight : c.id \in Ids /\ c.id <= issued
                           /\ c.db_oid = origin[c.id]
  BY InFlightTyped DEF StoredOnce, InFlightIsFresh
<1>5. \A i \in Ids : i <= issued => i # issued + 1 /\ i <= issued'
  BY <1>2, InFlightTyped
<1>6. \A d \in Databases : calls[d][issued + 1] = 0
  BY <1>1, InFlightTyped DEF StoredOnce, InFlightIsFresh
<1> QED BY <1>1, <1>3, <1>4, <1>5, <1>6

(* push: the new capture is fresh whether it is accepted or dropped.       *)
LEMMA PushKeepsStoredOnce ==
  ASSUME TypeOK, StoredOnce, NEW b \in Backends, NEW ns \in Costs, push(b, ns)
  PROVE  StoredOnce'
<1> DEFINE c == [id |-> issued + 1, db_oid |-> BackendDb[b]]
<1>1. IssueTo(b) /\ push_rec(c) BY DEF push
<1>2. UNCHANGED <<wstate, worker_db, batch, calls>> /\ issued' = issued + 1
  BY DEF push, IssueTo, workerVars
<1>3. c \in Captures /\ c.id = issued + 1 /\ c.db_oid = BackendDb[b]
  BY <1>1, IssueIsFresh DEF Captures
<1> HIDE DEF c
<1>4. recs' \in {recs, Append(recs, c)} BY <1>1 DEF push_rec
<1>5. /\ Elems(recs') \subseteq Elems(recs) \cup {c}
      /\ \A k, l \in DOMAIN recs' : recs'[k].id = recs'[l].id => k = l
  <2>1. \A k, l \in DOMAIN recs : recs[k].id = recs[l].id => k = l
    BY DEF StoredOnce, InFlightIsFresh
  <2>2. CASE recs' = recs BY <2>1, <2>2
  <2>3. CASE recs' = Append(recs, c)
    <3>1. /\ Elems(recs') = Elems(recs) \cup {c}
          /\ DOMAIN recs' = DOMAIN recs \cup {Len(recs) + 1}
      BY <1>3, <2>3, ElemsOfAppend DEF TypeOK
    <3>2. /\ \A k \in DOMAIN recs : recs'[k] = recs[k]
          /\ recs'[Len(recs) + 1] = c
      BY <1>3, <2>3, AppendProperties, LenProperties DEF TypeOK
    <3>3. \A k \in DOMAIN recs : recs[k].id # c.id
      <4>1. \A k \in DOMAIN recs : recs[k] \in InFlight
        BY DEF InFlight, Elems
      <4> QED BY <4>1, <1>1, <1>3, IssueIsFresh
    <3> QED BY <2>1, <3>1, <3>2, <3>3
  <2> QED BY <1>4, <2>2, <2>3
<1>6. \A x \in InFlight' : x \in InFlight \/ x = c
  BY <1>2, <1>5 DEF InFlight
<1>7. \A x \in InFlight' : x.id <= issued' /\ x.db_oid = origin'[x.id]
  <2>1. issued + 1 <= issued' BY <1>2, InFlightTyped
  <2> QED BY <1>1, <1>3, <1>6, <2>1, IssueIsFresh
<1>8. \A x \in Elems(recs)', e \in batch' : x.id # e.id
  <2>1. \A x \in Elems(recs), e \in batch : x.id # e.id
    BY DEF StoredOnce, InFlightIsFresh
  <2>2. \A e \in batch : e.id # c.id
    BY <1>1, <1>3, IssueIsFresh DEF InFlight
  <2> QED BY <1>2, <1>5, <2>1, <2>2
<1>9. \A x \in InFlight', d \in Databases : calls'[d][x.id] = 0
  <2>1. \A x \in InFlight, d \in Databases : calls[d][x.id] = 0
    BY DEF StoredOnce, InFlightIsFresh
  <2> QED BY <1>1, <1>2, <1>3, <1>6, <2>1, IssueIsFresh
<1>10. \A i \in Ids, d \in Databases : i > issued' => calls'[d][i] = 0
  <2>1. \A i \in Ids : i > issued' => i > issued BY <1>2, InFlightTyped
  <2> QED BY <1>2, <2>1 DEF StoredOnce, InFlightIsFresh
<1>11. InFlightIsFresh'
  BY <1>2, <1>5, <1>7, <1>8, <1>9, <1>10 DEF InFlightIsFresh, StoredOnce
<1>12. DatabaseIsolation'
  <2>1. \A d \in Databases, i \in Ids :
          calls'[d][i] > 0 => i # issued + 1 /\ origin[i] = d
    BY <1>1, <1>2, IssueIsFresh DEF StoredOnce, DatabaseIsolation
  <2> QED BY <1>1, <2>1, IssueIsFresh DEF DatabaseIsolation
<1> QED BY <1>2, <1>11, <1>12 DEF StoredOnce, CountedAtMostOnce

(* capture_synchronous: the new execution is counted at once, at home.     *)
LEMMA SynchronousKeepsStoredOnce ==
  ASSUME TypeOK, StoredOnce, NEW b \in Backends, NEW ns \in Costs,
         capture_synchronous(b, ns)
  PROVE  StoredOnce'
<1>1. /\ IssueTo(b) /\ issued' = issued + 1
      /\ UNCHANGED <<recs, wstate, worker_db, batch>>
  BY DEF capture_synchronous, IssueTo, workerVars
<1>2. InFlight' = InFlight /\ Elems(recs)' = Elems(recs)
  BY <1>1 DEF InFlight, Elems
<1>3. \A d \in Databases, i \in Ids :
        /\ calls'[d][i] \in {calls[d][i], calls[d][i] + 1}
        /\ calls'[d][i] # calls[d][i] => i = issued + 1 /\ d = BackendDb[b]
  <2> DEFINE f == [calls EXCEPT ![BackendDb[b]][issued + 1] = @ + 1]
  <2>1. \A d \in Databases, i \in Ids :
          f[d][i] = IF d = BackendDb[b] /\ i = issued + 1 THEN calls[d][i] + 1
                                                          ELSE calls[d][i]
    BY <1>1, IssueIsFresh DEF TypeOK
  <2>2. calls' \in {calls, f} BY DEF capture_synchronous
  <2> HIDE DEF f
  <2> QED BY <2>1, <2>2
<1>4. \A x \in InFlight, d \in Databases : calls'[d][x.id] = 0
  <2>1. \A x \in InFlight : x.id \in Ids /\ x.id # issued + 1
    BY <1>1, InFlightTyped, IssueIsFresh
  <2> QED BY <2>1, <1>3 DEF StoredOnce, InFlightIsFresh
<1>5. \A i \in Ids, d \in Databases : i > issued' => calls'[d][i] = 0
  <2>1. \A i \in Ids : i > issued' => i > issued /\ i # issued + 1
    BY <1>1, InFlightTyped
  <2> QED BY <1>3, <2>1 DEF StoredOnce, InFlightIsFresh
<1>6. \A x \in InFlight : x.id <= issued' /\ x.db_oid = origin'[x.id]
  BY <1>1, IssueIsFresh
<1>7. InFlightIsFresh'
  BY <1>1, <1>2, <1>4, <1>5, <1>6 DEF StoredOnce, InFlightIsFresh
<1>8. CountedAtMostOnce'
  <2> SUFFICES ASSUME NEW d \in Databases, NEW i \in Ids
               PROVE  calls'[d][i] <= 1
    BY DEF CountedAtMostOnce
  <2>1. CASE i = issued + 1
    <3>1. calls[d][i] = 0 BY <1>1, <2>1, IssueIsFresh
    <3> QED BY <1>3, <3>1
  <2>2. CASE i # issued + 1
    BY <1>3, <2>2 DEF StoredOnce, CountedAtMostOnce
  <2> QED BY <2>1, <2>2
<1>9. DatabaseIsolation'
  <2> SUFFICES ASSUME NEW d \in Databases, NEW i \in Ids, calls'[d][i] > 0
               PROVE  origin'[i] = d
    BY DEF DatabaseIsolation
  <2>1. CASE i = issued + 1
    <3>1. calls[d][i] = 0 /\ origin'[i] = BackendDb[b]
      BY <1>1, <2>1, IssueIsFresh
    <3>2. calls'[d][i] # calls[d][i] BY <3>1
    <3> QED BY <1>3, <3>1, <3>2
  <2>2. CASE i # issued + 1
    <3>1. calls'[d][i] = calls[d][i] /\ origin'[i] = origin[i]
      BY <1>1, <1>3, <2>2, IssueIsFresh
    <3> QED BY <3>1 DEF StoredOnce, DatabaseIsolation
  <2> QED BY <2>1, <2>2
<1> QED BY <1>7, <1>8, <1>9 DEF StoredOnce

(* drain: the worker takes what is of its database; the rest is discarded. *)
LEMMA DrainKeepsStoredOnce ==
  ASSUME TypeOK, StoredOnce, drain
  PROVE  StoredOnce'
<1>1. /\ recs' = <<>> /\ batch' = kept
      /\ UNCHANGED <<worker_db, calls, issued, origin>>
      /\ batch' # {} => wstate' = "aggregating"
  BY DEF drain, take_recs_into
<1>2. Elems(recs)' = {} /\ DOMAIN recs' = {}
  BY <1>1, ElemsOfEmpty
<1>3. \A c \in InFlight' : c \in InFlight /\ c.db_oid = worker_db /\ c \in batch'
  BY <1>1, <1>2 DEF InFlight, kept
<1>4. InFlightIsFresh'
  <2>1. /\ \A c \in InFlight : c.id <= issued /\ c.db_oid = origin[c.id]
        /\ \A c \in InFlight, d \in Databases : calls[d][c.id] = 0
        /\ \A i \in Ids, d \in Databases : i > issued => calls[d][i] = 0
    BY DEF StoredOnce, InFlightIsFresh
  <2>2. batch' \subseteq InFlight' BY DEF InFlight
  <2> QED BY <1>1, <1>2, <1>3, <2>1, <2>2 DEF InFlightIsFresh
<1> QED BY <1>1, <1>4 DEF StoredOnce, CountedAtMostOnce, DatabaseIsolation

(* persist_rows: the batch is of the worker's database, none of it counted *)
(* yet, and the worker is left with nothing to count again.                *)
LEMMA PersistKeepsStoredOnce ==
  ASSUME TypeOK, StoredOnce, persist_batch
  PROVE  StoredOnce'
<1>1. /\ batch' = {} /\ calls' \in {calls, Folded(worker_db, batch)}
      /\ UNCHANGED <<recs, issued, origin, worker_db>>
  BY DEF persist_batch, ringVars, histVars
<1>2. InFlight' = Elems(recs) /\ Elems(recs)' = Elems(recs)
  BY <1>1 DEF InFlight, Elems
<1>3. worker_db \in Databases BY DEF persist_batch, TypeOK, Connected
<1>4. \A d \in Databases, i \in Ids :
        \/ calls'[d][i] = calls[d][i]
        \/ /\ d = worker_db /\ \E c \in batch : c.id = i
           /\ calls'[d][i] = calls[d][i] + 1
  <2>1. \A d \in Databases, i \in Ids : Folded(worker_db, batch)[d][i] =
          IF d = worker_db /\ \E c \in batch : c.id = i
          THEN calls[d][i] + 1 ELSE calls[d][i]
    BY <1>3 DEF Folded, TypeOK
  <2> QED BY <1>1, <2>1
<1>5. \A c \in batch : /\ c.id \in Ids /\ c.id <= issued
                       /\ origin[c.id] = worker_db
                       /\ \A d \in Databases : calls[d][c.id] = 0
  <2>1. batch \subseteq InFlight BY DEF InFlight
  <2> QED BY <2>1, InFlightTyped DEF StoredOnce, InFlightIsFresh
<1>6. InFlightIsFresh'
  <2>1. \A c \in Elems(recs), d \in Databases : calls'[d][c.id] = 0
    <3>1. \A c \in Elems(recs) :
            /\ c.id \in Ids /\ ~ \E e \in batch : e.id = c.id
            /\ \A d \in Databases : calls[d][c.id] = 0
      BY InFlightTyped DEF StoredOnce, InFlightIsFresh, InFlight
    <3> QED BY <1>4, <3>1
  <2>2. \A i \in Ids, d \in Databases : i > issued => calls'[d][i] = 0
    <3>1. \A i \in Ids : i > issued => ~ \E c \in batch : c.id = i
      BY <1>5, InFlightTyped
    <3> QED BY <1>4, <3>1 DEF StoredOnce, InFlightIsFresh
  <2> QED BY <1>1, <1>2, <2>1, <2>2
          DEF StoredOnce, InFlightIsFresh, InFlight
<1>7. CountedAtMostOnce'
  <2>1. \A d \in Databases, i \in Ids : calls[d][i] <= 1
    BY DEF StoredOnce, CountedAtMostOnce
  <2> QED BY <1>4, <1>5, <2>1 DEF CountedAtMostOnce
<1>8. DatabaseIsolation'
  BY <1>1, <1>4, <1>5 DEF StoredOnce, DatabaseIsolation
<1> QED BY <1>6, <1>7, <1>8 DEF StoredOnce

(* An execution is stored at most once, only in the database it ran in,    *)
(* and nothing that is still in flight has been stored: for any number of  *)
(* backends, databases and slots, across restarts and reloads.             *)
THEOREM StoredOnceAtHome ==
  Spec => [](InFlightIsFresh /\ CountedAtMostOnce /\ DatabaseIsolation)
<1>1. Init => StoredOnce
  <2> SUFFICES ASSUME Init PROVE StoredOnce OBVIOUS
  <2>1. recs = <<>> /\ batch = {}
        /\ \A d \in Databases, i \in Ids : calls[d][i] = 0
    BY DEF Init
  <2>2. InFlight = {} /\ DOMAIN recs = {} BY <2>1 DEF InFlight, Elems
  <2> QED BY <2>1, <2>2, ElemsOfEmpty
          DEF StoredOnce, InFlightIsFresh, CountedAtMostOnce, DatabaseIsolation
<1>2. TypeOK /\ StoredOnce /\ [Next]_vars => StoredOnce'
  <2> SUFFICES ASSUME TypeOK, StoredOnce, [Next]_vars PROVE StoredOnce'
    OBVIOUS
  <2>1. CASE aggregate_captures
    <3>1. /\ UNCHANGED <<recs, worker_db, calls, issued, origin>>
          /\ batch' \subseteq batch
          /\ wstate' \notin {"aggregating", "persisting"} => batch' = {}
      BY <2>1 DEF aggregate_captures, ringVars, histVars, TickEnds
    <3>2. InFlight' \subseteq InFlight BY <3>1 DEF InFlight, Elems
    <3>3. Elems(recs)' = Elems(recs) BY <3>1 DEF Elems
    <3>4. InFlightIsFresh'
      BY <3>1, <3>2, <3>3 DEF StoredOnce, InFlightIsFresh
    <3> QED BY <3>1, <3>4 DEF StoredOnce, CountedAtMostOnce, DatabaseIsolation
  <2>2. CASE plansight_bgworker_main \/ respawn \/ sigterm
    <3>1. /\ UNCHANGED <<recs, batch, calls, issued, origin>>
          /\ wstate \notin {"aggregating", "persisting"}
          /\ wstate' \notin {"aggregating", "persisting"}
      BY <2>2 DEF plansight_bgworker_main, respawn, sigterm, ringVars, histVars
    <3>2. batch = {} /\ batch' = {}
      BY <3>1 DEF StoredOnce, InFlightIsFresh
    <3> QED BY <3>1, <3>2 DEF StoredOnce, InFlightIsFresh, InFlight, Elems,
               CountedAtMostOnce, DatabaseIsolation
  <2>3. CASE ServerRestart
    <3>1. /\ recs' = <<>> /\ batch' = {}
          /\ UNCHANGED <<calls, issued, origin>>
      BY <2>3 DEF ServerRestart
    <3>2. Elems(recs)' = {} /\ DOMAIN recs' = {}
      BY <3>1, ElemsOfEmpty
    <3>3. InFlight' = {} BY <3>1, <3>2 DEF InFlight
    <3> QED BY <3>1, <3>2, <3>3 DEF StoredOnce, InFlightIsFresh,
               CountedAtMostOnce, DatabaseIsolation
  <2>4. CASE \/ reset_overhead \/ UNCHANGED vars
             \/ \E d \in Databases \cup Missing : reload_database(d)
    <3>1. UNCHANGED <<recs, batch, wstate, worker_db, calls, issued, origin>>
      BY <2>4 DEF reset_overhead, reload_database, vars, ringVars, workerVars,
                  histVars
    <3> QED BY <3>1 DEF StoredOnce, InFlightIsFresh, InFlight, Elems,
               CountedAtMostOnce, DatabaseIsolation
  <2> QED BY <2>1, <2>2, <2>3, <2>4, PushKeepsStoredOnce,
          SynchronousKeepsStoredOnce, DrainKeepsStoredOnce,
          PersistKeepsStoredOnce DEF Next, Worker
<1>3. StoredOnce =>
        InFlightIsFresh /\ CountedAtMostOnce /\ DatabaseIsolation
  BY DEF StoredOnce
<1> QED BY <1>1, <1>2, <1>3, TypeCorrect, PTL DEF Spec

-----------------------------------------------------------------------------
(* The ids in flight, which SampleStore calls pending.                     *)
Pending == {c.id : c \in InFlight}

(* Captures that leave the ring or the worker's hands uncounted are        *)
(* settled by being given up.                                              *)
LEMMA LeavingIsSettled ==
  ASSUME TypeOK, InFlight' \subseteq InFlight, UNCHANGED <<calls, issued, origin>>
  PROVE  Promise!Next
<1> DEFINE S == Pending \ Pending'
<1>1. Pending' \subseteq Pending BY DEF Pending
<1>2. Pending' = Pending \ S /\ S \in SUBSET Pending BY <1>1
<1>3. Promise!Counted({}) = calls
  <2>1. \A d \in Databases, i \in Ids : calls[d][i] + 0 = calls[d][i]
    BY DEF TypeOK
  <2>2. Promise!Counted({}) = [d \in Databases |-> [i \in Ids |-> calls[d][i]]]
    BY <2>1 DEF Promise!Counted
  <2> QED BY <2>2 DEF TypeOK
<1>4. Promise!Settle(S, {})
  BY <1>2, <1>3 DEF Promise!Settle, Pending
<1>5. S \in SUBSET {c.id : c \in InFlight} /\ {} \in SUBSET S
  BY <1>2 DEF Pending
<1> HIDE DEF S
<1> QED BY <1>4, <1>5 DEF Promise!Next

(* A push or a synchronous capture is the observation of a new execution.  *)
LEMMA IssueIsObserved ==
  ASSUME TypeOK, StoredOnce, NEW b \in Backends, IssueTo(b),
         \/ UNCHANGED calls /\ Pending' \in {Pending, Pending \cup {issued + 1}}
         \/ /\ Pending' = Pending
            /\ calls' = [calls EXCEPT ![BackendDb[b]][issued + 1] = @ + 1]
  PROVE  Promise!Next
<1>1. issued + 1 \in Ids /\ BackendDb[b] \in Databases BY IssueIsFresh
<1>2. /\ issued + 1 \notin 1 .. issued
      /\ 1 .. issued' = (1 .. issued) \cup {issued + 1}
      /\ origin' = [origin EXCEPT ![issued + 1] = BackendDb[b]]
  BY InFlightTyped DEF IssueTo
<1>3. Promise!Observe(issued + 1, BackendDb[b])
  BY <1>2 DEF Promise!Observe, Pending
<1> QED BY <1>1, <1>3 DEF Promise!Next

(* persist_rows settles what the worker holds: all of it is counted at     *)
(* home, or the transaction fails and none is.                             *)
LEMMA PersistIsSettled ==
  ASSUME TypeOK, StoredOnce, persist_batch
  PROVE  Promise!Next
<1> DEFINE S == {c.id : c \in batch}
<1>1. /\ batch' = {} /\ calls' \in {calls, Folded(worker_db, batch)}
      /\ UNCHANGED <<recs, issued, origin, worker_db>>
  BY DEF persist_batch, ringVars, histVars
<1>2. InFlight' = Elems(recs)
  BY <1>1 DEF InFlight, Elems
<1>3. CASE calls' = calls
  BY <1>1, <1>2, <1>3, LeavingIsSettled DEF InFlight
<1>4. CASE calls' = Folded(worker_db, batch)
  <2>1. Pending' = Pending \ S /\ S \in SUBSET Pending
    <3>1. \A c \in Elems(recs), e \in batch : c.id # e.id
      BY DEF StoredOnce, InFlightIsFresh
    <3> QED BY <1>2, <3>1 DEF Pending, InFlight
  <2>2. \A i \in S : i \in Ids /\ origin[i] = worker_db
    <3>1. batch \subseteq InFlight BY DEF InFlight
    <3> QED BY <3>1, InFlightTyped DEF StoredOnce, InFlightIsFresh
  <2>3. Promise!Counted(S) = Folded(worker_db, batch)
    <3>1. worker_db \in Databases BY DEF persist_batch, TypeOK, Connected
    <3>2. Folded(worker_db, batch) =
            [d \in Databases |-> [i \in Ids |->
               IF d = worker_db /\ i \in S THEN calls[d][i] + 1 ELSE calls[d][i]]]
      BY <3>1 DEF Folded, TypeOK
    <3>3. \A d \in Databases, i \in Ids :
            calls[d][i] + (IF i \in S /\ origin[i] = d THEN 1 ELSE 0) =
              IF d = worker_db /\ i \in S THEN calls[d][i] + 1 ELSE calls[d][i]
      <4> HIDE DEF S
      <4>1. \A d \in Databases, i \in Ids : calls[d][i] \in Nat BY DEF TypeOK
      <4> QED BY <2>2, <4>1
    <3> HIDE DEF S
    <3> QED BY <3>2, <3>3 DEF Promise!Counted
  <2>4. Promise!Settle(S, S)
    BY <1>1, <1>4, <2>1, <2>3 DEF Promise!Settle, Pending
  <2>5. S \in SUBSET {c.id : c \in InFlight} /\ S \in SUBSET S
    BY <2>1 DEF Pending
  <2> HIDE DEF S
  <2> QED BY <2>4, <2>5 DEF Promise!Next, Promise!Settle
<1> QED BY <1>1, <1>3, <1>4

(* The ring and its worker implement the sampler's promise: each of their  *)
(* steps observes one execution, settles some, or changes nothing of it.   *)
THEOREM SamplerPromiseKept == Spec => KeepsPromise
<1>1. Init => Promise!Init
  <2> SUFFICES ASSUME Init PROVE Promise!Init OBVIOUS
  <2>1. recs = <<>> /\ batch = {} /\ issued = 0 BY DEF Init
  <2>2. InFlight = {} BY <2>1, ElemsOfEmpty DEF InFlight
  <2>3. 1 .. issued = {} /\ {c.id : c \in InFlight} = {} BY <2>1, <2>2
  <2>4. origin \in [Ids -> Databases] BY RingAssumption DEF Init
  <2> QED BY <2>3, <2>4 DEF Init, Promise!Init
<1>2. TypeOK /\ StoredOnce /\ [Next]_vars => Promise!Next
  <2> SUFFICES ASSUME TypeOK, StoredOnce, [Next]_vars PROVE Promise!Next
    OBVIOUS
  <2>1. ASSUME NEW b \in Backends, NEW ns \in Costs, push(b, ns)
        PROVE  Promise!Next
    <3> DEFINE c == [id |-> issued + 1, db_oid |-> BackendDb[b]]
    <3>1. IssueTo(b) /\ push_rec(c) /\ UNCHANGED <<batch, calls>>
      BY <2>1 DEF push, workerVars
    <3>2. c \in Captures /\ c.id = issued + 1
      BY <3>1, IssueIsFresh DEF Captures
    <3> HIDE DEF c
    <3>3. Elems(recs)' \in {Elems(recs), Elems(recs) \cup {c}}
      <4>1. recs' \in {recs, Append(recs, c)} BY <3>1 DEF push_rec
      <4>2. Elems(Append(recs, c)) = Elems(recs) \cup {c}
        BY <3>2, ElemsOfAppend DEF TypeOK
      <4> QED BY <4>1, <4>2 DEF Elems
    <3>4. InFlight' \in {InFlight, InFlight \cup {c}}
      BY <3>1, <3>3 DEF InFlight
    <3>5. Pending' \in {Pending, Pending \cup {issued + 1}}
      BY <3>2, <3>4 DEF Pending
    <3> QED BY <3>1, <3>5, IssueIsObserved
  <2>2. ASSUME NEW b \in Backends, NEW ns \in Costs,
               capture_synchronous(b, ns)
        PROVE  Promise!Next
    <3>1. IssueTo(b) /\ UNCHANGED <<recs, batch>>
      BY <2>2 DEF capture_synchronous, workerVars
    <3>2. Pending' = Pending BY <3>1 DEF Pending, InFlight, Elems
    <3>3. calls' \in {calls, [calls EXCEPT ![BackendDb[b]][issued + 1] = @ + 1]}
      BY <2>2 DEF capture_synchronous
    <3> QED BY <3>1, <3>2, <3>3, IssueIsObserved
  <2>3. CASE drain
    <3>1. recs' = <<>> /\ batch' = kept /\ UNCHANGED <<calls, issued, origin>>
      BY <2>3 DEF drain, take_recs_into
    <3>2. InFlight' \subseteq InFlight
      BY <3>1, ElemsOfEmpty DEF InFlight, kept
    <3> QED BY <3>1, <3>2, LeavingIsSettled
  <2>4. CASE ServerRestart
    <3>1. recs' = <<>> /\ batch' = {} /\ UNCHANGED <<calls, issued, origin>>
      BY <2>4 DEF ServerRestart
    <3>2. InFlight' \subseteq InFlight
      BY <3>1, ElemsOfEmpty DEF InFlight
    <3> QED BY <3>1, <3>2, LeavingIsSettled
  <2>5. CASE \/ reset_overhead \/ aggregate_captures \/ UNCHANGED vars
             \/ plansight_bgworker_main \/ respawn \/ sigterm
             \/ \E d \in Databases \cup Missing : reload_database(d)
    <3>1. /\ UNCHANGED <<recs, calls, issued, origin>>
          /\ batch' \subseteq batch
      BY <2>5 DEF reset_overhead, aggregate_captures, plansight_bgworker_main,
         respawn, sigterm, reload_database, vars, ringVars, workerVars, histVars
    <3>2. InFlight' \subseteq InFlight BY <3>1 DEF InFlight, Elems
    <3> QED BY <3>1, <3>2, LeavingIsSettled
  <2> QED BY <2>1, <2>2, <2>3, <2>4, <2>5, PersistIsSettled DEF Next, Worker
<1>3. StoredOnce <=> InFlightIsFresh /\ CountedAtMostOnce /\ DatabaseIsolation
  BY DEF StoredOnce
<1> QED BY <1>1, <1>2, <1>3, TypeCorrect, StoredOnceAtHome, PTL
        DEF Spec, KeepsPromise, Promise!Spec
-----------------------------------------------------------------------------
(* A product grows with either factor.                                     *)
LEMMA ProductGrows ==
  ASSUME NEW n \in Nat, NEW a \in Nat, NEW b \in Nat, a <= b
  PROVE  /\ n * a <= n * b /\ (n + 1) * a = n * a + a
         /\ n * a \in Nat /\ n * b \in Nat
<1>1. PICK d \in Nat : b = a + d
  <2>1. b - a \in Nat /\ b = a + (b - a) OBVIOUS
  <2> QED BY <2>1
<1>2. n * d \in Nat /\ n * a \in Nat OBVIOUS
<1>3. n * b = n * a + n * d BY <1>1
<1>4. (n + 1) * a = n * a + a OBVIOUS
<1> QED BY <1>1, <1>2, <1>3, <1>4

(* One more value keeps the variance from being negative: the sum squared  *)
(* is at most the count times the sum of the squares (Cauchy's inequality).*)
LEMMA SquareOfSum ==
  ASSUME NEW n \in Nat, n > 0, NEW s \in Nat, NEW q \in Nat, NEW x \in Nat,
         s * s <= n * q
  PROVE  (s + x) * (s + x) <= (n + 1) * (q + x * x)
<1> DEFINE d == n * x - s
           cross == n * (x * x) + q - 2 * (s * x)
<1>1. /\ d \in Int /\ n * x \in Nat /\ x * x \in Nat /\ s * x \in Nat
      /\ s * s \in Nat /\ n * q \in Nat /\ n * (x * x) \in Nat /\ cross \in Int
  OBVIOUS
<1>2. d * d = (n * x) * (n * x) - 2 * ((n * x) * s) + s * s BY <1>1
<1>3. n * cross = n * (n * (x * x)) + n * q - 2 * (n * (s * x)) BY <1>1
<1>4. (n * x) * (n * x) = n * (n * (x * x)) /\ (n * x) * s = n * (s * x)
  OBVIOUS
<1>5. d * d >= 0 BY <1>1
<1>6. n * cross >= d * d
  <2>1. n * cross - d * d = n * q - s * s BY <1>1, <1>2, <1>3, <1>4
  <2> QED BY <1>1, <2>1
<1>7. n * cross >= 0 BY <1>1, <1>5, <1>6
<1>8. cross >= 0
  <2> HIDE DEF cross
  <2>1. CASE cross < 0
    <3>1. n * cross < 0 BY <1>1, <2>1
    <3> QED BY <1>1, <1>7, <3>1
  <2> QED BY <1>1, <2>1
<1>9. (s + x) * (s + x) = s * s + 2 * (s * x) + x * x OBVIOUS
<1>10. (n + 1) * (q + x * x) = n * q + n * (x * x) + q + x * x OBVIOUS
<1> QED BY <1>1, <1>8, <1>9, <1>10

(* What record_overhead keeps of a sample: also that the sum never passes  *)
(* the value it saturates at.                                              *)
IsSample(o) ==
  IF o.count = 0 THEN o = NoOverhead
  ELSE /\ o.min <= o.max /\ o.max <= o.sum /\ o.sum <= U64Max
       /\ o.sum <= o.count * o.max
       /\ o.sum < U64Max => o.count * o.min <= o.sum
       /\ o.sum < U64Max /\ o.sumsq < U128Max
            => o.sum * o.sum <= o.count * o.sumsq

LEMMA SampleKept ==
  ASSUME NEW o \in Accumulators, IsSample(o), NEW ns \in Costs
  PROVE  IsSample(record_overhead(o, ns))
<1> DEFINE n == o.count
           s == o.sum
           q == o.sumsq
           lo == o.min
           hi == o.max
           sum == LowerOf(s + ns, U64Max)
           sumsq == LowerOf(q + ns * ns, U128Max)
           min == LowerOf(lo, ns)
           max == HigherOf(hi, ns)
<1>1. /\ n \in Nat /\ s \in Nat /\ q \in Nat /\ lo \in Nat /\ hi \in Nat
      /\ ns \in Nat /\ ns <= U64Max /\ U64Max \in Nat /\ U128Max \in Nat
      /\ ns * ns \in Nat
  <2>1. ns \in Nat /\ ns <= U64Max BY RingAssumption
  <2> QED BY <2>1, RingAssumption DEF Accumulators
<1>2. record_overhead(o, ns) =
        [count |-> n + 1, sum |-> sum, sumsq |-> sumsq, min |-> min, max |-> max]
  BY DEF record_overhead
<1>3. SUFFICES /\ n + 1 # 0
               /\ min <= max /\ max <= sum /\ sum <= U64Max
               /\ sum <= (n + 1) * max
               /\ sum < U64Max => (n + 1) * min <= sum
               /\ sum < U64Max /\ sumsq < U128Max
                    => sum * sum <= (n + 1) * sumsq
  <2> HIDE DEF n, sum, sumsq, min, max
  <2> QED BY <1>2, <1>3 DEF IsSample
<1>4. n = 0 => s = 0 /\ q = 0 /\ lo = U64Max /\ hi = 0
  BY DEF IsSample, NoOverhead
<1>5. n # 0 => /\ lo <= hi /\ hi <= s /\ s <= U64Max /\ s <= n * hi
               /\ s < U64Max => n * lo <= s
               /\ s < U64Max /\ q < U128Max => s * s <= n * q
  BY DEF IsSample
<1> HIDE DEF n, s, q, lo, hi
<1>6. /\ sum \in Nat /\ sumsq \in Nat /\ min \in Nat /\ max \in Nat
      /\ min <= lo /\ min <= ns /\ hi <= max /\ ns <= max /\ min <= max
      /\ max \in {hi, ns} /\ sum <= s + ns /\ sum <= U64Max
      /\ sum < U64Max => sum = s + ns
      /\ sumsq < U128Max => sumsq = q + ns * ns
  <2>1. q + ns * ns \in Nat BY <1>1
  <2>2. \A a, b \in Nat : /\ LowerOf(a, b) \in {a, b} /\ LowerOf(a, b) <= a
                          /\ LowerOf(a, b) <= b
                          /\ HigherOf(a, b) \in {a, b} /\ a <= HigherOf(a, b)
                          /\ b <= HigherOf(a, b)
    BY DEF LowerOf, HigherOf
  <2>3. s + ns \in Nat BY <1>1
  <2>4. sumsq \in {q + ns * ns, U128Max} BY <1>1, <2>1, <2>2
  <2>5. sum \in {s + ns, U64Max} /\ sum <= s + ns /\ sum <= U64Max
    BY <1>1, <2>2, <2>3
  <2>6. /\ min \in {lo, ns} /\ min <= lo /\ min <= ns
        /\ max \in {hi, ns} /\ hi <= max /\ ns <= max
    BY <1>1, <2>2
  <2> HIDE DEF sum, sumsq, min, max
  <2> QED BY <1>1, <2>1, <2>3, <2>4, <2>5, <2>6
<1>7. max <= sum
  <2>1. hi <= s + ns /\ hi <= U64Max /\ ns <= s + ns BY <1>1, <1>4, <1>5
  <2>2. sum \in {s + ns, U64Max} BY DEF LowerOf
  <2> HIDE DEF sum, max
  <2> QED BY <1>1, <1>6, <2>1, <2>2
<1> HIDE DEF sum, sumsq, min, max
<1>8. sum <= (n + 1) * max
  <2>1. n * hi <= n * max /\ (n + 1) * max = n * max + max
        /\ n * hi \in Nat /\ n * max \in Nat
    BY <1>1, <1>6, ProductGrows
  <2>2. s <= n * hi
    <3>1. CASE n = 0 BY <1>1, <1>4, <2>1, <3>1
    <3> QED BY <1>5, <3>1
  <2> QED BY <1>1, <1>6, <2>1, <2>2
<1>9. ASSUME sum < U64Max PROVE (n + 1) * min <= sum
  <2>1. /\ n * min <= n * lo /\ (n + 1) * min = n * min + min
        /\ n * min \in Nat /\ n * lo \in Nat
    BY <1>1, <1>6, ProductGrows
  <2>2. sum = s + ns /\ s < U64Max BY <1>1, <1>6, <1>9
  <2>3. n * min <= s
    <3>1. CASE n = 0
      <4>1. n * min = 0 BY <1>6, <3>1
      <4> QED BY <1>1, <4>1
    <3>2. CASE n # 0 BY <1>1, <1>5, <2>1, <2>2, <3>2
    <3> QED BY <3>1, <3>2
  <2> QED BY <1>1, <1>6, <2>1, <2>2, <2>3
<1>10. ASSUME sum < U64Max, sumsq < U128Max
       PROVE  sum * sum <= (n + 1) * sumsq
  <2>1. sum = s + ns /\ s < U64Max BY <1>1, <1>6, <1>10
  <2>2. sumsq = q + ns * ns /\ q < U128Max BY <1>1, <1>6, <1>10
  <2>3. CASE n = 0
    <3>1. sum = ns /\ sumsq = ns * ns /\ n + 1 = 1
      BY <1>1, <1>4, <2>1, <2>2, <2>3
    <3>2. 1 * (ns * ns) = ns * ns BY <1>1
    <3> QED BY <1>1, <3>1, <3>2
  <2>4. CASE n # 0
    <3>1. s * s <= n * q /\ n > 0 BY <1>1, <1>5, <2>1, <2>2, <2>4
    <3>2. (s + ns) * (s + ns) <= (n + 1) * (q + ns * ns)
      BY <1>1, <3>1, SquareOfSum
    <3> QED BY <2>1, <2>2, <3>2
  <2> QED BY <2>3, <2>4
<1> QED BY <1>1, <1>6, <1>7, <1>8, <1>9, <1>10

(* For any costs below u64::MAX, any number of them and any resets: the    *)
(* overhead accumulator is that of a possible sample, saturated or not.    *)
THEOREM OverheadSampled == Spec => []OverheadIsASample
<1>1. Init => IsSample(ovh)
  BY DEF Init, IsSample, NoOverhead
<1>2. TypeOK /\ IsSample(ovh) /\ [Next]_vars => IsSample(ovh)'
  <2> SUFFICES ASSUME TypeOK, IsSample(ovh), [Next]_vars
               PROVE  IsSample(ovh')
    BY DEF IsSample
  <2>1. \/ ovh' = ovh \/ ovh' = NoOverhead
        \/ \E ns \in Costs : ovh' = record_overhead(ovh, ns)
    BY DEF Next, Worker, push, capture_synchronous, reset_overhead, drain,
           take_recs_into, aggregate_captures, persist_batch,
           plansight_bgworker_main, respawn, sigterm, reload_database,
           ServerRestart, vars,
           ringVars, workerVars, histVars
  <2>2. IsSample(NoOverhead) BY DEF IsSample, NoOverhead
  <2>3. ovh \in Accumulators BY DEF TypeOK, Accumulators
  <2> QED BY <2>1, <2>2, <2>3, SampleKept
<1>3. TypeOK /\ IsSample(ovh) => OverheadIsASample
  BY DEF IsSample, OverheadIsASample
<1> QED BY <1>1, <1>2, <1>3, TypeCorrect, PTL DEF Spec
=============================================================================
