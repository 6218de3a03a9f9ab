-------------------------- MODULE HookBackendProofs --------------------------
(***************************************************************************)
(* Proofs about HookBackend for every number of executions and addresses,  *)
(* every set of settings and every size of the sample map: the nesting     *)
(* level, the transaction end, and whose entry a capture uses.             *)
(***************************************************************************)
EXTENDS HookBackend, SequenceTheorems, TLAPS

Captures == [query : Queries, entry : Entries, depth : Nat]

(* The types of a backend's state.                                         *)
TypeOK ==
  /\ in_xact \in BOOLEAN /\ live \subseteq Queries
  /\ frames \in Seq(Execs) /\ nesting_level \in Nat
  /\ sample_map \in Seq(Entries)
  /\ capturing \in BOOLEAN /\ capture \subseteq Captures
  /\ seen \subseteq QueryIds /\ guc \in Gucs
  /\ started \in 0 .. MaxExecs /\ evicted \subseteq Execs

(* What the sample map holds, and that no two entries share an address.    *)
Held(s) == {s[k] : k \in DOMAIN s}
Distinct(s) == \A j, k \in DOMAIN s : s[j].addr = s[k].addr => j = k

(* Executions are numbered as they start, and those that live together     *)
(* have an address of their own.                                           *)
StartedInOrder ==
  /\ \A j \in DOMAIN frames : frames[j] <= started
  /\ \A q \in live : q.exec <= started
  /\ \A e \in Held(sample_map) : e.exec <= started
  /\ \A q, r \in live : q.exec = r.exec \/ q.addr = r.addr => q = r

(* An entry at the address of a living execution is that execution's, made *)
(* at its start: anything older was dropped there.                         *)
EntriesOfTheLiving ==
  \A e \in Held(sample_map), q \in live :
    /\ e.addr = q.addr <=> e.exec = q.exec
    /\ e.addr = q.addr => q.own /\ e.opts = q.instr

(* The capture at work, if any, has the flag set; only under it do our own *)
(* queries run, and their executors are on top of the stack it found.      *)
CaptureOnTop ==
  /\ \A c, d \in capture : c = d
  /\ IF capture = {} THEN SelfQueries = {} ELSE capturing
  /\ \A c \in capture :
       /\ c.depth <= Len(frames)
       /\ \A j \in 1 .. c.depth, q \in SelfQueries : frames[j] # q.exec

NothingOutside == ~in_xact => live = {} /\ frames = <<>> /\ capture = {}

IInv ==
  /\ TypeOK /\ StartedInOrder /\ EntriesOfTheLiving /\ CaptureOnTop
  /\ NothingOutside /\ NestingIsDepth /\ EntryOfItsQuery
  /\ CapturesAreTheUsers /\ IdleIsClean
-----------------------------------------------------------------------------
LEMMA HeldTyped ==
  ASSUME NEW s \in Seq(Entries)
  PROVE  /\ Len(s) \in Nat /\ DOMAIN s = 1 .. Len(s)
         /\ \A k \in DOMAIN s : s[k] \in Entries
         /\ Held(s) \subseteq Entries
  BY LenProperties, ElementOfSeq DEF Held

(* swap_remove takes out one element and keeps the others.                 *)
LEMMA SwapRemoved ==
  ASSUME NEW s \in Seq(Entries), Distinct(s), NEW k \in DOMAIN s
  PROVE  /\ swap_remove(s, k) \in Seq(Entries)
         /\ Distinct(swap_remove(s, k))
         /\ Held(swap_remove(s, k)) = {e \in Held(s) : e.addr # s[k].addr}
<1> DEFINE n == Len(s)
           t == swap_remove(s, k)
           pos(j) == IF j = k THEN n ELSE j
<1>1. /\ n \in Nat /\ DOMAIN s = 1 .. n /\ k \in 1 .. n
      /\ \A j \in 1 .. n : s[j] \in Entries
  BY HeldTyped
<1>2. \A j \in 1 .. n - 1 :
        /\ pos(j) \in 1 .. n /\ pos(j) # k
        /\ \A i \in 1 .. n - 1 : pos(i) = pos(j) => i = j
  BY <1>1
<1>3. t = [j \in 1 .. n - 1 |-> s[pos(j)]]
  BY <1>1 DEF swap_remove
<1>4. t \in Seq(Entries) /\ DOMAIN t = 1 .. n - 1
  <2> HIDE DEF pos
  <2>1. n - 1 \in Nat BY <1>1
  <2>2. [j \in 1 .. n - 1 |-> s[pos(j)]] \in [1 .. n - 1 -> Entries]
    BY <1>1, <1>2
  <2> HIDE DEF t
  <2> QED BY <1>3, <2>1, <2>2
<1>5. \A j \in 1 .. n - 1 : t[j] = s[pos(j)] BY <1>3
<1>6. \A i \in 1 .. n : i # k => \E j \in 1 .. n - 1 : pos(j) = i
  <2> SUFFICES ASSUME NEW i \in 1 .. n, i # k
               PROVE  \E j \in 1 .. n - 1 : pos(j) = i
    OBVIOUS
  <2>1. CASE i = n
    <3>1. k \in 1 .. n - 1 BY <1>1, <2>1
    <3> QED BY <3>1, <2>1
  <2>2. CASE i # n
    <3>1. i \in 1 .. n - 1
      <4> HIDE DEF n
      <4> QED BY <1>1, <2>2
    <3>2. pos(i) = i OBVIOUS
    <3> QED BY <3>1, <3>2
  <2> QED BY <2>1, <2>2
<1> HIDE DEF t, pos, n
<1>7. Distinct(t) BY <1>1, <1>2, <1>4, <1>5 DEF Distinct
<1>8. \A e \in Held(t) : e \in Held(s) /\ e.addr # s[k].addr
  BY <1>1, <1>2, <1>4, <1>5 DEF Distinct, Held
<1>9. \A e \in Held(s) : e.addr # s[k].addr => e \in Held(t)
  <2> SUFFICES ASSUME NEW i \in 1 .. n, s[i].addr # s[k].addr
               PROVE  s[i] \in Held(t)
    BY <1>1 DEF Held
  <2>1. PICK j \in 1 .. n - 1 : pos(j) = i BY <1>6
  <2>2. t[j] = s[i] BY <2>1, <1>5
  <2> QED BY <2>2, <1>4 DEF Held
<1>10. t \in Seq(Entries) /\ Distinct(t)
       /\ Held(t) = {e \in Held(s) : e.addr # s[k].addr}
  BY <1>4, <1>7, <1>8, <1>9
<1> QED BY <1>10 DEF t

(* What is left once the stale entry at an address is dropped, or the      *)
(* entry of an execution is taken.                                         *)
LEMMA StaleDropped ==
  ASSUME sample_map \in Seq(Entries), Distinct(sample_map), NEW addr
  PROVE  /\ drop_stale(addr) \in Seq(Entries)
         /\ Distinct(drop_stale(addr))
         /\ Held(drop_stale(addr)) = {e \in Held(sample_map) : e.addr # addr}
<1>1. CASE IndexOf(addr) = {}
  <2>1. \A e \in Held(sample_map) : e.addr # addr BY <1>1 DEF IndexOf, Held
  <2> QED BY <1>1, <2>1 DEF drop_stale
<1>2. CASE IndexOf(addr) # {}
  <2> DEFINE k == CHOOSE k \in IndexOf(addr) : TRUE
  <2>1. k \in DOMAIN sample_map /\ sample_map[k].addr = addr
    BY <1>2 DEF IndexOf
  <2>2. drop_stale(addr) = swap_remove(sample_map, k)
    BY <1>2 DEF drop_stale
  <2> HIDE DEF k
  <2> QED BY <2>1, <2>2, SwapRemoved
<1> QED BY <1>1, <1>2

(* Room for one more: nothing, or the entry at index 0, goes.              *)
LEMMA Evicted ==
  ASSUME NEW s \in Seq(Entries), Distinct(s)
  PROVE  /\ evict(s) \in Seq(Entries) /\ Distinct(evict(s))
         /\ Held(evict(s)) \subseteq Held(s)
         /\ \A e \in Held(s) :
              e \in Held(evict(s)) \/ (Len(s) >= SampleMapCap /\ e = s[1])
         /\ Len(s) >= SampleMapCap => s[1] \in Held(s)
<1>1. CASE Len(s) < SampleMapCap
  BY <1>1, HeldTyped, HookAssumption DEF evict
<1>2. CASE ~(Len(s) < SampleMapCap)
  <2>1. /\ Len(s) \in Nat /\ Len(s) >= 1 /\ Len(s) >= SampleMapCap
        /\ DOMAIN s = 1 .. Len(s)
    BY <1>2, HeldTyped, HookAssumption
  <2>2. s # <<>> BY <2>1, EmptySeq
  <2>3. /\ Tail(s) \in Seq(Entries) /\ Len(Tail(s)) = Len(s) - 1
        /\ \A i \in 1 .. Len(s) - 1 : Tail(s)[i] = s[i + 1]
    BY <2>2, HeadTailProperties
  <2>4. DOMAIN Tail(s) = 1 .. Len(s) - 1 BY <2>3, LenProperties
  <2>5. evict(s) = Tail(s) BY <2>1 DEF evict
  <2>6. Distinct(Tail(s))
    <3> SUFFICES ASSUME NEW i \in 1 .. Len(s) - 1, NEW j \in 1 .. Len(s) - 1,
                        Tail(s)[i].addr = Tail(s)[j].addr
                 PROVE  i = j
      BY <2>4 DEF Distinct
    <3>1. i + 1 \in DOMAIN s /\ j + 1 \in DOMAIN s BY <2>1
    <3>2. i + 1 = j + 1 BY <3>1, <2>3 DEF Distinct
    <3> QED BY <3>2
  <2>7. \A e \in Held(Tail(s)) : e \in Held(s)
    BY <2>1, <2>3, <2>4 DEF Held
  <2>8. \A e \in Held(s) : e \in Held(Tail(s)) \/ e = s[1]
    <3> SUFFICES ASSUME NEW i \in 1 .. Len(s), i # 1
                 PROVE  s[i] \in Held(Tail(s))
      BY <2>1 DEF Held
    <3>1. i - 1 \in 1 .. Len(s) - 1 /\ (i - 1) + 1 = i BY <2>1
    <3>2. Tail(s)[i - 1] = s[i] BY <3>1, <2>3
    <3> QED BY <3>1, <3>2, <2>4 DEF Held
  <2>9. s[1] \in Held(s) BY <2>1 DEF Held
  <2> QED BY <2>1, <2>3, <2>5, <2>6, <2>7, <2>8, <2>9
<1> QED BY <1>1, <1>2

(* An entry at an address that is not in the map.                          *)
LEMMA EntryPushed ==
  ASSUME NEW s \in Seq(Entries), Distinct(s), NEW e \in Entries,
         \A x \in Held(s) : x.addr # e.addr
  PROVE  /\ Append(s, e) \in Seq(Entries) /\ Distinct(Append(s, e))
         /\ Held(Append(s, e)) = Held(s) \cup {e}
<1>1. /\ Append(s, e) \in Seq(Entries) /\ Len(Append(s, e)) = Len(s) + 1
      /\ \A i \in 1 .. Len(s) : Append(s, e)[i] = s[i]
      /\ Append(s, e)[Len(s) + 1] = e
  BY AppendProperties
<1>2. /\ Len(s) \in Nat /\ DOMAIN s = 1 .. Len(s)
      /\ DOMAIN Append(s, e) = 1 .. Len(s) + 1
  BY <1>1, LenProperties
<1>3. \A i \in 1 .. Len(s) + 1 : i \in 1 .. Len(s) \/ i = Len(s) + 1
  BY <1>2
<1>4. Held(Append(s, e)) = Held(s) \cup {e}
  BY <1>1, <1>2, <1>3 DEF Held
<1>5. Distinct(Append(s, e))
  BY <1>1, <1>2, <1>3 DEF Distinct, Held
<1> QED BY <1>1, <1>4, <1>5

(* The frames below a depth.                                               *)
LEMMA FramesBelow ==
  ASSUME NEW s \in Seq(Execs), NEW k \in 0 .. Len(s)
  PROVE  /\ Front(s, k) \in Seq(Execs) /\ Len(Front(s, k)) = k
         /\ DOMAIN Front(s, k) = 1 .. k
         /\ \A i \in 1 .. k : Front(s, k)[i] = s[i]
<1>1. Len(s) \in Nat /\ \A i \in 1 .. k : s[i] \in Execs
  BY LenProperties, ElementOfSeq
<1>2. /\ Front(s, k) \in Seq(Execs) /\ Len(Front(s, k)) = k
      /\ \A i \in 1 .. k : Front(s, k)[i] = s[i]
  BY <1>1, SubSeqProperties DEF Front
<1> QED BY <1>2, LenProperties
-----------------------------------------------------------------------------
(* Facts about the map and the stack that every step uses.                 *)
LEMMA BackendFacts ==
  ASSUME IInv
  PROVE  /\ Distinct(sample_map) /\ Held(sample_map) \subseteq Entries
         /\ Len(frames) \in Nat /\ DOMAIN frames = 1 .. Len(frames)
         /\ nesting_level = Len(frames) /\ MaxExecs \in Nat
         /\ \A q \in live : q.own =>
              \/ \E e \in Held(sample_map) : e.exec = q.exec
              \/ q.exec \in evicted
              \/ \E c \in capture : c.query = q
<1>1. Distinct(sample_map) BY DEF IInv, EntryOfItsQuery, Distinct
<1>2. Held(sample_map) \subseteq Entries BY HeldTyped DEF IInv, TypeOK
<1>3. \A q \in live : q.own =>
        \/ \E e \in Held(sample_map) : e.exec = q.exec
        \/ q.exec \in evicted
        \/ \E c \in capture : c.query = q
  BY DEF IInv, EntryOfItsQuery, OwnedIsTracked, Held
<1>4. Len(frames) \in Nat /\ DOMAIN frames = 1 .. Len(frames)
  BY LenProperties DEF IInv, TypeOK
<1> QED BY <1>1, <1>2, <1>3, <1>4, HookAssumption DEF IInv, NestingIsDepth

(* EntryOfItsQuery in terms of what the map holds.                         *)
LEMMA TrackedByHeld ==
  ASSUME \A c \in capture : /\ c.entry.exec = c.query.exec /\ c.query.own
                            /\ c.entry.opts = c.query.instr,
         Distinct(sample_map),
         \A q \in live : q.own =>
           \/ \E e \in Held(sample_map) : e.exec = q.exec
           \/ q.exec \in evicted
           \/ \E c \in capture : c.query = q
  PROVE  EntryOfItsQuery
<1>1. OwnedIsTracked BY DEF OwnedIsTracked, Held
<1> QED BY <1>1 DEF EntryOfItsQuery, Distinct

(* The start of a backend.                                                 *)
LEMMA InitInv == Init => IInv
<1> SUFFICES ASSUME Init PROVE IInv OBVIOUS
<1>1. /\ <<>> \in Seq(Execs) /\ <<>> \in Seq(Entries) /\ Len(<<>>) = 0
      /\ Held(<<>>) = {} /\ Distinct(<<>>)
  BY EmptySeq DEF Held, Distinct
<1>2. TypeOK
  <2>1. 0 \in Nat /\ 0 \in 0 .. MaxExecs BY HookAssumption
  <2> QED BY <1>1, <2>1, Zenon DEF Init, TypeOK
<1>3. EntryOfItsQuery BY <1>1, TrackedByHeld DEF Init
<1> QED BY <1>1, <1>2, <1>3
        DEF Init, IInv, StartedInOrder, EntriesOfTheLiving, CaptureOnTop,
            NothingOutside, NestingIsDepth, CapturesAreTheUsers, IdleIsClean,
            SelfQueries

(* Frames are left, executions end or are forgotten and no capture goes on:*)
(* an error that is caught, and the end of a capture.                      *)
LEMMA UnwoundInv ==
  ASSUME IInv, NEW k \in 0 .. Len(frames),
         frames' = Front(frames, k), nesting_level' = k,
         live' \subseteq live, \A q \in live' : ~q.self,
         \A c \in capture : c.query \notin live',
         capture' = {}, capturing' \in {FALSE, capturing},
         UNCHANGED <<in_xact, sample_map, seen, guc, started, evicted>>
  PROVE  IInv'
<1>1. /\ frames' \in Seq(Execs) /\ Len(frames') = k /\ DOMAIN frames' = 1 .. k
      /\ \A j \in 1 .. k : frames'[j] = frames[j]
  BY FramesBelow DEF IInv, TypeOK
<1>2. k \in Nat /\ \A j \in 1 .. k : j \in DOMAIN frames
  BY BackendFacts
<1>3. TypeOK' BY <1>1, <1>2 DEF IInv, TypeOK
<1>4. StartedInOrder'
  <2>1. \A j \in DOMAIN frames' : frames'[j] <= started
    BY <1>1, <1>2 DEF IInv, StartedInOrder
  <2> QED BY <2>1 DEF IInv, StartedInOrder
<1>5. EntriesOfTheLiving' BY DEF IInv, EntriesOfTheLiving
<1>6. CaptureOnTop' BY DEF CaptureOnTop, SelfQueries
<1>7. NothingOutside'
  <2>1. ~in_xact => k = 0 /\ live' = {}
    BY EmptySeq DEF IInv, NothingOutside
  <2>2. k = 0 => frames' = <<>> BY SubSeqEmpty DEF Front
  <2> QED BY <2>1, <2>2 DEF NothingOutside
<1>8. NestingIsDepth' BY <1>1 DEF NestingIsDepth
<1>9. EntryOfItsQuery'
  <2>1. \A q \in live' : q.own =>
          \/ \E e \in Held(sample_map) : e.exec = q.exec
          \/ q.exec \in evicted
    BY BackendFacts
  <2>2. (\A q \in live : q.own =>
          \/ \E e \in Held(sample_map) : e.exec = q.exec
          \/ q.exec \in evicted
          \/ \E c \in capture : c.query = q)'
    BY <2>1
  <2>3. Distinct(sample_map)' BY BackendFacts DEF Distinct
  <2> QED BY <2>2, <2>3
          DEF IInv, EntryOfItsQuery, OwnedIsTracked, Held, Distinct
<1>10. CapturesAreTheUsers' BY DEF IInv, CapturesAreTheUsers
<1>11. IdleIsClean'
  <2>1. ~in_xact => k = 0 /\ ~capturing
    BY EmptySeq DEF IInv, NothingOutside, IdleIsClean
  <2> QED BY <2>1 DEF IInv, IdleIsClean
<1> QED BY <1>3, <1>4, <1>5, <1>6, <1>7, <1>8, <1>9, <1>10, <1>11 DEF IInv

LEMMA UnwindUnwound ==
  ASSUME IInv, NEW k \in 0 .. Len(frames), NEW lost, Unwind(k, lost)
  PROVE  /\ frames' = Front(frames, k) /\ nesting_level' = k
         /\ live' \subseteq live /\ live' \cap lost = {}
<1>1. nesting_level' = k BY BackendFacts DEF Unwind, nesting_after
<1> QED BY <1>1 DEF Unwind

(* A caught error, at any depth the capture at work does not lie above.    *)
LEMMA CaughtErrorInv ==
  ASSUME IInv, NEW k \in 0 .. Len(frames), CaughtError(k)
  PROVE  IInv'
<1>1. PICK lost \in SUBSET live :
        Unwind(k, lost \cup SelfQueries \cup {c.query : c \in capture})
  BY DEF CaughtError
<1> DEFINE gone == lost \cup SelfQueries \cup {c.query : c \in capture}
<1>2. /\ frames' = Front(frames, k) /\ nesting_level' = k
      /\ live' \subseteq live /\ live' \cap gone = {}
  <2> HIDE DEF gone
  <2>1. Unwind(k, gone) BY <1>1 DEF gone
  <2> QED BY <2>1, UnwindUnwound
<1>3. \A q \in live' : ~q.self BY <1>2 DEF SelfQueries
<1>4. \A c \in capture : c.query \notin live' BY <1>2
<1>5. /\ capture' = {} /\ capturing' \in {FALSE, capturing}
      /\ UNCHANGED <<in_xact, sample_map, seen, guc, started, evicted>>
  BY DEF CaughtError
<1> QED BY <1>2, <1>3, <1>4, <1>5, UnwoundInv

(* The end of a capture, by its return or by an error of its own.          *)
LEMMA CaptureEndsInv == IInv /\ capture_ends => IInv'
<1> SUFFICES ASSUME IInv, capture_ends PROVE IInv' OBVIOUS
<1>1. PICK c \in capture :
        \/ /\ SelfQueries = {} /\ Len(frames) = c.depth
           /\ live' = live \ {c.query}
           /\ UNCHANGED <<frames, nesting_level>>
        \/ Unwind(c.depth, SelfQueries \cup {c.query})
  BY DEF capture_ends
<1>2. /\ capture' = {} /\ capturing' \in {FALSE, capturing}
      /\ UNCHANGED <<in_xact, sample_map, seen, guc, started, evicted>>
  BY DEF capture_ends
<1>3. c.depth \in 0 .. Len(frames)
  BY BackendFacts DEF IInv, CaptureOnTop, TypeOK, Captures
<1>4. \A d \in capture : d = c BY DEF IInv, CaptureOnTop
<1>5. CASE /\ SelfQueries = {} /\ Len(frames) = c.depth
           /\ live' = live \ {c.query}
           /\ UNCHANGED <<frames, nesting_level>>
  <2>1. frames' = Front(frames, c.depth) /\ nesting_level' = c.depth
    BY <1>5, BackendFacts, SubSeqFull DEF Front, IInv, TypeOK
  <2>2. \A q \in live' : ~q.self BY <1>5 DEF SelfQueries
  <2>3. \A d \in capture : d.query \notin live' BY <1>4, <1>5
  <2> QED BY <1>2, <1>3, <1>5, <2>1, <2>2, <2>3, UnwoundInv
<1>6. CASE Unwind(c.depth, SelfQueries \cup {c.query})
  <2>1. /\ frames' = Front(frames, c.depth) /\ nesting_level' = c.depth
        /\ live' \subseteq live
        /\ live' \cap (SelfQueries \cup {c.query}) = {}
    BY <1>3, <1>6, UnwindUnwound
  <2>2. \A q \in live' : ~q.self BY <2>1 DEF SelfQueries
  <2>3. \A d \in capture : d.query \notin live' BY <1>4, <2>1
  <2> QED BY <1>2, <1>3, <2>1, <2>2, <2>3, UnwoundInv
<1> QED BY <1>1, <1>5, <1>6

(* An executor goes in: our own one above the frames the capture found.    *)
LEMMA RunInv ==
  ASSUME IInv, NEW q \in live, plansight_ExecutorRun(q)
  PROVE  IInv'
<1> DEFINE top == Len(frames) + 1
<1>1. /\ frames' = Append(frames, q.exec) /\ nesting_level' = nesting_level + 1
      /\ UNCHANGED <<in_xact, live, sample_map, capturing, capture, seen, guc,
                     started, evicted>>
  BY DEF plansight_ExecutorRun
<1>2. q.exec \in Execs /\ q.exec <= started
  BY DEF IInv, TypeOK, Queries, StartedInOrder
<1>3. /\ frames' \in Seq(Execs) /\ Len(frames') = top
      /\ \A j \in 1 .. Len(frames) : frames'[j] = frames[j]
      /\ frames'[top] = q.exec
  BY <1>1, <1>2, AppendProperties DEF IInv, TypeOK
<1>4. DOMAIN frames' = 1 .. top /\ Len(frames) \in Nat
      /\ \A j \in 1 .. top : j \in 1 .. Len(frames) \/ j = top
  BY <1>3, LenProperties, BackendFacts
<1> HIDE DEF top
<1>5. TypeOK' BY <1>1, <1>3 DEF IInv, TypeOK
<1>6. StartedInOrder'
  <2>1. \A j \in DOMAIN frames' : frames'[j] <= started
    BY <1>2, <1>3, <1>4, BackendFacts DEF IInv, StartedInOrder
  <2> QED BY <2>1, <1>1 DEF IInv, StartedInOrder
<1>7. EntriesOfTheLiving' BY <1>1 DEF IInv, EntriesOfTheLiving
<1>8. CaptureOnTop'
  <2>1. \A c \in capture : c.depth \in Nat /\ c.depth <= Len(frames)
    BY DEF IInv, TypeOK, Captures, CaptureOnTop
  <2>2. \A c \in capture :
          /\ c.depth <= top
          /\ \A j \in 1 .. c.depth : frames'[j] = frames[j]
    BY <2>1, <1>3, <1>4 DEF top
  <2>3. SelfQueries' = SelfQueries BY <1>1 DEF SelfQueries
  <2>4. \A c \in capture :
          /\ c.depth <= Len(frames')
          /\ \A j \in 1 .. c.depth, r \in SelfQueries : frames'[j] # r.exec
    BY <2>2, <1>3 DEF IInv, CaptureOnTop
  <2> QED BY <2>3, <2>4, <1>1 DEF IInv, CaptureOnTop
<1>9. NothingOutside' BY <1>1 DEF IInv, NothingOutside
<1>10. NestingIsDepth'
  BY <1>1, <1>3, BackendFacts DEF NestingIsDepth, top
<1>11. EntryOfItsQuery' /\ CapturesAreTheUsers'
  BY <1>1 DEF IInv, EntryOfItsQuery, OwnedIsTracked, CapturesAreTheUsers
<1>12. IdleIsClean' BY <1>1 DEF IInv, IdleIsClean, NothingOutside
<1> QED BY <1>5, <1>6, <1>7, <1>8, <1>9, <1>10, <1>11, <1>12 DEF IInv

(* An executor returns: under a capture, only one of its own does.         *)
LEMMA ReturnInv == IInv /\ ExecutorRunReturns => IInv'
<1> SUFFICES ASSUME IInv, ExecutorRunReturns PROVE IInv' OBVIOUS
<1> DEFINE k == Len(frames) - 1
<1>1. /\ frames # <<>> /\ frames' = Front(frames, k)
      /\ nesting_level' = nesting_level - 1
      /\ UNCHANGED <<in_xact, live, sample_map, capturing, capture, seen, guc,
                     started, evicted>>
  BY DEF ExecutorRunReturns
<1>2. Len(frames) \in Nat \ {0} BY <1>1, EmptySeq DEF IInv, TypeOK
<1>3. k \in 0 .. Len(frames) /\ k \in Nat BY <1>2
<1>4. /\ frames' \in Seq(Execs) /\ Len(frames') = k /\ DOMAIN frames' = 1 .. k
      /\ \A j \in 1 .. k : frames'[j] = frames[j]
  BY <1>1, <1>3, FramesBelow DEF IInv, TypeOK
<1>5. \A c \in capture : c.depth <= k
  <2> SUFFICES ASSUME NEW c \in capture, ~(c.depth <= k) PROVE FALSE
    OBVIOUS
  <2>1. c.depth \in Nat /\ c.depth <= Len(frames)
    BY DEF IInv, TypeOK, Captures, CaptureOnTop
  <2>2. c.depth = Len(frames) BY <2>1, <1>2
  <2>3. PICK q \in SelfQueries : q.exec = frames[Len(frames)]
    BY DEF ExecutorRunReturns, SelfQueries
  <2>4. Len(frames) \in 1 .. c.depth BY <2>2, <1>2
  <2> QED BY <2>3, <2>4 DEF IInv, CaptureOnTop
<1>6. nesting_level' = k BY <1>1, BackendFacts
<1> HIDE DEF k
<1>7. TypeOK' BY <1>1, <1>3, <1>4, <1>6 DEF IInv, TypeOK
<1>8. StartedInOrder'
  <2>1. \A j \in DOMAIN frames' : frames'[j] <= started
    <3>1. \A j \in 1 .. k : j \in DOMAIN frames BY <1>3, BackendFacts
    <3> QED BY <3>1, <1>4 DEF IInv, StartedInOrder
  <2> QED BY <2>1, <1>1 DEF IInv, StartedInOrder
<1>9. EntriesOfTheLiving' BY <1>1 DEF IInv, EntriesOfTheLiving
<1>10. CaptureOnTop'
  <2>1. SelfQueries' = SelfQueries BY <1>1 DEF SelfQueries
  <2>2. \A c \in capture :
          /\ c.depth <= Len(frames')
          /\ \A j \in 1 .. c.depth, r \in SelfQueries : frames'[j] # r.exec
    <3> SUFFICES ASSUME NEW c \in capture, NEW j \in 1 .. c.depth
                 PROVE  j \in 1 .. k
      BY <1>4, <1>5 DEF IInv, CaptureOnTop
    <3>1. c.depth \in Nat BY DEF IInv, TypeOK, Captures
    <3> QED BY <3>1, <1>3, <1>5
  <2> QED BY <2>1, <2>2, <1>1 DEF IInv, CaptureOnTop
<1>11. in_xact BY <1>1 DEF IInv, NothingOutside
<1>12. NothingOutside' /\ IdleIsClean'
  BY <1>1, <1>11 DEF NothingOutside, IdleIsClean
<1>13. NestingIsDepth' BY <1>4, <1>6 DEF NestingIsDepth
<1>14. EntryOfItsQuery' /\ CapturesAreTheUsers'
  BY <1>1 DEF IInv, EntryOfItsQuery, OwnedIsTracked, CapturesAreTheUsers
<1> QED BY <1>7, <1>8, <1>9, <1>10, <1>12, <1>13, <1>14 DEF IInv

(* An execution's entry leaves the map, and no other execution's.          *)
LEMMA EntryTaken ==
  ASSUME IInv, NEW q \in live, NEW map \in Seq(Entries), Distinct(map),
         Held(map) = {e \in Held(sample_map) : e.addr # q.addr}
  PROVE  \A r \in live \ {q} : r.own =>
           \/ \E e \in Held(map) : e.exec = r.exec
           \/ r.exec \in evicted
           \/ \E c \in capture : c.query = r
<1> SUFFICES ASSUME NEW r \in live, r # q, NEW e \in Held(sample_map),
                    e.exec = r.exec
             PROVE  e.addr # q.addr
  BY BackendFacts
<1>1. r.exec # q.exec BY DEF IInv, StartedInOrder
<1> QED BY <1>1 DEF IInv, EntriesOfTheLiving

(* An execution ends without a capture.                                    *)
LEMMA EndInv ==
  ASSUME IInv, NEW q \in live, executor_end(q)
  PROVE  IInv'
<1>1. /\ live' = live \ {q}
      /\ UNCHANGED <<in_xact, frames, nesting_level, capturing, capture, seen,
                     guc, started, evicted>>
  BY DEF executor_end
<1>2. sample_map' = drop_stale(q.addr)
  BY DEF executor_end, entry_of, drop_stale
<1>3. /\ sample_map' \in Seq(Entries) /\ Distinct(sample_map')
      /\ Held(sample_map') = {e \in Held(sample_map) : e.addr # q.addr}
  BY <1>2, BackendFacts, StaleDropped DEF IInv, TypeOK
<1>4. TypeOK' BY <1>1, <1>3 DEF IInv, TypeOK
<1>5. StartedInOrder' BY <1>1, <1>3 DEF IInv, StartedInOrder, Held
<1>6. EntriesOfTheLiving' BY <1>1, <1>3 DEF IInv, EntriesOfTheLiving, Held
<1>7. CaptureOnTop'
  BY <1>1 DEF IInv, CaptureOnTop, SelfQueries
<1>8. in_xact BY DEF IInv, NothingOutside
<1>9. NothingOutside' /\ IdleIsClean'
  BY <1>1, <1>8 DEF NothingOutside, IdleIsClean
<1>10. NestingIsDepth' BY <1>1 DEF IInv, NestingIsDepth
<1>11. EntryOfItsQuery'
  <2>1. \A r \in live' : r.own =>
          \/ \E e \in Held(sample_map') : e.exec = r.exec
          \/ r.exec \in evicted
          \/ \E c \in capture : c.query = r
    BY <1>1, <1>3, EntryTaken
  <2> QED BY <2>1, <1>1, <1>3
          DEF IInv, EntryOfItsQuery, OwnedIsTracked, Held, Distinct
<1>12. CapturesAreTheUsers' BY <1>1 DEF IInv, CapturesAreTheUsers
<1> QED BY <1>4, <1>5, <1>6, <1>7, <1>9, <1>10, <1>11, <1>12 DEF IInv

(* A capture begins, with the entry found at the execution's address.      *)
LEMMA CaptureInv ==
  ASSUME IInv, NEW q \in live, maybe_capture(q)
  PROVE  IInv'
<1>1. /\ capture = {} /\ capturing' = TRUE
      /\ UNCHANGED <<in_xact, live, frames, nesting_level, seen, guc, started,
                     evicted>>
  BY DEF maybe_capture
<1>2. PICK k \in entry_of(q) :
        /\ sample_map' = swap_remove(sample_map, k)
        /\ capture' = {[query |-> q, entry |-> sample_map[k],
                        depth |-> Len(frames)]}
  BY DEF maybe_capture
<1> DEFINE entry == sample_map[k]
           c == [query |-> q, entry |-> entry, depth |-> Len(frames)]
<1>3. /\ k \in DOMAIN sample_map /\ entry.addr = q.addr
      /\ entry \in Held(sample_map)
  BY DEF entry_of, IndexOf, Held
<1>4. /\ sample_map' \in Seq(Entries) /\ Distinct(sample_map')
      /\ Held(sample_map') = {e \in Held(sample_map) : e.addr # q.addr}
  BY <1>2, <1>3, BackendFacts, SwapRemoved DEF IInv, TypeOK
<1>5. entry.exec = q.exec /\ q.own /\ entry.opts = q.instr
  BY <1>3 DEF IInv, EntriesOfTheLiving
<1>6. entry \in Entries /\ q \in Queries
  BY <1>3, BackendFacts DEF IInv, TypeOK
<1>7. c \in Captures /\ capture' = {c}
      /\ c.query = q /\ c.entry = entry /\ c.depth = Len(frames)
  BY <1>2, <1>6, BackendFacts DEF Captures
<1> HIDE DEF entry, c
<1>8. TypeOK' BY <1>1, <1>4, <1>7 DEF IInv, TypeOK
<1>9. StartedInOrder' BY <1>1, <1>4 DEF IInv, StartedInOrder, Held
<1>10. EntriesOfTheLiving' BY <1>1, <1>4 DEF IInv, EntriesOfTheLiving, Held
<1>11. CaptureOnTop'
  <2>1. SelfQueries' = {} BY <1>1 DEF IInv, CaptureOnTop, SelfQueries
  <2>2. Len(frames)' = Len(frames) /\ Len(frames) <= Len(frames)
    BY <1>1, BackendFacts
  <2> QED BY <2>1, <2>2, <1>1, <1>7 DEF CaptureOnTop
<1>12. in_xact BY DEF IInv, NothingOutside
<1>13. NothingOutside' /\ IdleIsClean'
  BY <1>1, <1>12 DEF NothingOutside, IdleIsClean
<1>14. NestingIsDepth' BY <1>1 DEF IInv, NestingIsDepth
<1>15. EntryOfItsQuery'
  <2>1. \A r \in live \ {q} : r.own =>
          \/ \E e \in Held(sample_map') : e.exec = r.exec
          \/ r.exec \in evicted
    BY <1>1, <1>4, EntryTaken
  <2>2. \A r \in live' : r.own =>
          \/ \E e \in Held(sample_map') : e.exec = r.exec
          \/ r.exec \in evicted
          \/ \E d \in capture' : d.query = r
    BY <2>1, <1>1, <1>7
  <2>3. \A d \in capture' : /\ d.entry.exec = d.query.exec /\ d.query.own
                            /\ d.entry.opts = d.query.instr
    BY <1>5, <1>7
  <2> QED BY <2>2, <2>3, <1>1, <1>4
          DEF EntryOfItsQuery, OwnedIsTracked, Held, Distinct
<1>16. CapturesAreTheUsers' BY <1>1 DEF IInv, CapturesAreTheUsers
<1> QED BY <1>8, <1>9, <1>10, <1>11, <1>13, <1>14, <1>15, <1>16 DEF IInv

(* want_capture draws only for an eligible query, and marks a queryId.     *)
LEMMA Drawn ==
  ASSUME NEW g \in Gucs, NEW qid \in QueryIds
  PROVE  /\ want_capture(g, qid) \subseteq BOOLEAN
         /\ seen \subseteq QueryIds => seen_after(g, qid) \subseteq QueryIds
<1>1. g.rate \in Rates BY HookAssumption
<1> QED BY <1>1 DEF want_capture, seen_after, Rates

(* An execution starts: ours only if it is eligible, and then with the one *)
(* entry at its address.                                                   *)
LEMMA StartInv ==
  ASSUME IInv, NEW addr \in Addrs, NEW qid \in QueryIds,
         executor_start(addr, qid)
  PROVE  IInv'
<1> DEFINE e == eligible(guc)
           id == IF e THEN qid ELSE 0
           exec == started + 1
           cleared == drop_stale(addr)
           room == evict(cleared)
           entry == [addr |-> addr, opts |-> guc.opts, exec |-> exec]
<1>1. PICK want \in (IF e THEN want_capture(guc, id) ELSE {FALSE}),
           free \in BOOLEAN :
        LET own == want /\ free
            full == own /\ Len(cleared) >= SampleMapCap
        IN /\ seen' = IF e THEN seen_after(guc, id) ELSE seen
           /\ live' = live \cup
                {[exec |-> exec, addr |-> addr,
                  level |-> Len(frames), own |-> own,
                  instr |-> IF want THEN guc.opts ELSE "stats",
                  nested_ok |-> guc.track_nested,
                  self |-> capture # {}]}
           /\ sample_map' = IF own THEN Append(room, entry) ELSE cleared
           /\ evicted' = IF full THEN evicted \cup {cleared[1].exec}
                                 ELSE evicted
           /\ started' = exec
  BY Zenon DEF executor_start
<1>2. /\ in_xact /\ started < MaxExecs /\ addr \in FreeAddrs
      /\ UNCHANGED <<in_xact, frames, nesting_level, capturing, capture, guc>>
  BY DEF executor_start
<1> DEFINE own == want /\ free
           full == own /\ Len(cleared) >= SampleMapCap
           q == [exec |-> exec, addr |-> addr, level |-> Len(frames),
                 own |-> own, instr |-> IF want THEN guc.opts ELSE "stats",
                 nested_ok |-> guc.track_nested, self |-> capture # {}]
<1>3. /\ guc \in Gucs /\ guc.opts \in Opts /\ guc.track_nested \in BOOLEAN
      /\ id \in QueryIds /\ exec \in Execs /\ exec \in 0 .. MaxExecs
      /\ started \in Nat
  BY <1>2, HookAssumption, BackendFacts DEF IInv, TypeOK, Execs
<1>4. want \in BOOLEAN /\ own \in BOOLEAN /\ (own => want) /\ (want => e)
  BY <1>1, <1>3, Drawn
<1>5. e => /\ capture = {} /\ (Len(frames) = 0 \/ guc.track_nested)
  BY BackendFacts DEF eligible, IInv, CaptureOnTop
<1>6. q \in Queries /\ entry \in Entries
  BY <1>3, <1>4, BackendFacts DEF Queries, Entries, Opts
<1>7. /\ cleared \in Seq(Entries) /\ Distinct(cleared)
      /\ Held(cleared) = {x \in Held(sample_map) : x.addr # addr}
  BY BackendFacts, StaleDropped DEF IInv, TypeOK
<1>8. /\ room \in Seq(Entries) /\ Distinct(room)
      /\ Held(room) \subseteq Held(cleared)
      /\ \A x \in Held(cleared) :
           x \in Held(room)
             \/ (Len(cleared) >= SampleMapCap /\ x = cleared[1])
      /\ Len(cleared) >= SampleMapCap => cleared[1] \in Held(cleared)
  <2> HIDE DEF cleared
  <2> QED BY <1>7, Evicted
<1>9. /\ q.exec = exec /\ q.addr = addr /\ q.own = own /\ q.self = (capture # {})
      /\ q.level = Len(frames) /\ q.nested_ok = guc.track_nested
      /\ (own => q.instr = guc.opts)
      /\ entry.addr = addr /\ entry.opts = guc.opts /\ entry.exec = exec
  BY <1>4
<1>10. /\ live' = live \cup {q} /\ started' = exec
       /\ sample_map' = IF own THEN Append(room, entry) ELSE cleared
       /\ evicted' = IF full THEN evicted \cup {cleared[1].exec} ELSE evicted
       /\ seen' = IF e THEN seen_after(guc, id) ELSE seen
  BY <1>1
<1> HIDE DEF cleared, room, entry, own, q, e, id, exec
<1>11. /\ Append(room, entry) \in Seq(Entries) /\ Distinct(Append(room, entry))
       /\ Held(Append(room, entry)) = Held(room) \cup {entry}
  BY <1>6, <1>7, <1>8, <1>9, EntryPushed
<1>12. /\ sample_map' \in Seq(Entries) /\ Distinct(sample_map')
       /\ Held(sample_map') \subseteq Held(cleared) \cup {entry}
       /\ ~own => Held(sample_map') \subseteq Held(cleared)
       /\ own => entry \in Held(sample_map')
  BY <1>7, <1>8, <1>10, <1>11
<1>13. \A r \in live : r.exec # exec /\ r.addr # addr /\ r.exec <= started
       /\ r.exec \in Nat
  BY <1>2, <1>3 DEF IInv, TypeOK, Queries, Execs, StartedInOrder, FreeAddrs, exec
<1>14. \A x \in Held(cleared) :
         /\ x \in Held(sample_map) /\ x.addr # addr /\ x.exec # exec
         /\ x.exec <= started /\ x.exec \in Execs
  BY <1>3, <1>7, BackendFacts DEF IInv, StartedInOrder, Entries, Execs, exec
<1>15. TypeOK'
  <2>1. evicted' \subseteq Execs
    BY <1>8, <1>10, <1>14 DEF IInv, TypeOK, full
  <2>2. seen' \subseteq QueryIds BY <1>3, <1>10, Drawn DEF IInv, TypeOK
  <2> QED BY <1>2, <1>3, <1>6, <1>10, <1>12, <2>1, <2>2 DEF IInv, TypeOK
<1>16. StartedInOrder'
  <2>1. \A j \in DOMAIN frames : frames[j] <= exec
    <3> SUFFICES ASSUME NEW j \in DOMAIN frames PROVE frames[j] <= started + 1
      BY DEF exec
    <3>1. frames[j] \in Execs
      BY ElementOfSeq, BackendFacts DEF IInv, TypeOK
    <3> QED BY <3>1, <1>3 DEF IInv, StartedInOrder, Execs
  <2>2. \A r \in live' : r.exec <= exec
    BY <1>3, <1>9, <1>10, <1>13 DEF exec
  <2>3. \A x \in Held(sample_map') : x.exec <= exec
    BY <1>3, <1>9, <1>12, <1>14 DEF exec, Execs
  <2>4. \A r, s \in live' : r.exec = s.exec \/ r.addr = s.addr => r = s
    BY <1>9, <1>10, <1>13 DEF IInv, StartedInOrder
  <2> QED BY <2>1, <2>2, <2>3, <2>4, <1>2, <1>10 DEF StartedInOrder, Held
<1>17. EntriesOfTheLiving'
  <2> SUFFICES ASSUME NEW x \in Held(sample_map'), NEW r \in live'
               PROVE  /\ x.addr = r.addr <=> x.exec = r.exec
                      /\ x.addr = r.addr => r.own /\ x.opts = r.instr
    BY DEF EntriesOfTheLiving, Held
  <2>1. CASE x \in Held(cleared) /\ r \in live
    BY <2>1, <1>14 DEF IInv, EntriesOfTheLiving
  <2>2. CASE x \in Held(cleared) /\ r = q BY <2>2, <1>9, <1>14
  <2>3. CASE own /\ x = entry /\ r \in live BY <2>3, <1>9, <1>13
  <2>4. CASE own /\ x = entry /\ r = q BY <2>4, <1>9
  <2> QED BY <2>1, <2>2, <2>3, <2>4, <1>10, <1>12
<1>18. CaptureOnTop'
  <2>1. CASE capture = {}
    BY <2>1, <1>2, <1>9, <1>10 DEF IInv, CaptureOnTop, SelfQueries
  <2>2. CASE capture # {}
    <3>1. \A c \in capture : c.depth \in Nat /\ c.depth <= Len(frames)
      BY DEF IInv, TypeOK, Captures, CaptureOnTop
    <3>2. \A c \in capture : \A j \in 1 .. c.depth :
            j \in DOMAIN frames /\ frames[j] # exec
      <4> SUFFICES ASSUME NEW c \in capture, NEW j \in 1 .. c.depth
                   PROVE  j \in DOMAIN frames /\ frames[j] # started + 1
        BY DEF exec
      <4>1. j \in DOMAIN frames BY <3>1, BackendFacts
      <4>2. frames[j] <= started BY <4>1 DEF IInv, StartedInOrder
      <4> QED BY <4>1, <4>2, <1>3
    <3>3. SelfQueries' \subseteq SelfQueries \cup {q}
      BY <1>10 DEF SelfQueries
    <3>4. \A c \in capture : \A j \in 1 .. c.depth, r \in SelfQueries' :
            frames[j] # r.exec
      BY <3>2, <3>3, <1>9 DEF IInv, CaptureOnTop
    <3> QED BY <2>2, <3>4, <1>2 DEF IInv, CaptureOnTop
  <2> QED BY <2>1, <2>2
<1>19. NothingOutside' /\ IdleIsClean'
  BY <1>2 DEF NothingOutside, IdleIsClean
<1>20. NestingIsDepth' BY <1>2 DEF IInv, NestingIsDepth
<1>21. EntryOfItsQuery'
  <2>1. \A r \in live : r.own =>
          \/ \E x \in Held(sample_map') : x.exec = r.exec
          \/ r.exec \in evicted'
          \/ \E c \in capture : c.query = r
    <3> SUFFICES ASSUME NEW r \in live, NEW x \in Held(sample_map),
                        x.exec = r.exec, x \notin Held(sample_map')
                 PROVE  r.exec \in evicted'
      BY <1>10, BackendFacts
    <3>1. x.addr = r.addr BY DEF IInv, EntriesOfTheLiving
    <3>2. x \in Held(cleared) BY <3>1, <1>7, <1>13
    <3>3. own BY <3>2, <1>10
    <3>4. x \notin Held(room) BY <3>3, <1>10, <1>11
    <3>5. full /\ x = cleared[1] BY <3>2, <3>3, <3>4, <1>8
    <3> QED BY <3>5, <1>10
  <2>2. q.own => \E x \in Held(sample_map') : x.exec = q.exec
    BY <1>9, <1>12
  <2>3. \A r \in live' : r.own =>
          \/ \E x \in Held(sample_map') : x.exec = r.exec
          \/ r.exec \in evicted'
          \/ \E c \in capture : c.query = r
    BY <2>1, <2>2, <1>10
  <2> QED BY <2>3, <1>2, <1>12
          DEF IInv, EntryOfItsQuery, OwnedIsTracked, Held, Distinct
<1>22. CapturesAreTheUsers'
  <2>1. q.own => ~q.self /\ (q.level = 0 \/ q.nested_ok)
    BY <1>4, <1>5, <1>9
  <2> QED BY <2>1, <1>10 DEF IInv, CapturesAreTheUsers
<1> QED BY <1>15, <1>16, <1>17, <1>18, <1>19, <1>20, <1>21, <1>22 DEF IInv

(* The callback at a transaction end leaves nothing of the transaction.    *)
LEMMA TransactionEndInv == IInv /\ TransactionEnds => IInv'
<1> SUFFICES ASSUME IInv, TransactionEnds PROVE IInv' OBVIOUS
<1>1. /\ in_xact' = FALSE /\ nesting_level' = 0 /\ sample_map' = <<>>
      /\ capturing' = FALSE /\ live' = {} /\ frames' = <<>> /\ capture' = {}
      /\ UNCHANGED <<seen, guc, started, evicted>>
  BY DEF TransactionEnds, xact_callback
<1>2. /\ <<>> \in Seq(Execs) /\ <<>> \in Seq(Entries) /\ Len(<<>>) = 0
      /\ DOMAIN <<>> = {}
  BY EmptySeq
<1>3. TypeOK'
  <2>1. 0 \in Nat OBVIOUS
  <2> QED BY <1>1, <1>2, <2>1, Zenon DEF IInv, TypeOK
<1>4. Held(sample_map') = {} BY <1>1, <1>2 DEF Held
<1>5. StartedInOrder' /\ EntriesOfTheLiving'
  BY <1>1, <1>2, <1>4 DEF StartedInOrder, EntriesOfTheLiving, Held
<1>6. /\ CaptureOnTop' /\ NothingOutside' /\ NestingIsDepth'
      /\ CapturesAreTheUsers' /\ IdleIsClean'
  BY <1>1, <1>2 DEF CaptureOnTop, SelfQueries, NothingOutside, NestingIsDepth,
                    CapturesAreTheUsers, IdleIsClean
<1>7. EntryOfItsQuery'
  BY <1>1, <1>2 DEF EntryOfItsQuery, OwnedIsTracked
<1> QED BY <1>3, <1>5, <1>6, <1>7 DEF IInv

(* A transaction begins, a setting changes, or the previous hook raises:   *)
(* nothing the invariant speaks of moves.                                  *)
LEMMA SettingsInv ==
  ASSUME IInv, UNCHANGED <<live, frames, nesting_level, sample_map, capturing,
                           capture, started, evicted>>,
         in_xact' \in {in_xact, TRUE}, guc' \in Gucs, seen' \subseteq QueryIds
  PROVE  IInv'
<1>1. TypeOK' BY DEF IInv, TypeOK
<1>2. StartedInOrder' /\ EntriesOfTheLiving' /\ CaptureOnTop'
  BY DEF IInv, StartedInOrder, EntriesOfTheLiving, CaptureOnTop, SelfQueries,
         Held
<1>3. NothingOutside' /\ NestingIsDepth' /\ CapturesAreTheUsers' /\ IdleIsClean'
  BY DEF IInv, NothingOutside, NestingIsDepth, CapturesAreTheUsers, IdleIsClean
<1>4. EntryOfItsQuery' BY DEF IInv, EntryOfItsQuery, OwnedIsTracked
<1> QED BY <1>1, <1>2, <1>3, <1>4 DEF IInv

-----------------------------------------------------------------------------
(* Every step of a backend preserves the invariant.                        *)
LEMMA StepInv == IInv /\ [Next]_vars => IInv'
<1> SUFFICES ASSUME IInv, [Next]_vars PROVE IInv' OBVIOUS
<1>1. ASSUME NEW addr \in Addrs, NEW qid \in QueryIds,
             executor_start(addr, qid)
      PROVE  IInv'
  BY <1>1, StartInv
<1>2. ASSUME NEW q \in live,
             plansight_ExecutorRun(q) \/ executor_end(q) \/ maybe_capture(q)
      PROVE  IInv'
  BY <1>2, RunInv, EndInv, CaptureInv
<1>3. CASE ExecutorRunReturns BY <1>3, ReturnInv
<1>4. CASE capture_ends BY <1>4, CaptureEndsInv
<1>5. CASE Begin
  BY <1>5, SettingsInv DEF Begin, hookVars, IInv, TypeOK
<1>6. CASE TransactionEnds BY <1>6, TransactionEndInv
<1>7. ASSUME NEW k \in 0 .. Len(frames), CaughtError(k) PROVE IInv'
  BY <1>7, CaughtErrorInv
<1>8. ASSUME NEW qid \in QueryIds, executor_start_raises(qid) PROVE IInv'
  <2>1. seen' \subseteq QueryIds
    BY <1>8, Drawn DEF executor_start_raises, IInv, TypeOK
  <2> QED BY <1>8, <2>1, SettingsInv DEF executor_start_raises, IInv, TypeOK
<1>9. ASSUME NEW g \in Gucs, SetGuc(g) PROVE IInv'
  BY <1>9, SettingsInv DEF SetGuc, hookVars, IInv, TypeOK
<1>10. CASE UNCHANGED vars
  BY <1>10, SettingsInv DEF vars, hookVars, IInv, TypeOK
<1> QED BY <1>1, <1>2, <1>3, <1>4, <1>5, <1>6, <1>7, <1>8, <1>9, <1>10 DEF Next

(* The invariant holds of every backend.                                   *)
LEMMA Invariant == Spec => []IInv
  BY InitInv, StepInv, PTL DEF Spec

(* The C shim's counter is the depth of the executor stack, whatever error *)
(* is caught at whatever depth (nesting.c's PG_CATCH, hook.rs).            *)
THEOREM NestingDepth == Spec => []NestingIsDepth
<1>1. IInv => NestingIsDepth BY DEF IInv
<1> QED BY Invariant, <1>1, PTL

(* A capture uses the entry its own ExecutorStart made, at an address that *)
(* may have been used before, and no owned execution loses its entry to    *)
(* anything but SAMPLE_MAP_CAP (hook.rs executor_start, executor_end).     *)
THEOREM EntriesMatch == Spec => []EntryOfItsQuery
<1>1. IInv => EntryOfItsQuery BY DEF IInv
<1> QED BY Invariant, <1>1, PTL

(* What is instrumented for capture is the user's, and nested only under   *)
(* track_nested (hook.rs eligible, ReentryGuard).                          *)
THEOREM UsersOnly == Spec => []CapturesAreTheUsers
<1>1. IInv => CapturesAreTheUsers BY DEF IInv
<1> QED BY Invariant, <1>1, PTL

(* Outside a transaction a backend is clean: level 0, no entry, and the    *)
(* re-entrancy flag down (hook.rs xact_callback).                          *)
THEOREM CleanWhenIdle == Spec => []IdleIsClean
<1>1. IInv => IdleIsClean BY DEF IInv
<1> QED BY Invariant, <1>1, PTL
=============================================================================
