-------------------------- MODULE LogParsingProofs --------------------------
(***************************************************************************)
(* First, the parallel parse gives the groups of the batch path, for every *)
(* number of files, every plans in them and every order in which tasks end *)
(* and are reduced; and the screen tells the truth of them.                *)
(*                                                                         *)
(* What the operators compute: PlansIn keeps the wanted plans in order;    *)
(* folding a plan into the grouper of a sequence gives the grouper of the  *)
(* longer sequence (FoldIsBatch); merging is associative, with the new     *)
(* grouper as its identity, and merging the groupers of two sequences      *)
(* gives that of their concatenation (MergeIsBatch).  Then the inductive   *)
(* invariant ParseInv, one lemma for each action, and the theorems.        *)
(*                                                                         *)
(* Second, the vector scanners replace nothing: of every line they say     *)
(* what the expressions and the byte-by-byte loops say.  Each kernel reads *)
(* blocks by a recursive function; it equals the scalar scan from each     *)
(* offset because that scan solves the same equations and these have one   *)
(* solution (OneSolution).                                                 *)
(*                                                                         *)
(* Third, the parser of one file: each plan is made of one entry, and no   *)
(* plan of the file is lost unreported.  The invariant LogParserInv says   *)
(* what the builder holds after so many lines of a message (Holds), and    *)
(* that the messages before it are settled.                                *)
(***************************************************************************)
EXTENDS ParallelParse, SimdScan, LogParser, SequenceTheorems, FiniteSetTheorems,
        WellFoundedInduction, TLAPS

-----------------------------------------------------------------------------
(* Sequences of plans.                                                     *)

(* Induction over the naturals, for a set that holds what is shown.        *)
LEMMA NatsByInduction ==
  ASSUME NEW S, 0 \in S, \A n \in Nat : n \in S => n + 1 \in S
  PROVE  \A n \in Nat : n \in S
<1> DEFINE T == {n \in Nat : n \notin S}
<1>1. SUFFICES ASSUME T # {} PROVE FALSE OBVIOUS
<1>2. PICK t \in T : \A y \in T : ~(<<y, t>> \in OpToRel(<, Nat))
  <2>1. T \subseteq Nat OBVIOUS
  <2> HIDE DEF T
  <2> QED BY <1>1, <2>1, NatLessThanWellFounded, WFMin
<1>3. t \in Nat /\ t \notin S /\ t # 0 OBVIOUS
<1>4. t - 1 \in Nat /\ t - 1 < t /\ (t - 1) + 1 = t BY <1>3
<1>5. t - 1 \notin T
  <2> HIDE DEF T
  <2> QED BY <1>2, <1>3, <1>4 DEF OpToRel
<1>6. t - 1 \in S BY <1>4, <1>5
<1>7. (t - 1) + 1 \in S BY <1>4, <1>6
<1> QED BY <1>3, <1>4, <1>7

(* The elements selected from each prefix, as Selected computes them.      *)
IsUpTo(u, s, W) ==
  u = [n \in 0 .. Len(s) |-> IF n = 0 THEN <<>>
                             ELSE IF s[n] \in W THEN Append(u[n - 1], s[n])
                             ELSE u[n - 1]]

(* Selected by its definition: the function chosen, at the last position.  *)
LEMMA SelectedUnfolds ==
  ASSUME NEW s, NEW W
  PROVE  Selected(s, W) = (CHOOSE u : IsUpTo(u, s, W))[Len(s)]
  BY Zenon DEF Selected, IsUpTo

(* The same, position by position.                                         *)
Steps(u, s, W) ==
  \A n \in 0 .. Len(s) : u[n] = IF n = 0 THEN <<>>
                                ELSE IF s[n] \in W THEN Append(u[n - 1], s[n])
                                ELSE u[n - 1]

(* There is only one such function.                                        *)
LEMMA UpToUnique ==
  ASSUME NEW T, NEW s \in Seq(T), NEW W, NEW u, NEW v,
         Steps(u, s, W), Steps(v, s, W)
  PROVE  \A n \in 0 .. Len(s) : u[n] = v[n]
<1> DEFINE S == {n \in Nat : n \in 0 .. Len(s) => u[n] = v[n]}
<1>0. Len(s) \in Nat OBVIOUS
<1>1. /\ \A n \in 0 .. Len(s) : u[n] = IF n = 0 THEN <<>> 
           ELSE IF s[n] \in W THEN Append(u[n - 1], s[n]) ELSE u[n - 1]
      /\ \A n \in 0 .. Len(s) : v[n] = IF n = 0 THEN <<>> 
           ELSE IF s[n] \in W THEN Append(v[n - 1], s[n]) ELSE v[n - 1]
  BY DEF Steps
<1>2. 0 \in S BY <1>0, <1>1
<1>3. ASSUME NEW n \in Nat, n \in S PROVE n + 1 \in S
  <2>1. SUFFICES ASSUME n + 1 \in 0 .. Len(s) PROVE u[n + 1] = v[n + 1] OBVIOUS
  <2>2. n \in 0 .. Len(s) /\ (n + 1) - 1 = n /\ n + 1 # 0 BY <1>0, <2>1
  <2>3. u[n] = v[n] BY <1>3, <2>2
  <2> QED BY <1>1, <2>1, <2>2, <2>3
<1>4. \A n \in Nat : n \in S
  <2> HIDE DEF S
  <2> QED BY <1>2, <1>3, NatsByInduction
<1> QED BY <1>0, <1>4

(* Such a function follows the steps of the selection.                     *)
LEMMA UpToSteps ==
  ASSUME NEW s, NEW W, NEW u, IsUpTo(u, s, W)
  PROVE  Steps(u, s, W)
<1> DEFINE St(n) == IF n = 0 THEN <<>>
             ELSE IF s[n] \in W THEN Append(u[n - 1], s[n]) ELSE u[n - 1]
<1>1. u = [n \in 0 .. Len(s) |-> St(n)] BY Zenon DEF IsUpTo
<1>2. \A n \in 0 .. Len(s) : u[n] = St(n)
  <2> HIDE DEF St
  <2> QED BY <1>1
<1> QED BY <1>2, Zenon DEF Steps

(* There is one for every sequence.                                        *)
LEMMA UpToExists ==
  ASSUME NEW T, NEW s \in Seq(T), NEW W
  PROVE  \E u \in [0 .. Len(s) -> Seq(T)] : IsUpTo(u, s, W)
<1> DEFINE L == Len(s)
           St(u, n) == IF n = 0 THEN <<>> 
           ELSE IF s[n] \in W THEN Append(u[n - 1], s[n]) ELSE u[n - 1]
           S == {n \in Nat : n \in 0 .. L =>
                   \E u \in [0 .. n -> Seq(T)] : \A i \in 0 .. n : u[i] = St(u, i)}
<1>0. L \in Nat /\ \A i \in 1 .. L : s[i] \in T OBVIOUS
<1>2. 0 \in S
  <2> DEFINE u == [i \in 0 .. 0 |-> <<>>]
  <2>1. u \in [0 .. 0 -> Seq(T)] /\ \A i \in 0 .. 0 : u[i] = St(u, i) OBVIOUS
  <2> HIDE DEF u, St
  <2> QED BY <2>1
<1>3. ASSUME NEW n \in Nat, n \in S PROVE n + 1 \in S
  <2>1. SUFFICES ASSUME n + 1 \in 0 .. L 
                 PROVE \E u \in [0 .. n + 1 -> Seq(T)] : \A i \in 0 .. n + 1 : u[i] = St(u, i) OBVIOUS
  <2>2. n \in 0 .. L /\ n + 1 \in 1 .. L BY <1>0, <2>1
  <2>3. PICK u \in [0 .. n -> Seq(T)] : \A i \in 0 .. n : u[i] = St(u, i) BY <1>3, <2>2
  <2> DEFINE e == IF s[n + 1] \in W THEN Append(u[n], s[n + 1]) ELSE u[n]
             v == [i \in 0 .. n + 1 |-> IF i = n + 1 THEN e ELSE u[i]]
  <2>4. e \in Seq(T) BY <1>0, <2>2, AppendProperties
  <2>5. v \in [0 .. n + 1 -> Seq(T)] BY <2>4
  <2>6. \A i \in 0 .. n : v[i] = u[i] OBVIOUS
  <2>6a. v[n + 1] = e OBVIOUS
  <2> HIDE DEF v
  <2>7. ASSUME NEW i \in 0 .. n + 1 PROVE v[i] = St(v, i)
    <3>1. CASE i \in 0 .. n
      <4>1. i # 0 => i - 1 \in 0 .. n BY <3>1
      <4> QED BY <2>3, <2>6, <3>1, <4>1
    <3>2. CASE i = n + 1
      <4>1. n \in 0 .. n /\ i - 1 = n /\ i # 0 BY <3>2
      <4> QED BY <2>6, <2>6a, <3>2, <4>1
    <3> QED BY <3>1, <3>2
  <2> HIDE DEF St
  <2> QED BY <2>5, <2>7
<1>4. \A n \in Nat : n \in S
  <2> HIDE DEF S
  <2> QED BY <1>2, <1>3, NatsByInduction
<1>5. PICK u \in [0 .. L -> Seq(T)] : \A i \in 0 .. L : u[i] = St(u, i)
  <2>1. L \in S
    <3> HIDE DEF S
    <3> QED BY <1>0, <1>4
  <2>2. L \in 0 .. L BY <1>0
  <2> HIDE DEF St
  <2> QED BY <2>1, <2>2
<1>6. u = [i \in 0 .. L |-> St(u, i)] BY <1>5
<1>7. IsUpTo(u, s, W) BY <1>6, Zenon DEF IsUpTo
<1> QED BY <1>5, <1>7

(* What Selected returns: nothing of nothing, and one more or not.         *)
LEMMA SelectedChosen ==
  ASSUME NEW T, NEW s \in Seq(T), NEW W
  PROVE  \E u \in [0 .. Len(s) -> Seq(T)] :
           IsUpTo(u, s, W) /\ Selected(s, W) = u[Len(s)]
<1>1. PICK v \in [0 .. Len(s) -> Seq(T)] : IsUpTo(v, s, W) BY UpToExists
<1> DEFINE u == CHOOSE w : IsUpTo(w, s, W)
<1>2. IsUpTo(u, s, W) BY <1>1
<1>3. Selected(s, W) = u[Len(s)] BY SelectedUnfolds
<1> HIDE DEF u
<1>4. Steps(v, s, W) /\ Steps(u, s, W) BY <1>1, <1>2, UpToSteps
<1>5. \A n \in 0 .. Len(s) : u[n] = v[n] BY <1>4, UpToUnique
<1>6. u = [n \in 0 .. Len(s) |-> u[n]] BY <1>2 DEF IsUpTo
<1>7. u \in [0 .. Len(s) -> Seq(T)] BY <1>5, <1>6
<1> QED BY <1>2, <1>3, <1>7

(* Of nothing, nothing is wanted.                                          *)
LEMMA SelectedEmpty ==
  ASSUME NEW W PROVE Selected(<<>>, W) = <<>>
<1>1. <<>> \in Seq(Nat) /\ Len(<<>>) = 0 OBVIOUS
<1>2. PICK u \in [0 .. Len(<<>>) -> Seq(Nat)] :
        IsUpTo(u, <<>>, W) /\ Selected(<<>>, W) = u[Len(<<>>)]
  BY <1>1, SelectedChosen
<1> QED BY <1>1, <1>2 DEF IsUpTo

(* One more: it is appended if it is wanted.                               *)
LEMMA SelectedAppend ==
  ASSUME NEW T, NEW s \in Seq(T), NEW p \in T, NEW W
  PROVE  /\ Selected(s, W) \in Seq(T)
         /\ Selected(Append(s, p), W) = IF p \in W THEN Append(Selected(s, W), p)
                                       ELSE Selected(s, W)
<1> DEFINE t == Append(s, p)
           L == Len(s)
<1>1. /\ L \in Nat /\ t \in Seq(T) /\ Len(t) = L + 1
      /\ \A i \in 1 .. L : t[i] = s[i] 
      /\ t[L + 1] = p
  BY AppendProperties
<1>2. PICK u \in [0 .. L -> Seq(T)] : IsUpTo(u, s, W) /\ Selected(s, W) = u[L]
  BY SelectedChosen
<1> HIDE DEF t
<1>3. PICK v \in [0 .. Len(t) -> Seq(T)] : IsUpTo(v, t, W) /\ Selected(t, W) = v[Len(t)]
  BY <1>1, SelectedChosen
<1>4. \A n \in 0 .. L + 1 : v[n] = IF n = 0 THEN <<>>
        ELSE IF t[n] \in W THEN Append(v[n - 1], t[n]) ELSE v[n - 1]
  <2>1. Steps(v, t, W) BY <1>3, UpToSteps
  <2> QED BY <1>1, <2>1 DEF Steps
<1>5. Steps(v, s, W)
  <2> SUFFICES ASSUME NEW n \in 0 .. L
               PROVE v[n] = IF n = 0 THEN <<>>
                 ELSE IF s[n] \in W THEN Append(v[n - 1], s[n]) ELSE v[n - 1]
    BY DEF Steps
  <2>1. n \in 0 .. L + 1 /\ (n # 0 => n \in 1 .. L) BY <1>1
  <2>2. n # 0 => t[n] = s[n] BY <1>1, <2>1
  <2> QED BY <1>4, <2>1, <2>2
<1>6. \A n \in 0 .. L : u[n] = v[n] BY <1>2, <1>5, UpToSteps, UpToUnique
<1>7. v[L] = Selected(s, W) BY <1>1, <1>2, <1>6
<1>8. v[L + 1] = IF p \in W THEN Append(v[L], p) ELSE v[L]
  <2>1. L + 1 \in 0 .. L + 1 /\ L + 1 # 0 /\ (L + 1) - 1 = L BY <1>1
  <2> QED BY <1>1, <1>4, <2>1
<1>9. Selected(t, W) = v[L + 1] BY <1>1, <1>3
<1>10. Selected(s, W) \in Seq(T) BY <1>1, <1>2
<1> QED BY <1>7, <1>8, <1>9, <1>10 DEF t

LEMMA PlansInEmpty ==
  ASSUME NEW W PROVE PlansIn(<<>>, W) = <<>>
BY SelectedEmpty DEF PlansIn

LEMMA PlansInAppend ==
  ASSUME NEW s \in Seq(Plans), NEW p \in Plans, NEW W
  PROVE  /\ PlansIn(s, W) \in Seq(Plans)
         /\ PlansIn(Append(s, p), W) = IF p \in W THEN Append(PlansIn(s, W), p)
                                       ELSE PlansIn(s, W)
BY SelectedAppend DEF PlansIn

(* Induction over the plans read: one more each time.                      *)
LEMMA PlanSequences ==
  ASSUME NEW S, <<>> \in S,
         \A s \in Seq(Plans), p \in Plans : s \in S => Append(s, p) \in S
  PROVE  Seq(Plans) \subseteq S
<1> DEFINE T == {n \in Nat : \A s \in Seq(Plans) : Len(s) = n => s \in S}
<1>1. 0 \in T
  <2>1. \A s \in Seq(Plans) : Len(s) = 0 => s = <<>> BY EmptySeq
  <2> QED BY <2>1
<1>2. ASSUME NEW n \in Nat, n \in T PROVE n + 1 \in T
  <2> SUFFICES ASSUME NEW s \in Seq(Plans), Len(s) = n + 1 PROVE s \in S OBVIOUS
  <2> DEFINE f == [i \in 1 .. n |-> s[i]]
  <2>1. f \in Seq(Plans) /\ Len(f) = n
    <3>1. \A i \in 1 .. n : s[i] \in Plans OBVIOUS
    <3>2. f \in [1 .. n -> Plans] BY <3>1
    <3> QED BY <3>2, SeqDef, LenProperties
  <2>2. s[n + 1] \in Plans OBVIOUS
  <2>3. s = Append(f, s[n + 1])
    <3>1. /\ Append(f, s[n + 1]) \in Seq(Plans) /\ Len(Append(f, s[n + 1])) = n + 1
          /\ \A i \in 1 .. n : Append(f, s[n + 1])[i] = f[i]
          /\ Append(f, s[n + 1])[n + 1] = s[n + 1]
      BY <2>1, <2>2, AppendProperties
    <3>2. \A i \in 1 .. n : f[i] = s[i] OBVIOUS
    <3> HIDE DEF f
    <3>3. \A i \in 1 .. n + 1 : s[i] = Append(f, s[n + 1])[i] BY <3>1, <3>2
    <3> QED BY <3>1, <3>3, SeqEqual
  <2>4. f \in S BY <1>2, <2>1
  <2> HIDE DEF f
  <2> QED BY <2>1, <2>2, <2>3, <2>4
<1>3. \A n \in Nat : n \in T
  <2> HIDE DEF T
  <2> QED BY <1>1, <1>2, NatsByInduction
<1>4. ASSUME NEW s \in Seq(Plans) PROVE s \in S
  <2>1. Len(s) \in Nat OBVIOUS
  <2>2. Len(s) \in T
    <3> HIDE DEF T
    <3> QED BY <2>1, <1>3
  <2> QED BY <2>2
<1> QED BY <1>4

(* It keeps the wanted plans, no others.                                   *)
LEMMA PlansInRange ==
  ASSUME NEW s \in Seq(Plans), NEW W
  PROVE  /\ PlansIn(s, W) \in Seq(Plans)
         /\ {PlansIn(s, W)[i] : i \in 1 .. Len(PlansIn(s, W))} =
              {s[i] : i \in 1 .. Len(s)} \cap W
<1> DEFINE Of(w) == {w[i] : i \in 1 .. Len(w)}
           S == {w \in Seq(Plans) : /\ PlansIn(w, W) \in Seq(Plans)
                                    /\ Of(PlansIn(w, W)) = Of(w) \cap W}
<1>1. <<>> \in S
  <2>1. PlansIn(<<>>, W) = <<>> BY PlansInEmpty
  <2>2. Of(<<>>) = {} /\ <<>> \in Seq(Plans) OBVIOUS
  <2> HIDE DEF Of
  <2> QED BY <2>1, <2>2
<1>2. ASSUME NEW w \in Seq(Plans), NEW p \in Plans PROVE Of(Append(w, p)) = Of(w) \cup {p}
  <2>1. /\ Len(Append(w, p)) = Len(w) + 1 /\ Append(w, p)[Len(w) + 1] = p
        /\ \A i \in 1 .. Len(w) : Append(w, p)[i] = w[i]
        /\ Len(w) \in Nat
    BY AppendProperties
  <2>2. 1 .. Len(w) + 1 = (1 .. Len(w)) \cup {Len(w) + 1} BY <2>1
  <2> QED BY <2>1, <2>2
<1> HIDE DEF Of
<1>3. ASSUME NEW w \in Seq(Plans), NEW p \in Plans, w \in S PROVE Append(w, p) \in S
  <2>1. /\ PlansIn(w, W) \in Seq(Plans) /\ Append(w, p) \in Seq(Plans)
        /\ PlansIn(Append(w, p), W) = IF p \in W THEN Append(PlansIn(w, W), p)
                                       ELSE PlansIn(w, W)
    BY PlansInAppend, AppendProperties
  <2>2. CASE p \in W
    <3>1. /\ Append(PlansIn(w, W), p) \in Seq(Plans)
          /\ Of(Append(PlansIn(w, W), p)) = Of(PlansIn(w, W)) \cup {p}
      BY <1>2, <2>1, AppendProperties
    <3>2. Of(Append(w, p)) = Of(w) \cup {p} BY <1>2
    <3>3. Of(PlansIn(w, W)) = Of(w) \cap W BY <1>3
    <3>4. (Of(w) \cap W) \cup {p} = (Of(w) \cup {p}) \cap W BY <2>2
    <3> QED BY <2>1, <2>2, <3>1, <3>2, <3>3, <3>4
  <2>3. CASE p \notin W
    <3>1. Of(Append(w, p)) = Of(w) \cup {p} BY <1>2
    <3>2. Of(PlansIn(w, W)) = Of(w) \cap W BY <1>3
    <3>3. (Of(w) \cup {p}) \cap W = Of(w) \cap W BY <2>3
    <3> QED BY <2>1, <2>3, <3>1, <3>2, <3>3
  <2> QED BY <2>2, <2>3
<1>4. s \in S
  <2> HIDE DEF S
  <2> QED BY <1>1, <1>3, PlanSequences
<1> QED BY <1>4 DEF Of

-----------------------------------------------------------------------------
(* One group: the batch summary is what its plans are pushed to.           *)

IsGroups(g) == g = [k \in DOMAIN g |-> g[k]]
               /\ \A k \in DOMAIN g : g[k] \in Accumulators

IsGrouper(q) == /\ q = [groups |-> q.groups, accepted |-> q.accepted]
                /\ IsGroups(q.groups) /\ q.accepted \in Nat

(* The last of the slowest plans of a group, its first and last timestamp. *)
IsSlowest(g, m) ==
  /\ m \in 1 .. Len(g)
  /\ \A j \in 1 .. Len(g) : /\ g[j].duration_ms <= g[m].duration_ms
                            /\ j > m => g[j].duration_ms < g[m].duration_ms
Stamps(g) == {g[i].timestamp : i \in 1 .. Len(g)}
IsFirst(g, t) == t \in Stamps(g) /\ \A u \in Stamps(g) : t <= u
IsLast(g, t)  == t \in Stamps(g) /\ \A u \in Stamps(g) : u <= t

(* What process_query_group makes of the plans of one group.               *)
Summary(g) ==
  [representative |-> g[CHOOSE m \in DOMAIN g :
                          /\ \A j \in DOMAIN g : g[j].duration_ms <= g[m].duration_ms
                          /\ \A j \in DOMAIN g : j > m =>
                               g[j].duration_ms < g[m].duration_ms],
   executions     |-> [i \in DOMAIN g |-> Record(g[i])],
   min_timestamp  |-> CHOOSE t \in {g[i].timestamp : i \in DOMAIN g} :
                        \A i \in DOMAIN g : t <= g[i].timestamp,
   max_timestamp  |-> CHOOSE t \in {g[i].timestamp : i \in DOMAIN g} :
                        \A i \in DOMAIN g : t >= g[i].timestamp]

OfKey(s, k) == PlansIn(s, {p \in Plans : key(p) = k})

(* process_query_group summarises the plans of its key.                    *)
LEMMA SummaryOfKey ==
  ASSUME NEW s, NEW k
  PROVE  process_query_group(s, k) = Summary(OfKey(s, k))
  BY Zenon DEF process_query_group, Summary, OfKey

(* What a plan is made of.                                                 *)
LEMMA PlanFields ==
  ASSUME NEW p \in Plans
  PROVE  /\ p.duration_ms \in Durations /\ p.duration_ms \in Nat
         /\ p.timestamp \in Timestamps /\ p.timestamp \in Nat
         /\ Record(p) \in Executions
  BY GroupingAssumption DEF Plans, Record, Executions

(* Each of them is the only one.                                           *)
LEMMA SummaryIs ==
  ASSUME NEW g \in Seq(Plans), NEW m, NEW a, NEW b,
         IsSlowest(g, m), IsFirst(g, a), IsLast(g, b)
  PROVE  Summary(g) = [representative |-> g[m],
                       executions     |-> [i \in 1 .. Len(g) |-> Record(g[i])],
                       min_timestamp  |-> a, max_timestamp |-> b]
<1>0. DOMAIN g = 1 .. Len(g) /\ Len(g) \in Nat BY LenProperties
<1>1. \A i \in 1 .. Len(g) : g[i].duration_ms \in Nat /\ g[i].timestamp \in Nat
  BY PlanFields
<1>2. (CHOOSE x \in 1 .. Len(g) :
          /\ \A j \in 1 .. Len(g) : g[j].duration_ms <= g[x].duration_ms
          /\ \A j \in 1 .. Len(g) : j > x => g[j].duration_ms < g[x].duration_ms) = m
  <2> DEFINE P(x) == /\ \A j \in 1 .. Len(g) : g[j].duration_ms <= g[x].duration_ms
                     /\ \A j \in 1 .. Len(g) : j > x => g[j].duration_ms < g[x].duration_ms
  <2>1. m \in 1 .. Len(g) /\ P(m) BY DEF IsSlowest
  <2>2. ASSUME NEW x \in 1 .. Len(g), P(x) PROVE x = m
    <3>1. /\ g[x].duration_ms \in Nat /\ g[m].duration_ms \in Nat 
          /\ x \in Nat /\ m \in Nat
      BY <1>0, <1>1, <2>1
    <3>2. m > x => g[m].duration_ms < g[x].duration_ms BY <2>1, <2>2
    <3>3. x > m => g[x].duration_ms < g[m].duration_ms BY <2>1, <2>2
    <3>4. g[m].duration_ms <= g[x].duration_ms /\ g[x].duration_ms <= g[m].duration_ms
      BY <2>1, <2>2
    <3> QED BY <3>1, <3>2, <3>3, <3>4
  <2> HIDE DEF P
  <2>3. (CHOOSE x \in 1 .. Len(g) : P(x)) = m BY <2>1, <2>2
  <2> QED BY <2>3 DEF P
<1>3. (CHOOSE t \in {g[i].timestamp : i \in 1 .. Len(g)} :
          \A i \in 1 .. Len(g) : t <= g[i].timestamp) = a
  <2> DEFINE P(t) == \A i \in 1 .. Len(g) : t <= g[i].timestamp
             T == {g[i].timestamp : i \in 1 .. Len(g)}
  <2>1. a \in T /\ P(a) BY DEF IsFirst, Stamps
  <2>2. ASSUME NEW t \in T, P(t) PROVE t = a
    <3>1. t <= a /\ a <= t BY <2>1, <2>2
    <3>2. t \in Nat /\ a \in Nat BY <1>1, <2>1
    <3> QED BY <3>1, <3>2
  <2> HIDE DEF P, T
  <2>3. (CHOOSE t \in T : P(t)) = a BY <2>1, <2>2
  <2> QED BY <2>3 DEF P, T
<1>4. (CHOOSE t \in {g[i].timestamp : i \in 1 .. Len(g)} :
          \A i \in 1 .. Len(g) : t >= g[i].timestamp) = b
  <2> DEFINE P(t) == \A i \in 1 .. Len(g) : t >= g[i].timestamp
             T == {g[i].timestamp : i \in 1 .. Len(g)}
  <2>1. b \in T /\ P(b) 
    <3>1. b \in T /\ \A i \in 1 .. Len(g) : g[i].timestamp <= b BY DEF IsLast, Stamps
    <3>2. b \in Nat BY <1>1, <3>1
    <3> QED BY <1>1, <3>1, <3>2
  <2>2. ASSUME NEW t \in T, P(t) PROVE t = b
    <3>1. t >= b /\ b >= t BY <2>1, <2>2
    <3>2. t \in Nat /\ b \in Nat BY <1>1, <2>1
    <3> QED BY <3>1, <3>2
  <2> HIDE DEF P, T
  <2>3. (CHOOSE t \in T : P(t)) = b BY <2>1, <2>2
  <2> QED BY <2>3 DEF P, T
<1> QED BY <1>0, <1>2, <1>3, <1>4 DEF Summary

(* They stay or become the plan appended.                                  *)
LEMMA ExtremesOfAppend ==
  ASSUME NEW g \in Seq(Plans), NEW p \in Plans, NEW m, NEW a, NEW b,
         IsSlowest(g, m), IsFirst(g, a), IsLast(g, b)
  PROVE  /\ IsSlowest(Append(g, p),
              IF p.duration_ms >= g[m].duration_ms THEN Len(g) + 1 ELSE m)
         /\ IsFirst(Append(g, p), Earlier(a, p.timestamp))
         /\ IsLast(Append(g, p), Later(b, p.timestamp))
<1> DEFINE h == Append(g, p)
           L == Len(g)
<1>1. /\ L \in Nat /\ Len(h) = L + 1 /\ h[L + 1] = p
      /\ \A i \in 1 .. L : h[i] = g[i]
  BY AppendProperties
<1>2. /\ \A i \in 1 .. L : g[i].duration_ms \in Nat /\ g[i].timestamp \in Nat
      /\ p.duration_ms \in Nat /\ p.timestamp \in Nat
  BY PlanFields
<1>3. 1 .. L + 1 = (1 .. L) \cup {L + 1} BY <1>1
<1>4. Stamps(h) = Stamps(g) \cup {p.timestamp} BY <1>1, <1>3 DEF Stamps
<1>5. Stamps(g) \subseteq Nat BY <1>2 DEF Stamps
<1> HIDE DEF h
<1>6. IsFirst(h, Earlier(a, p.timestamp)) /\ IsLast(h, Later(b, p.timestamp))
  BY <1>2, <1>4, <1>5 DEF IsFirst, IsLast, Earlier, Later
<1>7. IsSlowest(h, IF p.duration_ms >= g[m].duration_ms THEN L + 1 ELSE m)
  <2>1. /\ m \in 1 .. L
        /\ \A j \in 1 .. L : /\ g[j].duration_ms <= g[m].duration_ms
                             /\ j > m => g[j].duration_ms < g[m].duration_ms
    BY DEF IsSlowest
  <2>2. CASE p.duration_ms >= g[m].duration_ms
    <3>1. ASSUME NEW j \in 1 .. L + 1
          PROVE  h[j].duration_ms <= p.duration_ms /\ ~(j > L + 1)
      BY <1>1, <1>2, <1>3, <2>1, <2>2
    <3>2. L + 1 \in 1 .. Len(h) BY <1>1
    <3> QED BY <1>1, <2>2, <3>1, <3>2 DEF IsSlowest
  <2>3. CASE ~(p.duration_ms >= g[m].duration_ms)
    <3>1. p.duration_ms < g[m].duration_ms BY <1>2, <2>1, <2>3
    <3>2. h[m] = g[m] /\ m \in 1 .. L + 1 BY <1>1, <2>1
    <3>3. ASSUME NEW j \in 1 .. L + 1
          PROVE  /\ h[j].duration_ms <= g[m].duration_ms
                 /\ j > m => h[j].duration_ms < g[m].duration_ms
      BY <1>1, <1>2, <1>3, <2>1, <3>1
    <3> QED BY <1>1, <2>3, <3>2, <3>3 DEF IsSlowest
  <2> QED BY <2>2, <2>3
<1> QED BY <1>6, <1>7 DEF h

(* The only plan of a group is all of them.                                *)
LEMMA ExtremesOfOne ==
  ASSUME NEW p \in Plans
  PROVE  /\ IsSlowest(<<p>>, 1) /\ IsFirst(<<p>>, p.timestamp)
         /\ IsLast(<<p>>, p.timestamp)
  BY PlanFields DEF IsSlowest, IsFirst, IsLast, Stamps

(* Every group that has a plan has them.                                   *)
LEMMA ExtremesExist ==
  ASSUME NEW g \in Seq(Plans), g # <<>>
  PROVE  \E m, a, b : IsSlowest(g, m) /\ IsFirst(g, a) /\ IsLast(g, b)
<1> DEFINE S == {w \in Seq(Plans) : w # <<>> =>
                   \E m, a, b : IsSlowest(w, m) /\ IsFirst(w, a) /\ IsLast(w, b)}
<1>1. <<>> \in S OBVIOUS
<1>2. ASSUME NEW w \in Seq(Plans), NEW p \in Plans, w \in S PROVE Append(w, p) \in S
  <2>1. Append(w, p) \in Seq(Plans) BY AppendProperties
  <2>2. CASE w = <<>>
    <3>1. Append(w, p) = <<p>> BY <2>2
    <3> QED BY <2>1, <3>1, ExtremesOfOne
  <2>3. CASE w # <<>>
    <3>1. PICK m, a, b : IsSlowest(w, m) /\ IsFirst(w, a) /\ IsLast(w, b) BY <1>2, <2>3
    <3> QED BY <2>1, <3>1, ExtremesOfAppend
  <2> QED BY <2>2, <2>3
<1>3. g \in S
  <2> HIDE DEF S
  <2> QED BY <1>1, <1>2, PlanSequences
<1> QED BY <1>3

(* The batch summary of a group is the accumulator its plans are pushed to.*)
LEMMA SummaryIsPushed ==
  ASSUME NEW g \in Seq(Plans), NEW p \in Plans
  PROVE  /\ g = <<>> => Summary(Append(g, p)) = new_group(p)
         /\ g # <<>> => /\ Summary(Append(g, p)) = push_plan(Summary(g), p)
                        /\ Summary(g) \in Accumulators
<1>1. CASE g = <<>>
  <2>1. Append(g, p) = <<p>> /\ <<p>> \in Seq(Plans) /\ Len(<<p>>) = 1 /\ <<p>>[1] = p BY <1>1
  <2> DEFINE h == <<p>>
  <2>2. IsSlowest(h, 1) /\ IsFirst(h, p.timestamp) /\ IsLast(h, p.timestamp)
    BY ExtremesOfOne
  <2>3. [i \in 1 .. Len(h) |-> Record(h[i])] = <<Record(p)>> BY <2>1
  <2> HIDE DEF h
  <2>4. Summary(h) = [representative |-> h[1],
                      executions     |-> [i \in 1 .. Len(h) |-> Record(h[i])],
                      min_timestamp  |-> p.timestamp, max_timestamp |-> p.timestamp]
    <3>1. h \in Seq(Plans) BY <2>1 DEF h
    <3> QED BY <2>2, <3>1, SummaryIs
  <2>5. h[1] = p BY <2>1 DEF h
  <2>6. Summary(h) = new_group(p) BY <2>3, <2>4, <2>5, Zenon DEF new_group
  <2> QED BY <1>1, <2>1, <2>6 DEF h
<1>2. CASE g # <<>>
  <2> DEFINE h == Append(g, p)
             L == Len(g)
  <2>1. /\ L \in Nat /\ h \in Seq(Plans) /\ Len(h) = L + 1 /\ h[L + 1] = p
        /\ \A i \in 1 .. L : h[i] = g[i]
    BY AppendProperties
  <2>2. PICK m, a, b : IsSlowest(g, m) /\ IsFirst(g, a) /\ IsLast(g, b)
    BY <1>2, ExtremesExist
  <2> DEFINE n == IF p.duration_ms >= g[m].duration_ms THEN L + 1 ELSE m
  <2>3. Summary(g) = [representative |-> g[m],
                      executions     |-> [i \in 1 .. L |-> Record(g[i])],
                      min_timestamp  |-> a, max_timestamp |-> b]
    BY <2>2, SummaryIs
  <2>4. IsSlowest(h, n) /\ IsFirst(h, Earlier(a, p.timestamp)) /\ IsLast(h, Later(b, p.timestamp))
    BY <2>2, ExtremesOfAppend
  <2>5. m \in 1 .. L BY <2>2 DEF IsSlowest
  <2>6. h[n] = slower(g[m], p) BY <2>1, <2>5 DEF slower
  <2> HIDE DEF h, n
  <2>7. Summary(h) = [representative |-> h[n],
                      executions     |-> [i \in 1 .. Len(h) |-> Record(h[i])],
                      min_timestamp  |-> Earlier(a, p.timestamp),
                      max_timestamp |-> Later(b, p.timestamp)]
    BY <2>1, <2>4, SummaryIs
  <2> DEFINE e == [i \in 1 .. L |-> Record(g[i])]
  <2>8. \A i \in 1 .. L : Record(g[i]) \in Executions BY PlanFields
  <2>9. e \in Seq(Executions) /\ Len(e) = L /\ \A i \in 1 .. L : e[i] = Record(g[i])
    <3>1. e \in [1 .. L -> Executions] BY <2>8
    <3>2. e \in Seq(Executions) BY <2>1, <3>1, SeqDef
    <3>3. DOMAIN e = 1 .. L OBVIOUS
    <3>4. Len(e) = L BY <2>1, <3>2, <3>3, LenProperties
    <3> QED BY <3>2, <3>4
  <2>10. [i \in 1 .. Len(h) |-> Record(h[i])] = Append(e, Record(p))
    <3> DEFINE f == [i \in 1 .. L + 1 |-> Record(h[i])]
    <3>1. \A i \in 1 .. L + 1 : i \in 1 .. L \/ i = L + 1 BY <2>1
    <3>2. Record(p) \in Executions BY PlanFields
    <3>3. \A i \in 1 .. L + 1 : f[i] = IF i = L + 1 THEN Record(p) ELSE e[i] 
      BY <2>1, <2>9, <3>1
    <3> HIDE DEF e
    <3>4. /\ Append(e, Record(p)) \in Seq(Executions)
          /\ Len(Append(e, Record(p))) = L + 1 /\ Append(e, Record(p))[L + 1] = Record(p)
          /\ \A i \in 1 .. L : Append(e, Record(p))[i] = e[i]
      BY <2>9, <3>2, AppendProperties
    <3>5. DOMAIN f = 1 .. L + 1 /\ f \in [1 .. L + 1 -> Executions]
      <4>1. \A i \in 1 .. L + 1 : h[i] \in Plans BY <2>1
      <4> QED BY <4>1, PlanFields
    <3>6. f \in Seq(Executions) /\ Len(f) = L + 1
      <4> HIDE DEF f
      <4>1. L + 1 \in Nat BY <2>1
      <4>2. f \in Seq(Executions) BY <3>5, <4>1, SeqDef
      <4> QED BY <3>5, <4>1, <4>2, LenProperties
    <3> HIDE DEF f
    <3>7. \A i \in 1 .. L + 1 : f[i] = Append(e, Record(p))[i] BY <3>1, <3>3, <3>4, <2>1
    <3>8. f = Append(e, Record(p)) BY <3>4, <3>6, <3>7, SeqEqual
    <3> QED BY <2>1, <3>8 DEF f
  <2>11. Summary(g) \in Accumulators
    <3>1. g[m] \in Plans BY <2>5
    <3>2. a \in Timestamps /\ b \in Timestamps BY <2>2, PlanFields DEF IsFirst, IsLast, Stamps
    <3> HIDE DEF e
    <3>3. Summary(g) = [representative |-> g[m], executions |-> e,
                      min_timestamp  |-> a, max_timestamp |-> b] BY <2>3 DEF e
    <3> QED BY <2>9, <3>1, <3>2, <3>3 DEF Accumulators
  <2>12. Summary(h) = push_plan(Summary(g), p)
    <3> HIDE DEF e
    <3>3. Summary(g) = [representative |-> g[m], executions |-> e,
                      min_timestamp  |-> a, max_timestamp |-> b] BY <2>3 DEF e
    <3>4. /\ Summary(g).representative = g[m] /\ Summary(g).executions = e
          /\ Summary(g).min_timestamp = a /\ Summary(g).max_timestamp = b
      BY <3>3
    <3>5. Summary(h) = [representative |-> slower(g[m], p),
                        executions     |-> Append(e, Record(p)),
                        min_timestamp  |-> Earlier(a, p.timestamp),
                        max_timestamp |-> Later(b, p.timestamp)]
      BY <2>6, <2>7, <2>10, Zenon
    <3> QED BY <3>4, <3>5, Zenon DEF push_plan
  <2> QED BY <1>2, <2>11, <2>12 DEF h
<1> QED BY <1>1, <1>2

-----------------------------------------------------------------------------
(* Groupers: merging is associative.                                       *)

(* What an accumulator is made of.                                         *)
LEMMA AccumulatorFields ==
  ASSUME NEW g \in Accumulators
  PROVE  /\ g.representative \in Plans /\ g.executions \in Seq(Executions)
         /\ g.min_timestamp \in Nat /\ g.max_timestamp \in Nat
         /\ g.min_timestamp \in Timestamps /\ g.max_timestamp \in Timestamps
         /\ g.representative.duration_ms \in Nat
  BY GroupingAssumption DEF Accumulators, Plans

(* The later of the slowest, the earliest and the latest are each the same *)
(* however three ranges are bracketed.                                     *)
LEMMA PartsAssociative ==
  ASSUME NEW p \in Plans, NEW q \in Plans, NEW r \in Plans,
         NEW a \in Nat, NEW b \in Nat, NEW c \in Nat
  PROVE  /\ slower(slower(p, q), r) = slower(p, slower(q, r))
         /\ Earlier(Earlier(a, b), c) = Earlier(a, Earlier(b, c))
         /\ Later(Later(a, b), c) = Later(a, Later(b, c))
<1>1. p.duration_ms \in Nat /\ q.duration_ms \in Nat /\ r.duration_ms \in Nat
  BY GroupingAssumption DEF Plans
<1>2. slower(slower(p, q), r) = slower(p, slower(q, r))
  BY <1>1 DEF slower
<1>3. Earlier(Earlier(a, b), c) = Earlier(a, Earlier(b, c)) BY DEF Earlier
<1>4. Later(Later(a, b), c) = Later(a, Later(b, c)) BY DEF Later
<1> QED BY <1>2, <1>3, <1>4

(* GroupAccumulator::merge returns an accumulator, and brackets do not     *)
(* matter: "executions concatenate in order, and the representative is a   *)
(* max under last wins on ties over that concatenation" (log_parser.rs).   *)
LEMMA GroupMergeAssociative ==
  ASSUME NEW f \in Accumulators, NEW g \in Accumulators, NEW h \in Accumulators
  PROVE  /\ merge_group(f, g) \in Accumulators
         /\ merge_group(merge_group(f, g), h) = merge_group(f, merge_group(g, h))
<1>1. merge_group(f, g) \in Accumulators
  <2>1. slower(f.representative, g.representative) \in Plans
    BY AccumulatorFields DEF slower
  <2>2. f.executions \o g.executions \in Seq(Executions)
    BY AccumulatorFields, ConcatProperties
  <2>3. /\ Earlier(f.min_timestamp, g.min_timestamp) \in Timestamps
        /\ Later(f.max_timestamp, g.max_timestamp) \in Timestamps
    BY AccumulatorFields DEF Earlier, Later
  <2> QED BY <2>1, <2>2, <2>3 DEF merge_group, Accumulators
<1>2. (f.executions \o g.executions) \o h.executions =
        f.executions \o (g.executions \o h.executions)
  <2>1. /\ f.executions \in Seq(Executions) /\ g.executions \in Seq(Executions)
        /\ h.executions \in Seq(Executions)
    BY AccumulatorFields
  <2>2. \A u, v, w \in Seq(Executions) : (u \o v) \o w = u \o (v \o w)
    BY ConcatAssociative
  <2> QED BY <2>1, <2>2, Zenon
<1>3. /\ slower(slower(f.representative, g.representative), h.representative) =
           slower(f.representative, slower(g.representative, h.representative))
      /\ Earlier(Earlier(f.min_timestamp, g.min_timestamp), h.min_timestamp) =
           Earlier(f.min_timestamp, Earlier(g.min_timestamp, h.min_timestamp))
      /\ Later(Later(f.max_timestamp, g.max_timestamp), h.max_timestamp) =
           Later(f.max_timestamp, Later(g.max_timestamp, h.max_timestamp))
  BY AccumulatorFields, PartsAssociative
<1> QED BY <1>1, <1>2, <1>3 DEF merge_group

(* The same for whole maps of groups, whichever keys each of them has.     *)
LEMMA GroupsMergeAssociative ==
  ASSUME NEW a, NEW b, NEW c, IsGroups(a), IsGroups(b), IsGroups(c)
  PROVE  /\ IsGroups(merge_groups(a, b))
         /\ merge_groups(merge_groups(a, b), c) = merge_groups(a, merge_groups(b, c))
<1>1. /\ \A k \in DOMAIN a : a[k] \in Accumulators
      /\ \A k \in DOMAIN b : b[k] \in Accumulators
      /\ \A k \in DOMAIN c : c[k] \in Accumulators
  BY DEF IsGroups
<1>2. DOMAIN merge_groups(a, b) = DOMAIN a \cup DOMAIN b
      /\ DOMAIN merge_groups(b, c) = DOMAIN b \cup DOMAIN c
  BY DEF merge_groups
<1>3. IsGroups(merge_groups(a, b))
  <2>1. \A k \in DOMAIN a \cup DOMAIN b : merge_groups(a, b)[k] \in Accumulators
    BY <1>1, GroupMergeAssociative DEF merge_groups
  <2> QED BY <1>2, <2>1 DEF IsGroups, merge_groups
<1>4. \A k \in (DOMAIN a \cup DOMAIN b) \cup DOMAIN c :
        merge_groups(merge_groups(a, b), c)[k] =
          merge_groups(a, merge_groups(b, c))[k]
  <2> SUFFICES ASSUME NEW k \in (DOMAIN a \cup DOMAIN b) \cup DOMAIN c
               PROVE  merge_groups(merge_groups(a, b), c)[k] =
                        merge_groups(a, merge_groups(b, c))[k]
    OBVIOUS
  <2>1. CASE k \in DOMAIN a /\ k \in DOMAIN b /\ k \in DOMAIN c
    <3>1. merge_group(merge_group(a[k], b[k]), c[k]) =
            merge_group(a[k], merge_group(b[k], c[k]))
      BY <1>1, <2>1, GroupMergeAssociative
    <3> QED BY <1>2, <2>1, <3>1 DEF merge_groups
  <2>2. CASE ~(k \in DOMAIN a /\ k \in DOMAIN b /\ k \in DOMAIN c)
    BY <1>2, <2>2 DEF merge_groups
  <2> QED BY <2>1, <2>2
<1>5. /\ DOMAIN merge_groups(merge_groups(a, b), c) =
           (DOMAIN a \cup DOMAIN b) \cup DOMAIN c
      /\ DOMAIN merge_groups(a, merge_groups(b, c)) =
           (DOMAIN a \cup DOMAIN b) \cup DOMAIN c
  BY <1>2 DEF merge_groups
<1>6. /\ merge_groups(merge_groups(a, b), c) =
           [k \in (DOMAIN a \cup DOMAIN b) \cup DOMAIN c |->
              merge_groups(merge_groups(a, b), c)[k]]
      /\ merge_groups(a, merge_groups(b, c)) =
           [k \in (DOMAIN a \cup DOMAIN b) \cup DOMAIN c |->
              merge_groups(a, merge_groups(b, c))[k]]
  BY <1>5 DEF merge_groups
<1>7. merge_groups(merge_groups(a, b), c) = merge_groups(a, merge_groups(b, c))
  BY <1>4, <1>6
<1> QED BY <1>3, <1>7

(* Merging groupers is associative, so rayon may reduce adjacent files in  *)
(* any grouping, and a new grouper is the identity on both sides, so the   *)
(* reduction's start and failed files change nothing ("This is sound       *)
(* because merging is associative ... An empty grouper is the identity",   *)
(* log_parser.rs).                                                         *)
THEOREM ReductionIsSound ==
  ASSUME NEW q, NEW r, NEW s, IsGrouper(q), IsGrouper(r), IsGrouper(s)
  PROVE  /\ IsGrouper(merge(q, r))
         /\ merge(merge(q, r), s) = merge(q, merge(r, s))
         /\ merge(NewGrouper, q) = q /\ merge(q, NewGrouper) = q
<1>1. /\ IsGroups(q.groups) /\ IsGroups(r.groups) /\ IsGroups(s.groups)
      /\ q.accepted \in Nat /\ r.accepted \in Nat /\ s.accepted \in Nat
  BY DEF IsGrouper
<1>2. IsGrouper(merge(q, r))
  <2>1. IsGroups(merge_groups(q.groups, r.groups))
    BY <1>1, GroupsMergeAssociative
  <2>2. q.accepted + r.accepted \in Nat BY <1>1
  <2> QED BY <2>1, <2>2 DEF IsGrouper, merge
<1>3. merge(merge(q, r), s) = merge(q, merge(r, s))
  <2>1. merge_groups(merge_groups(q.groups, r.groups), s.groups) =
          merge_groups(q.groups, merge_groups(r.groups, s.groups))
    BY <1>1, GroupsMergeAssociative
  <2>2. (q.accepted + r.accepted) + s.accepted =
          q.accepted + (r.accepted + s.accepted)
    BY <1>1
  <2> QED BY <2>1, <2>2 DEF merge
<1>4. merge(NewGrouper, q) = q /\ merge(q, NewGrouper) = q
  <2> DEFINE g == q.groups
  <2>1. g = [k \in DOMAIN g |-> g[k]] BY <1>1 DEF IsGroups
  <2>2. DOMAIN EmptyGroups = {} BY DEF EmptyGroups
  <2>3. /\ merge_groups(EmptyGroups, g) = [k \in DOMAIN g |-> g[k]]
        /\ merge_groups(g, EmptyGroups) = [k \in DOMAIN g |-> g[k]]
    BY <2>2 DEF merge_groups
  <2>4. 0 + q.accepted = q.accepted /\ q.accepted + 0 = q.accepted BY <1>1
  <2>5. q = [groups |-> g, accepted |-> q.accepted] BY DEF IsGrouper
  <2>6. merge(NewGrouper, q) = [groups |-> g, accepted |-> q.accepted]
    BY <2>1, <2>3, <2>4 DEF merge, NewGrouper
  <2>7. merge(q, NewGrouper) = [groups |-> g, accepted |-> q.accepted]
    BY <2>1, <2>3, <2>4 DEF merge, NewGrouper
  <2> QED BY <2>5, <2>6, <2>7
<1> QED BY <1>2, <1>3, <1>4

(* Folding a plan is merging the grouper that holds only this plan: with   *)
(* associativity, a range of plans gives the same groups whether it is     *)
(* folded plan by plan or cut anywhere and merged (grouping.rs: merge      *)
(* preserves "the ordering semantics of a single sequential pass").        *)
THEOREM FoldIsMerge ==
  ASSUME NEW q, IsGrouper(q), NEW p \in Plans
  PROVE  fold_accepted(q, p) = merge(q, fold_accepted(NewGrouper, p))
<1> DEFINE k == key(p)
           one == fold_accepted(NewGrouper, p)
<1>1. one.groups = [j \in {k} |-> new_group(p)] /\ one.accepted = 1
  <2>1. DOMAIN NewGrouper.groups = {} /\ NewGrouper.accepted = 0
    BY DEF NewGrouper, EmptyGroups
  <2> QED BY <2>1 DEF fold_accepted
<1>2. ASSUME k \in DOMAIN q.groups
      PROVE  merge_group(q.groups[k], new_group(p)) = push_plan(q.groups[k], p)
  <2> DEFINE g == q.groups[k]
  <2>1. g \in Accumulators BY <1>2 DEF IsGrouper, IsGroups
  <2>2. g.executions \in Seq(Executions) /\ Record(p) \in Executions
    BY <2>1, AccumulatorFields DEF Record, Plans, Executions
  <2> HIDE DEF g
  <2>3. g.executions \o <<Record(p)>> = Append(g.executions, Record(p))
    <3>1. \A u \in Seq(Executions), e \in Executions : Append(u, e) = u \o <<e>>
      BY AppendIsConcat
    <3> QED BY <2>2, <3>1, Zenon
  <2>4. merge_group(g, new_group(p)) = push_plan(g, p)
    BY <2>3 DEF merge_group, push_plan, new_group
  <2> QED BY <2>4 DEF g
<1> HIDE DEF k, one
<1>3. merge_groups(q.groups, one.groups) =
        [j \in DOMAIN q.groups \cup {k} |->
           IF j # k THEN q.groups[j]
           ELSE IF k \notin DOMAIN q.groups THEN new_group(p)
           ELSE merge_group(q.groups[k], new_group(p))]
  BY <1>1 DEF merge_groups
<1>4. fold_accepted(q, p).groups = merge_groups(q.groups, one.groups)
  <2>1. fold_accepted(q, p).groups =
          [j \in DOMAIN q.groups \cup {k} |->
             IF j # k THEN q.groups[j]
             ELSE IF k \notin DOMAIN q.groups THEN new_group(p)
             ELSE push_plan(q.groups[k], p)]
    BY DEF fold_accepted, k
  <2> QED BY <1>2, <1>3, <2>1
<1>5. fold_accepted(q, p) =
        [groups |-> fold_accepted(q, p).groups, accepted |-> q.accepted + 1]
  BY DEF fold_accepted
<1>6. merge(q, one) =
        [groups |-> merge_groups(q.groups, one.groups), accepted |-> q.accepted + 1]
  BY <1>1 DEF merge
<1> QED BY <1>4, <1>5, <1>6 DEF one

-----------------------------------------------------------------------------
(* Groupers: folding and merging follow the batch path.                    *)

(* The grouper of the batch path.                                          *)
Batch(s) == [groups |-> get_processed_queries(s), accepted |-> Len(s)]

KeysOf(s) == {key(s[i]) : i \in DOMAIN s}

(* The groups of the batch path: the keys that occur, each with its plans. *)
LEMMA BatchGroups ==
  ASSUME NEW s \in Seq(Plans)
  PROVE  /\ DOMAIN get_processed_queries(s) = KeysOf(s)
         /\ get_processed_queries(s) = [k \in KeysOf(s) |-> Summary(OfKey(s, k))]
         /\ \A k : OfKey(s, k) \in Seq(Plans) /\ (k \in KeysOf(s) <=> OfKey(s, k) # <<>>)
<1>1. get_processed_queries(s) = [k \in KeysOf(s) |-> Summary(OfKey(s, k))]
  BY SummaryOfKey DEF get_processed_queries, KeysOf
<1>2. ASSUME NEW k PROVE OfKey(s, k) \in Seq(Plans) /\ (k \in KeysOf(s) <=> OfKey(s, k) # <<>>)
  <2> DEFINE W == {p \in Plans : key(p) = k}
             g == OfKey(s, k)
  <2>1. g \in Seq(Plans) /\ {g[i] : i \in 1 .. Len(g)} = {s[i] : i \in 1 .. Len(s)} \cap W
    BY PlansInRange DEF OfKey
  <2>2. g = <<>> <=> {g[i] : i \in 1 .. Len(g)} = {}
    <3> HIDE DEF g
    <3>1. g # <<>> => Len(g) \in Nat \ {0} BY <2>1, EmptySeq
    <3>2. g = <<>> => Len(g) = 0 OBVIOUS
    <3>3. g # <<>> => 1 \in 1 .. Len(g) BY <3>1
    <3>4. g # <<>> => g[1] \in {g[i] : i \in 1 .. Len(g)} BY <3>3
    <3>5. g = <<>> => 1 .. Len(g) = {} BY <3>2
    <3>6. g = <<>> => {g[i] : i \in 1 .. Len(g)} = {} BY <3>5
    <3> QED BY <3>4, <3>6
  <2>3. {s[i] : i \in 1 .. Len(s)} \subseteq Plans /\ DOMAIN s = 1 .. Len(s) BY LenProperties
  <2>4. k \in KeysOf(s) <=> {s[i] : i \in 1 .. Len(s)} \cap W # {}
    BY <2>3 DEF KeysOf
  <2> HIDE DEF W, g
  <2>5. g \in Seq(Plans) /\ (k \in KeysOf(s) <=> g # <<>>) BY <2>1, <2>2, <2>4
  <2> QED BY <2>5 DEF g
<1> QED BY <1>1, <1>2

(* They are a grouper; of no plans, the new one.                           *)
LEMMA BatchIsGrouper ==
  /\ Batch(<<>>) = NewGrouper
  /\ \A s \in Seq(Plans) : IsGrouper(Batch(s))
<1>1. Batch(<<>>) = NewGrouper
  <2>1. get_processed_queries(<<>>) = [k \in {} |-> process_query_group(<<>>, k)]
    BY DEF get_processed_queries
  <2>2. get_processed_queries(<<>>) = EmptyGroups BY <2>1 DEF EmptyGroups
  <2> QED BY <2>2 DEF Batch, NewGrouper
<1>2. ASSUME NEW s \in Seq(Plans) PROVE IsGrouper(Batch(s))
  <2>1. /\ get_processed_queries(s) = [k \in KeysOf(s) |-> Summary(OfKey(s, k))]
        /\ \A k : OfKey(s, k) \in Seq(Plans) /\ (k \in KeysOf(s) <=> OfKey(s, k) # <<>>)
    BY BatchGroups
  <2>2. ASSUME NEW k \in KeysOf(s) PROVE Summary(OfKey(s, k)) \in Accumulators
    <3>1. PICK i \in DOMAIN s : TRUE BY DEF KeysOf
    <3>2. s[i] \in Plans BY <3>1, LenProperties, ElementOfSeq
    <3> QED BY <2>1, <3>2, SummaryIsPushed
  <2>3. IsGroups(get_processed_queries(s)) BY <2>1, <2>2 DEF IsGroups
  <2>4. Len(s) \in Nat OBVIOUS
  <2> QED BY <2>3, <2>4 DEF Batch, IsGrouper
<1> QED BY <1>1, <1>2

(* A single pass over the plans computes what the batch path computes.     *)
THEOREM FoldIsBatch ==
  ASSUME NEW s \in Seq(Plans), NEW p \in Plans
  PROVE  Batch(Append(s, p)) = fold_accepted(Batch(s), p)
<1>2. /\ DOMAIN get_processed_queries(s) = KeysOf(s)
      /\ get_processed_queries(s) = [k \in KeysOf(s) |-> Summary(OfKey(s, k))]
      /\ \A k : OfKey(s, k) \in Seq(Plans) /\ (k \in KeysOf(s) <=> OfKey(s, k) # <<>>)
  BY BatchGroups
<1>5. Batch(Append(s, p)) = fold_accepted(Batch(s), p)
  <2> DEFINE t == Append(s, p)
             k0 == key(p)
  <2>1. /\ t \in Seq(Plans) /\ Len(t) = Len(s) + 1 /\ t[Len(s) + 1] = p
        /\ \A i \in 1 .. Len(s) : t[i] = s[i]
        /\ Len(s) \in Nat /\ DOMAIN s = 1 .. Len(s) /\ DOMAIN t = 1 .. Len(s) + 1
    BY AppendProperties, LenProperties
  <2>2. 1 .. Len(s) + 1 = (1 .. Len(s)) \cup {Len(s) + 1} BY <2>1
  <2>3. \A k : OfKey(t, k) = IF k = k0 THEN Append(OfKey(s, k), p) ELSE OfKey(s, k)
    <3> SUFFICES ASSUME NEW k 
                 PROVE OfKey(t, k) = IF k = k0 THEN Append(OfKey(s, k), p) ELSE OfKey(s, k)
      OBVIOUS
    <3> DEFINE W == {r \in Plans : key(r) = k}
    <3>1. p \in W <=> k = k0 OBVIOUS
    <3> HIDE DEF W
    <3>2. PlansIn(t, W) = IF p \in W THEN Append(PlansIn(s, W), p) ELSE PlansIn(s, W)
      BY PlansInAppend
    <3> QED BY <3>1, <3>2 DEF OfKey, W
  <2> HIDE DEF t
  <2>4. KeysOf(t) = KeysOf(s) \cup {k0} BY <2>1, <2>2 DEF KeysOf
  <2>5. get_processed_queries(t) = [k \in KeysOf(t) |-> Summary(OfKey(t, k))]
    BY <2>1, BatchGroups
  <2>6. \A k \in KeysOf(s) : k # k0 => Summary(OfKey(t, k)) = get_processed_queries(s)[k]
    BY <1>2, <2>3
  <2>7. Summary(OfKey(t, k0)) =
          IF k0 \in KeysOf(s) THEN push_plan(get_processed_queries(s)[k0], p) ELSE new_group(p)
    BY <1>2, <2>3, SummaryIsPushed
  <2> HIDE DEF k0
  <2>8. get_processed_queries(t) =
          [k \in KeysOf(s) \cup {k0} |->
             IF k = k0 THEN Summary(OfKey(t, k0)) ELSE get_processed_queries(s)[k]]
    BY <2>4, <2>5, <2>6
  <2>9. fold_accepted(Batch(s), p) =
          [groups |-> [k \in KeysOf(s) \cup {k0} |->
             IF k = k0 THEN Summary(OfKey(t, k0)) ELSE get_processed_queries(s)[k]],
           accepted |-> Len(s) + 1]
    <3>1. Batch(s).groups = get_processed_queries(s) /\ Batch(s).accepted = Len(s) BY DEF Batch
    <3> QED BY <1>2, <2>7, <3>1 DEF fold_accepted, k0
  <2>10. Batch(t) = [groups |-> get_processed_queries(t), accepted |-> Len(s) + 1]
    BY <2>1 DEF Batch
  <2> QED BY <2>8, <2>9, <2>10 DEF t
<1> QED BY <1>5

(* Merging the groupers of one range of plans and of the next gives the    *)
(* groups of both.                                                         *)
THEOREM MergeIsBatch ==
  ASSUME NEW s \in Seq(Plans), NEW t \in Seq(Plans)
  PROVE  merge(Batch(s), Batch(t)) = Batch(s \o t)
<1> DEFINE S == {u \in Seq(Plans) : merge(Batch(s), Batch(u)) = Batch(s \o u)}
<1>1. <<>> \in S
  <2>1. <<>> \in Seq(Plans) /\ s \o <<>> = s BY ConcatEmptySeq
  <2> QED BY <2>1, BatchIsGrouper, ReductionIsSound
<1>2. ASSUME NEW u \in Seq(Plans), NEW p \in Plans, u \in S PROVE Append(u, p) \in S
  <2> DEFINE one == fold_accepted(NewGrouper, p)
  <2>1. /\ s \o u \in Seq(Plans) /\ Append(u, p) \in Seq(Plans)
        /\ <<>> \in Seq(Plans) /\ Append(<<>>, p) \in Seq(Plans)
    BY ConcatProperties, AppendProperties
  <2>2. s \o Append(u, p) = Append(s \o u, p)
    <3>1. <<p>> \in Seq(Plans) OBVIOUS
    <3>2. Append(u, p) = u \o <<p>> /\ Append(s \o u, p) = (s \o u) \o <<p>>
      BY <2>1, AppendIsConcat
    <3>3. (s \o u) \o <<p>> = s \o (u \o <<p>>) BY <3>1, ConcatAssociative
    <3> QED BY <3>2, <3>3, Zenon
  <2>3. IsGrouper(Batch(s)) /\ IsGrouper(Batch(u)) /\ IsGrouper(Batch(s \o u))
    BY <2>1, BatchIsGrouper
  <2>4. IsGrouper(one)
    <3>1. Batch(Append(<<>>, p)) = one BY <2>1, FoldIsBatch, BatchIsGrouper
    <3>2. IsGrouper(Batch(Append(<<>>, p))) BY <2>1, BatchIsGrouper
    <3> HIDE DEF one
    <3> QED BY <3>1, <3>2
  <2>5. Batch(Append(u, p)) = merge(Batch(u), one) BY <2>3, FoldIsBatch, FoldIsMerge
  <2>6. Batch(s \o Append(u, p)) = merge(Batch(s \o u), one)
    BY <2>1, <2>2, <2>3, FoldIsBatch, FoldIsMerge
  <2> HIDE DEF one
  <2>7. merge(merge(Batch(s), Batch(u)), one) = merge(Batch(s), merge(Batch(u), one))
    BY <2>3, <2>4, ReductionIsSound
  <2>8. merge(Batch(s), Batch(u)) = Batch(s \o u) BY <1>2
  <2> QED BY <2>1, <2>5, <2>6, <2>7, <2>8
<1>3. t \in S
  <2> HIDE DEF S
  <2> QED BY <1>1, <1>2, PlanSequences
<1> QED BY <1>3

-----------------------------------------------------------------------------
(* Dates, flattened sequences and folded messages.                         *)

(* The dates shown are the first and the last of the plans.                *)
LEMMA DatesOfBatch ==
  ASSUME NEW s \in Seq(Plans)
  PROVE  LET d == calculate_date_range(get_processed_queries(s))
         IN /\ s = <<>> => d = <<>>
            /\ s # <<>> => IsFirst(s, d[1]) /\ IsLast(s, d[2])
<1> DEFINE groups == get_processed_queries(s)
           mins == {groups[k].min_timestamp : k \in DOMAIN groups}
           maxs == {groups[k].max_timestamp : k \in DOMAIN groups}
<1>1. /\ DOMAIN groups = KeysOf(s)
      /\ \A k \in KeysOf(s) : groups[k] = Summary(OfKey(s, k))
      /\ \A k : OfKey(s, k) \in Seq(Plans) /\ (k \in KeysOf(s) <=> OfKey(s, k) # <<>>)
  BY BatchGroups
<1>2. CASE s = <<>>
  <2>1. groups = EmptyGroups
    <3>1. Batch(<<>>) = NewGrouper BY BatchIsGrouper
    <3> QED BY <1>2, <3>1 DEF Batch, NewGrouper
  <2> HIDE DEF groups
  <2>2. calculate_date_range(groups) = <<>> BY <2>1 DEF calculate_date_range
  <2> QED BY <1>2, <2>2 DEF groups
<1>3. CASE s # <<>>
  <2>1. PICK m, a, b : IsSlowest(s, m) /\ IsFirst(s, a) /\ IsLast(s, b)
    BY <1>3, ExtremesExist
  <2>2. Stamps(s) \subseteq Nat BY PlanFields DEF Stamps
  <2>3. ASSUME NEW k \in KeysOf(s)
        PROVE  /\ IsFirst(OfKey(s, k), groups[k].min_timestamp)
               /\ IsLast(OfKey(s, k), groups[k].max_timestamp)
    <3> DEFINE g == OfKey(s, k)
    <3>1. g \in Seq(Plans) /\ g # <<>> /\ groups[k] = Summary(g) BY <1>1
    <3> HIDE DEF g, groups
    <3>2. PICK x, y, z : IsSlowest(g, x) /\ IsFirst(g, y) /\ IsLast(g, z)
      BY <3>1, ExtremesExist
    <3>3. groups[k] = [representative |-> g[x],
                       executions     |-> [i \in 1 .. Len(g) |-> Record(g[i])],
                       min_timestamp  |-> y, max_timestamp |-> z]
      BY <3>1, <3>2, SummaryIs
    <3>4. groups[k].min_timestamp = y /\ groups[k].max_timestamp = z BY <3>3
    <3> QED BY <3>2, <3>4 DEF g
  <2>4. \A k \in KeysOf(s) : Stamps(OfKey(s, k)) \subseteq Stamps(s)
    <3> SUFFICES ASSUME NEW k \in KeysOf(s) PROVE Stamps(OfKey(s, k)) \subseteq Stamps(s)
      OBVIOUS
    <3> DEFINE W == {p \in Plans : key(p) = k}
               g == OfKey(s, k)
    <3>1. {g[i] : i \in 1 .. Len(g)} = {s[i] : i \in 1 .. Len(s)} \cap W
      BY PlansInRange DEF OfKey
    <3> HIDE DEF g, W
    <3>2. Stamps(g) \subseteq Stamps(s)
      <4> SUFFICES ASSUME NEW i \in 1 .. Len(g) PROVE g[i].timestamp \in Stamps(s)
        BY DEF Stamps
      <4>1. g[i] \in {s[j] : j \in 1 .. Len(s)} BY <3>1
      <4>2. PICK j \in 1 .. Len(s) : g[i] = s[j] BY <4>1
      <4> QED BY <4>2 DEF Stamps
    <3> QED BY <3>2 DEF g
  <2>5. \A i \in 1 .. Len(s) : /\ key(s[i]) \in KeysOf(s)
                               /\ s[i].timestamp \in Stamps(OfKey(s, key(s[i])))
    <3> SUFFICES ASSUME NEW i \in 1 .. Len(s)
                 PROVE /\ key(s[i]) \in KeysOf(s)
                       /\ s[i].timestamp \in Stamps(OfKey(s, key(s[i])))
      OBVIOUS
    <3> DEFINE k == key(s[i])
               W == {p \in Plans : key(p) = k}
               g == OfKey(s, k)
    <3>1. s[i] \in {g[j] : j \in 1 .. Len(g)}
      <4>1. {g[j] : j \in 1 .. Len(g)} = {s[j] : j \in 1 .. Len(s)} \cap W
        BY PlansInRange DEF OfKey
      <4>2. s[i] \in W OBVIOUS
      <4> QED BY <4>1, <4>2
    <3>2. k \in KeysOf(s) BY LenProperties DEF KeysOf
    <3> HIDE DEF g
    <3>3. s[i].timestamp \in Stamps(g) BY <3>1 DEF Stamps
    <3> QED BY <3>2, <3>3 DEF g
  <2> HIDE DEF groups
  <2>6. mins \subseteq Stamps(s) /\ maxs \subseteq Stamps(s)
    BY <1>1, <2>3, <2>4 DEF IsFirst, IsLast
  <2>7. a \in mins /\ b \in maxs
    <3>1. PICK i \in 1 .. Len(s) : a = s[i].timestamp BY <2>1 DEF IsFirst, Stamps
    <3>2. PICK j \in 1 .. Len(s) : b = s[j].timestamp BY <2>1 DEF IsLast, Stamps
    <3>3. groups[key(s[i])].min_timestamp <= a /\ groups[key(s[i])].min_timestamp \in mins
      BY <1>1, <2>3, <2>5, <3>1 DEF IsFirst
    <3>4. b <= groups[key(s[j])].max_timestamp /\ groups[key(s[j])].max_timestamp \in maxs
      BY <1>1, <2>3, <2>5, <3>2 DEF IsLast
    <3>5. a <= groups[key(s[i])].min_timestamp /\ groups[key(s[j])].max_timestamp <= b
      BY <2>1, <2>6, <3>3, <3>4 DEF IsFirst, IsLast
    <3>6. /\ groups[key(s[i])].min_timestamp \in Nat /\ a \in Nat
          /\ groups[key(s[j])].max_timestamp \in Nat /\ b \in Nat
      BY <2>1, <2>2, <2>6, <3>3, <3>4 DEF IsFirst, IsLast
    <3> QED BY <3>3, <3>4, <3>5, <3>6
  <2>8. /\ \A u \in mins : a <= u
        /\ \A u \in maxs : b >= u
    BY <2>1, <2>2, <2>6 DEF IsFirst, IsLast
  <2>9. mins \subseteq Nat /\ maxs \subseteq Nat BY <2>2, <2>6
  <2> HIDE DEF mins, maxs
  <2>10. (CHOOSE t \in mins : \A u \in mins : t <= u) = a
    <3> DEFINE P(t) == \A u \in mins : t <= u
    <3>1. a \in mins /\ P(a) BY <2>7, <2>8
    <3>2. \A t \in mins : P(t) => t = a BY <2>7, <2>8, <2>9
    <3> HIDE DEF P
    <3>3. (CHOOSE t \in mins : P(t)) = a BY <3>1, <3>2
    <3> QED BY <3>3 DEF P
  <2>11. (CHOOSE t \in maxs : \A u \in maxs : t >= u) = b
    <3> DEFINE P(t) == \A u \in maxs : t >= u
    <3>1. b \in maxs /\ P(b) BY <2>7, <2>8
    <3>2. \A t \in maxs : P(t) => t = b BY <2>7, <2>8, <2>9
    <3> HIDE DEF P
    <3>3. (CHOOSE t \in maxs : P(t)) = b BY <3>1, <3>2
    <3> QED BY <3>3 DEF P
  <2>12. groups # EmptyGroups
    <3>1. DOMAIN EmptyGroups = {} BY DEF EmptyGroups
    <3>2. KeysOf(s) # {}
      <4>1. Len(s) \in Nat \ {0} BY <1>3, EmptySeq
      <4>2. 1 \in 1 .. Len(s) BY <4>1
      <4> QED BY <2>5, <4>2
    <3> QED BY <1>1, <3>1, <3>2
  <2>13. calculate_date_range(groups) = <<a, b>>
    BY <2>10, <2>11, <2>12 DEF calculate_date_range, mins, maxs
  <2> QED BY <1>3, <2>1, <2>13 DEF groups
<1> QED BY <1>2, <1>3

(* FlattenSeq: the prefixes it builds.                                     *)
IsConcatenation(w, ss) ==
  /\ w \in [0 .. Len(ss) -> Seq(Plans)] /\ w[0] = <<>>
  /\ \A i \in 1 .. Len(ss) : w[i] = w[i - 1] \o ss[i]

(* FlattenSeq is the last of the growing concatenations.                   *)
LEMMA FlattenIsConcatenation ==
  ASSUME NEW ss \in Seq(Seq(Plans))
  PROVE  \E w : IsConcatenation(w, ss) /\ FlattenSeq(ss) = w[Len(ss)]
<1> DEFINE L == Len(ss)
           St(w, i) == IF i = 1 THEN ss[i] ELSE w[i - 1] \o ss[i]
           S == {n \in Nat : n \in 0 .. L =>
                   \E w \in [1 .. n -> Seq(Plans)] : \A i \in 1 .. n : w[i] = St(w, i)}
<1>0. L \in Nat /\ \A i \in 1 .. L : ss[i] \in Seq(Plans) OBVIOUS
<1>1. 0 \in S
  <2> DEFINE w == [i \in 1 .. 0 |-> <<>>]
  <2>1. w \in [1 .. 0 -> Seq(Plans)] /\ \A i \in 1 .. 0 : w[i] = St(w, i) OBVIOUS
  <2> HIDE DEF w, St
  <2> QED BY <2>1
<1>2. ASSUME NEW n \in Nat, n \in S PROVE n + 1 \in S
  <2>1. SUFFICES ASSUME n + 1 \in 0 .. L
                 PROVE  \E w \in [1 .. n + 1 -> Seq(Plans)] :
                          \A i \in 1 .. n + 1 : w[i] = St(w, i)
    <3> HIDE DEF St
    <3> QED OBVIOUS
  <2>2. n \in 0 .. L /\ n + 1 \in 1 .. L BY <1>0, <2>1
  <2>3. PICK w \in [1 .. n -> Seq(Plans)] : \A i \in 1 .. n : w[i] = St(w, i) BY <1>2, <2>2
  <2> DEFINE e == IF n = 0 THEN ss[n + 1] ELSE w[n] \o ss[n + 1]
             v == [i \in 1 .. n + 1 |-> IF i = n + 1 THEN e ELSE w[i]]
  <2>4. e \in Seq(Plans)
    <3>1. n # 0 => w[n] \in Seq(Plans) BY <2>3
    <3>2. ss[n + 1] \in Seq(Plans) BY <1>0, <2>2
    <3> QED BY <3>1, <3>2, ConcatProperties
  <2> HIDE DEF e
  <2>5. v \in [1 .. n + 1 -> Seq(Plans)] BY <2>4
  <2>6. (\A i \in 1 .. n : v[i] = w[i]) /\ v[n + 1] = e OBVIOUS
  <2> HIDE DEF v
  <2>7. ASSUME NEW i \in 1 .. n + 1 PROVE v[i] = St(v, i)
    <3>1. CASE i \in 1 .. n
      <4>1. i # 1 => i - 1 \in 1 .. n BY <3>1
      <4> QED BY <2>3, <2>6, <3>1, <4>1
    <3>2. CASE i = n + 1
      <4>1. (n # 0 => n \in 1 .. n) /\ i - 1 = n /\ (i = 1 <=> n = 0) BY <3>2
      <4> QED BY <2>6, <3>2, <4>1 DEF e
    <3> QED BY <3>1, <3>2
  <2> HIDE DEF St
  <2> QED BY <2>5, <2>7
<1>3. L \in S
  <2> HIDE DEF S
  <2> QED BY <1>0, <1>1, <1>2, NatsByInduction
<1>4. PICK v \in [1 .. L -> Seq(Plans)] : \A i \in 1 .. L : v[i] = St(v, i)
  <2>1. L \in 0 .. L BY <1>0
  <2> HIDE DEF St
  <2> QED BY <1>3, <2>1
<1> DEFINE Is(w) == w = [i \in 1 .. L |-> IF i = 1 THEN ss[i] ELSE w[i - 1] \o ss[i]]
           f == CHOOSE w : Is(w)
<1>5. Is(v)
  <2>1. v = [i \in 1 .. L |-> St(v, i)] BY <1>4
  <2> QED BY <2>1, Zenon
<1>6. Is(f)
  <2> HIDE DEF Is
  <2> QED BY <1>5
<1>7. L # 0 => FlattenSeq(ss) = f[L] BY Zenon DEF FlattenSeq
<1> HIDE DEF f
<1>8. \A i \in 1 .. L : f[i] = St(f, i)
  <2>1. f = [i \in 1 .. L |-> St(f, i)] BY <1>6, Zenon
  <2> HIDE DEF St
  <2> QED BY <2>1
<1>9. \A n \in Nat : n \in 1 .. L => f[n] = v[n]
  <2> DEFINE U == {n \in Nat : n \in 1 .. L => f[n] = v[n]}
  <2>1. 0 \in U OBVIOUS
  <2>2. ASSUME NEW n \in Nat, n \in U PROVE n + 1 \in U
    <3> SUFFICES ASSUME n + 1 \in 1 .. L PROVE f[n + 1] = v[n + 1] OBVIOUS
    <3>1. (n + 1) - 1 = n /\ (n + 1 # 1 => n \in 1 .. L) BY <1>0
    <3>2. n + 1 # 1 => f[n] = v[n] BY <2>2, <3>1
    <3>3. f[n + 1] = St(f, n + 1) /\ v[n + 1] = St(v, n + 1)
      <4> HIDE DEF St
      <4> QED BY <1>4, <1>8
    <3>4. St(f, n + 1) = St(v, n + 1) BY <3>1, <3>2
    <3> HIDE DEF St
    <3> QED BY <3>3, <3>4
  <2>3. \A n \in Nat : n \in U
    <3> HIDE DEF U
    <3> QED BY <2>1, <2>2, NatsByInduction
  <2> QED BY <2>3
<1> DEFINE w == [i \in 0 .. L |-> IF i = 0 THEN <<>> ELSE v[i]]
<1>10. IsConcatenation(w, ss)
  <2>1. w \in [0 .. L -> Seq(Plans)] /\ w[0] = <<>>
    <3>1. <<>> \in Seq(Plans) /\ \A i \in 0 .. L : i # 0 => i \in 1 .. L OBVIOUS
    <3>2. 0 \in 0 .. L BY <1>0
    <3> QED BY <3>1, <3>2
  <2>2. ASSUME NEW i \in 1 .. L PROVE w[i] = w[i - 1] \o ss[i]
    <3>1. w[i] = v[i] BY <1>0
    <3>2. CASE i = 1
      <4>1. w[i - 1] = <<>> BY <1>0, <3>2
      <4>2. <<>> \o ss[i] = ss[i] BY <1>0, ConcatEmptySeq
      <4> QED BY <1>4, <3>1, <3>2, <4>1, <4>2
    <3>3. CASE i # 1
      <4>1. i - 1 \in 1 .. L /\ w[i - 1] = v[i - 1] BY <1>0, <3>3
      <4> HIDE DEF w
      <4> QED BY <1>4, <3>1, <3>3, <4>1
    <3> QED BY <3>2, <3>3
  <2> HIDE DEF w
  <2> QED BY <2>1, <2>2 DEF IsConcatenation
<1>11. FlattenSeq(ss) = w[L]
  <2>1. CASE L = 0
    <3>1. FlattenSeq(ss) = ss BY <2>1 DEF FlattenSeq
    <3>2. ss = <<>> BY <2>1, EmptySeq
    <3> QED BY <2>1, <3>1, <3>2
  <2>2. CASE L # 0
    <3>1. L \in 1 .. L /\ L \in 0 .. L BY <1>0, <2>2
    <3>2. f[L] = v[L] BY <1>9, <3>1
    <3> QED BY <1>7, <2>2, <3>1, <3>2
  <2> QED BY <2>1, <2>2
<1> QED BY <1>10, <1>11

(* Max of a finite set of positions.                                       *)
LEMMA MaxOfPositions ==
  ASSUME NEW n \in Nat, NEW S \in SUBSET (1 .. n), S # {}
  PROVE  Max(S) \in S /\ \A x \in S : Max(S) >= x
<1> DEFINE T == {n - x : x \in S}
<1>1. T \subseteq Nat /\ T # {}
  <2>1. \A x \in S : n - x \in Nat OBVIOUS
  <2>2. PICK x \in S : TRUE OBVIOUS
  <2>3. n - x \in T OBVIOUS
  <2> QED BY <2>1, <2>3
<1>2. PICK t \in T : \A y \in T : ~(<<y, t>> \in OpToRel(<, Nat))
  <2> HIDE DEF T
  <2> QED BY <1>1, NatLessThanWellFounded, WFMin
<1>3. PICK x \in S : t = n - x OBVIOUS
<1>4. \A y \in S : x >= y
  <2> SUFFICES ASSUME NEW y \in S PROVE x >= y OBVIOUS
  <2>1. n - y \in T /\ n - y \in Nat /\ t \in Nat OBVIOUS
  <2>2. ~(n - y < t)
    <3> HIDE DEF T
    <3> QED BY <1>2, <2>1 DEF OpToRel
  <2> QED BY <2>2, <1>3
<1> QED BY <1>4 DEF Max

(* What one message does to the file entries, and to those alone.          *)
FileEntries == [Files -> [progress : {"none", "part", "full"},
                          completed : BOOLEAN, error : BOOLEAN]]
ParseMessages ==
       [type : {"Progress"}, file : Files, progress : {"part", "full"}, queries : Int]
  \cup [type : {"Error"}, file : Files]
  \cup [type : {"Complete"}, plan_count : Nat,
        groups : {get_processed_queries(s) : s \in Seq(Plans)}]

Fails(m, f) == m.type = "Error" /\ m.file = f
Completes(m, f) ==
  \/ Fails(m, f)
  \/ m.type = "Progress" /\ m.file = f /\ m.progress = "full"

(* A Progress completes its file if it is full, an Error fails and         *)
(* completes it, any other message changes no entry.                       *)
LEMMA OneMessage ==
  ASSUME NEW fp \in FileEntries, NEW m \in ParseMessages
  PROVE  /\ on_progress(fp, m) \in FileEntries
         /\ \A f \in Files :
              /\ on_progress(fp, m)[f].error <=> fp[f].error \/ Fails(m, f)
              /\ on_progress(fp, m)[f].completed <=> fp[f].completed \/ Completes(m, f)
<1> DEFINE r == on_progress(fp, m)
           Entry == [progress : {"none", "part", "full"}, completed : BOOLEAN, error : BOOLEAN]
<1>1. CASE m.type = "Progress"
  <2>1. m.file \in Files /\ m.progress \in {"part", "full"} BY <1>1 DEF ParseMessages
  <2> DEFINE g == m.file
             e == [fp[g] EXCEPT !.progress = m.progress,
                                !.completed = @ \/ m.progress = "full"]
  <2>2. r = [fp EXCEPT ![g].progress = m.progress,
                       ![g].completed = @ \/ m.progress = "full"]
    BY <1>1 DEF on_progress
  <2>3. fp[g] \in Entry BY <2>1 DEF FileEntries
  <2>4. r = [fp EXCEPT ![g] = e] BY <2>1, <2>2 DEF FileEntries
  <2>5. /\ e \in Entry /\ e.error = fp[g].error
        /\ e.completed = (fp[g].completed \/ m.progress = "full")
    BY <2>1, <2>3
  <2> HIDE DEF e, r
  <2>6. r \in FileEntries BY <2>1, <2>4, <2>5 DEF FileEntries
  <2>7. \A f \in Files : r[f] = IF f = g THEN e ELSE fp[f] BY <2>4 DEF FileEntries
  <2>8. ASSUME NEW f \in Files
        PROVE /\ r[f].error <=> fp[f].error \/ Fails(m, f)
              /\ r[f].completed <=> fp[f].completed \/ Completes(m, f)
    <3>1. CASE f = g
      <4>1. r[f] = e BY <2>7, <3>1
      <4>2. ~Fails(m, f) BY <1>1 DEF Fails
      <4>3. Completes(m, f) <=> m.progress = "full" BY <1>1, <3>1 DEF Completes, Fails
      <4>4. r[f].error <=> fp[f].error \/ Fails(m, f) BY <2>5, <3>1, <4>1, <4>2, Zenon
      <4>5. r[f].completed <=> fp[f].completed \/ Completes(m, f)
        BY <2>5, <3>1, <4>1, <4>3, Zenon
      <4> QED BY <4>4, <4>5
    <3>2. CASE f # g
      <4>1. r[f] = fp[f] BY <2>7, <3>2
      <4>2. ~Fails(m, f) /\ ~Completes(m, f) BY <1>1, <3>2 DEF Fails, Completes
      <4> QED BY <4>1, <4>2, Zenon
    <3> QED BY <3>1, <3>2
  <2> QED BY <2>6, <2>8 DEF r
<1>2. CASE m.type = "Error"
  <2>1. m.file \in Files BY <1>2 DEF ParseMessages
  <2> DEFINE g == m.file
             e == [progress |-> "none", completed |-> TRUE, error |-> TRUE]
  <2>2. r = [fp EXCEPT ![g] = e] BY <1>2 DEF on_progress
  <2>3. e \in Entry OBVIOUS
  <2>4. e.error = TRUE /\ e.completed = TRUE OBVIOUS
  <2> HIDE DEF e, r
  <2>6. r \in FileEntries BY <2>1, <2>2, <2>3 DEF FileEntries
  <2>7. \A f \in Files : r[f] = IF f = g THEN e ELSE fp[f] BY <2>2 DEF FileEntries
  <2>8. ASSUME NEW f \in Files
        PROVE /\ r[f].error <=> fp[f].error \/ Fails(m, f)
              /\ r[f].completed <=> fp[f].completed \/ Completes(m, f)
    <3>1. CASE f = g
      <4>1. r[f] = e BY <2>7, <3>1
      <4>2. Fails(m, f) /\ Completes(m, f) BY <1>2, <3>1 DEF Fails, Completes
      <4> QED BY <2>4, <4>1, <4>2, Zenon
    <3>2. CASE f # g
      <4>1. r[f] = fp[f] BY <2>7, <3>2
      <4>2. ~Fails(m, f) /\ ~Completes(m, f) BY <1>2, <3>2 DEF Fails, Completes
      <4> QED BY <4>1, <4>2, Zenon
    <3> QED BY <3>1, <3>2
  <2> QED BY <2>6, <2>8 DEF r
<1>3. CASE m.type \notin {"Progress", "Error"}
  <2>1. on_progress(fp, m) = fp BY <1>3 DEF on_progress
  <2>2. \A f \in Files : ~Fails(m, f) /\ ~Completes(m, f) BY <1>3 DEF Fails, Completes
  <2> QED BY <2>1, <2>2, Zenon
<1> QED BY <1>1, <1>2, <1>3

(* The fold over the messages received, as the fold of the library is      *)
(* defined: over the set of their positions, the last one applied last.    *)
StepOf(it, S, fp, ch) ==
  IF S = {} THEN fp ELSE on_progress(it[S \ {Max(S)}], ch[Max(S)])
IsFold(it, fp, ch) == it = [S \in SUBSET DOMAIN ch |-> StepOf(it, S, fp, ch)]

(* FoldLeft by its definition: the function chosen, at all positions.      *)
LEMMA FoldUnfolds ==
  ASSUME NEW fp, NEW ch
  PROVE  FoldLeft(on_progress, fp, ch) = (CHOOSE it : IsFold(it, fp, ch))[DOMAIN ch]
  BY Zenon DEF FoldLeft, MapThenFoldSet, IsFold, StepOf

(* There is one for every sequence of messages.                            *)
LEMMA FoldExists ==
  ASSUME NEW fp, NEW ch, NEW n \in Nat, DOMAIN ch = 1 .. n
  PROVE  \E it : IsFold(it, fp, ch)
<1> DEFINE T == {k \in Nat : \E it : \A S \in SUBSET (1 .. k) :
                                it[S] = StepOf(it, S, fp, ch)}
<1>1. 0 \in T
  <2> DEFINE it == [S \in SUBSET (1 .. 0) |-> fp]
  <2>1. \A S \in SUBSET (1 .. 0) : it[S] = StepOf(it, S, fp, ch)
    <3>1. \A S \in SUBSET (1 .. 0) : S = {} OBVIOUS
    <3>2. \A S \in SUBSET (1 .. 0) : it[S] = fp OBVIOUS
    <3> HIDE DEF it
    <3> QED BY <3>1, <3>2 DEF StepOf
  <2> HIDE DEF it
  <2> QED BY <2>1
<1>2. ASSUME NEW k \in Nat, k \in T PROVE k + 1 \in T
  <2>1. PICK it : \A S \in SUBSET (1 .. k) : it[S] = StepOf(it, S, fp, ch) BY <1>2
  <2> DEFINE jt == [S \in SUBSET (1 .. k + 1) |->
                      IF k + 1 \in S THEN on_progress(it[S \ {k + 1}], ch[k + 1])
                      ELSE it[S]]
  <2>2. /\ \A S \in SUBSET (1 .. k) : jt[S] = it[S]
        /\ \A S \in SUBSET (1 .. k + 1) : k + 1 \in S =>
             jt[S] = on_progress(it[S \ {k + 1}], ch[k + 1])
    <3>1. \A S \in SUBSET (1 .. k) : S \in SUBSET (1 .. k + 1) /\ k + 1 \notin S OBVIOUS
    <3> QED BY <3>1
  <2> HIDE DEF jt
  <2>3. ASSUME NEW S \in SUBSET (1 .. k + 1) PROVE jt[S] = StepOf(jt, S, fp, ch)
    <3>1. CASE k + 1 \in S
      <4>1. Max(S) = k + 1
        <5>1. k + 1 \in Nat /\ S # {} BY <3>1
        <5>2. Max(S) \in S /\ \A x \in S : Max(S) >= x BY <5>1, MaxOfPositions
        <5>3. Max(S) >= k + 1 /\ Max(S) \in 1 .. k + 1 BY <3>1, <5>2
        <5> QED BY <5>3
      <4>2. S \ {k + 1} \in SUBSET (1 .. k) OBVIOUS
      <4> QED BY <2>2, <3>1, <4>1, <4>2 DEF StepOf
    <3>2. CASE k + 1 \notin S
      <4>1. S \in SUBSET (1 .. k) BY <3>2
      <4>2. S # {} => S \ {Max(S)} \in SUBSET (1 .. k) BY <4>1
      <4>3. jt[S] = it[S] /\ (S # {} => jt[S \ {Max(S)}] = it[S \ {Max(S)}])
        BY <2>2, <4>1, <4>2
      <4> QED BY <2>1, <4>1, <4>3 DEF StepOf
    <3> QED BY <3>1, <3>2
  <2> QED BY <2>3
<1>3. n \in T
  <2> HIDE DEF T
  <2> QED BY <1>1, <1>2, NatsByInduction
<1>4. PICK it : \A S \in SUBSET (1 .. n) : it[S] = StepOf(it, S, fp, ch) BY <1>3
<1> DEFINE jt == [S \in SUBSET (1 .. n) |-> it[S]]
<1>5. ASSUME NEW S \in SUBSET (1 .. n) PROVE jt[S] = StepOf(jt, S, fp, ch)
  <2>1. S \ {Max(S)} \in SUBSET (1 .. n) OBVIOUS
  <2>2. jt[S] = it[S] /\ jt[S \ {Max(S)}] = it[S \ {Max(S)}] BY <2>1
  <2> HIDE DEF jt
  <2> QED BY <1>4, <2>2 DEF StepOf
<1>6. jt = [S \in SUBSET (1 .. n) |-> StepOf(jt, S, fp, ch)]
  <2>1. jt = [S \in SUBSET (1 .. n) |-> jt[S]] OBVIOUS
  <2> HIDE DEF jt
  <2> QED BY <1>5, <2>1
<1>7. IsFold(jt, fp, ch)
  <2> HIDE DEF jt
  <2> QED BY <1>6, Zenon DEF IsFold
<1> QED BY <1>7

(* The entries after the messages received.                                *)
LEMMA AfterMessages ==
  ASSUME NEW fp \in FileEntries, NEW ch \in Seq(ParseMessages)
  PROVE  LET r == FoldLeft(on_progress, fp, ch)
         IN /\ r \in FileEntries
            /\ \A f \in Files :
                 /\ r[f].error <=> fp[f].error \/ \E i \in 1 .. Len(ch) : Fails(ch[i], f)
                 /\ r[f].completed <=>
                      fp[f].completed \/ \E i \in 1 .. Len(ch) : Completes(ch[i], f)
<1> DEFINE L == Len(ch)
           it == CHOOSE jt : IsFold(jt, fp, ch)
           g(k) == it[1 .. k]
<1>1. L \in Nat /\ DOMAIN ch = 1 .. L /\ \A i \in 1 .. L : ch[i] \in ParseMessages
  BY LenProperties
<1>2. IsFold(it, fp, ch) BY <1>1, FoldExists
<1>3. FoldLeft(on_progress, fp, ch) = g(L) BY <1>1, FoldUnfolds
<1> HIDE DEF it
<1>4. \A S \in SUBSET (1 .. L) : it[S] = StepOf(it, S, fp, ch)
  <2>1. it = [S \in SUBSET (1 .. L) |-> StepOf(it, S, fp, ch)] BY <1>1, <1>2 DEF IsFold
  <2> QED BY <2>1
<1>5. g(0) = fp
  <2>1. 1 .. 0 = {} /\ 1 .. 0 \in SUBSET (1 .. L) OBVIOUS
  <2>2. it[1 .. 0] = StepOf(it, 1 .. 0, fp, ch) BY <1>4, <2>1
  <2> QED BY <2>1, <2>2 DEF StepOf
<1>6. ASSUME NEW k \in 1 .. L PROVE g(k) = on_progress(g(k - 1), ch[k])
  <2>1. 1 .. k \in SUBSET (1 .. L) /\ 1 .. k # {} /\ k \in Nat
    <3>1. k \in Nat /\ 1 \in 1 .. k /\ \A x \in 1 .. k : x \in 1 .. L BY <1>1
    <3> QED BY <3>1
  <2>2. Max(1 .. k) = k
    <3>1. 1 .. k \in SUBSET (1 .. k) /\ k \in 1 .. k BY <2>1
    <3>2. Max(1 .. k) \in 1 .. k /\ \A x \in 1 .. k : Max(1 .. k) >= x
      BY <2>1, <3>1, MaxOfPositions
    <3> HIDE DEF g
    <3> QED BY <2>1, <3>1, <3>2
  <2>3. (1 .. k) \ {k} = 1 .. k - 1 BY <2>1
  <2>4. it[1 .. k] = StepOf(it, 1 .. k, fp, ch) BY <1>4, <2>1
  <2> QED BY <2>1, <2>2, <2>3, <2>4 DEF StepOf
<1> HIDE DEF g
<1> DEFINE Good(k) ==
             /\ g(k) \in FileEntries
             /\ \A f \in Files :
                  /\ g(k)[f].error <=> fp[f].error \/ \E i \in 1 .. k : Fails(ch[i], f)
                  /\ g(k)[f].completed <=>
                       fp[f].completed \/ \E i \in 1 .. k : Completes(ch[i], f)
           T == {k \in Nat : k \in 0 .. L => Good(k)}
<1>7. 0 \in T
  <2>1. 1 .. 0 = {} OBVIOUS
  <2>2. Good(0) BY <1>5, <2>1, Zenon
  <2> HIDE DEF Good
  <2> QED BY <2>2
<1>8. ASSUME NEW k \in Nat, k \in T PROVE k + 1 \in T
  <2>1. SUFFICES ASSUME k + 1 \in 0 .. L PROVE Good(k + 1)
    <3> HIDE DEF Good
    <3> QED OBVIOUS
  <2>2. k \in 0 .. L /\ k + 1 \in 1 .. L /\ (k + 1) - 1 = k BY <1>1, <2>1
  <2>3. Good(k)
    <3> HIDE DEF Good
    <3> QED BY <1>8, <2>2
  <2>4. g(k + 1) = on_progress(g(k), ch[k + 1])
    <3>1. g(k + 1) = on_progress(g((k + 1) - 1), ch[k + 1]) BY <1>6, <2>2
    <3> QED BY <2>2, <3>1
  <2>5. ch[k + 1] \in ParseMessages BY <1>1, <2>2
  <2>6. /\ g(k + 1) \in FileEntries
        /\ \A f \in Files :
             /\ g(k + 1)[f].error <=> g(k)[f].error \/ Fails(ch[k + 1], f)
             /\ g(k + 1)[f].completed <=> g(k)[f].completed \/ Completes(ch[k + 1], f)
    BY <2>3, <2>4, <2>5, OneMessage
  <2>7. 1 .. k + 1 = (1 .. k) \cup {k + 1} BY <2>2
  <2>8. ASSUME NEW f \in Files
        PROVE  /\ (\E i \in 1 .. k + 1 : Fails(ch[i], f)) <=>
                    (\E i \in 1 .. k : Fails(ch[i], f)) \/ Fails(ch[k + 1], f)
               /\ (\E i \in 1 .. k + 1 : Completes(ch[i], f)) <=>
                    (\E i \in 1 .. k : Completes(ch[i], f)) \/ Completes(ch[k + 1], f)
    BY <2>7
  <2> QED BY <2>3, <2>6, <2>8, Zenon
<1>9. L \in T
  <2> HIDE DEF T
  <2> QED BY <1>1, <1>7, <1>8, NatsByInduction
<1>10. L \in 0 .. L BY <1>1
<1>11. Good(L)
  <2> HIDE DEF Good
  <2> QED BY <1>9, <1>10
<1> QED BY <1>3, <1>11, Zenon

-----------------------------------------------------------------------------
(* The inductive invariant of the parallel parse.                          *)

Groupers == {Batch(s) : s \in Seq(Plans)}
ReportsOfPhases ==
       [type : {"PhaseStarted"}, phase : {Phases[i] : i \in 1 .. Len(Phases)}]
  \cup [type : {"AllComplete"}, groups : {get_processed_queries(s) : s \in Seq(Plans)},
        annotated : SUBSET Annotations]

ParseTypeOK ==
  /\ content \in [Files -> Seq(Plans)]
  /\ task \in [Files -> [read : Nat, grouper : Groupers, reports : Nat,
                         reported : Nat, end : {"no", "parsed", "failed"}]]
  /\ parts \in SUBSET [lo : Files, hi : Files, grouper : Groupers] /\ IsFiniteSet(parts)
  /\ thread \in {"running", "sent", "panicked"}
  /\ progress_ch \in Seq(ParseMessages)
  /\ heavy \in {"none", "running", "sent", "panicked"}
  /\ phase_idx \in 0 .. Len(Phases)
  /\ processing_ch \in Seq(ReportsOfPhases)
  /\ screen \in {"parsing", "results", "exited"}
  /\ file_progress \in FileEntries
  /\ parsing_complete \in BOOLEAN /\ awaiting_user_input \in BOOLEAN

(* A task that has not ended has folded the plans it read.                 *)
Folded(f) == PlansIn(SubSeq(content[f], 1, task[f].read), InWindow)
TasksFold ==
  \A f \in Files : /\ task[f].read <= Len(content[f])
                   /\ ~Ended(f) => task[f].grouper = Batch(Folded(f))

(* A part stands for the files of its range: merged behind the plans of    *)
(* what comes before, it gives the plans up to the range's end.            *)
StandsForItsRange(p) ==
  \A w \in [0 .. NFiles -> Seq(Plans)] :
    (\A i \in p.lo .. p.hi : w[i] = w[i - 1] \o KeptOf(i)) =>
      merge(Batch(w[p.lo - 1]), p.grouper) = Batch(w[p.hi])
PartsCover ==
  /\ \A p \in parts : /\ p.lo <= p.hi /\ StandsForItsRange(p)
                      /\ \A f \in p.lo .. p.hi : Ended(f)
  /\ thread # "sent" => \A f \in Files : Ended(f) => \E p \in parts : f \in p.lo .. p.hi
  /\ thread = "sent" => \A f \in Files : Ended(f)

(* What the messages not yet received, and the screen, say of the files.   *)
Waiting(ch) == {ch[i] : i \in 1 .. Len(ch)}
FilesReported ==
  /\ \A m \in Waiting(progress_ch), f \in Files :
       /\ Fails(m, f) => Failed(f)
       /\ Completes(m, f) => f \in Compressed \/ Ended(f) \/ AllLinesRead(f)
  /\ \A f \in Files :
       /\ file_progress[f].error => Failed(f) /\ file_progress[f].completed
       /\ file_progress[f].completed => f \in Compressed \/ Ended(f) \/ AllLinesRead(f)
       /\ Failed(f) => \/ file_progress[f].error
                       \/ \E m \in Waiting(progress_ch) : Fails(m, f)

(* The result sent, and the result taken.                                  *)
ResultSent ==
  \A m \in Waiting(progress_ch) : m.type = "Complete" =>
    /\ thread = "sent"
    /\ m.plan_count = Len(Kept) /\ m.groups = get_processed_queries(Kept)
ResultTaken ==
  parsing_complete =>
    /\ thread = "sent"
    /\ total_queries_parsed = Len(Kept)
    /\ grouped = get_processed_queries(Kept)
    /\ date_range = calculate_date_range(grouped)
    /\ \A f \in Files : file_progress[f].completed /\ (file_progress[f].error <=> Failed(f))

(* The analysis, and what the results screen is given.                     *)
Analysed(m) == m.groups = grouped /\ m.annotated = Annotations
AnalysisFollows ==
  /\ heavy # "none" => parsing_complete
  /\ \A m \in Waiting(processing_ch) : m.type = "AllComplete" =>
       parsing_complete /\ Analysed(m)
  /\ processed_queries # <<>> => parsing_complete /\ Analysed(processed_queries[1])
  /\ screen = "results" =>
       /\ parsing_complete /\ Analysed(results) /\ results.date_range = date_range

ParseInv ==
  /\ ParseTypeOK /\ TasksFold /\ PartsCover /\ FilesReported
  /\ ResultSent /\ ResultTaken /\ AnalysisFollows

(* A message sent waits with the others.                                   *)
LEMMA WaitingAppend ==
  ASSUME NEW S, NEW ch \in Seq(S), NEW m \in S
  PROVE  /\ Append(ch, m) \in Seq(S)
         /\ Waiting(Append(ch, m)) = Waiting(ch) \cup {m}
<1>1. /\ Append(ch, m) \in Seq(S) /\ Len(Append(ch, m)) = Len(ch) + 1
      /\ Append(ch, m)[Len(ch) + 1] = m /\ Len(ch) \in Nat
      /\ \A i \in 1 .. Len(ch) : Append(ch, m)[i] = ch[i]
  BY AppendProperties
<1>2. 1 .. Len(ch) + 1 = (1 .. Len(ch)) \cup {Len(ch) + 1} BY <1>1
<1> QED BY <1>1, <1>2 DEF Waiting

(* In an empty channel nothing waits.                                      *)
LEMMA WaitingNone == Waiting(<<>>) = {}
  BY DEF Waiting

(* What is kept of a file changes with its plans or its failure only.      *)
LEMMA KeptIsStable ==
  ASSUME content' = content, \A f \in Files : Failed(f)' <=> Failed(f)
  PROVE  (\A f \in Files : KeptOf(f)' = KeptOf(f)) /\ Kept' = Kept
<1>1. ASSUME NEW f \in Files PROVE KeptOf(f)' = KeptOf(f)
  <2>1. content'[f] = content[f] OBVIOUS
  <2>2. Failed(f)' <=> Failed(f) OBVIOUS
  <2> QED BY <2>1, <2>2, Zenon DEF KeptOf, InWindow
<1>2. [f \in Files |-> KeptOf(f)]' = [f \in Files |-> KeptOf(f)] BY <1>1
<1>3. Kept' = Kept BY <1>2, Zenon DEF Kept
<1> QED BY <1>1, <1>3

(* A part stands for its range as long as what is kept of it is the same.  *)
LEMMA RangeIsStable ==
  ASSUME NEW p, StandsForItsRange(p), \A i \in p.lo .. p.hi : KeptOf(i)' = KeptOf(i)
  PROVE  StandsForItsRange(p)'
  BY DEF StandsForItsRange

(* While tasks run, nothing was taken or analysed yet.                     *)
LEMMA WhileRunning ==
  ASSUME ParseInv, Running, UNCHANGED <<uiVars, heavy, phase_idx, processing_ch>>
  PROVE  /\ ResultTaken' /\ AnalysisFollows'
         /\ \A m \in Waiting(progress_ch) : m.type # "Complete"
<1>1. parsing_complete = FALSE /\ parsing_complete' = parsing_complete
  BY DEF ParseInv, ParseTypeOK, ResultTaken, Running, uiVars
<1>2. ResultTaken' BY <1>1 DEF ResultTaken
<1>3. AnalysisFollows' 
  <2>1. AnalysisFollows BY DEF ParseInv
  <2>2. UNCHANGED <<heavy, processing_ch, processed_queries, screen, grouped, parsing_complete,
                    results, date_range>>
    BY DEF uiVars
  <2> QED BY <2>1, <2>2 DEF AnalysisFollows, Analysed, Waiting
<1>4. \A m \in Waiting(progress_ch) : m.type # "Complete"
  BY DEF ParseInv, ResultSent, Running
<1> QED BY <1>2, <1>3, <1>4

(* The invariant holds when the files are opened.                          *)
LEMMA InitParse == ASSUME Init PROVE ParseInv
<1> USE DEF Init
<1>1. ParseTypeOK
  <2>1. content \in [Files -> Seq(Plans)] BY ParallelParseAssumption
  <2>2. NewGrouper \in Groupers
    <3>1. <<>> \in Seq(Plans) OBVIOUS
    <3> QED BY <3>1, BatchIsGrouper DEF Groupers
  <2>3. task \in [Files -> [read : Nat, grouper : Groupers, reports : Nat,
                         reported : Nat, end : {"no", "parsed", "failed"}]]
    BY <2>2
  <2>4. IsFiniteSet(parts) BY FS_EmptySet
  <2>5. 0 \in 0 .. Len(Phases) BY DEF Phases
  <2>6. progress_ch \in Seq(ParseMessages) /\ processing_ch \in Seq(ReportsOfPhases) OBVIOUS
  <2>7. file_progress \in FileEntries BY DEF FileEntries
  <2> QED BY <2>1, <2>3, <2>4, <2>5, <2>6, <2>7 DEF ParseTypeOK
<1>2. TasksFold
  <2> SUFFICES ASSUME NEW f \in Files
               PROVE  /\ task[f].read <= Len(content[f])
                      /\ task[f].grouper = Batch(Folded(f))
    BY DEF TasksFold
  <2>1. task[f].read = 0 /\ task[f].grouper = NewGrouper /\ content[f] \in Seq(Plans)
    BY ParallelParseAssumption
  <2>2. SubSeq(content[f], 1, 0) = <<>> BY SubSeqEmpty
  <2>3. Folded(f) = <<>> BY <2>1, <2>2, PlansInEmpty DEF Folded
  <2> QED BY <2>1, <2>3, BatchIsGrouper
<1>3. \A f \in Files : ~Ended(f) /\ ~Failed(f) BY DEF Ended, Failed
<1>4. PartsCover BY <1>3 DEF PartsCover
<1>5. FilesReported BY <1>3, WaitingNone DEF FilesReported
<1>6. ResultSent /\ ResultTaken /\ AnalysisFollows
  BY WaitingNone DEF ResultSent, ResultTaken, AnalysisFollows
<1> QED BY <1>1, <1>2, <1>4, <1>5, <1>6 DEF ParseInv

-----------------------------------------------------------------------------
(* The steps of the tasks and of the parsing thread.                       *)

(* A message sent: the files' news stay true if it is true.                *)
LEMMA NewsStay ==
  ASSUME FilesReported, progress_ch \in Seq(ParseMessages), file_progress' = file_progress,
         NEW m \in ParseMessages,
         \/ progress_ch' = progress_ch
         \/ /\ progress_ch' = Append(progress_ch, m)
            /\ \A f \in Files :
                 /\ Fails(m, f) => Failed(f)'
                 /\ Completes(m, f) => f \in Compressed \/ Ended(f)' \/ AllLinesRead(f)',
         \A f \in Files :
           /\ Failed(f) => Failed(f)' 
           /\ Failed(f)' => Failed(f) \/ (progress_ch' = Append(progress_ch, m) /\ Fails(m, f))
           /\ Ended(f) => Ended(f)'
           /\ AllLinesRead(f) => Ended(f)' \/ AllLinesRead(f)'
  PROVE  FilesReported'
<1>1. \/ Waiting(progress_ch)' = Waiting(progress_ch)
      \/ /\ Waiting(progress_ch)' = Waiting(progress_ch) \cup {m}
         /\ progress_ch' = Append(progress_ch, m)
  <2>1. CASE progress_ch' = progress_ch BY <2>1 DEF Waiting
  <2>2. CASE progress_ch' = Append(progress_ch, m)
    <3>1. Waiting(Append(progress_ch, m)) = Waiting(progress_ch) \cup {m} BY WaitingAppend
    <3>2. Waiting(progress_ch)' = Waiting(Append(progress_ch, m)) BY <2>2 DEF Waiting
    <3> QED BY <2>2, <3>1, <3>2
  <2> QED BY <2>1, <2>2
<1>2. \A f \in Files, x \in Waiting(progress_ch)' :
        /\ Fails(x, f) => Failed(f)'
        /\ Completes(x, f) => f \in Compressed \/ Ended(f)' \/ AllLinesRead(f)'
  <2> SUFFICES ASSUME NEW f \in Files, NEW x \in Waiting(progress_ch)'
               PROVE  /\ Fails(x, f) => Failed(f)'
                      /\ Completes(x, f) => f \in Compressed \/ Ended(f)' \/ AllLinesRead(f)'
    OBVIOUS
  <2>1. CASE x \in Waiting(progress_ch) BY <2>1 DEF FilesReported
  <2>2. CASE x = m /\ progress_ch' = Append(progress_ch, m)
    <3>1. progress_ch' # progress_ch
      <4>1. Len(Append(progress_ch, m)) = Len(progress_ch) + 1 /\ Len(progress_ch) \in Nat
        BY AppendProperties
      <4> QED BY <2>2, <4>1
    <3> QED BY <2>2, <3>1
  <2> QED BY <1>1, <2>1, <2>2
<1>3. \A f \in Files :
        /\ file_progress[f].error => Failed(f)' /\ file_progress[f].completed
        /\ file_progress[f].completed => f \in Compressed \/ Ended(f)' \/ AllLinesRead(f)'
  BY DEF FilesReported
<1>4. \A f \in Files : Failed(f)' => \/ file_progress[f].error
                                     \/ \E x \in Waiting(progress_ch)' : Fails(x, f)
  <2> SUFFICES ASSUME NEW f \in Files, Failed(f)'
               PROVE  file_progress[f].error \/ \E x \in Waiting(progress_ch)' : Fails(x, f)
    OBVIOUS
  <2>1. CASE Failed(f)
    <3>1. Waiting(progress_ch) \subseteq Waiting(progress_ch)' BY <1>1
    <3> QED BY <2>1, <3>1 DEF FilesReported
  <2>2. CASE progress_ch' = Append(progress_ch, m) /\ Fails(m, f)
    <3>1. m \in Waiting(progress_ch)' BY <2>2, WaitingAppend
    <3> QED BY <2>2, <3>1
  <2> QED BY <2>1, <2>2
<1> QED BY <1>2, <1>3, <1>4, Zenon DEF FilesReported

(* The plans read so far, one more at a time.                              *)
LEMMA OnePlanMore ==
  ASSUME NEW c \in Seq(Plans), NEW r \in Nat, r < Len(c), NEW W
  PROVE  /\ c[r + 1] \in Plans
         /\ SubSeq(c, 1, r) \in Seq(Plans)
         /\ PlansIn(SubSeq(c, 1, r + 1), W) =
              IF c[r + 1] \in W THEN Append(PlansIn(SubSeq(c, 1, r), W), c[r + 1])
              ELSE PlansIn(SubSeq(c, 1, r), W)
<1>1. Len(c) \in Nat /\ r + 1 \in 1 .. Len(c) /\ c[r + 1] \in Plans BY LenProperties
<1>2. SubSeq(c, 1, r) \in Seq(Plans)
  <2>1. \A i \in 1 .. r : c[i] \in Plans BY <1>1
  <2> QED BY <2>1, SubSeqProperties
<1>3. SubSeq(c, 1, r + 1) = SubSeq(c, 1, r) \o <<c[r + 1]>>
  <2>1. 1 \in 1 .. Len(c) /\ (r + 1) - 1 = r BY <1>1
  <2>2. SubSeq(c, 1, r + 1) = SubSeq(c, 1, (r + 1) - 1) \o <<c[r + 1]>>
    BY <1>1, <2>1, SubSeqRecursiveSecond
  <2> QED BY <2>1, <2>2
<1>4. SubSeq(c, 1, r + 1) = Append(SubSeq(c, 1, r), c[r + 1])
  BY <1>1, <1>2, <1>3, AppendIsConcat
<1> DEFINE s == SubSeq(c, 1, r)
           p == c[r + 1]
<1>5. p \in Plans /\ s \in Seq(Plans) BY <1>1, <1>2
<1> HIDE DEF s, p
<1>6. PlansIn(Append(s, p), W) = IF p \in W THEN Append(PlansIn(s, W), p)
                                 ELSE PlansIn(s, W)
  BY <1>5, PlansInAppend
<1> QED BY <1>4, <1>5, <1>6 DEF s, p

TaskRecords == [read : Nat, grouper : Groupers, reports : Nat,
                reported : Nat, end : {"no", "parsed", "failed"}]

(* A step of file f's task: what it leaves of the others.                  *)
LEMMA OtherTasks ==
  ASSUME NEW f \in Files, NEW e \in TaskRecords, task \in [Files -> TaskRecords],
         task' = [task EXCEPT ![f] = e]
  PROVE  /\ task' \in [Files -> TaskRecords]
         /\ \A g \in Files : task'[g] = IF g = f THEN e ELSE task[g]
  OBVIOUS

(* The range of a part is a range of files.                                *)
LEMMA RangesAreFiles ==
  ASSUME ParseTypeOK
  PROVE  \A p \in parts : /\ p.lo \in Files /\ p.hi \in Files /\ p.grouper \in Groupers
                          /\ p.lo .. p.hi \subseteq Files
<1> SUFFICES ASSUME NEW p \in parts
             PROVE /\ p.lo \in Files /\ p.hi \in Files /\ p.grouper \in Groupers
                   /\ p.lo .. p.hi \subseteq Files
  OBVIOUS
<1>1. p.lo \in Files /\ p.hi \in Files /\ p.grouper \in Groupers BY DEF ParseTypeOK
<1> QED BY <1>1, ParallelParseAssumption DEF Files

(* A plan delivered: the grouper is that of one plan more.                 *)
LEMMA StepAccept ==
  ASSUME ParseInv, NEW f \in Files, accept(f)
  PROVE  ParseInv'
<1> DEFINE r == task[f].read
           p == content[f][r + 1]
           g == fold(task[f].grouper, p, Window)
           t == task[f]
           n == r + 1
           e == [t EXCEPT !.read = n, !.grouper = g]
<1>0. /\ ParseTypeOK /\ TasksFold /\ PartsCover /\ FilesReported /\ ResultSent
      /\ Running /\ ~Ended(f) /\ r < Len(content[f])
      /\ UNCHANGED <<content, parts, thread, progress_ch, heavy, phase_idx,
                     processing_ch, uiVars>>
  BY DEF ParseInv, accept
<1>1. /\ content[f] \in Seq(Plans) /\ task[f] \in TaskRecords /\ r \in Nat
      /\ task \in [Files -> TaskRecords]
  BY <1>0 DEF ParseTypeOK, TaskRecords
<1>2. task' = [task EXCEPT ![f] = e] BY <1>1 DEF accept
<1>3. /\ p \in Plans /\ SubSeq(content[f], 1, r) \in Seq(Plans)
      /\ PlansIn(SubSeq(content[f], 1, r + 1), InWindow) =
           IF p \in InWindow THEN Append(Folded(f), p) ELSE Folded(f)
  BY <1>0, <1>1, OnePlanMore DEF Folded
<1>4. Folded(f) \in Seq(Plans) BY <1>3, PlansInRange DEF Folded
<1>5. g = Batch(PlansIn(SubSeq(content[f], 1, r + 1), InWindow))
  <2>1. task[f].grouper = Batch(Folded(f)) BY <1>0 DEF TasksFold
  <2>2. p \in InWindow <=> p.timestamp \in Window BY <1>3 DEF InWindow
  <2> HIDE DEF p
  <2> QED BY <1>3, <1>4, <2>1, <2>2, FoldIsBatch DEF fold
<1>6. g \in Groupers
  <2>1. PlansIn(SubSeq(content[f], 1, r + 1), InWindow) \in Seq(Plans)
    <3> HIDE DEF p
    <3>1. Append(Folded(f), p) \in Seq(Plans) BY <1>3, <1>4, AppendProperties
    <3> QED BY <1>3, <1>4, <3>1
  <2> QED BY <1>5, <2>1 DEF Groupers
<1> HIDE DEF g, p
<1>7. /\ e \in TaskRecords /\ e.read = r + 1 /\ e.grouper = g /\ e.end = task[f].end
  <2>1. t \in TaskRecords /\ n \in Nat BY <1>1
  <2> HIDE DEF t, n
  <2>2. e \in TaskRecords /\ e.read = n /\ e.grouper = g /\ e.end = t.end
    BY <1>6, <2>1 DEF TaskRecords
  <2> QED BY <2>2 DEF t, n
<1> HIDE DEF e, r, t, n
<1>8. /\ task' \in [Files -> TaskRecords]
      /\ \A h \in Files : task'[h] = IF h = f THEN e ELSE task[h]
  BY <1>1, <1>2, <1>7, OtherTasks
<1>9. \A h \in Files : (Ended(h)' <=> Ended(h)) /\ (Failed(h)' <=> Failed(h))
  BY <1>7, <1>8 DEF Ended, Failed
<1>10. (\A h \in Files : KeptOf(h)' = KeptOf(h)) /\ Kept' = Kept
  BY <1>0, <1>9, KeptIsStable
<1>11. ParseTypeOK' BY <1>0, <1>8 DEF ParseTypeOK, TaskRecords, uiVars
<1>12. TasksFold'
  <2> SUFFICES ASSUME NEW h \in Files
               PROVE  /\ task'[h].read <= Len(content[h])
                      /\ ~Ended(h)' => task'[h].grouper = Batch(Folded(h)')
    BY <1>0 DEF TasksFold
  <2>1. CASE h = f
    <3>1. task'[h] = e BY <1>8, <2>1
    <3>2. Folded(h)' = PlansIn(SubSeq(content[f], 1, r + 1), InWindow)
      BY <1>0, <1>7, <2>1, <3>1 DEF Folded, InWindow
    <3>3. Len(content[f]) \in Nat BY <1>1
    <3> QED BY <1>0, <1>1, <1>5, <1>7, <2>1, <3>1, <3>2, <3>3
  <2>2. CASE h # f
    <3>1. task'[h] = task[h] BY <1>8, <2>2
    <3>2. Folded(h)' = Folded(h) BY <1>0, <3>1 DEF Folded, InWindow
    <3> QED BY <1>0, <1>9, <3>1, <3>2 DEF TasksFold
  <2> QED BY <2>1, <2>2
<1>13. PartsCover'
  <2>1. \A x \in parts : x.lo .. x.hi \subseteq Files BY <1>0, RangesAreFiles
  <2>2. \A x \in parts : StandsForItsRange(x)'
    <3> SUFFICES ASSUME NEW x \in parts PROVE StandsForItsRange(x)' OBVIOUS
    <3>1. StandsForItsRange(x) BY <1>0 DEF PartsCover
    <3>2. \A i \in x.lo .. x.hi : KeptOf(i)' = KeptOf(i) BY <1>10, <2>1
    <3> QED BY <3>1, <3>2, RangeIsStable
  <2> QED BY <1>0, <1>9, <2>1, <2>2 DEF PartsCover
<1>14. FilesReported'
  <2>1. \A h \in Files : AllLinesRead(h) => AllLinesRead(h)'
    <3>1. \A h \in Files : /\ task[h].read \in Nat /\ Len(content[h]) \in Nat
      BY <1>0, <1>1 DEF ParseTypeOK, TaskRecords
    <3>2. \A h \in Files : task'[h].read \in Nat /\ task'[h].read >= task[h].read
      BY <1>1, <1>7, <1>8, <3>1 DEF r
    <3> QED BY <1>0, <3>1, <3>2 DEF AllLinesRead
  <2>2. progress_ch \in Seq(ParseMessages) /\ file_progress' = file_progress
        /\ progress_ch' = progress_ch
    BY <1>0 DEF ParseTypeOK, uiVars
  <2>3. [type |-> "Error", file |-> f] \in ParseMessages BY DEF ParseMessages
  <2> QED BY <1>0, <1>9, <2>1, <2>2, <2>3, NewsStay
<1>15. ResultSent' BY <1>0, <1>10 DEF ResultSent, Waiting
<1>16. ResultTaken' /\ AnalysisFollows' BY <1>0, WhileRunning
<1> QED BY <1>11, <1>12, <1>13, <1>14, <1>15, <1>16 DEF ParseInv

(* A step that leaves the plans, the failures and the parts alone.         *)
LEMMA PartsStay ==
  ASSUME ParseTypeOK, PartsCover, content' = content, parts' = parts, thread' = thread,
         \A f \in Files : (Ended(f)' <=> Ended(f)) /\ (Failed(f)' <=> Failed(f))
  PROVE  PartsCover'
<1>1. \A f \in Files : KeptOf(f)' = KeptOf(f) BY KeptIsStable
<1>2. \A x \in parts : x.lo .. x.hi \subseteq Files BY RangesAreFiles
<1>3. \A x \in parts : StandsForItsRange(x)'
  <2> SUFFICES ASSUME NEW x \in parts PROVE StandsForItsRange(x)' OBVIOUS
  <2>1. StandsForItsRange(x) BY DEF PartsCover
  <2>2. \A i \in x.lo .. x.hi : KeptOf(i)' = KeptOf(i) BY <1>1, <1>2
  <2> QED BY <2>1, <2>2, RangeIsStable
<1> QED BY <1>2, <1>3 DEF PartsCover

(* A report: it completes a file only if its lines were all read.          *)
LEMMA StepProgress ==
  ASSUME ParseInv, NEW f \in Files, progress_callback(f)
  PROVE  ParseInv'
<1> DEFINE t == task[f]
           a == task[f].grouper.accepted
           n == t.reports + 1
           e == [t EXCEPT !.reports = n, !.reported = a]
<1>0. /\ ParseTypeOK /\ TasksFold /\ PartsCover /\ FilesReported /\ ResultSent
      /\ Running /\ ~Ended(f)
      /\ UNCHANGED <<content, parts, thread, heavy, phase_idx, processing_ch, uiVars>>
  BY DEF ParseInv, progress_callback
<1>1. /\ t \in TaskRecords /\ task \in [Files -> TaskRecords]
      /\ progress_ch \in Seq(ParseMessages)
  BY <1>0 DEF ParseTypeOK, TaskRecords
<1>2. task' = [task EXCEPT ![f] = e] BY <1>1 DEF progress_callback
<1>3. a \in Nat /\ n \in Nat /\ t.reported \in Nat
  <2>1. t.grouper \in Groupers BY <1>1 DEF TaskRecords
  <2>2. \A q \in Groupers : q.accepted \in Nat
    <3> SUFFICES ASSUME NEW s \in Seq(Plans) PROVE Batch(s).accepted \in Nat BY DEF Groupers
    <3> QED BY LenProperties DEF Batch
  <2> QED BY <1>1, <2>1, <2>2 DEF TaskRecords
<1>4. PICK p \in {"part", "full"} :
        /\ p = "full" => f \in Compressed \/ AllLinesRead(f)
        /\ progress_ch' = Append(progress_ch, Progress(f, p, a - t.reported))
  BY DEF progress_callback, Send
<1> DEFINE m == Progress(f, p, a - t.reported)
<1>5. m \in ParseMessages
  <2>1. a - t.reported \in Int BY <1>3
  <2> QED BY <2>1 DEF ParseMessages, Progress
<1>6. \A h \in Files : /\ ~Fails(m, h)
                       /\ Completes(m, h) => h \in Compressed \/ AllLinesRead(h)
  BY <1>4 DEF Fails, Completes, Progress
<1>7. Append(progress_ch, m) \in Seq(ParseMessages)
      /\ Waiting(Append(progress_ch, m)) = Waiting(progress_ch) \cup {m}
  BY <1>1, <1>5, WaitingAppend
<1>8. m.type = "Progress" BY DEF Progress
<1> HIDE DEF t, n, a, m
<1>9. /\ e \in TaskRecords /\ e.read = t.read /\ e.grouper = t.grouper /\ e.end = t.end
  BY <1>1, <1>3 DEF TaskRecords
<1> HIDE DEF e
<1>10. /\ task' \in [Files -> TaskRecords]
       /\ \A h \in Files : task'[h] = IF h = f THEN e ELSE task[h]
  BY <1>1, <1>2, <1>9, OtherTasks
<1>11. \A h \in Files : task'[h].read = task[h].read /\ task'[h].grouper = task[h].grouper
                       /\ task'[h].end = task[h].end
  BY <1>9, <1>10 DEF t
<1>12. \A h \in Files : /\ (Ended(h)' <=> Ended(h)) /\ (Failed(h)' <=> Failed(h))
                        /\ (AllLinesRead(h)' <=> AllLinesRead(h))
  BY <1>0, <1>11 DEF Ended, Failed, AllLinesRead
<1>13. (\A h \in Files : KeptOf(h)' = KeptOf(h)) /\ Kept' = Kept
  BY <1>0, <1>12, KeptIsStable
<1>14. ParseTypeOK' BY <1>0, <1>4, <1>7, <1>10 DEF ParseTypeOK, TaskRecords, uiVars, m
<1>15. TasksFold'
  <2>1. \A h \in Files : Folded(h)' = Folded(h) BY <1>0, <1>11 DEF Folded, InWindow
  <2> QED BY <1>0, <1>11, <1>12, <2>1 DEF TasksFold
<1>16. PartsCover' BY <1>0, <1>12, PartsStay
<1>17. FilesReported'
  <2>1. file_progress' = file_progress /\ progress_ch' = Append(progress_ch, m)
    BY <1>0, <1>4 DEF uiVars, m
  <2> QED BY <1>0, <1>1, <1>5, <1>6, <1>12, <2>1, NewsStay
<1>18. ResultTaken' /\ AnalysisFollows'
       /\ \A x \in Waiting(progress_ch) : x.type # "Complete"
  BY <1>0, WhileRunning
<1>19. ResultSent'
  <2>1. Waiting(progress_ch)' = Waiting(progress_ch) \cup {m} BY <1>4, <1>7 DEF Waiting, m
  <2>2. \A x \in Waiting(progress_ch)' : x.type # "Complete" BY <1>8, <1>18, <2>1
  <2> QED BY <2>2 DEF ResultSent
<1> QED BY <1>14, <1>15, <1>16, <1>17, <1>18, <1>19 DEF ParseInv

(* A task that ends, parsed or failed, hands over its range.               *)
LEMMA RangeHandedOver ==
  ASSUME ParseTypeOK, PartsCover, Running, NEW f \in Files, ~Ended(f), content' = content,
         thread' = thread, NEW s \in Seq(Plans), KeptOf(f)' = s, Ended(f)',
         parts' = parts \cup {[lo |-> f, hi |-> f, grouper |-> Batch(s)]},
         \A h \in Files : h # f => (Ended(h)' <=> Ended(h)) /\ (Failed(h)' <=> Failed(h))
  PROVE  /\ PartsCover'
         /\ parts' \in SUBSET [lo : Files, hi : Files, grouper : Groupers]
         /\ IsFiniteSet(parts')
<1> DEFINE new == [lo |-> f, hi |-> f, grouper |-> Batch(s)]
<1>0. f \in Nat /\ f .. f = {f} /\ f - 1 \in 0 .. NFiles /\ f \in 0 .. NFiles
  BY ParallelParseAssumption DEF Files
<1>1. Batch(s) \in Groupers BY DEF Groupers
<1>2. /\ parts' \in SUBSET [lo : Files, hi : Files, grouper : Groupers]
      /\ IsFiniteSet(parts')
  <2>1. parts \in SUBSET [lo : Files, hi : Files, grouper : Groupers] /\ IsFiniteSet(parts)
    BY DEF ParseTypeOK
  <2>2. new \in [lo : Files, hi : Files, grouper : Groupers] BY <1>1
  <2> HIDE DEF new
  <2>3. IsFiniteSet(parts \cup {new}) BY <2>1, FS_AddElement
  <2>4. parts' = parts \cup {new} BY DEF new
  <2> QED BY <2>1, <2>2, <2>3, <2>4
<1>3. \A h \in Files : h # f => KeptOf(h)' = KeptOf(h)
  <2> SUFFICES ASSUME NEW h \in Files, h # f PROVE KeptOf(h)' = KeptOf(h) OBVIOUS
  <2>1. Failed(h)' <=> Failed(h) OBVIOUS
  <2>2. content'[h] = content[h] OBVIOUS
  <2> QED BY <2>1, <2>2, Zenon DEF KeptOf, InWindow
<1>4. \A x \in parts : x.lo .. x.hi \subseteq Files BY RangesAreFiles
<1>5. ASSUME NEW x \in parts
      PROVE  /\ x.lo <= x.hi /\ StandsForItsRange(x)' /\ \A h \in x.lo .. x.hi : Ended(h)'
  <2>1. x.lo <= x.hi /\ StandsForItsRange(x) /\ \A h \in x.lo .. x.hi : Ended(h)
    BY DEF PartsCover
  <2>2. f \notin x.lo .. x.hi BY <2>1
  <2>3. \A h \in x.lo .. x.hi : KeptOf(h)' = KeptOf(h) BY <1>3, <1>4, <2>2
  <2>4. \A h \in x.lo .. x.hi : Ended(h)' BY <1>4, <2>1, <2>2
  <2> QED BY <2>1, <2>3, <2>4, RangeIsStable
<1>6. new.lo = f /\ new.hi = f /\ new.grouper = Batch(s) OBVIOUS
<1> HIDE DEF new
<1>7. StandsForItsRange(new)'
  <2> SUFFICES ASSUME NEW w \in [0 .. NFiles -> Seq(Plans)],
                      \A i \in f .. f : w[i] = w[i - 1] \o KeptOf(i)'
               PROVE  merge(Batch(w[f - 1]), Batch(s)) = Batch(w[f])
    BY <1>6 DEF StandsForItsRange
  <2>1. w[f] = w[f - 1] \o s BY <1>0
  <2>2. w[f - 1] \in Seq(Plans) BY <1>0
  <2> QED BY <2>1, <2>2, MergeIsBatch
<1>8. new.lo <= new.hi /\ \A h \in new.lo .. new.hi : Ended(h)' BY <1>0, <1>6
<1>9. \A x \in parts' : /\ x.lo <= x.hi /\ StandsForItsRange(x)'
                        /\ \A h \in x.lo .. x.hi : Ended(h)'
  BY <1>5, <1>7, <1>8 DEF new
<1>10. \A h \in Files : Ended(h)' => \E x \in parts' : h \in x.lo .. x.hi
  <2> SUFFICES ASSUME NEW h \in Files, Ended(h)' PROVE \E x \in parts' : h \in x.lo .. x.hi
    OBVIOUS
  <2>1. CASE h = f
    <3>1. new \in parts' /\ h \in new.lo .. new.hi BY <1>0, <1>6, <2>1 DEF new
    <3> QED BY <3>1
  <2>2. CASE h # f
    <3>1. Ended(h) BY <2>2
    <3>2. PICK x \in parts : h \in x.lo .. x.hi BY <3>1 DEF PartsCover, Running
    <3> QED BY <3>2
  <2> QED BY <2>1, <2>2
<1>11. thread' # "sent" BY DEF Running
<1> QED BY <1>2, <1>9, <1>10, <1>11 DEF PartsCover

(* A task that ends, either way, hands over what is kept of its file.      *)
LEMMA StepFileEnds ==
  ASSUME ParseInv, NEW f \in Files, file_ends(f) \/ file_fails(f)
  PROVE  ParseInv'
<1> DEFINE end == IF file_ends(f) THEN "parsed" ELSE "failed"
           t == task[f]
           e == [t EXCEPT !.end = end, !.grouper = NewGrouper]
           m == IF file_ends(f) THEN Progress(f, "full", 0) ELSE Error(f)
           s == IF file_ends(f) THEN PlansIn(content[f], InWindow) ELSE <<>>
<1>0. /\ ParseTypeOK /\ TasksFold /\ PartsCover /\ FilesReported /\ ResultSent
      /\ Running /\ ~Ended(f)
      /\ UNCHANGED <<content, thread, heavy, phase_idx, processing_ch, uiVars>>
  BY DEF ParseInv, file_ends, file_fails
<1>1. /\ t \in TaskRecords /\ task \in [Files -> TaskRecords]
      /\ progress_ch \in Seq(ParseMessages) /\ content[f] \in Seq(Plans)
  BY <1>0 DEF ParseTypeOK, TaskRecords
<1>2. /\ task' = [task EXCEPT ![f] = e]
      /\ progress_ch' = Append(progress_ch, m)
      /\ file_ends(f) => /\ task[f].read = Len(content[f])
                         /\ parts' = parts \cup {[lo |-> f, hi |-> f,
                              grouper |-> merge(NewGrouper, task[f].grouper)]}
      /\ ~file_ends(f) => parts' = parts \cup {[lo |-> f, hi |-> f,
                              grouper |-> merge(NewGrouper, NewGrouper)]}
  <2>1. CASE file_ends(f) BY <1>1, <2>1 DEF file_ends, Send
  <2>2. CASE ~file_ends(f) BY <1>1, <2>2 DEF file_fails, Send
  <2> QED BY <2>1, <2>2
<1>3. NewGrouper \in Groupers /\ IsGrouper(NewGrouper)
  <2>1. <<>> \in Seq(Plans) OBVIOUS
  <2> QED BY <2>1, BatchIsGrouper DEF Groupers
<1>4. s \in Seq(Plans)
  <2>1. <<>> \in Seq(Plans) OBVIOUS
  <2> QED BY <1>1, <2>1, PlansInRange
<1>5. parts' = parts \cup {[lo |-> f, hi |-> f, grouper |-> Batch(s)]}
  <2>1. CASE file_ends(f)
    <3>1. SubSeq(content[f], 1, Len(content[f])) = content[f] BY <1>1, SubSeqFull
    <3>2. task[f].grouper = Batch(Folded(f)) BY <1>0 DEF TasksFold
    <3>3. Folded(f) = s BY <1>2, <2>1, <3>1 DEF Folded
    <3>4. merge(NewGrouper, Batch(s)) = Batch(s)
      <4> HIDE DEF s
      <4>1. IsGrouper(Batch(s)) BY <1>4, BatchIsGrouper
      <4> QED BY <4>1, ReductionIsSound
    <3> QED BY <1>2, <2>1, <3>2, <3>3, <3>4
  <2>2. CASE ~file_ends(f)
    <3>1. merge(NewGrouper, NewGrouper) = NewGrouper BY <1>3, ReductionIsSound
    <3>2. Batch(s) = NewGrouper BY <2>2, BatchIsGrouper
    <3> QED BY <1>2, <2>2, <3>1, <3>2
  <2> QED BY <2>1, <2>2
<1>6. m \in ParseMessages /\ m.type # "Complete"
  BY DEF ParseMessages, Progress, Error
<1>7. \A h \in Files : /\ Fails(m, h) <=> h = f /\ ~file_ends(f)
                       /\ Completes(m, h) => h = f
  BY DEF Fails, Completes, Progress, Error
<1>8. end \in {"parsed", "failed"} /\ (end = "failed" <=> ~file_ends(f)) OBVIOUS
<1> HIDE DEF t, end, m
<1>9. e \in TaskRecords /\ e.end = end /\ e.read = t.read
  BY <1>1, <1>3, <1>8 DEF TaskRecords
<1> HIDE DEF e
<1>10. /\ task' \in [Files -> TaskRecords]
       /\ \A h \in Files : task'[h] = IF h = f THEN e ELSE task[h]
  BY <1>1, <1>2, <1>9, OtherTasks
<1>11. Ended(f)' /\ (Failed(f)' <=> ~file_ends(f)) /\ ~Failed(f)
  BY <1>0, <1>8, <1>9, <1>10 DEF Ended, Failed
<1>12. \A h \in Files : h # f => /\ (Ended(h)' <=> Ended(h)) /\ (Failed(h)' <=> Failed(h))
                                 /\ (AllLinesRead(h)' <=> AllLinesRead(h))
  BY <1>0, <1>10 DEF Ended, Failed, AllLinesRead
<1>13. KeptOf(f)' = s
  <2>1. content'[f] = content[f] BY <1>0
  <2> QED BY <1>11, <2>1, Zenon DEF KeptOf, InWindow, s
<1> HIDE DEF s
<1>14. /\ PartsCover' /\ parts' \in SUBSET [lo : Files, hi : Files, grouper : Groupers]
       /\ IsFiniteSet(parts')
  BY <1>0, <1>4, <1>5, <1>11, <1>12, <1>13, RangeHandedOver
<1>15. Append(progress_ch, m) \in Seq(ParseMessages)
       /\ Waiting(Append(progress_ch, m)) = Waiting(progress_ch) \cup {m}
  BY <1>1, <1>6, WaitingAppend
<1>16. ParseTypeOK' BY <1>0, <1>2, <1>10, <1>14, <1>15 DEF ParseTypeOK, TaskRecords, uiVars
<1>17. TasksFold'
  <2> SUFFICES ASSUME NEW h \in Files
               PROVE  /\ task'[h].read <= Len(content[h])
                      /\ ~Ended(h)' => task'[h].grouper = Batch(Folded(h)')
    BY <1>0 DEF TasksFold
  <2>1. CASE h = f
    <3>1. task'[h].read = task[f].read BY <1>9, <1>10, <2>1 DEF t
    <3> QED BY <1>0, <1>11, <2>1, <3>1 DEF TasksFold
  <2>2. CASE h # f
    <3>1. task'[h] = task[h] BY <1>10, <2>2
    <3>2. Folded(h)' = Folded(h) BY <1>0, <3>1 DEF Folded, InWindow
    <3> QED BY <1>0, <1>12, <2>2, <3>1, <3>2 DEF TasksFold
  <2> QED BY <2>1, <2>2
<1>18. FilesReported'
  <2>1. file_progress' = file_progress BY <1>0 DEF uiVars
  <2>2. \A h \in Files :
          /\ Fails(m, h) => Failed(h)'
          /\ Completes(m, h) => h \in Compressed \/ Ended(h)' \/ AllLinesRead(h)'
    BY <1>7, <1>11
  <2>3. \A h \in Files :
          /\ Failed(h) => Failed(h)'
          /\ Failed(h)' => Failed(h) \/ (progress_ch' = Append(progress_ch, m) /\ Fails(m, h))
          /\ Ended(h) => Ended(h)'
          /\ AllLinesRead(h) => Ended(h)' \/ AllLinesRead(h)'
    BY <1>2, <1>7, <1>11, <1>12
  <2> QED BY <1>0, <1>1, <1>2, <1>6, <2>1, <2>2, <2>3, NewsStay
<1>19. ResultTaken' /\ AnalysisFollows'
       /\ \A x \in Waiting(progress_ch) : x.type # "Complete"
  BY <1>0, WhileRunning
<1>20. ResultSent'
  <2>1. Waiting(progress_ch)' = Waiting(progress_ch) \cup {m} BY <1>2, <1>15 DEF Waiting
  <2>2. \A x \in Waiting(progress_ch)' : x.type # "Complete" BY <1>6, <1>19, <2>1
  <2> QED BY <2>2 DEF ResultSent
<1> QED BY <1>14, <1>16, <1>17, <1>18, <1>19, <1>20 DEF ParseInv

(* Merging groupers gives a grouper.                                       *)
LEMMA MergedGroupers ==
  ASSUME NEW g \in Groupers, NEW h \in Groupers
  PROVE  merge(g, h) \in Groupers /\ IsGrouper(g) /\ IsGrouper(h)
<1>1. PICK s \in Seq(Plans) : g = Batch(s) BY DEF Groupers
<1>2. PICK t \in Seq(Plans) : h = Batch(t) BY DEF Groupers
<1>3. s \o t \in Seq(Plans) /\ merge(g, h) = Batch(s \o t)
  BY <1>1, <1>2, ConcatProperties, MergeIsBatch
<1> QED BY <1>1, <1>2, <1>3, BatchIsGrouper DEF Groupers

(* Tasks, messages and failures untouched.                                 *)
LEMMA TasksStay ==
  ASSUME ParseTypeOK, TasksFold, FilesReported, UNCHANGED <<content, task, progress_ch, file_progress>>
  PROVE  /\ TasksFold' /\ FilesReported'
         /\ \A f \in Files : (Ended(f)' <=> Ended(f)) /\ (Failed(f)' <=> Failed(f))
         /\ (\A f \in Files : KeptOf(f)' = KeptOf(f)) /\ Kept' = Kept
         /\ Waiting(progress_ch)' = Waiting(progress_ch)
<1>1. \A f \in Files : /\ (Ended(f)' <=> Ended(f)) /\ (Failed(f)' <=> Failed(f))
                       /\ (AllLinesRead(f)' <=> AllLinesRead(f)) /\ Folded(f)' = Folded(f)
  BY DEF Ended, Failed, AllLinesRead, Folded, InWindow
<1>2. TasksFold' BY <1>1 DEF TasksFold
<1>3. Waiting(progress_ch)' = Waiting(progress_ch) BY DEF Waiting
<1>4. FilesReported' BY <1>1, <1>3 DEF FilesReported
<1>5. (\A f \in Files : KeptOf(f)' = KeptOf(f)) /\ Kept' = Kept BY <1>1, KeptIsStable
<1> QED BY <1>1, <1>2, <1>3, <1>4, <1>5

(* Two adjacent parts reduced stand for both ranges: by associativity.     *)
LEMMA StepReduce ==
  ASSUME ParseInv, reduce
  PROVE  ParseInv'
<1>0. /\ ParseTypeOK /\ TasksFold /\ PartsCover /\ FilesReported /\ ResultSent /\ Running
      /\ UNCHANGED <<content, task, thread, progress_ch, heavy, phase_idx, processing_ch, uiVars>>
  BY DEF ParseInv, reduce
<1>1. /\ TasksFold' /\ FilesReported'
      /\ \A f \in Files : (Ended(f)' <=> Ended(f)) /\ (Failed(f)' <=> Failed(f))
      /\ (\A f \in Files : KeptOf(f)' = KeptOf(f)) /\ Kept' = Kept
      /\ Waiting(progress_ch)' = Waiting(progress_ch)
  <2>1. UNCHANGED <<content, task, progress_ch, file_progress>> BY <1>0 DEF uiVars
  <2> QED BY <1>0, <2>1, TasksStay
<1>2. PICK p \in parts, q \in parts :
        /\ p.hi + 1 = q.lo
        /\ parts' = (parts \ {p, q}) \cup
             {[lo |-> p.lo, hi |-> q.hi, grouper |-> merge(p.grouper, q.grouper)]}
  BY DEF reduce
<1>3. \A x \in parts : /\ x.lo \in Files /\ x.hi \in Files /\ x.grouper \in Groupers
                       /\ x.lo .. x.hi \subseteq Files
  BY <1>0, RangesAreFiles
<1>4. \A x \in parts : /\ x.lo <= x.hi /\ StandsForItsRange(x)
                       /\ \A f \in x.lo .. x.hi : Ended(f)
  BY <1>0 DEF PartsCover
<1> DEFINE new == [lo |-> p.lo, hi |-> q.hi, grouper |-> merge(p.grouper, q.grouper)]
<1>5. new \in [lo : Files, hi : Files, grouper : Groupers] BY <1>3, MergedGroupers
<1>6. new.lo = p.lo /\ new.hi = q.hi /\ new.grouper = merge(p.grouper, q.grouper) OBVIOUS
<1> HIDE DEF new
<1>7. /\ parts' = (parts \ {p, q}) \cup {new}
      /\ parts' \in SUBSET [lo : Files, hi : Files, grouper : Groupers]
      /\ IsFiniteSet(parts')
  <2>1. parts \in SUBSET [lo : Files, hi : Files, grouper : Groupers] /\ IsFiniteSet(parts)
    BY <1>0 DEF ParseTypeOK
  <2>2. IsFiniteSet(parts \ {p, q}) BY <2>1, FS_Subset
  <2>3. IsFiniteSet((parts \ {p, q}) \cup {new}) BY <2>2, FS_AddElement
  <2>4. parts' = (parts \ {p, q}) \cup {new} BY <1>2 DEF new
  <2> QED BY <1>5, <2>1, <2>3, <2>4
<1>8. /\ p.lo \in Nat /\ p.hi \in Nat /\ q.lo \in Nat /\ q.hi \in Nat
      /\ p.lo <= p.hi /\ p.hi + 1 = q.lo /\ q.lo <= q.hi
      /\ p.lo \in 1 .. NFiles /\ q.hi \in 1 .. NFiles /\ NFiles \in Nat
  BY <1>2, <1>3, <1>4, ParallelParseAssumption DEF Files
<1>9. \A i : i \in p.lo .. q.hi <=> i \in p.lo .. p.hi \/ i \in q.lo .. q.hi BY <1>8
<1>10. StandsForItsRange(new)'
  <2> SUFFICES ASSUME NEW w \in [0 .. NFiles -> Seq(Plans)],
                      \A i \in p.lo .. q.hi : w[i] = w[i - 1] \o KeptOf(i)'
               PROVE  merge(Batch(w[p.lo - 1]), merge(p.grouper, q.grouper)) = Batch(w[q.hi])
    BY <1>6 DEF StandsForItsRange
  <2>1. /\ \A i \in p.lo .. p.hi : w[i] = w[i - 1] \o KeptOf(i)
        /\ \A i \in q.lo .. q.hi : w[i] = w[i - 1] \o KeptOf(i)
    BY <1>1, <1>3, <1>9
  <2>2. merge(Batch(w[p.lo - 1]), p.grouper) = Batch(w[p.hi])
    BY <1>4, <2>1 DEF StandsForItsRange
  <2>3. merge(Batch(w[q.lo - 1]), q.grouper) = Batch(w[q.hi])
    BY <1>4, <2>1 DEF StandsForItsRange
  <2>4. q.lo - 1 = p.hi
    <3>1. \A a \in Nat : (a + 1) - 1 = a OBVIOUS
    <3>2. (p.hi + 1) - 1 = p.hi BY <1>8, <3>1
    <3> QED BY <1>8, <3>2
  <2>5. w[p.lo - 1] \in Seq(Plans)
    <3>1. p.lo - 1 \in 0 .. NFiles BY <1>8
    <3> QED BY <3>1
  <2>6. IsGrouper(Batch(w[p.lo - 1])) /\ IsGrouper(p.grouper) /\ IsGrouper(q.grouper)
    BY <1>3, <2>5, BatchIsGrouper, MergedGroupers
  <2>7. merge(merge(Batch(w[p.lo - 1]), p.grouper), q.grouper) =
          merge(Batch(w[p.lo - 1]), merge(p.grouper, q.grouper))
    BY <2>6, ReductionIsSound
  <2> QED BY <2>2, <2>3, <2>4, <2>7
<1>11. PartsCover'
  <2>1. \A x \in parts' : /\ x.lo <= x.hi /\ StandsForItsRange(x)'
                          /\ \A f \in x.lo .. x.hi : Ended(f)'
    <3> SUFFICES ASSUME NEW x \in parts'
                 PROVE  /\ x.lo <= x.hi /\ StandsForItsRange(x)'
                        /\ \A f \in x.lo .. x.hi : Ended(f)'
      OBVIOUS
    <3>1. CASE x \in parts
      <4>1. \A i \in x.lo .. x.hi : KeptOf(i)' = KeptOf(i) BY <1>1, <1>3, <3>1
      <4>2. StandsForItsRange(x)' BY <1>4, <3>1, <4>1, RangeIsStable
      <4> QED BY <1>1, <1>3, <1>4, <3>1, <4>2
    <3>2. CASE x = new
      <4>1. new.lo <= new.hi BY <1>6, <1>8
      <4>2. \A f \in new.lo .. new.hi : Ended(f)' BY <1>1, <1>3, <1>4, <1>6, <1>9
      <4> QED BY <1>10, <3>2, <4>1, <4>2
    <3> QED BY <1>7, <3>1, <3>2
  <2>2. \A f \in Files : Ended(f)' => \E x \in parts' : f \in x.lo .. x.hi
    <3> SUFFICES ASSUME NEW f \in Files, Ended(f)' PROVE \E x \in parts' : f \in x.lo .. x.hi
      OBVIOUS
    <3>1. PICK x \in parts : f \in x.lo .. x.hi BY <1>0, <1>1 DEF PartsCover, Running
    <3>2. CASE x \notin {p, q} BY <1>7, <3>1, <3>2
    <3>3. CASE x \in {p, q}
      <4>1. new \in parts' /\ f \in new.lo .. new.hi BY <1>6, <1>7, <1>9, <3>1, <3>3
      <4> QED BY <4>1
    <3> QED BY <3>2, <3>3
  <2>3. thread' # "sent" BY <1>0 DEF Running
  <2> QED BY <2>1, <2>2, <2>3 DEF PartsCover
<1>12. ParseTypeOK' BY <1>0, <1>7 DEF ParseTypeOK, uiVars
<1>13. ResultSent' BY <1>0, <1>1 DEF ResultSent
<1>14. ResultTaken' /\ AnalysisFollows' BY <1>0, WhileRunning
<1> QED BY <1>1, <1>11, <1>12, <1>13, <1>14 DEF ParseInv

(* When every file ended and one grouper is left, it is that of the plans  *)
(* that count.                                                             *)
LEMMA LastPartIsBatch ==
  ASSUME ParseTypeOK, PartsCover, Running, \A f \in Files : Ended(f), Cardinality(parts) <= 1
  PROVE  /\ Kept \in Seq(Plans)
         /\ (IF parts = {} THEN NewGrouper ELSE (CHOOSE p \in parts : TRUE).grouper) = Batch(Kept)
<1> DEFINE ss == [f \in Files |-> KeptOf(f)]
<1>0. NFiles \in Nat /\ Files = 1 .. NFiles BY ParallelParseAssumption DEF Files
<1>1. \A f \in Files : KeptOf(f) \in Seq(Plans)
  <2>1. <<>> \in Seq(Plans) /\ \A f \in Files : content[f] \in Seq(Plans) BY DEF ParseTypeOK
  <2> QED BY <2>1, PlansInRange DEF KeptOf
<1>2. ss \in Seq(Seq(Plans)) /\ Len(ss) = NFiles
  <2>1. ss \in [1 .. NFiles -> Seq(Plans)] BY <1>0, <1>1
  <2>2. ss \in Seq(Seq(Plans)) BY <1>0, <2>1, SeqDef
  <2>3. DOMAIN ss = 1 .. NFiles BY <1>0
  <2> QED BY <1>0, <2>2, <2>3, LenProperties
<1>3. \A f \in Files : ss[f] = KeptOf(f) OBVIOUS
<1>4. Kept = FlattenSeq(ss) BY DEF Kept
<1> HIDE DEF ss
<1>5. PICK w : IsConcatenation(w, ss) /\ FlattenSeq(ss) = w[Len(ss)]
  BY <1>2, FlattenIsConcatenation
<1>6. /\ w \in [0 .. NFiles -> Seq(Plans)] /\ w[0] = <<>> /\ Kept = w[NFiles]
      /\ \A i \in Files : w[i] = w[i - 1] \o KeptOf(i)
  BY <1>0, <1>2, <1>3, <1>4, <1>5 DEF IsConcatenation
<1>7. Kept \in Seq(Plans) BY <1>0, <1>6
<1>8. CASE parts = {}
  <2>1. Files = {} BY <1>8 DEF PartsCover, Running
  <2>2. NFiles = 0
    <3>1. NFiles # 0 => 1 \in Files BY <1>0
    <3> QED BY <2>1, <3>1
  <2>3. Kept = <<>> BY <1>6, <2>2
  <2> QED BY <1>7, <1>8, <2>3, BatchIsGrouper
<1>9. CASE parts # {}
  <2> DEFINE p == CHOOSE x \in parts : TRUE
  <2>1. p \in parts BY <1>9
  <2> HIDE DEF p
  <2>2. \A x \in parts : x = p
    <3> SUFFICES ASSUME NEW x \in parts, x # p PROVE FALSE OBVIOUS
    <3>1. IsFiniteSet(parts) BY DEF ParseTypeOK
    <3>2. {x, p} \subseteq parts BY <2>1
    <3>3. IsFiniteSet({x, p}) /\ Cardinality({x, p}) <= Cardinality(parts)
      BY <3>1, <3>2, FS_Subset
    <3>4. Cardinality({x, p}) = 2
      <4>1. IsFiniteSet({p}) /\ Cardinality({p}) = 1 BY FS_Singleton
      <4>2. Cardinality({p} \cup {x}) = Cardinality({p}) + 1 BY <4>1, FS_AddElement
      <4>3. {p} \cup {x} = {x, p} OBVIOUS
      <4> QED BY <4>1, <4>2, <4>3
    <3>5. Cardinality(parts) \in Nat BY <3>1, FS_CardinalityType
    <3> QED BY <3>3, <3>4, <3>5
  <2>3. p.lo \in Files /\ p.hi \in Files /\ p.lo <= p.hi /\ StandsForItsRange(p)
        /\ p.grouper \in Groupers
    BY <2>1, RangesAreFiles DEF PartsCover
  <2>4. \A f \in Files : f \in p.lo .. p.hi BY <2>2 DEF PartsCover, Running
  <2>5. p.lo = 1 /\ p.hi = NFiles
    <3>1. 1 \in Files /\ NFiles \in Files BY <1>0, <2>3
    <3> QED BY <1>0, <2>3, <2>4, <3>1
  <2>6. \A i \in p.lo .. p.hi : w[i] = w[i - 1] \o KeptOf(i) BY <1>0, <1>6, <2>5
  <2>7. merge(Batch(w[p.lo - 1]), p.grouper) = Batch(w[p.hi])
    BY <1>6, <2>3, <2>6 DEF StandsForItsRange
  <2>8. w[p.lo - 1] = <<>> BY <1>6, <2>5
  <2>9. IsGrouper(p.grouper) BY <2>3, MergedGroupers
  <2>10. merge(NewGrouper, p.grouper) = p.grouper BY <2>9, ReductionIsSound
  <2>11. p.grouper = Batch(Kept) BY <1>6, <2>5, <2>7, <2>8, <2>10, BatchIsGrouper
  <2> QED BY <1>7, <1>9, <2>11 DEF p
<1> QED BY <1>8, <1>9

(* The result sent is the grouper of the plans that count.                 *)
LEMMA StepSendComplete ==
  ASSUME ParseInv, send_complete
  PROVE  ParseInv'
<1> DEFINE g == IF parts = {} THEN NewGrouper ELSE (CHOOSE p \in parts : TRUE).grouper
           m == Complete(g)
<1>0. /\ ParseTypeOK /\ TasksFold /\ PartsCover /\ FilesReported /\ ResultSent /\ Running
      /\ \A f \in Files : Ended(f)
      /\ Cardinality(parts) <= 1
      /\ progress_ch' = Append(progress_ch, m)
      /\ thread' = "sent" /\ parts' = {}
      /\ UNCHANGED <<content, task, heavy, phase_idx, processing_ch, uiVars>>
  BY DEF ParseInv, send_complete, Send
<1>1. Kept \in Seq(Plans) /\ g = Batch(Kept) BY <1>0, LastPartIsBatch
<1>2. /\ m.type = "Complete" /\ m.plan_count = Len(Kept)
      /\ m.groups = get_processed_queries(Kept) /\ m \in ParseMessages
  <2> HIDE DEF g
  <2>1. g.accepted = Len(Kept) /\ g.groups = get_processed_queries(Kept) BY <1>1 DEF Batch
  <2>2. Len(Kept) \in Nat BY <1>1, LenProperties
  <2> QED BY <1>1, <2>1, <2>2 DEF Complete, ParseMessages
<1> HIDE DEF m
<1>3. progress_ch \in Seq(ParseMessages) BY <1>0 DEF ParseTypeOK
<1>4. Append(progress_ch, m) \in Seq(ParseMessages)
      /\ Waiting(progress_ch)' = Waiting(progress_ch) \cup {m}
  <2>1. Append(progress_ch, m) \in Seq(ParseMessages)
        /\ Waiting(Append(progress_ch, m)) = Waiting(progress_ch) \cup {m}
    BY <1>2, <1>3, WaitingAppend
  <2> QED BY <1>0, <2>1 DEF Waiting
<1>5. \A f \in Files : /\ (Ended(f)' <=> Ended(f)) /\ (Failed(f)' <=> Failed(f))
                       /\ (AllLinesRead(f)' <=> AllLinesRead(f)) /\ Folded(f)' = Folded(f)
  BY <1>0 DEF Ended, Failed, AllLinesRead, Folded, InWindow
<1>6. Kept' = Kept BY <1>0, <1>5, KeptIsStable
<1>7. ParseTypeOK'
  <2>1. IsFiniteSet({}) BY FS_EmptySet
  <2> QED BY <1>0, <1>4, <2>1 DEF ParseTypeOK, uiVars
<1>8. TasksFold' BY <1>0, <1>5 DEF TasksFold
<1>9. PartsCover' BY <1>0, <1>5 DEF PartsCover
<1>10. FilesReported'
  <2>1. file_progress' = file_progress BY <1>0 DEF uiVars
  <2>2. \A f \in Files : ~Fails(m, f) /\ ~Completes(m, f) BY <1>2 DEF Fails, Completes
  <2> QED BY <1>0, <1>2, <1>3, <1>5, <2>1, <2>2, NewsStay
<1>11. ResultTaken' /\ AnalysisFollows'
       /\ \A x \in Waiting(progress_ch) : x.type # "Complete"
  BY <1>0, WhileRunning
<1>12. ResultSent' BY <1>0, <1>2, <1>4, <1>6, <1>11 DEF ResultSent
<1> QED BY <1>7, <1>8, <1>9, <1>10, <1>11, <1>12 DEF ParseInv

(* A panic sends nothing.                                                  *)
LEMMA StepThreadPanics ==
  ASSUME ParseInv, thread_panics
  PROVE  ParseInv'
<1>0. /\ ParseTypeOK /\ TasksFold /\ PartsCover /\ FilesReported /\ ResultSent /\ Running
      /\ thread' = "panicked"
      /\ UNCHANGED <<content, task, parts, progress_ch, heavy, phase_idx, processing_ch, uiVars>>
  BY DEF ParseInv, thread_panics
<1>1. /\ TasksFold' /\ FilesReported'
      /\ \A f \in Files : (Ended(f)' <=> Ended(f)) /\ (Failed(f)' <=> Failed(f))
      /\ (\A f \in Files : KeptOf(f)' = KeptOf(f)) /\ Kept' = Kept
      /\ Waiting(progress_ch)' = Waiting(progress_ch)
  <2>1. UNCHANGED <<content, task, progress_ch, file_progress>> BY <1>0 DEF uiVars
  <2> QED BY <1>0, <2>1, TasksStay
<1>2. \A x \in parts : x.lo .. x.hi \subseteq Files BY <1>0, RangesAreFiles
<1>3. \A x \in parts : StandsForItsRange(x)'
  <2> SUFFICES ASSUME NEW x \in parts PROVE StandsForItsRange(x)' OBVIOUS
  <2>1. StandsForItsRange(x) BY <1>0 DEF PartsCover
  <2>2. \A i \in x.lo .. x.hi : KeptOf(i)' = KeptOf(i) BY <1>1, <1>2
  <2> QED BY <2>1, <2>2, RangeIsStable
<1>4. PartsCover' BY <1>0, <1>1, <1>2, <1>3 DEF PartsCover, Running
<1>5. ParseTypeOK' BY <1>0 DEF ParseTypeOK, uiVars
<1>6. ResultTaken' /\ AnalysisFollows'
      /\ \A x \in Waiting(progress_ch) : x.type # "Complete"
  BY <1>0, WhileRunning
<1>7. ResultSent' BY <1>1, <1>6 DEF ResultSent
<1> QED BY <1>1, <1>4, <1>5, <1>6, <1>7 DEF ParseInv

-----------------------------------------------------------------------------
(* The steps of the analysis task and of the screen.                       *)

(* The analysis task and the screen leave the parsing thread alone.        *)
ParsingSide == <<content, task, parts, thread>>

(* What then holds of the parsing side goes on to hold.                    *)
LEMMA ParsingSideStays ==
  ASSUME ParseTypeOK, TasksFold, PartsCover, UNCHANGED ParsingSide
  PROVE  /\ TasksFold' /\ PartsCover'
         /\ \A f \in Files : /\ (Ended(f)' <=> Ended(f)) /\ (Failed(f)' <=> Failed(f))
                             /\ (AllLinesRead(f)' <=> AllLinesRead(f))
         /\ Kept' = Kept
<1>0. content' = content /\ task' = task /\ parts' = parts /\ thread' = thread
  BY DEF ParsingSide
<1>1. \A f \in Files : /\ (Ended(f)' <=> Ended(f)) /\ (Failed(f)' <=> Failed(f))
                       /\ (AllLinesRead(f)' <=> AllLinesRead(f)) /\ Folded(f)' = Folded(f)
  BY <1>0 DEF Ended, Failed, AllLinesRead, Folded, InWindow
<1>2. TasksFold' BY <1>0, <1>1 DEF TasksFold
<1>3. PartsCover' BY <1>0, <1>1, PartsStay
<1>4. Kept' = Kept BY <1>0, <1>1, KeptIsStable
<1> QED BY <1>1, <1>2, <1>3, <1>4

(* The plans that count are plans.                                         *)
LEMMA KeptIsPlans ==
  ASSUME ParseTypeOK PROVE Kept \in Seq(Plans)
<1> DEFINE ss == [f \in Files |-> KeptOf(f)]
<1>0. NFiles \in Nat /\ Files = 1 .. NFiles BY ParallelParseAssumption DEF Files
<1>1. \A f \in Files : KeptOf(f) \in Seq(Plans)
  <2>1. <<>> \in Seq(Plans) /\ \A f \in Files : content[f] \in Seq(Plans) BY DEF ParseTypeOK
  <2> QED BY <2>1, PlansInRange DEF KeptOf
<1>2. ss \in Seq(Seq(Plans))
  <2>1. ss \in [1 .. NFiles -> Seq(Plans)] BY <1>0, <1>1
  <2> QED BY <1>0, <2>1, SeqDef
<1>3. Kept = FlattenSeq(ss) BY DEF Kept
<1> HIDE DEF ss
<1>4. PICK w : IsConcatenation(w, ss) /\ FlattenSeq(ss) = w[Len(ss)]
  BY <1>2, FlattenIsConcatenation
<1>5. Len(ss) \in 0 .. Len(ss) BY <1>2, LenProperties
<1> QED BY <1>3, <1>4, <1>5 DEF IsConcatenation

(* The phases announced include every one that annotates.                  *)
LEMMA EveryPhaseAnnotates ==
  Annotations \cap {Phases[i] : i \in 1 .. Len(Phases)} = Annotations
<1>1. Len(Phases) = 7 BY DEF Phases
<1>2. /\ Phases[4] = "ComplexityAnalysis" /\ Phases[5] = "MetadataExtraction"
      /\ Phases[6] = "RegressionAnalysis" /\ Phases[7] = "PlanAnalysis"
  BY DEF Phases
<1>3. \A x \in Annotations : \E i \in 1 .. 7 : x = Phases[i] BY <1>2 DEF Annotations
<1> QED BY <1>1, <1>3

(* The analysis sends the groups it was given, annotated by every phase.   *)
LEMMA StepHeavy ==
  ASSUME ParseInv, heavy_phase \/ heavy_panics
  PROVE  ParseInv'
<1>0. /\ ParseTypeOK /\ TasksFold /\ PartsCover /\ FilesReported /\ ResultSent
      /\ ResultTaken /\ AnalysisFollows
      /\ heavy = "running" /\ screen # "exited"
      /\ UNCHANGED <<content, task, parts, thread, progress_ch, uiVars>>
  BY DEF ParseInv, heavy_phase, heavy_panics
<1>1. /\ TasksFold' /\ PartsCover' /\ Kept' = Kept
      /\ \A f \in Files : /\ (Ended(f)' <=> Ended(f)) /\ (Failed(f)' <=> Failed(f))
                          /\ (AllLinesRead(f)' <=> AllLinesRead(f))
  <2>1. UNCHANGED ParsingSide BY <1>0 DEF ParsingSide
  <2> QED BY <1>0, <2>1, ParsingSideStays
<1>2. UNCHANGED <<file_progress, total_queries_parsed, parsing_complete, grouped, date_range,
                  awaiting_user_input, processed_queries, results, screen>>
  BY <1>0 DEF uiVars
<1>3. Waiting(progress_ch)' = Waiting(progress_ch) BY <1>0 DEF Waiting
<1>4. FilesReported' BY <1>0, <1>1, <1>2, <1>3 DEF FilesReported
<1>5. ResultSent' BY <1>0, <1>1, <1>3 DEF ResultSent
<1>6. ResultTaken' BY <1>0, <1>1, <1>2 DEF ResultTaken
<1>7. parsing_complete BY <1>0 DEF AnalysisFollows
<1>8. Kept \in Seq(Plans) /\ grouped = get_processed_queries(Kept)
  BY <1>0, <1>7, KeptIsPlans DEF ResultTaken
<1>9. /\ processing_ch' \in Seq(ReportsOfPhases) /\ phase_idx' \in 0 .. Len(Phases)
      /\ heavy' \in {"running", "sent", "panicked"}
      /\ \A m \in Waiting(processing_ch)' : m \in Waiting(processing_ch) \/
           (m.type = "AllComplete" => Analysed(m))
  <2>0. processing_ch \in Seq(ReportsOfPhases) /\ phase_idx \in 0 .. Len(Phases)
    BY <1>0 DEF ParseTypeOK
  <2>1. CASE heavy_panics
    <3>1. Waiting(processing_ch)' = Waiting(processing_ch) BY <2>1 DEF heavy_panics, Waiting
    <3> QED BY <2>0, <2>1, <3>1 DEF heavy_panics
  <2>2. CASE heavy_phase /\ phase_idx < Len(Phases)
    <3> DEFINE m == [type |-> "PhaseStarted", phase |-> Phases[phase_idx + 1]]
    <3>0. Len(Phases) = 7 BY DEF Phases
    <3>1. processing_ch' = Append(processing_ch, m) /\ phase_idx' = phase_idx + 1
          /\ heavy' = heavy
      BY <2>2 DEF heavy_phase
    <3>2. phase_idx + 1 \in 1 .. Len(Phases) BY <2>0, <2>2, <3>0
    <3>3. m \in ReportsOfPhases BY <3>2 DEF ReportsOfPhases
    <3>4. m.type = "PhaseStarted" OBVIOUS
    <3> HIDE DEF m
    <3>5. Append(processing_ch, m) \in Seq(ReportsOfPhases)
          /\ Waiting(Append(processing_ch, m)) = Waiting(processing_ch) \cup {m}
      BY <2>0, <3>3, WaitingAppend
    <3>6. Waiting(processing_ch)' = Waiting(processing_ch) \cup {m} BY <3>1, <3>5 DEF Waiting
    <3>7. phase_idx' \in 0 .. Len(Phases) BY <3>0, <3>1, <3>2
    <3> QED BY <1>0, <3>1, <3>4, <3>5, <3>6, <3>7
  <2>3. CASE heavy_phase /\ ~(phase_idx < Len(Phases))
    <3> DEFINE m == [type |-> "AllComplete", groups |-> grouped,
                     annotated |-> Annotations \cap {Phases[i] : i \in 1 .. phase_idx}]
    <3>0. Len(Phases) = 7 BY DEF Phases
    <3>1. phase_idx = Len(Phases) BY <2>0, <2>3, <3>0
    <3>2. processing_ch' = Append(processing_ch, m) /\ phase_idx' = phase_idx
          /\ heavy' = "sent"
      BY <2>3 DEF heavy_phase
    <3>3. m.groups = grouped /\ m.annotated = Annotations BY <3>1, EveryPhaseAnnotates
    <3>4. m \in ReportsOfPhases BY <1>8, <3>3 DEF ReportsOfPhases
    <3> HIDE DEF m
    <3>5. Append(processing_ch, m) \in Seq(ReportsOfPhases)
          /\ Waiting(Append(processing_ch, m)) = Waiting(processing_ch) \cup {m}
      BY <2>0, <3>4, WaitingAppend
    <3>6. Waiting(processing_ch)' = Waiting(processing_ch) \cup {m} BY <3>2, <3>5 DEF Waiting
    <3> QED BY <2>0, <3>2, <3>3, <3>5, <3>6 DEF Analysed
  <2> QED BY <1>0, <2>1, <2>2, <2>3
<1>10. ParseTypeOK' BY <1>0, <1>2, <1>9 DEF ParseTypeOK
<1>11. AnalysisFollows'
  <2>1. \A m : Analysed(m)' <=> Analysed(m) BY <1>2 DEF Analysed
  <2>2. \A m \in Waiting(processing_ch)' : m.type = "AllComplete" => Analysed(m)
    BY <1>0, <1>9 DEF AnalysisFollows
  <2>3. Analysed(processed_queries[1])' <=> Analysed(processed_queries[1])
    BY <1>2 DEF Analysed
  <2>4. Analysed(results)' <=> Analysed(results) BY <1>2 DEF Analysed
  <2> QED BY <1>0, <1>2, <1>7, <2>1, <2>2, <2>3, <2>4 DEF AnalysisFollows
<1> QED BY <1>1, <1>4, <1>5, <1>6, <1>10, <1>11 DEF ParseInv

(* The screen's drain of the parsing channel.                              *)
LEMMA ParsingDrained ==
  ASSUME ParseInv, check_parsing_progress_sync, UNCHANGED ParsingSide
  PROVE  /\ FilesReported' /\ ResultSent' /\ ResultTaken'
         /\ progress_ch' \in Seq(ParseMessages) /\ file_progress' \in FileEntries
         /\ parsing_complete' \in BOOLEAN
         /\ heavy' \in {"none", "running", "sent", "panicked"}
         /\ heavy' # "none" => parsing_complete'
         /\ parsing_complete => /\ parsing_complete' /\ grouped' = grouped
                                /\ date_range' = date_range
<1> DEFINE received == FoldLeft(on_progress, file_progress, progress_ch)
           counted == FoldLeft(add_queries, total_queries_parsed, progress_ch)
           complete == {i \in DOMAIN progress_ch : progress_ch[i].type = "Complete"}
<1>0. /\ ParseTypeOK /\ TasksFold /\ PartsCover /\ FilesReported /\ ResultSent
      /\ ResultTaken /\ AnalysisFollows
  BY DEF ParseInv
<1>1. /\ Kept' = Kept
      /\ \A f \in Files : /\ (Ended(f)' <=> Ended(f)) /\ (Failed(f)' <=> Failed(f))
                          /\ (AllLinesRead(f)' <=> AllLinesRead(f))
      /\ thread' = thread
  BY <1>0, ParsingSideStays DEF ParsingSide
<1>2. /\ progress_ch \in Seq(ParseMessages) /\ file_progress \in FileEntries
      /\ parsing_complete \in BOOLEAN /\ heavy \in {"none", "running", "sent", "panicked"}
  BY <1>0 DEF ParseTypeOK
<1>3. CASE parsing_complete
  <2>1. UNCHANGED <<progress_ch, file_progress, total_queries_parsed, parsing_complete,
                    grouped, date_range, heavy>>
    BY <1>3 DEF check_parsing_progress_sync
  <2>2. Waiting(progress_ch)' = Waiting(progress_ch) BY <2>1 DEF Waiting
  <2>3. FilesReported' BY <1>0, <1>1, <2>1, <2>2 DEF FilesReported
  <2>4. ResultSent' BY <1>0, <1>1, <2>2 DEF ResultSent
  <2>5. ResultTaken' BY <1>0, <1>1, <2>1 DEF ResultTaken
  <2> QED BY <1>2, <1>3, <2>1, <2>3, <2>4, <2>5
<1>4. CASE ~parsing_complete
  <2>1. /\ progress_ch' = <<>>
        /\ complete = {} =>
             /\ file_progress' = received
             /\ UNCHANGED <<parsing_complete, grouped, date_range, heavy>>
        /\ complete # {} =>
             LET result == progress_ch[CHOOSE i \in complete : TRUE]
             IN /\ file_progress' = mark_remaining(received)
                /\ total_queries_parsed' = final_total(counted, result.plan_count)
                /\ parsing_complete' = TRUE
                /\ grouped' = result.groups
                /\ date_range' = calculate_date_range(result.groups)
                /\ heavy' = "running"
    BY <1>4, Zenon DEF check_parsing_progress_sync
  <2>2. /\ received \in FileEntries
        /\ \A f \in Files :
             /\ received[f].error <=>
                  file_progress[f].error \/ \E i \in 1 .. Len(progress_ch) : Fails(progress_ch[i], f)
             /\ received[f].completed <=>
                  \/ file_progress[f].completed
                  \/ \E i \in 1 .. Len(progress_ch) : Completes(progress_ch[i], f)
    BY <1>2, AfterMessages
  <2> HIDE DEF received
  <2>3. \A f \in Files :
          /\ received[f].error <=> Failed(f)
          /\ received[f].error => received[f].completed
          /\ received[f].completed => f \in Compressed \/ Ended(f) \/ AllLinesRead(f)
    <3> SUFFICES ASSUME NEW f \in Files
                 PROVE  /\ received[f].error <=> Failed(f)
                        /\ received[f].error => received[f].completed
                        /\ received[f].completed => f \in Compressed \/ Ended(f) \/ AllLinesRead(f)
      OBVIOUS
    <3>1. /\ (\E i \in 1 .. Len(progress_ch) : Fails(progress_ch[i], f)) <=>
               \E m \in Waiting(progress_ch) : Fails(m, f)
          /\ (\E i \in 1 .. Len(progress_ch) : Completes(progress_ch[i], f)) <=>
               \E m \in Waiting(progress_ch) : Completes(m, f)
      BY DEF Waiting
    <3>2. \A m \in Waiting(progress_ch) :
            /\ Fails(m, f) => Failed(f)
            /\ Completes(m, f) => f \in Compressed \/ Ended(f) \/ AllLinesRead(f)
      BY <1>0 DEF FilesReported
    <3>3. /\ file_progress[f].error => Failed(f) /\ file_progress[f].completed
          /\ file_progress[f].completed => f \in Compressed \/ Ended(f) \/ AllLinesRead(f)
          /\ Failed(f) => \/ file_progress[f].error
                          \/ \E m \in Waiting(progress_ch) : Fails(m, f)
      BY <1>0 DEF FilesReported
    <3>4. /\ received[f].error <=>
               file_progress[f].error \/ \E m \in Waiting(progress_ch) : Fails(m, f)
          /\ received[f].completed <=>
               file_progress[f].completed \/ \E m \in Waiting(progress_ch) : Completes(m, f)
      BY <2>2, <3>1
    <3>5. \A m : Fails(m, f) => Completes(m, f) BY DEF Completes
    <3> QED BY <3>2, <3>3, <3>4, <3>5
  <2>4. Waiting(progress_ch)' = {} /\ progress_ch' \in Seq(ParseMessages)
    BY <2>1, WaitingNone DEF Waiting
  <2>5. ResultSent' BY <2>4 DEF ResultSent
  <2>6. CASE complete = {}
    <3>1. file_progress' = received /\ UNCHANGED <<parsing_complete, grouped, date_range, heavy>>
      BY <2>1, <2>6
    <3>2. FilesReported' BY <1>1, <2>3, <2>4, <3>1 DEF FilesReported
    <3>3. ResultTaken' BY <1>4, <3>1 DEF ResultTaken
    <3>4. heavy' # "none" => parsing_complete' BY <1>0, <3>1 DEF AnalysisFollows
    <3> QED BY <1>2, <1>4, <2>2, <2>4, <2>5, <3>1, <3>2, <3>3, <3>4
  <2>7. CASE complete # {}
    <3> DEFINE result == progress_ch[CHOOSE i \in complete : TRUE]
    <3>1. /\ file_progress' = mark_remaining(received)
          /\ total_queries_parsed' = final_total(counted, result.plan_count)
          /\ parsing_complete' = TRUE
          /\ grouped' = result.groups
          /\ date_range' = calculate_date_range(result.groups)
          /\ heavy' = "running"
      BY <2>1, <2>7
    <3>2. result \in Waiting(progress_ch) /\ result.type = "Complete"
      <4>1. (CHOOSE i \in complete : TRUE) \in complete BY <2>7
      <4>2. DOMAIN progress_ch = 1 .. Len(progress_ch) BY <1>2, LenProperties
      <4> QED BY <4>1, <4>2 DEF Waiting
    <3> HIDE DEF result
    <3>3. /\ thread = "sent" /\ result.plan_count = Len(Kept)
          /\ result.groups = get_processed_queries(Kept)
      BY <1>0, <3>2 DEF ResultSent
    <3>4. \A f \in Files : Ended(f) BY <1>0, <3>3 DEF PartsCover
    <3> DEFINE marked == [progress |-> "full", completed |-> TRUE, error |-> FALSE]
    <3>5. /\ file_progress' \in FileEntries
          /\ \A f \in Files : /\ file_progress'[f].completed
                              /\ file_progress'[f].error <=> Failed(f)
      <4>1. file_progress' = [f \in Files |-> IF received[f].completed \/ received[f].error
                                              THEN received[f] ELSE marked]
        BY <3>1 DEF mark_remaining
      <4>2. marked \in [progress : {"none", "part", "full"}, completed : BOOLEAN, error : BOOLEAN]
            /\ marked.completed = TRUE /\ marked.error = FALSE
        OBVIOUS
      <4> HIDE DEF marked
      <4>3. file_progress' \in FileEntries BY <2>2, <4>1, <4>2 DEF FileEntries
      <4>4. \A f \in Files : file_progress'[f] = IF received[f].completed \/ received[f].error
                                                 THEN received[f] ELSE marked
        BY <4>1
      <4>5. ASSUME NEW f \in Files
            PROVE  file_progress'[f].completed /\ (file_progress'[f].error <=> Failed(f))
        <5>1. CASE received[f].completed \/ received[f].error
          <6>1. file_progress'[f] = received[f] BY <4>4, <5>1, Zenon
          <6> QED BY <2>3, <5>1, <6>1, Zenon
        <5>2. CASE ~(received[f].completed \/ received[f].error)
          <6>1. file_progress'[f] = marked BY <4>4, <5>2, Zenon
          <6>2. ~Failed(f) BY <2>3, <5>2
          <6> QED BY <4>2, <6>1, <6>2, Zenon
        <5> QED BY <5>1, <5>2
      <4> QED BY <4>3, <4>5
    <3>6. FilesReported' BY <1>1, <2>4, <3>4, <3>5 DEF FilesReported
    <3>7. ResultTaken' BY <1>1, <3>1, <3>3, <3>5 DEF ResultTaken, final_total
    <3> QED BY <1>4, <2>4, <2>5, <3>1, <3>5, <3>6, <3>7
  <2> QED BY <2>6, <2>7
<1> QED BY <1>3, <1>4

(* A key, or a refresh: both channels are drained, and ENTER shows results *)
(* only if they came.                                                      *)
LEMMA StepProcessKey ==
  ASSUME ParseInv, NEW code, process_key(code)
  PROVE  ParseInv'
<1> DEFINE last == processing_ch[Len(processing_ch)]
<1>0. /\ ParseTypeOK /\ TasksFold /\ PartsCover /\ FilesReported /\ ResultSent
      /\ ResultTaken /\ AnalysisFollows
      /\ screen = "parsing" /\ check_parsing_progress_sync /\ check_post_processing_progress
      /\ UNCHANGED <<content, task, parts, thread, phase_idx>>
  BY DEF ParseInv, process_key
<1>1. UNCHANGED ParsingSide BY <1>0 DEF ParsingSide
<1>2. TasksFold' /\ PartsCover' BY <1>0, <1>1, ParsingSideStays
<1>3. /\ FilesReported' /\ ResultSent' /\ ResultTaken'
      /\ progress_ch' \in Seq(ParseMessages) /\ file_progress' \in FileEntries
      /\ parsing_complete' \in BOOLEAN
      /\ heavy' \in {"none", "running", "sent", "panicked"}
      /\ heavy' # "none" => parsing_complete'
      /\ parsing_complete => /\ parsing_complete' /\ grouped' = grouped
                             /\ date_range' = date_range
  BY <1>0, <1>1, ParsingDrained
<1>4. /\ processing_ch' = <<>>
      /\ awaiting_user_input' \in BOOLEAN
      /\ \/ processed_queries' = processed_queries
         \/ /\ processed_queries' = <<last>> /\ last \in Waiting(processing_ch)
            /\ last.type = "AllComplete"
  <2>1. processing_ch \in Seq(ReportsOfPhases) /\ awaiting_user_input \in BOOLEAN
    BY <1>0 DEF ParseTypeOK
  <2>2. processing_ch' = <<>> BY <1>0, Zenon DEF check_post_processing_progress
  <2>3. CASE processing_ch = <<>>
    BY <1>0, <2>1, <2>2, <2>3 DEF check_post_processing_progress
  <2>4. CASE processing_ch # <<>>
    <3>1. last \in Waiting(processing_ch)
      <4>1. Len(processing_ch) \in Nat \ {0} BY <2>1, <2>4, EmptySeq
      <4>2. Len(processing_ch) \in 1 .. Len(processing_ch) BY <4>1
      <4> QED BY <4>2 DEF Waiting
    <3>2. CASE last.type = "AllComplete"
      BY <1>0, <2>2, <2>4, <3>1, <3>2 DEF check_post_processing_progress
    <3>3. CASE last.type # "AllComplete"
      BY <1>0, <2>1, <2>2, <2>4, <3>3 DEF check_post_processing_progress
    <3> QED BY <3>2, <3>3
  <2> QED BY <2>3, <2>4
<1>5. processed_queries' # <<>> =>
        /\ parsing_complete
        /\ processed_queries'[1].groups = grouped /\ processed_queries'[1].annotated = Annotations
  <2>1. CASE processed_queries' = processed_queries
    BY <1>0, <2>1 DEF AnalysisFollows, Analysed
  <2>2. CASE /\ processed_queries' = <<last>> /\ last \in Waiting(processing_ch)
             /\ last.type = "AllComplete"
    <3>1. processed_queries'[1] = last BY <2>2
    <3> HIDE DEF last
    <3>2. parsing_complete /\ Analysed(last) BY <1>0, <2>2 DEF AnalysisFollows
    <3> QED BY <3>1, <3>2 DEF Analysed
  <2> QED BY <1>4, <2>1, <2>2
<1>6. /\ screen' \in {"parsing", "results", "exited"}
      /\ screen' = "results" => 
           /\ processed_queries' # <<>>
           /\ results' = [groups     |-> processed_queries'[1].groups,
                          annotated  |-> processed_queries'[1].annotated,
                          date_range |-> date_range']
  <2>1. CASE code = "q"
    <3>1. screen' = "exited" BY <2>1 DEF process_key
    <3> QED BY <3>1
  <2>2. CASE code # "q" /\ code = "Enter" /\ awaiting_user_input' /\ processed_queries' # <<>>
    <3>1. /\ screen' = "results"
          /\ results' = [groups     |-> processed_queries'[1].groups,
                         annotated  |-> processed_queries'[1].annotated,
                         date_range |-> date_range']
      BY <2>2 DEF process_key
    <3> QED BY <2>2, <3>1
  <2>3. CASE code # "q" /\ ~(code = "Enter" /\ awaiting_user_input' /\ processed_queries' # <<>>)
    <3>1. screen' = screen BY <2>3 DEF process_key
    <3> QED BY <1>0, <3>1
  <2> QED BY <2>1, <2>2, <2>3
<1>7. AnalysisFollows'
  <2>1. Waiting(processing_ch)' = {} BY <1>4, WaitingNone DEF Waiting
  <2>2. processed_queries' # <<>> => parsing_complete' /\ Analysed(processed_queries[1])'
    BY <1>3, <1>5 DEF Analysed
  <2>3. screen' = "results" =>
          parsing_complete' /\ Analysed(results)' /\ results'.date_range = date_range'
    <3> SUFFICES ASSUME screen' = "results"
                 PROVE  parsing_complete' /\ Analysed(results)' /\ results'.date_range = date_range'
      OBVIOUS
    <3>1. /\ processed_queries' # <<>>
          /\ results'.groups = processed_queries'[1].groups
          /\ results'.annotated = processed_queries'[1].annotated
          /\ results'.date_range = date_range'
      BY <1>6
    <3> QED BY <1>3, <1>5, <3>1 DEF Analysed
  <2> QED BY <1>3, <2>1, <2>2, <2>3 DEF AnalysisFollows
<1>8. ParseTypeOK'
  <2>1. processing_ch' \in Seq(ReportsOfPhases) BY <1>4
  <2> QED BY <1>0, <1>3, <1>4, <1>6, <2>1 DEF ParseTypeOK
<1> QED BY <1>2, <1>3, <1>7, <1>8 DEF ParseInv

(* The invariant holds in every state: every file count, every content,    *)
(* every order of the tasks, the reduction, the analysis and the keys.     *)
THEOREM ParseInductive == Spec => []ParseInv
<1>1. Init => ParseInv BY InitParse
<1>2. ParseInv /\ [Next]_vars => ParseInv'
  <2> SUFFICES ASSUME ParseInv, [Next]_vars PROVE ParseInv' OBVIOUS
  <2>1. CASE UNCHANGED vars
    <3>0. /\ ParseTypeOK /\ TasksFold /\ PartsCover /\ FilesReported /\ ResultSent
          /\ ResultTaken /\ AnalysisFollows
      BY DEF ParseInv
    <3>1. /\ UNCHANGED ParsingSide
          /\ UNCHANGED <<content, task, parts, thread, heavy, phase_idx, screen, file_progress,
                total_queries_parsed, parsing_complete, grouped, date_range, processing_phase,
                awaiting_user_input, processed_queries, results, progress_ch, processing_ch>>
      BY <2>1 DEF vars, taskVars, uiVars, ParsingSide
    <3>2. /\ TasksFold' /\ PartsCover' /\ Kept' = Kept
          /\ \A f \in Files : /\ (Ended(f)' <=> Ended(f)) /\ (Failed(f)' <=> Failed(f))
                              /\ (AllLinesRead(f)' <=> AllLinesRead(f))
      BY <3>0, <3>1, ParsingSideStays
    <3>3. /\ Waiting(progress_ch)' = Waiting(progress_ch)
          /\ Waiting(processing_ch)' = Waiting(processing_ch)
      BY <3>1 DEF Waiting
    <3>4. FilesReported' BY <3>0, <3>1, <3>2, <3>3 DEF FilesReported
    <3>5. ResultSent' /\ ResultTaken' BY <3>0, <3>1, <3>2, <3>3 DEF ResultSent, ResultTaken
    <3>6. AnalysisFollows' BY <3>0, <3>1, <3>3 DEF AnalysisFollows, Analysed
    <3>7. ParseTypeOK' BY <3>0, <3>1 DEF ParseTypeOK
    <3> QED BY <3>2, <3>4, <3>5, <3>6, <3>7 DEF ParseInv
  <2>2. ASSUME NEW f \in Files, accept(f) PROVE ParseInv' BY <2>2, StepAccept
  <2>3. ASSUME NEW f \in Files, progress_callback(f) PROVE ParseInv' BY <2>3, StepProgress
  <2>4. ASSUME NEW f \in Files, file_ends(f) \/ file_fails(f) PROVE ParseInv'
    BY <2>4, StepFileEnds
  <2>5. CASE reduce BY <2>5, StepReduce
  <2>6. CASE send_complete BY <2>6, StepSendComplete
  <2>7. CASE thread_panics BY <2>7, StepThreadPanics
  <2>8. CASE heavy_phase \/ heavy_panics BY <2>8, StepHeavy
  <2>9. ASSUME NEW code \in {"q", "Enter", "Null"}, process_key(code) PROVE ParseInv'
    BY <2>9, StepProcessKey
  <2> QED BY <2>1, <2>2, <2>3, <2>4, <2>5, <2>6, <2>7, <2>8, <2>9 DEF Next, TaskStep
<1> QED BY <1>1, <1>2, PTL DEF Spec

(* The screen tells the truth of the number of plans and of the files.     *)
THEOREM ScreenIsTruthful == Spec => []ScreenMatchesFiles
<1>1. ParseInv => ScreenMatchesFiles
  <2> SUFFICES ASSUME ParseInv PROVE ScreenMatchesFiles OBVIOUS
  <2>1. FilesReported /\ ResultTaken BY DEF ParseInv
  <2> QED BY <2>1 DEF ScreenMatchesFiles, TotalIsPlanCount, FilesReported, ResultTaken
<1> QED BY <1>1, ParseInductive, PTL

(* Whatever order files end and are reduced in, the batch path's groups.   *)
THEOREM ParallelIsBatch == Spec => []ResultsAreBatch
<1>1. ParseInv => ResultsAreBatch
  <2> SUFFICES ASSUME ParseInv PROVE ResultsAreBatch OBVIOUS
  <2> DEFINE batch == get_processed_queries(Kept)
             stamps == {Kept[i].timestamp : i \in DOMAIN Kept}
             d == calculate_date_range(batch)
  <2>1. /\ Kept \in Seq(Plans)
        /\ ResultTaken /\ AnalysisFollows
    BY KeptIsPlans DEF ParseInv
  <2>2. stamps = Stamps(Kept)
    <3>1. DOMAIN Kept = 1 .. Len(Kept) BY <2>1, LenProperties
    <3> QED BY <3>1 DEF Stamps
  <2>3. stamps = {} <=> Kept = <<>>
    <3>1. Kept # <<>> => 1 \in 1 .. Len(Kept)
      <4>1. Kept # <<>> => Len(Kept) \in Nat \ {0} BY <2>1, EmptySeq
      <4> QED BY <4>1
    <3>2. Kept # <<>> => Kept[1].timestamp \in Stamps(Kept) BY <3>1 DEF Stamps
    <3>3. Kept = <<>> => DOMAIN Kept = {} OBVIOUS
    <3>4. Kept = <<>> => stamps = {} BY <3>3
    <3> HIDE DEF stamps
    <3> QED BY <2>2, <3>2, <3>4
  <2>4. /\ Kept = <<>> => d = <<>>
        /\ Kept # <<>> => IsFirst(Kept, d[1]) /\ IsLast(Kept, d[2])
    BY <2>1, DatesOfBatch
  <2> HIDE DEF batch, stamps, d
  <2>5. IF stamps = {} THEN d = <<>>
        ELSE /\ d[1] \in stamps /\ d[2] \in stamps
             /\ \A t \in stamps : d[1] <= t /\ t <= d[2]
    BY <2>2, <2>3, <2>4 DEF IsFirst, IsLast
  <2>6. parsing_complete => grouped = batch /\ date_range = d
    BY <2>1 DEF ResultTaken, batch, d
  <2>7. screen = "results" => /\ results.groups = batch /\ results.annotated = Annotations
                              /\ results.date_range = d
    BY <2>1, <2>6 DEF AnalysisFollows, Analysed
  <2> QED BY <2>5, <2>6, <2>7 DEF ResultsAreBatch, batch, stamps
<1> QED BY <1>1, ParseInductive, PTL

-----------------------------------------------------------------------------
(* The scanners.  The symbols of which lines are made.                     *)
Symbols == Bytes \cup {"(cost=", "rows=", "width=", ")"}

(* Whatever lies outside a text is no symbol of it.                        *)
LEMMA AtFacts ==
  ASSUME NEW text \in Seq(Symbols), NEW i \in Int
  PROVE  /\ Len(text) \in Nat
         /\ i \in 1 .. Len(text) => At(text, i) = text[i] /\ text[i] \in Symbols
         /\ i \notin 1 .. Len(text) => At(text, i) = "end"
         /\ "end" \notin Symbols
<1>1. Len(text) \in Nat BY LenProperties
<1>2. \A n \in 1 .. Len(text) : text[n] \in Symbols
  <2> HIDE DEF Symbols
  <2> QED BY ElementOfSeq
<1>3. "end" \notin Symbols BY DEF Symbols, Bytes
<1> QED BY <1>1, <1>2, <1>3 DEF At

LEMMA SetMinFacts ==
  ASSUME NEW S \in SUBSET Nat, S # {}
  PROVE  SetMin(S) \in S /\ \A y \in S : SetMin(S) <= y
<1>1. PICK x \in S : \A y \in S : ~(<<y, x>> \in OpToRel(<, Nat))
  BY NatLessThanWellFounded, WFMin
<1>2. ASSUME NEW y \in S PROVE x <= y
  <2>1. x \in Nat /\ y \in Nat /\ ~(<<y, x>> \in OpToRel(<, Nat)) BY <1>1
  <2>2. ~(y < x) BY <2>1 DEF OpToRel
  <2>3. x \in Nat /\ y \in Nat OBVIOUS
  <2> QED BY <2>2, <2>3
<1> QED BY <1>2 DEF SetMin

LEMMA SetMinIs ==
  ASSUME NEW S \in SUBSET Nat, NEW x \in S, \A y \in S : x <= y
  PROVE  SetMin(S) = x
<1>1. SetMin(S) \in S /\ SetMin(S) <= x BY SetMinFacts
<1>2. x <= SetMin(S) /\ SetMin(S) \in Nat /\ x \in Nat BY <1>1
<1> QED BY <1>1, <1>2

LEMMA SetMaxIs ==
  ASSUME NEW S \in SUBSET Int, NEW x \in S, \A y \in S : y <= x
  PROVE  SetMax(S) = x
<1>1. SetMax(S) \in S /\ \A y \in S : y <= SetMax(S) BY DEF SetMax
<1>2. x <= SetMax(S) /\ SetMax(S) <= x /\ SetMax(S) \in Int /\ x \in Int BY <1>1
<1> QED BY <1>2

LEMMA SetMaxFacts ==
  ASSUME NEW a \in Int, NEW b \in Int, NEW S \in SUBSET (a .. b), S # {}
  PROVE  SetMax(S) \in S /\ \A y \in S : y <= SetMax(S)
<1> DEFINE T == {b - x : x \in S}
<1>1. T \in SUBSET Nat /\ T # {}
  <2>1. \A x \in S : b - x \in Nat OBVIOUS
  <2>2. PICK x \in S : TRUE OBVIOUS
  <2>3. b - x \in T OBVIOUS
  <2> QED BY <2>1, <2>3
<1>2. SetMin(T) \in T /\ \A y \in T : SetMin(T) <= y
  <2> HIDE DEF T
  <2> QED BY <1>1, SetMinFacts
<1>3. PICK x \in S : SetMin(T) = b - x BY <1>2
<1>4. \A y \in S : y <= x
  <2> SUFFICES ASSUME NEW y \in S PROVE y <= x OBVIOUS
  <2>1. b - y \in T OBVIOUS
  <2>2. b - x <= b - y BY <1>2, <1>3, <2>1
  <2> QED BY <2>2
<1>5. SetMax(S) = x BY <1>4, SetMaxIs
<1> QED BY <1>4, <1>5

(* Two windows of a block each see every byte of the date and time.        *)
LEMMA WindowsSeeAll ==
  ASSUME NEW core
  PROVE  /\ WindowsMatch(core) <=> \A i \in 1 .. TS_CORE_LEN : core[i] = TS_SHAPE[i]
         /\ WindowsHigh(core) <=> \E i \in 1 .. TS_CORE_LEN : core[i] = "h"
<1>1. /\ BLOCK \in Nat \ {0} /\ TS_CORE_LEN \in Nat
      /\ BLOCK <= TS_CORE_LEN /\ TS_CORE_LEN <= 2 * BLOCK
  BY BlockAssumption, ShapeAssumption, LenProperties DEF TS_CORE_LEN
<1>2. \A lane \in 1 .. BLOCK : /\ lane \in 1 .. TS_CORE_LEN /\ 0 + lane = lane
                               /\ TS_CORE_LEN - BLOCK + lane \in 1 .. TS_CORE_LEN
  BY <1>1
<1>3. \A i \in 1 .. TS_CORE_LEN :
        i \in 1 .. BLOCK \/ \E lane \in 1 .. BLOCK : i = TS_CORE_LEN - BLOCK + lane
  <2> SUFFICES ASSUME NEW i \in 1 .. TS_CORE_LEN, i \notin 1 .. BLOCK
               PROVE  \E lane \in 1 .. BLOCK : i = TS_CORE_LEN - BLOCK + lane
    OBVIOUS
  <2>1. i - (TS_CORE_LEN - BLOCK) \in 1 .. BLOCK
        /\ i = TS_CORE_LEN - BLOCK + (i - (TS_CORE_LEN - BLOCK))
    BY <1>1
  <2> QED BY <2>1
<1>4. WindowsMatch(core) <=> \A i \in 1 .. TS_CORE_LEN : core[i] = TS_SHAPE[i]
  <2>1. ASSUME \A i \in 1 .. TS_CORE_LEN : core[i] = TS_SHAPE[i]
        PROVE  WindowsMatch(core)
    BY <1>2, <2>1 DEF WindowsMatch, ts_window_matches
  <2>2. ASSUME WindowsMatch(core), NEW i \in 1 .. TS_CORE_LEN
        PROVE  core[i] = TS_SHAPE[i]
    BY <1>2, <1>3, <2>2 DEF WindowsMatch, ts_window_matches
  <2> QED BY <2>1, <2>2
<1>5. WindowsHigh(core) <=> \E i \in 1 .. TS_CORE_LEN : core[i] = "h"
  <2>1. ASSUME NEW i \in 1 .. TS_CORE_LEN, core[i] = "h" PROVE WindowsHigh(core)
    BY <1>3, <2>1 DEF WindowsHigh
  <2>2. ASSUME WindowsHigh(core) PROVE \E i \in 1 .. TS_CORE_LEN : core[i] = "h"
    BY <1>2, <2>2 DEF WindowsHigh
  <2> QED BY <2>1, <2>2
<1> QED BY <1>4, <1>5

(* The vector scan of the date and time is the byte-by-byte one.           *)
LEMMA CoreIsScalar ==
  ASSUME NEW text \in Seq(Symbols)
  PROVE  timestamp_core_simd(text) = timestamp_core_scalar(text)
<1>1. CASE Len(text) < TS_CORE_LEN
  BY <1>1 DEF timestamp_core_simd, timestamp_core_scalar
<1>2. CASE ~(Len(text) < TS_CORE_LEN)
  <2> DEFINE core == SubSeq(text, 1, TS_CORE_LEN)
  <2>1. TS_CORE_LEN \in Nat /\ Len(text) \in Nat /\ TS_CORE_LEN <= Len(text)
    <3>1. TS_CORE_LEN \in Nat BY ShapeAssumption, LenProperties DEF TS_CORE_LEN
    <3>2. Len(text) \in Nat BY LenProperties
    <3> QED BY <1>2, <3>1, <3>2
  <2>2. \A i \in 1 .. TS_CORE_LEN : text[i] \in Symbols
    BY <2>1, ElementOfSeq
  <2>3. \A i \in 1 .. TS_CORE_LEN : core[i] = text[i]
    <3>1. \A i \in 1 .. TS_CORE_LEN - 1 + 1 : core[i] = text[1 + i - 1]
      BY <2>1, <2>2, SubSeqProperties
    <3> HIDE DEF core
    <3> QED BY <2>1, <3>1
  <2> HIDE DEF core
  <2>4. /\ WindowsMatch(core) <=> \A i \in 1 .. TS_CORE_LEN : text[i] = TS_SHAPE[i]
        /\ WindowsHigh(core) <=> \E i \in 1 .. TS_CORE_LEN : text[i] = "h"
    BY <2>3, WindowsSeeAll
  <2>5. timestamp_core_simd(text) = ts_core_kernel(core)
    BY <1>2 DEF timestamp_core_simd, core
  <2> QED BY <1>2, <2>4, <2>5 DEF ts_core_kernel, timestamp_core_scalar
<1> QED BY <1>1, <1>2

(* What the expression sees of a text: some bytes beyond ASCII as digits.  *)
HighOf(text) == {i \in 1 .. Len(text) : text[i] = "h"}

LEMMA ReadFacts ==
  ASSUME NEW text \in Seq(Symbols), NEW high \in SUBSET HighOf(text)
  PROVE  /\ Read(text, high) \in Seq(Symbols)
         /\ Len(Read(text, high)) = Len(text)
         /\ \A i \in 1 .. Len(text) :
              /\ Read(text, high)[i] = IF i \in high THEN "d" ELSE text[i]
              /\ i \in high => text[i] = "h"
<1>1. Len(text) \in Nat BY LenProperties
<1>2. \A i \in 1 .. Len(text) : text[i] \in Symbols BY ElementOfSeq
<1>3. "d" \in Symbols BY DEF Symbols, Bytes
<1> HIDE DEF Symbols
<1> QED BY <1>1, <1>2, <1>3 DEF Read, HighOf

(* A run: bytes of the class up to its length, and another or the limit    *)
(* behind it.                                                              *)
LEMMA RunOfFacts ==
  ASSUME NEW text, NEW i \in Int, NEW class, NEW limit \in Nat
  PROVE  LET n == RunOf(text, i, class, limit)
         IN /\ n \in 0 .. limit
            /\ \A k \in 0 .. n - 1 : At(text, i + k) = class
            /\ n < limit => At(text, i + n) # class
<1> DEFINE S == {n \in 0 .. limit : \A k \in 0 .. n - 1 : At(text, i + k) = class}
           n == SetMax(S)
<1>1. S \in SUBSET (0 .. limit) /\ 0 \in S OBVIOUS
<1>2. n \in S /\ \A m \in S : m <= n
  <2>1. 0 \in Int /\ limit \in Int /\ S # {} BY <1>1
  <2> HIDE DEF S
  <2> QED BY <1>1, <2>1, SetMaxFacts
<1>3. RunOf(text, i, class, limit) = n BY DEF RunOf
<1>4. ASSUME n < limit, At(text, i + n) = class PROVE FALSE
  <2>1. n \in 0 .. limit /\ \A k \in 0 .. n - 1 : At(text, i + k) = class
    BY <1>2
  <2> HIDE DEF n
  <2>2. n + 1 \in 0 .. limit BY <1>4, <2>1
  <2>3. ASSUME NEW k \in 0 .. (n + 1) - 1 PROVE At(text, i + k) = class
    <3>1. k \in 0 .. n - 1 \/ k = n BY <2>1
    <3> QED BY <1>4, <2>1, <3>1
  <2>4. n + 1 \in S BY <2>2, <2>3
  <2>5. n + 1 <= n BY <1>2, <2>4
  <2> QED BY <2>1, <2>5
<1>5. n \in 0 .. limit /\ \A k \in 0 .. n - 1 : At(text, i + k) = class
  BY <1>2
<1> HIDE DEF n
<1> QED BY <1>3, <1>4, <1>5

LEMMA ShapeNumbers ==
  TS_CORE_LEN \in Nat \ {0} /\ BLOCK \in Nat \ {0} /\ MaxFraction \in Nat
    /\ MaxZone \in Nat
<1>1. TS_CORE_LEN \in Nat BY ShapeAssumption, LenProperties DEF TS_CORE_LEN
<1>2. BLOCK \in Nat \ {0} /\ BLOCK <= TS_CORE_LEN
  BY BlockAssumption, ShapeAssumption
<1>3. MaxFraction \in Nat /\ MaxZone \in Nat BY ShapeAssumption
<1> QED BY <1>1, <1>2, <1>3

(* Where the scan of the fraction is sure, it ends where the expression's  *)
(* does.                                                                   *)
LEMMA FractionAsByRegex ==
  ASSUME NEW text \in Seq(Symbols), NEW high \in SUBSET HighOf(text),
         TS_CORE_LEN <= Len(text), TailFraction(text, TS_CORE_LEN) # Unsure
  PROVE  LET f == SetMax(FractionEnds(Read(text, high)))
         IN /\ TailFraction(text, TS_CORE_LEN) = Match(f)
            /\ f \in TS_CORE_LEN .. Len(text)
<1> DEFINE t == Read(text, high)
           C == TS_CORE_LEN
           n == RunOf(text, C + 2, "d", MaxFraction)
           E == FractionEnds(t)
           L == Len(text)
<1>1. C \in Nat /\ L \in Nat /\ C <= L /\ MaxFraction \in Nat
  BY ShapeNumbers, LenProperties
<1>2. /\ Len(t) = L
      /\ \A i \in 1 .. L : /\ t[i] = "d" => text[i] = "d" \/ text[i] = "h"
                           /\ text[i] = "d" => t[i] = "d"
                           /\ t[i] = "." <=> text[i] = "."
  BY ReadFacts
<1>3. /\ n \in 0 .. MaxFraction
      /\ \A k \in 0 .. n - 1 : At(text, C + 2 + k) = "d"
      /\ n < MaxFraction => At(text, C + 2 + n) # "d"
  <2>1. C + 2 \in Int BY <1>1
  <2> QED BY <1>1, <2>1, RunOfFacts
<1>4. E = {C} \cup {e \in C + 2 .. L :
             /\ e - C - 1 <= MaxFraction
             /\ t[C + 1] = "." /\ \A i \in C + 2 .. e : t[i] = "d"}
  BY <1>2 DEF FractionEnds
<1>5. E \in SUBSET Int /\ C \in E BY <1>1, <1>4
<1>6. \A i \in Int : /\ i \in 1 .. L => At(text, i) = text[i]
                     /\ i \notin 1 .. L => At(text, i) = "end"
  BY AtFacts
<1> HIDE DEF t, n, E
<1>7. CASE At(text, C + 1) # "."
  <2>1. \A e \in E : e <= C
    <3> SUFFICES ASSUME NEW e \in E, e # C PROVE FALSE BY <1>1, <1>5
    <3>1. C + 1 \in 1 .. L /\ t[C + 1] = "." BY <1>1, <1>4
    <3> QED BY <1>1, <1>2, <1>6, <1>7, <3>1
  <2>2. SetMax(E) = C BY <1>5, <2>1, SetMaxIs
  <2>3. TailFraction(text, C) = Match(C) BY <1>7 DEF TailFraction
  <2> QED BY <1>1, <2>2, <2>3 DEF E, t
<1>8. CASE At(text, C + 1) = "."
  <2>1. ~(n < MaxFraction /\ At(text, C + 2 + n) = "h")
    BY <1>8 DEF TailFraction, n
  <2>2. TailFraction(text, C) = IF n >= 1 THEN Match(C + 1 + n) ELSE Match(C)
    BY <1>8, <2>1 DEF TailFraction, n
  <2>3. C + 1 \in 1 .. L /\ t[C + 1] = "." BY <1>1, <1>2, <1>6, <1>8
  <2>4. \A e \in E : e <= C + 1 + n
    <3> SUFFICES ASSUME NEW e \in E, ~(e <= C + 1 + n) PROVE FALSE OBVIOUS
    <3>1. /\ e \in C + 2 .. L /\ e - C - 1 <= MaxFraction
          /\ \A i \in C + 2 .. e : t[i] = "d"
      BY <1>1, <1>3, <1>4
    <3>2. C + 2 + n \in C + 2 .. e /\ C + 2 + n \in 1 .. L /\ n < MaxFraction
      BY <1>1, <1>3, <3>1
    <3>3. t[C + 2 + n] = "d" BY <3>1, <3>2
    <3>4. At(text, C + 2 + n) = "d" \/ At(text, C + 2 + n) = "h"
      BY <1>2, <1>6, <3>2, <3>3
    <3> QED BY <1>3, <2>1, <3>2, <3>4
  <2>5. CASE n >= 1
    <3>1. \A i \in C + 2 .. C + 1 + n : At(text, i) = "d"
      <4> SUFFICES ASSUME NEW i \in C + 2 .. C + 1 + n PROVE At(text, i) = "d"
        OBVIOUS
      <4>1. i - (C + 2) \in 0 .. n - 1 /\ C + 2 + (i - (C + 2)) = i
        BY <1>1, <1>3
      <4> QED BY <1>3, <4>1
    <3>2. \A i \in C + 2 .. C + 1 + n : i \in 1 .. L /\ t[i] = "d"
      BY <1>1, <1>2, <1>3, <1>6, <3>1
    <3>3. C + 1 + n \in C + 2 .. C + 1 + n BY <1>1, <1>3, <2>5
    <3>4. C + 1 + n \in C + 2 .. L BY <1>1, <1>3, <3>2, <3>3
    <3>5. C + 1 + n \in E BY <1>1, <1>3, <1>4, <2>3, <3>2, <3>4
    <3>6. SetMax(E) = C + 1 + n BY <1>5, <2>4, <3>5, SetMaxIs
    <3> QED BY <1>1, <2>2, <2>5, <3>4, <3>6 DEF E, t
  <2>6. CASE ~(n >= 1)
    <3>1. n = 0 BY <1>3, <2>6
    <3>2. \A e \in E : e <= C BY <1>1, <1>4, <2>4, <3>1
    <3>3. SetMax(E) = C BY <1>5, <3>2, SetMaxIs
    <3> QED BY <1>1, <2>2, <2>6, <3>3 DEF E, t
  <2> QED BY <2>5, <2>6
<1> QED BY <1>7, <1>8

(* Where the scan of the zone is sure, it ends where the expression's does.*)
LEMMA ZoneAsByRegex ==
  ASSUME NEW text \in Seq(Symbols), NEW high \in SUBSET HighOf(text),
         NEW off \in Nat, off <= Len(text), TailZone(text, off) # Unsure
  PROVE  TailZone(text, off) = Match(SetMax(ZoneEnds(Read(text, high), off)))
<1> DEFINE t == Read(text, high)
           L == Len(text)
           E == ZoneEnds(t, off)
           letters == RunOf(text, off + 2, "U", MaxZone)
           d1 == At(text, off + 3)
           d2 == At(text, off + 4)
           p == IF At(text, off + 5) = ":" THEN off + 6 ELSE off + 5
           x == At(text, p)
           y == At(text, p + 1)
           Letters(e) == e - off - 1 \in 2 .. MaxZone /\ \A i \in off + 2 .. e : t[i] = "U"
           Offset(e) ==
             \/ e = off + 4 /\ t[off + 3] = "d" /\ t[off + 4] = "d"
             \/ e = off + 6 /\ \A i \in off + 3 .. e : t[i] = "d"
             \/ e = off + 7 /\ t[off + 5] = ":"
                /\ \A i \in {off + 3, off + 4, off + 6, off + 7} : t[i] = "d"
           A == {e \in off + 3 .. L : Letters(e)}
           B == {e \in off + 3 .. L : Offset(e)}
<1>1. L \in Nat /\ MaxZone \in Nat BY ShapeNumbers, LenProperties
<1>2. /\ Len(t) = L
      /\ \A i \in 1 .. L :
           /\ t[i] = "d" => text[i] = "d" \/ text[i] = "h"
           /\ text[i] = "d" => t[i] = "d"
           /\ t[i] = " " <=> text[i] = " "
           /\ t[i] = "U" <=> text[i] = "U"
           /\ t[i] = "+" <=> text[i] = "+"
           /\ t[i] = ":" <=> text[i] = ":"
  <2>1. /\ Len(t) = L
        /\ \A i \in 1 .. L : /\ t[i] = IF i \in high THEN "d" ELSE text[i]
                             /\ i \in high => text[i] = "h"
    BY ReadFacts
  <2> HIDE DEF t
  <2> QED BY <2>1
<1>3. /\ letters \in 0 .. MaxZone
      /\ \A k \in 0 .. letters - 1 : At(text, off + 2 + k) = "U"
      /\ letters < MaxZone => At(text, off + 2 + letters) # "U"
  <2>1. off + 2 \in Int OBVIOUS
  <2> QED BY <1>1, <2>1, RunOfFacts
<1>4. E = {off} \cup {e \in A : t[off + 1] = " "}
              \cup {e \in B : t[off + 1] = " " /\ t[off + 2] = "+"}
  <2>1. E = {off} \cup {e \in off + 3 .. L :
               t[off + 1] = " " /\ (Letters(e) \/ (t[off + 2] = "+" /\ Offset(e)))}
    BY <1>2, Zenon DEF ZoneEnds
  <2> HIDE DEF E, Letters, Offset
  <2> QED BY <2>1, Zenon
<1>5. E \in SUBSET Int /\ off \in E /\ A \in SUBSET (off + 3 .. L)
      /\ B \in SUBSET (off + 3 .. L)
  <2>1. A \in SUBSET (off + 3 .. L) /\ B \in SUBSET (off + 3 .. L) OBVIOUS
  <2>2. off \in Int /\ off + 3 .. L \subseteq Int BY <1>1
  <2> HIDE DEF A, B, E
  <2>3. \A e \in E : e = off \/ e \in A \/ e \in B BY <1>4
  <2>4. off \in E BY <1>4
  <2> QED BY <2>1, <2>2, <2>3, <2>4
<1>6. \A i \in Int : /\ i \in 1 .. L => At(text, i) = text[i] /\ At(text, i) # "end"
                     /\ i \notin 1 .. L => At(text, i) = "end"
  BY AtFacts
<1>7. \A i \in 1 .. L :
        /\ t[i] = " " <=> At(text, i) = " "
        /\ t[i] = "U" <=> At(text, i) = "U"
        /\ t[i] = "+" <=> At(text, i) = "+"
        /\ t[i] = ":" <=> At(text, i) = ":"
  <2> SUFFICES ASSUME NEW i \in 1 .. L
               PROVE  /\ t[i] = " " <=> At(text, i) = " "
                      /\ t[i] = "U" <=> At(text, i) = "U"
                      /\ t[i] = "+" <=> At(text, i) = "+"
                      /\ t[i] = ":" <=> At(text, i) = ":"
    OBVIOUS
  <2>1. At(text, i) = text[i] BY <1>1, <1>6
  <2> HIDE DEF t
  <2> QED BY <1>2, <2>1
<1>8. \A i \in 1 .. L : t[i] = "d" => At(text, i) \in {"d", "h"}
  <2> SUFFICES ASSUME NEW i \in 1 .. L, t[i] = "d"
               PROVE  At(text, i) \in {"d", "h"}
    OBVIOUS
  <2>1. At(text, i) = text[i] BY <1>1, <1>6
  <2> HIDE DEF t
  <2> QED BY <1>2, <2>1
<1>9. \A i \in Int : At(text, i) = "d" => i \in 1 .. L /\ t[i] = "d"
  BY <1>2, <1>6
<1> HIDE DEF t, E, letters, A, B
(* Nothing but off, when no alternative reaches further.                   *)
<1>10. ASSUME ~(t[off + 1] = " " /\ A # {}),
              ~(t[off + 1] = " " /\ t[off + 2] = "+" /\ B # {})
       PROVE  SetMax(E) = off
  <2>1. \A e \in E : e = off BY <1>4, <1>10
  <2>2. \A e \in E : e <= off BY <2>1
  <2> QED BY <1>5, <2>2, SetMaxIs
<1>11. ASSUME t[off + 1] = " ", t[off + 2] = "+" \/ A # {},
              NEW S, S = IF t[off + 2] = "+" THEN A \cup B ELSE A,
              NEW m \in S, \A e \in S : e <= m
       PROVE  SetMax(E) = m
  <2>1. E = {off} \cup S BY <1>4, <1>11
  <2>2. m \in off + 3 .. L BY <1>5, <1>11
  <2>3. off <= m BY <1>1, <2>2
  <2>4. \A e \in E : e <= m BY <1>11, <2>1, <2>3
  <2> QED BY <1>5, <2>1, <2>4, SetMaxIs
<1>12. CASE At(text, off + 1) # " "
  <2>1. TailZone(text, off) = Match(off) BY <1>12 DEF TailZone
  <2>2. ASSUME NEW e \in off + 3 .. L PROVE t[off + 1] # " "
    <3>1. off + 1 \in 1 .. L BY <1>1
    <3> QED BY <1>7, <1>12, <3>1
  <2>3. SetMax(E) = off BY <1>5, <1>10, <2>2
  <2> QED BY <2>1, <2>3 DEF E, t
<1>13. CASE At(text, off + 1) = " " /\ At(text, off + 2) = "U"
  <2>1. TailZone(text, off) = Match(IF letters >= 2 THEN off + 1 + letters ELSE off)
    BY <1>13 DEF TailZone, letters
  <2>2. off + 1 \in 1 .. L /\ off + 2 \in 1 .. L /\ t[off + 1] = " " /\ t[off + 2] # "+"
    <3>1. At(text, off + 1) # "end" /\ At(text, off + 2) # "end" BY <1>13
    <3>2. off + 1 \in 1 .. L /\ off + 2 \in 1 .. L BY <1>6, <3>1
    <3>3. t[off + 1] = " " /\ At(text, off + 2) # "+" BY <1>7, <1>13, <3>2
    <3> QED BY <1>7, <3>2, <3>3
  <2>3. ASSUME NEW e \in off + 3 .. L, Letters(e) PROVE e <= off + 1 + letters
    <3> SUFFICES ASSUME e > off + 1 + letters PROVE FALSE BY <1>3
    <3>1. off + 2 + letters \in off + 2 .. e /\ off + 2 + letters \in 1 .. L
          /\ letters < MaxZone
      BY <1>1, <1>3, <2>3
    <3>2. At(text, off + 2 + letters) = "U" BY <1>7, <2>3, <3>1
    <3> QED BY <1>3, <3>1, <3>2
  <2>4. CASE letters >= 2
    <3>1. \A i \in off + 2 .. off + 1 + letters : At(text, i) = "U"
      <4> SUFFICES ASSUME NEW i \in off + 2 .. off + 1 + letters
                   PROVE  At(text, i) = "U"
        OBVIOUS
      <4>1. i - (off + 2) \in 0 .. letters - 1 /\ off + 2 + (i - (off + 2)) = i
        BY <1>3
      <4> QED BY <1>3, <4>1
    <3>2. \A i \in off + 2 .. off + 1 + letters : i \in 1 .. L /\ t[i] = "U"
      <4> SUFFICES ASSUME NEW i \in off + 2 .. off + 1 + letters
                   PROVE  i \in 1 .. L /\ t[i] = "U"
        OBVIOUS
      <4>1. i \in Int /\ At(text, i) = "U" BY <1>3, <3>1
      <4>2. i \in 1 .. L BY <1>6, <4>1
      <4> QED BY <1>7, <4>1, <4>2
    <3>3. off + 1 + letters \in off + 2 .. off + 1 + letters BY <1>3, <2>4
    <3>4. off + 1 + letters \in off + 3 .. L BY <1>3, <2>4, <3>2, <3>3
    <3>5. Letters(off + 1 + letters) BY <1>1, <1>3, <2>4, <3>2
    <3>6. off + 1 + letters \in A /\ \A e \in A : e <= off + 1 + letters
      BY <2>3, <3>4, <3>5 DEF A
    <3>7. SetMax(E) = off + 1 + letters BY <1>11, <2>2, <3>6
    <3> QED BY <2>1, <2>4, <3>7 DEF E, t
  <2>5. CASE ~(letters >= 2)
    <3>1. A = {}
      <4> SUFFICES ASSUME NEW e \in A PROVE FALSE OBVIOUS
      <4>1. e \in off + 3 .. L /\ Letters(e) BY DEF A
      <4>2. e <= off + 1 + letters BY <2>3, <4>1
      <4> QED BY <1>3, <2>5, <4>1, <4>2
    <3>2. SetMax(E) = off BY <1>10, <2>2, <3>1
    <3> QED BY <2>1, <2>5, <3>2 DEF E, t
  <2> QED BY <2>4, <2>5
<1>14. ASSUME At(text, off + 2) # "U" PROVE A = {}
  <2> SUFFICES ASSUME NEW e \in A PROVE FALSE OBVIOUS
  <2>1. e \in off + 3 .. L /\ Letters(e) BY DEF A
  <2>2. off + 2 \in off + 2 .. e /\ off + 2 \in 1 .. L BY <1>1, <2>1
  <2>3. t[off + 2] = "U" BY <2>1, <2>2
  <2> QED BY <1>7, <1>14, <2>2, <2>3
<1>15. CASE /\ At(text, off + 1) = " " /\ At(text, off + 2) # "U"
            /\ At(text, off + 2) # "+" \/ d1 = "end" \/ d2 = "end"
  <2>1. TailZone(text, off) = Match(off) BY <1>15 DEF TailZone
  <2>2. ASSUME NEW e \in B, t[off + 2] = "+" PROVE FALSE
    <3>0. e \in off + 3 .. L /\ Offset(e) BY DEF B
    <3>1. off + 2 \in 1 .. L /\ e >= off + 4 BY <1>1, <3>0
    <3>2. At(text, off + 2) = "+" BY <1>7, <2>2, <3>1
    <3>3. off + 3 \in 1 .. L /\ off + 4 \in 1 .. L BY <1>1, <3>0, <3>1
    <3>4. d1 # "end" /\ d2 # "end" BY <1>6, <3>3
    <3> QED BY <1>15, <3>2, <3>4
  <2>3. SetMax(E) = off BY <1>10, <1>14, <1>15, <2>2
  <2> QED BY <2>1, <2>3 DEF E, t
<1>16. CASE /\ At(text, off + 1) = " " /\ At(text, off + 2) = "+"
            /\ d1 # "end" /\ d2 # "end"
  <2>1. off + 1 \in 1 .. L /\ off + 2 \in 1 .. L /\ off + 3 \in 1 .. L
        /\ off + 4 \in 1 .. L /\ t[off + 1] = " " /\ t[off + 2] = "+"
    <3>1. /\ At(text, off + 1) # "end" /\ At(text, off + 2) # "end"
          /\ At(text, off + 3) # "end" /\ At(text, off + 4) # "end"
      BY <1>16
    <3>2. /\ off + 1 \in 1 .. L /\ off + 2 \in 1 .. L /\ off + 3 \in 1 .. L
          /\ off + 4 \in 1 .. L
      BY <1>6, <3>1
    <3> QED BY <1>7, <1>16, <3>2
  <2>2. A = {} BY <1>14, <1>16
  <2>3. ~("h" \in {d1, d2}) BY <1>16 DEF TailZone
  <2>4. CASE {d1, d2} # {"d"}
    <3>1. TailZone(text, off) = Match(off) BY <1>16, <2>3, <2>4 DEF TailZone
    <3>2. ~(t[off + 3] = "d" /\ t[off + 4] = "d")
      <4> SUFFICES ASSUME t[off + 3] = "d", t[off + 4] = "d" PROVE FALSE OBVIOUS
      <4>1. d1 \in {"d", "h"} /\ d2 \in {"d", "h"} BY <1>8, <2>1
      <4>2. d1 = "d" /\ d2 = "d" BY <2>3, <4>1
      <4> QED BY <2>4, <4>2
    <3>3. B = {}
      <4> SUFFICES ASSUME NEW e \in B PROVE FALSE OBVIOUS
      <4>1. e \in off + 3 .. L /\ Offset(e) BY DEF B
      <4>2. t[off + 3] = "d" /\ t[off + 4] = "d" BY <4>1
      <4> QED BY <3>2, <4>2
    <3>4. SetMax(E) = off BY <1>10, <2>2, <3>3
    <3> QED BY <3>1, <3>4 DEF E, t
  <2>5. CASE {d1, d2} = {"d"}
    <3>1. d1 = "d" /\ d2 = "d" BY <2>5
    <3>2. t[off + 3] = "d" /\ t[off + 4] = "d" BY <1>9, <3>1
    <3>3. ~(x # "end" /\ y # "end" /\ "h" \in {x, y})
      BY <1>16, <2>3, <2>5 DEF TailZone
    <3>4. TailZone(text, off) = IF {x, y} = {"d"} THEN Match(p + 1) ELSE Match(off + 4)
      BY <1>16, <2>3, <2>5, <3>3 DEF TailZone
    <3>5. p \in Nat /\ p + 1 \in Nat OBVIOUS
    <3>6. ASSUME NEW e \in B, e # off + 4
          PROVE  e = p + 1 /\ x = "d" /\ y = "d"
      <4>0. e \in off + 3 .. L /\ Offset(e) BY DEF B
      <4>1. CASE e = off + 6 /\ \A i \in off + 3 .. e : t[i] = "d"
        <5>1. t[off + 5] = "d" /\ t[off + 6] = "d" /\ off + 5 \in 1 .. L
              /\ off + 6 \in 1 .. L
          BY <1>1, <4>0, <4>1
        <5>2. At(text, off + 5) \in {"d", "h"} /\ At(text, off + 6) \in {"d", "h"}
          BY <1>8, <5>1
        <5>3. p = off + 5 BY <5>2
        <5>4. x \in {"d", "h"} /\ y \in {"d", "h"} BY <5>2, <5>3
        <5> QED BY <3>3, <4>1, <5>3, <5>4
      <4>2. CASE e = off + 7 /\ t[off + 5] = ":"
                 /\ \A i \in {off + 3, off + 4, off + 6, off + 7} : t[i] = "d"
        <5>1. off + 5 \in 1 .. L /\ off + 6 \in 1 .. L /\ off + 7 \in 1 .. L
          BY <1>1, <4>0, <4>2
        <5>2. At(text, off + 5) = ":" BY <1>7, <4>2, <5>1
        <5>3. At(text, off + 6) \in {"d", "h"} /\ At(text, off + 7) \in {"d", "h"}
          BY <1>8, <4>2, <5>1
        <5>4. p = off + 6 BY <5>2
        <5>5. x \in {"d", "h"} /\ y \in {"d", "h"} BY <5>3, <5>4
        <5> QED BY <3>3, <4>2, <5>4, <5>5
      <4> QED BY <3>6, <4>0, <4>1, <4>2
    <3>7. CASE {x, y} = {"d"}
      <4>1. x = "d" /\ y = "d"
        <5> HIDE DEF x, y
        <5> QED BY <3>7
      <4>2. /\ p \in 1 .. L /\ t[p] = "d" /\ p + 1 \in 1 .. L /\ t[p + 1] = "d"
        BY <1>9, <3>5, <4>1
      <4>3. Offset(p + 1) /\ p + 1 \in off + 3 .. L
        <5>1. CASE At(text, off + 5) = ":"
          <6>1. p = off + 6 BY <5>1
          <6>2. off + 5 \in 1 .. L BY <4>2, <6>1
          <6>3. t[off + 5] = ":"
            <7> HIDE DEF p
            <7> QED BY <1>7, <5>1, <6>2
          <6> QED BY <3>2, <4>2, <6>1, <6>3
        <5>2. CASE At(text, off + 5) # ":"
          <6>1. p = off + 5 BY <5>2
          <6>2. \A i \in off + 3 .. off + 6 :
                  i = off + 3 \/ i = off + 4 \/ i = off + 5 \/ i = off + 6
            OBVIOUS
          <6>3. t[off + 5] = "d" /\ t[off + 6] = "d" /\ p + 1 = off + 6
            BY <4>2, <6>1
          <6>4. \A i \in off + 3 .. off + 6 : t[i] = "d" BY <3>2, <6>2, <6>3
          <6> QED BY <4>2, <6>1, <6>3, <6>4
        <5> QED BY <5>1, <5>2
      <4>4. p + 1 \in B BY <4>3 DEF B
      <4>5. \A e \in B : e <= p + 1
        <5> SUFFICES ASSUME NEW e \in B PROVE e <= p + 1 OBVIOUS
        <5>1. CASE e = off + 4 BY <5>1
        <5>2. CASE e # off + 4 BY <3>5, <3>6, <5>2
        <5> QED BY <5>1, <5>2
      <4>6. SetMax(E) = p + 1
        <5> HIDE DEF p
        <5> QED BY <1>11, <2>1, <2>2, <4>4, <4>5
      <4> QED BY <3>4, <3>7, <4>6 DEF E, t
    <3>8. CASE {x, y} # {"d"}
      <4>1. off + 4 \in off + 3 .. L
        <5>1. off + 4 \in 1 .. L BY <2>1
        <5> QED BY <1>1, <5>1
      <4>2. off + 4 \in B BY <3>2, <4>1 DEF B
      <4>3. ~(x = "d" /\ y = "d")
        <5> HIDE DEF x, y
        <5> QED BY <3>8
      <4>4. \A e \in B : e <= off + 4
        <5> SUFFICES ASSUME NEW e \in B, e # off + 4 PROVE FALSE OBVIOUS
        <5> QED BY <3>6, <4>3
      <4>5. SetMax(E) = off + 4 BY <1>11, <2>1, <2>2, <4>2, <4>4
      <4> QED BY <3>4, <3>8, <4>5 DEF E, t
    <3> QED BY <3>7, <3>8
  <2> QED BY <2>4, <2>5
<1> QED BY <1>12, <1>13, <1>15, <1>16

(* Of no line does the scan of the time stamp say anything but what the    *)
(* expression says, whichever bytes beyond ASCII are digits for it.        *)
LEMMA LineStartAsByRegex ==
  ASSUME NEW text \in Seq(Symbols), NEW high \in SUBSET HighOf(text)
  PROVE  split_log_line(text, high) = LOG_LINE_PATTERN(Read(text, high))
<1> DEFINE t == Read(text, high)
           C == TS_CORE_LEN
           L == Len(text)
<1>1. C \in Nat \ {0} /\ L \in Nat BY ShapeNumbers, LenProperties
<1>2. /\ Len(t) = L
      /\ \A i \in 1 .. L : /\ t[i] = IF i \in high THEN "d" ELSE text[i]
                           /\ i \in high => text[i] = "h"
  BY ReadFacts
<1> HIDE DEF t
<1>3. TS_SHAPE[1] = "d" /\ 1 \in 1 .. C
  <2>1. TS_SHAPE[1] = "d" BY ShapeAssumption, Zenon
  <2> QED BY <1>1, <2>1
<1>4. CASE text = <<>> \/ (text[1] # "h" /\ text[1] # "d")
  <2>1. split_log_line(text, high) = NoMatch BY <1>4 DEF split_log_line
  <2>2. ~(L >= C /\ \A i \in 1 .. C : t[i] = TS_SHAPE[i])
    <3> SUFFICES ASSUME L >= C, t[1] = TS_SHAPE[1] PROVE FALSE BY <1>3
    <3>1. 1 \in 1 .. L BY <1>1
    <3>2. text # <<>> BY <3>1
    <3>3. t[1] = "d" => text[1] = "h" \/ text[1] = "d" BY <1>2, <3>1
    <3> QED BY <1>3, <1>4, <3>2, <3>3
  <2> QED BY <1>2, <2>1, <2>2 DEF LOG_LINE_PATTERN, t
<1>5. CASE ~(text = <<>> \/ (text[1] # "h" /\ text[1] # "d"))
  <2>1. split_log_line(text, high)
          = IF timestamp_prefix_len_simd(text) = Unsure THEN LOG_LINE_PATTERN(t)
            ELSE timestamp_prefix_len_simd(text)
    BY <1>5 DEF split_log_line, t
  <2>2. SUFFICES ASSUME timestamp_prefix_len_simd(text) # Unsure
                 PROVE  timestamp_prefix_len_simd(text) = LOG_LINE_PATTERN(t)
    BY <2>1 DEF t
  <2>3. timestamp_core_simd(text) = timestamp_core_scalar(text)
    BY CoreIsScalar
  <2>4. NoMatch # Match(C) /\ Unsure # Match(C) /\ NoMatch # Unsure
    BY <1>1 DEF NoMatch, Match, Unsure
  <2>5. CASE timestamp_core_simd(text) # Match(C)
    <3>1. timestamp_prefix_len_simd(text) = timestamp_core_scalar(text)
      BY <2>3, <2>5 DEF timestamp_prefix_len_simd
    <3>2. CASE L < C
      <4>1. LOG_LINE_PATTERN(t) = NoMatch
        BY <1>1, <1>2, <3>2 DEF LOG_LINE_PATTERN
      <4> QED BY <3>1, <3>2, <4>1 DEF timestamp_core_scalar
    <3>3. CASE ~(L < C)
      <4>1. ~\E i \in 1 .. C : text[i] = "h"
        BY <2>2, <3>1, <3>3 DEF timestamp_core_scalar
      <4>2. ~\A i \in 1 .. C : text[i] = TS_SHAPE[i]
        BY <2>3, <2>5, <3>3, <4>1 DEF timestamp_core_scalar
      <4>3. timestamp_core_scalar(text) = NoMatch
        BY <3>3, <4>1, <4>2 DEF timestamp_core_scalar
      <4>4. \A i \in 1 .. C : i \in 1 .. L BY <1>1, <3>3
      <4>5. \A i \in 1 .. C : t[i] = text[i] BY <1>2, <4>1, <4>4
      <4>6. LOG_LINE_PATTERN(t) = NoMatch BY <4>2, <4>5 DEF LOG_LINE_PATTERN
      <4> QED BY <3>1, <4>3, <4>6
    <3> QED BY <3>2, <3>3
  <2>6. CASE timestamp_core_simd(text) = Match(C)
    <3>1. timestamp_prefix_len_simd(text) = timestamp_tail(text)
      BY <2>6 DEF timestamp_prefix_len_simd
    <3>2. /\ L >= C /\ ~\E i \in 1 .. C : text[i] = "h"
          /\ \A i \in 1 .. C : text[i] = TS_SHAPE[i]
      BY <1>1, <2>3, <2>4, <2>6 DEF timestamp_core_scalar
    <3>3. \A i \in 1 .. C : t[i] = TS_SHAPE[i]
      <4>1. \A i \in 1 .. C : i \in 1 .. L BY <1>1, <3>2
      <4> QED BY <1>2, <3>2, <4>1
    <3>4. LOG_LINE_PATTERN(t) = Match(RegexTail(t))
      BY <1>2, <3>2, <3>3 DEF LOG_LINE_PATTERN
    <3>5. TailFraction(text, C) # Unsure
      BY <2>2, <3>1 DEF timestamp_tail
    <3> DEFINE f == SetMax(FractionEnds(t))
    <3>6. TailFraction(text, C) = Match(f) /\ f \in C .. L
      BY <1>1, <3>2, <3>5, FractionAsByRegex DEF t
    <3>7. timestamp_tail(text) = TailZone(text, f)
      <4>1. Match(f)[1] = f BY DEF Match
      <4> QED BY <3>5, <3>6, <4>1 DEF timestamp_tail
    <3>8. f \in Nat /\ f <= L BY <1>1, <3>6
    <3>9. TailZone(text, f) # Unsure BY <2>2, <3>1, <3>7
    <3> HIDE DEF f
    <3>10. TailZone(text, f) = Match(SetMax(ZoneEnds(t, f)))
      BY <3>8, <3>9, ZoneAsByRegex DEF t
    <3> QED BY <3>1, <3>4, <3>7, <3>10 DEF RegexTail, f
  <2> QED BY <2>5, <2>6
<1> QED BY <1>4, <1>5

-----------------------------------------------------------------------------
(* Two functions that stop at the same places with the same values, and    *)
(* else follow the same way forward, are one.                              *)
GoesForward(n, stop, next) ==
  \A o \in 0 .. n : o \in stop \/ next[o] \in o + 1 .. n

Follows(f, n, stop, value, next) ==
  \A o \in 0 .. n : f[o] = IF o \in stop THEN value[o] ELSE f[next[o]]

LEMMA OneSolution ==
  ASSUME NEW n \in Nat, NEW stop, NEW value, NEW next, NEW f, NEW g,
         GoesForward(n, stop, next), Follows(f, n, stop, value, next),
         Follows(g, n, stop, value, next)
  PROVE  \A o \in 0 .. n : f[o] = g[o]
<1> DEFINE Bad == {n - o : o \in {p \in 0 .. n : f[p] # g[p]}}
<1>1. SUFFICES ASSUME NEW o \in 0 .. n, f[o] # g[o] PROVE FALSE OBVIOUS
<1>2. Bad \in SUBSET Nat /\ Bad # {}
  <2>1. \A p \in 0 .. n : n - p \in Nat OBVIOUS
  <2>2. n - o \in Bad BY <1>1
  <2> QED BY <2>1, <2>2
<1>3. SetMin(Bad) \in Bad /\ \A b \in Bad : SetMin(Bad) <= b
  <2> HIDE DEF Bad
  <2> QED BY <1>2, SetMinFacts
<1>4. PICK p \in 0 .. n : f[p] # g[p] /\ SetMin(Bad) = n - p BY <1>3
<1>5. p \notin stop BY <1>4 DEF Follows
<1>6. next[p] \in p + 1 .. n BY <1>5 DEF GoesForward
<1>7. next[p] \in 0 .. n /\ f[next[p]] # g[next[p]]
  BY <1>4, <1>5, <1>6 DEF Follows
<1>8. n - next[p] \in Bad BY <1>7
<1>9. n - p <= n - next[p]
  <2> HIDE DEF Bad
  <2> QED BY <1>3, <1>4, <1>8
<1> QED BY <1>6, <1>9

-----------------------------------------------------------------------------
(* Leading white space: what the byte-by-byte scan says from a place on.   *)
Others(text, o) == {i \in o + 1 .. Len(text) : text[i] # " "}

SpaceFrom(text, o) ==
  IF Others(text, o) = {} THEN Match(Len(text))
  ELSE FirstOther(text, SetMin(Others(text, o)))

(* The kernel by its definition: the function chosen, from the start.      *)
RestOfLine(text, offset) ==
  LET rest == leading_whitespace_scalar(SubSeq(text, offset + 1, Len(text)))
  IN IF rest = Unsure THEN Unsure ELSE Match(offset + rest[1])

BlockOthers(text, offset) == {lane \in 1 .. BLOCK : text[offset + lane] # " "}

IsWsBlocks(b, text) ==
  b = [offset \in 0 .. Len(text) |->
         IF offset + BLOCK > Len(text)
         THEN RestOfLine(text, offset)
         ELSE IF BlockOthers(text, offset) # {}
              THEN FirstOther(text, offset + SetMin(BlockOthers(text, offset)))
              ELSE IF offset + BLOCK < Len(text) /\ offset + BLOCK + BLOCK > Len(text)
                   THEN b[Len(text) - BLOCK] ELSE b[offset + BLOCK]]

LEMMA WsKernelUnfolds ==
  ASSUME NEW text
  PROVE  leading_ws_kernel(text) = (CHOOSE b : IsWsBlocks(b, text))[0]
BY Zenon DEF leading_ws_kernel, IsWsBlocks, RestOfLine, BlockOthers

(* The rest of a line, read byte by byte.                                  *)
LEMMA RestIsSpaceFrom ==
  ASSUME NEW text \in Seq(Symbols), NEW o \in 0 .. Len(text)
  PROVE  RestOfLine(text, o) = SpaceFrom(text, o)
<1> DEFINE L == Len(text)
           s == SubSeq(text, o + 1, L)
           S == {i \in 1 .. Len(s) : s[i] # " "}
           T == Others(text, o)
<1>1. L \in Nat /\ o \in Nat /\ o <= L BY LenProperties
<1>2. \A i \in o + 1 .. L : text[i] \in Symbols
  <2>1. \A i \in 1 .. L : text[i] \in Symbols BY ElementOfSeq
  <2> QED BY <1>1, <2>1
<1>3. Len(s) = L - o /\ \A i \in 1 .. L - o : s[i] = text[o + i]
  <2>1. o + 1 \in Int /\ L \in Int BY <1>1
  <2>2. /\ Len(s) = IF o + 1 <= L THEN L - (o + 1) + 1 ELSE 0
        /\ \A i \in 1 .. L - (o + 1) + 1 : s[i] = text[(o + 1) + i - 1]
    BY <1>2, <2>1, SubSeqProperties
  <2> HIDE DEF s
  <2> QED BY <1>1, <2>2
<1> HIDE DEF s
<1>4. \A i \in 1 .. L - o : i \in S <=> o + i \in T
  <2> SUFFICES ASSUME NEW i \in 1 .. L - o PROVE i \in S <=> o + i \in T OBVIOUS
  <2>1. i \in 1 .. Len(s) /\ s[i] = text[o + i] BY <1>3
  <2>2. o + i \in o + 1 .. L BY <1>1
  <2> HIDE DEF L
  <2> QED BY <2>1, <2>2 DEF Others, L
<1>5. S \in SUBSET (1 .. L - o) /\ T \in SUBSET (o + 1 .. L)
  BY <1>3 DEF Others
<1>6. \A j \in T : j - o \in S /\ o + (j - o) = j
  <2> SUFFICES ASSUME NEW j \in T PROVE j - o \in S /\ o + (j - o) = j OBVIOUS
  <2>1. j \in o + 1 .. L BY <1>5
  <2>2. j - o \in 1 .. L - o /\ o + (j - o) = j BY <1>1, <2>1
  <2> QED BY <1>4, <2>2
<1> DEFINE r == leading_whitespace_scalar(s)
<1>7. RestOfLine(text, o) = IF r = Unsure THEN Unsure ELSE Match(o + r[1])
  BY DEF RestOfLine, s
<1>8. CASE T = {}
  <2>1. S = {} BY <1>4, <1>5, <1>8
  <2>2. r = Match(L - o) BY <1>3, <2>1 DEF leading_whitespace_scalar
  <2>3. r # Unsure /\ r[1] = L - o BY <1>1, <2>2 DEF Match, Unsure
  <2>4. o + (L - o) = L BY <1>1
  <2> QED BY <1>7, <1>8, <2>3, <2>4 DEF SpaceFrom
<1>9. CASE T # {}
  <2>1. S # {} BY <1>6, <1>9
  <2> DEFINE m == SetMin(S)
  <2>2. m \in S /\ \A y \in S : m <= y
    <3>1. S \in SUBSET Nat
      <4> HIDE DEF S, T
      <4>1. 1 .. L - o \subseteq Nat BY <1>1
      <4> QED BY <1>5, <4>1
    <3> HIDE DEF S
    <3> QED BY <2>1, <3>1, SetMinFacts
  <2>3. m \in 1 .. L - o BY <1>5, <2>2
  <2> HIDE DEF m, S
  <2>4. o + m \in T BY <1>4, <2>2, <2>3
  <2>5. \A j \in T : o + m <= j
    <3> SUFFICES ASSUME NEW j \in T PROVE o + m <= j OBVIOUS
    <3>1. m <= j - o /\ j \in Int BY <1>1, <1>5, <1>6, <2>2
    <3> QED BY <1>1, <2>3, <3>1
  <2>6. SetMin(T) = o + m
    <3>1. T \in SUBSET Nat BY <1>1, <1>5
    <3> HIDE DEF T
    <3> QED BY <2>4, <2>5, <3>1, SetMinIs
  <2>7. r = FirstOther(s, m)
    BY <2>1 DEF leading_whitespace_scalar, S, m
  <2>8. s[m] = text[o + m] BY <1>3, <2>3
  <2>9. SpaceFrom(text, o) = FirstOther(text, o + m)
    BY <1>9, <2>6 DEF SpaceFrom
  <2>10. CASE text[o + m] = "h"
    BY <1>7, <2>7, <2>8, <2>9, <2>10 DEF FirstOther
  <2>11. CASE text[o + m] # "h"
    <3>1. r = Match(m - 1) BY <2>7, <2>8, <2>11 DEF FirstOther
    <3>2. r # Unsure /\ r[1] = m - 1 BY <2>3, <3>1 DEF Match, Unsure
    <3>3. o + (m - 1) = (o + m) - 1 BY <1>1, <2>3
    <3>4. SpaceFrom(text, o) = Match((o + m) - 1)
      BY <2>9, <2>11, Zenon DEF FirstOther
    <3>5. RestOfLine(text, o) = Match(o + (m - 1)) BY <1>7, <3>2
    <3> QED BY <3>3, <3>4, <3>5
  <2> QED BY <2>10, <2>11
<1> QED BY <1>8, <1>9

(* A block without another byte leaves what follows it, wherever the next  *)
(* block starts within it or behind.                                       *)
LEMMA SpaceGoesOn ==
  ASSUME NEW text \in Seq(Symbols), NEW o \in 0 .. Len(text),
         o + BLOCK <= Len(text), BlockOthers(text, o) = {},
         NEW p \in o .. o + BLOCK
  PROVE  SpaceFrom(text, p) = SpaceFrom(text, o)
<1>1. Len(text) \in Nat /\ BLOCK \in Nat /\ o \in Nat
  BY LenProperties, BlockAssumption
<1>2. \A i \in o + 1 .. o + BLOCK : text[i] = " "
  <2>1. SUFFICES ASSUME NEW i \in o + 1 .. o + BLOCK, text[i] # " " PROVE FALSE
    OBVIOUS
  <2>2. i - o \in 1 .. BLOCK /\ o + (i - o) = i BY <1>1
  <2>3. i - o \in BlockOthers(text, o) BY <2>1, <2>2 DEF BlockOthers
  <2> QED BY <2>3
<1>3. Others(text, p) = Others(text, o)
  <2>1. \A i \in o + 1 .. Len(text) : text[i] # " " => i \in p + 1 .. Len(text)
    <3>0. SUFFICES ASSUME NEW i \in o + 1 .. Len(text), text[i] # " "
                   PROVE  i \in p + 1 .. Len(text)
      OBVIOUS
    <3>1. i \notin o + 1 .. o + BLOCK BY <1>2, <3>0
    <3> QED BY <1>1, <3>1
  <2>2. \A i \in p + 1 .. Len(text) : i \in o + 1 .. Len(text) BY <1>1
  <2> QED BY <2>1, <2>2 DEF Others
<1> QED BY <1>3 DEF SpaceFrom

LEMMA SpaceInBlock ==
  ASSUME NEW text \in Seq(Symbols), NEW o \in 0 .. Len(text),
         o + BLOCK <= Len(text), BlockOthers(text, o) # {}
  PROVE  FirstOther(text, o + SetMin(BlockOthers(text, o))) = SpaceFrom(text, o)
<1> DEFINE B == BlockOthers(text, o)
           m == SetMin(B)
<1>1. Len(text) \in Nat /\ BLOCK \in Nat /\ o \in Nat
  BY LenProperties, BlockAssumption
<1>2. B \in SUBSET (1 .. BLOCK) BY DEF BlockOthers
<1>3. m \in B /\ \A y \in B : m <= y
  <2>1. B \in SUBSET Nat BY <1>2
  <2> HIDE DEF B
  <2> QED BY <2>1, SetMinFacts DEF B
<1>4. m \in 1 .. BLOCK BY <1>2, <1>3
<1> HIDE DEF m, B
<1>5. o + m \in Others(text, o)
  <2>1. o + m \in o + 1 .. Len(text) BY <1>1, <1>4
  <2>2. text[o + m] # " " BY <1>3 DEF BlockOthers, B
  <2> QED BY <2>1, <2>2 DEF Others
<1>6. \A j \in Others(text, o) : o + m <= j
  <2> SUFFICES ASSUME NEW j \in Others(text, o) PROVE o + m <= j OBVIOUS
  <2>1. j \in o + 1 .. Len(text) BY DEF Others
  <2>2. text[j] # " " BY DEF Others
  <2>3. SUFFICES ASSUME j < o + m PROVE FALSE BY <1>1, <1>4, <2>1
  <2>4. j - o \in 1 .. BLOCK /\ o + (j - o) = j BY <1>1, <1>4, <2>1, <2>3
  <2>5. j - o \in B BY <2>2, <2>4 DEF B, BlockOthers
  <2> QED BY <1>1, <1>3, <1>4, <2>1, <2>3, <2>5
<1>7. SetMin(Others(text, o)) = o + m
  <2>1. Others(text, o) \in SUBSET Nat
    <3>1. Others(text, o) \subseteq o + 1 .. Len(text) BY DEF Others
    <3>2. o + 1 .. Len(text) \subseteq Nat BY <1>1
    <3> QED BY <3>1, <3>2
  <2> QED BY <1>5, <1>6, <2>1, SetMinIs
<1> QED BY <1>5, <1>7 DEF SpaceFrom, B, m

(* The kernel finds what the byte-by-byte scan finds.                      *)
LEMMA WsKernelIsScalar ==
  ASSUME NEW text \in Seq(Symbols)
  PROVE  leading_ws_kernel(text) = SpaceFrom(text, 0)
<1> DEFINE L == Len(text)
           W == [o \in 0 .. L |-> SpaceFrom(text, o)]
           stop == {o \in 0 .. L : o + BLOCK > L \/ BlockOthers(text, o) # {}}
           value == W
           next == [o \in 0 .. L |->
                      IF o + BLOCK < L /\ o + BLOCK + BLOCK > L
                      THEN L - BLOCK ELSE o + BLOCK]
           Rule(b, o) ==
             IF o + BLOCK > L THEN RestOfLine(text, o)
             ELSE IF BlockOthers(text, o) # {}
                  THEN FirstOther(text, o + SetMin(BlockOthers(text, o)))
                  ELSE IF o + BLOCK < L /\ o + BLOCK + BLOCK > L
                       THEN b[L - BLOCK] ELSE b[o + BLOCK]
           b == CHOOSE u : IsWsBlocks(u, text)
<1>1. L \in Nat /\ BLOCK \in Nat \ {0} BY LenProperties, BlockAssumption
<1>2. \A o \in 0 .. L : o \in stop \/ next[o] \in o + 1 .. L
  <2> SUFFICES ASSUME NEW o \in 0 .. L, o + BLOCK <= L
               PROVE  next[o] \in o + 1 .. L
    BY <1>1
  <2> QED BY <1>1
<1>3. ASSUME NEW o \in 0 .. L, o \notin stop
      PROVE  /\ next[o] = IF o + BLOCK < L /\ o + BLOCK + BLOCK > L
                          THEN L - BLOCK ELSE o + BLOCK
             /\ o + BLOCK <= L /\ BlockOthers(text, o) = {}
             /\ next[o] \in o .. o + BLOCK /\ next[o] \in 0 .. L
  BY <1>1, <1>3
<1>4. ASSUME NEW u, NEW o \in 0 .. L
      PROVE  Rule(u, o) = IF o \in stop THEN value[o] ELSE u[next[o]]
  <2>1. CASE o + BLOCK > L
    <3>1. o \in stop /\ Rule(u, o) = RestOfLine(text, o) BY <2>1
    <3> QED BY <3>1, RestIsSpaceFrom
  <2>2. CASE o + BLOCK <= L /\ BlockOthers(text, o) # {}
    <3>1. /\ o \in stop
          /\ Rule(u, o) = FirstOther(text, o + SetMin(BlockOthers(text, o)))
      BY <1>1, <2>2
    <3> QED BY <2>2, <3>1, SpaceInBlock
  <2>3. CASE o + BLOCK <= L /\ BlockOthers(text, o) = {}
    <3>1. o \notin stop BY <1>1, <2>3
    <3>2. Rule(u, o) = u[next[o]] BY <1>1, <1>3, <2>3, <3>1
    <3> QED BY <3>1, <3>2
  <2> QED BY <1>1, <2>1, <2>2, <2>3
<1>5. \A o \in 0 .. L : W[o] = IF o \in stop THEN value[o] ELSE W[next[o]]
  <2> SUFFICES ASSUME NEW o \in 0 .. L, o \notin stop PROVE W[o] = W[next[o]]
    OBVIOUS
  <2>1. /\ o + BLOCK <= L /\ BlockOthers(text, o) = {}
        /\ next[o] \in o .. o + BLOCK /\ next[o] \in 0 .. L
    BY <1>3
  <2> HIDE DEF next
  <2>2. SpaceFrom(text, next[o]) = SpaceFrom(text, o) BY <2>1, SpaceGoesOn
  <2> QED BY <2>1, <2>2
<1>6. W = [o \in 0 .. L |-> Rule(W, o)]
  <2> HIDE DEF W, Rule, stop, next, value
  <2>1. \A o \in 0 .. L : W[o] = Rule(W, o) BY <1>4, <1>5
  <2>2. W = [o \in 0 .. L |-> W[o]] BY DEF W
  <2> QED BY <2>1, <2>2
<1>7. IsWsBlocks(W, text)
  <2> HIDE DEF W
  <2> QED BY <1>6, Zenon DEF IsWsBlocks
<1>8. IsWsBlocks(b, text) BY <1>7, Zenon
<1>9. \A o \in 0 .. L : b[o] = Rule(b, o)
  <2>1. b = [o \in 0 .. L |-> Rule(b, o)]
    <3> HIDE DEF b
    <3> QED BY <1>8, Zenon DEF IsWsBlocks
  <2> HIDE DEF b, Rule
  <2>2. \A o \in 0 .. L : [x \in 0 .. L |-> Rule(b, x)][o] = Rule(b, o) OBVIOUS
  <2> QED BY <2>1, <2>2, Zenon
<1>10. \A o \in 0 .. L : b[o] = W[o]
  <2> HIDE DEF b, W, Rule, stop, next
  <2>1. \A o \in 0 .. L : b[o] = IF o \in stop THEN value[o] ELSE b[next[o]]
    BY <1>4, <1>9
  <2>2. L \in Nat BY <1>1
  <2> HIDE DEF L, value
  <2>3. GoesForward(L, stop, next) BY <1>2 DEF GoesForward
  <2>4. Follows(W, L, stop, value, next) BY <1>5 DEF Follows
  <2>5. Follows(b, L, stop, value, next) BY <2>1 DEF Follows
  <2> QED BY <2>2, <2>3, <2>4, <2>5, OneSolution
<1>11. 0 \in 0 .. L BY <1>1
<1>12. leading_ws_kernel(text) = b[0] BY WsKernelUnfolds
<1> HIDE DEF b
<1> QED BY <1>10, <1>11, <1>12

(* What lies before the first of some positions.                           *)
LEMMA BeforeTheFirst ==
  ASSUME NEW n \in Nat, NEW S \in SUBSET (1 .. n)
  PROVE  LET m == SetMin(S \cup {n + 1})
         IN /\ m \in 1 .. n + 1 /\ (S # {} => m = SetMin(S)) /\ (S = {} => m = n + 1)
            /\ Cardinality({i \in 1 .. n : \A k \in 1 .. i : k \notin S}) = m - 1
<1> DEFINE T == S \cup {n + 1}
           m == SetMin(T)
<1>1. T \in SUBSET Nat /\ T # {} /\ T \in SUBSET (1 .. n + 1) OBVIOUS
<1>2. m \in T /\ \A y \in T : m <= y
  <2> HIDE DEF T
  <2> QED BY <1>1, SetMinFacts
<1>3. m \in 1 .. n + 1 BY <1>1, <1>2
<1> HIDE DEF m
<1>4. S # {} => m = SetMin(S)
  <2> SUFFICES ASSUME S # {} PROVE m = SetMin(S) OBVIOUS
  <2>1. PICK y \in S : TRUE OBVIOUS
  <2>2. m <= y /\ y <= n BY <1>2
  <2>3. m \in S BY <1>2, <1>3, <2>2
  <2>4. \A z \in S : m <= z BY <1>2
  <2>5. S \in SUBSET Nat OBVIOUS
  <2> QED BY <2>3, <2>4, <2>5, SetMinIs
<1>5. S = {} => m = n + 1 BY <1>2
<1>6. {i \in 1 .. n : \A k \in 1 .. i : k \notin S} = 1 .. m - 1
  <2>1. ASSUME NEW i \in 1 .. n, \A k \in 1 .. i : k \notin S PROVE i \in 1 .. m - 1
    <3>1. SUFFICES ASSUME m <= i PROVE FALSE BY <1>3
    <3>2. m \in 1 .. i /\ m \in S BY <1>2, <1>3, <3>1
    <3> QED BY <2>1, <3>2
  <2>2. ASSUME NEW i \in 1 .. m - 1 PROVE i \in 1 .. n /\ \A k \in 1 .. i : k \notin S
    <3>1. i \in 1 .. n BY <1>3
    <3>2. ASSUME NEW k \in 1 .. i, k \in S PROVE FALSE
      <4>1. m <= k BY <1>2, <3>2
      <4> QED BY <1>3, <4>1
    <3> QED BY <3>1, <3>2
  <2> QED BY <2>1, <2>2
<1>7. Cardinality(1 .. m - 1) = m - 1
  <2>1. 1 \in Int /\ m - 1 \in Int BY <1>3
  <2>2. Cardinality(1 .. m - 1) = IF 1 > m - 1 THEN 0 ELSE (m - 1) - 1 + 1
    BY <2>1, FS_Interval
  <2> QED BY <1>3, <2>2
<1> QED BY <1>3, <1>4, <1>5, <1>6, <1>7 DEF m

LEMMA MatchIsSure ==
  ASSUME NEW n \in Nat
  PROVE  Match(n) # Unsure /\ Match(n)[1] = n
BY DEF Match, Unsure

(* The indentation is the white space before the first other byte.         *)
LEMMA IndentIsLeadingSpace ==
  ASSUME NEW text \in Seq(Symbols), NEW high \in SUBSET HighOf(text)
  PROVE  get_indent_level(text, high)
           = Cardinality({i \in 1 .. Len(text) :
                            \A k \in 1 .. i : text[k] = " " \/ k \in high})
<1> DEFINE L == Len(text)
           O == Others(text, 0)
           S == {k \in 1 .. L : ~(text[k] = " " \/ k \in high)}
           spaced == [i \in 1 .. L |-> IF i \in high THEN " " ELSE text[i]]
           Ind == {i \in 1 .. L : \A k \in 1 .. i : text[k] = " " \/ k \in high}
           m == SetMin(S \cup {L + 1})
           v == leading_ws_kernel(text)
<1>1. L \in Nat BY LenProperties
<1>2. O = {k \in 1 .. L : text[k] # " "} BY DEF Others
<1>3. \A k \in high : k \in 1 .. L /\ text[k] = "h" BY DEF HighOf
<1>4. Ind = {i \in 1 .. L : \A k \in 1 .. i : k \notin S}
  <2>1. ASSUME NEW i \in 1 .. L, NEW k \in 1 .. i PROVE k \in 1 .. L BY <1>1
  <2>2. ASSUME NEW i \in 1 .. L
        PROVE  (\A k \in 1 .. i : text[k] = " " \/ k \in high)
                 <=> \A k \in 1 .. i : k \notin S
    BY <2>1
  <2> HIDE DEF S
  <2> QED BY <2>2
<1>5. S \in SUBSET (1 .. L) OBVIOUS
<1>6. /\ m \in 1 .. L + 1 /\ (S # {} => m = SetMin(S)) /\ (S = {} => m = L + 1)
      /\ Cardinality(Ind) = m - 1
  <2> HIDE DEF S, L, Ind
  <2> QED BY <1>1, <1>4, <1>5, BeforeTheFirst
<1>7. v = IF O = {} THEN Match(L) ELSE FirstOther(text, SetMin(O))
  BY WsKernelIsScalar DEF SpaceFrom
<1>8. S \subseteq O BY <1>2
<1>9. get_indent_level(text, high)
        = IF v # Unsure THEN v[1]
          ELSE SetMin({i \in 1 .. L : spaced[i] # " "} \cup {L + 1}) - 1
  BY DEF get_indent_level
<1> HIDE DEF v, m
<1>10. CASE O = {}
  <2>1. v = Match(L) /\ S = {} BY <1>7, <1>8, <1>10
  <2>2. v # Unsure /\ v[1] = L BY <1>1, <2>1, MatchIsSure
  <2>3. m = L + 1 BY <1>6, <2>1
  <2>4. m - 1 = L
    <3> HIDE DEF S, L
    <3> QED BY <1>1, <2>3
  <2> QED BY <1>6, <1>9, <2>2, <2>4
<1>11. CASE O # {}
  <2> DEFINE o == SetMin(O)
  <2>1. o \in O /\ \A y \in O : o <= y
    <3>1. O \subseteq 1 .. L BY <1>2
    <3>2. 1 .. L \subseteq Nat BY <1>1
    <3>3. O \in SUBSET Nat
      <4> HIDE DEF O
      <4> QED BY <3>1, <3>2
    <3> HIDE DEF O
    <3> QED BY <1>11, <3>3, SetMinFacts
  <2> HIDE DEF o
  <2>2a. o \in 1 .. L BY <1>2, <2>1
  <2>2. o \in 1 .. L /\ text[o] # " " BY <1>2, <2>1
  <2>3. v = FirstOther(text, o) BY <1>7, <1>11 DEF o
  <2>4. CASE text[o] # "h"
    <3>1. v = Match(o - 1) BY <2>3, <2>4, Zenon DEF FirstOther
    <3>2. v # Unsure /\ v[1] = o - 1
      <4>1. o - 1 \in Nat BY <1>1, <2>2a
      <4> QED BY <3>1, <4>1, MatchIsSure
    <3>3. o \in S BY <1>3, <2>2, <2>4
    <3>4. SetMin(S) = o
      <4>1. \A y \in S : o <= y BY <1>8, <2>1
      <4>2. S \in SUBSET Nat
        <5>1. 1 .. L \subseteq Nat BY <1>1
        <5> QED BY <1>5, <5>1
      <4> HIDE DEF S
      <4> QED BY <3>3, <4>1, <4>2, SetMinIs
    <3>5. m = o
      <4> HIDE DEF S
      <4> QED BY <1>6, <3>3, <3>4
    <3> QED BY <1>6, <1>9, <3>2, <3>5
  <2>5. CASE text[o] = "h"
    <3>1. v = Unsure BY <2>3, <2>5, Zenon DEF FirstOther
    <3>2. {i \in 1 .. L : spaced[i] # " "} = S
      <4>1. ASSUME NEW i \in 1 .. L PROVE spaced[i] # " " <=> i \in S OBVIOUS
      <4> HIDE DEF spaced
      <4> QED BY <4>1, <1>5
    <3>3. get_indent_level(text, high) = m - 1 BY <1>9, <3>1, <3>2 DEF m
    <3> QED BY <1>6, <3>3
  <2> QED BY <2>4, <2>5
<1> QED BY <1>10, <1>11

-----------------------------------------------------------------------------
(* A literal: where it first occurs from a place on.                       *)
Found(text, needle, o) == {at \in o .. Len(text) : Occurs(text, needle, at)}

FirstFrom(text, needle, o) ==
  IF Found(text, needle, o) = {} THEN <<>> ELSE <<SetMin(Found(text, needle, o))>>

(* The kernel by its definition.                                           *)
LiteralRest(text, needle, offset) ==
  LET rest == find_literal_scalar(SubSeq(text, offset + 1, Len(text)), needle)
  IN IF rest = <<>> THEN <<>> ELSE <<offset + rest[1]>>

BlockFound(text, needle, offset) ==
  LET candidates == {at \in offset .. offset + BLOCK - 1 :
                       /\ text[at + 1] = needle[1]
                       /\ text[at + Len(needle)] = needle[Len(needle)]}
  IN {at \in candidates : Occurs(text, needle, at)}

IsLiteralBlocks(b, text, needle) ==
  b = [offset \in 0 .. Len(text) |->
         IF offset + BLOCK > Len(text) - Len(needle) + 1
         THEN LiteralRest(text, needle, offset)
         ELSE IF BlockFound(text, needle, offset) # {}
              THEN <<SetMin(BlockFound(text, needle, offset))>> ELSE b[offset + BLOCK]]

LEMMA LiteralKernelUnfolds ==
  ASSUME NEW text, NEW needle
  PROVE  find_literal_kernel(text, needle)
           = (CHOOSE b : IsLiteralBlocks(b, text, needle))[0]
BY Zenon DEF find_literal_kernel, IsLiteralBlocks, LiteralRest, BlockFound

LEMMA ShiftedMin ==
  ASSUME NEW o \in Nat, NEW S \in SUBSET Nat, NEW T \in SUBSET Nat, S # {},
         \A i \in S : o + i \in T, \A j \in T : j - o \in S
  PROVE  SetMin(T) = o + SetMin(S)
<1>1. SetMin(S) \in S /\ \A y \in S : SetMin(S) <= y BY SetMinFacts
<1>2. o + SetMin(S) \in T BY <1>1
<1>3. \A j \in T : o + SetMin(S) <= j
  <2> SUFFICES ASSUME NEW j \in T PROVE o + SetMin(S) <= j OBVIOUS
  <2>1. SetMin(S) <= j - o /\ SetMin(S) \in Nat /\ j \in Nat BY <1>1
  <2> QED BY <2>1
<1> QED BY <1>2, <1>3, SetMinIs

(* The rest of a line is searched as a line of its own.                    *)
LEMMA RestIsFirstFrom ==
  ASSUME NEW text \in Seq(Symbols), NEW needle \in Seq(Symbols),
         NEW o \in 0 .. Len(text)
  PROVE  LiteralRest(text, needle, o) = FirstFrom(text, needle, o)
<1> DEFINE L == Len(text)
           N == Len(needle)
           s == SubSeq(text, o + 1, L)
           S == Found(s, needle, 0)
           T == Found(text, needle, o)
<1>1. L \in Nat /\ N \in Nat /\ o \in Nat /\ o <= L BY LenProperties
<1>2. \A i \in o + 1 .. L : text[i] \in Symbols
  <2>1. \A i \in 1 .. L : text[i] \in Symbols BY ElementOfSeq
  <2> QED BY <1>1, <2>1
<1>3. Len(s) = L - o /\ \A i \in 1 .. L - o : s[i] = text[o + i]
  <2>1. o + 1 \in Int /\ L \in Int BY <1>1
  <2>2. /\ Len(s) = IF o + 1 <= L THEN L - (o + 1) + 1 ELSE 0
        /\ \A i \in 1 .. L - (o + 1) + 1 : s[i] = text[(o + 1) + i - 1]
    BY <1>2, <2>1, SubSeqProperties
  <2> HIDE DEF s
  <2> QED BY <1>1, <2>2
<1> HIDE DEF s
<1>4. ASSUME NEW at \in 0 .. L - o
      PROVE  Occurs(s, needle, at) <=> Occurs(text, needle, o + at)
  <2>1. at + N <= L - o <=> o + at + N <= L BY <1>1
  <2>2. ASSUME at + N <= L - o
        PROVE  \A k \in 1 .. N : s[at + k] = text[o + at + k]
    <3> SUFFICES ASSUME NEW k \in 1 .. N PROVE s[at + k] = text[o + at + k] OBVIOUS
    <3>1. at + k \in 1 .. L - o /\ o + (at + k) = o + at + k BY <1>1, <2>2
    <3>2. s[at + k] = text[o + (at + k)] BY <1>3, <3>1
    <3> QED BY <3>1, <3>2
  <2>3. Occurs(s, needle, at)
          <=> at + N <= L - o /\ \A k \in 1 .. N : s[at + k] = needle[k]
    BY <1>3 DEF Occurs
  <2>4. Occurs(text, needle, o + at)
          <=> o + at + N <= L /\ \A k \in 1 .. N : text[o + at + k] = needle[k]
    BY DEF Occurs
  <2> HIDE DEF N, L
  <2> QED BY <2>1, <2>2, <2>3, <2>4, Zenon
<1>5. \A i \in S : o + i \in T
  <2> SUFFICES ASSUME NEW i \in S PROVE o + i \in T OBVIOUS
  <2>1. i \in 0 .. L - o /\ Occurs(s, needle, i) BY <1>3 DEF Found
  <2>2. o + i \in o .. L BY <1>1, <2>1
  <2>3. Occurs(text, needle, o + i) BY <1>4, <2>1
  <2> QED BY <2>2, <2>3 DEF Found
<1>6. \A j \in T : j - o \in S
  <2> SUFFICES ASSUME NEW j \in T PROVE j - o \in S OBVIOUS
  <2>1. j \in o .. L /\ Occurs(text, needle, j) BY DEF Found
  <2>2. j - o \in 0 .. L - o /\ o + (j - o) = j BY <1>1, <2>1
  <2>3. Occurs(s, needle, j - o) BY <1>4, <2>1, <2>2
  <2> QED BY <1>3, <2>2, <2>3 DEF Found
<1>7. find_literal_scalar(s, needle) = IF S = {} THEN <<>> ELSE <<SetMin(S)>>
  BY DEF find_literal_scalar, Found
<1>8. LiteralRest(text, needle, o)
        = IF S = {} THEN <<>> ELSE <<o + SetMin(S)>>
  <2> DEFINE r == find_literal_scalar(s, needle)
  <2>1. LiteralRest(text, needle, o) = IF r = <<>> THEN <<>> ELSE <<o + r[1]>>
    BY DEF LiteralRest, s
  <2> HIDE DEF S
  <2> QED BY <1>7, <2>1
<1>9. S \in SUBSET Nat /\ T \in SUBSET Nat
  <2>1. \A j \in T : j \in o .. L BY DEF Found
  <2>2. \A i \in S : i \in 0 .. L - o BY <1>3 DEF Found
  <2> HIDE DEF S, T
  <2> QED BY <1>1, <2>1, <2>2
<1> HIDE DEF S
<1>10. CASE S = {}
  <2>1. T = {} BY <1>6, <1>10
  <2> QED BY <1>8, <1>10, <2>1 DEF FirstFrom
<1>11. CASE S # {}
  <2>1. T # {} BY <1>5, <1>11
  <2>2. SetMin(T) = o + SetMin(S)
    <3> HIDE DEF T
    <3> QED BY <1>1, <1>5, <1>6, <1>9, <1>11, ShiftedMin
  <2> QED BY <1>8, <1>11, <2>1, <2>2 DEF FirstFrom
<1> QED BY <1>10, <1>11

(* A block's candidates leave out no place where the literal is.           *)
LEMMA BlockFoundIs ==
  ASSUME NEW text \in Seq(Symbols), NEW needle \in Seq(Symbols), needle # <<>>,
         NEW o \in 0 .. Len(text), o + BLOCK <= Len(text) - Len(needle) + 1
  PROVE  /\ BlockFound(text, needle, o)
              = {at \in Found(text, needle, o) : at < o + BLOCK}
         /\ o + BLOCK \in 0 .. Len(text)
<1> DEFINE L == Len(text)
           N == Len(needle)
<1>1. L \in Nat /\ N \in Nat \ {0} /\ BLOCK \in Nat \ {0} /\ o \in Nat
  <2>1. L \in Nat /\ N \in Nat BY LenProperties
  <2>2. N # 0 BY EmptySeq
  <2> QED BY <2>1, <2>2, BlockAssumption
<1>2. o + BLOCK \in 0 .. L BY <1>1
<1>3. ASSUME NEW at \in Int, Occurs(text, needle, at)
      PROVE  text[at + 1] = needle[1] /\ text[at + N] = needle[N]
  <2>1. 1 \in 1 .. N /\ N \in 1 .. N BY <1>1
  <2> QED BY <1>3, <2>1 DEF Occurs
<1>4. \A at : at \in o .. o + BLOCK - 1 <=> at \in o .. L /\ at < o + BLOCK
  <2> SUFFICES ASSUME NEW at
               PROVE  at \in o .. o + BLOCK - 1 <=> at \in o .. L /\ at < o + BLOCK
    OBVIOUS
  <2> QED BY <1>1, <1>2
<1>5. \A at : at \in o .. o + BLOCK - 1 => at \in Int BY <1>1
<1>6. \A at : at \in BlockFound(text, needle, o)
                <=> at \in o .. o + BLOCK - 1 /\ Occurs(text, needle, at)
  BY <1>3, <1>5 DEF BlockFound
<1>7. \A at : at \in Found(text, needle, o)
                <=> at \in o .. L /\ Occurs(text, needle, at)
  BY DEF Found
<1>8. \A at : at \in BlockFound(text, needle, o)
                <=> at \in Found(text, needle, o) /\ at < o + BLOCK
  <2> HIDE DEF L
  <2> QED BY <1>4, <1>6, <1>7
<1> QED BY <1>2, <1>8

(* The kernel finds the first place of a literal.                          *)
LEMMA LiteralKernelIsScalar ==
  ASSUME NEW text \in Seq(Symbols), NEW needle \in Seq(Symbols), needle # <<>>
  PROVE  find_literal_simd(text, needle) = find_literal_scalar(text, needle)
<1> DEFINE L == Len(text)
           N == Len(needle)
           starts == L - N + 1
           W == [o \in 0 .. L |-> FirstFrom(text, needle, o)]
           stop == {o \in 0 .. L : \/ o + BLOCK > starts
                                   \/ BlockFound(text, needle, o) # {}}
           value == W
           next == [o \in 0 .. L |-> o + BLOCK]
           Rule(b, o) ==
             IF o + BLOCK > starts THEN LiteralRest(text, needle, o)
             ELSE IF BlockFound(text, needle, o) # {}
                  THEN <<SetMin(BlockFound(text, needle, o))>> ELSE b[o + BLOCK]
           b == CHOOSE u : IsLiteralBlocks(u, text, needle)
<1>1. L \in Nat /\ N \in Nat \ {0} /\ BLOCK \in Nat \ {0}
  <2>1. L \in Nat /\ N \in Nat BY LenProperties
  <2>2. N # 0 BY EmptySeq
  <2> QED BY <2>1, <2>2, BlockAssumption
<1>2. ASSUME NEW o \in 0 .. L, o + BLOCK <= starts
      PROVE  /\ BlockFound(text, needle, o)
                  = {at \in Found(text, needle, o) : at < o + BLOCK}
             /\ o + BLOCK \in 0 .. L
  BY <1>2, BlockFoundIs
<1>3. ASSUME NEW o \in 0 .. L
      PROVE  /\ Found(text, needle, o) \in SUBSET Nat
             /\ \A at \in Found(text, needle, o) : at \in o .. L
  <2>1. \A at \in Found(text, needle, o) : at \in o .. L BY DEF Found
  <2> QED BY <1>1, <2>1
<1>4. ASSUME NEW o \in 0 .. L, o + BLOCK <= starts,
             BlockFound(text, needle, o) # {}
      PROVE  <<SetMin(BlockFound(text, needle, o))>> = FirstFrom(text, needle, o)
  <2> DEFINE B == BlockFound(text, needle, o)
             F == Found(text, needle, o)
  <2>1. B = {at \in F : at < o + BLOCK} BY <1>2, <1>4
  <2>2. F \in SUBSET Nat BY <1>3
  <2>3. B \in SUBSET Nat /\ B # {}
    <3> HIDE DEF F
    <3> QED BY <1>4, <2>1, <2>2
  <2> HIDE DEF B
  <2>4. SetMin(B) \in B /\ \A y \in B : SetMin(B) <= y BY <2>3, SetMinFacts
  <2>5. \A y \in F : SetMin(B) <= y
    <3> HIDE DEF F
    <3> SUFFICES ASSUME NEW y \in F PROVE SetMin(B) <= y OBVIOUS
    <3>1. y \in Nat /\ SetMin(B) \in Nat /\ SetMin(B) < o + BLOCK
      BY <2>1, <2>2, <2>3, <2>4
    <3>2. CASE y \in B BY <2>4, <3>2
    <3>3. CASE y \notin B
      <4>1. ~(y < o + BLOCK) BY <2>1, <3>3
      <4> QED BY <1>1, <3>1, <4>1
    <3> QED BY <3>2, <3>3
  <2>6. SetMin(F) = SetMin(B) /\ F # {}
    <3> HIDE DEF F
    <3>1. SetMin(B) \in F BY <2>1, <2>4
    <3> QED BY <2>2, <2>5, <3>1, SetMinIs
  <2> QED BY <2>6 DEF FirstFrom, B
<1>5. ASSUME NEW o \in 0 .. L, o + BLOCK <= starts,
             BlockFound(text, needle, o) = {}
      PROVE  FirstFrom(text, needle, o + BLOCK) = FirstFrom(text, needle, o)
  <2>1. \A at \in Found(text, needle, o) : ~(at < o + BLOCK) BY <1>2, <1>5
  <2>2. \A at : at \in o .. L /\ ~(at < o + BLOCK) <=> at \in o + BLOCK .. L
    BY <1>1
  <2>3. \A at : at \in Found(text, needle, o) <=> at \in Found(text, needle, o + BLOCK)
    <3>1. \A at : at \in Found(text, needle, o)
                    <=> at \in o .. L /\ Occurs(text, needle, at)
      BY DEF Found
    <3>2. \A at : at \in Found(text, needle, o + BLOCK)
                    <=> at \in o + BLOCK .. L /\ Occurs(text, needle, at)
      BY DEF Found
    <3> HIDE DEF L
    <3> QED BY <2>1, <2>2, <3>1, <3>2, Zenon
  <2>4. Found(text, needle, o) = Found(text, needle, o + BLOCK) BY <2>3
  <2> QED BY <2>4 DEF FirstFrom
<1>6. ASSUME NEW u, NEW o \in 0 .. L
      PROVE  Rule(u, o) = IF o \in stop THEN value[o] ELSE u[next[o]]
  <2>1. CASE o + BLOCK > starts
    <3>1. o \in stop /\ Rule(u, o) = LiteralRest(text, needle, o) BY <2>1
    <3> QED BY <3>1, RestIsFirstFrom
  <2>2. CASE o + BLOCK <= starts /\ BlockFound(text, needle, o) # {}
    <3>1. ~(o + BLOCK > starts) BY <1>1, <2>2
    <3>2. o \in stop /\ Rule(u, o) = <<SetMin(BlockFound(text, needle, o))>>
      BY <2>2, <3>1
    <3>3. value[o] = FirstFrom(text, needle, o) OBVIOUS
    <3> HIDE DEF Rule, stop, value
    <3> QED BY <1>4, <2>2, <3>2, <3>3
  <2>3. CASE o + BLOCK <= starts /\ BlockFound(text, needle, o) = {}
    <3>1. ~(o + BLOCK > starts) BY <1>1, <2>3
    <3>2. o \notin stop BY <2>3, <3>1
    <3>3. Rule(u, o) = u[o + BLOCK] /\ next[o] = o + BLOCK BY <2>3, <3>1
    <3> QED BY <3>2, <3>3
  <2> QED BY <1>1, <2>1, <2>2, <2>3
<1>7. \A o \in 0 .. L : o \in stop \/ next[o] \in o + 1 .. L
  <2> SUFFICES ASSUME NEW o \in 0 .. L, o \notin stop PROVE next[o] \in o + 1 .. L
    OBVIOUS
  <2>1. o + BLOCK <= starts BY <1>1
  <2>2. o + BLOCK \in 0 .. L /\ next[o] = o + BLOCK BY <1>2, <2>1
  <2> HIDE DEF next, stop
  <2> QED BY <1>1, <2>2
<1>8. \A o \in 0 .. L : W[o] = IF o \in stop THEN value[o] ELSE W[next[o]]
  <2> SUFFICES ASSUME NEW o \in 0 .. L, o \notin stop PROVE W[o] = W[next[o]]
    OBVIOUS
  <2>1. o + BLOCK <= starts /\ BlockFound(text, needle, o) = {} BY <1>1
  <2>2. o + BLOCK \in 0 .. L /\ next[o] = o + BLOCK BY <1>2, <2>1
  <2>3. FirstFrom(text, needle, o + BLOCK) = FirstFrom(text, needle, o)
    BY <1>5, <2>1
  <2> HIDE DEF next
  <2> QED BY <2>2, <2>3
<1>9. IsLiteralBlocks(W, text, needle)
  <2> HIDE DEF W, Rule, stop, next, value
  <2>1. \A o \in 0 .. L : W[o] = Rule(W, o) BY <1>6, <1>8
  <2>2. W = [o \in 0 .. L |-> W[o]] BY DEF W
  <2>3. W = [o \in 0 .. L |-> Rule(W, o)] BY <2>1, <2>2
  <2> USE DEF Rule
  <2> QED BY <2>3, Zenon DEF IsLiteralBlocks
<1>10. IsLiteralBlocks(b, text, needle) BY <1>9, Zenon
<1>11. \A o \in 0 .. L : b[o] = Rule(b, o)
  <2>1. b = [o \in 0 .. L |-> Rule(b, o)]
    <3> HIDE DEF b
    <3> QED BY <1>10, Zenon DEF IsLiteralBlocks
  <2> HIDE DEF b, Rule
  <2>2. \A o \in 0 .. L : [x \in 0 .. L |-> Rule(b, x)][o] = Rule(b, o) OBVIOUS
  <2> QED BY <2>1, <2>2, Zenon
<1>12. \A o \in 0 .. L : b[o] = W[o]
  <2> HIDE DEF b, W, Rule, stop, next
  <2>1. \A o \in 0 .. L : b[o] = IF o \in stop THEN value[o] ELSE b[next[o]]
    BY <1>6, <1>11
  <2>2. L \in Nat BY <1>1
  <2> HIDE DEF L, value
  <2>3. GoesForward(L, stop, next) BY <1>7 DEF GoesForward
  <2>4. Follows(W, L, stop, value, next) BY <1>8 DEF Follows
  <2>5. Follows(b, L, stop, value, next) BY <2>1 DEF Follows
  <2> QED BY <2>2, <2>3, <2>4, <2>5, OneSolution
<1>13. 0 \in 0 .. L BY <1>1
<1>14. find_literal_kernel(text, needle) = b[0] BY LiteralKernelUnfolds
<1> HIDE DEF b
<1>15. find_literal_kernel(text, needle) = FirstFrom(text, needle, 0)
  BY <1>12, <1>13, <1>14
<1>16. find_literal_scalar(text, needle) = FirstFrom(text, needle, 0)
  BY DEF find_literal_scalar, FirstFrom, Found
<1>17. CASE L < N
  <2>1. \A at \in 0 .. L : ~(at + N <= L) BY <1>1, <1>17
  <2>2. Found(text, needle, 0) = {} BY <2>1 DEF Found, Occurs
  <2> QED BY <1>16, <1>17, <2>2 DEF find_literal_simd, FirstFrom
<1>18. CASE ~(L < N)
  BY <1>15, <1>16, <1>18 DEF find_literal_simd
<1> QED BY <1>17, <1>18

-----------------------------------------------------------------------------
(* A run of bytes reaches as far as it can.                                *)
LEMMA RunEndFacts ==
  ASSUME NEW text \in Seq(Symbols), NEW classes, NEW i \in Int,
         i - 1 <= Len(text)
  PROVE  LET e == RunEnd(text, i, classes)
         IN /\ e \in i - 1 .. Len(text)
            /\ \A k \in i .. e : text[k] \in classes
            /\ \A n \in i - 1 .. Len(text) :
                 (\A k \in i .. n : text[k] \in classes) => n <= e
<1> DEFINE L == Len(text)
           R == {n \in i - 1 .. L : \A k \in i .. n : text[k] \in classes}
<1>1. L \in Nat BY LenProperties
<1>2. i - 1 \in R
  <2>1. i - 1 \in i - 1 .. L BY <1>1
  <2>2. i .. (i - 1) = {} OBVIOUS
  <2> QED BY <2>1, <2>2
<1>3. SetMax(R) \in R /\ \A n \in R : n <= SetMax(R)
  <2>1. i - 1 \in Int /\ L \in Int BY <1>1
  <2>2. R \in SUBSET (i - 1 .. L) OBVIOUS
  <2> HIDE DEF R, L
  <2> QED BY <1>2, <2>1, <2>2, SetMaxFacts
<1>4. RunEnd(text, i, classes) = SetMax(R) BY DEF RunEnd
<1> QED BY <1>3, <1>4

(* Where the literal of a cost is first found.                             *)
LEMMA FirstCost ==
  ASSUME NEW text \in Seq(Symbols), find_literal_simd(text, <<"(cost=">>) # <<>>
  PROVE  LET at == find_literal_simd(text, <<"(cost=">>)[1]
         IN /\ at \in 0 .. Len(text) - 1 /\ text[at + 1] = "(cost="
            /\ \A k \in 1 .. Len(text) : text[k] = "(cost=" => at + 1 <= k
<1> DEFINE L == Len(text)
           needle == <<"(cost=">>
           F == {at \in 0 .. L : Occurs(text, needle, at)}
<1>1. L \in Nat BY LenProperties
<1>2. needle \in Seq(Symbols) /\ needle # <<>> /\ Len(needle) = 1 /\ needle[1] = "(cost="
  BY DEF Symbols
<1>3. find_literal_simd(text, needle) = IF F = {} THEN <<>> ELSE <<SetMin(F)>>
  <2>1. find_literal_simd(text, needle) = find_literal_scalar(text, needle)
    <3> HIDE DEF needle
    <3> QED BY <1>2, LiteralKernelIsScalar
  <2> QED BY <2>1 DEF find_literal_scalar
<1>4. \A at \in 0 .. L : at \in F <=> at + 1 <= L /\ text[at + 1] = "(cost="
  <2> SUFFICES ASSUME NEW at \in 0 .. L
               PROVE  Occurs(text, needle, at) <=> at + 1 <= L /\ text[at + 1] = "(cost="
    OBVIOUS
  <2>1. 1 .. 1 = {1} OBVIOUS
  <2> HIDE DEF needle
  <2> QED BY <1>2, <2>1 DEF Occurs
<1>5. F # {} /\ find_literal_simd(text, needle)[1] = SetMin(F)
  <2> HIDE DEF F
  <2> QED BY <1>3
<1>6. SetMin(F) \in F /\ \A y \in F : SetMin(F) <= y
  <2>1. F \in SUBSET Nat BY <1>1
  <2> HIDE DEF F
  <2> QED BY <1>5, <2>1, SetMinFacts
<1> DEFINE m == SetMin(F)
<1>8. m \in 0 .. L - 1 /\ text[m + 1] = "(cost="
  <2>1. m \in 0 .. L /\ m \in F BY <1>6
  <2>2. m + 1 <= L /\ text[m + 1] = "(cost=" BY <1>4, <2>1
  <2> HIDE DEF m
  <2>3. m \in 0 .. L - 1 BY <1>1, <2>1, <2>2
  <2> QED BY <2>2, <2>3
<1>9. ASSUME NEW k \in 1 .. L, text[k] = "(cost=" PROVE m + 1 <= k
  <2>1. k - 1 \in 0 .. L /\ (k - 1) + 1 = k /\ k <= L BY <1>1
  <2>2. k - 1 \in F
    <3> HIDE DEF F
    <3> QED BY <1>4, <1>9, <2>1
  <2>3. m <= k - 1 /\ m \in Nat
    <3>1. m <= k - 1 BY <1>6, <2>2
    <3> QED BY <1>8, <3>1
  <2> HIDE DEF m
  <2> QED BY <2>3
<1> QED BY <1>5, <1>8, <1>9

(* Where the two points after the minimum are.                             *)
Breaks(text, start) ==
  {k \in start .. Len(text) + 1 :
     At(text, k) \notin {"d", "."} \/ (At(text, k) = "." /\ At(text, k + 1) = ".")}

LEMMA BreakFacts ==
  ASSUME NEW text \in Seq(Symbols), NEW start \in 1 .. Len(text) + 1
  PROVE  LET i == SetMin(Breaks(text, start))
         IN /\ i \in start .. Len(text) + 1
            /\ \A k \in start .. i - 1 : k \in 1 .. Len(text) /\ text[k] \in {"d", "."}
<1> DEFINE L == Len(text)
           B == Breaks(text, start)
           i == SetMin(B)
<1>1. L \in Nat BY LenProperties
<1>2. L + 1 \in B
  <2>1. L + 1 \notin 1 .. L /\ L + 1 \in Int /\ L + 1 \in start .. L + 1 BY <1>1
  <2>2. At(text, L + 1) \notin {"d", "."} BY <2>1, AtFacts
  <2> QED BY <2>1, <2>2 DEF Breaks
<1>3. \A k \in B : k \in start .. L + 1 BY DEF Breaks
<1>4. i \in B /\ \A y \in B : i <= y
  <2>1. B \in SUBSET Nat /\ B # {} BY <1>1, <1>2, <1>3
  <2> HIDE DEF B
  <2> QED BY <2>1, SetMinFacts
<1>5. i \in start .. L + 1 BY <1>3, <1>4
<1> HIDE DEF i
<1>6. ASSUME NEW k \in start .. i - 1
      PROVE  k \in 1 .. L /\ text[k] \in {"d", "."}
  <2>1. k \in start .. L + 1 /\ k \in 1 .. L /\ ~(i <= k) BY <1>1, <1>5
  <2>2. k \notin B BY <1>4, <2>1
  <2>3. At(text, k) \in {"d", "."} BY <2>1, <2>2 DEF Breaks
  <2> QED BY <2>1, <2>3 DEF At
<1> QED BY <1>5, <1>6 DEF i

(* A minimum ends nowhere but where the scan ends it, when the maximum     *)
(* that follows has one point at most.                                     *)
LEMMA OneMinimum ==
  ASSUME NEW text \in Seq(Symbols), NEW start \in 2 .. Len(text),
         NEW i \in start + 1 .. Len(text) - 2,
         \A k \in start .. i - 1 : text[k] \in {"d", "."},
         text[i] = ".", text[i + 1] = ".", text[i + 2] # ".",
         RunEnd(text, i + 2, {"d", "."}) >= i + 2,
         IsFloat(text, i + 2, RunEnd(text, i + 2, {"d", "."})),
         RowsAndWidth(text, RunEnd(text, i + 2, {"d", "."}) + 1) # <<>>
  PROVE  i - 1 \in MinimumEnds(text, start) /\ SetMax(MinimumEnds(text, start)) = i - 1
<1> DEFINE L == Len(text)
           N == {"d", "."}
           j == RunEnd(text, i + 2, N)
           M == MinimumEnds(text, start)
<1>1. L \in Nat /\ i \in Int /\ start \in Nat BY LenProperties
<1>2. /\ j \in i + 1 .. L
      /\ \A k \in i + 2 .. j : text[k] \in N
      /\ \A n \in i + 1 .. L : (\A k \in i + 2 .. n : text[k] \in N) => n <= j
  <2>1. i + 2 \in Int /\ (i + 2) - 1 = i + 1 /\ i + 1 <= L BY <1>1
  <2> HIDE DEF L, N
  <2> QED BY <2>1, RunEndFacts DEF L
<1>3. j >= i + 2 /\ RowsAndWidth(text, j + 1) # <<>> OBVIOUS
<1>4. \A k, l \in i + 2 .. j : text[k] = "." /\ text[l] = "." => k = l
  BY DEF IsFloat
<1> HIDE DEF j
<1>5. i + 2 \in i + 2 .. j BY <1>1, <1>2, <1>3
<1>6. text[i + 2] \in N BY <1>2, <1>5
<1>7. i - 1 \in M
  <2>1. (i - 1) + 1 = i /\ (i - 1) + 2 = i + 1 /\ (i - 1) + 3 = i + 2 BY <1>1
  <2>2. i - 1 \in start .. L - 3 BY <1>1
  <2>3. RowsAndWidth(text, RunEnd(text, i + 2, N) + 1) # <<>> BY <1>3 DEF j
  <2> QED BY <1>6, <2>1, <2>2, <2>3 DEF MinimumEnds
<1>8. ASSUME NEW e \in M PROVE e <= i - 1
  <2>1. /\ e \in start .. L - 3
        /\ \A k \in start .. e : text[k] \in N
        /\ text[e + 1] = "." /\ text[e + 2] = "." /\ text[e + 3] \in N
    BY DEF MinimumEnds
  <2>2. e \in Int /\ e <= L - 3 /\ e >= start BY <1>1, <2>1
  <2>3. e # i
    <3>1. text[i + 2] # "." OBVIOUS
    <3> QED BY <2>1, <3>1
  <2>4. SUFFICES ASSUME e > i PROVE FALSE BY <1>1, <2>2, <2>3
  <2>5. \A k \in i + 2 .. e + 2 : text[k] \in N
    <3> SUFFICES ASSUME NEW k \in i + 2 .. e + 2 PROVE text[k] \in N OBVIOUS
    <3>1. k \in start .. e \/ k = e + 1 \/ k = e + 2
      BY <1>1, <2>2
    <3> QED BY <2>1, <3>1
  <2>6. e + 2 \in i + 1 .. L BY <1>1, <2>2, <2>4
  <2>7. e + 2 <= j BY <1>2, <2>5, <2>6
  <2>8. e + 1 \in i + 2 .. j /\ e + 2 \in i + 2 .. j
    BY <1>1, <1>2, <2>2, <2>4, <2>7
  <2>9. e + 1 = e + 2 BY <1>4, <2>1, <2>8
  <2> QED BY <2>2, <2>9
<1>9. M \in SUBSET Int
  <2>1. \A e \in M : e \in start .. L - 3 BY DEF MinimumEnds
  <2> QED BY <2>1
<1> HIDE DEF M
<1>10. SetMax(M) = i - 1 BY <1>7, <1>8, <1>9, SetMaxIs
<1> QED BY <1>7, <1>10 DEF M

(* What the scan of a cost answers, the expression answers.                *)
LEMMA CostIsCost ==
  ASSUME NEW text \in Seq(Symbols), parse_cost_tuple(text) # <<>>
  PROVE  parse_cost_tuple(text) = COST_REGEX(text)
<1> DEFINE L == Len(text)
           N == {"d", "."}
           found == find_literal_simd(text, <<"(cost=">>)
           start == found[1] + 2
           i == SetMin(Breaks(text, start))
           j == RunEnd(text, i + 2, N)
           tail == RowsAndWidth(text, j + 1)
           starts == {s \in 2 .. L : text[s - 1] = "(cost=" /\ MinimumEnds(text, s) # {}}
<1>1. parse_cost_tuple(text)
        = IF found = <<>> THEN <<>>
          ELSE IF At(text, i) # "." \/ At(text, i + 1) # "." \/ i = start THEN <<>>
          ELSE IF At(text, i + 2) = "." THEN <<>>
          ELSE IF ~IsFloat(text, start, i - 1) \/ j < i + 2 THEN <<>>
          ELSE IF ~IsFloat(text, i + 2, j) \/ tail = <<>> THEN <<>>
          ELSE <<[min |-> i - 1, max |-> j, rows |-> tail[1], width |-> tail[2]]>>
  BY DEF parse_cost_tuple, Breaks
<1> HIDE DEF found, start, i, j, tail
<1>2. /\ found # <<>>
      /\ At(text, i) = "." /\ At(text, i + 1) = "." /\ i # start
      /\ At(text, i + 2) # "."
      /\ IsFloat(text, start, i - 1) /\ ~(j < i + 2)
      /\ IsFloat(text, i + 2, j) /\ tail # <<>>
      /\ parse_cost_tuple(text)
           = <<[min |-> i - 1, max |-> j, rows |-> tail[1], width |-> tail[2]]>>
  BY <1>1
<1>3. L \in Nat BY LenProperties
<1>4. /\ start \in 2 .. L + 1 /\ text[start - 1] = "(cost="
      /\ \A k \in 1 .. L : text[k] = "(cost=" => start <= k + 1
  <2> DEFINE at == found[1]
  <2>1. /\ at \in 0 .. L - 1 /\ text[at + 1] = "(cost="
        /\ \A k \in 1 .. L : text[k] = "(cost=" => at + 1 <= k
    BY <1>2, FirstCost DEF found
  <2>2. start = at + 2 BY DEF start
  <2> HIDE DEF at
  <2>3. start \in 2 .. L + 1 /\ start - 1 = at + 1 BY <1>3, <2>1, <2>2
  <2>4. ASSUME NEW k \in 1 .. L, text[k] = "(cost=" PROVE start <= k + 1
    <3>1. at + 1 <= k BY <2>1, <2>4
    <3> QED BY <1>3, <2>1, <2>2, <3>1
  <2> QED BY <2>1, <2>3, <2>4
<1>5. /\ i \in start .. L + 1
      /\ \A k \in start .. i - 1 : k \in 1 .. L /\ text[k] \in N
  <2>1. start \in 1 .. L + 1 BY <1>3, <1>4
  <2> QED BY <2>1, BreakFacts DEF i
<1>6. i \in Int /\ start \in Int /\ i > start
  <2>1. i \in Int /\ start \in Int /\ i >= start BY <1>3, <1>4, <1>5
  <2> QED BY <1>2, <2>1
<1>7. i \in 1 .. L /\ i + 1 \in 1 .. L /\ text[i] = "." /\ text[i + 1] = "."
  <2>1. "." # "end" OBVIOUS
  <2>2. i \in 1 .. L /\ i + 1 \in 1 .. L BY <1>2, <2>1 DEF At
  <2> QED BY <1>2, <2>2 DEF At
<1>8. /\ j \in i + 1 .. L /\ \A k \in i + 2 .. j : text[k] \in N
  <2>1. i + 2 \in Int /\ (i + 2) - 1 = i + 1 /\ i + 1 <= L BY <1>3, <1>6, <1>7
  <2> HIDE DEF L, N
  <2> QED BY <2>1, RunEndFacts DEF L, j
<1>9. j >= i + 2 /\ i + 2 <= L BY <1>2, <1>3, <1>6, <1>8
<1>10. text[i + 2] # "."
  <2>1. i + 2 \in 1 .. L BY <1>3, <1>6, <1>7, <1>9
  <2> QED BY <1>2, <2>1 DEF At
<1>11. start \in 2 .. L /\ i \in start + 1 .. L - 2
  BY <1>3, <1>4, <1>5, <1>6, <1>9
<1>12. /\ i - 1 \in MinimumEnds(text, start)
       /\ SetMax(MinimumEnds(text, start)) = i - 1
  <2>1. \A k \in start .. i - 1 : text[k] \in N BY <1>5
  <2>2. RunEnd(text, i + 2, N) >= i + 2 BY <1>9 DEF j
  <2>3. IsFloat(text, i + 2, RunEnd(text, i + 2, N)) BY <1>2 DEF j
  <2>4. RowsAndWidth(text, RunEnd(text, i + 2, N) + 1) # <<>>
    BY <1>2 DEF j, tail
  <2> QED BY <1>7, <1>10, <1>11, <2>1, <2>2, <2>3, <2>4, OneMinimum
<1>13. start \in starts BY <1>4, <1>11, <1>12
<1>14. \A s \in starts : start <= s
  <2> SUFFICES ASSUME NEW s \in starts PROVE start <= s OBVIOUS
  <2>1. s \in 2 .. L /\ text[s - 1] = "(cost=" OBVIOUS
  <2>2. s - 1 \in 1 .. L /\ (s - 1) + 1 = s BY <1>3, <2>1
  <2> QED BY <1>4, <2>1, <2>2
<1>15. SetMin(starts) = start
  <2>1. starts \in SUBSET Nat BY <1>3
  <2> HIDE DEF starts
  <2> QED BY <1>13, <1>14, <2>1, SetMinIs
<1>16. COST_REGEX(text)
         = LET s == SetMin(starts)
               e == SetMax(MinimumEnds(text, s))
               q == RunEnd(text, e + 3, N)
               t == RowsAndWidth(text, q + 1)
           IN IF starts = {} THEN <<>>
              ELSE IF ~IsFloat(text, s, e) \/ ~IsFloat(text, e + 3, q) THEN <<>>
              ELSE <<[min |-> e, max |-> q, rows |-> t[1], width |-> t[2]]>>
  BY DEF COST_REGEX
<1>17. starts # {} BY <1>13
<1> HIDE DEF starts
<1>18. (i - 1) + 3 = i + 2 BY <1>6
<1>19. RunEnd(text, (i - 1) + 3, N) = j BY <1>18 DEF j
<1>20. RowsAndWidth(text, j + 1) = tail BY DEF tail
<1>21. IsFloat(text, (i - 1) + 3, j) BY <1>2, <1>18
<1>22. COST_REGEX(text)
         = <<[min |-> i - 1, max |-> j, rows |-> tail[1], width |-> tail[2]]>>
  BY <1>2, <1>12, <1>15, <1>16, <1>17, <1>19, <1>20, <1>21
<1> QED BY <1>2, <1>22

-----------------------------------------------------------------------------
(* Lines are sequences of known bytes and words, whatever is done to them. *)
LineIsText == line \in Seq(Symbols)

LEMMA RepeatIsText ==
  ASSUME NEW byte \in Symbols, NEW n \in Nat
  PROVE  Repeat(byte, n) \in Seq(Symbols)
<1>1. Repeat(byte, n) \in [1 .. n -> Symbols] BY DEF Repeat
<1> QED BY <1>1, SeqDef

LEMMA JoinIsText ==
  ASSUME NEW s \in Seq(Symbols), NEW t \in Seq(Symbols)
  PROVE  s \o t \in Seq(Symbols)
BY ConcatProperties

LEMMA ScanStarts == ScanInit => LineIsText
<1> USE DEF LineIsText
<1>1. /\ " " \in Symbols /\ "U" \in Symbols /\ "d" \in Symbols /\ "." \in Symbols
      /\ ":" \in Symbols /\ "+" \in Symbols /\ "(cost=" \in Symbols
      /\ "rows=" \in Symbols /\ "width=" \in Symbols /\ ")" \in Symbols
  BY DEF Symbols, Bytes
<1>2. MaxFraction \in Nat /\ MaxZone \in Nat /\ BLOCK \in Nat
  BY ShapeAssumption, BlockAssumption
<1>3. TS_SHAPE \in Seq(Symbols)
  <2>1. {"d", " ", ":"} \subseteq Symbols BY DEF Symbols, Bytes
  <2>2. TS_SHAPE \in Seq({"d", " ", ":"}) BY ShapeAssumption, Zenon
  <2> HIDE DEF Symbols
  <2> QED BY <2>1, <2>2, SeqMonotonic, Zenon
<1> HIDE DEF Symbols
<1>4. /\ <<>> \in Seq(Symbols) /\ <<".">> \in Seq(Symbols)
      /\ <<" ">> \in Seq(Symbols) /\ <<"U">> \in Seq(Symbols)
      /\ <<".", "d">> \in Seq(Symbols)
  BY DEF Symbols, Bytes
<1>5. Fractions \subseteq Seq(Symbols)
  <2>1. ASSUME NEW n \in 1 .. MaxFraction
        PROVE  <<".">> \o Repeat("d", n) \in Seq(Symbols)
    <3>1. n \in Nat BY <1>2
    <3>2. Repeat("d", n) \in Seq(Symbols) BY <1>1, <3>1, RepeatIsText
    <3> QED BY <1>4, <3>2, JoinIsText
  <2> QED BY <1>4, <2>1 DEF Fractions
<1>6. Zones \subseteq Seq(Symbols)
  <2>1. ASSUME NEW n \in 2 .. MaxZone
        PROVE  <<" ">> \o Repeat("U", n) \in Seq(Symbols)
    <3>1. n \in Nat BY <1>2
    <3>2. Repeat("U", n) \in Seq(Symbols) BY <1>1, <3>1, RepeatIsText
    <3> QED BY <1>4, <3>2, JoinIsText
  <2>2. <<" ", "+", "d", "d">> \in Seq(Symbols) BY DEF Symbols, Bytes
  <2>3. <<" ", "+", "d", "d", "d", "d">> \in Seq(Symbols) BY DEF Symbols, Bytes
  <2>4. <<" ", "+", "d", "d", ":", "d", "d">> \in Seq(Symbols) BY DEF Symbols, Bytes
  <2>5. Zones = {<<" ">> \o Repeat("U", n) : n \in 2 .. MaxZone}
                  \cup {<<" ", "+", "d", "d">>, <<" ", "+", "d", "d", "d", "d">>,
                        <<" ", "+", "d", "d", ":", "d", "d">>}
    BY DEF Zones
  <2> QED BY <2>1, <2>2, <2>3, <2>4, <2>5, Zenon
<1>7. Stamped \subseteq Seq(Symbols)
  <2>1. ASSUME NEW f \in Fractions, NEW z \in Zones
        PROVE  TS_SHAPE \o f \o z \o <<" ">> \in Seq(Symbols)
    <3>1. f \in Seq(Symbols) /\ z \in Seq(Symbols) BY <1>5, <1>6
    <3>2. TS_SHAPE \o f \in Seq(Symbols) BY <1>3, <3>1, JoinIsText
    <3>3. TS_SHAPE \o f \o z \in Seq(Symbols) BY <3>1, <3>2, JoinIsText
    <3> QED BY <1>4, <3>3, JoinIsText
  <2>2. ASSUME NEW z \in Zones
        PROVE  {TS_SHAPE \o f \o z \o <<" ">> : f \in Fractions} \subseteq Seq(Symbols)
    BY <2>1
  <2>3. ASSUME NEW x \in Stamped PROVE x \in Seq(Symbols)
    <3>1. PICK z \in Zones :
            x \in {TS_SHAPE \o f \o z \o <<" ">> : f \in Fractions}
      BY DEF Stamped
    <3> QED BY <2>2, <3>1
  <2> QED BY <2>3
<1>8. ASSUME line \in Indented PROVE line \in Seq(Symbols)
  <2>1. PICK n \in 0 .. 2 * BLOCK + 1 : line = Repeat(" ", n) \o <<"U">>
    BY <1>8, Zenon DEF Indented
  <2>2. n \in Nat BY <1>2
  <2>3. Repeat(" ", n) \in Seq(Symbols) BY <1>1, <2>2, RepeatIsText
  <2> QED BY <1>4, <2>1, <2>3, JoinIsText
<1>9. Costed \subseteq Seq(Symbols)
  <2> DEFINE a == <<"(cost=", "d">>
             b == <<".", ".", "d">>
             c == <<" ", "rows=", "d", " ", "width=", "d", ")">>
  <2>1. a \in Seq(Symbols) BY DEF Symbols, Bytes
  <2>2. b \in Seq(Symbols) BY DEF Symbols, Bytes
  <2>3. c \in Seq(Symbols) BY DEF Symbols, Bytes
  <2>4. ASSUME NEW f \in Seq(Symbols), NEW g \in Seq(Symbols)
        PROVE  a \o f \o b \o g \o c \in Seq(Symbols)
    <3> HIDE DEF a, b, c
    <3>1. a \o f \in Seq(Symbols) BY <2>1, JoinIsText
    <3>2. a \o f \o b \in Seq(Symbols) BY <2>2, <3>1, JoinIsText
    <3>3. a \o f \o b \o g \in Seq(Symbols) BY <3>2, JoinIsText
    <3> QED BY <2>3, <3>3, JoinIsText
  <2>5. \A f \in Decimals : f \in Seq(Symbols) BY <1>4 DEF Decimals
  <2>6. Costed = UNION {{a \o f \o b \o g \o c : f \in Decimals} : g \in Decimals}
    BY DEF Costed
  <2> HIDE DEF a, b, c
  <2>7. ASSUME NEW g \in Decimals
        PROVE  {a \o f \o b \o g \o c : f \in Decimals} \subseteq Seq(Symbols)
    BY <2>4, <2>5
  <2>8. ASSUME NEW x \in Costed PROVE x \in Seq(Symbols)
    <3>1. PICK g \in Decimals : x \in {a \o f \o b \o g \o c : f \in Decimals}
      BY <2>6
    <3> QED BY <2>7, <3>1
  <2> QED BY <2>8
<1> QED BY <1>7, <1>8, <1>9, Zenon DEF ScanInit

LEMMA ScanSteps == LineIsText /\ [ScanNext]_scanVars => LineIsText'
<1> SUFFICES ASSUME LineIsText, [ScanNext]_scanVars PROVE LineIsText'
  OBVIOUS
<1>0. line \in Seq(Symbols) /\ Len(line) \in Nat BY LenProperties DEF LineIsText
<1>1. ASSUME NEW i \in 1 .. Len(line), cut(i) PROVE LineIsText'
  <2>1. line' = SubSeq(line, 1, i - 1) BY <1>1 DEF cut
  <2>2. 1 \in Int /\ i - 1 \in Int BY <1>0
  <2>3. \A k \in 1 .. i - 1 : line[k] \in Symbols
    <3>1. \A k \in 1 .. i - 1 : k \in 1 .. Len(line) BY <1>0
    <3>2. \A k \in 1 .. Len(line) : line[k] \in Symbols
      BY <1>0, ElementOfSeq
    <3> QED BY <3>1, <3>2
  <2>4. SubSeq(line, 1, i - 1) \in Seq(Symbols)
    BY <1>0, <2>2, <2>3, SubSeqProperties
  <2> QED BY <2>1, <2>4 DEF LineIsText
<1>2. ASSUME NEW i \in 1 .. Len(line), NEW byte \in Bytes, damage(i, byte)
      PROVE  LineIsText'
  <2>1. line' = [line EXCEPT ![i] = byte] BY <1>2 DEF damage
  <2>2. byte \in Symbols BY DEF Symbols
  <2>3. [line EXCEPT ![i] = byte] \in Seq(Symbols)
    BY <1>0, <2>2, ExceptSeq
  <2> QED BY <2>1, <2>3 DEF LineIsText
<1>3. CASE UNCHANGED scanVars BY <1>3 DEF LineIsText, scanVars
<1> QED BY <1>1, <1>2, <1>3 DEF ScanNext

(* Of a line that is a text no scan says anything else.                    *)
LEMMA TextsAgree == LineIsText => ScannersAgree
<1> SUFFICES ASSUME LineIsText PROVE ScannersAgree OBVIOUS
<1>1. line \in Seq(Symbols) BY DEF LineIsText
<1>2. HighBytes = HighOf(line) BY DEF HighBytes, HighOf
<1>3. TimestampAsByRegex BY <1>1, <1>2, LineStartAsByRegex DEF TimestampAsByRegex
<1>4. KernelsAgree
  <2>1. \A high \in SUBSET HighBytes :
          get_indent_level(line, high)
            = Cardinality({i \in 1 .. Len(line) :
                             \A k \in 1 .. i : line[k] = " " \/ k \in high})
    BY <1>1, <1>2, IndentIsLeadingSpace
  <2>2. /\ <<"d">> \in Seq(Symbols) /\ <<" ", "U">> \in Seq(Symbols)
        /\ <<"d", ".", "d">> \in Seq(Symbols)
    BY DEF Symbols, Bytes
  <2>4. <<"d">> # <<>> /\ <<" ", "U">> # <<>> /\ <<"d", ".", "d">> # <<>>
    OBVIOUS
  <2>3. \A needle \in {<<"d">>, <<" ", "U">>, <<"d", ".", "d">>} :
          find_literal_simd(line, needle) = find_literal_scalar(line, needle)
    BY <1>1, <2>2, <2>4, LiteralKernelIsScalar, Zenon
  <2> QED BY <2>1, <2>3 DEF KernelsAgree
<1>5. CostAsByRegex BY <1>1, CostIsCost DEF CostAsByRegex, extract_cost
<1> QED BY <1>3, <1>4, <1>5 DEF ScannersAgree

(* The vector scanners of simd_scan.rs replace nothing: of every line, cut *)
(* or damaged however often, split_log_line, get_indent_level and          *)
(* extract_cost say what the expressions and the byte-by-byte loops say.   *)
THEOREM ScannersReplaceNothing == ScanSpec => []ScannersAgree
<1>1. ScanInit => LineIsText BY ScanStarts
<1>2. LineIsText /\ [ScanNext]_scanVars => LineIsText' BY ScanSteps
<1>3. LineIsText => ScannersAgree BY TextsAgree
<1> QED BY <1>1, <1>2, <1>3, PTL DEF ScanSpec

-----------------------------------------------------------------------------
(* The lines of each form of message, as the parser tells them apart.      *)
Kinds(l, k, balance, ofPlan, stamped) ==
  l.k = k /\ l.balance = balance /\ l.plan = ofPlan /\ l.stamped = stamped

LEMMA ShapeText ==
  LET s == Shape("text")
  IN /\ Len(s) = 4
     /\ Kinds(s[1], "header", 0, FALSE, TRUE)
     /\ Kinds(s[2], "query", 0, FALSE, TRUE)
     /\ Kinds(s[3], "plan", 0, FALSE, TRUE)
     /\ Kinds(s[4], "text", 0, FALSE, TRUE)
<1>1. Shape("text") = <<Header, QueryLine, PlanLine, OfPlan>> BY DEF Shape
<1> QED BY <1>1 DEF Kinds, Header, QueryLine, PlanLine, OfPlan, Line

LEMMA ShapeTwoLines ==
  LET s == Shape("two_lines")
  IN /\ Len(s) = 5
     /\ Kinds(s[1], "header", 0, FALSE, TRUE)
     /\ Kinds(s[2], "query", 0, FALSE, TRUE)
     /\ Kinds(s[3], "text", 0, FALSE, TRUE)
     /\ Kinds(s[4], "blank", 0, FALSE, TRUE)
     /\ Kinds(s[5], "plan", 0, FALSE, TRUE)
<1>1. Shape("two_lines") = <<Header, QueryLine, OfPlan, Line("blank", 0), PlanLine>>
  BY DEF Shape
<1> QED BY <1>1 DEF Kinds, Header, QueryLine, PlanLine, OfPlan, Line

LEMMA ShapeLongLine ==
  LET s == Shape("long_line")
  IN /\ Len(s) = 4
     /\ Kinds(s[1], "header", 0, FALSE, TRUE)
     /\ Kinds(s[2], "query", 0, FALSE, TRUE)
     /\ Kinds(s[3], "text", 0, FALSE, TRUE)
     /\ Kinds(s[4], "plan", 0, FALSE, TRUE)
<1>1. Shape("long_line") = <<Header, QueryLine, Long, PlanLine>> BY DEF Shape
<1>2. Kinds(Long, "text", 0, FALSE, TRUE)
  BY DEF Kinds, Long, OfPlan, Line
<1> QED BY <1>1, <1>2 DEF Kinds, Header, QueryLine, PlanLine, Line

LEMMA ShapeSubscript ==
  LET s == Shape("subscript")
  IN /\ Len(s) = 4
     /\ Kinds(s[1], "header", 0, FALSE, TRUE)
     /\ Kinds(s[2], "query", 0, FALSE, TRUE)
     /\ Kinds(s[3], "json", 0, FALSE, TRUE)
     /\ Kinds(s[4], "plan", 0, FALSE, TRUE)
<1>1. Shape("subscript") = <<Header, QueryLine, Line("json", 0), PlanLine>>
  BY DEF Shape
<1> QED BY <1>1 DEF Kinds, Header, QueryLine, PlanLine, Line

LEMMA ShapeArray ==
  LET s == Shape("array")
  IN /\ Len(s) = 5
     /\ Kinds(s[1], "header", 0, FALSE, TRUE)
     /\ Kinds(s[2], "query", 0, FALSE, TRUE)
     /\ Kinds(s[3], "json", 1, FALSE, TRUE)
     /\ Kinds(s[4], "text", -1, FALSE, TRUE)
     /\ Kinds(s[5], "plan", 0, FALSE, TRUE)
<1>1. Shape("array")
        = <<Header, QueryLine, Line("json", 1), Line("text", -1), PlanLine>>
  BY DEF Shape
<1> QED BY <1>1 DEF Kinds, Header, QueryLine, PlanLine, Line

LEMMA ShapeJson ==
  LET s == Shape("json")
  IN /\ Len(s) = 4
     /\ Kinds(s[1], "header", 0, FALSE, TRUE)
     /\ Kinds(s[2], "json", 1, TRUE, TRUE)
     /\ Kinds(s[3], "text", 1, TRUE, TRUE)
     /\ Kinds(s[4], "text", -2, TRUE, TRUE)
<1>1. Shape("json") = <<Header, PlanJson("json", 1), PlanJson("text", 1),
                        PlanJson("text", -2)>>
  BY DEF Shape
<1> QED BY <1>1 DEF Kinds, Header, PlanJson, Line

LEMMA ShapeQueryJson ==
  LET s == Shape("query_json")
  IN /\ Len(s) = 4
     /\ Kinds(s[1], "header", 0, FALSE, TRUE)
     /\ Kinds(s[2], "query", 0, FALSE, TRUE)
     /\ Kinds(s[3], "json", 1, TRUE, TRUE)
     /\ Kinds(s[4], "text", -1, TRUE, TRUE)
<1>1. Shape("query_json")
        = <<Header, QueryLine, PlanJson("json", 1), PlanJson("text", -1)>>
  BY DEF Shape
<1> QED BY <1>1 DEF Kinds, Header, QueryLine, PlanJson, Line

LEMMA ShapeRefusedText ==
  LET s == Shape("refused_text")
  IN /\ Len(s) = 4
     /\ Kinds(s[1], "header", 0, FALSE, TRUE)
     /\ Kinds(s[2], "query", 0, FALSE, TRUE)
     /\ Kinds(s[3], "plan", 0, FALSE, TRUE)
     /\ Kinds(s[4], "refused", 0, FALSE, TRUE)
<1>1. Shape("refused_text") = <<Header, QueryLine, PlanLine, RefusedLine>> BY DEF Shape
<1> QED BY <1>1 DEF Kinds, Header, QueryLine, PlanLine, RefusedLine, Line

LEMMA ShapeRefusedJson ==
  LET s == Shape("refused_json")
  IN /\ Len(s) = 4
     /\ Kinds(s[1], "header", 0, FALSE, TRUE)
     /\ Kinds(s[2], "query", 0, FALSE, TRUE)
     /\ Kinds(s[3], "json", 1, FALSE, TRUE)
     /\ Kinds(s[4], "text", -1, FALSE, TRUE)
<1>1. Shape("refused_json") = <<Header, QueryLine, Line("json", 1), Line("text", -1)>>
  BY DEF Shape
<1> QED BY <1>1 DEF Kinds, Header, QueryLine, Line

LEMMA ShapeError ==
  Len(Shape("error")) = 1 /\ Kinds(Shape("error")[1], "log", 0, FALSE, TRUE)
<1>1. Shape("error") = <<Line("log", 0)>> BY DEF Shape
<1> QED BY <1>1 DEF Kinds, Line

LEMMA ShapeBadStamp ==
  LET s == Shape("bad_stamp")
  IN /\ Len(s) = 3
     /\ Kinds(s[1], "header", 0, FALSE, FALSE)
     /\ Kinds(s[2], "query", 0, FALSE, TRUE)
     /\ Kinds(s[3], "plan", 0, FALSE, TRUE)
<1>1. Shape("bad_stamp") = <<[Header EXCEPT !.stamped = FALSE], QueryLine, PlanLine>>
  BY DEF Shape
<1> QED BY <1>1 DEF Kinds, Header, QueryLine, PlanLine, Line

(* Every message has a line, and few of them.                              *)
LEMMA ShapeLengths ==
  ASSUME NEW m \in Messages
  PROVE  Len(Shape(m)) \in 1 .. 5
<1>1. m \in {"text", "two_lines", "long_line", "subscript", "array",
             "json", "query_json", "refused_text", "refused_json", "error", "bad_stamp"}
  BY ParserAssumption
<1> QED BY <1>1, ShapeText, ShapeTwoLines, ShapeLongLine, ShapeSubscript, ShapeArray,
           ShapeJson, ShapeQueryJson, ShapeRefusedText, ShapeRefusedJson, ShapeError,
           ShapeBadStamp

-----------------------------------------------------------------------------
(* How the messages lie in a log: each line is one of a message, and what  *)
(* follows is its next line or the first of the next message.              *)
Entry(messages, id, n) == [l |-> Shape(messages[id])[n], id |-> id, n |-> n]

EntriesOfLog(messages) ==
  UNION {{Entry(messages, id, n) : n \in 1 .. Len(Shape(messages[id]))} :
         id \in 1 .. Len(messages)}

IsEntry(messages, e) ==
  /\ e.id \in 1 .. Len(messages) /\ e.n \in 1 .. Len(Shape(messages[e.id]))
  /\ e = Entry(messages, e.id, e.n)

NextEntry(messages, e, f) ==
  IF e.n < Len(Shape(messages[e.id])) THEN f.id = e.id /\ f.n = e.n + 1
  ELSE f.id = e.id + 1 /\ f.n = 1

LaidOut(s, messages) ==
  /\ \A p \in 1 .. Len(s) : IsEntry(messages, s[p])
  /\ Len(s) > 0 => s[1].id = 1 /\ s[1].n = 1
  /\ \A p \in 1 .. Len(s) - 1 : NextEntry(messages, s[p], s[p + 1])

LEMMA EntryFields ==
  ASSUME NEW messages, NEW id, NEW n
  PROVE  /\ Entry(messages, id, n).id = id /\ Entry(messages, id, n).n = n
         /\ Entry(messages, id, n).l = Shape(messages[id])[n]
BY DEF Entry

LEMMA EntriesAreEntries ==
  ASSUME NEW messages
  PROVE  /\ \A e \in EntriesOfLog(messages) : IsEntry(messages, e)
         /\ \A e : IsEntry(messages, e) => e \in EntriesOfLog(messages)
<1>1. ASSUME NEW e \in EntriesOfLog(messages) PROVE IsEntry(messages, e)
  <2>1. PICK id \in 1 .. Len(messages) :
          e \in {Entry(messages, id, n) : n \in 1 .. Len(Shape(messages[id]))}
    BY DEF EntriesOfLog
  <2>2. PICK n \in 1 .. Len(Shape(messages[id])) : e = Entry(messages, id, n)
    BY <2>1
  <2> QED BY <2>2, EntryFields DEF IsEntry
<1>2. ASSUME NEW e, IsEntry(messages, e) PROVE e \in EntriesOfLog(messages)
  BY <1>2 DEF IsEntry, EntriesOfLog
<1> QED BY <1>1, <1>2

(* A function that takes a step for each position, for any steps.          *)
TakesSteps(u, N, a, step) ==
  \A k \in 0 .. N : u[k] = IF k = 0 THEN a ELSE step[k][u[k - 1]]

LEMMA StepByStep ==
  ASSUME NEW T, NEW N \in Nat, NEW a \in T, NEW step \in [1 .. N -> [T -> T]]
  PROVE  \E u : u \in [0 .. N -> T] /\ TakesSteps(u, N, a, step)
<1> DEFINE Goes(u, n) ==
             \A k \in 0 .. n : u[k] = IF k = 0 THEN a ELSE step[k][u[k - 1]]
           S == {n \in Nat : n \in 0 .. N => \E u \in [0 .. n -> T] : Goes(u, n)}
<1>1. 0 \in S
  <2> DEFINE u == [k \in 0 .. 0 |-> a]
  <2>1. u \in [0 .. 0 -> T] OBVIOUS
  <2>2. Goes(u, 0) OBVIOUS
  <2> HIDE DEF u, Goes
  <2> QED BY <2>1, <2>2
<1>2. ASSUME NEW n \in Nat, n \in S PROVE n + 1 \in S
  <2>1. SUFFICES ASSUME n + 1 \in 0 .. N
                 PROVE  \E u \in [0 .. n + 1 -> T] : Goes(u, n + 1)
    OBVIOUS
  <2>2. n \in 0 .. N /\ n + 1 \in 1 .. N BY <2>1
  <2>3. PICK u \in [0 .. n -> T] : Goes(u, n) BY <1>2, <2>2
  <2> DEFINE e == step[n + 1][u[n]]
             v == [k \in 0 .. n + 1 |-> IF k = n + 1 THEN e ELSE u[k]]
  <2>4. e \in T
    <3>1. u[n] \in T /\ step[n + 1] \in [T -> T] BY <2>2
    <3> QED BY <3>1
  <2>5. v \in [0 .. n + 1 -> T] BY <2>4
  <2>6. (\A k \in 0 .. n : v[k] = u[k]) /\ v[n + 1] = e OBVIOUS
  <2> HIDE DEF v
  <2>7. ASSUME NEW k \in 0 .. n + 1
        PROVE  v[k] = IF k = 0 THEN a ELSE step[k][v[k - 1]]
    <3>1. CASE k \in 0 .. n
      <4>1. k # 0 => k - 1 \in 0 .. n BY <3>1
      <4> QED BY <2>3, <2>6, <3>1, <4>1
    <3>2. CASE k = n + 1
      <4>1. n \in 0 .. n /\ k - 1 = n /\ k # 0 BY <3>2
      <4> QED BY <2>6, <3>2, <4>1
    <3> QED BY <3>1, <3>2
  <2>8. Goes(v, n + 1) BY <2>7
  <2> HIDE DEF Goes
  <2> QED BY <2>5, <2>8
<1>3. \A n \in Nat : n \in S
  <2> HIDE DEF S
  <2> QED BY <1>1, <1>2, NatsByInduction
<1>4. N \in S /\ N \in 0 .. N
  <2> HIDE DEF S
  <2> QED BY <1>3
<1> QED BY <1>4 DEF TakesSteps

(* Written by its definition.                                              *)
IsWritten(u, messages) ==
  u = [id \in 0 .. Len(messages) |->
         IF id = 0 THEN <<>> ELSE u[id - 1] \o LinesOf(messages[id], id)]

LEMMA WrittenUnfolds ==
  ASSUME NEW messages
  PROVE  Written(messages) = (CHOOSE u : IsWritten(u, messages))[Len(messages)]
BY Zenon DEF Written, IsWritten

(* The lines of one message.                                               *)
LEMMA LinesOfMessage ==
  ASSUME NEW messages \in Seq(Messages), NEW id \in 1 .. Len(messages)
  PROVE  LET t == LinesOf(messages[id], id)
         IN /\ t \in Seq(EntriesOfLog(messages))
            /\ Len(t) = Len(Shape(messages[id])) /\ Len(t) \in Nat \ {0}
            /\ \A n \in 1 .. Len(t) : t[n] = Entry(messages, id, n)
<1> DEFINE t == LinesOf(messages[id], id)
           N == Len(Shape(messages[id]))
<1>1. N \in 1 .. 5
  <2>1. messages[id] \in Messages OBVIOUS
  <2> QED BY <2>1, ShapeLengths
<1>2. t = [n \in 1 .. N |-> Entry(messages, id, n)] BY DEF LinesOf, Entry
<1>3. \A n \in 1 .. N : Entry(messages, id, n) \in EntriesOfLog(messages)
  BY DEF EntriesOfLog
<1> HIDE DEF N
<1>4. N \in Nat \ {0} BY <1>1
<1> HIDE DEF t
<1>5. t \in [1 .. N -> EntriesOfLog(messages)] BY <1>2, <1>3
<1>6. t \in Seq(EntriesOfLog(messages)) /\ Len(t) = N
  BY <1>4, <1>5, SeqDef, LenProperties
<1>7. \A n \in 1 .. N : t[n] = Entry(messages, id, n) BY <1>2
<1> QED BY <1>4, <1>6, <1>7 DEF t, N

LEMMA BeyondTheFirst ==
  ASSUME NEW a \in Nat, NEW b \in Nat, NEW p \in 1 .. (a + b) - 1, p > a
  PROVE  \E n \in 1 .. b : n + 1 \in 1 .. b /\ p = a + n /\ p + 1 = a + (n + 1)
<1>1. p - a \in 1 .. b /\ (p - a) + 1 \in 1 .. b OBVIOUS
<1> QED BY <1>1

(* One more message behind what is laid out.                               *)
LEMMA OneMessageMore ==
  ASSUME NEW messages \in Seq(Messages), NEW k \in 1 .. Len(messages),
         NEW s \in Seq(EntriesOfLog(messages)), LaidOut(s, messages),
         k = 1 => Len(s) = 0,
         k # 1 => Len(s) > 0 /\ s[Len(s)].id = k - 1
                    /\ s[Len(s)].n = Len(Shape(messages[k - 1]))
  PROVE  LET w == s \o LinesOf(messages[k], k)
         IN /\ w \in Seq(EntriesOfLog(messages)) /\ LaidOut(w, messages)
            /\ Len(w) > 0 /\ w[Len(w)].id = k
            /\ w[Len(w)].n = Len(Shape(messages[k]))
<1> DEFINE T == EntriesOfLog(messages)
           t == LinesOf(messages[k], k)
           w == s \o t
           a == Len(s)
           b == Len(t)
<1>1. /\ t \in Seq(T) /\ b = Len(Shape(messages[k])) /\ b \in Nat \ {0}
      /\ \A n \in 1 .. b : t[n] = Entry(messages, k, n)
  BY LinesOfMessage
<1> HIDE DEF t
<1>2. /\ w \in Seq(T) /\ Len(w) = a + b /\ a \in Nat
      /\ \A i \in 1 .. a + b : w[i] = IF i <= a THEN s[i] ELSE t[i - a]
  BY <1>1, ConcatProperties, LenProperties
<1> HIDE DEF w, a, b
<1>3. ASSUME NEW p \in 1 .. a PROVE w[p] = s[p] BY <1>1, <1>2
<1>4. ASSUME NEW n \in 1 .. b
      PROVE  /\ a + n \in 1 .. a + b /\ w[a + n] = Entry(messages, k, n)
             /\ w[a + n].id = k /\ w[a + n].n = n
  <2>1. a + n \in 1 .. a + b /\ ~(a + n <= a) /\ (a + n) - a = n
    BY <1>1, <1>2
  <2>2. w[a + n] = t[n] BY <1>2, <2>1
  <2>3. w[a + n] = Entry(messages, k, n) BY <1>1, <2>2
  <2> QED BY <2>1, <2>3, EntryFields
<1>5. \A p \in 1 .. a + b : p \in 1 .. a \/ \E n \in 1 .. b : p = a + n
  <2> SUFFICES ASSUME NEW p \in 1 .. a + b, p \notin 1 .. a
               PROVE  \E n \in 1 .. b : p = a + n
    OBVIOUS
  <2>1. p - a \in 1 .. b /\ p = a + (p - a) BY <1>1, <1>2
  <2> QED BY <2>1
<1>6. ASSUME NEW p \in 1 .. a + b PROVE IsEntry(messages, w[p])
  <2>1. CASE p \in 1 .. a BY <1>3, <2>1 DEF LaidOut, a
  <2>2. ASSUME NEW n \in 1 .. b, p = a + n PROVE IsEntry(messages, w[p])
    BY <1>1, <1>4, <2>2 DEF IsEntry
  <2> QED BY <1>5, <2>1, <2>2
<1>7. w[1].id = 1 /\ w[1].n = 1
  <2>1. CASE k = 1
    <3>1. a = 0 /\ 1 \in 1 .. b BY <1>1, <2>1 DEF a
    <3>2. a + 1 = 1 BY <3>1
    <3> QED BY <1>4, <2>1, <3>1, <3>2
  <2>2. CASE k # 1
    <3>1. a > 0 BY <2>2 DEF a
    <3>2. 1 \in 1 .. a BY <1>2, <3>1
    <3>3. s[1].id = 1 /\ s[1].n = 1 BY <3>1 DEF LaidOut, a
    <3> QED BY <1>3, <3>2, <3>3
  <2> QED BY <2>1, <2>2
<1>8. ASSUME NEW p \in 1 .. (a + b) - 1 PROVE NextEntry(messages, w[p], w[p + 1])
  <2>1. CASE p \in 1 .. a - 1
    <3>1. p \in 1 .. a /\ p + 1 \in 1 .. a BY <1>2, <2>1
    <3>2. NextEntry(messages, s[p], s[p + 1]) BY <2>1 DEF LaidOut, a
    <3> QED BY <1>3, <3>1, <3>2
  <2>2. CASE p = a
    <3>1. a \in 1 .. a /\ a > 0 /\ 1 \in 1 .. b BY <1>1, <1>2, <2>2
    <3>2. k # 1 BY <1>2, <3>1 DEF a
    <3>3. w[p] = s[a] /\ s[a].id = k - 1 /\ s[a].n = Len(Shape(messages[k - 1]))
      BY <1>3, <2>2, <3>1, <3>2 DEF a
    <3>4. w[p + 1].id = k /\ w[p + 1].n = 1 BY <1>4, <2>2, <3>1
    <3>5. (k - 1) + 1 = k OBVIOUS
    <3>6. Len(Shape(messages[k - 1])) \in Nat
      <4>1. k - 1 \in 1 .. Len(messages) BY <3>2
      <4>2. messages[k - 1] \in Messages BY <4>1
      <4> QED BY <4>2, ShapeLengths
    <3> QED BY <3>3, <3>4, <3>5, <3>6 DEF NextEntry
  <2>3. CASE p > a
    <3>1. PICK n \in 1 .. b : n + 1 \in 1 .. b /\ p = a + n /\ p + 1 = a + (n + 1)
      <4>1. a \in Nat /\ b \in Nat BY <1>1, <1>2
      <4> QED BY <2>3, <4>1, BeyondTheFirst
    <3>2. w[p].id = k /\ w[p].n = n /\ w[p + 1].id = k /\ w[p + 1].n = n + 1
      BY <1>4, <3>1
    <3>3. n < b BY <1>1, <3>1
    <3> QED BY <1>1, <3>2, <3>3 DEF NextEntry
  <2> QED BY <1>1, <1>2, <2>1, <2>2, <2>3
<1>9. w[a + b].id = k /\ w[a + b].n = b
  <2>1. b \in 1 .. b BY <1>1
  <2> QED BY <1>4, <2>1
<1>10. a + b > 0 BY <1>1, <1>2
<1> QED BY <1>1, <1>2, <1>6, <1>7, <1>8, <1>9, <1>10 DEF LaidOut, w, t

(* The log the server writes is laid out.                                  *)
LEMMA WrittenIsLaidOut ==
  ASSUME NEW messages \in Seq(Messages)
  PROVE  Written(messages) \in Seq(EntriesOfLog(messages)) /\ LaidOut(Written(messages), messages)
<1> DEFINE T == EntriesOfLog(messages)
           N == Len(messages)
           step == [k \in 1 .. N |-> [s \in Seq(T) |-> s \o LinesOf(messages[k], k)]]
           u == CHOOSE v : IsWritten(v, messages)
<1>1. N \in Nat BY LenProperties
<1>2. ASSUME NEW k \in 1 .. N, NEW s \in Seq(T)
      PROVE  s \o LinesOf(messages[k], k) \in Seq(T)
  BY LinesOfMessage, ConcatProperties
<1>3. \E v : IsWritten(v, messages)
  <2>1. step \in [1 .. N -> [Seq(T) -> Seq(T)]]
    <3>1. ASSUME NEW k \in 1 .. N
          PROVE  [s \in Seq(T) |-> s \o LinesOf(messages[k], k)] \in [Seq(T) -> Seq(T)]
      BY <1>2
    <3> QED BY <3>1
  <2> DEFINE Q == Seq(T)
             none == <<>>
  <2>2. none \in Q /\ step \in [1 .. N -> [Q -> Q]] BY <2>1
  <2> HIDE DEF step, T, N, Q, none
  <2>3. PICK v : v \in [0 .. N -> Q] /\ TakesSteps(v, N, none, step)
    BY <1>1, <2>2, StepByStep
  <2>4. ASSUME NEW k \in 0 .. N
        PROVE  v[k] = IF k = 0 THEN <<>> ELSE v[k - 1] \o LinesOf(messages[k], k)
    <3>1. CASE k = 0 BY <2>3, <3>1 DEF none, TakesSteps
    <3>2. CASE k # 0
      <4>1. k \in 1 .. N /\ k - 1 \in 0 .. N BY <1>1, <3>2
      <4>2. v[k - 1] \in Seq(T) BY <2>3, <4>1 DEF Q
      <4>3. step[k][v[k - 1]] = v[k - 1] \o LinesOf(messages[k], k)
        BY <4>1, <4>2 DEF step
      <4> QED BY <2>3, <3>2, <4>3 DEF TakesSteps
    <3> QED BY <3>1, <3>2
  <2>5. v = [k \in 0 .. N |-> v[k]] BY <2>3
  <2>6. v = [k \in 0 .. N |->
               IF k = 0 THEN <<>> ELSE v[k - 1] \o LinesOf(messages[k], k)]
    BY <2>4, <2>5
  <2> QED BY <2>6, Zenon DEF IsWritten, N
<1>4. IsWritten(u, messages) BY <1>3
<1>5. \A k \in 0 .. N :
        u[k] = IF k = 0 THEN <<>> ELSE u[k - 1] \o LinesOf(messages[k], k)
  <2> DEFINE Body1(k) == IF k = 0 THEN <<>> ELSE u[k - 1] \o LinesOf(messages[k], k)
  <2>1. u = [k \in 0 .. N |-> Body1(k)]
    <3> HIDE DEF u
    <3> QED BY <1>4, Zenon DEF IsWritten
  <2> HIDE DEF u, Body1
  <2>2. \A k \in 0 .. N : [x \in 0 .. N |-> Body1(x)][k] = Body1(k) OBVIOUS
  <2>3. \A k \in 0 .. N : u[k] = Body1(k) BY <2>1, <2>2, Zenon
  <2> QED BY <2>3 DEF Body1
<1> HIDE DEF u
<1> DEFINE Good(k) ==
             /\ u[k] \in Seq(T) /\ LaidOut(u[k], messages)
             /\ k = 0 => Len(u[k]) = 0
             /\ k # 0 => Len(u[k]) > 0 /\ u[k][Len(u[k])].id = k
                           /\ u[k][Len(u[k])].n = Len(Shape(messages[k]))
           S == {k \in Nat : k \in 0 .. N => Good(k)}
<1>6. 0 \in S
  <2>1. u[0] = <<>> BY <1>1, <1>5
  <2>2. Len(<<>>) = 0 /\ <<>> \in Seq(T) OBVIOUS
  <2>3. LaidOut(<<>>, messages) BY <2>2 DEF LaidOut
  <2> QED BY <2>1, <2>2, <2>3
<1>7. ASSUME NEW k \in Nat, k \in S PROVE k + 1 \in S
  <2> SUFFICES ASSUME k + 1 \in 0 .. N PROVE Good(k + 1) OBVIOUS
  <2>1. k \in 0 .. N /\ k + 1 \in 1 .. N /\ (k + 1) - 1 = k /\ k + 1 # 0 BY <1>1
  <2>2. Good(k) BY <1>7, <2>1
  <2>3. u[k + 1] = u[k] \o LinesOf(messages[k + 1], k + 1) BY <1>5, <2>1
  <2>4. /\ k + 1 = 1 => Len(u[k]) = 0
        /\ k + 1 # 1 => Len(u[k]) > 0 /\ u[k][Len(u[k])].id = (k + 1) - 1
             /\ u[k][Len(u[k])].n = Len(Shape(messages[(k + 1) - 1]))
    BY <2>1, <2>2
  <2>5. u[k] \in Seq(T) /\ LaidOut(u[k], messages) BY <2>2
  <2> DEFINE c == k + 1
  <2> HIDE DEF Good, c
  <2>6. /\ u[k + 1] \in Seq(T) /\ LaidOut(u[k + 1], messages)
        /\ Len(u[k + 1]) > 0 /\ u[k + 1][Len(u[k + 1])].id = k + 1
        /\ u[k + 1][Len(u[k + 1])].n = Len(Shape(messages[k + 1]))
    <3> HIDE DEF T
    <3>1. /\ c \in 1 .. N /\ u[c] = u[k] \o LinesOf(messages[c], c)
          /\ c = 1 => Len(u[k]) = 0
          /\ c # 1 => Len(u[k]) > 0 /\ u[k][Len(u[k])].id = c - 1
               /\ u[k][Len(u[k])].n = Len(Shape(messages[c - 1]))
      BY <2>1, <2>3, <2>4 DEF c
    <3>2. /\ u[c] \in Seq(T) /\ LaidOut(u[c], messages)
          /\ Len(u[c]) > 0 /\ u[c][Len(u[c])].id = c
          /\ u[c][Len(u[c])].n = Len(Shape(messages[c]))
      <4> DEFINE x == u[k]
      <4>1. x \in Seq(EntriesOfLog(messages)) /\ LaidOut(x, messages) BY <2>5 DEF T
      <4>2. /\ c \in 1 .. Len(messages)
            /\ c = 1 => Len(x) = 0
            /\ c # 1 => Len(x) > 0 /\ x[Len(x)].id = c - 1
                 /\ x[Len(x)].n = Len(Shape(messages[c - 1]))
        BY <3>1
      <4> HIDE DEF x
      <4>3. LET w == x \o LinesOf(messages[c], c)
            IN /\ w \in Seq(EntriesOfLog(messages)) /\ LaidOut(w, messages)
               /\ Len(w) > 0 /\ w[Len(w)].id = c
               /\ w[Len(w)].n = Len(Shape(messages[c]))
        BY <4>1, <4>2, OneMessageMore
      <4> QED BY <3>1, <4>3 DEF T, x
    <3> QED BY <3>2 DEF c
  <2> QED BY <2>1, <2>6 DEF Good
<1>8. N \in S
  <2> HIDE DEF S
  <2> QED BY <1>1, <1>6, <1>7, NatsByInduction
<1>9. N \in 0 .. N BY <1>1
<1>10. Written(messages) = u[N] BY WrittenUnfolds DEF u
<1> QED BY <1>8, <1>9, <1>10

(* What the parser is given is the log up to some line of its last message. *)
FileIsLaidOut ==
  /\ log \in Seq(Messages)
  /\ file \in Seq(EntriesOfLog(log)) /\ LaidOut(file, log)

LEMMA PrefixOneMore ==
  ASSUME NEW T, NEW s \in Seq(T), NEW p \in 0 .. Len(s) - 1
  PROVE  /\ SubSeq(s, 1, p) \in Seq(T) /\ s[p + 1] \in T
         /\ SubSeq(s, 1, p + 1) = Append(SubSeq(s, 1, p), s[p + 1])
<1>1. Len(s) \in Nat /\ p \in Nat /\ p + 1 \in 1 .. Len(s) /\ (p + 1) - 1 = p
  OBVIOUS
<1>2. s[p + 1] \in T BY <1>1
<1>3. SubSeq(s, 1, p) \in Seq(T)
  <2>1. \A i \in 1 .. p : s[i] \in T BY <1>1
  <2> QED BY <1>1, <2>1, SubSeqProperties
<1>4. SubSeq(s, 1, p + 1) = SubSeq(s, 1, p) \o <<s[p + 1]>>
  <2>1. 1 \in 1 .. Len(s) /\ p + 1 \in 1 .. Len(s) BY <1>1
  <2> QED BY <1>1, <2>1, SubSeqRecursiveSecond
<1>5. SubSeq(s, 1, p) \o <<s[p + 1]>> = Append(SubSeq(s, 1, p), s[p + 1])
  BY <1>2, <1>3
<1> QED BY <1>2, <1>3, <1>4, <1>5

LEMMA InitFile == ParserInit => FileIsLaidOut /\ Len(log) > 0
<1> SUFFICES ASSUME ParserInit PROVE FileIsLaidOut /\ Len(log) > 0 OBVIOUS
<1>1. log \in Seq(Messages) /\ Len(log) > 0
  <2>1. PICK n \in 1 .. MaxMessages : log \in [1 .. n -> Messages]
    BY DEF ParserInit
  <2>2. n \in Nat /\ n > 0 BY <2>1, ParserAssumption
  <2> QED BY <2>1, <2>2
<1> DEFINE w == Written(log)
<1>2. PICK length \in 0 .. Len(w) : file = SubSeq(w, 1, length)
  BY DEF ParserInit
<1>3. w \in Seq(EntriesOfLog(log)) /\ LaidOut(w, log) BY <1>1, WrittenIsLaidOut
<1> HIDE DEF w
<1>4. Len(w) \in Nat /\ \A i \in 1 .. Len(w) : w[i] \in EntriesOfLog(log)
  BY <1>3, LenProperties, ElementOfSeq
<1>5. /\ file \in Seq(EntriesOfLog(log)) /\ Len(file) = length
      /\ \A i \in 1 .. length : file[i] = w[i]
  <2>1. length \in Nat /\ \A i \in 1 .. length : w[i] \in EntriesOfLog(log)
    BY <1>4
  <2>2. /\ SubSeq(w, 1, length) \in Seq(EntriesOfLog(log))
        /\ Len(SubSeq(w, 1, length)) = IF 1 <= length THEN (length - 1) + 1 ELSE 0
        /\ \A i \in 1 .. (length - 1) + 1 : SubSeq(w, 1, length)[i] = w[(1 + i) - 1]
    BY <2>1, SubSeqProperties
  <2>3. ASSUME NEW i \in 1 .. length
        PROVE  i \in 1 .. (length - 1) + 1 /\ (1 + i) - 1 = i
    BY <2>1
  <2> QED BY <1>2, <2>1, <2>2, <2>3
<1>6. LaidOut(file, log)
  <2>1. ASSUME NEW p \in 1 .. length
        PROVE  p \in 1 .. Len(w) /\ file[p] = w[p]
    BY <1>4, <1>5
  <2>2. ASSUME NEW p \in 1 .. length - 1
        PROVE  /\ p \in 1 .. Len(w) - 1 /\ p \in 1 .. length /\ p + 1 \in 1 .. length
    BY <1>4
  <2>3. length > 0 => Len(w) > 0 /\ 1 \in 1 .. length BY <1>4
  <2> QED BY <1>3, <1>5, <2>1, <2>2, <2>3 DEF LaidOut
<1> QED BY <1>1, <1>5, <1>6 DEF FileIsLaidOut

(* Steps only read it.                                                     *)
LEMMA FileStays == [ParserNext]_parserVars => UNCHANGED <<log, file, max_plans>>
BY DEF ParserNext, parserVars, reset_with_builder, finish, process_continuation_line,
   Reads, stop_when_full, end_of_file, Stop

-----------------------------------------------------------------------------
(* The lines of an entry among those read.                                 *)
Wanted(id) ==
  {item \in ToSet(file) : item.id = id /\ item.n > 1 /\ item.l.k # "blank"}

Before(id, p) == Selected(SubSeq(file, 1, p), Wanted(id))

(* What a line is.                                                         *)
LEMMA LinesAre ==
  ASSUME FileIsLaidOut, NEW p \in 1 .. Len(file)
  PROVE  /\ file[p] \in EntriesOfLog(log) /\ file[p] \in ToSet(file)
         /\ IsEntry(log, file[p])
         /\ file[p].id \in 1 .. Len(log) /\ log[file[p].id] \in Messages
         /\ file[p].n \in 1 .. Len(Shape(log[file[p].id]))
         /\ file[p].l = Shape(log[file[p].id])[file[p].n]
<1>1. IsEntry(log, file[p]) BY DEF FileIsLaidOut, LaidOut
<1>2. file[p] \in EntriesOfLog(log) BY ElementOfSeq DEF FileIsLaidOut
<1>3. file[p] \in ToSet(file) BY DEF ToSet
<1>4. file[p].id \in 1 .. Len(log) BY <1>1 DEF IsEntry
<1>5. log[file[p].id] \in Messages
  BY <1>4, ElementOfSeq DEF FileIsLaidOut
<1>6. file[p].l = Shape(log[file[p].id])[file[p].n]
  BY <1>1, EntryFields DEF IsEntry
<1> QED BY <1>1, <1>2, <1>3, <1>4, <1>5, <1>6 DEF IsEntry

LEMMA BeforeSteps ==
  ASSUME FileIsLaidOut, NEW id, NEW p \in 0 .. Len(file) - 1
  PROVE  LET item == file[p + 1]
         IN /\ Before(id, p) \in Seq(EntriesOfLog(log))
            /\ Before(id, p + 1) =
                 IF item.id = id /\ item.n > 1 /\ item.l.k # "blank"
                 THEN Append(Before(id, p), item) ELSE Before(id, p)
<1> DEFINE item == file[p + 1]
           s == SubSeq(file, 1, p)
           T == EntriesOfLog(log)
<1>1. file \in Seq(T) BY DEF FileIsLaidOut
<1>2. s \in Seq(T) /\ item \in T /\ SubSeq(file, 1, p + 1) = Append(s, item)
  BY <1>1, PrefixOneMore
<1>3. p + 1 \in 1 .. Len(file) BY <1>1, LenProperties
<1>4. item \in Wanted(id) <=> item.id = id /\ item.n > 1 /\ item.l.k # "blank"
  BY <1>3, LinesAre DEF Wanted
<1> HIDE DEF T, s, item
<1>5. /\ Selected(s, Wanted(id)) \in Seq(T)
      /\ Selected(Append(s, item), Wanted(id)) =
           IF item \in Wanted(id) THEN Append(Selected(s, Wanted(id)), item)
           ELSE Selected(s, Wanted(id))
  BY <1>2, SelectedAppend
<1>6. Before(id, p) = Selected(s, Wanted(id)) BY DEF Before, s
<1>7. Before(id, p + 1) = Selected(Append(s, item), Wanted(id))
  BY <1>2 DEF Before
<1> QED BY <1>4, <1>5, <1>6, <1>7 DEF T, item

LEMMA BeforeEnds ==
  ASSUME FileIsLaidOut, NEW id
  PROVE  Before(id, 0) = <<>> /\ Before(id, Len(file)) = Body(id)
<1>1. SubSeq(file, 1, 0) = <<>> BY SubSeqEmpty
<1>2. SubSeq(file, 1, Len(file)) = file BY SubSeqFull DEF FileIsLaidOut
<1> QED BY <1>1, <1>2, SelectedEmpty DEF Before, Body, Wanted

(* An entry that has ended has no lines further on.                        *)
LEMMA EntryIsRead ==
  ASSUME FileIsLaidOut, NEW id, NEW p \in 1 .. Len(file),
         \/ id < file[p].id
         \/ id = file[p].id /\ file[p].n = Len(Shape(log[id])),
         id \in Nat
  PROVE  Before(id, p) = Body(id)
<1> DEFINE Past(q) == \/ id < file[q].id
                      \/ id = file[q].id /\ file[q].n = Len(Shape(log[id]))
           S == {k \in Nat : p + k \in p .. Len(file) =>
                   Past(p + k) /\ Before(id, p + k) = Before(id, p)}
<1>0. p \in Nat /\ Len(file) \in Nat /\ p <= Len(file)
  BY LenProperties DEF FileIsLaidOut
<1>1. 0 \in S
  <2>1. p + 0 = p BY <1>0
  <2> QED BY <2>1
<1>2. ASSUME NEW k \in Nat, k \in S PROVE k + 1 \in S
  <2> DEFINE q == p + k
  <2>0. p + (k + 1) = q + 1 BY <1>0
  <2> SUFFICES ASSUME q + 1 \in p .. Len(file)
               PROVE  Past(q + 1) /\ Before(id, q + 1) = Before(id, p)
    BY <2>0
  <2>1. q \in p .. Len(file) /\ q \in 1 .. Len(file) - 1 /\ q \in 0 .. Len(file) - 1
        /\ q \in 1 .. Len(file) /\ q + 1 \in 1 .. Len(file)
    BY <1>0
  <2>2. Past(q) /\ Before(id, q) = Before(id, p) BY <1>2, <2>1
  <2> HIDE DEF q
  <2>3. NextEntry(log, file[q], file[q + 1]) BY <2>1 DEF FileIsLaidOut, LaidOut
  <2>4. file[q].id \in Nat /\ file[q + 1].id \in Nat
    <3>1. \A i \in 1 .. Len(log) : i \in Nat OBVIOUS
    <3>2. file[q].id \in 1 .. Len(log) BY <2>1, LinesAre
    <3>3. file[q + 1].id \in 1 .. Len(log)
      <4> DEFINE r == q + 1
      <4>1. r \in 1 .. Len(file) BY <2>1
      <4> HIDE DEF r
      <4>2. file[r].id \in 1 .. Len(log) BY <4>1, LinesAre
      <4> QED BY <4>2 DEF r
    <3> QED BY <3>1, <3>2, <3>3
  <2>5. id < file[q + 1].id
    <3>1. CASE id < file[q].id BY <2>3, <2>4, <3>1 DEF NextEntry
    <3>2. CASE id = file[q].id /\ file[q].n = Len(Shape(log[id]))
      <4>1. log[id] \in Messages BY <2>1, <3>2, LinesAre
      <4>2. ~(file[q].n < Len(Shape(log[file[q].id]))) BY <3>2, <4>1, ShapeLengths
      <4> QED BY <2>3, <2>4, <3>2, <4>2 DEF NextEntry
    <3> QED BY <2>2, <3>1, <3>2
  <2>6. file[q + 1].id # id BY <2>4, <2>5
  <2>7. Before(id, q + 1) = Before(id, q) BY <2>1, <2>6, BeforeSteps
  <2> QED BY <2>2, <2>5, <2>7
<1>3. \A k \in Nat : k \in S
  <2> HIDE DEF S
  <2> QED BY <1>1, <1>2, NatsByInduction
<1> DEFINE k == Len(file) - p
<1>4. k \in Nat /\ p + k = Len(file) /\ p + k \in p .. Len(file) BY <1>0
<1>5. Before(id, p + k) = Before(id, p)
  <2> HIDE DEF k
  <2> QED BY <1>3, <1>4
<1> QED BY <1>4, <1>5, BeforeEnds

-----------------------------------------------------------------------------
(* Where the parser is after n lines of a message, and the brackets then   *)
(* open.                                                                   *)
JsonForms == {"json", "query_json"}
BracketForms == {"array", "refused_json"}
Forms == {"text", "two_lines", "long_line", "subscript", "refused_text"}
           \cup BracketForms \cup JsonForms

Stage(m, n) ==
  IF n = 1 THEN "WaitingForQuery"
  ELSE IF \/ m = "json" /\ n \in {2, 3}
          \/ m \in BracketForms \cup {"query_json"} /\ n = 3 THEN "ParsingJsonPlan"
  ELSE IF m \in JsonForms /\ n = 4 THEN "None"
  ELSE IF \/ m \in {"text", "refused_text"} /\ n > 2
          \/ m \in {"long_line", "subscript"} /\ n = 4
          \/ n = 5 THEN "ParsingTextPlan"
  ELSE "ParsingQuery"

OpenBrackets(m, n) ==
  IF Stage(m, n) # "ParsingJsonPlan" THEN 0 ELSE IF m = "json" /\ n = 3 THEN 2 ELSE 1

(* The next line of a message, by what the parser does with it.            *)
TakesQuery(m, n, l) ==
  /\ n = 1 /\ l.k = "query" /\ Stage(m, n + 1) = "ParsingQuery" /\ ~l.plan /\ m # "json"
AddsToQuery(m, n, l) ==
  /\ Stage(m, n) = "ParsingQuery" /\ Stage(m, n + 1) = "ParsingQuery"
  /\ l.k = "text" /\ ~l.plan /\ m \notin JsonForms
BracketsInQuery(m, n, l) ==
  /\ Stage(m, n) = "ParsingQuery" /\ Stage(m, n + 1) = "ParsingQuery"
  /\ l.k = "json" /\ l.balance = 0 /\ ~l.plan /\ m \notin JsonForms
BlankInQuery(m, n, l) ==
  /\ Stage(m, n) = "ParsingQuery" /\ Stage(m, n + 1) = "ParsingQuery"
  /\ l.k = "blank" /\ m \notin JsonForms
StartsText(m, n, l) ==
  /\ Stage(m, n) = "ParsingQuery" /\ Stage(m, n + 1) = "ParsingTextPlan"
  /\ l.k = "plan" /\ m \notin JsonForms
AddsToText(m, n, l) ==
  /\ Stage(m, n) = "ParsingTextPlan" /\ Stage(m, n + 1) = "ParsingTextPlan"
  /\ l.k \in {"text", "refused"} /\ m \notin JsonForms
StartsBrackets(m, n, l) ==
  /\ Stage(m, n) = "ParsingQuery" /\ Stage(m, n + 1) = "ParsingJsonPlan"
  /\ l.k = "json" /\ l.balance = 1 /\ OpenBrackets(m, n + 1) = 1
  /\ m # "json" /\ (l.plan <=> m \in JsonForms)
StartsJson(m, n, l) ==
  /\ n = 1 /\ Stage(m, n + 1) = "ParsingJsonPlan" /\ OpenBrackets(m, n + 1) = 1
  /\ l.k = "json" /\ l.balance = 1 /\ l.plan /\ m = "json"
AddsToJson(m, n, l) ==
  /\ Stage(m, n) = "ParsingJsonPlan" /\ Stage(m, n + 1) = "ParsingJsonPlan"
  /\ OpenBrackets(m, n) + l.balance = OpenBrackets(m, n + 1) /\ OpenBrackets(m, n + 1) > 0
  /\ l.k = "text" /\ l.balance \in Int /\ l.plan /\ m = "json"
ClosesBrackets(m, n, l) ==
  /\ Stage(m, n) = "ParsingJsonPlan" /\ Stage(m, n + 1) = "ParsingQuery"
  /\ OpenBrackets(m, n) + l.balance = 0
  /\ l.k = "text" /\ l.balance \in Int /\ ~l.plan /\ m \in BracketForms
ClosesJson(m, n, l) ==
  /\ Stage(m, n) = "ParsingJsonPlan" /\ Stage(m, n + 1) = "None"
  /\ OpenBrackets(m, n) + l.balance = 0
  /\ l.k = "text" /\ l.balance \in Int /\ l.plan /\ m \in JsonForms /\ n + 1 = Len(Shape(m))

WhatFollows(m, n, l) ==
  \/ TakesQuery(m, n, l) \/ AddsToQuery(m, n, l) \/ BracketsInQuery(m, n, l)
  \/ BlankInQuery(m, n, l) \/ StartsText(m, n, l) \/ AddsToText(m, n, l)
  \/ StartsBrackets(m, n, l) \/ StartsJson(m, n, l) \/ AddsToJson(m, n, l)
  \/ ClosesBrackets(m, n, l) \/ ClosesJson(m, n, l)

LEMMA SmallNumbers ==
  ASSUME NEW n \in Nat \ {0}, NEW L, n + 1 <= L
  PROVE  (L = 4 => n \in {1, 2, 3}) /\ (L = 5 => n \in {1, 2, 3, 4})
OBVIOUS

LEMMA EveryLineFollows ==
  ASSUME NEW m \in Forms, NEW n \in Nat \ {0}, n + 1 <= Len(Shape(m))
  PROVE  WhatFollows(m, n, Shape(m)[n + 1])
<1> DEFINE Fours == {"text", "long_line", "subscript", "json", "query_json",
                     "refused_text", "refused_json"}
<1>1. m \in Fours => n \in {1, 2, 3}
  <2>1. m \in Fours => Len(Shape(m)) = 4
    BY ShapeText, ShapeLongLine, ShapeSubscript, ShapeJson, ShapeQueryJson,
       ShapeRefusedText, ShapeRefusedJson
  <2> QED BY <2>1, SmallNumbers
<1>2. m \in {"two_lines", "array"} => n \in {1, 2, 3, 4}
  <2>1. m \in {"two_lines", "array"} => Len(Shape(m)) = 5 BY ShapeTwoLines, ShapeArray
  <2> QED BY <2>1, SmallNumbers
<1> USE DEF WhatFollows, Stage, OpenBrackets, JsonForms, BracketForms, Kinds, TakesQuery, AddsToQuery,
        BracketsInQuery, BlankInQuery, StartsText, AddsToText, StartsBrackets,
        StartsJson, AddsToJson, ClosesBrackets, ClosesJson
<1>3. CASE m = "text"
  <2>1. CASE n = 1 BY <1>3, <2>1, ShapeText
  <2>2. CASE n = 2 BY <1>3, <2>2, ShapeText
  <2>3. CASE n = 3 BY <1>3, <2>3, ShapeText
  <2> QED BY <1>1, <1>2, <1>3, <2>1, <2>2, <2>3
<1>4. CASE m = "two_lines"
  <2>1. CASE n = 1 BY <1>4, <2>1, ShapeTwoLines
  <2>2. CASE n = 2 BY <1>4, <2>2, ShapeTwoLines
  <2>3. CASE n = 3 BY <1>4, <2>3, ShapeTwoLines
  <2>4. CASE n = 4 BY <1>4, <2>4, ShapeTwoLines
  <2> QED BY <1>1, <1>2, <1>4, <2>1, <2>2, <2>3, <2>4
<1>5. CASE m = "long_line"
  <2>1. CASE n = 1 BY <1>5, <2>1, ShapeLongLine
  <2>2. CASE n = 2 BY <1>5, <2>2, ShapeLongLine
  <2>3. CASE n = 3 BY <1>5, <2>3, ShapeLongLine
  <2> QED BY <1>1, <1>2, <1>5, <2>1, <2>2, <2>3
<1>6. CASE m = "subscript"
  <2>1. CASE n = 1 BY <1>6, <2>1, ShapeSubscript
  <2>2. CASE n = 2 BY <1>6, <2>2, ShapeSubscript
  <2>3. CASE n = 3 BY <1>6, <2>3, ShapeSubscript
  <2> QED BY <1>1, <1>2, <1>6, <2>1, <2>2, <2>3
<1>7. CASE m = "array"
  <2>1. CASE n = 1 BY <1>7, <2>1, ShapeArray
  <2>2. CASE n = 2 BY <1>7, <2>2, ShapeArray
  <2>3. CASE n = 3 BY <1>7, <2>3, ShapeArray
  <2>4. CASE n = 4 BY <1>7, <2>4, ShapeArray
  <2> QED BY <1>1, <1>2, <1>7, <2>1, <2>2, <2>3, <2>4
<1>8. CASE m = "json"
  <2>1. CASE n = 1 BY <1>8, <2>1, ShapeJson
  <2>2. CASE n = 2 BY <1>8, <2>2, ShapeJson
  <2>3. CASE n = 3 BY <1>8, <2>3, ShapeJson
  <2> QED BY <1>1, <1>2, <1>8, <2>1, <2>2, <2>3
<1>9. CASE m = "query_json"
  <2>1. CASE n = 1 BY <1>9, <2>1, ShapeQueryJson
  <2>2. CASE n = 2 BY <1>9, <2>2, ShapeQueryJson
  <2>3. CASE n = 3 BY <1>9, <2>3, ShapeQueryJson
  <2> QED BY <1>1, <1>2, <1>9, <2>1, <2>2, <2>3
<1>10. CASE m = "refused_text"
  <2>1. CASE n = 1 BY <1>10, <2>1, ShapeRefusedText
  <2>2. CASE n = 2 BY <1>10, <2>2, ShapeRefusedText
  <2>3. CASE n = 3 BY <1>10, <2>3, ShapeRefusedText
  <2> QED BY <1>1, <1>10, <2>1, <2>2, <2>3
<1>11. CASE m = "refused_json"
  <2>1. CASE n = 1 BY <1>11, <2>1, ShapeRefusedJson
  <2>2. CASE n = 2 BY <1>11, <2>2, ShapeRefusedJson
  <2>3. CASE n = 3 BY <1>11, <2>3, ShapeRefusedJson
  <2> QED BY <1>1, <1>11, <2>1, <2>2, <2>3
<1> QED BY <1>3, <1>4, <1>5, <1>6, <1>7, <1>8, <1>9, <1>10, <1>11 DEF Forms

-----------------------------------------------------------------------------
(* The texts of lines.                                                     *)
TextsIn(T) == {TextOf(e) : e \in T}

LEMMA TextsOfIs ==
  ASSUME NEW T, NEW s \in Seq(T)
  PROVE  /\ TextsOf(s) \in Seq(TextsIn(T)) /\ Len(TextsOf(s)) = Len(s)
         /\ \A i \in 1 .. Len(s) : TextsOf(s)[i] = TextOf(s[i])
<1>1. Len(s) \in Nat /\ \A i \in 1 .. Len(s) : s[i] \in T BY LenProperties
<1>2. \A i \in 1 .. Len(s) : TextOf(s[i]) \in TextsIn(T) BY <1>1 DEF TextsIn
<1>3. TextsOf(s) \in [1 .. Len(s) -> TextsIn(T)] BY <1>2 DEF TextsOf
<1>4. TextsOf(s) \in Seq(TextsIn(T)) BY <1>1, <1>3, SeqDef
<1>5. DOMAIN TextsOf(s) = 1 .. Len(s) BY DEF TextsOf
<1>6. Len(TextsOf(s)) = Len(s)
  <2>1. Len(TextsOf(s)) \in Nat /\ DOMAIN TextsOf(s) = 1 .. Len(TextsOf(s))
    BY <1>4, LenProperties
  <2> HIDE DEF TextsIn
  <2> QED BY <1>1, <1>5, <2>1
<1> QED BY <1>4, <1>6 DEF TextsOf

LEMMA TextsOfConcat ==
  ASSUME NEW T, NEW s \in Seq(T), NEW t \in Seq(T)
  PROVE  TextsOf(s \o t) = TextsOf(s) \o TextsOf(t)
<1> DEFINE a == TextsOf(s)
           b == TextsOf(t)
           c == TextsOf(s \o t)
           X == TextsIn(T)
<1>1. /\ a \in Seq(X) /\ Len(a) = Len(s) /\ \A i \in 1 .. Len(s) : a[i] = TextOf(s[i])
      /\ b \in Seq(X) /\ Len(b) = Len(t) /\ \A i \in 1 .. Len(t) : b[i] = TextOf(t[i])
      /\ Len(s) \in Nat /\ Len(t) \in Nat
  BY TextsOfIs, LenProperties
<1>2. /\ s \o t \in Seq(T) /\ Len(s \o t) = Len(s) + Len(t)
      /\ \A i \in 1 .. Len(s) + Len(t) :
           (s \o t)[i] = IF i <= Len(s) THEN s[i] ELSE t[i - Len(s)]
  BY ConcatProperties
<1>3. /\ c \in Seq(X) /\ Len(c) = Len(s) + Len(t)
      /\ \A i \in 1 .. Len(s) + Len(t) : c[i] = TextOf((s \o t)[i])
  BY <1>2, TextsOfIs
<1> HIDE DEF a, b, c, X
<1>4. /\ a \o b \in Seq(X) /\ Len(a \o b) = Len(s) + Len(t)
      /\ \A i \in 1 .. Len(s) + Len(t) :
           (a \o b)[i] = IF i <= Len(s) THEN a[i] ELSE b[i - Len(s)]
  <2>1. /\ a \o b \in Seq(X) /\ Len(a \o b) = Len(a) + Len(b)
        /\ \A i \in 1 .. Len(a) + Len(b) :
             (a \o b)[i] = IF i <= Len(a) THEN a[i] ELSE b[i - Len(a)]
    <3>1. a \in Seq(X) /\ b \in Seq(X) BY <1>1
    <3> QED BY <3>1, ConcatProperties
  <2> QED BY <1>1, <2>1
<1>5. ASSUME NEW i \in 1 .. Len(s) + Len(t) PROVE c[i] = (a \o b)[i]
  <2>1. CASE i <= Len(s)
    <3>1. i \in 1 .. Len(s) BY <1>1, <2>1
    <3> QED BY <1>1, <1>2, <1>3, <1>4, <3>1
  <2>2. CASE ~(i <= Len(s))
    <3>1. i - Len(s) \in 1 .. Len(t) BY <1>1, <2>2
    <3> QED BY <1>1, <1>2, <1>3, <1>4, <2>2, <3>1
  <2> QED BY <2>1, <2>2
<1>6. c = a \o b BY <1>3, <1>4, <1>5, SeqEqual
<1> QED BY <1>6 DEF a, b, c

LEMMA TextsOfOne ==
  ASSUME NEW T, NEW e \in T
  PROVE  TextsOf(<<e>>) = <<TextOf(e)>> /\ TextsOf(<<>>) = <<>>
BY DEF TextsOf

LEMMA TextsOfAppend ==
  ASSUME NEW T, NEW s \in Seq(T), NEW e \in T
  PROVE  TextsOf(Append(s, e)) = Append(TextsOf(s), TextOf(e))
<1>1. <<e>> \in Seq(T) /\ Append(s, e) = s \o <<e>> OBVIOUS
<1>2. TextsOf(s \o <<e>>) = TextsOf(s) \o TextsOf(<<e>>) BY <1>1, TextsOfConcat
<1>3. TextsOf(s) \in Seq(TextsIn(T)) /\ TextOf(e) \in TextsIn(T)
  BY TextsOfIs DEF TextsIn
<1>4. TextsOf(s) \o <<TextOf(e)>> = Append(TextsOf(s), TextOf(e))
  <2> HIDE DEF TextsIn
  <2> QED BY <1>3
<1> QED BY <1>1, <1>2, <1>4, TextsOfOne

-----------------------------------------------------------------------------
(* What the builder holds of an entry after n lines of it: its lines, the  *)
(* ones before the plan in the query.                                      *)
Builders(T) ==
  [id : Nat, query : Seq(TextsIn(T)), content : Seq(T), depth : Int]

OfTheQuery(x) == ~OfThePlan(x) /\ x.l.k # "refused"

BeforeThePlan(before, m, n) ==
  /\ \A i \in 1 .. Len(before) : OfTheQuery(before[i])
  /\ before = <<>> <=> n = 1 \/ m = "json"
  /\ before # <<>> => before[1].n = 2

IsContent(holding, m, n) ==
  /\ holding = <<>> <=> Stage(m, n) \in {"WaitingForQuery", "ParsingQuery"}
  /\ \A i \in 1 .. Len(holding) :
       /\ m # "json" => holding[i].n > 2
       /\ m \in JsonForms => holding[i].l.plan
       /\ m \in BracketForms /\ Stage(m, n) = "ParsingJsonPlan" => OfTheQuery(holding[i])
  /\ Stage(m, n) = "ParsingTextPlan" => OfThePlan(holding[1])

Holds(T, b, m, n, lines) ==
  /\ b \in Builders(T) /\ b.depth = OpenBrackets(m, n)
  /\ \E before \in Seq(T) : /\ lines = before \o b.content
                            /\ b.query = TextsOf(before) /\ BeforeThePlan(before, m, n)
  /\ IsContent(b.content, m, n)
  /\ m \in JsonForms => Len(lines) = n - 1

(* A plan is of all lines of its entry, and its content starts where the   *)
(* plan does.                                                              *)
OfTheEntry(plan, lines) ==
  LET first == {n \in 1 .. Len(lines) : OfThePlan(lines[n])}
  IN /\ LinesOfPlan(plan) = TextsOf(lines)
     /\ first # {}
     /\ plan.content[1] = TextOf(lines[CHOOSE n \in first : \A k \in first : n <= k])

(* Where the lines before the plan end, the plan starts.                   *)
LEMMA FirstOfThePlan ==
  ASSUME NEW T, NEW before \in Seq(T), NEW holding \in Seq(T), Len(holding) > 0,
         \A i \in 1 .. Len(before) : ~OfThePlan(before[i]), OfThePlan(holding[1])
  PROVE  LET lines == before \o holding
             first == {n \in 1 .. Len(lines) : OfThePlan(lines[n])}
         IN /\ first # {}
            /\ lines[CHOOSE n \in first : \A k \in first : n <= k] = holding[1]
<1> DEFINE lines == before \o holding
           a == Len(before)
           first == {n \in 1 .. Len(lines) : OfThePlan(lines[n])}
<1>1. /\ Len(lines) = a + Len(holding) /\ a \in Nat /\ Len(holding) \in Nat
      /\ \A i \in 1 .. a + Len(holding) :
           lines[i] = IF i <= a THEN before[i] ELSE holding[i - a]
  BY ConcatProperties, LenProperties
<1> HIDE DEF lines, a
<1>2. a + 1 \in 1 .. a + Len(holding) /\ ~(a + 1 <= a) /\ (a + 1) - a = 1 BY <1>1
<1>3. lines[a + 1] = holding[1] BY <1>1, <1>2
<1>4. a + 1 \in first BY <1>1, <1>2, <1>3
<1>5. \A k \in first : k \in Nat /\ a + 1 <= k
  <2> SUFFICES ASSUME NEW k \in first PROVE k \in Nat /\ a + 1 <= k OBVIOUS
  <2>1. k \in 1 .. a + Len(holding) /\ OfThePlan(lines[k]) BY <1>1
  <2>2. k <= a => k \in 1 .. a /\ lines[k] = before[k] BY <1>1, <2>1
  <2>3. ~(k <= a) BY <2>1, <2>2 DEF a
  <2> QED BY <1>1, <2>1, <2>3
<1> DEFINE c == CHOOSE n \in first : \A k \in first : n <= k
<1>6. c \in first /\ \A k \in first : c <= k
  <2> HIDE DEF first
  <2> QED BY <1>4, <1>5
<1>7. c = a + 1
  <2> HIDE DEF c, first
  <2> QED BY <1>1, <1>4, <1>5, <1>6
<1> HIDE DEF c
<1> QED BY <1>3, <1>4, <1>7 DEF lines, first, c

(* A plan made of a builder: under its query, or under its first line.     *)
LEMMA PlanWithQuery ==
  ASSUME NEW T, NEW before \in Seq(T), NEW holding \in Seq(T), Len(holding) > 0,
         \A i \in 1 .. Len(before) : ~OfThePlan(before[i]), OfThePlan(holding[1]),
         before # <<>>, before[1].n = 2, holding[1].n # 2,
         NEW plan, plan.query = TextsOf(before), plan.content = TextsOf(holding)
  PROVE  OfTheEntry(plan, before \o holding)
<1>1. /\ Len(before) \in Nat /\ Len(before) > 0 /\ 1 \in 1 .. Len(before)
      /\ Len(holding) \in Nat /\ 1 \in 1 .. Len(holding)
  <2>1. Len(before) \in Nat /\ Len(holding) \in Nat BY LenProperties
  <2>2. Len(before) > 0 BY EmptySeq, <2>1
  <2> QED BY <2>1, <2>2
<1>2. TextsOf(before)[1] = TextOf(before[1]) /\ TextsOf(holding)[1] = TextOf(holding[1])
      /\ Len(TextsOf(holding)) = Len(holding)
      /\ TextsOf(holding) \in Seq(TextsIn(T))
  BY <1>1, TextsOfIs
<1>3. SubSeq(TextsOf(holding), 1, 1)[1] = TextsOf(holding)[1]
  <2> DEFINE t == TextsOf(holding)
             X == TextsIn(T)
  <2>1. \A i \in 1 .. 1 : t[i] \in X
    <3>1. 1 \in 1 .. Len(t) /\ t \in Seq(X) BY <1>1, <1>2
    <3> HIDE DEF t, X
    <3> QED BY <3>1
  <2> HIDE DEF t, X
  <2>2. \A i \in 1 .. (1 - 1) + 1 : SubSeq(t, 1, 1)[i] = t[(1 + i) - 1]
    BY <2>1, SubSeqProperties
  <2>3. 1 \in 1 .. (1 - 1) + 1 /\ (1 + 1) - 1 = 1 OBVIOUS
  <2>4. SubSeq(t, 1, 1)[1] = t[1] BY <2>2, <2>3
  <2> QED BY <2>4 DEF t
<1>4. TextOf(before[1]) # TextOf(holding[1])
  <2>1. TextOf(before[1])[2] = 2 /\ TextOf(holding[1])[2] = holding[1].n BY DEF TextOf
  <2> QED BY <2>1
<1>5. plan.query # SubSeq(plan.content, 1, 1) BY <1>2, <1>3, <1>4
<1>6. LinesOfPlan(plan) = TextsOf(before \o holding)
  BY <1>5, TextsOfConcat DEF LinesOfPlan
<1>7. plan.content[1] = TextOf(holding[1]) BY <1>2
<1> DEFINE w == before \o holding
           first == {n \in 1 .. Len(w) : OfThePlan(w[n])}
<1>8. first # {} /\ w[CHOOSE n \in first : \A k \in first : n <= k] = holding[1]
  BY FirstOfThePlan
<1>9. LinesOfPlan(plan) = TextsOf(w) BY <1>6
<1> HIDE DEF w
<1>10. OfTheEntry(plan, w) BY <1>7, <1>8, <1>9 DEF OfTheEntry
<1> QED BY <1>10 DEF w

LEMMA PlanWithItsLine ==
  ASSUME NEW T, NEW holding \in Seq(T), Len(holding) > 0, OfThePlan(holding[1]),
         NEW plan, plan.query = <<TextOf(holding[1])>>, plan.content = TextsOf(holding)
  PROVE  OfTheEntry(plan, holding)
<1>1. Len(holding) \in Nat /\ 1 \in 1 .. Len(holding)
  <2>1. Len(holding) \in Nat BY LenProperties
  <2> QED BY <2>1
<1> DEFINE t == TextsOf(holding)
           X == TextsIn(T)
<1>2. t \in Seq(X) /\ Len(t) = Len(holding) /\ t[1] = TextOf(holding[1])
  BY <1>1, TextsOfIs
<1> HIDE DEF t, X
<1>3. SubSeq(t, 1, 1) = <<t[1]>>
  <2>1. 1 \in 1 .. Len(t) BY <1>1, <1>2
  <2>2. SubSeq(t, 1, 1) = <<t[1]>> \o SubSeq(t, 2, 1)
    <3>1. 1 \in 1 .. Len(t) /\ 1 \in 1 .. Len(t) /\ 1 + 1 = 2 BY <2>1
    <3>2. 1 \in 1 .. Len(t) => SubSeq(t, 1, 1) = <<t[1]>> \o SubSeq(t, 1 + 1, 1)
      <4>1. Len(t) \in Nat BY <1>1, <1>2
      <4>2. 1 \in 1 .. Len(t) => 1 \in 1 .. Len(t) OBVIOUS
      <4> QED BY <1>2, <4>1, SubSeqRecursiveFirst
    <3> QED BY <3>1, <3>2
  <2>3. SubSeq(t, 2, 1) = <<>> BY SubSeqEmpty
  <2>4. <<t[1]>> \in Seq(X) BY <1>2, <2>1
  <2> QED BY <2>2, <2>3, <2>4, ConcatEmptySeq
<1>4. LinesOfPlan(plan) = TextsOf(holding) BY <1>2, <1>3 DEF LinesOfPlan, t
<1>5. <<>> \in Seq(T) /\ Len(<<>>) = 0 OBVIOUS
<1>6. <<>> \o holding = holding BY ConcatEmptySeq
<1>7. LET first == {n \in 1 .. Len(holding) : OfThePlan(holding[n])}
      IN /\ first # {}
         /\ holding[CHOOSE n \in first : \A k \in first : n <= k] = holding[1]
  BY <1>5, <1>6, FirstOfThePlan
<1> QED BY <1>2, <1>4, <1>7 DEF OfTheEntry, t

-----------------------------------------------------------------------------
(* What a line does to what is held.                                       *)
AfterLine(s, b, item) ==
  IF item.l.k = "blank" THEN To(s, b) ELSE advance_continuation(s, b, item)
LinesAfter(lines, item) == IF item.l.k = "blank" THEN lines ELSE Append(lines, item)

GoesOn(T, o, b, m, n, lines) ==
  /\ o.plan = <<>> /\ o.state = Stage(m, n) /\ o.state # "None"
  /\ o.builder.id = b.id /\ Holds(T, o.builder, m, n, lines)
IsAccepted(o, b, m, n, lines) ==
  /\ m \in JsonForms /\ n = Len(Shape(m)) /\ Len(lines) = n - 1
  /\ o.state = "None" /\ o.builder = NoBuilder
  /\ \E plan : o.plan = <<plan>> /\ plan.id = b.id /\ OfTheEntry(plan, lines)

OneMore(T, s, e, t) ==
  /\ t \in Seq(T) /\ t # <<>> /\ Len(t) = Len(s) + 1 /\ Len(s) \in Nat
  /\ \A i \in 1 .. Len(t) : (i \in 1 .. Len(s) /\ t[i] = s[i]) \/ t[i] = e
  /\ s # <<>> => t[1] = s[1]
  /\ s = <<>> => t = <<e>> /\ t[1] = e

LEMMA OneLineMore ==
  ASSUME NEW T, NEW s \in Seq(T), NEW e \in T
  PROVE  OneMore(T, s, e, Append(s, e))
<1> DEFINE t == Append(s, e)
<1>1. /\ t \in Seq(T) /\ Len(t) = Len(s) + 1 /\ Len(s) \in Nat
      /\ \A i \in 1 .. Len(s) : t[i] = s[i]
      /\ t[Len(s) + 1] = e
  BY AppendProperties
<1>2. s # <<>> => Len(s) > 0 BY EmptySeq, <1>1
<1>3. s = <<>> => t = <<e>> OBVIOUS
<1> HIDE DEF t
<1>4. t # <<>>
  <2>1. Len(t) > 0 /\ Len(<<>>) = 0 BY <1>1
  <2> QED BY <2>1
<1>5. s # <<>> => t[1] = s[1] BY <1>1, <1>2
<1>6. s = <<>> => t[1] = e BY <1>3
<1>7. \A i \in 1 .. Len(t) : (i \in 1 .. Len(s) /\ t[i] = s[i]) \/ t[i] = e
  <2> SUFFICES ASSUME NEW i \in 1 .. Len(t)
               PROVE  (i \in 1 .. Len(s) /\ t[i] = s[i]) \/ t[i] = e
    OBVIOUS
  <2>1. i \in 1 .. Len(s) \/ i = Len(s) + 1 BY <1>1
  <2> QED BY <1>1, <2>1
<1> QED BY <1>1, <1>3, <1>4, <1>5, <1>6, <1>7 DEF t, OneMore

(* The fields of a builder after each operation.                           *)
Fields(T, c, id, query, holding, depth) ==
  /\ c \in Builders(T) /\ c.id = id /\ c.query = query /\ c.content = holding
  /\ c.depth = depth

LEMMA BuilderOperations ==
  ASSUME NEW T, NEW b \in Builders(T), NEW item \in T
  PROVE  /\ Fields(T, set_query_text(b, item), b.id, <<TextOf(item)>>, b.content, b.depth)
         /\ Fields(T, append_query_line(b, item), b.id, Append(b.query, TextOf(item)),
                   b.content, b.depth)
         /\ Fields(T, [b EXCEPT !.content = Append(@, item)], b.id, b.query,
                   Append(b.content, item), b.depth)
         /\ \A d \in Int :
              Fields(T, [b EXCEPT !.content = Append(@, item), !.depth = @ + d],
                     b.id, b.query, Append(b.content, item), b.depth + d)
         /\ Fields(T, into_query_builder(b), b.id, b.query \o TextsOf(b.content), <<>>, 0)
<1> DEFINE X == TextsIn(T)
<1>1. TextOf(item) \in X BY DEF TextsIn
<1>2. TextsOf(b.content) \in Seq(X) BY TextsOfIs DEF Builders
<1>3. /\ b \in [id : Nat, query : Seq(X), content : Seq(T), depth : Int]
      /\ b.id \in Nat /\ b.query \in Seq(X) /\ b.content \in Seq(T) /\ b.depth \in Int
  BY DEF Builders
<1> HIDE DEF X
<1>4. /\ <<TextOf(item)>> \in Seq(X) /\ Append(b.query, TextOf(item)) \in Seq(X)
      /\ Append(b.content, item) \in Seq(T) /\ <<>> \in Seq(T)
      /\ b.query \o TextsOf(b.content) \in Seq(X)
  BY <1>1, <1>2, <1>3, ConcatProperties
<1> DEFINE B == [id : Nat, query : Seq(X), content : Seq(T), depth : Int]
<1>5. LET c == set_query_text(b, item)
      IN /\ c \in B /\ c.id = b.id /\ c.query = <<TextOf(item)>>
         /\ c.content = b.content /\ c.depth = b.depth
  BY <1>3, <1>4 DEF set_query_text
<1>6. LET c == append_query_line(b, item)
      IN /\ c \in B /\ c.id = b.id /\ c.query = Append(b.query, TextOf(item))
         /\ c.content = b.content /\ c.depth = b.depth
  BY <1>3, <1>4 DEF append_query_line
<1>7. LET c == [b EXCEPT !.content = Append(@, item)]
      IN /\ c \in B /\ c.id = b.id /\ c.query = b.query
         /\ c.content = Append(b.content, item) /\ c.depth = b.depth
  BY <1>3, <1>4
<1>8. ASSUME NEW d \in Int
      PROVE  LET c == [b EXCEPT !.content = Append(@, item), !.depth = @ + d]
      IN /\ c \in B /\ c.id = b.id /\ c.query = b.query
         /\ c.content = Append(b.content, item) /\ c.depth = b.depth + d
  <2>1. b.depth + d \in Int BY <1>3
  <2> DEFINE e == b.depth + d
  <2> HIDE DEF e
  <2>2. LET c == [b EXCEPT !.content = Append(@, item), !.depth = e]
        IN /\ c \in B /\ c.id = b.id /\ c.query = b.query
           /\ c.content = Append(b.content, item) /\ c.depth = e
    BY <1>3, <1>4, <2>1 DEF e
  <2> QED BY <2>2 DEF e
<1>9. LET c == into_query_builder(b)
      IN /\ c \in B /\ c.id = b.id /\ c.query = b.query \o TextsOf(b.content)
         /\ c.content = <<>> /\ c.depth = 0
  <2> DEFINE q == b.query \o TextsOf(b.content)
  <2>1. into_query_builder(b) = [b EXCEPT !.query = q, !.content = <<>>, !.depth = 0]
    BY DEF into_query_builder, TextsOf
  <2>2. q \in Seq(X) /\ <<>> \in Seq(T) BY <1>4
  <2> DEFINE none == <<>>
             zero == 0
  <2>3. none \in Seq(T) /\ zero \in Int BY <2>2
  <2> HIDE DEF q, none, zero
  <2>4. LET c == [b EXCEPT !.query = q, !.content = none, !.depth = zero]
        IN /\ c \in B /\ c.id = b.id /\ c.query = q /\ c.content = none /\ c.depth = zero
    BY <1>3, <2>2, <2>3
  <2> QED BY <2>1, <2>4 DEF q, none, zero
<1> QED BY <1>5, <1>6, <1>7, <1>8, <1>9 DEF Fields, Builders, X

LEMMA HoldsFrom ==
  ASSUME NEW T, NEW e, NEW id, NEW before \in Seq(T), NEW holding, NEW m, NEW n,
         NEW lines, Fields(T, e, id, TextsOf(before), holding, OpenBrackets(m, n)),
         lines = before \o holding, BeforeThePlan(before, m, n),
         IsContent(holding, m, n), m \in JsonForms => Len(lines) = n - 1
  PROVE  Holds(T, e, m, n, lines) /\ e.id = id
BY DEF Holds, Fields

LEMMA HoldsNext ==
  ASSUME NEW T, NEW m \in Forms, NEW n \in Nat \ {0}, NEW b, NEW lines \in Seq(T),
         NEW item \in T, Holds(T, b, m, n, lines), item.n = n + 1,
         WhatFollows(m, n, item.l)
  PROVE  LET o == AfterLine(Stage(m, n), b, item)
             more == LinesAfter(lines, item)
         IN GoesOn(T, o, b, m, n + 1, more) \/ IsAccepted(o, b, m, n + 1, more)
<1> DEFINE o == AfterLine(Stage(m, n), b, item)
           more == LinesAfter(lines, item)
           c == b.content
           d == Append(c, item)
           all == Append(lines, item)
<1>1. /\ b \in Builders(T) /\ b.depth = OpenBrackets(m, n) /\ IsContent(c, m, n)
      /\ m \in JsonForms => Len(lines) = n - 1
  BY DEF Holds
<1>2. PICK before \in Seq(T) : /\ lines = before \o c /\ b.query = TextsOf(before)
                              /\ BeforeThePlan(before, m, n)
  BY DEF Holds
<1>3. c \in Seq(T) /\ b.depth \in Int BY <1>1 DEF Builders
<1>4. /\ d \in Seq(T) /\ d # <<>>
      /\ \A i \in 1 .. Len(d) : (i \in 1 .. Len(c) /\ d[i] = c[i]) \/ d[i] = item
      /\ c # <<>> => d[1] = c[1]
      /\ c = <<>> => d = <<item>> /\ d[1] = item
      /\ Len(d) \in Nat /\ Len(d) > 0
  <2>1. c \in Seq(T) BY <1>3
  <2>2. OneMore(T, c, item, d) BY <2>1, OneLineMore
  <2> HIDE DEF c, d
  <2> QED BY <2>2 DEF OneMore
<1>5. /\ all \in Seq(T) /\ Len(all) = Len(lines) + 1 /\ Len(lines) \in Nat
  <2>1. OneMore(T, lines, item, all) BY OneLineMore
  <2> HIDE DEF all
  <2> QED BY <2>1 DEF OneMore
<1>6. /\ all = before \o d
      /\ c = <<>> => lines = before /\ lines \o <<>> = lines /\ all \o <<>> = all
  <2> HIDE DEF c
  <2>1. /\ <<item>> \in Seq(T) /\ d = c \o <<item>> /\ all = lines \o <<item>>
    BY <1>3
  <2>2. (before \o c) \o <<item>> = before \o (c \o <<item>>)
    BY <1>2, <1>3, <2>1, ConcatAssociative
  <2>3. c = <<>> => before \o c = before BY <1>2, ConcatEmptySeq
  <2>4. lines \o <<>> = lines /\ all \o <<>> = all BY <1>5, ConcatEmptySeq
  <2> QED BY <1>2, <2>1, <2>2, <2>3, <2>4
<1>7. before # <<>> => lines # <<>> /\ all # <<>> /\ all[1] = before[1]
  <2>1. before # <<>> => Len(before) \in Nat /\ Len(before) > 0
    BY EmptySeq
  <2>2. /\ Len(before \o d) = Len(before) + Len(d)
        /\ \A i \in 1 .. Len(before) + Len(d) :
             (before \o d)[i] = IF i <= Len(before) THEN before[i] ELSE d[i - Len(before)]
    <3>1. before \in Seq(T) /\ d \in Seq(T) BY <1>2, <1>4
    <3> HIDE DEF d
    <3> QED BY <3>1, ConcatProperties
  <2>3. before # <<>> => (before \o d)[1] = before[1]
    BY <1>4, <2>1, <2>2
  <2>4. before # <<>> => Len(lines) > 0
    BY <1>2, <1>3, <2>1, ConcatProperties, LenProperties
  <2> QED BY <1>5, <1>6, <2>3, <2>4, EmptySeq
<1>8. Fields(T, set_query_text(b, item), b.id, <<TextOf(item)>>, c, b.depth)
  BY <1>1, BuilderOperations
<1>9. Fields(T, append_query_line(b, item), b.id, Append(b.query, TextOf(item)), c, b.depth)
  BY <1>1, BuilderOperations
<1> DEFINE plain == [b EXCEPT !.content = Append(@, item)]
           added == [b EXCEPT !.content = Append(@, item), !.depth = @ + item.l.balance]
<1>10. Fields(T, plain, b.id, b.query, d, b.depth)
  BY <1>1, BuilderOperations
<1>11. item.l.balance \in Int =>
         Fields(T, added, b.id, b.query, d, b.depth + item.l.balance)
  <2> SUFFICES ASSUME item.l.balance \in Int
               PROVE  Fields(T, added, b.id, b.query, d, b.depth + item.l.balance)
    OBVIOUS
  <2> DEFINE k == item.l.balance
  <2>1. k \in Int OBVIOUS
  <2> HIDE DEF k
  <2>2. Fields(T, [b EXCEPT !.content = Append(@, item), !.depth = @ + k],
               b.id, b.query, d, b.depth + k)
    BY <1>1, <2>1, BuilderOperations
  <2> QED BY <2>2 DEF k
<1>12. OpenBrackets(m, n) \in {0, 1, 2} BY DEF OpenBrackets
<1>13. advance_json_builder(b, item) =
         IF ~(b.depth + item.l.balance <= 0) THEN To("ParsingJsonPlan", added)
         ELSE IF build_query_plan(added) # <<>> THEN Outcome("None", NoBuilder, build_query_plan(added))
         ELSE To("ParsingQuery", into_query_builder(added))
  BY DEF advance_json_builder, scan_completion
<1>14. n + 1 # 1 /\ (n + 1) - 1 = n /\ (n # 1 => n + 1 > 2) OBVIOUS
<1>15. TextsOf(<<item>>) = <<TextOf(item)>> /\ (c = <<>> => TextsOf(lines) = b.query)
  BY <1>2, <1>6, TextsOfOne
<1>16. /\ all \in Seq(T) /\ <<>> \in Seq(T)
       /\ TextsOf(all) = Append(TextsOf(lines), TextOf(item))
  BY <1>5, <1>15, TextsOfAppend
<1>17. /\ BeforeThePlan(before, m, n) /\ IsContent(c, m, n) BY <1>1, <1>2
<1> HIDE DEF c, d, all, plain, added
<1>20. CASE TakesQuery(m, n, item.l)
  <2>1. /\ n = 1 /\ item.l.k = "query" /\ Stage(m, n) = "WaitingForQuery"
        /\ Stage(m, n + 1) = "ParsingQuery" /\ ~item.l.plan /\ m # "json"
    BY <1>20 DEF TakesQuery, Stage
  <2>2. c = <<>> /\ before = <<>> /\ lines = <<>>
    BY <1>6, <1>17, <2>1 DEF IsContent, BeforeThePlan
  <2>3. all = <<item>> /\ Len(all) = 1 /\ all[1] = item /\ all # <<>>
    BY <2>2 DEF all
  <2>4. o = To("ParsingQuery", set_query_text(b, item)) /\ more = all
    BY <2>1 DEF AfterLine, LinesAfter, advance_continuation, all
  <2>5. BeforeThePlan(all, m, n + 1)
    BY <2>1, <2>3 DEF BeforeThePlan, OfTheQuery, OfThePlan
  <2>6. IsContent(c, m, n + 1) BY <2>1, <2>2 DEF IsContent
  <2>7. Fields(T, set_query_text(b, item), b.id, TextsOf(all), c, OpenBrackets(m, n + 1))
    <3>1. TextsOf(all) = <<TextOf(item)>> BY <1>15, <2>3
    <3>2. OpenBrackets(m, n + 1) = b.depth BY <1>1, <2>1 DEF OpenBrackets
    <3> QED BY <1>8, <3>1, <3>2
  <2>8. m \in JsonForms => Len(all) = (n + 1) - 1 BY <2>1, <2>3
  <2>9. all = all \o c BY <1>6, <2>2
  <2>10. Holds(T, set_query_text(b, item), m, n + 1, all) /\ (set_query_text(b, item)).id = b.id
    <3> DEFINE e == set_query_text(b, item)
               k == n + 1
    <3> HIDE DEF e, k
    <3>1. Fields(T, e, b.id, TextsOf(all), c, OpenBrackets(m, k))
          /\ BeforeThePlan(all, m, k) /\ IsContent(c, m, k)
          /\ (m \in JsonForms => Len(all) = k - 1) /\ all = all \o c
      BY <2>7, <2>5, <2>6, <2>8, <2>9 DEF e, k
    <3>2. Holds(T, e, m, k, all) /\ e.id = b.id
      BY <1>16, <3>1, HoldsFrom
    <3> QED BY <3>2 DEF e, k
  <2>11. o.plan = <<>> /\ o.state = "ParsingQuery" /\ o.builder = set_query_text(b, item)
    BY <2>4 DEF To, Outcome
  <2> HIDE DEF o, more
  <2>12. GoesOn(T, o, b, m, n + 1, more)
    BY <2>1, <2>4, <2>10, <2>11 DEF GoesOn
  <2> QED BY <2>12 DEF o, more
<1>21. CASE AddsToQuery(m, n, item.l)
  <2>1. /\ Stage(m, n) = "ParsingQuery" /\ Stage(m, n + 1) = "ParsingQuery"
        /\ item.l.k = "text" /\ ~item.l.plan /\ m \notin JsonForms /\ n # 1
    BY <1>21 DEF AddsToQuery, Stage
  <2>2. c = <<>> /\ before # <<>> /\ lines = before /\ m # "json"
    BY <1>6, <1>17, <2>1 DEF IsContent, BeforeThePlan, JsonForms
  <2>3. /\ all # <<>> /\ all[1] = before[1]
        /\ \A i \in 1 .. Len(all) : (i \in 1 .. Len(before) /\ all[i] = before[i]) \/ all[i] = item
    <3>1. OneMore(T, lines, item, all) BY OneLineMore DEF all
    <3> QED BY <2>2, <3>1 DEF OneMore
  <2>4. o = To("ParsingQuery", append_query_line(b, item)) /\ more = all
    BY <2>1 DEF AfterLine, LinesAfter, advance_continuation, all
  <2>5. BeforeThePlan(all, m, n + 1)
    BY <1>17, <2>1, <2>2, <2>3 DEF BeforeThePlan, OfTheQuery, OfThePlan
  <2>6. IsContent(c, m, n + 1) BY <2>1, <2>2 DEF IsContent
  <2>7. Fields(T, append_query_line(b, item), b.id, TextsOf(all), c, OpenBrackets(m, n + 1))
    <3>1. TextsOf(all) = Append(b.query, TextOf(item)) BY <1>2, <1>16, <2>2
    <3>2. OpenBrackets(m, n + 1) = b.depth BY <1>1, <2>1 DEF OpenBrackets
    <3> QED BY <1>9, <3>1, <3>2
  <2>8. m \in JsonForms => Len(all) = (n + 1) - 1 BY <2>1
  <2>9. all = all \o c BY <1>6, <2>2
  <2>10. Holds(T, append_query_line(b, item), m, n + 1, all) /\ (append_query_line(b, item)).id = b.id
    <3> DEFINE e == append_query_line(b, item)
               k == n + 1
    <3> HIDE DEF e, k
    <3>1. Fields(T, e, b.id, TextsOf(all), c, OpenBrackets(m, k))
          /\ BeforeThePlan(all, m, k) /\ IsContent(c, m, k)
          /\ (m \in JsonForms => Len(all) = k - 1) /\ all = all \o c
      BY <2>7, <2>5, <2>6, <2>8, <2>9 DEF e, k
    <3>2. Holds(T, e, m, k, all) /\ e.id = b.id
      BY <1>16, <3>1, HoldsFrom
    <3> QED BY <3>2 DEF e, k
  <2>11. o.plan = <<>> /\ o.state = "ParsingQuery" /\ o.builder = append_query_line(b, item)
    BY <2>4 DEF To, Outcome
  <2> HIDE DEF o, more
  <2>12. GoesOn(T, o, b, m, n + 1, more)
    BY <2>1, <2>4, <2>10, <2>11 DEF GoesOn
  <2> QED BY <2>12 DEF o, more
<1>22. CASE BlankInQuery(m, n, item.l)
  <2>1. /\ Stage(m, n) = "ParsingQuery" /\ Stage(m, n + 1) = "ParsingQuery"
        /\ item.l.k = "blank" /\ m \notin JsonForms /\ n # 1
    BY <1>22 DEF BlankInQuery, Stage
  <2>2. c = <<>> BY <1>17, <2>1 DEF IsContent
  <2>4. o = To("ParsingQuery", b) /\ more = lines
    BY <2>1 DEF AfterLine, LinesAfter
  <2>5. BeforeThePlan(before, m, n + 1) BY <1>17, <2>1 DEF BeforeThePlan
  <2>6. IsContent(c, m, n + 1) BY <2>1, <2>2 DEF IsContent
  <2>7. Fields(T, b, b.id, TextsOf(before), c, OpenBrackets(m, n + 1))
    <3>1. OpenBrackets(m, n + 1) = b.depth BY <1>1, <2>1 DEF OpenBrackets
    <3> QED BY <1>1, <1>2, <3>1 DEF Fields, c
  <2>8. m \in JsonForms => Len(lines) = (n + 1) - 1 BY <2>1
  <2>9. lines = before \o c BY <1>2
  <2>10. Holds(T, b, m, n + 1, lines) /\ (b).id = b.id
    <3> DEFINE e == b
               k == n + 1
    <3> HIDE DEF e, k
    <3>1. Fields(T, e, b.id, TextsOf(before), c, OpenBrackets(m, k))
          /\ BeforeThePlan(before, m, k) /\ IsContent(c, m, k)
          /\ (m \in JsonForms => Len(lines) = k - 1) /\ lines = before \o c
      BY <2>7, <2>5, <2>6, <2>8, <2>9 DEF e, k
    <3>2. Holds(T, e, m, k, lines) /\ e.id = b.id
      BY <1>16, <3>1, HoldsFrom
    <3> QED BY <3>2 DEF e, k
  <2>11. o.plan = <<>> /\ o.state = "ParsingQuery" /\ o.builder = b
    BY <2>4 DEF To, Outcome
  <2> HIDE DEF o, more
  <2>12. GoesOn(T, o, b, m, n + 1, more)
    BY <2>1, <2>4, <2>10, <2>11 DEF GoesOn
  <2> QED BY <2>12 DEF o, more
<1>23. CASE StartsText(m, n, item.l)
  <2>1. /\ Stage(m, n) = "ParsingQuery" /\ Stage(m, n + 1) = "ParsingTextPlan"
        /\ item.l.k = "plan" /\ m \notin JsonForms /\ n # 1
    BY <1>23 DEF StartsText, Stage
  <2>2. c = <<>> BY <1>17, <2>1 DEF IsContent
  <2>3. d = <<item>> /\ Len(d) = 1 /\ d[1] = item /\ d # <<>> BY <1>4, <2>2
  <2>4. o = To("ParsingTextPlan", plain) /\ more = all
    BY <2>1 DEF AfterLine, LinesAfter, advance_continuation, advance_text, all, plain
  <2>5. BeforeThePlan(before, m, n + 1) BY <1>17, <2>1 DEF BeforeThePlan
  <2>6. IsContent(d, m, n + 1) BY <2>1, <2>3 DEF IsContent, OfTheQuery, OfThePlan, BracketForms
  <2>7. Fields(T, plain, b.id, TextsOf(before), d, OpenBrackets(m, n + 1))
    <3>1. OpenBrackets(m, n + 1) = b.depth BY <1>1, <2>1 DEF OpenBrackets
    <3> QED BY <1>2, <1>10, <3>1
  <2>8. m \in JsonForms => Len(all) = (n + 1) - 1 BY <2>1
  <2>9. all = before \o d BY <1>6
  <2>10. Holds(T, plain, m, n + 1, all) /\ (plain).id = b.id
    <3> DEFINE e == plain
               k == n + 1
    <3> HIDE DEF e, k
    <3>1. Fields(T, e, b.id, TextsOf(before), d, OpenBrackets(m, k))
          /\ BeforeThePlan(before, m, k) /\ IsContent(d, m, k)
          /\ (m \in JsonForms => Len(all) = k - 1) /\ all = before \o d
      BY <2>7, <2>5, <2>6, <2>8, <2>9 DEF e, k
    <3>2. Holds(T, e, m, k, all) /\ e.id = b.id
      BY <1>16, <3>1, HoldsFrom
    <3> QED BY <3>2 DEF e, k
  <2>11. o.plan = <<>> /\ o.state = "ParsingTextPlan" /\ o.builder = plain
    BY <2>4 DEF To, Outcome
  <2> HIDE DEF o, more
  <2>12. GoesOn(T, o, b, m, n + 1, more)
    BY <2>1, <2>4, <2>10, <2>11 DEF GoesOn
  <2> QED BY <2>12 DEF o, more
<1>24. CASE AddsToText(m, n, item.l)
  <2>1. /\ Stage(m, n) = "ParsingTextPlan" /\ Stage(m, n + 1) = "ParsingTextPlan"
        /\ item.l.k \in {"text", "refused"} /\ m \notin JsonForms /\ n # 1
    BY <1>24 DEF AddsToText, Stage
  <2>2. c # <<>> BY <1>17, <2>1 DEF IsContent
  <2>4. o = To("ParsingTextPlan", plain) /\ more = all
    BY <2>1 DEF AfterLine, LinesAfter, advance_continuation, advance_text, all, plain
  <2>5. BeforeThePlan(before, m, n + 1) BY <1>17, <2>1 DEF BeforeThePlan
  <2>6. IsContent(d, m, n + 1)
    <3>1. \A i \in 1 .. Len(d) : m # "json" => d[i].n > 2
      BY <1>4, <1>14, <1>17, <2>1 DEF IsContent
    <3>2. OfThePlan(d[1]) BY <1>4, <1>17, <2>1, <2>2 DEF IsContent
    <3> QED BY <1>4, <2>1, <3>1, <3>2 DEF IsContent
  <2>7. Fields(T, plain, b.id, TextsOf(before), d, OpenBrackets(m, n + 1))
    <3>1. OpenBrackets(m, n + 1) = b.depth BY <1>1, <2>1 DEF OpenBrackets
    <3> QED BY <1>2, <1>10, <3>1
  <2>8. m \in JsonForms => Len(all) = (n + 1) - 1 BY <2>1
  <2>9. all = before \o d BY <1>6
  <2>10. Holds(T, plain, m, n + 1, all) /\ (plain).id = b.id
    <3> DEFINE e == plain
               k == n + 1
    <3> HIDE DEF e, k
    <3>1. Fields(T, e, b.id, TextsOf(before), d, OpenBrackets(m, k))
          /\ BeforeThePlan(before, m, k) /\ IsContent(d, m, k)
          /\ (m \in JsonForms => Len(all) = k - 1) /\ all = before \o d
      BY <2>7, <2>5, <2>6, <2>8, <2>9 DEF e, k
    <3>2. Holds(T, e, m, k, all) /\ e.id = b.id
      BY <1>16, <3>1, HoldsFrom
    <3> QED BY <3>2 DEF e, k
  <2>11. o.plan = <<>> /\ o.state = "ParsingTextPlan" /\ o.builder = plain
    BY <2>4 DEF To, Outcome
  <2> HIDE DEF o, more
  <2>12. GoesOn(T, o, b, m, n + 1, more)
    BY <2>1, <2>4, <2>10, <2>11 DEF GoesOn
  <2> QED BY <2>12 DEF o, more
<1>25. CASE StartsBrackets(m, n, item.l)
  <2>1. /\ Stage(m, n) = "ParsingQuery" /\ Stage(m, n + 1) = "ParsingJsonPlan"
        /\ item.l.k = "json" /\ item.l.balance = 1 /\ OpenBrackets(m, n + 1) = 1
        /\ m # "json" /\ (item.l.plan <=> m \in JsonForms) /\ n # 1
        /\ OpenBrackets(m, n) = 0
    BY <1>25 DEF StartsBrackets, Stage, OpenBrackets
  <2>2. c = <<>> BY <1>17, <2>1 DEF IsContent
  <2>3. d = <<item>> /\ Len(d) = 1 /\ d[1] = item /\ d # <<>> BY <1>4, <2>2
  <2>4. o = To("ParsingJsonPlan", added) /\ more = all
    <3>1. o = advance_json_builder(b, item) /\ more = all
      BY <2>1 DEF AfterLine, LinesAfter, advance_continuation, all
    <3>2. ~(b.depth + item.l.balance <= 0) BY <1>1, <2>1
    <3> QED BY <1>13, <3>1, <3>2
  <2>5. BeforeThePlan(before, m, n + 1) BY <1>17, <2>1 DEF BeforeThePlan
  <2>6. IsContent(d, m, n + 1) BY <1>14, <2>1, <2>3 DEF IsContent, OfTheQuery, OfThePlan, JsonForms, BracketForms
  <2>7. Fields(T, added, b.id, TextsOf(before), d, OpenBrackets(m, n + 1))
    <3>1. b.depth + item.l.balance = OpenBrackets(m, n + 1) /\ item.l.balance \in Int
      BY <1>1, <2>1
    <3> QED BY <1>2, <1>11, <3>1
  <2>8. m \in JsonForms => Len(all) = (n + 1) - 1 BY <1>1, <1>5
  <2>9. all = before \o d BY <1>6
  <2>10. Holds(T, added, m, n + 1, all) /\ (added).id = b.id
    <3> DEFINE e == added
               k == n + 1
    <3> HIDE DEF e, k
    <3>1. Fields(T, e, b.id, TextsOf(before), d, OpenBrackets(m, k))
          /\ BeforeThePlan(before, m, k) /\ IsContent(d, m, k)
          /\ (m \in JsonForms => Len(all) = k - 1) /\ all = before \o d
      BY <2>7, <2>5, <2>6, <2>8, <2>9 DEF e, k
    <3>2. Holds(T, e, m, k, all) /\ e.id = b.id
      BY <1>16, <3>1, HoldsFrom
    <3> QED BY <3>2 DEF e, k
  <2>11. o.plan = <<>> /\ o.state = "ParsingJsonPlan" /\ o.builder = added
    BY <2>4 DEF To, Outcome
  <2> HIDE DEF o, more
  <2>12. GoesOn(T, o, b, m, n + 1, more)
    BY <2>1, <2>4, <2>10, <2>11 DEF GoesOn
  <2> QED BY <2>12 DEF o, more
<1>26. CASE StartsJson(m, n, item.l)
  <2>1. /\ n = 1 /\ Stage(m, n) = "WaitingForQuery" /\ Stage(m, n + 1) = "ParsingJsonPlan"
        /\ item.l.k = "json" /\ item.l.balance = 1 /\ OpenBrackets(m, n + 1) = 1
        /\ m = "json" /\ item.l.plan /\ OpenBrackets(m, n) = 0
    BY <1>26 DEF StartsJson, Stage, OpenBrackets
  <2>2. c = <<>> BY <1>17, <2>1 DEF IsContent
  <2>3. d = <<item>> /\ Len(d) = 1 /\ d[1] = item /\ d # <<>> BY <1>4, <2>2
  <2>4. o = To("ParsingJsonPlan", added) /\ more = all
    <3>1. o = advance_json_builder(b, item) /\ more = all
      BY <2>1 DEF AfterLine, LinesAfter, advance_continuation, all
    <3>2. ~(b.depth + item.l.balance <= 0) BY <1>1, <2>1
    <3> QED BY <1>13, <3>1, <3>2
  <2>5. BeforeThePlan(before, m, n + 1) BY <1>17, <2>1 DEF BeforeThePlan
  <2>6. IsContent(d, m, n + 1) BY <2>1, <2>3 DEF IsContent, OfTheQuery, OfThePlan, JsonForms, BracketForms
  <2>7. Fields(T, added, b.id, TextsOf(before), d, OpenBrackets(m, n + 1))
    <3>1. b.depth + item.l.balance = OpenBrackets(m, n + 1) /\ item.l.balance \in Int
      BY <1>1, <2>1
    <3> QED BY <1>2, <1>11, <3>1
  <2>8. m \in JsonForms => Len(all) = (n + 1) - 1 BY <1>1, <1>5
  <2>9. all = before \o d BY <1>6
  <2>10. Holds(T, added, m, n + 1, all) /\ (added).id = b.id
    <3> DEFINE e == added
               k == n + 1
    <3> HIDE DEF e, k
    <3>1. Fields(T, e, b.id, TextsOf(before), d, OpenBrackets(m, k))
          /\ BeforeThePlan(before, m, k) /\ IsContent(d, m, k)
          /\ (m \in JsonForms => Len(all) = k - 1) /\ all = before \o d
      BY <2>7, <2>5, <2>6, <2>8, <2>9 DEF e, k
    <3>2. Holds(T, e, m, k, all) /\ e.id = b.id
      BY <1>16, <3>1, HoldsFrom
    <3> QED BY <3>2 DEF e, k
  <2>11. o.plan = <<>> /\ o.state = "ParsingJsonPlan" /\ o.builder = added
    BY <2>4 DEF To, Outcome
  <2> HIDE DEF o, more
  <2>12. GoesOn(T, o, b, m, n + 1, more)
    BY <2>1, <2>4, <2>10, <2>11 DEF GoesOn
  <2> QED BY <2>12 DEF o, more
<1>27. CASE AddsToJson(m, n, item.l)
  <2>1. /\ Stage(m, n) = "ParsingJsonPlan" /\ Stage(m, n + 1) = "ParsingJsonPlan"
        /\ OpenBrackets(m, n) + item.l.balance = OpenBrackets(m, n + 1)
        /\ OpenBrackets(m, n + 1) > 0 /\ item.l.balance \in Int
        /\ item.l.k = "text" /\ item.l.plan /\ m = "json" /\ n # 1
    <3>1. n \in Nat /\ n # 1 BY <1>27 DEF AddsToJson, Stage
    <3> QED BY <1>27, <3>1 DEF AddsToJson
  <2>2. c # <<>> BY <1>17, <2>1 DEF IsContent
  <2>4. o = To("ParsingJsonPlan", added) /\ more = all
    <3>1. o = advance_json_builder(b, item) /\ more = all
      BY <2>1 DEF AfterLine, LinesAfter, advance_continuation, all
    <3>2. ~(b.depth + item.l.balance <= 0) BY <1>1, <1>12, <2>1
    <3> QED BY <1>13, <3>1, <3>2
  <2>5. BeforeThePlan(before, m, n + 1) BY <1>17, <2>1 DEF BeforeThePlan
  <2>6. IsContent(d, m, n + 1) BY <1>4, <1>17, <2>1, <2>2 DEF IsContent, OfTheQuery, OfThePlan, JsonForms, BracketForms
  <2>7. Fields(T, added, b.id, TextsOf(before), d, OpenBrackets(m, n + 1))
    BY <1>1, <1>2, <1>11, <2>1
  <2>8. m \in JsonForms => Len(all) = (n + 1) - 1 BY <1>1, <1>5
  <2>9. all = before \o d BY <1>6
  <2>10. Holds(T, added, m, n + 1, all) /\ (added).id = b.id
    <3> DEFINE e == added
               k == n + 1
    <3> HIDE DEF e, k
    <3>1. Fields(T, e, b.id, TextsOf(before), d, OpenBrackets(m, k))
          /\ BeforeThePlan(before, m, k) /\ IsContent(d, m, k)
          /\ (m \in JsonForms => Len(all) = k - 1) /\ all = before \o d
      BY <2>7, <2>5, <2>6, <2>8, <2>9 DEF e, k
    <3>2. Holds(T, e, m, k, all) /\ e.id = b.id
      BY <1>16, <3>1, HoldsFrom
    <3> QED BY <3>2 DEF e, k
  <2>11. o.plan = <<>> /\ o.state = "ParsingJsonPlan" /\ o.builder = added
    BY <2>4 DEF To, Outcome
  <2> HIDE DEF o, more
  <2>12. GoesOn(T, o, b, m, n + 1, more)
    BY <2>1, <2>4, <2>10, <2>11 DEF GoesOn
  <2> QED BY <2>12 DEF o, more
<1>28. CASE BracketsInQuery(m, n, item.l)
  <2>1. /\ Stage(m, n + 1) = "ParsingQuery" /\ Stage(m, n) \in {"ParsingQuery", "ParsingJsonPlan"}
        /\ OpenBrackets(m, n) + item.l.balance = 0 /\ OpenBrackets(m, n + 1) = 0
        /\ item.l.balance \in Int /\ ~item.l.plan /\ m \notin JsonForms /\ n # 1
        /\ item.l.k \in {"text", "json"} /\ item.l.k # "plan" /\ item.l.k # "blank"
        /\ (Stage(m, n) = "ParsingQuery" => item.l.k = "json")
        /\ (Stage(m, n) = "ParsingJsonPlan" => m \in BracketForms)
    BY <1>28 DEF BracketsInQuery, Stage, OpenBrackets
  <2>2. before # <<>> /\ m # "json" BY <1>17, <2>1 DEF BeforeThePlan, JsonForms
  <2>3. \A i \in 1 .. Len(d) : OfTheQuery(d[i])
    <3>1. OfTheQuery(item) BY <2>1 DEF OfTheQuery, OfThePlan
    <3>2. \A i \in 1 .. Len(c) : OfTheQuery(c[i])
      <4>1. CASE Stage(m, n) = "ParsingQuery"
        <5>1. c = <<>> BY <1>17, <4>1 DEF IsContent
        <5> QED BY <5>1
      <4>2. CASE Stage(m, n) = "ParsingJsonPlan" BY <1>17, <2>1, <4>2 DEF IsContent
      <4> QED BY <2>1, <4>1, <4>2
    <3> QED BY <1>4, <3>1, <3>2
  <2>4. build_query_plan(added) = <<>>
    <3>1. 1 \in 1 .. Len(d) BY <1>4
    <3>2. ~d[1].l.plan BY <2>3, <3>1 DEF OfTheQuery, OfThePlan
    <3>3. added.content = d BY <1>11, <2>1 DEF Fields
    <3>4. ~IsPlanDocument(added) BY <3>1, <3>2, <3>3 DEF IsPlanDocument
    <3> QED BY <3>4 DEF build_query_plan
  <2>5. o = To("ParsingQuery", into_query_builder(added)) /\ more = all
    <3>1. o = advance_json_builder(b, item) /\ more = all
      BY <2>1 DEF AfterLine, LinesAfter, advance_continuation, all
    <3>2. b.depth + item.l.balance <= 0 BY <1>1, <2>1
    <3> QED BY <1>13, <2>4, <3>1, <3>2
  <2>6. BeforeThePlan(all, m, n + 1)
    <3>1. \A i \in 1 .. Len(all) : OfTheQuery(all[i])
      <4>1. /\ Len(all) = Len(before) + Len(d)
            /\ \A i \in 1 .. Len(before) + Len(d) :
                 all[i] = IF i <= Len(before) THEN before[i] ELSE d[i - Len(before)]
        BY <1>2, <1>4, <1>6, ConcatProperties
      <4>2. Len(before) \in Nat BY LenProperties
      <4>3. ASSUME NEW i \in 1 .. Len(before) + Len(d)
            PROVE  \/ i \in 1 .. Len(before) /\ all[i] = before[i]
                   \/ \E j \in 1 .. Len(d) : all[i] = d[j]
        <5>1. CASE i <= Len(before) BY <4>1, <4>2, <5>1
        <5>2. CASE ~(i <= Len(before))
          <6>1. i - Len(before) \in 1 .. Len(d) BY <1>4, <4>2, <5>2
          <6> QED BY <4>1, <5>2, <6>1
        <5> QED BY <5>1, <5>2
      <4>4. \A i \in 1 .. Len(before) : OfTheQuery(before[i]) BY <1>17 DEF BeforeThePlan
      <4> QED BY <2>3, <4>1, <4>3, <4>4
    <3> QED BY <1>7, <1>17, <2>1, <2>2, <3>1 DEF BeforeThePlan
  <2> DEFINE none == <<>>
             r == into_query_builder(added)
  <2>7. IsContent(none, m, n + 1) BY <2>1 DEF IsContent
  <2>8. Fields(T, r, b.id, TextsOf(all), none, OpenBrackets(m, n + 1))
    <3>1. /\ added \in Builders(T) /\ added.id = b.id /\ added.query = TextsOf(before)
          /\ added.content = d
      BY <1>2, <1>11, <2>1 DEF Fields
    <3>2. Fields(T, r, added.id, added.query \o TextsOf(added.content), <<>>, 0)
      BY <3>1, BuilderOperations
    <3>3. TextsOf(all) = TextsOf(before) \o TextsOf(d) BY <1>4, <1>6, TextsOfConcat
    <3> HIDE DEF r
    <3> QED BY <2>1, <3>1, <3>2, <3>3
  <2>9. m \in JsonForms => Len(all) = (n + 1) - 1 BY <2>1
  <2>10. all = all \o none
    <3>1. all \o <<>> = all BY <1>16, ConcatEmptySeq
    <3> QED BY <3>1
  <2> HIDE DEF none
  <2>11. Holds(T, r, m, n + 1, all) /\ (r).id = b.id
    <3> DEFINE e == r
               k == n + 1
    <3> HIDE DEF e, k
    <3>1. Fields(T, e, b.id, TextsOf(all), none, OpenBrackets(m, k))
          /\ BeforeThePlan(all, m, k) /\ IsContent(none, m, k)
          /\ (m \in JsonForms => Len(all) = k - 1) /\ all = all \o none
      BY <2>8, <2>6, <2>7, <2>9, <2>10 DEF e, k
    <3>2. Holds(T, e, m, k, all) /\ e.id = b.id
      BY <1>16, <3>1, HoldsFrom
    <3> QED BY <3>2 DEF e, k
  <2>12. o.plan = <<>> /\ o.state = "ParsingQuery" /\ o.builder = r
    BY <2>5 DEF To, Outcome
  <2> HIDE DEF o, more
  <2>13. GoesOn(T, o, b, m, n + 1, more)
    BY <2>1, <2>5, <2>11, <2>12 DEF GoesOn
  <2> QED BY <2>13 DEF o, more
<1>29. CASE ClosesBrackets(m, n, item.l)
  <2>1. /\ Stage(m, n + 1) = "ParsingQuery" /\ Stage(m, n) \in {"ParsingQuery", "ParsingJsonPlan"}
        /\ OpenBrackets(m, n) + item.l.balance = 0 /\ OpenBrackets(m, n + 1) = 0
        /\ item.l.balance \in Int /\ ~item.l.plan /\ m \notin JsonForms /\ n # 1
        /\ item.l.k \in {"text", "json"} /\ item.l.k # "plan" /\ item.l.k # "blank"
        /\ (Stage(m, n) = "ParsingQuery" => item.l.k = "json")
        /\ (Stage(m, n) = "ParsingJsonPlan" => m \in BracketForms)
    <3>1. n # 1 /\ OpenBrackets(m, n) = 1
      BY <1>29 DEF ClosesBrackets, Stage, OpenBrackets, BracketForms
    <3>2. OpenBrackets(m, n + 1) = 0 BY <1>29 DEF ClosesBrackets, OpenBrackets
    <3> QED BY <1>29, <3>1, <3>2 DEF ClosesBrackets, JsonForms, BracketForms
  <2>2. before # <<>> /\ m # "json" BY <1>17, <2>1 DEF BeforeThePlan, JsonForms
  <2>3. \A i \in 1 .. Len(d) : OfTheQuery(d[i])
    <3>1. OfTheQuery(item) BY <2>1 DEF OfTheQuery, OfThePlan
    <3>2. \A i \in 1 .. Len(c) : OfTheQuery(c[i])
      <4>1. CASE Stage(m, n) = "ParsingQuery"
        <5>1. c = <<>> BY <1>17, <4>1 DEF IsContent
        <5> QED BY <5>1
      <4>2. CASE Stage(m, n) = "ParsingJsonPlan" BY <1>17, <2>1, <4>2 DEF IsContent
      <4> QED BY <2>1, <4>1, <4>2
    <3> QED BY <1>4, <3>1, <3>2
  <2>4. build_query_plan(added) = <<>>
    <3>1. 1 \in 1 .. Len(d) BY <1>4
    <3>2. ~d[1].l.plan BY <2>3, <3>1 DEF OfTheQuery, OfThePlan
    <3>3. added.content = d BY <1>11, <2>1 DEF Fields
    <3>4. ~IsPlanDocument(added) BY <3>1, <3>2, <3>3 DEF IsPlanDocument
    <3> QED BY <3>4 DEF build_query_plan
  <2>5. o = To("ParsingQuery", into_query_builder(added)) /\ more = all
    <3>1. o = advance_json_builder(b, item) /\ more = all
      BY <2>1 DEF AfterLine, LinesAfter, advance_continuation, all
    <3>2. b.depth + item.l.balance <= 0 BY <1>1, <2>1
    <3> QED BY <1>13, <2>4, <3>1, <3>2
  <2>6. BeforeThePlan(all, m, n + 1)
    <3>1. \A i \in 1 .. Len(all) : OfTheQuery(all[i])
      <4>1. /\ Len(all) = Len(before) + Len(d)
            /\ \A i \in 1 .. Len(before) + Len(d) :
                 all[i] = IF i <= Len(before) THEN before[i] ELSE d[i - Len(before)]
        BY <1>2, <1>4, <1>6, ConcatProperties
      <4>2. Len(before) \in Nat BY LenProperties
      <4>3. ASSUME NEW i \in 1 .. Len(before) + Len(d)
            PROVE  \/ i \in 1 .. Len(before) /\ all[i] = before[i]
                   \/ \E j \in 1 .. Len(d) : all[i] = d[j]
        <5>1. CASE i <= Len(before) BY <4>1, <4>2, <5>1
        <5>2. CASE ~(i <= Len(before))
          <6>1. i - Len(before) \in 1 .. Len(d) BY <1>4, <4>2, <5>2
          <6> QED BY <4>1, <5>2, <6>1
        <5> QED BY <5>1, <5>2
      <4>4. \A i \in 1 .. Len(before) : OfTheQuery(before[i]) BY <1>17 DEF BeforeThePlan
      <4> QED BY <2>3, <4>1, <4>3, <4>4
    <3> QED BY <1>7, <1>17, <2>1, <2>2, <3>1 DEF BeforeThePlan
  <2> DEFINE none == <<>>
             r == into_query_builder(added)
  <2>7. IsContent(none, m, n + 1) BY <2>1 DEF IsContent
  <2>8. Fields(T, r, b.id, TextsOf(all), none, OpenBrackets(m, n + 1))
    <3>1. /\ added \in Builders(T) /\ added.id = b.id /\ added.query = TextsOf(before)
          /\ added.content = d
      BY <1>2, <1>11, <2>1 DEF Fields
    <3>2. Fields(T, r, added.id, added.query \o TextsOf(added.content), <<>>, 0)
      BY <3>1, BuilderOperations
    <3>3. TextsOf(all) = TextsOf(before) \o TextsOf(d) BY <1>4, <1>6, TextsOfConcat
    <3> HIDE DEF r
    <3> QED BY <2>1, <3>1, <3>2, <3>3
  <2>9. m \in JsonForms => Len(all) = (n + 1) - 1 BY <2>1
  <2>10. all = all \o none
    <3>1. all \o <<>> = all BY <1>16, ConcatEmptySeq
    <3> QED BY <3>1
  <2> HIDE DEF none
  <2>11. Holds(T, r, m, n + 1, all) /\ (r).id = b.id
    <3> DEFINE e == r
               k == n + 1
    <3> HIDE DEF e, k
    <3>1. Fields(T, e, b.id, TextsOf(all), none, OpenBrackets(m, k))
          /\ BeforeThePlan(all, m, k) /\ IsContent(none, m, k)
          /\ (m \in JsonForms => Len(all) = k - 1) /\ all = all \o none
      BY <2>8, <2>6, <2>7, <2>9, <2>10 DEF e, k
    <3>2. Holds(T, e, m, k, all) /\ e.id = b.id
      BY <1>16, <3>1, HoldsFrom
    <3> QED BY <3>2 DEF e, k
  <2>12. o.plan = <<>> /\ o.state = "ParsingQuery" /\ o.builder = r
    BY <2>5 DEF To, Outcome
  <2> HIDE DEF o, more
  <2>13. GoesOn(T, o, b, m, n + 1, more)
    BY <2>1, <2>5, <2>11, <2>12 DEF GoesOn
  <2> QED BY <2>13 DEF o, more
<1>30. CASE ClosesJson(m, n, item.l)
  <2>1. /\ Stage(m, n) = "ParsingJsonPlan" /\ Stage(m, n + 1) = "None"
        /\ OpenBrackets(m, n) + item.l.balance = 0 /\ item.l.balance \in Int
        /\ item.l.k = "text" /\ item.l.plan /\ m \in JsonForms
        /\ n + 1 = Len(Shape(m)) /\ n # 1
    <3>1. n # 1 BY <1>30 DEF ClosesJson, Stage
    <3> QED BY <1>30, <3>1 DEF ClosesJson
  <2>2. c # <<>> BY <1>17, <2>1 DEF IsContent
  <2>3. \A i \in 1 .. Len(d) : d[i].l.plan /\ (m # "json" => d[i].n > 2)
    BY <1>4, <1>14, <1>17, <2>1 DEF IsContent
  <2>4. 1 \in 1 .. Len(d) /\ OfThePlan(d[1]) /\ (m # "json" => d[1].n # 2)
    <3>1. 1 \in 1 .. Len(d) BY <1>4
    <3> QED BY <2>3, <3>1 DEF OfThePlan
  <2>5. /\ added \in Builders(T) /\ added.id = b.id /\ added.query = TextsOf(before)
        /\ added.content = d /\ added.depth = 0
    BY <1>1, <1>2, <1>11, <2>1 DEF Fields
  <2>6. IsPlanDocument(added) BY <2>3, <2>5 DEF IsPlanDocument
  <2> DEFINE q == IF added.query = <<>> THEN <<TextOf(d[1])>> ELSE added.query
             r == [added EXCEPT !.query = q]
             plan == Plan(r)
  <2>7. build_query_plan(added) = <<plan>>
    BY <2>5, <2>6 DEF build_query_plan
  <2>8. r.query = q /\ r.content = d /\ r.id = b.id
    BY <2>5 DEF Builders
  <2>9. plan.query = q /\ plan.content = TextsOf(d) /\ plan.id = b.id
    <3> HIDE DEF r, q
    <3> QED BY <2>8 DEF Plan, TextsOf
  <2>10. o = Outcome("None", NoBuilder, <<plan>>) /\ more = all
    <3>1. o = advance_json_builder(b, item) /\ more = all
      BY <2>1 DEF AfterLine, LinesAfter, advance_continuation, all
    <3>2. b.depth + item.l.balance <= 0 BY <1>1, <2>1
    <3>3. build_query_plan(added) # <<>> BY <2>7
    <3> HIDE DEF plan
    <3> QED BY <1>13, <2>7, <3>1, <3>2, <3>3
  <2> HIDE DEF plan
  <2>11. OfTheEntry(plan, all)
    <3>1. CASE m = "json"
      <4>1. before = <<>> BY <1>17, <3>1 DEF BeforeThePlan
      <4>2. TextsOf(before) = <<>> BY <4>1 DEF TextsOf
      <4>3. plan.query = <<TextOf(d[1])>> BY <2>5, <2>9, <4>2
      <4>4. all = d BY <1>4, <1>6, <4>1, ConcatEmptySeq
      <4>5. OfTheEntry(plan, d) BY <1>4, <2>4, <2>9, <4>3, PlanWithItsLine
      <4> QED BY <4>4, <4>5
    <3>2. CASE m # "json"
      <4>1. before # <<>> /\ before[1].n = 2 /\ \A i \in 1 .. Len(before) : ~OfThePlan(before[i])
        BY <1>17, <2>1, <3>2 DEF BeforeThePlan, OfTheQuery
      <4>2. TextsOf(before) # <<>>
        <5>1. Len(before) \in Nat /\ Len(before) > 0 BY <4>1, EmptySeq
        <5>2. Len(TextsOf(before)) = Len(before) BY TextsOfIs
        <5>3. Len(<<>>) = 0 OBVIOUS
        <5> QED BY <5>1, <5>2, <5>3
      <4>3. plan.query = TextsOf(before) BY <2>5, <2>9, <4>2
      <4>4. OfTheEntry(plan, before \o d)
        BY <1>4, <2>4, <2>9, <3>2, <4>1, <4>3, PlanWithQuery
      <4> QED BY <1>6, <4>4
    <3> QED BY <3>1, <3>2
  <2>12. o.state = "None" /\ o.builder = NoBuilder /\ o.plan = <<plan>>
    BY <2>10 DEF Outcome
  <2> HIDE DEF o, more
  <2>13. IsAccepted(o, b, m, n + 1, more)
    BY <1>1, <1>5, <2>1, <2>9, <2>10, <2>11, <2>12 DEF IsAccepted
  <2> QED BY <2>13 DEF o, more
<1> QED
  BY <1>20, <1>21, <1>22, <1>23, <1>24, <1>25, <1>26, <1>27, <1>28, <1>29, <1>30 DEF WhatFollows

-----------------------------------------------------------------------------
(* The inductive invariant.                                                *)

(* The message of the line read last.                                      *)
Reached == IF pos = 0 THEN 0 ELSE file[pos].id

(* The messages up to this one are settled.                                *)
SettledTo == IF state = "None" THEN Reached ELSE Reached - 1

Genuine(s) ==
  \A i \in 1 .. Len(s) :
    LET plan == s[i].plan
    IN /\ plan.id \in Loggable /\ OfTheEntry(plan, Body(plan.id))
       /\ s[i].database = DatabaseOf(plan.id)
Ascending(s, k) ==
  /\ \A i, j \in 1 .. Len(s) : i < j => s[i].plan.id < s[j].plan.id
  /\ \A i \in 1 .. Len(s) : s[i].plan.id <= k
IdsOf(s) == {s[i].plan.id : i \in 1 .. Len(s)}
Settled(s, d, k) == \A id \in Loggable : id <= k => id \in IdsOf(s) \cup d

(* The builder holds the entry the parser is in.                           *)
HoldsTheEntry ==
  LET here == file[pos]
      form == log[here.id]
  IN /\ pos > 0 /\ form \in Forms /\ state = Stage(form, here.n)
     /\ builder.id = here.id /\ current_database = DatabaseOf(here.id)
     /\ Holds(EntriesOfLog(log), builder, form, here.n, Before(here.id, pos))

EntryInv ==
  /\ FileIsLaidOut /\ pos \in 0 .. Len(file)
  /\ \A id \in Nat : Reached < id => Before(id, pos) = <<>>
  /\ IF state = "None" THEN builder = NoBuilder ELSE ~done /\ HoldsTheEntry

SinkInv ==
  /\ \E S : sink \in Seq(S)
  /\ Genuine(sink) /\ Ascending(sink, SettledTo)
  /\ ~done => ~truncated /\ Settled(sink, discarded, SettledTo)
  /\ done /\ ~truncated => Settled(sink, discarded, Len(log))

LogParserInv == EntryInv /\ SinkInv

(* When an entry ends, what the builder holds becomes a plan, and only if  *)
(* the entry has one.                                                      *)
HasPlan(m, lines) ==
  IF m \in JsonForms THEN Len(lines) = Len(Shape(m)) - 1
  ELSE /\ \E n \in 1 .. Len(lines) : OfThePlan(lines[n])
       /\ \A n \in 1 .. Len(lines) : lines[n].l.k # "refused"

LEMMA LoggableIs ==
  /\ \A id \in Loggable : id \in 1 .. Len(log)
  /\ \A id \in 1 .. Len(log) :
       id \in Loggable <=> log[id] \notin {"error", "bad_stamp"} /\ HasPlan(log[id], Body(id))
BY DEF Loggable, HasPlan, JsonForms

LEMMA FinalPlan ==
  ASSUME NEW T, NEW b, NEW m \in Forms, NEW n \in 1 .. Len(Shape(m)), NEW lines,
         Holds(T, b, m, n, lines), Stage(m, n) # "None"
  PROVE  \/ /\ finalize_plan(Stage(m, n), b) = <<>> /\ ~HasPlan(m, lines)
         \/ /\ HasPlan(m, lines)
            /\ \E plan : /\ finalize_plan(Stage(m, n), b) = <<plan>>
                         /\ plan.id = b.id /\ OfTheEntry(plan, lines)
<1> DEFINE c == b.content
<1>0. m \in JsonForms => Len(Shape(m)) = 4
  BY ShapeJson, ShapeQueryJson DEF JsonForms
<1>1. /\ b \in Builders(T) /\ b.depth = OpenBrackets(m, n) /\ IsContent(c, m, n)
      /\ m \in JsonForms => Len(lines) = n - 1
  BY DEF Holds
<1>2. PICK before \in Seq(T) : /\ lines = before \o c /\ b.query = TextsOf(before)
                              /\ BeforeThePlan(before, m, n)
  BY DEF Holds
<1>3. c \in Seq(T) BY <1>1 DEF Builders
<1> DEFINE plan == Plan(b)
<1>4. plan.id = b.id /\ plan.query = TextsOf(before) /\ plan.content = TextsOf(c)
  BY <1>2 DEF Plan, TextsOf
<1>5. m \in JsonForms => Stage(m, n) # "ParsingTextPlan" /\ ~HasPlan(m, lines)
  <2> SUFFICES ASSUME m \in JsonForms
               PROVE  Stage(m, n) # "ParsingTextPlan" /\ ~HasPlan(m, lines)
    OBVIOUS
  <2>0. Len(Shape(m)) = 4 BY <1>0
  <2>1. n \in {1, 2, 3, 4}
    <3>1. \A k \in 1 .. 4 : k \in {1, 2, 3, 4} OBVIOUS
    <3>2. n \in 1 .. 4 BY <2>0
    <3> QED BY <3>1, <3>2
  <2>2. n # 4 /\ Stage(m, n) # "ParsingTextPlan" BY <2>1 DEF Stage, JsonForms
  <2>3. Len(lines) = n - 1 BY <1>1
  <2> QED BY <1>0, <2>1, <2>2, <2>3 DEF HasPlan
<1>6. CASE Stage(m, n) = "ParsingTextPlan"
  <2>1. m \notin JsonForms /\ n # 1 /\ m # "json" BY <1>5, <1>6 DEF Stage, JsonForms
  <2>2. c # <<>> /\ OfThePlan(c[1]) BY <1>1, <1>6 DEF IsContent
  <2>3. Len(c) \in Nat /\ Len(c) > 0 /\ 1 \in 1 .. Len(c)
    <3>1. Len(c) \in Nat \ {0}
      <4> HIDE DEF c
      <4> QED BY <1>3, <2>2, EmptySeq
    <3> HIDE DEF c
    <3> QED BY <3>1
  <2>4. c[1].n # 2 BY <1>1, <2>1, <2>3 DEF IsContent
  <2>5. before # <<>> /\ before[1].n = 2 /\ \A i \in 1 .. Len(before) : ~OfThePlan(before[i])
    BY <1>2, <2>1 DEF BeforeThePlan, OfTheQuery
  <2>6. finalize_plan(Stage(m, n), b) = IF IsRefused(b) THEN <<>> ELSE <<plan>>
    BY <1>6, <2>2 DEF finalize_plan
  <2>10. IsRefused(b) <=> \E i \in 1 .. Len(c) : c[i].l.k = "refused"
    BY DEF IsRefused
  <2>11. \A i \in 1 .. Len(before) : before[i].l.k # "refused"
    BY <1>2 DEF BeforeThePlan, OfTheQuery
  <2> HIDE DEF plan, c
  <2>7. OfTheEntry(plan, lines)
    BY <1>2, <1>3, <1>4, <2>2, <2>3, <2>4, <2>5, PlanWithQuery
  <2>8. HasPlan(m, lines) <=> ~IsRefused(b)
    <3>1. /\ Len(lines) = Len(before) + Len(c) /\ Len(before) \in Nat
          /\ \A i \in 1 .. Len(before) + Len(c) :
               lines[i] = IF i <= Len(before) THEN before[i] ELSE c[i - Len(before)]
      BY <1>2, <1>3, ConcatProperties, LenProperties
    <3>2. \E i \in 1 .. Len(lines) : OfThePlan(lines[i])
      <4> DEFINE k == Len(before) + 1
      <4>1. k \in 1 .. Len(lines) /\ lines[k] = c[1] BY <2>3, <3>1
      <4> HIDE DEF k
      <4> QED BY <2>2, <4>1
    <3>3. ASSUME NEW i \in 1 .. Len(lines), lines[i].l.k = "refused"
          PROVE  \E j \in 1 .. Len(c) : c[j].l.k = "refused"
      <4>1. i \in 1 .. Len(before) + Len(c) BY <3>1
      <4>2. CASE i <= Len(before)
        <5>1. i \in 1 .. Len(before) /\ lines[i] = before[i] BY <3>1, <4>1, <4>2
        <5> QED BY <2>11, <3>3, <5>1
      <4>3. CASE ~(i <= Len(before))
        <5>1. i - Len(before) \in 1 .. Len(c) /\ lines[i] = c[i - Len(before)]
          BY <2>3, <3>1, <4>1, <4>3
        <5> QED BY <3>3, <5>1
      <4> QED BY <4>2, <4>3
    <3>4. ASSUME NEW j \in 1 .. Len(c), c[j].l.k = "refused"
          PROVE  \E i \in 1 .. Len(lines) : lines[i].l.k = "refused"
      <4> DEFINE i == Len(before) + j
      <4>1. /\ i \in 1 .. Len(before) + Len(c) /\ ~(i <= Len(before))
            /\ i - Len(before) = j
        BY <2>3, <3>1
      <4> HIDE DEF i
      <4>2. i \in 1 .. Len(lines) /\ lines[i] = c[j] BY <3>1, <4>1
      <4> QED BY <3>4, <4>2
    <3>5. IsRefused(b) <=> \E i \in 1 .. Len(lines) : lines[i].l.k = "refused"
      BY <2>10, <3>3, <3>4
    <3> QED BY <2>1, <3>2, <3>5 DEF HasPlan
  <2>9. CASE IsRefused(b) BY <2>6, <2>8, <2>9
  <2>12. CASE ~IsRefused(b) BY <1>4, <2>6, <2>7, <2>8, <2>12
  <2> QED BY <2>9, <2>12
<1>7. CASE Stage(m, n) # "ParsingTextPlan"
  <2>1. finalize_plan(Stage(m, n), b) = <<>>
    <3>1. Stage(m, n) = "ParsingJsonPlan" => b.depth > 0 BY <1>1 DEF OpenBrackets
    <3>2. Stage(m, n) = "ParsingJsonPlan" => ~IsPlanDocument(b)
      <4>1. b.depth \in Int BY <1>1 DEF Builders
      <4> QED BY <3>1, <4>1 DEF IsPlanDocument
    <3> QED BY <1>7, <3>2 DEF finalize_plan, build_query_plan
  <2>2. ~HasPlan(m, lines)
    <3>1. CASE m \in JsonForms BY <1>5, <3>1
    <3>2. CASE m \notin JsonForms
      <4>1. \A i \in 1 .. Len(c) : ~OfThePlan(c[i])
        <5>1. CASE Stage(m, n) = "ParsingJsonPlan"
          <6>1. m \in BracketForms BY <3>2, <5>1 DEF Stage, JsonForms
          <6> QED BY <1>1, <5>1, <6>1 DEF IsContent, OfTheQuery
        <5>2. CASE Stage(m, n) \in {"WaitingForQuery", "ParsingQuery"}
          <6>1. c = <<>> BY <1>1, <5>2 DEF IsContent
          <6> HIDE DEF c
          <6> QED BY <6>1
        <5> QED BY <1>7, <5>1, <5>2 DEF Stage
      <4>2. \A i \in 1 .. Len(before) : ~OfThePlan(before[i])
        BY <1>2 DEF BeforeThePlan, OfTheQuery
      <4> HIDE DEF c
      <4>3. /\ Len(lines) = Len(before) + Len(c) /\ Len(before) \in Nat /\ Len(c) \in Nat
            /\ \A i \in 1 .. Len(before) + Len(c) :
                 lines[i] = IF i <= Len(before) THEN before[i] ELSE c[i - Len(before)]
        BY <1>2, <1>3, ConcatProperties, LenProperties
      <4>4. ASSUME NEW i \in 1 .. Len(lines) PROVE ~OfThePlan(lines[i])
        <5>1. CASE i <= Len(before) BY <4>2, <4>3, <5>1
        <5>2. CASE ~(i <= Len(before))
          <6>1. i - Len(before) \in 1 .. Len(c) BY <4>3, <5>2
          <6> QED BY <4>1, <4>3, <5>2, <6>1
        <5> QED BY <5>1, <5>2
      <4> QED BY <3>2, <4>4 DEF HasPlan
    <3> QED BY <3>1, <3>2
  <2> QED BY <2>1, <2>2
<1> QED BY <1>6, <1>7

-----------------------------------------------------------------------------
(* What is accepted.                                                       *)
LEMMA SinkGrows ==
  ASSUME NEW s, NEW S, s \in Seq(S), NEW k, NEW plan, NEW database, NEW d,
         Genuine(s), Ascending(s, k - 1), k \in Nat, Settled(s, d, k - 1),
         plan.id = k, plan.id \in Loggable, OfTheEntry(plan, Body(k)),
         database = DatabaseOf(k)
  PROVE  LET t == Append(s, [plan |-> plan, database |-> database])
         IN /\ \E R : t \in Seq(R)
            /\ Genuine(t) /\ Ascending(t, k) /\ Settled(t, d, k)
<1> DEFINE e == [plan |-> plan, database |-> database]
           t == Append(s, e)
           R == S \cup {e}
           N == Len(s)
<1>1. s \in Seq(R) /\ e \in R BY SeqMonotonic
<1>2. /\ t \in Seq(R) /\ Len(t) = N + 1 /\ N \in Nat
      /\ \A i \in 1 .. N : t[i] = s[i]
      /\ t[N + 1] = e
  <2> HIDE DEF e, R
  <2> QED BY <1>1, AppendProperties, LenProperties
<1>3. e.plan = plan /\ e.database = database OBVIOUS
<1> HIDE DEF t, e, R, N
<1>4. ASSUME NEW i \in 1 .. N + 1
      PROVE  \/ i \in 1 .. N /\ t[i] = s[i]
             \/ i = N + 1 /\ t[i] = e
  <2>1. i \in 1 .. N \/ i = N + 1 BY <1>2
  <2> QED BY <1>2, <2>1
<1>5. Genuine(t) BY <1>2, <1>3, <1>4 DEF Genuine, N
<1>6. \A id \in Loggable : id \in Nat BY LoggableIs
<1>7. \A i \in 1 .. N : s[i].plan.id \in Nat /\ s[i].plan.id <= k - 1
  BY <1>6 DEF Genuine, Ascending, N
<1>8. Ascending(t, k)
  <2>1. ASSUME NEW i \in 1 .. N + 1 PROVE t[i].plan.id <= k
    BY <1>3, <1>4, <1>7
  <2>2. ASSUME NEW i \in 1 .. N + 1, NEW j \in 1 .. N + 1, i < j
        PROVE  t[i].plan.id < t[j].plan.id
    <3>1. i \in 1 .. N /\ t[i] = s[i] BY <1>2, <1>4, <2>2
    <3>2. CASE j \in 1 .. N /\ t[j] = s[j] BY <2>2, <3>1, <3>2 DEF Ascending, N
    <3>3. CASE j = N + 1 /\ t[j] = e BY <1>3, <1>7, <3>1, <3>3
    <3> QED BY <1>4, <3>2, <3>3
  <2> QED BY <1>2, <2>1, <2>2 DEF Ascending
<1>9. Settled(t, d, k)
  <2> SUFFICES ASSUME NEW id \in Loggable, id <= k PROVE id \in IdsOf(t) \cup d
    BY DEF Settled
  <2>1. CASE id <= k - 1
    <3>1. id \in IdsOf(s) \cup d BY <2>1 DEF Settled
    <3>2. IdsOf(s) \subseteq IdsOf(t)
      <4> SUFFICES ASSUME NEW i \in 1 .. N PROVE s[i].plan.id \in IdsOf(t)
        BY DEF IdsOf, N
      <4>1. i \in 1 .. Len(t) /\ t[i] = s[i] BY <1>2
      <4> QED BY <4>1 DEF IdsOf
    <3> QED BY <3>1, <3>2
  <2>2. CASE id = k
    <3>1. N + 1 \in 1 .. Len(t) /\ t[N + 1].plan.id = k BY <1>2, <1>3
    <3> QED BY <2>2, <3>1 DEF IdsOf
  <2> QED BY <1>6, <2>1, <2>2
<1> QED BY <1>2, <1>5, <1>8, <1>9 DEF t, e

(* A message that is no plan, or was dropped, is settled.                  *)
LEMMA SinkStays ==
  ASSUME NEW s, NEW k, k \in Nat, NEW d, NEW e, Genuine(s), Ascending(s, k - 1),
         Settled(s, d, k - 1), d \subseteq e, k \in Loggable => k \in e
  PROVE  Ascending(s, k) /\ Settled(s, e, k)
<1>1. \A id \in Loggable : id \in Nat BY LoggableIs
<1>2. Ascending(s, k) BY <1>1 DEF Ascending, Genuine
<1>3. Settled(s, e, k)
  <2> SUFFICES ASSUME NEW id \in Loggable, id <= k PROVE id \in IdsOf(s) \cup e
    BY DEF Settled
  <2>1. id <= k - 1 \/ id = k BY <1>1
  <2> QED BY <2>1 DEF Settled
<1> QED BY <1>2, <1>3


LEMMA KindOfLine ==
  ASSUME NEW m \in Messages, NEW n \in 1 .. Len(Shape(m))
  PROVE  /\ Shape(m)[n].k \in {"header", "log"} <=> n = 1
         /\ n = 1 => (Shape(m)[n].k = "header" /\ Shape(m)[n].stamped <=> m \in Forms)
         /\ m \notin Forms => m \in {"error", "bad_stamp"}
         /\ m \in Forms => m \notin {"error", "bad_stamp"}
<1>0. m \in Forms \cup {"error", "bad_stamp"}
  BY ParserAssumption DEF Forms, JsonForms, BracketForms
<1>1. CASE m \in Forms
  <2>1. Shape(m)[1].k = "header" /\ Shape(m)[1].stamped
    BY <1>1, ShapeText, ShapeTwoLines, ShapeLongLine, ShapeSubscript, ShapeArray,
       ShapeJson, ShapeQueryJson, ShapeRefusedText, ShapeRefusedJson
       DEF Forms, JsonForms, BracketForms, Kinds
  <2>2. CASE n # 1
    <3>1. n - 1 \in Nat \ {0} /\ (n - 1) + 1 = n /\ (n - 1) + 1 <= Len(Shape(m))
      <4>1. Len(Shape(m)) \in Nat BY ShapeLengths
      <4> QED BY <2>2, <4>1
    <3>2. WhatFollows(m, n - 1, Shape(m)[(n - 1) + 1])
      BY <1>1, <3>1, EveryLineFollows
    <3>3. Shape(m)[(n - 1) + 1].k \notin {"header", "log"}
      BY <3>2 DEF WhatFollows, TakesQuery, AddsToQuery, BracketsInQuery, BlankInQuery,
         StartsText, AddsToText, StartsBrackets, StartsJson, AddsToJson, ClosesBrackets,
         ClosesJson
    <3> QED BY <1>1, <2>2, <3>1, <3>3 DEF Forms, JsonForms, BracketForms
  <2> QED BY <1>1, <2>1, <2>2 DEF Forms, JsonForms, BracketForms
<1>2. CASE m = "error"
  <2>0. Len(Shape(m)) = 1 BY <1>2, ShapeError
  <2>1. n \in 1 .. 1 /\ n = 1 BY <2>0
  <2> QED BY <1>2, <2>1, ShapeError DEF Kinds, Forms, JsonForms, BracketForms
<1>3. CASE m = "bad_stamp"
  <2>0. Len(Shape(m)) = 3 BY <1>3, ShapeBadStamp
  <2>1. n \in 1 .. 3 BY <2>0
  <2>2. n \in {1, 2, 3} BY <2>1
  <2> QED BY <1>3, <2>2, ShapeBadStamp
     DEF Kinds, Forms, JsonForms, BracketForms
<1> QED BY <1>0, <1>1, <1>2, <1>3

(* An entry has ended: its plan is accepted, or it has none or is dropped. *)
LEMMA ReachedIs ==
  ASSUME EntryInv
  PROVE  /\ Reached \in Nat /\ pos \in Nat
         /\ pos > 0 => pos \in 1 .. Len(file) /\ Reached = file[pos].id
              /\ Reached \in 1 .. Len(log)
<1>1. pos \in Nat /\ Len(file) \in Nat /\ pos <= Len(file)
  <2>1. Len(file) \in Nat BY LenProperties DEF EntryInv, FileIsLaidOut
  <2> QED BY <2>1 DEF EntryInv
<1>2. CASE pos = 0 BY <1>2 DEF Reached
<1>3. CASE pos > 0
  <2>1. pos \in 1 .. Len(file) BY <1>1, <1>3
  <2>2. file[pos].id \in 1 .. Len(log) BY <2>1, LinesAre DEF EntryInv
  <2> QED BY <1>1, <1>3, <2>1, <2>2 DEF Reached
<1> QED BY <1>1, <1>2, <1>3

LEMMA EntryEnds ==
  ASSUME LogParserInv, ~done,
         state # "None" => Before(Reached, pos) = Body(Reached),
         NEW s, NEW b, NEW d,
         \/ s = state /\ b = builder /\ d = discarded
         \/ s = "None" /\ state # "None" /\ d = discarded \cup {builder.id},
         NEW t, t = IF finalize_plan(s, b) = <<>> THEN sink
                    ELSE Append(sink, [plan |-> finalize_plan(s, b)[1],
                                       database |-> current_database])
  PROVE  /\ \E R : t \in Seq(R)
         /\ Genuine(t) /\ Ascending(t, Reached) /\ Settled(t, d, Reached)
<1>1. /\ EntryInv /\ Genuine(sink) /\ Ascending(sink, SettledTo)
      /\ Settled(sink, discarded, SettledTo) /\ \E S : sink \in Seq(S)
  BY DEF LogParserInv, SinkInv
<1>2. finalize_plan("None", b) = <<>> BY DEF finalize_plan
<1>3. CASE state = "None"
  <2>1. t = sink /\ d = discarded /\ SettledTo = Reached BY <1>2, <1>3 DEF SettledTo
  <2> QED BY <1>1, <2>1
<1>4. CASE state # "None"
  <2>1. HoldsTheEntry /\ SettledTo = Reached - 1 /\ Reached \in Nat
    BY <1>1, <1>4, ReachedIs DEF EntryInv, SettledTo
  <2>2. /\ pos > 0 /\ log[Reached] \in Forms /\ Reached \in 1 .. Len(log)
        /\ builder.id = Reached /\ current_database = DatabaseOf(Reached)
        /\ state = Stage(log[Reached], file[pos].n)
        /\ Holds(EntriesOfLog(log), builder, log[Reached], file[pos].n, Body(Reached))
        /\ file[pos].n \in 1 .. Len(Shape(log[Reached]))
    <3>1. pos > 0 BY <2>1 DEF HoldsTheEntry
    <3>2. Reached = file[pos].id /\ pos \in 1 .. Len(file) /\ Reached \in 1 .. Len(log)
      BY <1>1, <3>1, ReachedIs
    <3>3. file[pos].n \in 1 .. Len(Shape(log[Reached]))
      BY <1>1, <3>2, LinesAre DEF EntryInv
    <3> QED BY <1>4, <2>1, <3>1, <3>2, <3>3 DEF HoldsTheEntry
  <2>3. Reached \in Loggable <=> HasPlan(log[Reached], Body(Reached))
    <3>1. log[Reached] \notin {"error", "bad_stamp"} BY <2>2 DEF Forms, JsonForms, BracketForms
    <3> QED BY <2>2, <3>1, LoggableIs
  <2>4. CASE s = "None"
    <3>1. t = sink /\ d = discarded \cup {Reached} BY <1>2, <1>4, <2>2, <2>4
    <3>2. discarded \subseteq d /\ Reached \in d BY <3>1
    <3> QED BY <1>1, <2>1, <3>1, <3>2, SinkStays
  <2>5. CASE s = state /\ b = builder /\ d = discarded
    <3>1. \/ /\ finalize_plan(s, b) = <<>> /\ Reached \notin Loggable
          \/ /\ Reached \in Loggable
             /\ \E plan : /\ finalize_plan(s, b) = <<plan>> /\ plan.id = Reached
                          /\ OfTheEntry(plan, Body(Reached))
      BY <1>4, <2>2, <2>3, <2>5, FinalPlan
    <3>2. CASE finalize_plan(s, b) = <<>> /\ Reached \notin Loggable
      <4>1. t = sink /\ discarded \subseteq d BY <2>5, <3>2
      <4> QED BY <1>1, <2>1, <3>2, <4>1, SinkStays
    <3>3. ASSUME Reached \in Loggable, NEW plan, finalize_plan(s, b) = <<plan>>,
                 plan.id = Reached, OfTheEntry(plan, Body(Reached))
          PROVE  /\ \E R : t \in Seq(R)
                 /\ Genuine(t) /\ Ascending(t, Reached) /\ Settled(t, d, Reached)
      <4>1. t = Append(sink, [plan |-> plan, database |-> current_database])
        BY <3>3
      <4>2. PICK S : sink \in Seq(S) BY <1>1
      <4>3. Settled(sink, d, Reached - 1) /\ Ascending(sink, Reached - 1)
        BY <1>1, <2>1, <2>5
      <4>4. current_database = DatabaseOf(Reached) BY <2>2
      <4> DEFINE k == Reached
      <4> HIDE DEF k
      <4>5. LET u == Append(sink, [plan |-> plan, database |-> current_database])
            IN /\ \E R : u \in Seq(R)
               /\ Genuine(u) /\ Ascending(u, k) /\ Settled(u, d, k)
        BY <1>1, <2>1, <3>3, <4>2, <4>3, <4>4, SinkGrows DEF k
      <4> QED BY <4>1, <4>5 DEF k
    <3> QED BY <3>1, <3>2, <3>3
  <2> QED BY <1>4, <2>4, <2>5
<1> QED BY <1>3, <1>4

-----------------------------------------------------------------------------
(* Steps.  The file stays, so what is said of it is said of it afterwards. *)
LEMMA FileFixed ==
  ASSUME UNCHANGED <<log, file>>
  PROVE  /\ FileIsLaidOut => FileIsLaidOut'
         /\ \A id, p : Before(id, p)' = Before(id, p)
         /\ \A s, d, k : Settled(s, d, k) => Settled(s, d, k)'
         /\ \A s : Genuine(s) => Genuine(s)'
<1>1. FileIsLaidOut => FileIsLaidOut' BY DEF FileIsLaidOut
<1>2. ASSUME NEW id PROVE Wanted(id)' = Wanted(id) BY DEF Wanted, ToSet
<1>3. ASSUME NEW id, NEW p PROVE Before(id, p)' = Before(id, p)
  BY <1>2 DEF Before
<1>4. ASSUME NEW id PROVE Body(id)' = Body(id)
  <2>1. Body(id) = Selected(file, Wanted(id)) BY DEF Body, Wanted
  <2>2. Body(id)' = Selected(file', Wanted(id)') BY DEF Body, Wanted
  <2> QED BY <1>2, <2>1, <2>2
<1>5. Loggable' = Loggable BY <1>4 DEF Loggable
<1>6. ASSUME NEW s, NEW d, NEW k, Settled(s, d, k) PROVE Settled(s, d, k)'
  BY <1>5, <1>6 DEF Settled
<1>7. ASSUME NEW s, Genuine(s) PROVE Genuine(s)'
  BY <1>4, <1>5, <1>7 DEF Genuine
<1> QED BY <1>1, <1>3, <1>6, <1>7

(* The line that is read next.                                             *)
ComesNext(item, p) ==
  /\ p + 1 \in 1 .. Len(file) /\ item = file[p + 1] /\ item \in EntriesOfLog(log)
  /\ item.id \in 1 .. Len(log) /\ log[item.id] \in Messages
  /\ item.n \in 1 .. Len(Shape(log[item.id])) /\ item.l = Shape(log[item.id])[item.n]
  /\ item.n = 1 => item.id = Reached + 1 /\ (p > 0 => Before(Reached, p) = Body(Reached))
  /\ item.n # 1 => p > 0 /\ item.id = Reached /\ item.n = file[p].n + 1
  /\ Before(item.id, p) \in Seq(EntriesOfLog(log))
  /\ Before(item.id, p + 1) =
       IF item.n = 1 THEN <<>> ELSE LinesAfter(Before(item.id, p), item)
  /\ \A id \in Nat : item.id < id => Before(id, p + 1) = <<>>

LEMMA NextLineIs ==
  ASSUME EntryInv, pos < Len(file)
  PROVE  ComesNext(file[pos + 1], pos)
<1> DEFINE item == file[pos + 1]
           q == pos + 1
<1>1. FileIsLaidOut /\ \A id \in Nat : Reached < id => Before(id, pos) = <<>>
  BY DEF EntryInv
<1>2. pos \in Nat /\ Reached \in Nat /\ Len(file) \in Nat
  BY <1>1, ReachedIs, LenProperties DEF FileIsLaidOut
<1>3. q \in 1 .. Len(file) /\ pos \in 0 .. Len(file) - 1 BY <1>2
<1> HIDE DEF q
<1>4. /\ file[q] \in EntriesOfLog(log)
      /\ file[q].id \in 1 .. Len(log) /\ log[file[q].id] \in Messages
      /\ file[q].n \in 1 .. Len(Shape(log[file[q].id]))
      /\ file[q].l = Shape(log[file[q].id])[file[q].n]
  BY <1>1, <1>3, LinesAre
<1>5. item.n \in Nat /\ item.id \in Nat
  <2>1. Len(Shape(log[file[q].id])) \in Nat BY <1>4, ShapeLengths
  <2>2. Len(log) \in Nat BY LenProperties, <1>1 DEF FileIsLaidOut
  <2> QED BY <1>4, <2>1, <2>2 DEF q
<1>6. /\ item.n = 1 => item.id = Reached + 1 /\ (pos > 0 => Before(Reached, pos) = Body(Reached))
      /\ item.n # 1 => pos > 0 /\ item.id = Reached /\ item.n = file[pos].n + 1
  <2>1. CASE pos = 0
    <3>0. Len(file) > 0 BY <1>2, <1>3 DEF q
    <3>1. file[1].id = 1 /\ file[1].n = 1 BY <1>1, <3>0 DEF FileIsLaidOut, LaidOut
    <3> QED BY <2>1, <3>1 DEF Reached
  <2>2. CASE pos # 0
    <3>1. pos \in 1 .. Len(file) /\ pos \in 1 .. Len(file) - 1 /\ pos > 0 BY <1>2, <1>3, <2>2
    <3>2. NextEntry(log, file[pos], item) BY <1>1, <3>1 DEF FileIsLaidOut, LaidOut
    <3>3. file[pos].id = Reached /\ file[pos].n \in 1 .. Len(Shape(log[Reached]))
      BY <1>1, <3>1, LinesAre DEF Reached
    <3>4. Len(Shape(log[Reached])) \in Nat
      BY <1>1, <3>1, <3>3, LinesAre, ShapeLengths
    <3>5. CASE file[pos].n < Len(Shape(log[Reached]))
      <4>1. item.id = Reached /\ item.n = file[pos].n + 1
        BY <3>2, <3>3, <3>5 DEF NextEntry
      <4>2. item.n # 1 BY <3>3, <3>4, <4>1
      <4> QED BY <3>1, <4>1, <4>2
    <3>6. CASE ~(file[pos].n < Len(Shape(log[Reached])))
      <4>1. item.id = Reached + 1 /\ item.n = 1 BY <3>2, <3>3, <3>6 DEF NextEntry
      <4>2. file[pos].n = Len(Shape(log[Reached])) BY <3>3, <3>4, <3>6
      <4>3. Before(Reached, pos) = Body(Reached)
        BY <1>1, <1>2, <3>1, <3>3, <4>2, EntryIsRead
      <4> QED BY <4>1, <4>3
    <3> QED BY <3>5, <3>6
  <2> QED BY <2>1, <2>2
<1>7. ASSUME NEW id
      PROVE /\ Before(id, pos) \in Seq(EntriesOfLog(log))
            /\ Before(id, pos + 1) = IF item.id = id /\ item.n > 1 /\ item.l.k # "blank"
                                     THEN Append(Before(id, pos), item) ELSE Before(id, pos)
  BY <1>1, <1>3, BeforeSteps
<1>8. Before(item.id, pos + 1) =
        IF item.n = 1 THEN <<>> ELSE LinesAfter(Before(item.id, pos), item)
  <2>1. CASE item.n = 1
    <3>1. Before(item.id, pos) = <<>> BY <1>1, <1>2, <1>5, <1>6, <2>1
    <3>2. ~(item.n > 1) BY <2>1
    <3> QED BY <1>7, <2>1, <3>1, <3>2
  <2>2. CASE item.n # 1
    <3>1. item.n > 1
      <4>1. item.n \in Nat /\ item.n >= 1
        <5>1. Len(Shape(log[file[q].id])) \in Nat BY <1>4, ShapeLengths
        <5> QED BY <1>4, <5>1 DEF q
      <4> QED BY <4>1, <2>2
    <3> QED BY <1>7, <2>2, <3>1 DEF LinesAfter
  <2> QED BY <2>1, <2>2
<1>9. ASSUME NEW id \in Nat, item.id < id PROVE Before(id, pos + 1) = <<>>
  <2>1. Reached < id /\ item.id # id BY <1>2, <1>5, <1>6, <1>9
  <2> QED BY <1>1, <1>7, <2>1
<1> QED BY <1>3, <1>4, <1>6, <1>7, <1>8, <1>9 DEF ComesNext, q

(* Where the parser is after it.                                           *)
LEMMA EntryInvNext ==
  ASSUME EntryInv, ~done, pos < Len(file), UNCHANGED <<log, file, done>>, pos' = pos + 1,
         NEW item, item = file[pos + 1],
         \/ state' = "None" /\ builder' = NoBuilder
         \/ /\ log[item.id] \in Forms /\ state' # "None" /\ state' = Stage(log[item.id], item.n)
            /\ builder'.id = item.id /\ current_database' = DatabaseOf(item.id)
            /\ Holds(EntriesOfLog(log), builder', log[item.id], item.n,
                     Before(item.id, pos + 1))
  PROVE  EntryInv' /\ Reached' = item.id
<1>1. ComesNext(item, pos) BY NextLineIs
<1>2. pos \in Nat /\ Len(file) \in Nat BY ReachedIs, LenProperties DEF EntryInv, FileIsLaidOut
<1>3. Reached' = item.id
  <2>1. pos + 1 # 0 BY <1>2
  <2> QED BY <2>1 DEF Reached
<1>4. FileIsLaidOut' BY FileFixed DEF EntryInv
<1>5. pos' \in 0 .. Len(file') BY <1>2
<1>6. ASSUME NEW id \in Nat PROVE Before(id, pos)' = Before(id, pos + 1)
  BY DEF Before, Wanted
<1>7. \A id \in Nat : Reached' < id => Before(id, pos)' = <<>>
  BY <1>1, <1>3, <1>6 DEF ComesNext
<1>8. CASE state' = "None" /\ builder' = NoBuilder
  BY <1>3, <1>4, <1>5, <1>7, <1>8 DEF EntryInv
<1>9. CASE /\ log[item.id] \in Forms /\ state' # "None" /\ state' = Stage(log[item.id], item.n)
           /\ builder'.id = item.id /\ current_database' = DatabaseOf(item.id)
           /\ Holds(EntriesOfLog(log), builder', log[item.id], item.n,
                    Before(item.id, pos + 1))
  <2>1. Before(file[pos].id, pos)' = Before(item.id, pos + 1)
    BY DEF Before, Wanted
  <2>2. EntriesOfLog(log)' = EntriesOfLog(log) OBVIOUS
  <2>3. Holds(EntriesOfLog(log), builder, log[file[pos].id], file[pos].n,
              Before(file[pos].id, pos))'
    BY <1>9, <2>1, <2>2
  <2>4. DatabaseOf(file[pos].id)' = DatabaseOf(item.id) BY DEF DatabaseOf
  <2>5. pos' > 0 BY <1>2
  <2>6. HoldsTheEntry'
    BY <1>9, <2>3, <2>4, <2>5 DEF HoldsTheEntry
  <2> QED BY <1>3, <1>4, <1>5, <1>7, <1>9, <2>6 DEF EntryInv
<1> QED BY <1>3, <1>8, <1>9

(* What has been accepted, after a step.                                   *)
LEMMA SinkInvNext ==
  ASSUME UNCHANGED <<log, file>>, NEW k, k = SettledTo', \E R : sink' \in Seq(R),
         Genuine(sink'), Ascending(sink', k),
         ~done' => ~truncated' /\ Settled(sink', discarded', k),
         done' /\ ~truncated' => Settled(sink', discarded', Len(log))
  PROVE  SinkInv'
<1>1. ASSUME NEW id PROVE Body(id)' = Body(id)
  <2>1. Wanted(id)' = Wanted(id) BY DEF Wanted, ToSet
  <2>2. Body(id) = Selected(file, Wanted(id)) BY DEF Body, Wanted
  <2>3. Body(id)' = Selected(file', Wanted(id)') BY DEF Body, Wanted
  <2> QED BY <2>1, <2>2, <2>3
<1>2. Loggable' = Loggable BY <1>1 DEF Loggable
<1>3. Genuine(sink)'
  BY <1>2 DEF Genuine, Body
<1>4. Ascending(sink, SettledTo)' BY DEF Ascending
<1>5. ~done' => ~truncated' /\ Settled(sink, discarded, SettledTo)'
  BY <1>2 DEF Settled
<1>6. done' /\ ~truncated' => Settled(sink, discarded, Len(log))'
  BY <1>2 DEF Settled
<1> QED BY <1>3, <1>4, <1>5, <1>6 DEF SinkInv

(* The kinds of line, by their place in a message.                         *)
LEMMA LineIs ==
  ASSUME NEW item, NEW p, ComesNext(item, p)
  PROVE  /\ item.l.k \in {"header", "log"} <=> item.n = 1
         /\ item.n = 1 => (item.l.k = "header" /\ item.l.stamped <=> log[item.id] \in Forms)
         /\ log[item.id] \notin Forms => item.id \notin Loggable
         /\ log[item.id] \in Forms => Stage(log[item.id], 1) = "WaitingForQuery"
BY KindOfLine, LoggableIs DEF ComesNext, Stage

(* A message ends where the next begins.                                   *)
LEMMA MessageEnds ==
  ASSUME LogParserInv, Reads, NextLine.n = 1,
         sink_accept(finalize_plan(Limited.state, Limited.builder), current_database)
  PROVE  /\ ComesNext(NextLine, pos) /\ NextLine.id = Reached + 1 /\ Reached \in Nat
         /\ \E R : sink' \in Seq(R)
         /\ Genuine(sink') /\ Ascending(sink', Reached)
         /\ Settled(sink', discarded', Reached) /\ ~truncated'
         /\ UNCHANGED <<log, file, done>> /\ ~done /\ pos' = pos + 1 /\ pos < Len(file)
<1> USE DEF NextLine
<1>1. EntryInv /\ SinkInv /\ ~done /\ ~is_full /\ pos < Len(file) /\ ~truncated
  BY DEF LogParserInv, SinkInv, Reads
<1>2. ComesNext(NextLine, pos) BY <1>1, NextLineIs
<1>3. Reached \in Nat BY <1>1, ReachedIs
<1>4. state # "None" => Before(Reached, pos) = Body(Reached)
  BY <1>1, <1>2 DEF ComesNext, EntryInv, HoldsTheEntry
<1> DEFINE s == Limited.state
           b == Limited.builder
<1>5. \/ s = state /\ b = builder /\ discarded' = discarded
      \/ s = "None" /\ state # "None" /\ discarded' = discarded \cup {builder.id}
  BY DEF Limited, To, Outcome, Exceeded, Reads
<1>6. /\ sink' = IF finalize_plan(s, b) = <<>> THEN sink
                 ELSE Append(sink, [plan |-> finalize_plan(s, b)[1],
                                    database |-> current_database])
      /\ ~truncated'
  BY <1>1 DEF sink_accept
<1> HIDE DEF s, b
<1> DEFINE t == sink'
           d == discarded'
<1>7. t = IF finalize_plan(s, b) = <<>> THEN sink
          ELSE Append(sink, [plan |-> finalize_plan(s, b)[1], database |-> current_database])
  BY <1>6
<1>8. \/ s = state /\ b = builder /\ d = discarded
      \/ s = "None" /\ state # "None" /\ d = discarded \cup {builder.id}
  BY <1>5
<1> HIDE DEF t, d
<1>9. /\ \E R : t \in Seq(R)
      /\ Genuine(t) /\ Ascending(t, Reached) /\ Settled(t, d, Reached)
  BY <1>1, <1>4, <1>7, <1>8, EntryEnds DEF LogParserInv
<1> QED BY <1>1, <1>2, <1>3, <1>6, <1>9 DEF t, d, Reads, ComesNext

LEMMA ResetKeepsTheEntry ==
  ASSUME LogParserInv, reset_with_builder
  PROVE  LogParserInv'
<1> DEFINE item == NextLine
           T == EntriesOfLog(log)
<1>1. /\ Reads /\ item.l.k = "header" /\ item.l.stamped
      /\ sink_accept(finalize_plan(Limited.state, Limited.builder), current_database)
      /\ current_database' = DatabaseOf(item.id) /\ state' = "WaitingForQuery"
      /\ builder' = NewBuilder(item.id)
  BY DEF reset_with_builder, finished_database
<1>2. ComesNext(item, pos) BY <1>1, NextLineIs DEF LogParserInv, Reads, NextLine
<1>3. item.n = 1 /\ log[item.id] \in Forms /\ Stage(log[item.id], 1) = "WaitingForQuery"
  BY <1>1, <1>2, LineIs
<1>4. /\ item.id = Reached + 1 /\ Reached \in Nat /\ \E R : sink' \in Seq(R)
      /\ Genuine(sink') /\ Ascending(sink', Reached)
      /\ Settled(sink', discarded', Reached) /\ ~truncated'
      /\ UNCHANGED <<log, file, done>> /\ ~done /\ pos' = pos + 1 /\ pos < Len(file)
  BY <1>1, <1>3, MessageEnds
<1>5. Before(item.id, pos + 1) = <<>> BY <1>2, <1>3 DEF ComesNext
<1>6. Holds(T, builder', log[item.id], 1, <<>>)
  <2> DEFINE b == NewBuilder(item.id)
             none == <<>>
  <2>1. b.id = item.id /\ b.query = <<>> /\ b.content = <<>> /\ b.depth = 0
    BY DEF NewBuilder, NoBuilder
  <2>2. item.id \in Nat BY <1>4
  <2>3. none \in Seq(TextsIn(T)) /\ none \in Seq(T) /\ Len(none) = 0 /\ none \o none = none
    BY ConcatEmptySeq
  <2>4. b \in Builders(T)
    <3> DEFINE X == TextsIn(T)
               id == item.id
    <3>1. b = [id |-> id, query |-> none, content |-> none, depth |-> 0]
      BY DEF NewBuilder, NoBuilder
    <3>2. id \in Nat /\ none \in Seq(X) /\ none \in Seq(T) /\ 0 \in Int BY <2>2, <2>3
    <3> HIDE DEF b, none, X, id
    <3>3. b \in [id : Nat, query : Seq(X), content : Seq(T), depth : Int] BY <3>1, <3>2
    <3> QED BY <3>3 DEF Builders, X
  <2>5. TextsOf(none) = <<>> BY DEF TextsOf
  <2>6. OpenBrackets(log[item.id], 1) = 0 BY <1>3 DEF OpenBrackets
  <2>7. BeforeThePlan(none, log[item.id], 1) BY <2>3 DEF BeforeThePlan
  <2>8. IsContent(none, log[item.id], 1) BY <1>3, <2>3 DEF IsContent
  <2>9. b = builder' BY <1>1
  <2>10. Fields(T, b, item.id, TextsOf(none), none, OpenBrackets(log[item.id], 1))
    BY <2>1, <2>4, <2>5, <2>6 DEF Fields
  <2> HIDE DEF b
  <2>11. Len(none) = 1 - 1 BY <2>3
  <2> HIDE DEF none
  <2>12. Holds(T, b, log[item.id], 1, none)
    BY <2>3, <2>7, <2>8, <2>10, <2>11, HoldsFrom
  <2> QED BY <2>9, <2>12 DEF none
<1>7. builder'.id = item.id BY <1>1 DEF NewBuilder, NoBuilder
<1>8. EntryInv' /\ Reached' = item.id
  BY <1>1, <1>3, <1>4, <1>5, <1>6, <1>7, EntryInvNext DEF LogParserInv, NextLine
<1>9. SettledTo' = Reached BY <1>1, <1>4, <1>8 DEF SettledTo
<1>10. SinkInv' BY <1>4, <1>9, SinkInvNext
<1> QED BY <1>8, <1>10 DEF LogParserInv

LEMMA FinishKeepsTheEntry ==
  ASSUME LogParserInv, finish
  PROVE  LogParserInv'
<1> DEFINE item == NextLine
<1>1. /\ Reads
      /\ item.l.k = "log" \/ (item.l.k = "header" /\ ~item.l.stamped)
      /\ sink_accept(finalize_plan(Limited.state, Limited.builder), current_database)
      /\ state' = "None" /\ builder' = NoBuilder
  BY DEF finish
<1>2. ComesNext(item, pos) BY <1>1, NextLineIs DEF LogParserInv, Reads, NextLine
<1>3. item.n = 1 /\ item.id \notin Loggable BY <1>1, <1>2, LineIs
<1>4. /\ item.id = Reached + 1 /\ Reached \in Nat /\ \E R : sink' \in Seq(R)
      /\ Genuine(sink') /\ Ascending(sink', Reached)
      /\ Settled(sink', discarded', Reached) /\ ~truncated'
      /\ UNCHANGED <<log, file, done>> /\ ~done /\ pos' = pos + 1 /\ pos < Len(file)
  BY <1>1, <1>3, MessageEnds
<1>5. EntryInv' /\ Reached' = item.id
  BY <1>1, <1>4, EntryInvNext DEF LogParserInv, NextLine
<1> DEFINE k == Reached + 1
<1>6. SettledTo' = k BY <1>1, <1>4, <1>5 DEF SettledTo
<1>7. k \in Nat /\ k - 1 = Reached /\ k \notin Loggable BY <1>3, <1>4
<1> HIDE DEF k
<1>8. Ascending(sink', k) /\ Settled(sink', discarded', k)
  <2> DEFINE s == sink'
             d == discarded'
  <2>1. Genuine(s) /\ Ascending(s, k - 1) /\ Settled(s, d, k - 1) BY <1>4, <1>7
  <2> HIDE DEF s, d
  <2>2. Ascending(s, k) /\ Settled(s, d, k) BY <1>7, <2>1, SinkStays
  <2> QED BY <2>2 DEF s, d
<1>9. SinkInv' BY <1>4, <1>6, <1>8, SinkInvNext
<1> QED BY <1>5, <1>9 DEF LogParserInv

(* A line within a message: it is held, or closes a plan, or the message   *)
(* is not held any more.                                                   *)
LEMMA LineKeepsTheEntry ==
  ASSUME LogParserInv, process_continuation_line
  PROVE  LogParserInv'
<1> DEFINE item == NextLine
           T == EntriesOfLog(log)
           m == log[Reached]
           n == file[pos].n
           before == Before(Reached, pos)
           outcome == AfterLine(Limited.state, Limited.builder, item)
<1>1. /\ Reads /\ item.l.k \notin {"header", "log"}
      /\ state' = outcome.state /\ builder' = outcome.builder
      /\ sink_accept(outcome.plan, current_database)
      /\ UNCHANGED current_database
  <2>1. outcome = IF item.l.k = "blank" THEN Limited
                  ELSE advance_continuation(Limited.state, Limited.builder, item)
    BY DEF AfterLine, Limited, To, Outcome
  <2> HIDE DEF outcome
  <2> QED BY <2>1 DEF process_continuation_line
<1>2. /\ EntryInv /\ ~done /\ ~is_full /\ pos < Len(file) /\ pos' = pos + 1 /\ ~truncated
      /\ UNCHANGED <<log, file, done>> /\ ~done'
      /\ Genuine(sink) /\ Ascending(sink, SettledTo) /\ Settled(sink, discarded, SettledTo)
      /\ \E S : sink \in Seq(S)
  BY <1>1 DEF LogParserInv, SinkInv, Reads
<1>3. ComesNext(item, pos) BY <1>2, NextLineIs DEF NextLine
<1>4. item.n # 1 BY <1>1, <1>3, LineIs
<1>5. /\ pos > 0 /\ item.id = Reached /\ item.n = n + 1 /\ Reached \in Nat
      /\ Before(Reached, pos + 1) = LinesAfter(before, item)
      /\ before \in Seq(T) /\ item \in T /\ m \in Messages
      /\ item.n \in 1 .. Len(Shape(m)) /\ item.l = Shape(m)[n + 1]
  BY <1>2, <1>3, <1>4, ReachedIs DEF ComesNext
<1>6. CASE state = "None"
  <2>1. Limited.state = "None" /\ Limited.builder = NoBuilder /\ discarded' = discarded
    BY <1>1, <1>2, <1>6 DEF Limited, Exceeded, To, Outcome, EntryInv, Reads
  <2>2. state' = "None" /\ builder' = NoBuilder /\ outcome.plan = <<>>
    BY <1>1, <2>1 DEF AfterLine, advance_continuation, To, Outcome
  <2>3. sink' = sink /\ ~truncated' BY <1>1, <1>2, <2>2 DEF sink_accept
  <2>4. EntryInv' /\ Reached' = Reached
    BY <1>2, <1>5, <2>2, EntryInvNext DEF NextLine
  <2>5. SettledTo' = SettledTo BY <1>6, <2>2, <2>4 DEF SettledTo
  <2>6. SinkInv' BY <1>2, <2>1, <2>3, <2>5, SinkInvNext
  <2> QED BY <2>4, <2>6 DEF LogParserInv
<1>7. CASE state # "None"
  <2>1. /\ SettledTo = Reached - 1 /\ m \in Forms /\ state = Stage(m, n)
        /\ builder.id = Reached /\ current_database = DatabaseOf(Reached)
        /\ Holds(T, builder, m, n, before)
    BY <1>2, <1>5, <1>7 DEF SettledTo, EntryInv, HoldsTheEntry, Reached
  <2>2. CASE Exceeded
    <3>1. /\ Limited.state = "None" /\ Limited.builder = NoBuilder
          /\ discarded' = discarded \cup {Reached}
      BY <1>1, <2>1, <2>2 DEF Limited, To, Outcome, Reads
    <3>2. state' = "None" /\ builder' = NoBuilder /\ outcome.plan = <<>>
      BY <1>1, <3>1 DEF AfterLine, advance_continuation, To, Outcome
    <3>3. sink' = sink /\ ~truncated' BY <1>1, <1>2, <3>2 DEF sink_accept
    <3>4. EntryInv' /\ Reached' = Reached
      BY <1>2, <1>5, <3>2, EntryInvNext DEF NextLine
    <3>5. SettledTo' = Reached BY <3>2, <3>4 DEF SettledTo
    <3> DEFINE d == discarded'
    <3>6. discarded \subseteq d /\ Reached \in d BY <3>1
    <3> HIDE DEF d
    <3>7. Ascending(sink, Reached) /\ Settled(sink, d, Reached)
      BY <1>2, <1>5, <2>1, <3>6, SinkStays
    <3>8. SinkInv' BY <1>2, <3>3, <3>5, <3>7, SinkInvNext DEF d
    <3> QED BY <3>4, <3>8 DEF LogParserInv
  <2>3. CASE ~Exceeded
    <3>1. Limited.state = Stage(m, n) /\ Limited.builder = builder /\ discarded' = discarded
      BY <1>1, <2>1, <2>3 DEF Limited, To, Outcome, Reads
    <3>2. n \in Nat \ {0} /\ n + 1 <= Len(Shape(m)) /\ Len(Shape(m)) \in Nat
      <4>1. pos \in 1 .. Len(file) BY <1>2, <1>5, ReachedIs
      <4>2. n \in 1 .. Len(Shape(m)) BY <1>2, <1>5, <4>1, LinesAre DEF EntryInv, Reached
      <4>3. Len(Shape(m)) \in Nat BY <1>5, ShapeLengths
      <4> QED BY <1>5, <4>2, <4>3
    <3>3. WhatFollows(m, n, item.l) BY <1>5, <2>1, <3>2, EveryLineFollows
    <3> DEFINE more == LinesAfter(before, item)
               o == AfterLine(Stage(m, n), builder, item)
    <3>4. o = outcome BY <3>1
    <3> HIDE DEF outcome, before, m, n, T, item
    <3>5. GoesOn(T, o, builder, m, n + 1, more) \/ IsAccepted(o, builder, m, n + 1, more)
      BY <1>5, <2>1, <3>2, <3>3, HoldsNext
    <3> HIDE DEF o, more
    <3>6. CASE GoesOn(T, o, builder, m, n + 1, more)
      <4>1. /\ o.plan = <<>> /\ state' = Stage(m, item.n) /\ state' # "None"
            /\ builder'.id = Reached /\ Holds(T, builder', m, item.n, more)
        BY <1>1, <1>5, <2>1, <3>4, <3>6 DEF GoesOn
      <4>2. sink' = sink /\ ~truncated' BY <1>1, <1>2, <3>4, <4>1 DEF sink_accept
      <4>3. current_database' = DatabaseOf(Reached) BY <1>1, <2>1
      <4>4. Before(Reached, pos + 1) = more BY <1>5 DEF more
      <4>5. EntryInv' /\ Reached' = Reached
        BY <1>2, <1>5, <2>1, <4>1, <4>3, <4>4, EntryInvNext DEF NextLine, item, m, T
      <4>6. SettledTo' = SettledTo BY <1>7, <4>1, <4>5 DEF SettledTo
      <4>7. SinkInv' BY <1>2, <3>1, <4>2, <4>6, SinkInvNext
      <4> QED BY <4>5, <4>7 DEF LogParserInv
    <3>7. CASE IsAccepted(o, builder, m, n + 1, more)
      <4>1. /\ m \in JsonForms /\ item.n = Len(Shape(m)) /\ Len(more) = Len(Shape(m)) - 1
            /\ state' = "None" /\ builder' = NoBuilder
        BY <1>1, <1>5, <3>2, <3>4, <3>7 DEF IsAccepted
      <4>2. PICK plan : o.plan = <<plan>> /\ plan.id = builder.id /\ OfTheEntry(plan, more)
        BY <3>7 DEF IsAccepted
      <4>3. more = Body(Reached)
        <5> DEFINE q == pos + 1
        <5>1. q \in 1 .. Len(file) /\ file[q] = item BY <1>3 DEF ComesNext
        <5>2. Before(Reached, q) = more BY <1>5 DEF more
        <5> HIDE DEF q
        <5>3. Before(Reached, q) = Body(Reached)
          BY <1>2, <1>5, <4>1, <5>1, EntryIsRead DEF EntryInv, m
        <5> QED BY <5>2, <5>3
      <4>4. EntryInv' /\ Reached' = Reached
        BY <1>2, <1>5, <4>1, EntryInvNext DEF NextLine, item
      <4>5. SettledTo' = Reached BY <4>1, <4>4 DEF SettledTo
      <4>6. Reached \in Loggable
        <5>1. Reached \in 1 .. Len(log) BY <1>3, <1>5 DEF ComesNext
        <5>2. HasPlan(log[Reached], Body(Reached)) BY <4>1, <4>3 DEF HasPlan, m
        <5>3. log[Reached] \notin {"error", "bad_stamp"} BY <4>1 DEF JsonForms, m
        <5> QED BY <5>1, <5>2, <5>3, LoggableIs
      <4> DEFINE t == sink'
      <4>7. /\ t = Append(sink, [plan |-> plan, database |-> current_database])
            /\ ~truncated'
        <5>1. outcome.plan = <<plan>> /\ outcome.plan # <<>> /\ outcome.plan[1] = plan
          BY <3>4, <4>2
        <5>2. /\ sink' = Append(sink, [plan |-> outcome.plan[1],
                                      database |-> current_database])
              /\ ~truncated'
          BY <1>1, <1>2, <5>1 DEF sink_accept
        <5> QED BY <5>1, <5>2
      <4> HIDE DEF t
      <4>8. PICK S : sink \in Seq(S) BY <1>2
      <4> DEFINE k == Reached
                 u == Append(sink, [plan |-> plan, database |-> current_database])
      <4>9. /\ k \in Nat /\ k \in Loggable /\ plan.id = k /\ OfTheEntry(plan, Body(k))
            /\ Ascending(sink, k - 1) /\ Settled(sink, discarded, k - 1)
            /\ current_database = DatabaseOf(k)
        BY <1>2, <1>5, <2>1, <4>2, <4>3, <4>6
      <4> HIDE DEF k, u
      <4>10. (\E R : u \in Seq(R)) /\ Genuine(u) /\ Ascending(u, k)
             /\ Settled(u, discarded, k)
        BY <1>2, <4>8, <4>9, SinkGrows DEF u
      <4>11. SinkInv'
        <5>1. t = u /\ k = SettledTo' BY <4>5, <4>7 DEF k, u
        <5> QED BY <1>2, <3>1, <4>7, <4>10, <5>1, SinkInvNext DEF t
      <4> QED BY <4>4, <4>11 DEF LogParserInv
    <3> QED BY <3>5, <3>6, <3>7
  <2> QED BY <2>2, <2>3
<1> QED BY <1>6, <1>7

(* The end: what is held becomes a plan, and nothing is left or it is      *)
(* reported.                                                               *)
LEMMA StopKeepsTheEntry ==
  ASSUME LogParserInv, stop_when_full \/ end_of_file
  PROVE  LogParserInv'
<1> DEFINE plan == finalize_plan(state, builder)
<1>1. /\ EntryInv /\ ~done /\ ~truncated /\ \E S : sink \in Seq(S)
      /\ Genuine(sink) /\ Ascending(sink, SettledTo) /\ Settled(sink, discarded, SettledTo)
  BY DEF LogParserInv, SinkInv, stop_when_full, end_of_file
<1>2. /\ UNCHANGED <<log, file, pos, discarded>> /\ done' = TRUE /\ state' = "None"
      /\ builder' = NoBuilder
      /\ sink' = IF plan = <<>> \/ is_full THEN sink
                 ELSE Append(sink, [plan |-> plan[1], database |-> current_database])
      /\ is_full /\ (pos < Len(file) \/ plan # <<>>) => truncated'
      /\ ~is_full => pos = Len(file)
  BY DEF stop_when_full, end_of_file, Stop
<1>3. Reached \in Nat /\ pos \in Nat /\ Len(file) \in Nat /\ pos <= Len(file)
  BY <1>1, ReachedIs, LenProperties DEF EntryInv, FileIsLaidOut
<1>4. EntryInv'
  <2>1. FileIsLaidOut' BY <1>1, <1>2, FileFixed DEF EntryInv
  <2>2. Reached' = Reached BY <1>2 DEF Reached
  <2>3. ASSUME NEW id \in Nat PROVE Before(id, pos)' = Before(id, pos)
    BY <1>2 DEF Before, Wanted
  <2> QED BY <1>1, <1>2, <2>1, <2>2, <2>3 DEF EntryInv
<1>5. SettledTo' = Reached BY <1>2 DEF SettledTo, Reached
<1>6. CASE is_full /\ (pos < Len(file) \/ plan # <<>>)
  <2>1. sink' = sink /\ truncated' BY <1>2, <1>6
  <2>2. Ascending(sink, Reached)
    <3>1. SettledTo = Reached \/ SettledTo = Reached - 1 BY DEF SettledTo
    <3>2. \A id \in Loggable : id \in Nat BY LoggableIs
    <3> QED BY <1>1, <1>3, <3>1, <3>2 DEF Ascending, Genuine
  <2>3. SinkInv' BY <1>1, <1>2, <1>5, <2>1, <2>2, SinkInvNext
  <2> QED BY <1>4, <2>3 DEF LogParserInv
<1>7. CASE pos = Len(file) /\ (is_full => plan = <<>>)
  <2>1. \A id : Before(id, pos) = Body(id) BY <1>1, <1>7, BeforeEnds DEF EntryInv
  <2> DEFINE t == sink'
  <2>2. t = IF plan = <<>> THEN sink
            ELSE Append(sink, [plan |-> plan[1], database |-> current_database])
    BY <1>2, <1>7
  <2> HIDE DEF t
  <2>3. /\ \E R : t \in Seq(R)
        /\ Genuine(t) /\ Ascending(t, Reached) /\ Settled(t, discarded, Reached)
    BY <1>1, <2>1, <2>2, EntryEnds
  <2>4. ASSUME NEW id \in Loggable PROVE id <= Reached
    <3>1. id \in 1 .. Len(log) /\ HasPlan(log[id], Body(id)) BY LoggableIs
    <3>2. id \in Nat /\ log[id] \in Messages
      <4>1. log \in Seq(Messages) BY <1>1 DEF EntryInv, FileIsLaidOut
      <4> QED BY <3>1, <4>1
    <3>3. Reached < id => Body(id) = <<>> BY <1>1, <2>1, <3>2 DEF EntryInv
    <3>4. ~HasPlan(log[id], <<>>)
      <4>1. log[id] \in JsonForms => Len(Shape(log[id])) = 4
        BY ShapeJson, ShapeQueryJson DEF JsonForms
      <4>2. Len(<<>>) = 0 OBVIOUS
      <4> QED BY <4>1, <4>2 DEF HasPlan
    <3> QED BY <1>3, <3>1, <3>2, <3>3, <3>4
  <2>5. Settled(t, discarded, Len(log))
    BY <2>3, <2>4 DEF Settled
  <2>6. SinkInv' BY <1>2, <1>5, <2>3, <2>5, SinkInvNext DEF t
  <2> QED BY <1>4, <2>6 DEF LogParserInv
<1>8. pos < Len(file) \/ pos = Len(file) BY <1>3
<1> QED BY <1>2, <1>6, <1>7, <1>8

(* LogParserInv is inductive.                                              *)
LEMMA LogParserInvInductive ==
  /\ ParserInit => LogParserInv
  /\ LogParserInv /\ [ParserNext]_parserVars => LogParserInv'
<1>1. ParserInit => LogParserInv
  <2> SUFFICES ASSUME ParserInit PROVE LogParserInv OBVIOUS
  <2>1. FileIsLaidOut BY InitFile
  <2>2. /\ pos = 0 /\ state = "None" /\ builder = NoBuilder /\ sink = <<>>
        /\ ~truncated /\ ~done
    BY DEF ParserInit
  <2>3. Len(file) \in Nat BY <2>1, LenProperties DEF FileIsLaidOut
  <2>4. \A id : Before(id, pos) = <<>> BY <2>1, <2>2, BeforeEnds
  <2>5. EntryInv BY <2>1, <2>2, <2>3, <2>4 DEF EntryInv
  <2>6. Reached = 0 /\ SettledTo = 0 BY <2>2 DEF Reached, SettledTo
  <2>7. sink \in Seq({}) /\ Len(sink) = 0 BY <2>2
  <2>8. Genuine(sink) /\ Ascending(sink, 0) BY <2>7 DEF Genuine, Ascending
  <2>9. Settled(sink, discarded, 0) BY LoggableIs DEF Settled
  <2> QED BY <2>2, <2>5, <2>6, <2>7, <2>8, <2>9 DEF LogParserInv, SinkInv
<1>2. LogParserInv /\ [ParserNext]_parserVars => LogParserInv'
  <2> SUFFICES ASSUME LogParserInv, [ParserNext]_parserVars PROVE LogParserInv'
    OBVIOUS
  <2>1. CASE reset_with_builder BY <2>1, ResetKeepsTheEntry
  <2>2. CASE finish BY <2>2, FinishKeepsTheEntry
  <2>3. CASE process_continuation_line BY <2>3, LineKeepsTheEntry
  <2>4. CASE stop_when_full \/ end_of_file BY <2>4, StopKeepsTheEntry
  <2>5. CASE UNCHANGED parserVars
    <3>1. UNCHANGED <<log, file, pos, state, builder, current_database, sink, truncated,
                      done, discarded>>
      BY <2>5 DEF parserVars
    <3>2. Reached' = Reached /\ SettledTo' = SettledTo BY <3>1 DEF Reached, SettledTo
    <3>3. EntryInv'
      <4>1. EntryInv BY DEF LogParserInv
      <4>2. FileIsLaidOut' BY <3>1, <4>1, FileFixed DEF EntryInv
      <4>3. ASSUME NEW id \in Nat PROVE Before(id, pos)' = Before(id, pos)
        BY <3>1 DEF Before, Wanted
      <4>4. Before(file[pos].id, pos)' = Before(file[pos].id, pos)
        BY <3>1 DEF Before, Wanted
      <4>5. HoldsTheEntry => HoldsTheEntry' BY <3>1, <4>4 DEF HoldsTheEntry, DatabaseOf
      <4> QED BY <3>1, <3>2, <4>1, <4>2, <4>3, <4>5 DEF EntryInv
    <3>4. SinkInv' BY <3>1, <3>2, SinkInvNext DEF LogParserInv, SinkInv
    <3> QED BY <3>3, <3>4 DEF LogParserInv
  <2> QED BY <2>1, <2>2, <2>3, <2>4, <2>5 DEF ParserNext
<1> QED BY <1>1, <1>2

LEMMA LogParserInvAlways == ParserSpec => []LogParserInv
<1>1. ParserInit => LogParserInv BY LogParserInvInductive
<1>2. LogParserInv /\ [ParserNext]_parserVars => LogParserInv' BY LogParserInvInductive
<1> QED BY <1>1, <1>2, PTL DEF ParserSpec

(* A plan is made of the lines of one log entry, all of them, with the     *)
(* query before the plan, under that entry's database.                     *)
THEOREM EachPlanIsItsEntry == ParserSpec => []OneEntryEach
<1>1. LogParserInv => OneEntryEach
  BY DEF LogParserInv, SinkInv, Genuine, OfTheEntry, OneEntryEach
<1> QED BY <1>1, LogParserInvAlways, PTL

(* At the end every plan of the file that the builders accept was accepted *)
(* once and in order, was dropped by the limit on an entry, or the loss is *)
(* reported, whatever refused plans lie between them; and nothing else     *)
(* became a plan.                                                          *)
THEOREM PlansAreAccounted == ParserSpec => []EveryPlanIsAccounted
<1>1. ASSUME LogParserInv PROVE EveryPlanIsAccounted
  <2>1. \A i, j \in 1 .. Len(sink) : i < j => sink[i].plan.id < sink[j].plan.id
    BY <1>1 DEF LogParserInv, SinkInv, Ascending
  <2>2. IdsOf(sink) \subseteq Loggable
    BY <1>1 DEF LogParserInv, SinkInv, Genuine, IdsOf
  <2>3. ASSUME done, ~truncated PROVE Loggable = IdsOf(sink) \cup (discarded \cap Loggable)
    <3>1. Settled(sink, discarded, Len(log)) BY <1>1, <2>3 DEF LogParserInv, SinkInv
    <3>2. ASSUME NEW id \in Loggable PROVE id <= Len(log)
      <4>1. id \in 1 .. Len(log) BY LoggableIs
      <4> QED BY <4>1
    <3>3. ASSUME NEW id \in Loggable PROVE id \in IdsOf(sink) \cup discarded
      BY <3>1, <3>2 DEF Settled
    <3> QED BY <2>2, <3>3
  <2> QED BY <2>1, <2>2, <2>3 DEF EveryPlanIsAccounted, IdsOf
<1> QED BY <1>1, LogParserInvAlways, PTL
=============================================================================
