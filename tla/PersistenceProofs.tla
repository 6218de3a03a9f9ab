------------------------- MODULE PersistenceProofs -------------------------
(***************************************************************************)
(* Proofs about what persist_rows stores and how it locks.  For all rows,  *)
(* it does not matter how captures are cut into batches: the UPSERTs are   *)
(* associative, save for the choice among query ids, and the tables are    *)
(* those of one batch of all captures stored (StatMerge).  For any         *)
(* writers, a purge takes only expired minutes, and the order of locks     *)
(* excludes deadlocks as far as it goes (PersistLocks).                    *)
(***************************************************************************)
EXTENDS PersistLocks, StatMerge, SequenceTheorems, FiniteSetTheorems,
        WellFoundedInduction, TLAPS

(* The rows of the three tables; what a capture and its analysis are is    *)
(* left open.                                                              *)
Rows ==
  [calls : Nat, total_time_ms : Nat, sum_sq_time_ms : Nat, slo_breaches : Nat,
   latency_buckets : [Buckets -> Nat], min_time_ms : Nat, max_time_ms : Nat,
   first_seen : Nat, last_seen : Nat, representative_sql : Captures,
   plan_analysis : SUBSET Captures, query_id : Nat]

HistogramRows == [calls : Nat, total_time_ms : Nat, min_time_ms : Nat, max_time_ms : Nat]
WindowRows == [calls : Nat, total_time_ms : Nat, latency_buckets : [Buckets -> Nat]]

(* A table of such rows, by hour or by minute.                             *)
IsTable(t, R) == t = [k \in DOMAIN t |-> t[k]] /\ \A k \in DOMAIN t : t[k] \in R

-----------------------------------------------------------------------------
LEMMA ExtremesAssociative ==
  ASSUME NEW a \in Nat, NEW b \in Nat, NEW c \in Nat
  PROVE  /\ Least(a, b) \in Nat /\ Greatest(a, b) \in Nat
         /\ Least(Least(a, b), c) = Least(a, Least(b, c))
         /\ Greatest(Greatest(a, b), c) = Greatest(a, Greatest(b, c))
  BY DEF Least, Greatest

LEMMA BucketsAssociative ==
  ASSUME NEW a \in [Buckets -> Nat], NEW b \in [Buckets -> Nat], NEW c \in [Buckets -> Nat]
  PROVE  /\ add_bucket_arrays(a, b) \in [Buckets -> Nat]
         /\ add_bucket_arrays(add_bucket_arrays(a, b), c)
              = add_bucket_arrays(a, add_bucket_arrays(b, c))
  BY DEF add_bucket_arrays

LEMMA RowFields ==
  ASSUME NEW r \in Rows
  PROVE  /\ r.calls \in Nat /\ r.total_time_ms \in Nat /\ r.sum_sq_time_ms \in Nat
         /\ r.slo_breaches \in Nat /\ r.latency_buckets \in [Buckets -> Nat]
         /\ r.min_time_ms \in Nat /\ r.max_time_ms \in Nat
         /\ r.first_seen \in Nat /\ r.last_seen \in Nat
         /\ r.representative_sql \in Captures /\ r.plan_analysis \in SUBSET Captures
         /\ r.query_id \in Nat
  BY DEF Rows

(* An UPSERT leaves a row.                                                 *)
LEMMA UpsertIsRow ==
  ASSUME NEW a \in Rows, NEW b \in Rows
  PROVE  upsert(a, b) \in Rows
<1>1. add_bucket_arrays(a.latency_buckets, b.latency_buckets) \in [Buckets -> Nat]
  BY RowFields, BucketsAssociative
<1>2. /\ Least(a.min_time_ms, b.min_time_ms) \in Nat /\ Least(a.first_seen, b.first_seen) \in Nat
      /\ Greatest(a.max_time_ms, b.max_time_ms) \in Nat /\ Greatest(a.last_seen, b.last_seen) \in Nat
  BY RowFields, ExtremesAssociative
<1>3. /\ a.calls + b.calls \in Nat /\ a.total_time_ms + b.total_time_ms \in Nat
      /\ a.sum_sq_time_ms + b.sum_sq_time_ms \in Nat /\ a.slo_breaches + b.slo_breaches \in Nat
  BY RowFields
<1>4. Coalesce(a.query_id, b.query_id) \in Nat /\ Coalesce(b.query_id, a.query_id) \in Nat
  BY RowFields DEF Coalesce
<1> QED BY <1>1, <1>2, <1>3, <1>4, RowFields DEF upsert, Rows

(* What an UPSERT makes of the fields.                                     *)
LEMMA UpsertSums ==
  ASSUME NEW a \in Rows, NEW b \in Rows
  PROVE  /\ upsert(a, b).calls = a.calls + b.calls
         /\ upsert(a, b).total_time_ms = a.total_time_ms + b.total_time_ms
         /\ upsert(a, b).sum_sq_time_ms = a.sum_sq_time_ms + b.sum_sq_time_ms
         /\ upsert(a, b).slo_breaches = a.slo_breaches + b.slo_breaches
         /\ upsert(a, b).latency_buckets = add_bucket_arrays(a.latency_buckets, b.latency_buckets)
  BY DEF upsert

LEMMA UpsertExtremes ==
  ASSUME NEW a \in Rows, NEW b \in Rows
  PROVE  /\ upsert(a, b).min_time_ms = Least(a.min_time_ms, b.min_time_ms)
         /\ upsert(a, b).max_time_ms = Greatest(a.max_time_ms, b.max_time_ms)
         /\ upsert(a, b).first_seen = Least(a.first_seen, b.first_seen)
         /\ upsert(a, b).last_seen = Greatest(a.last_seen, b.last_seen)
  BY DEF upsert

LEMMA UpsertChoices ==
  ASSUME NEW a \in Rows, NEW b \in Rows
  PROVE  /\ upsert(a, b).representative_sql =
              IF b.max_time_ms >= a.max_time_ms THEN b.representative_sql ELSE a.representative_sql
         /\ upsert(a, b).plan_analysis =
              IF b.max_time_ms >= a.max_time_ms THEN b.plan_analysis ELSE a.plan_analysis
         /\ (upsert(a, b).query_id = 0) = (a.query_id = 0 /\ b.query_id = 0)
  BY DEF upsert, refreshes, Coalesce

(* Of three rows the representative is the last of the slowest, however    *)
(* they are bracketed: "replaced whenever a batch's slowest execution is   *)
(* at least as slow" (UPSERT_SQL).                                         *)
LEMMA RefreshAssociative ==
  ASSUME NEW a \in Rows, NEW b \in Rows, NEW c \in Rows
  PROVE  /\ upsert(upsert(a, b), c).representative_sql
              = upsert(a, upsert(b, c)).representative_sql
         /\ upsert(upsert(a, b), c).plan_analysis = upsert(a, upsert(b, c)).plan_analysis
<1> DEFINE ab == upsert(a, b)
           bc == upsert(b, c)
<1>1. ab \in Rows /\ bc \in Rows BY UpsertIsRow
<1>2. /\ a.max_time_ms \in Nat /\ b.max_time_ms \in Nat /\ c.max_time_ms \in Nat
  BY RowFields
<1>3. /\ ab.max_time_ms = Greatest(a.max_time_ms, b.max_time_ms)
      /\ bc.max_time_ms = Greatest(b.max_time_ms, c.max_time_ms)
  BY UpsertExtremes
<1>4. /\ ab.representative_sql =
           IF b.max_time_ms >= a.max_time_ms THEN b.representative_sql ELSE a.representative_sql
      /\ bc.representative_sql =
           IF c.max_time_ms >= b.max_time_ms THEN c.representative_sql ELSE b.representative_sql
      /\ ab.plan_analysis =
           IF b.max_time_ms >= a.max_time_ms THEN b.plan_analysis ELSE a.plan_analysis
      /\ bc.plan_analysis =
           IF c.max_time_ms >= b.max_time_ms THEN c.plan_analysis ELSE b.plan_analysis
  BY UpsertChoices
<1>5. /\ upsert(ab, c).representative_sql =
           IF c.max_time_ms >= ab.max_time_ms THEN c.representative_sql ELSE ab.representative_sql
      /\ upsert(a, bc).representative_sql =
           IF bc.max_time_ms >= a.max_time_ms THEN bc.representative_sql ELSE a.representative_sql
      /\ upsert(ab, c).plan_analysis =
           IF c.max_time_ms >= ab.max_time_ms THEN c.plan_analysis ELSE ab.plan_analysis
      /\ upsert(a, bc).plan_analysis =
           IF bc.max_time_ms >= a.max_time_ms THEN bc.plan_analysis ELSE a.plan_analysis
  BY <1>1, UpsertChoices
<1> HIDE DEF ab, bc
<1>6. /\ upsert(ab, c).representative_sql = upsert(a, bc).representative_sql
      /\ upsert(ab, c).plan_analysis = upsert(a, bc).plan_analysis
  BY <1>2, <1>3, <1>4, <1>5 DEF Greatest
<1> QED BY <1>6 DEF ab, bc

-----------------------------------------------------------------------------
(* Three batches may be stored one by one, or the last two merged first:   *)
(* the row of the query is the same but for the choice of its query id,    *)
(* and no bracketing loses a known id.                                     *)
THEOREM UpsertsMayBeRegrouped ==
  ASSUME NEW a \in Rows, NEW b \in Rows, NEW c \in Rows
  PROVE  /\ WithoutId(upsert(upsert(a, b), c)) = WithoutId(upsert(a, upsert(b, c)))
         /\ (upsert(upsert(a, b), c).query_id = 0) = (upsert(a, upsert(b, c)).query_id = 0)
<1> DEFINE x == upsert(upsert(a, b), c)
           y == upsert(a, upsert(b, c))
<1>1. upsert(a, b) \in Rows /\ upsert(b, c) \in Rows /\ x \in Rows /\ y \in Rows
  BY UpsertIsRow
<1>2. /\ x.calls = y.calls /\ x.total_time_ms = y.total_time_ms
      /\ x.sum_sq_time_ms = y.sum_sq_time_ms /\ x.slo_breaches = y.slo_breaches
  BY <1>1, RowFields, UpsertSums
<1>3. x.latency_buckets = y.latency_buckets
  BY <1>1, RowFields, UpsertSums, BucketsAssociative
<1>4. /\ x.min_time_ms = y.min_time_ms /\ x.max_time_ms = y.max_time_ms
      /\ x.first_seen = y.first_seen /\ x.last_seen = y.last_seen
  <2> DEFINE ab == upsert(a, b)
             bc == upsert(b, c)
  <2>1. \A r \in {a, b, c} : /\ r.min_time_ms \in Nat /\ r.max_time_ms \in Nat
                            /\ r.first_seen \in Nat /\ r.last_seen \in Nat
    BY RowFields
  <2>2. /\ ab.min_time_ms = Least(a.min_time_ms, b.min_time_ms)
        /\ ab.max_time_ms = Greatest(a.max_time_ms, b.max_time_ms)
        /\ ab.first_seen = Least(a.first_seen, b.first_seen)
        /\ ab.last_seen = Greatest(a.last_seen, b.last_seen)
    BY UpsertExtremes
  <2>3. /\ bc.min_time_ms = Least(b.min_time_ms, c.min_time_ms)
        /\ bc.max_time_ms = Greatest(b.max_time_ms, c.max_time_ms)
        /\ bc.first_seen = Least(b.first_seen, c.first_seen)
        /\ bc.last_seen = Greatest(b.last_seen, c.last_seen)
    BY UpsertExtremes
  <2>4. /\ x.min_time_ms = Least(ab.min_time_ms, c.min_time_ms)
        /\ x.max_time_ms = Greatest(ab.max_time_ms, c.max_time_ms)
        /\ x.first_seen = Least(ab.first_seen, c.first_seen)
        /\ x.last_seen = Greatest(ab.last_seen, c.last_seen)
    BY <1>1, UpsertExtremes
  <2>5. /\ y.min_time_ms = Least(a.min_time_ms, bc.min_time_ms)
        /\ y.max_time_ms = Greatest(a.max_time_ms, bc.max_time_ms)
        /\ y.first_seen = Least(a.first_seen, bc.first_seen)
        /\ y.last_seen = Greatest(a.last_seen, bc.last_seen)
    BY <1>1, UpsertExtremes
  <2> HIDE DEF ab, bc, x, y
  <2>6. x.min_time_ms = y.min_time_ms BY <2>1, <2>2, <2>3, <2>4, <2>5 DEF Least
  <2>7. x.max_time_ms = y.max_time_ms BY <2>1, <2>2, <2>3, <2>4, <2>5 DEF Greatest
  <2>8. x.first_seen = y.first_seen BY <2>1, <2>2, <2>3, <2>4, <2>5 DEF Least
  <2>9. x.last_seen = y.last_seen BY <2>1, <2>2, <2>3, <2>4, <2>5 DEF Greatest
  <2> QED BY <2>6, <2>7, <2>8, <2>9
<1>5. x.representative_sql = y.representative_sql /\ x.plan_analysis = y.plan_analysis
  BY RefreshAssociative
<1>6. (x.query_id = 0) = (y.query_id = 0)
  <2>1. (x.query_id = 0) = (upsert(a, b).query_id = 0 /\ c.query_id = 0)
    BY <1>1, UpsertChoices
  <2>2. (y.query_id = 0) = (a.query_id = 0 /\ upsert(b, c).query_id = 0)
    BY <1>1, UpsertChoices
  <2>3. (upsert(a, b).query_id = 0) = (a.query_id = 0 /\ b.query_id = 0)
    BY UpsertChoices
  <2>4. (upsert(b, c).query_id = 0) = (b.query_id = 0 /\ c.query_id = 0)
    BY UpsertChoices
  <2> QED BY <2>1, <2>2, <2>3, <2>4
<1>7. WithoutId(x) = WithoutId(y)
  <2> HIDE DEF x, y
  <2> QED BY <1>1, <1>2, <1>3, <1>4, <1>5 DEF WithoutId, Rows
<1> QED BY <1>6, <1>7

(* The same of the rows of query_histogram and metrics_window.             *)
LEMMA HistogramAssociative ==
  ASSUME NEW a \in HistogramRows, NEW b \in HistogramRows, NEW c \in HistogramRows
  PROVE  /\ histogram_upsert(a, b) \in HistogramRows
         /\ histogram_upsert(histogram_upsert(a, b), c) = histogram_upsert(a, histogram_upsert(b, c))
<1>1. \A r \in {a, b, c} : /\ r.calls \in Nat /\ r.total_time_ms \in Nat
                          /\ r.min_time_ms \in Nat /\ r.max_time_ms \in Nat
  BY DEF HistogramRows
<1> QED BY <1>1 DEF HistogramRows, histogram_upsert, Least, Greatest

LEMMA WindowAssociative ==
  ASSUME NEW a \in WindowRows, NEW b \in WindowRows, NEW c \in WindowRows
  PROVE  /\ window_upsert(a, b) \in WindowRows
         /\ window_upsert(window_upsert(a, b), c) = window_upsert(a, window_upsert(b, c))
  BY BucketsAssociative DEF WindowRows, window_upsert

(* Three batches may be regrouped in the tables too: an hour or a minute   *)
(* that only some of them touch is inserted or updated to the same row     *)
(* (the two ON CONFLICT clauses of persist_rows).                          *)
THEOREM TablesMayBeRegrouped ==
  ASSUME NEW t, NEW u, NEW v
  PROVE  /\ IsTable(t, HistogramRows) /\ IsTable(u, HistogramRows) /\ IsTable(v, HistogramRows) =>
              OnConflict(OnConflict(t, u, histogram_upsert), v, histogram_upsert)
                = OnConflict(t, OnConflict(u, v, histogram_upsert), histogram_upsert)
         /\ IsTable(t, WindowRows) /\ IsTable(u, WindowRows) /\ IsTable(v, WindowRows) =>
              OnConflict(OnConflict(t, u, window_upsert), v, window_upsert)
                = OnConflict(t, OnConflict(u, v, window_upsert), window_upsert)
<1>1. ASSUME IsTable(t, HistogramRows), IsTable(u, HistogramRows), IsTable(v, HistogramRows)
      PROVE  OnConflict(OnConflict(t, u, histogram_upsert), v, histogram_upsert)
               = OnConflict(t, OnConflict(u, v, histogram_upsert), histogram_upsert)
  <2> DEFINE tu == OnConflict(t, u, histogram_upsert)
             uv == OnConflict(u, v, histogram_upsert)
             l == OnConflict(tu, v, histogram_upsert)
             r == OnConflict(t, uv, histogram_upsert)
  <2>1. /\ DOMAIN tu = DOMAIN t \cup DOMAIN u /\ DOMAIN uv = DOMAIN u \cup DOMAIN v
        /\ DOMAIN l = DOMAIN tu \cup DOMAIN v /\ DOMAIN r = DOMAIN t \cup DOMAIN uv
    BY DEF OnConflict
  <2>2. ASSUME NEW k \in DOMAIN l PROVE l[k] = r[k]
    <3>1. /\ k \in DOMAIN t => t[k] \in HistogramRows
          /\ k \in DOMAIN u => u[k] \in HistogramRows
          /\ k \in DOMAIN v => v[k] \in HistogramRows
      BY <1>1 DEF IsTable
    <3>2. k \in DOMAIN tu => tu[k] = IF k \notin DOMAIN u THEN t[k]
                               ELSE IF k \notin DOMAIN t THEN u[k] ELSE histogram_upsert(t[k], u[k])
      BY DEF OnConflict
    <3>3. k \in DOMAIN uv => uv[k] = IF k \notin DOMAIN v THEN u[k]
                               ELSE IF k \notin DOMAIN u THEN v[k] ELSE histogram_upsert(u[k], v[k])
      BY DEF OnConflict
    <3>4. /\ l[k] = IF k \notin DOMAIN v THEN tu[k]
                    ELSE IF k \notin DOMAIN tu THEN v[k] ELSE histogram_upsert(tu[k], v[k])
          /\ r[k] = IF k \notin DOMAIN uv THEN t[k]
                    ELSE IF k \notin DOMAIN t THEN uv[k] ELSE histogram_upsert(t[k], uv[k])
      BY <2>1 DEF OnConflict
    <3> HIDE DEF tu, uv, l, r
    <3> QED BY <2>1, <3>1, <3>2, <3>3, <3>4, HistogramAssociative
  <2>3. l = [k \in DOMAIN l |-> l[k]] /\ r = [k \in DOMAIN r |-> r[k]]
    BY DEF OnConflict
  <2> HIDE DEF tu, uv, l, r
  <2>4. l = r BY <2>1, <2>2, <2>3
  <2> QED BY <2>4 DEF tu, uv, l, r
<1>2. ASSUME IsTable(t, WindowRows), IsTable(u, WindowRows), IsTable(v, WindowRows)
      PROVE  OnConflict(OnConflict(t, u, window_upsert), v, window_upsert)
               = OnConflict(t, OnConflict(u, v, window_upsert), window_upsert)
  <2> DEFINE tu == OnConflict(t, u, window_upsert)
             uv == OnConflict(u, v, window_upsert)
             l == OnConflict(tu, v, window_upsert)
             r == OnConflict(t, uv, window_upsert)
  <2>1. /\ DOMAIN tu = DOMAIN t \cup DOMAIN u /\ DOMAIN uv = DOMAIN u \cup DOMAIN v
        /\ DOMAIN l = DOMAIN tu \cup DOMAIN v /\ DOMAIN r = DOMAIN t \cup DOMAIN uv
    BY DEF OnConflict
  <2>2. ASSUME NEW k \in DOMAIN l PROVE l[k] = r[k]
    <3>1. /\ k \in DOMAIN t => t[k] \in WindowRows
          /\ k \in DOMAIN u => u[k] \in WindowRows
          /\ k \in DOMAIN v => v[k] \in WindowRows
      BY <1>2 DEF IsTable
    <3>2. k \in DOMAIN tu => tu[k] = IF k \notin DOMAIN u THEN t[k]
                               ELSE IF k \notin DOMAIN t THEN u[k] ELSE window_upsert(t[k], u[k])
      BY DEF OnConflict
    <3>3. k \in DOMAIN uv => uv[k] = IF k \notin DOMAIN v THEN u[k]
                               ELSE IF k \notin DOMAIN u THEN v[k] ELSE window_upsert(u[k], v[k])
      BY DEF OnConflict
    <3>4. /\ l[k] = IF k \notin DOMAIN v THEN tu[k]
                    ELSE IF k \notin DOMAIN tu THEN v[k] ELSE window_upsert(tu[k], v[k])
          /\ r[k] = IF k \notin DOMAIN uv THEN t[k]
                    ELSE IF k \notin DOMAIN t THEN uv[k] ELSE window_upsert(t[k], uv[k])
      BY <2>1 DEF OnConflict
    <3> HIDE DEF tu, uv, l, r
    <3> QED BY <2>1, <3>1, <3>2, <3>3, <3>4, WindowAssociative
  <2>3. l = [k \in DOMAIN l |-> l[k]] /\ r = [k \in DOMAIN r |-> r[k]]
    BY DEF OnConflict
  <2> HIDE DEF tu, uv, l, r
  <2>4. l = r BY <2>1, <2>2, <2>3
  <2> QED BY <2>4 DEF tu, uv, l, r
<1> QED BY <1>1, <1>2
-----------------------------------------------------------------------------
(* What the operators of StatMerge compute, by induction over the          *)
(* captures.                                                               *)

(* Induction over the naturals, for a set that holds what is shown.        *)
LEMMA NatsByInduction ==
  ASSUME NEW S, 0 \in S, \A n \in Nat : n \in S => n + 1 \in S
  PROVE  \A n \in Nat : n \in S
<1> DEFINE T == {n \in Nat : n \notin S}
<1>1. SUFFICES ASSUME T # {} PROVE FALSE OBVIOUS
<1>2. PICK t \in T : \A y \in T : ~(<<y, t>> \in OpToRel(<, Nat))
  <2>1. T \subseteq Nat OBVIOUS
  <2> HIDE DEF T
  <2> QED BY <1>1, <2>1, NatLessThanWellFounded, WFMin
<1>3. t \in Nat /\ t \notin S /\ t # 0 OBVIOUS
<1>4. t - 1 \in Nat /\ t - 1 < t /\ (t - 1) + 1 = t BY <1>3
<1>5. t - 1 \notin T
  <2> HIDE DEF T
  <2> QED BY <1>2, <1>3, <1>4 DEF OpToRel
<1>6. t - 1 \in S BY <1>4, <1>5
<1>7. (t - 1) + 1 \in S BY <1>4, <1>6
<1> QED BY <1>3, <1>4, <1>7

(* The captures selected from each prefix, as CapturesIn computes them.          *)
IsSelected(u, s, W) ==
  u = [n \in 0 .. Len(s) |-> IF n = 0 THEN <<>>
                             ELSE IF s[n] \in W THEN Append(u[n - 1], s[n])
                             ELSE u[n - 1]]

(* CapturesIn by its definition: the function chosen, at the last position.   *)
LEMMA CapturesInUnfolds ==
  ASSUME NEW s, NEW W
  PROVE  CapturesIn(s, W) = (CHOOSE u : IsSelected(u, s, W))[Len(s)]
  BY Zenon DEF CapturesIn, IsSelected

(* The same, position by position.                                         *)
SelectionSteps(u, s, W) ==
  \A n \in 0 .. Len(s) : u[n] = IF n = 0 THEN <<>>
                                ELSE IF s[n] \in W THEN Append(u[n - 1], s[n])
                                ELSE u[n - 1]

(* There is only one such function.                                        *)
LEMMA SelectedUnique ==
  ASSUME NEW s \in Seq(Captures), NEW W, NEW u, NEW v,
         SelectionSteps(u, s, W), SelectionSteps(v, s, W)
  PROVE  \A n \in 0 .. Len(s) : u[n] = v[n]
<1> DEFINE S == {n \in Nat : n \in 0 .. Len(s) => u[n] = v[n]}
<1>0. Len(s) \in Nat OBVIOUS
<1>1. /\ \A n \in 0 .. Len(s) : u[n] = IF n = 0 THEN <<>> 
           ELSE IF s[n] \in W THEN Append(u[n - 1], s[n]) ELSE u[n - 1]
      /\ \A n \in 0 .. Len(s) : v[n] = IF n = 0 THEN <<>> 
           ELSE IF s[n] \in W THEN Append(v[n - 1], s[n]) ELSE v[n - 1]
  BY DEF SelectionSteps
<1>2. 0 \in S BY <1>0, <1>1
<1>3. ASSUME NEW n \in Nat, n \in S PROVE n + 1 \in S
  <2>1. SUFFICES ASSUME n + 1 \in 0 .. Len(s) PROVE u[n + 1] = v[n + 1] OBVIOUS
  <2>2. n \in 0 .. Len(s) /\ (n + 1) - 1 = n /\ n + 1 # 0 BY <1>0, <2>1
  <2>3. u[n] = v[n] BY <1>3, <2>2
  <2> QED BY <1>1, <2>1, <2>2, <2>3
<1>4. \A n \in Nat : n \in S
  <2> HIDE DEF S
  <2> QED BY <1>2, <1>3, NatsByInduction
<1> QED BY <1>0, <1>4

(* Such a function follows the steps of the selection.                     *)
LEMMA SelectedSteps ==
  ASSUME NEW s, NEW W, NEW u, IsSelected(u, s, W)
  PROVE  SelectionSteps(u, s, W)
<1> DEFINE St(n) == IF n = 0 THEN <<>>
             ELSE IF s[n] \in W THEN Append(u[n - 1], s[n]) ELSE u[n - 1]
<1>1. u = [n \in 0 .. Len(s) |-> St(n)] BY Zenon DEF IsSelected
<1>2. \A n \in 0 .. Len(s) : u[n] = St(n)
  <2> HIDE DEF St
  <2> QED BY <1>1
<1> QED BY <1>2, Zenon DEF SelectionSteps

(* There is one for every sequence.                                        *)
LEMMA SelectedExists ==
  ASSUME NEW s \in Seq(Captures), NEW W
  PROVE  \E u \in [0 .. Len(s) -> Seq(Captures)] : IsSelected(u, s, W)
<1> DEFINE L == Len(s)
           St(u, n) == IF n = 0 THEN <<>> 
           ELSE IF s[n] \in W THEN Append(u[n - 1], s[n]) ELSE u[n - 1]
           S == {n \in Nat : n \in 0 .. L =>
                   \E u \in [0 .. n -> Seq(Captures)] : \A i \in 0 .. n : u[i] = St(u, i)}
<1>0. L \in Nat /\ \A i \in 1 .. L : s[i] \in Captures OBVIOUS
<1>2. 0 \in S
  <2> DEFINE u == [i \in 0 .. 0 |-> <<>>]
  <2>1. u \in [0 .. 0 -> Seq(Captures)] /\ \A i \in 0 .. 0 : u[i] = St(u, i) OBVIOUS
  <2> HIDE DEF u, St
  <2> QED BY <2>1
<1>3. ASSUME NEW n \in Nat, n \in S PROVE n + 1 \in S
  <2>1. SUFFICES ASSUME n + 1 \in 0 .. L 
                 PROVE \E u \in [0 .. n + 1 -> Seq(Captures)] : \A i \in 0 .. n + 1 : u[i] = St(u, i) OBVIOUS
  <2>2. n \in 0 .. L /\ n + 1 \in 1 .. L BY <1>0, <2>1
  <2>3. PICK u \in [0 .. n -> Seq(Captures)] : \A i \in 0 .. n : u[i] = St(u, i) BY <1>3, <2>2
  <2> DEFINE e == IF s[n + 1] \in W THEN Append(u[n], s[n + 1]) ELSE u[n]
             v == [i \in 0 .. n + 1 |-> IF i = n + 1 THEN e ELSE u[i]]
  <2>4. e \in Seq(Captures) BY <1>0, <2>2, AppendProperties
  <2>5. v \in [0 .. n + 1 -> Seq(Captures)] BY <2>4
  <2>6. \A i \in 0 .. n : v[i] = u[i] OBVIOUS
  <2>6a. v[n + 1] = e OBVIOUS
  <2> HIDE DEF v
  <2>7. ASSUME NEW i \in 0 .. n + 1 PROVE v[i] = St(v, i)
    <3>1. CASE i \in 0 .. n
      <4>1. i # 0 => i - 1 \in 0 .. n BY <3>1
      <4> QED BY <2>3, <2>6, <3>1, <4>1
    <3>2. CASE i = n + 1
      <4>1. n \in 0 .. n /\ i - 1 = n /\ i # 0 BY <3>2
      <4> QED BY <2>6, <2>6a, <3>2, <4>1
    <3> QED BY <3>1, <3>2
  <2> HIDE DEF St
  <2> QED BY <2>5, <2>7
<1>4. \A n \in Nat : n \in S
  <2> HIDE DEF S
  <2> QED BY <1>2, <1>3, NatsByInduction
<1>5. PICK u \in [0 .. L -> Seq(Captures)] : \A i \in 0 .. L : u[i] = St(u, i)
  <2>1. L \in S
    <3> HIDE DEF S
    <3> QED BY <1>0, <1>4
  <2>2. L \in 0 .. L BY <1>0
  <2> HIDE DEF St
  <2> QED BY <2>1, <2>2
<1>6. u = [i \in 0 .. L |-> St(u, i)] BY <1>5
<1>7. IsSelected(u, s, W) BY <1>6, Zenon DEF IsSelected
<1> QED BY <1>5, <1>7

(* What CapturesIn returns: nothing of nothing, and one capture more or not.     *)
LEMMA CapturesInChosen ==
  ASSUME NEW s \in Seq(Captures), NEW W
  PROVE  \E u \in [0 .. Len(s) -> Seq(Captures)] :
           IsSelected(u, s, W) /\ CapturesIn(s, W) = u[Len(s)]
<1>1. PICK v \in [0 .. Len(s) -> Seq(Captures)] : IsSelected(v, s, W) BY SelectedExists
<1> DEFINE u == CHOOSE w : IsSelected(w, s, W)
<1>2. IsSelected(u, s, W) BY <1>1
<1>3. CapturesIn(s, W) = u[Len(s)] BY CapturesInUnfolds
<1> HIDE DEF u
<1>4. SelectionSteps(v, s, W) /\ SelectionSteps(u, s, W) BY <1>1, <1>2, SelectedSteps
<1>5. \A n \in 0 .. Len(s) : u[n] = v[n] BY <1>4, SelectedUnique
<1>6. u = [n \in 0 .. Len(s) |-> u[n]] BY <1>2 DEF IsSelected
<1>7. u \in [0 .. Len(s) -> Seq(Captures)] BY <1>5, <1>6
<1> QED BY <1>2, <1>3, <1>7

(* Of no captures, none are wanted.                                           *)
LEMMA CapturesInEmpty ==
  ASSUME NEW W PROVE CapturesIn(<<>>, W) = <<>>
<1>1. <<>> \in Seq(Captures) /\ Len(<<>>) = 0 OBVIOUS
<1>2. PICK u \in [0 .. Len(<<>>) -> Seq(Captures)] :
        IsSelected(u, <<>>, W) /\ CapturesIn(<<>>, W) = u[Len(<<>>)]
  BY <1>1, CapturesInChosen
<1> QED BY <1>1, <1>2 DEF IsSelected

(* One capture more: it is appended if it is wanted.                          *)
LEMMA CapturesInAppend ==
  ASSUME NEW s \in Seq(Captures), NEW p \in Captures, NEW W
  PROVE  /\ CapturesIn(s, W) \in Seq(Captures)
         /\ CapturesIn(Append(s, p), W) = IF p \in W THEN Append(CapturesIn(s, W), p)
                                       ELSE CapturesIn(s, W)
<1> DEFINE t == Append(s, p)
           L == Len(s)
<1>1. /\ L \in Nat /\ t \in Seq(Captures) /\ Len(t) = L + 1
      /\ \A i \in 1 .. L : t[i] = s[i] 
      /\ t[L + 1] = p
  BY AppendProperties
<1>2. PICK u \in [0 .. L -> Seq(Captures)] : IsSelected(u, s, W) /\ CapturesIn(s, W) = u[L]
  BY CapturesInChosen
<1> HIDE DEF t
<1>3. PICK v \in [0 .. Len(t) -> Seq(Captures)] : IsSelected(v, t, W) /\ CapturesIn(t, W) = v[Len(t)]
  BY <1>1, CapturesInChosen
<1>4. \A n \in 0 .. L + 1 : v[n] = IF n = 0 THEN <<>>
        ELSE IF t[n] \in W THEN Append(v[n - 1], t[n]) ELSE v[n - 1]
  <2>1. SelectionSteps(v, t, W) BY <1>3, SelectedSteps
  <2> QED BY <1>1, <2>1 DEF SelectionSteps
<1>5. SelectionSteps(v, s, W)
  <2> SUFFICES ASSUME NEW n \in 0 .. L
               PROVE v[n] = IF n = 0 THEN <<>>
                 ELSE IF s[n] \in W THEN Append(v[n - 1], s[n]) ELSE v[n - 1]
    BY DEF SelectionSteps
  <2>1. n \in 0 .. L + 1 /\ (n # 0 => n \in 1 .. L) BY <1>1
  <2>2. n # 0 => t[n] = s[n] BY <1>1, <2>1
  <2> QED BY <1>4, <2>1, <2>2
<1>6. \A n \in 0 .. L : u[n] = v[n] BY <1>2, <1>5, SelectedSteps, SelectedUnique
<1>7. v[L] = CapturesIn(s, W) BY <1>1, <1>2, <1>6
<1>8. v[L + 1] = IF p \in W THEN Append(v[L], p) ELSE v[L]
  <2>1. L + 1 \in 0 .. L + 1 /\ L + 1 # 0 /\ (L + 1) - 1 = L BY <1>1
  <2> QED BY <1>1, <1>4, <2>1
<1>9. CapturesIn(t, W) = v[L + 1] BY <1>1, <1>3
<1>10. CapturesIn(s, W) \in Seq(Captures) BY <1>1, <1>2
<1> QED BY <1>7, <1>8, <1>9, <1>10 DEF t

(* Induction over sequences: one element more each time.                   *)
LEMMA SequencesByInduction ==
  ASSUME NEW A, NEW S, <<>> \in S,
         \A s \in Seq(A), a \in A : s \in S => Append(s, a) \in S
  PROVE  Seq(A) \subseteq S
<1> DEFINE T == {n \in Nat : \A s \in Seq(A) : Len(s) = n => s \in S}
<1>1. 0 \in T
  <2>1. \A s \in Seq(A) : Len(s) = 0 => s = <<>> BY EmptySeq
  <2> QED BY <2>1
<1>2. ASSUME NEW n \in Nat, n \in T PROVE n + 1 \in T
  <2> SUFFICES ASSUME NEW s \in Seq(A), Len(s) = n + 1 PROVE s \in S OBVIOUS
  <2> DEFINE f == [i \in 1 .. n |-> s[i]]
  <2>1. f \in Seq(A) /\ Len(f) = n
    <3>1. \A i \in 1 .. n : s[i] \in A OBVIOUS
    <3>2. f \in [1 .. n -> A] BY <3>1
    <3> QED BY <3>2, SeqDef, LenProperties
  <2>2. s[n + 1] \in A OBVIOUS
  <2>3. s = Append(f, s[n + 1])
    <3>1. /\ Append(f, s[n + 1]) \in Seq(A) /\ Len(Append(f, s[n + 1])) = n + 1
          /\ \A i \in 1 .. n : Append(f, s[n + 1])[i] = f[i]
          /\ Append(f, s[n + 1])[n + 1] = s[n + 1]
      BY <2>1, <2>2, AppendProperties
    <3>2. \A i \in 1 .. n : f[i] = s[i] OBVIOUS
    <3> HIDE DEF f
    <3>3. \A i \in 1 .. n + 1 : s[i] = Append(f, s[n + 1])[i] BY <3>1, <3>2
    <3> QED BY <3>1, <3>3, SeqEqual
  <2>4. f \in S BY <1>2, <2>1
  <2> HIDE DEF f
  <2> QED BY <2>1, <2>2, <2>3, <2>4
<1>3. \A n \in Nat : n \in T
  <2> HIDE DEF T
  <2> QED BY <1>1, <1>2, NatsByInduction
<1>4. ASSUME NEW s \in Seq(A) PROVE s \in S
  <2>1. Len(s) \in Nat OBVIOUS
  <2>2. Len(s) \in T
    <3> HIDE DEF T
    <3> QED BY <2>1, <1>3
  <2> QED BY <2>2
<1> QED BY <1>4

(* It keeps the wanted captures, no others.                                   *)
LEMMA CapturesInRange ==
  ASSUME NEW s \in Seq(Captures), NEW W
  PROVE  /\ CapturesIn(s, W) \in Seq(Captures)
         /\ {CapturesIn(s, W)[i] : i \in 1 .. Len(CapturesIn(s, W))} =
              {s[i] : i \in 1 .. Len(s)} \cap W
<1> DEFINE Of(w) == {w[i] : i \in 1 .. Len(w)}
           S == {w \in Seq(Captures) : /\ CapturesIn(w, W) \in Seq(Captures)
                                    /\ Of(CapturesIn(w, W)) = Of(w) \cap W}
<1>1. <<>> \in S
  <2>1. CapturesIn(<<>>, W) = <<>> BY CapturesInEmpty
  <2>2. Of(<<>>) = {} /\ <<>> \in Seq(Captures) OBVIOUS
  <2> HIDE DEF Of
  <2> QED BY <2>1, <2>2
<1>2. ASSUME NEW w \in Seq(Captures), NEW p \in Captures PROVE Of(Append(w, p)) = Of(w) \cup {p}
  <2>1. /\ Len(Append(w, p)) = Len(w) + 1 /\ Append(w, p)[Len(w) + 1] = p
        /\ \A i \in 1 .. Len(w) : Append(w, p)[i] = w[i]
        /\ Len(w) \in Nat
    BY AppendProperties
  <2>2. 1 .. Len(w) + 1 = (1 .. Len(w)) \cup {Len(w) + 1} BY <2>1
  <2> QED BY <2>1, <2>2
<1> HIDE DEF Of
<1>3. ASSUME NEW w \in Seq(Captures), NEW p \in Captures, w \in S PROVE Append(w, p) \in S
  <2>1. /\ CapturesIn(w, W) \in Seq(Captures) /\ Append(w, p) \in Seq(Captures)
        /\ CapturesIn(Append(w, p), W) = IF p \in W THEN Append(CapturesIn(w, W), p)
                                       ELSE CapturesIn(w, W)
    BY CapturesInAppend, AppendProperties
  <2>2. CASE p \in W
    <3>1. /\ Append(CapturesIn(w, W), p) \in Seq(Captures)
          /\ Of(Append(CapturesIn(w, W), p)) = Of(CapturesIn(w, W)) \cup {p}
      BY <1>2, <2>1, AppendProperties
    <3>2. Of(Append(w, p)) = Of(w) \cup {p} BY <1>2
    <3>3. Of(CapturesIn(w, W)) = Of(w) \cap W BY <1>3
    <3>4. (Of(w) \cap W) \cup {p} = (Of(w) \cup {p}) \cap W BY <2>2
    <3> QED BY <2>1, <2>2, <3>1, <3>2, <3>3, <3>4
  <2>3. CASE p \notin W
    <3>1. Of(Append(w, p)) = Of(w) \cup {p} BY <1>2
    <3>2. Of(CapturesIn(w, W)) = Of(w) \cap W BY <1>3
    <3>3. (Of(w) \cup {p}) \cap W = Of(w) \cap W BY <2>3
    <3> QED BY <2>1, <2>3, <3>1, <3>2, <3>3
  <2> QED BY <2>2, <2>3
<1>4. s \in S
  <2> HIDE DEF S
  <2> QED BY <1>1, <1>3, SequencesByInduction
<1> QED BY <1>4 DEF Of

(* An element appended to the second of two sequences is appended to both. *)
LEMMA AppendToConcat ==
  ASSUME NEW A, NEW s \in Seq(A), NEW t \in Seq(A), NEW a \in A
  PROVE  s \o Append(t, a) = Append(s \o t, a)
<1>1. /\ s \o t \in Seq(A) /\ Append(t, a) \in Seq(A) /\ <<a>> \in Seq(A)
      /\ s \o Append(t, a) \in Seq(A) /\ Append(s \o t, a) \in Seq(A)
  BY ConcatProperties, AppendProperties
<1>2. Append(t, a) = t \o <<a>> /\ Append(s \o t, a) = (s \o t) \o <<a>>
  BY <1>1, AppendIsConcat
<1> QED BY <1>1, <1>2, ConcatAssociative

(* Of two batches the wanted captures are those of the one, then those of  *)
(* the other.                                                              *)
LEMMA CapturesInConcat ==
  ASSUME NEW s \in Seq(Captures), NEW t \in Seq(Captures), NEW W
  PROVE  CapturesIn(s \o t, W) = CapturesIn(s, W) \o CapturesIn(t, W)
<1> DEFINE S == {w \in Seq(Captures) : CapturesIn(s \o w, W) = CapturesIn(s, W) \o CapturesIn(w, W)}
<1>0. CapturesIn(s, W) \in Seq(Captures) BY CapturesInRange
<1>1. <<>> \in S
  <2>1. <<>> \in Seq(Captures) /\ CapturesIn(<<>>, W) = <<>> BY CapturesInEmpty
  <2>2. s \o <<>> = s /\ CapturesIn(s, W) \o <<>> = CapturesIn(s, W) BY <1>0, ConcatEmptySeq
  <2> QED BY <2>1, <2>2
<1>2. ASSUME NEW w \in Seq(Captures), NEW p \in Captures, w \in S PROVE Append(w, p) \in S
  <2>1. /\ Append(w, p) \in Seq(Captures) /\ s \o w \in Seq(Captures)
        /\ s \o Append(w, p) = Append(s \o w, p)
    BY AppendToConcat, AppendProperties, ConcatProperties
  <2>2. /\ CapturesIn(Append(w, p), W) =
             IF p \in W THEN Append(CapturesIn(w, W), p) ELSE CapturesIn(w, W)
        /\ CapturesIn(Append(s \o w, p), W) =
             IF p \in W THEN Append(CapturesIn(s \o w, W), p) ELSE CapturesIn(s \o w, W)
        /\ CapturesIn(w, W) \in Seq(Captures)
    BY <2>1, CapturesInAppend
  <2>3. CapturesIn(s \o w, W) = CapturesIn(s, W) \o CapturesIn(w, W) BY <1>2
  <2>4. CapturesIn(s, W) \o Append(CapturesIn(w, W), p) =
          Append(CapturesIn(s, W) \o CapturesIn(w, W), p)
    BY <1>0, <2>2, AppendToConcat
  <2> QED BY <2>1, <2>2, <2>3, <2>4
<1>3. t \in S
  <2> HIDE DEF S
  <2> QED BY <1>1, <1>2, SequencesByInduction
<1> QED BY <1>3

-----------------------------------------------------------------------------
(* Sums.                                                                   *)

(* The sums of the prefixes, as Sum computes them.                         *)
IsPrefixSums(u, s) ==
  u = [n \in 0 .. Len(s) |-> IF n = 0 THEN 0 ELSE u[n - 1] + s[n]]

(* Sum by its definition: the function chosen, at the last position.       *)
LEMMA SumUnfolds ==
  ASSUME NEW s
  PROVE  Sum(s) = (CHOOSE u : IsPrefixSums(u, s))[Len(s)]
  BY Zenon DEF Sum, IsPrefixSums

(* The same, position by position.                                         *)
SumSteps(u, s) ==
  \A n \in 0 .. Len(s) : u[n] = IF n = 0 THEN 0 ELSE u[n - 1] + s[n]

(* Such a function follows the steps of the sum.                           *)
LEMMA PrefixSumsSteps ==
  ASSUME NEW u, NEW s, IsPrefixSums(u, s)
  PROVE  SumSteps(u, s)
<1> DEFINE St(n) == IF n = 0 THEN 0 ELSE u[n - 1] + s[n]
<1>1. u = [n \in 0 .. Len(s) |-> St(n)] BY Zenon DEF IsPrefixSums
<1>2. \A n \in 0 .. Len(s) : u[n] = St(n)
  <2> HIDE DEF St
  <2> QED BY <1>1
<1> QED BY <1>2, Zenon DEF SumSteps

(* There is only one such function.                                        *)
LEMMA PrefixSumsUnique ==
  ASSUME NEW s \in Seq(Nat), NEW u, NEW v, SumSteps(u, s), SumSteps(v, s)
  PROVE  \A n \in 0 .. Len(s) : u[n] = v[n]
<1> DEFINE S == {n \in Nat : n \in 0 .. Len(s) => u[n] = v[n]}
<1>0. Len(s) \in Nat OBVIOUS
<1>1. /\ \A n \in 0 .. Len(s) : u[n] = IF n = 0 THEN 0 ELSE u[n - 1] + s[n]
      /\ \A n \in 0 .. Len(s) : v[n] = IF n = 0 THEN 0 ELSE v[n - 1] + s[n]
  BY DEF SumSteps
<1>2. 0 \in S BY <1>0, <1>1
<1>3. ASSUME NEW n \in Nat, n \in S PROVE n + 1 \in S
  <2>1. SUFFICES ASSUME n + 1 \in 0 .. Len(s) PROVE u[n + 1] = v[n + 1] OBVIOUS
  <2>2. n \in 0 .. Len(s) /\ (n + 1) - 1 = n /\ n + 1 # 0 BY <1>0, <2>1
  <2>3. u[n] = v[n] BY <1>3, <2>2
  <2> QED BY <1>1, <2>1, <2>2, <2>3
<1>4. \A n \in Nat : n \in S
  <2> HIDE DEF S
  <2> QED BY <1>2, <1>3, NatsByInduction
<1> QED BY <1>0, <1>4

(* There is one for every sequence.                                        *)
LEMMA PrefixSumsExist ==
  ASSUME NEW s \in Seq(Nat)
  PROVE  \E u \in [0 .. Len(s) -> Nat] : IsPrefixSums(u, s)
<1> DEFINE L == Len(s)
           St(u, n) == IF n = 0 THEN 0 ELSE u[n - 1] + s[n]
           S == {n \in Nat : n \in 0 .. L =>
                   \E u \in [0 .. n -> Nat] : \A i \in 0 .. n : u[i] = St(u, i)}
<1>0. L \in Nat /\ \A i \in 1 .. L : s[i] \in Nat OBVIOUS
<1>2. 0 \in S
  <2> DEFINE u == [i \in 0 .. 0 |-> 0]
  <2>1. u \in [0 .. 0 -> Nat] /\ \A i \in 0 .. 0 : u[i] = St(u, i) OBVIOUS
  <2> HIDE DEF u, St
  <2> QED BY <2>1
<1>3. ASSUME NEW n \in Nat, n \in S PROVE n + 1 \in S
  <2>1. SUFFICES ASSUME n + 1 \in 0 .. L
                 PROVE \E u \in [0 .. n + 1 -> Nat] : \A i \in 0 .. n + 1 : u[i] = St(u, i)
    <3> HIDE DEF St
    <3>1. n + 1 \in Nat OBVIOUS
    <3> QED BY <3>1
  <2>2. n \in 0 .. L /\ n + 1 \in 1 .. L BY <1>0, <2>1
  <2>3. PICK u \in [0 .. n -> Nat] : \A i \in 0 .. n : u[i] = St(u, i) BY <1>3, <2>2
  <2> DEFINE e == u[n] + s[n + 1]
             v == [i \in 0 .. n + 1 |-> IF i = n + 1 THEN e ELSE u[i]]
  <2>4. e \in Nat
    <3>1. u[n] \in Nat /\ s[n + 1] \in Nat BY <1>0, <2>2
    <3> QED BY <3>1
  <2> HIDE DEF e
  <2>5. v \in [0 .. n + 1 -> Nat] BY <2>4
  <2>6. \A i \in 0 .. n : v[i] = u[i] OBVIOUS
  <2>6a. v[n + 1] = e OBVIOUS
  <2> HIDE DEF v
  <2>7. ASSUME NEW i \in 0 .. n + 1 PROVE v[i] = St(v, i)
    <3>1. CASE i \in 0 .. n
      <4>1. i # 0 => i - 1 \in 0 .. n BY <3>1
      <4> QED BY <2>3, <2>6, <3>1, <4>1
    <3>2. CASE i = n + 1
      <4>1. n \in 0 .. n /\ i - 1 = n /\ i # 0 BY <3>2
      <4> QED BY <2>6, <2>6a, <3>2, <4>1 DEF e
    <3> QED BY <3>1, <3>2
  <2> HIDE DEF St
  <2> QED BY <2>5, <2>7
<1>4. \A n \in Nat : n \in S
  <2> HIDE DEF S
  <2> QED BY <1>2, <1>3, NatsByInduction
<1>5. PICK u \in [0 .. L -> Nat] : \A i \in 0 .. L : u[i] = St(u, i)
  <2>1. L \in S
    <3> HIDE DEF S
    <3> QED BY <1>0, <1>4
  <2>2. L \in 0 .. L BY <1>0
  <2> HIDE DEF St
  <2> QED BY <2>1, <2>2
<1>6. u = [i \in 0 .. L |-> St(u, i)] BY <1>5
<1>7. IsPrefixSums(u, s) BY <1>6, Zenon DEF IsPrefixSums
<1> QED BY <1>5, <1>7

(* The function Sum chooses is one of them.                                *)
LEMMA SumChosen ==
  ASSUME NEW s \in Seq(Nat)
  PROVE  \E u \in [0 .. Len(s) -> Nat] : SumSteps(u, s) /\ Sum(s) = u[Len(s)]
<1>1. PICK v \in [0 .. Len(s) -> Nat] : IsPrefixSums(v, s) BY PrefixSumsExist
<1> DEFINE u == CHOOSE w : IsPrefixSums(w, s)
<1>2. IsPrefixSums(u, s) BY <1>1
<1>3. Sum(s) = u[Len(s)] BY SumUnfolds
<1> HIDE DEF u
<1>4. SumSteps(v, s) /\ SumSteps(u, s) BY <1>1, <1>2, PrefixSumsSteps
<1>5. \A n \in 0 .. Len(s) : u[n] = v[n] BY <1>4, PrefixSumsUnique
<1>6. u = [n \in 0 .. Len(s) |-> u[n]] BY <1>2 DEF IsPrefixSums
<1>7. u \in [0 .. Len(s) -> Nat] BY <1>5, <1>6
<1> QED BY <1>3, <1>4, <1>7

(* What Sum returns: nothing of nothing, and the last number more.         *)
LEMMA SumEmpty == Sum(<<>>) = 0
<1>1. <<>> \in Seq(Nat) /\ Len(<<>>) = 0 OBVIOUS
<1>2. PICK u \in [0 .. Len(<<>>) -> Nat] : SumSteps(u, <<>>) /\ Sum(<<>>) = u[Len(<<>>)]
  BY <1>1, SumChosen
<1>3. 0 \in 0 .. Len(<<>>) BY <1>1
<1> QED BY <1>1, <1>2, <1>3 DEF SumSteps

(* One number more adds it.                                                *)
LEMMA SumAppend ==
  ASSUME NEW s \in Seq(Nat), NEW x \in Nat
  PROVE  Sum(s) \in Nat /\ Sum(Append(s, x)) = Sum(s) + x
<1> DEFINE t == Append(s, x)
           L == Len(s)
<1>1. /\ L \in Nat /\ t \in Seq(Nat) /\ Len(t) = L + 1
      /\ \A i \in 1 .. L : t[i] = s[i]
      /\ t[L + 1] = x
  BY AppendProperties
<1>2. PICK u \in [0 .. L -> Nat] : SumSteps(u, s) /\ Sum(s) = u[L] BY SumChosen
<1> HIDE DEF t
<1>3. PICK v \in [0 .. Len(t) -> Nat] : SumSteps(v, t) /\ Sum(t) = v[Len(t)]
  BY <1>1, SumChosen
<1>4. \A n \in 0 .. L + 1 : v[n] = IF n = 0 THEN 0 ELSE v[n - 1] + t[n]
  BY <1>1, <1>3 DEF SumSteps
<1>5. SumSteps(v, s)
  <2> SUFFICES ASSUME NEW n \in 0 .. L
               PROVE v[n] = IF n = 0 THEN 0 ELSE v[n - 1] + s[n]
    BY DEF SumSteps
  <2>1. n \in 0 .. L + 1 /\ (n # 0 => n \in 1 .. L) BY <1>1
  <2>2. n # 0 => t[n] = s[n] BY <1>1, <2>1
  <2> QED BY <1>4, <2>1, <2>2
<1>6. \A n \in 0 .. L : u[n] = v[n] BY <1>2, <1>5, PrefixSumsUnique
<1>7. v[L] = Sum(s) /\ Sum(s) \in Nat BY <1>1, <1>2, <1>6
<1>8. v[L + 1] = v[L] + x
  <2>1. L + 1 \in 0 .. L + 1 /\ L + 1 # 0 /\ (L + 1) - 1 = L BY <1>1
  <2> QED BY <1>1, <1>4, <2>1
<1>9. Sum(t) = v[L + 1] BY <1>1, <1>3
<1> QED BY <1>7, <1>8, <1>9 DEF t

(* The sum of two sequences, one after the other, is that of their sums.   *)
LEMMA SumConcat ==
  ASSUME NEW s \in Seq(Nat), NEW t \in Seq(Nat)
  PROVE  Sum(s) \in Nat /\ Sum(s \o t) = Sum(s) + Sum(t)
<1> DEFINE S == {w \in Seq(Nat) : Sum(s \o w) = Sum(s) + Sum(w)}
<1>0. \A w \in Seq(Nat) : Sum(w) \in Nat BY SumAppend
<1>1. <<>> \in S
  <2>1. <<>> \in Seq(Nat) /\ s \o <<>> = s /\ Sum(<<>>) = 0 BY SumEmpty, ConcatEmptySeq
  <2>2. Sum(s) + 0 = Sum(s) BY <1>0
  <2> QED BY <2>1, <2>2
<1>2. ASSUME NEW w \in Seq(Nat), NEW x \in Nat, w \in S PROVE Append(w, x) \in S
  <2>1. /\ Append(w, x) \in Seq(Nat) /\ s \o w \in Seq(Nat)
        /\ s \o Append(w, x) = Append(s \o w, x)
    BY AppendToConcat, AppendProperties, ConcatProperties
  <2>2. /\ Sum(Append(w, x)) = Sum(w) + x
        /\ Sum(Append(s \o w, x)) = Sum(s \o w) + x
    BY <2>1, SumAppend
  <2>3. Sum(s \o w) = Sum(s) + Sum(w) /\ Sum(s) \in Nat /\ Sum(w) \in Nat BY <1>0, <1>2
  <2>4. (Sum(s) + Sum(w)) + x = Sum(s) + (Sum(w) + x) BY <2>3
  <2> QED BY <2>1, <2>2, <2>3, <2>4
<1>3. t \in S
  <2> HIDE DEF S
  <2> QED BY <1>1, <1>2, SequencesByInduction
<1> QED BY <1>0, <1>3

-----------------------------------------------------------------------------
(* What a batch is measured by: durations, their squares and the times.    *)

squares(s) == [i \in DOMAIN s |-> s[i].duration_ms * s[i].duration_ms]
times(s) == [i \in DOMAIN s |-> s[i].timestamp]
Values(v) == {v[i] : i \in DOMAIN v}

(* They are sequences of numbers, one for each capture.                    *)
LEMMA Measures ==
  ASSUME NEW s \in Seq(Captures)
  PROVE  /\ durations(s) \in Seq(Nat) /\ squares(s) \in Seq(Nat) /\ times(s) \in Seq(Nat)
         /\ Len(durations(s)) = Len(s) /\ Len(squares(s)) = Len(s) /\ Len(times(s)) = Len(s)
         /\ \A i \in 1 .. Len(s) : /\ durations(s)[i] = s[i].duration_ms
                                   /\ squares(s)[i] = s[i].duration_ms * s[i].duration_ms
                                   /\ times(s)[i] = s[i].timestamp
<1>1. Len(s) \in Nat /\ DOMAIN s = 1 .. Len(s) /\ \A i \in 1 .. Len(s) : s[i] \in Captures
  OBVIOUS
<1>2. \A i \in 1 .. Len(s) : s[i].duration_ms \in Nat /\ s[i].timestamp \in Nat
  BY <1>1, StatAssumption
<1>3. \A x \in Nat : x * x \in Nat OBVIOUS
<1>4. \A i \in 1 .. Len(s) : s[i].duration_ms * s[i].duration_ms \in Nat
  BY <1>2, <1>3
<1>5. /\ durations(s) \in [1 .. Len(s) -> Nat]
      /\ \A i \in 1 .. Len(s) : durations(s)[i] = s[i].duration_ms
  BY <1>1, <1>2 DEF durations
<1>6. /\ squares(s) \in [1 .. Len(s) -> Nat]
      /\ \A i \in 1 .. Len(s) : squares(s)[i] = s[i].duration_ms * s[i].duration_ms
  BY <1>1, <1>4, Zenon DEF squares
<1>7. /\ times(s) \in [1 .. Len(s) -> Nat]
      /\ \A i \in 1 .. Len(s) : times(s)[i] = s[i].timestamp
  BY <1>1, <1>2 DEF times
<1>8. ASSUME NEW v \in [1 .. Len(s) -> Nat] PROVE v \in Seq(Nat) /\ Len(v) = Len(s)
  <2>1. v \in Seq(Nat) BY <1>1, SeqDef
  <2>2. DOMAIN v = 1 .. Len(s) OBVIOUS
  <2> QED BY <1>1, <2>1, <2>2, LenProperties
<1> QED BY <1>5, <1>6, <1>7, <1>8

(* A sequence that starts with one and goes on with another is the two.    *)
LEMMA ConcatIs ==
  ASSUME NEW A, NEW u \in Seq(A), NEW v \in Seq(A), NEW w \in Seq(A),
         Len(w) = Len(u) + Len(v),
         \A i \in 1 .. Len(u) : w[i] = u[i],
         \A i \in 1 .. Len(v) : w[Len(u) + i] = v[i]
  PROVE  w = u \o v
<1>1. /\ u \o v \in Seq(A) /\ Len(u \o v) = Len(u) + Len(v)
      /\ Len(u) \in Nat /\ Len(v) \in Nat
      /\ \A i \in 1 .. Len(u) + Len(v) :
           (u \o v)[i] = IF i <= Len(u) THEN u[i] ELSE v[i - Len(u)]
  BY ConcatProperties
<1>2. ASSUME NEW i \in 1 .. Len(w) PROVE w[i] = (u \o v)[i]
  <2>1. i \in 1 .. Len(u) + Len(v) OBVIOUS
  <2>2. CASE i <= Len(u)
    <3>1. i \in 1 .. Len(u) BY <1>1, <2>1, <2>2
    <3> QED BY <1>1, <2>1, <2>2, <3>1
  <2>3. CASE ~(i <= Len(u))
    <3>1. i - Len(u) \in 1 .. Len(v) /\ Len(u) + (i - Len(u)) = i BY <1>1, <2>1, <2>3
    <3>2. w[Len(u) + (i - Len(u))] = v[i - Len(u)] BY <3>1
    <3> QED BY <1>1, <2>1, <2>3, <3>1, <3>2
  <2> QED BY <2>2, <2>3
<1> QED BY <1>1, <1>2, SeqEqual

(* Where the captures of two batches are in their concatenation.           *)
LEMMA ConcatPlaces ==
  ASSUME NEW A, NEW s \in Seq(A), NEW t \in Seq(A)
  PROVE  /\ s \o t \in Seq(A) /\ Len(s \o t) = Len(s) + Len(t)
         /\ Len(s) \in Nat /\ Len(t) \in Nat
         /\ \A i \in 1 .. Len(s) : i \in 1 .. Len(s) + Len(t) /\ (s \o t)[i] = s[i]
         /\ \A i \in 1 .. Len(t) : /\ Len(s) + i \in 1 .. Len(s) + Len(t)
                                   /\ (s \o t)[Len(s) + i] = t[i]
         /\ \A i \in 1 .. Len(s) + Len(t) :
              \/ i \in 1 .. Len(s)
              \/ \E j \in 1 .. Len(t) : i = Len(s) + j
<1>1. /\ s \o t \in Seq(A) /\ Len(s \o t) = Len(s) + Len(t)
      /\ Len(s) \in Nat /\ Len(t) \in Nat
      /\ \A i \in 1 .. Len(s) + Len(t) :
           (s \o t)[i] = IF i <= Len(s) THEN s[i] ELSE t[i - Len(s)]
  BY ConcatProperties
<1>2. ASSUME NEW i \in 1 .. Len(s)
      PROVE  i \in 1 .. Len(s) + Len(t) /\ (s \o t)[i] = s[i]
  <2>1. i \in 1 .. Len(s) + Len(t) /\ i <= Len(s) BY <1>1
  <2> QED BY <1>1, <2>1
<1>3. ASSUME NEW i \in 1 .. Len(t)
      PROVE  Len(s) + i \in 1 .. Len(s) + Len(t) /\ (s \o t)[Len(s) + i] = t[i]
  <2>1. /\ Len(s) + i \in 1 .. Len(s) + Len(t) /\ ~(Len(s) + i <= Len(s))
        /\ (Len(s) + i) - Len(s) = i
    BY <1>1
  <2> QED BY <1>1, <2>1
<1>4. ASSUME NEW i \in 1 .. Len(s) + Len(t), i \notin 1 .. Len(s)
      PROVE  \E j \in 1 .. Len(t) : i = Len(s) + j
  <2>1. i - Len(s) \in 1 .. Len(t) /\ i = Len(s) + (i - Len(s)) BY <1>1, <1>4
  <2> QED BY <2>1
<1> QED BY <1>1, <1>2, <1>3, <1>4

(* The measures of two batches are those of the one, then of the other.    *)
LEMMA MeasuresConcat ==
  ASSUME NEW s \in Seq(Captures), NEW t \in Seq(Captures)
  PROVE  /\ durations(s \o t) = durations(s) \o durations(t)
         /\ squares(s \o t) = squares(s) \o squares(t)
         /\ times(s \o t) = times(s) \o times(t)
<1> DEFINE st == s \o t
<1>1. /\ st \in Seq(Captures) /\ Len(st) = Len(s) + Len(t)
      /\ \A i \in 1 .. Len(s) : i \in 1 .. Len(st) /\ st[i] = s[i]
      /\ \A i \in 1 .. Len(t) : Len(s) + i \in 1 .. Len(st) /\ st[Len(s) + i] = t[i]
  BY ConcatPlaces
<1> HIDE DEF st
<1>3. durations(st) = durations(s) \o durations(t)
  <2> DEFINE u == durations(s)
             v == durations(t)
             w == durations(st)
  <2>1. /\ u \in Seq(Nat) /\ v \in Seq(Nat) /\ w \in Seq(Nat)
        /\ Len(u) = Len(s) /\ Len(v) = Len(t) /\ Len(w) = Len(st)
        /\ \A i \in 1 .. Len(s) : u[i] = s[i].duration_ms
        /\ \A i \in 1 .. Len(t) : v[i] = t[i].duration_ms
        /\ \A i \in 1 .. Len(st) : w[i] = st[i].duration_ms
    BY <1>1, Measures
  <2> HIDE DEF u, v, w
  <2>2. \A i \in 1 .. Len(u) : w[i] = u[i] BY <1>1, <2>1
  <2>3. \A i \in 1 .. Len(v) : w[Len(u) + i] = v[i] BY <1>1, <2>1
  <2>4. Len(w) = Len(u) + Len(v) BY <1>1, <2>1
  <2>5. w = u \o v BY <2>1, <2>2, <2>3, <2>4, ConcatIs
  <2> QED BY <2>5 DEF u, v, w
<1>4. squares(st) = squares(s) \o squares(t)
  <2> DEFINE u == squares(s)
             v == squares(t)
             w == squares(st)
             sq(c) == c.duration_ms * c.duration_ms
  <2>1. /\ u \in Seq(Nat) /\ v \in Seq(Nat) /\ w \in Seq(Nat)
        /\ Len(u) = Len(s) /\ Len(v) = Len(t) /\ Len(w) = Len(st)
        /\ \A i \in 1 .. Len(s) : u[i] = sq(s[i])
        /\ \A i \in 1 .. Len(t) : v[i] = sq(t[i])
        /\ \A i \in 1 .. Len(st) : w[i] = sq(st[i])
    BY <1>1, Measures
  <2> HIDE DEF u, v, w, sq
  <2>2. \A i \in 1 .. Len(u) : w[i] = u[i] BY <1>1, <2>1
  <2>3. \A i \in 1 .. Len(v) : w[Len(u) + i] = v[i] BY <1>1, <2>1
  <2>4. Len(w) = Len(u) + Len(v) BY <1>1, <2>1
  <2>5. w = u \o v BY <2>1, <2>2, <2>3, <2>4, ConcatIs
  <2> QED BY <2>5 DEF u, v, w
<1>5. times(st) = times(s) \o times(t)
  <2> DEFINE u == times(s)
             v == times(t)
             w == times(st)
  <2>1. /\ u \in Seq(Nat) /\ v \in Seq(Nat) /\ w \in Seq(Nat)
        /\ Len(u) = Len(s) /\ Len(v) = Len(t) /\ Len(w) = Len(st)
        /\ \A i \in 1 .. Len(s) : u[i] = s[i].timestamp
        /\ \A i \in 1 .. Len(t) : v[i] = t[i].timestamp
        /\ \A i \in 1 .. Len(st) : w[i] = st[i].timestamp
    BY <1>1, Measures
  <2> HIDE DEF u, v, w
  <2>2. \A i \in 1 .. Len(u) : w[i] = u[i] BY <1>1, <2>1
  <2>3. \A i \in 1 .. Len(v) : w[Len(u) + i] = v[i] BY <1>1, <2>1
  <2>4. Len(w) = Len(u) + Len(v) BY <1>1, <2>1
  <2>5. w = u \o v BY <2>1, <2>2, <2>3, <2>4, ConcatIs
  <2> QED BY <2>5 DEF u, v, w
<1> QED BY <1>3, <1>4, <1>5 DEF st

-----------------------------------------------------------------------------
(* The extremes of a batch.                                                *)

IsLeast(x, S) == x \in S /\ \A y \in S : x <= y
IsGreatest(x, S) == x \in S /\ \A y \in S : x >= y

(* Min and Max return them.                                                *)
LEMMA MinMaxAre ==
  ASSUME NEW S \in SUBSET Nat, NEW a, NEW b, IsLeast(a, S), IsGreatest(b, S)
  PROVE  Min(S) = a /\ Max(S) = b
<1>1. a \in Nat /\ b \in Nat BY DEF IsLeast, IsGreatest
<1>2. (CHOOSE x \in S : \A y \in S : x =< y) = a
  <2> DEFINE P(x) == \A y \in S : x =< y
  <2>1. a \in S /\ P(a) BY DEF IsLeast
  <2>2. \A x \in S : P(x) => x = a
    <3> SUFFICES ASSUME NEW x \in S, P(x) PROVE x = a OBVIOUS
    <3>1. x <= a /\ a <= x /\ x \in Nat BY <2>1
    <3> QED BY <1>1, <3>1
  <2> HIDE DEF P
  <2>3. (CHOOSE x \in S : P(x)) = a BY <2>1, <2>2
  <2> QED BY <2>3 DEF P
<1>3. (CHOOSE x \in S : \A y \in S : x >= y) = b
  <2> DEFINE P(x) == \A y \in S : x >= y
  <2>1. b \in S /\ P(b) BY DEF IsGreatest
  <2>2. \A x \in S : P(x) => x = b
    <3> SUFFICES ASSUME NEW x \in S, P(x) PROVE x = b OBVIOUS
    <3>1. x >= b /\ b >= x /\ x \in Nat BY <2>1
    <3> QED BY <1>1, <3>1
  <2> HIDE DEF P
  <2>3. (CHOOSE x \in S : P(x)) = b BY <2>1, <2>2
  <2> QED BY <2>3 DEF P
<1> QED BY <1>2, <1>3, Zenon DEF Min, Max

(* They are in every sequence of numbers that is not empty.                *)
LEMMA ExtremesOfValues ==
  ASSUME NEW v \in Seq(Nat), v # <<>>
  PROVE  \E a, b \in Nat : IsLeast(a, Values(v)) /\ IsGreatest(b, Values(v))
<1> DEFINE S == {w \in Seq(Nat) : w # <<>> =>
                   \E a, b \in Nat : IsLeast(a, Values(w)) /\ IsGreatest(b, Values(w))}
<1>1. <<>> \in S OBVIOUS
<1>2. ASSUME NEW w \in Seq(Nat), NEW x \in Nat, w \in S PROVE Append(w, x) \in S
  <2>1. /\ Append(w, x) \in Seq(Nat) /\ Len(Append(w, x)) = Len(w) + 1 /\ Len(w) \in Nat
        /\ Append(w, x)[Len(w) + 1] = x
        /\ \A i \in 1 .. Len(w) : Append(w, x)[i] = w[i]
    BY AppendProperties
  <2>2. Values(Append(w, x)) = Values(w) \cup {x}
    <3>1. DOMAIN Append(w, x) = (1 .. Len(w)) \cup {Len(w) + 1} /\ DOMAIN w = 1 .. Len(w)
      <4>1. 1 .. Len(w) + 1 = (1 .. Len(w)) \cup {Len(w) + 1} BY <2>1
      <4> QED BY <2>1, <4>1, LenProperties
    <3> QED BY <2>1, <3>1 DEF Values
  <2>3. Values(w) \subseteq Nat BY DEF Values
  <2>4. CASE w = <<>>
    <3>1. Values(w) = {} BY <2>4 DEF Values
    <3>2. IsLeast(x, Values(Append(w, x))) /\ IsGreatest(x, Values(Append(w, x)))
      BY <2>2, <3>1 DEF IsLeast, IsGreatest
    <3> QED BY <2>1, <3>2
  <2>5. CASE w # <<>>
    <3>1. PICK a, b \in Nat : IsLeast(a, Values(w)) /\ IsGreatest(b, Values(w)) BY <1>2, <2>5
    <3>2. /\ IsLeast(IF x < a THEN x ELSE a, Values(w) \cup {x})
          /\ IsGreatest(IF x > b THEN x ELSE b, Values(w) \cup {x})
      BY <2>3, <3>1 DEF IsLeast, IsGreatest
    <3>3. (IF x < a THEN x ELSE a) \in Nat /\ (IF x > b THEN x ELSE b) \in Nat BY <3>1
    <3> QED BY <2>1, <2>2, <3>2, <3>3
  <2> QED BY <2>4, <2>5
<1>3. v \in S
  <2> HIDE DEF S
  <2> QED BY <1>1, <1>2, SequencesByInduction
<1> QED BY <1>3

(* Those of two sequences are the lesser and the greater.                  *)
LEMMA ExtremesConcat ==
  ASSUME NEW u \in Seq(Nat), NEW v \in Seq(Nat), u # <<>>, v # <<>>
  PROVE  /\ Min(Values(u)) \in Nat /\ Max(Values(u)) \in Nat
         /\ Min(Values(u \o v)) = Least(Min(Values(u)), Min(Values(v)))
         /\ Max(Values(u \o v)) = Greatest(Max(Values(u)), Max(Values(v)))
<1>1. PICK a, b \in Nat : IsLeast(a, Values(u)) /\ IsGreatest(b, Values(u))
  BY ExtremesOfValues
<1>2. PICK c, d \in Nat : IsLeast(c, Values(v)) /\ IsGreatest(d, Values(v))
  BY ExtremesOfValues
<1>3. Values(u) \in SUBSET Nat /\ Values(v) \in SUBSET Nat BY DEF Values
<1>4. Values(u \o v) = Values(u) \cup Values(v)
  <2>1. /\ DOMAIN u = 1 .. Len(u) /\ DOMAIN v = 1 .. Len(v)
        /\ DOMAIN (u \o v) = 1 .. Len(u) + Len(v)
    BY ConcatPlaces, LenProperties
  <2>0. /\ \A i \in 1 .. Len(u) : i \in 1 .. Len(u) + Len(v) /\ (u \o v)[i] = u[i]
        /\ \A i \in 1 .. Len(v) : /\ Len(u) + i \in 1 .. Len(u) + Len(v)
                                  /\ (u \o v)[Len(u) + i] = v[i]
        /\ \A i \in 1 .. Len(u) + Len(v) :
             i \in 1 .. Len(u) \/ \E j \in 1 .. Len(v) : i = Len(u) + j
    BY ConcatPlaces
  <2>2. Values(u) \cup Values(v) \subseteq Values(u \o v)
    <3>1. ASSUME NEW i \in 1 .. Len(u) PROVE u[i] \in Values(u \o v)
      BY <2>0, <2>1 DEF Values
    <3>2. ASSUME NEW i \in 1 .. Len(v) PROVE v[i] \in Values(u \o v)
      BY <2>0, <2>1 DEF Values
    <3> QED BY <2>1, <3>1, <3>2 DEF Values
  <2>3. Values(u \o v) \subseteq Values(u) \cup Values(v)
    <3> SUFFICES ASSUME NEW i \in 1 .. Len(u) + Len(v)
                 PROVE  (u \o v)[i] \in Values(u) \cup Values(v)
      BY <2>1 DEF Values
    <3>1. CASE i \in 1 .. Len(u) BY <2>0, <2>1, <3>1 DEF Values
    <3>2. CASE \E j \in 1 .. Len(v) : i = Len(u) + j
      BY <2>0, <2>1, <3>2 DEF Values
    <3> QED BY <2>0, <3>1, <3>2
  <2> QED BY <2>2, <2>3
<1>5. /\ Min(Values(u)) = a /\ Max(Values(u)) = b
      /\ Min(Values(v)) = c /\ Max(Values(v)) = d
  BY <1>1, <1>2, <1>3, MinMaxAre
<1>6. /\ IsLeast(Least(a, c), Values(u) \cup Values(v))
      /\ IsGreatest(Greatest(b, d), Values(u) \cup Values(v))
  BY <1>1, <1>2, <1>3 DEF IsLeast, IsGreatest, Least, Greatest
<1>7. /\ Min(Values(u) \cup Values(v)) = Least(a, c)
      /\ Max(Values(u) \cup Values(v)) = Greatest(b, d)
  BY <1>3, <1>6, MinMaxAre
<1> QED BY <1>4, <1>5, <1>7

(* The last of the slowest captures.                                       *)
IsSlowest(s, m) ==
  /\ m \in 1 .. Len(s)
  /\ \A j \in 1 .. Len(s) :
       \/ s[j].duration_ms < s[m].duration_ms
       \/ s[j].duration_ms = s[m].duration_ms /\ j <= m

(* There is only one; it is the representative, and its duration the       *)
(* greatest.                                                               *)
LEMMA RepresentativeIs ==
  ASSUME NEW s \in Seq(Captures), NEW m, IsSlowest(s, m)
  PROVE  representative(s) = m /\ Max(Values(durations(s))) = s[m].duration_ms
<1>1. /\ Len(s) \in Nat /\ DOMAIN s = 1 .. Len(s)
      /\ \A i \in 1 .. Len(s) : s[i].duration_ms \in Nat
      /\ m \in 1 .. Len(s)
  BY StatAssumption DEF IsSlowest
<1>2. representative(s) = m
  <2> DEFINE P(i) == \A j \in DOMAIN s : 
                       \/ s[j].duration_ms < s[i].duration_ms
                       \/ s[j].duration_ms = s[i].duration_ms /\ j <= i
  <2>1. m \in DOMAIN s /\ P(m) BY <1>1 DEF IsSlowest
  <2>2. ASSUME NEW i \in DOMAIN s, P(i) PROVE i = m
    <3>1. /\ \/ s[m].duration_ms < s[i].duration_ms
             \/ s[m].duration_ms = s[i].duration_ms /\ m <= i
          /\ \/ s[i].duration_ms < s[m].duration_ms
             \/ s[i].duration_ms = s[m].duration_ms /\ i <= m
      BY <2>1, <2>2
    <3>2. s[i].duration_ms \in Nat /\ s[m].duration_ms \in Nat /\ i \in Nat /\ m \in Nat
      BY <1>1
    <3> QED BY <3>1, <3>2
  <2>3. representative(s) = CHOOSE i \in DOMAIN s : P(i) BY Zenon DEF representative
  <2> HIDE DEF P
  <2> QED BY <2>1, <2>2, <2>3
<1>3. Max(Values(durations(s))) = s[m].duration_ms
  <2>1. /\ DOMAIN durations(s) = 1 .. Len(s)
        /\ \A i \in 1 .. Len(s) : durations(s)[i] = s[i].duration_ms
        /\ durations(s) \in Seq(Nat) /\ Len(durations(s)) = Len(s)
    BY Measures, LenProperties
  <2>2. Values(durations(s)) = {s[i].duration_ms : i \in 1 .. Len(s)} BY <2>1 DEF Values
  <2>3. Values(durations(s)) \in SUBSET Nat BY <1>1, <2>2
  <2>4. IsGreatest(s[m].duration_ms, Values(durations(s)))
    <3>1. ASSUME NEW i \in 1 .. Len(s) PROVE s[m].duration_ms >= s[i].duration_ms
      <4>1. s[i].duration_ms < s[m].duration_ms \/ s[i].duration_ms = s[m].duration_ms
        BY DEF IsSlowest
      <4>2. s[i].duration_ms \in Nat /\ s[m].duration_ms \in Nat BY <1>1
      <4> QED BY <4>1, <4>2
    <3> QED BY <1>1, <2>2, <3>1 DEF IsGreatest
  <2>5. durations(s) # <<>>
    <3>1. Len(s) # 0 BY <1>1
    <3> QED BY <2>1, <3>1, EmptySeq
  <2>6. PICK a, b \in Nat : IsLeast(a, Values(durations(s))) BY <2>1, <2>5, ExtremesOfValues
  <2> QED BY <2>3, <2>4, <2>6, MinMaxAre
<1> QED BY <1>2, <1>3

(* Of two batches it is that of the second, if that one is no faster.      *)
LEMMA SlowestConcat ==
  ASSUME NEW s \in Seq(Captures), NEW t \in Seq(Captures), NEW m, NEW n,
         IsSlowest(s, m), IsSlowest(t, n)
  PROVE  IsSlowest(s \o t,
           IF t[n].duration_ms >= s[m].duration_ms THEN Len(s) + n ELSE m)
<1> DEFINE st == s \o t
           k == IF t[n].duration_ms >= s[m].duration_ms THEN Len(s) + n ELSE m
<1>1. /\ Len(s) \in Nat /\ Len(t) \in Nat /\ Len(st) = Len(s) + Len(t)
      /\ \A i \in 1 .. Len(s) : i \in 1 .. Len(st) /\ st[i] = s[i]
      /\ \A i \in 1 .. Len(t) : Len(s) + i \in 1 .. Len(st) /\ st[Len(s) + i] = t[i]
      /\ \A i \in 1 .. Len(st) : i \in 1 .. Len(s) \/ \E j \in 1 .. Len(t) : i = Len(s) + j
  BY ConcatPlaces
<1> HIDE DEF st
<1>2. /\ \A i \in 1 .. Len(s) : s[i].duration_ms \in Nat
      /\ \A i \in 1 .. Len(t) : t[i].duration_ms \in Nat
      /\ m \in 1 .. Len(s) /\ n \in 1 .. Len(t)
  BY StatAssumption DEF IsSlowest
<1>3. /\ k \in 1 .. Len(st)
      /\ t[n].duration_ms >= s[m].duration_ms => k = Len(s) + n /\ st[k] = t[n]
      /\ ~(t[n].duration_ms >= s[m].duration_ms) => k = m /\ st[k] = s[m]
  BY <1>1, <1>2
<1> HIDE DEF k
<1>4. ASSUME NEW i \in 1 .. Len(s)
      PROVE  \/ st[i].duration_ms < st[k].duration_ms
             \/ st[i].duration_ms = st[k].duration_ms /\ i <= k
  <2>1. \/ s[i].duration_ms < s[m].duration_ms
        \/ s[i].duration_ms = s[m].duration_ms /\ i <= m
    BY DEF IsSlowest
  <2>2. s[i].duration_ms \in Nat /\ s[m].duration_ms \in Nat /\ t[n].duration_ms \in Nat
    BY <1>2
  <2>3. i <= Len(s) + n BY <1>1, <1>2
  <2> QED BY <1>1, <1>3, <2>1, <2>2, <2>3
<1>5. ASSUME NEW j \in 1 .. Len(t)
      PROVE  \/ st[Len(s) + j].duration_ms < st[k].duration_ms
             \/ st[Len(s) + j].duration_ms = st[k].duration_ms /\ Len(s) + j <= k
  <2>1. \/ t[j].duration_ms < t[n].duration_ms
        \/ t[j].duration_ms = t[n].duration_ms /\ j <= n
    BY DEF IsSlowest
  <2>2. t[j].duration_ms \in Nat /\ s[m].duration_ms \in Nat /\ t[n].duration_ms \in Nat
    BY <1>2
  <2>3. j <= n => Len(s) + j <= Len(s) + n BY <1>1, <1>2
  <2>4. st[Len(s) + j] = t[j] BY <1>1
  <2>5. CASE t[n].duration_ms >= s[m].duration_ms BY <1>3, <2>1, <2>3, <2>4, <2>5
  <2>6. CASE ~(t[n].duration_ms >= s[m].duration_ms)
    <3>1. t[j].duration_ms < s[m].duration_ms BY <2>1, <2>2, <2>6
    <3> QED BY <1>3, <2>4, <2>6, <3>1
  <2> QED BY <2>5, <2>6
<1>6. IsSlowest(st, k)
  <2>1. ASSUME NEW i \in 1 .. Len(st)
        PROVE  \/ st[i].duration_ms < st[k].duration_ms
               \/ st[i].duration_ms = st[k].duration_ms /\ i <= k
    <3>1. CASE i \in 1 .. Len(s) BY <1>4, <3>1
    <3>2. CASE \E j \in 1 .. Len(t) : i = Len(s) + j BY <1>5, <3>2
    <3> QED BY <1>1, <3>1, <3>2
  <2> QED BY <1>3, <2>1 DEF IsSlowest
<1> QED BY <1>6 DEF st, k

(* Every batch that is not empty has one.                                  *)
LEMMA SlowestExists ==
  ASSUME NEW s \in Seq(Captures), s # <<>>
  PROVE  \E m : IsSlowest(s, m)
<1> DEFINE S == {w \in Seq(Captures) : w # <<>> => \E m : IsSlowest(w, m)}
<1>1. <<>> \in S OBVIOUS
<1>2. ASSUME NEW w \in Seq(Captures), NEW c \in Captures, w \in S PROVE Append(w, c) \in S
  <2>1. /\ Append(w, c) \in Seq(Captures) /\ <<c>> \in Seq(Captures)
        /\ Append(w, c) = w \o <<c>> /\ Len(<<c>>) = 1 /\ <<c>>[1] = c
    BY AppendProperties, AppendIsConcat
  <2>2. IsSlowest(<<c>>, 1)
    <3>1. 1 .. 1 = {1} OBVIOUS
    <3> QED BY <2>1, <3>1 DEF IsSlowest
  <2>3. CASE w = <<>>
    <3>1. Append(w, c) = <<c>> BY <2>3
    <3> QED BY <2>1, <2>2, <3>1
  <2>4. CASE w # <<>>
    <3>1. PICK m : IsSlowest(w, m) BY <1>2, <2>4
    <3>2. \E k : IsSlowest(w \o <<c>>, k) BY <2>1, <2>2, <3>1, SlowestConcat
    <3> QED BY <2>1, <3>2
  <2> QED BY <2>3, <2>4
<1>3. s \in S
  <2> HIDE DEF S
  <2> QED BY <1>1, <1>2, SequencesByInduction
<1> QED BY <1>3

-----------------------------------------------------------------------------
(* The rows of two batches, upserted, are the row of the two as one.       *)

(* The row of a batch, with any query id.                                  *)
RowWith(s, q) ==
  [calls |-> Len(s),
   total_time_ms |-> Sum(durations(s)),
   sum_sq_time_ms |-> Sum(squares(s)),
   slo_breaches |-> count_slo_breaches(s),
   latency_buckets |-> BucketsOf(s),
   min_time_ms |-> Min(Values(durations(s))), max_time_ms |-> Max(Values(durations(s))),
   first_seen |-> Min(Values(times(s))), last_seen |-> Max(Values(times(s))),
   representative_sql |-> s[representative(s)],
   plan_analysis |-> IF s[representative(s)].plan = "none" THEN {} ELSE {s[representative(s)]},
   query_id |-> q]

(* The sets build_stat_row takes the extremes of.                          *)
LEMMA SetsOfMeasures ==
  ASSUME NEW s \in Seq(Captures)
  PROVE  /\ Durations(s) = Values(durations(s))
         /\ {s[i].timestamp : i \in DOMAIN s} = Values(times(s))
<1>1. DOMAIN durations(s) = DOMAIN s /\ DOMAIN times(s) = DOMAIN s
  BY DEF durations, times
<1>2. /\ \A i \in DOMAIN s : durations(s)[i] = s[i].duration_ms
      /\ \A i \in DOMAIN s : times(s)[i] = s[i].timestamp
  BY DEF durations, times
<1>3. Durations(s) = Values(durations(s)) BY <1>1, <1>2 DEF Durations, Values
<1>4. {s[i].timestamp : i \in DOMAIN s} = Values(times(s)) BY <1>1, <1>2 DEF Values
<1> QED BY <1>3, <1>4

(* build_stat_row is such a row, with the query id of the batch.           *)
LEMMA RowIs ==
  ASSUME NEW s \in Seq(Captures)
  PROVE  build_stat_row(s) = RowWith(s, query_id(s))
<1>1. Durations(s) = Values(durations(s)) /\ {s[i].timestamp : i \in DOMAIN s} = Values(times(s))
  BY SetsOfMeasures
<1>2. [i \in DOMAIN s |-> s[i].duration_ms * s[i].duration_ms] = squares(s)
  BY Zenon DEF squares
<1>3. build_stat_row(s) =
  [calls |-> Len(s),
   total_time_ms |-> Sum(durations(s)),
   sum_sq_time_ms |-> Sum([i \in DOMAIN s |-> s[i].duration_ms * s[i].duration_ms]),
   slo_breaches |-> count_slo_breaches(s),
   latency_buckets |-> BucketsOf(s),
   min_time_ms |-> Min(Durations(s)), max_time_ms |-> Max(Durations(s)),
   first_seen |-> Min({s[i].timestamp : i \in DOMAIN s}),
   last_seen |-> Max({s[i].timestamp : i \in DOMAIN s}),
   representative_sql |-> s[representative(s)],
   plan_analysis |-> IF s[representative(s)].plan = "none" THEN {} ELSE {s[representative(s)]},
   query_id |-> query_id(s)]
  BY Zenon DEF build_stat_row
<1> QED BY <1>1, <1>2, <1>3, Zenon DEF RowWith

(* The wanted captures of two batches are as many as of both.              *)
LEMMA CountsConcat ==
  ASSUME NEW s \in Seq(Captures), NEW t \in Seq(Captures), NEW W
  PROVE  /\ Len(CapturesIn(s, W)) \in Nat
         /\ Len(CapturesIn(s \o t, W)) = Len(CapturesIn(s, W)) + Len(CapturesIn(t, W))
<1>1. CapturesIn(s, W) \in Seq(Captures) /\ CapturesIn(t, W) \in Seq(Captures)
  BY CapturesInRange
<1>2. CapturesIn(s \o t, W) = CapturesIn(s, W) \o CapturesIn(t, W) BY CapturesInConcat
<1> QED BY <1>1, <1>2, ConcatProperties, LenProperties

(* add_bucket_arrays: so are those of each latency bucket.                 *)
LEMMA BucketsConcat ==
  ASSUME NEW s \in Seq(Captures), NEW t \in Seq(Captures)
  PROVE  /\ BucketsOf(s) \in [Buckets -> Nat]
         /\ BucketsOf(s \o t) = add_bucket_arrays(BucketsOf(s), BucketsOf(t))
<1> DEFINE W(b) == {c \in Captures : latency_bucket_index(c.duration_ms) = b}
<1>1. \A w : BucketsOf(w) = [b \in Buckets |-> Len(CapturesIn(w, W(b)))]
  BY Zenon DEF BucketsOf
<1>2. \A b : /\ Len(CapturesIn(s, W(b))) \in Nat
             /\ Len(CapturesIn(s \o t, W(b))) = Len(CapturesIn(s, W(b))) + Len(CapturesIn(t, W(b)))
  <2> HIDE DEF W
  <2> QED BY CountsConcat
<1> HIDE DEF W
<1>3. BucketsOf(s) \in [Buckets -> Nat] BY <1>1, <1>2
<1>4. DOMAIN BucketsOf(s) = Buckets BY <1>1
<1>5. BucketsOf(s \o t) = [b \in Buckets |-> BucketsOf(s)[b] + BucketsOf(t)[b]]
  <2>1. \A b \in Buckets : /\ BucketsOf(s)[b] = Len(CapturesIn(s, W(b)))
                           /\ BucketsOf(t)[b] = Len(CapturesIn(t, W(b)))
                           /\ BucketsOf(s \o t)[b] = Len(CapturesIn(s \o t, W(b)))
    BY <1>1
  <2>2. BucketsOf(s \o t) = [b \in Buckets |-> BucketsOf(s \o t)[b]] BY <1>1
  <2> QED BY <1>2, <2>1, <2>2
<1> QED BY <1>3, <1>4, <1>5 DEF add_bucket_arrays

(* ...and those that breach the threshold.                                 *)
LEMMA BreachesConcat ==
  ASSUME NEW s \in Seq(Captures), NEW t \in Seq(Captures)
  PROVE  count_slo_breaches(s \o t) = count_slo_breaches(s) + count_slo_breaches(t)
<1> DEFINE W == {c \in Captures : c.duration_ms > slo_threshold_ms}
<1>1. \A w : count_slo_breaches(w) =
               IF slo_threshold_ms <= 0 THEN 0 ELSE Len(CapturesIn(w, W))
  BY Zenon DEF count_slo_breaches
<1> HIDE DEF W
<1>2. Len(CapturesIn(s \o t, W)) = Len(CapturesIn(s, W)) + Len(CapturesIn(t, W))
  BY CountsConcat
<1> QED BY <1>1, <1>2

(* UPSERT_SQL of the rows of two batches, whatever their query ids.        *)
LEMMA RowsConcat ==
  ASSUME NEW s \in Seq(Captures), NEW t \in Seq(Captures), s # <<>>, t # <<>>, NEW q, NEW r
  PROVE  \E x \in {Coalesce(q, r), Coalesce(r, q)} :
           upsert(RowWith(s, q), RowWith(t, r)) = RowWith(s \o t, x)
<1> DEFINE a == RowWith(s, q)
           b == RowWith(t, r)
           st == s \o t
           x == upsert(a, b).query_id
<1>1. /\ durations(s) \in Seq(Nat) /\ durations(t) \in Seq(Nat)
      /\ squares(s) \in Seq(Nat) /\ squares(t) \in Seq(Nat)
      /\ times(s) \in Seq(Nat) /\ times(t) \in Seq(Nat)
      /\ durations(s) # <<>> /\ durations(t) # <<>>
      /\ times(s) # <<>> /\ times(t) # <<>>
  <2>1. Len(s) # 0 /\ Len(t) # 0 BY EmptySeq
  <2> QED BY <2>1, Measures, EmptySeq
<1>2. Len(st) = Len(s) + Len(t) BY ConcatPlaces
<1>3. /\ Sum(durations(st)) = Sum(durations(s)) + Sum(durations(t))
      /\ Sum(squares(st)) = Sum(squares(s)) + Sum(squares(t))
  BY <1>1, MeasuresConcat, SumConcat
<1>4. count_slo_breaches(st) = count_slo_breaches(s) + count_slo_breaches(t)
  BY BreachesConcat
<1>5. BucketsOf(st) = add_bucket_arrays(BucketsOf(s), BucketsOf(t)) BY BucketsConcat
<1>6. /\ Min(Values(durations(st))) = Least(Min(Values(durations(s))), Min(Values(durations(t))))
      /\ Max(Values(durations(st))) = Greatest(Max(Values(durations(s))), Max(Values(durations(t))))
      /\ Min(Values(times(st))) = Least(Min(Values(times(s))), Min(Values(times(t))))
      /\ Max(Values(times(st))) = Greatest(Max(Values(times(s))), Max(Values(times(t))))
  BY <1>1, MeasuresConcat, ExtremesConcat
<1>7. st[representative(st)] =
        IF Max(Values(durations(t))) >= Max(Values(durations(s)))
        THEN t[representative(t)] ELSE s[representative(s)]
  <2>1. PICK m : IsSlowest(s, m) BY SlowestExists
  <2>2. PICK n : IsSlowest(t, n) BY SlowestExists
  <2> DEFINE k == IF t[n].duration_ms >= s[m].duration_ms THEN Len(s) + n ELSE m
  <2>3. IsSlowest(st, k) BY <2>1, <2>2, SlowestConcat
  <2>4. st[k] = IF t[n].duration_ms >= s[m].duration_ms THEN t[n] ELSE s[m]
    <3>1. m \in 1 .. Len(s) /\ n \in 1 .. Len(t) BY <2>1, <2>2 DEF IsSlowest
    <3>2. /\ \A i \in 1 .. Len(s) : st[i] = s[i]
          /\ \A i \in 1 .. Len(t) : st[Len(s) + i] = t[i]
      BY ConcatPlaces
    <3>3. st[m] = s[m] /\ st[Len(s) + n] = t[n] BY <3>1, <3>2
    <3> HIDE DEF st
    <3> QED BY <3>3
  <2> HIDE DEF k
  <2>5. st \in Seq(Captures) BY ConcatPlaces
  <2>6. /\ representative(s) = m /\ Max(Values(durations(s))) = s[m].duration_ms
        /\ representative(t) = n /\ Max(Values(durations(t))) = t[n].duration_ms
        /\ representative(st) = k
    BY <2>1, <2>2, <2>3, <2>5, RepresentativeIs
  <2> HIDE DEF st
  <2> QED BY <2>4, <2>6
<1> HIDE DEF st
<1>8. /\ a.calls = Len(s) /\ b.calls = Len(t)
      /\ a.total_time_ms = Sum(durations(s)) /\ b.total_time_ms = Sum(durations(t))
      /\ a.sum_sq_time_ms = Sum(squares(s)) /\ b.sum_sq_time_ms = Sum(squares(t))
      /\ a.slo_breaches = count_slo_breaches(s) /\ b.slo_breaches = count_slo_breaches(t)
      /\ a.latency_buckets = BucketsOf(s) /\ b.latency_buckets = BucketsOf(t)
  BY DEF RowWith
<1>9. /\ a.min_time_ms = Min(Values(durations(s))) /\ b.min_time_ms = Min(Values(durations(t)))
      /\ a.max_time_ms = Max(Values(durations(s))) /\ b.max_time_ms = Max(Values(durations(t)))
      /\ a.first_seen = Min(Values(times(s))) /\ b.first_seen = Min(Values(times(t)))
      /\ a.last_seen = Max(Values(times(s))) /\ b.last_seen = Max(Values(times(t)))
      /\ a.representative_sql = s[representative(s)] /\ b.representative_sql = t[representative(t)]
  BY DEF RowWith
<1>9a. /\ a.plan_analysis = IF s[representative(s)].plan = "none" THEN {} ELSE {s[representative(s)]}
       /\ b.plan_analysis = IF t[representative(t)].plan = "none" THEN {} ELSE {t[representative(t)]}
       /\ a.query_id = q /\ b.query_id = r
  BY DEF RowWith
<1> HIDE DEF a, b
<1>10. upsert(a, b) =
    [calls |-> Len(st), total_time_ms |-> Sum(durations(st)),
     sum_sq_time_ms |-> Sum(squares(st)), slo_breaches |-> count_slo_breaches(st),
     latency_buckets |-> BucketsOf(st),
     min_time_ms |-> Min(Values(durations(st))), max_time_ms |-> Max(Values(durations(st))),
     first_seen |-> Min(Values(times(st))), last_seen |-> Max(Values(times(st))),
     representative_sql |-> st[representative(st)],
     plan_analysis |-> IF st[representative(st)].plan = "none" THEN {}
                       ELSE {st[representative(st)]},
     query_id |-> IF refreshes(a, b) THEN Coalesce(r, q) ELSE Coalesce(q, r)]
  <2>1. refreshes(a, b) = (Max(Values(durations(t))) >= Max(Values(durations(s))))
    BY <1>9 DEF refreshes
  <2>2. /\ (IF refreshes(a, b) THEN b.representative_sql ELSE a.representative_sql) =
             st[representative(st)]
        /\ (IF refreshes(a, b) THEN b.plan_analysis ELSE a.plan_analysis) =
             IF st[representative(st)].plan = "none" THEN {} ELSE {st[representative(st)]}
    BY <1>7, <1>9, <1>9a, <2>1
  <2> QED BY <1>2, <1>3, <1>4, <1>5, <1>6, <1>8, <1>9, <1>9a, <2>2, Zenon DEF upsert
<1>11. upsert(a, b) = RowWith(st, IF refreshes(a, b) THEN Coalesce(r, q) ELSE Coalesce(q, r))
  BY <1>10, Zenon DEF RowWith
<1> QED BY <1>11 DEF a, b, st

(* No known id is lost.                                                    *)
LEMMA IdsConcat ==
  ASSUME NEW s \in Seq(Captures), NEW t \in Seq(Captures)
  PROVE  (query_id(s \o t) = 0) = (query_id(s) = 0 /\ query_id(t) = 0)
<1> DEFINE W == {c \in Captures : c.query_id # 0}
<1>1. \A w : query_id(w) = IF CapturesIn(w, W) = <<>> THEN 0 ELSE CapturesIn(w, W)[1].query_id
  BY Zenon DEF query_id
<1>2. ASSUME NEW w \in Seq(Captures) PROVE (query_id(w) = 0) = (CapturesIn(w, W) = <<>>)
  <2> DEFINE k == CapturesIn(w, W)
  <2>1. CASE k # <<>>
    <3>1. /\ k \in Seq(Captures)
          /\ {k[i] : i \in 1 .. Len(k)} = {w[i] : i \in 1 .. Len(w)} \cap W
      <4> HIDE DEF W
      <4> QED BY CapturesInRange
    <3>2. Len(k) \in Nat \ {0} BY <2>1, <3>1, EmptySeq
    <3>3. 1 \in 1 .. Len(k) BY <3>2
    <3> HIDE DEF k
    <3>4. k[1] \in W BY <3>1, <3>3
    <3>5. k[1].query_id # 0 BY <3>4
    <3> HIDE DEF W
    <3> QED BY <1>1, <2>1, <3>5 DEF k
  <2>2. CASE k = <<>> BY <1>1, <2>2
  <2> QED BY <2>1, <2>2
<1> HIDE DEF W
<1>3. CapturesIn(s \o t, W) = CapturesIn(s, W) \o CapturesIn(t, W) BY CapturesInConcat
<1>4. CapturesIn(s, W) \in Seq(Captures) /\ CapturesIn(t, W) \in Seq(Captures)
  BY CapturesInRange
<1>5. CapturesIn(s \o t, W) = <<>> <=> CapturesIn(s, W) = <<>> /\ CapturesIn(t, W) = <<>>
  BY <1>3, <1>4, ConcatEqualIffEmpty
<1>6. s \o t \in Seq(Captures) BY ConcatPlaces
<1> QED BY <1>2, <1>5, <1>6

-----------------------------------------------------------------------------
(* The tables by hour and by minute: a key has a row if the batch has      *)
(* executions of it.                                                       *)

(* Nothing is selected where nothing is wanted.                            *)
LEMMA SelectedNone ==
  ASSUME NEW s \in Seq(Captures), NEW W
  PROVE  CapturesIn(s, W) = <<>> <=> \A i \in 1 .. Len(s) : s[i] \notin W
<1>1. /\ CapturesIn(s, W) \in Seq(Captures)
      /\ {CapturesIn(s, W)[i] : i \in 1 .. Len(CapturesIn(s, W))} =
           {s[i] : i \in 1 .. Len(s)} \cap W
  BY CapturesInRange
<1> DEFINE k == CapturesIn(s, W)
<1> HIDE DEF k
<1>2. k = <<>> <=> {k[i] : i \in 1 .. Len(k)} = {}
  <2>1. k \in Seq(Captures) BY <1>1 DEF k
  <2>2. k = <<>> => Len(k) = 0 BY EmptySeq
  <2>3. k # <<>> => 1 \in 1 .. Len(k) 
    <3>1. k # <<>> => Len(k) \in Nat \ {0} BY <2>1, EmptySeq
    <3> QED BY <3>1
  <2> QED BY <2>2, <2>3
<1>3. k = <<>> <=> {s[i] : i \in 1 .. Len(s)} \cap W = {} BY <1>1, <1>2 DEF k
<1> QED BY <1>3 DEF k

(* An hour or a minute is a key if the batch has captures of it.           *)
LEMMA TableKeys ==
  ASSUME NEW s \in Seq(Captures)
  PROVE  /\ \A h : h \in DOMAIN HistogramOf(s) <=> OfHour(s, h) # <<>>
         /\ \A m : m \in DOMAIN WindowOf(s) <=> OfMinute(s, m) # <<>>
         /\ \A h : OfHour(s, h) \in Seq(Captures) /\ OfMinute(s, h) \in Seq(Captures)
<1>1. DOMAIN s = 1 .. Len(s) /\ \A i \in 1 .. Len(s) : s[i] \in Captures
  BY LenProperties
<1>2. /\ DOMAIN HistogramOf(s) = {hour(s[i]) : i \in 1 .. Len(s)}
      /\ DOMAIN WindowOf(s) = {minute(s[i]) : i \in 1 .. Len(s)}
  BY <1>1 DEF HistogramOf, WindowOf
<1>3. ASSUME NEW h
      PROVE  OfHour(s, h) \in Seq(Captures) /\ (h \in DOMAIN HistogramOf(s) <=> OfHour(s, h) # <<>>)
  <2> DEFINE W == {c \in Captures : hour(c) = h}
  <2>1. OfHour(s, h) = CapturesIn(s, W) BY Zenon DEF OfHour
  <2>2. \A i \in 1 .. Len(s) : s[i] \in W <=> hour(s[i]) = h BY <1>1
  <2> HIDE DEF W
  <2>3. CapturesIn(s, W) \in Seq(Captures) BY CapturesInRange
  <2>4. CapturesIn(s, W) = <<>> <=> \A i \in 1 .. Len(s) : s[i] \notin W BY SelectedNone
  <2>5. h \in DOMAIN HistogramOf(s) <=> \E i \in 1 .. Len(s) : hour(s[i]) = h BY <1>2
  <2> QED BY <2>1, <2>2, <2>3, <2>4, <2>5
<1>4. ASSUME NEW m
      PROVE  OfMinute(s, m) \in Seq(Captures) /\ (m \in DOMAIN WindowOf(s) <=> OfMinute(s, m) # <<>>)
  <2> DEFINE W == {c \in Captures : minute(c) = m}
  <2>1. OfMinute(s, m) = CapturesIn(s, W) BY Zenon DEF OfMinute
  <2>2. \A i \in 1 .. Len(s) : s[i] \in W <=> minute(s[i]) = m BY <1>1
  <2> HIDE DEF W
  <2>3. CapturesIn(s, W) \in Seq(Captures) BY CapturesInRange
  <2>4. CapturesIn(s, W) = <<>> <=> \A i \in 1 .. Len(s) : s[i] \notin W BY SelectedNone
  <2>5. m \in DOMAIN WindowOf(s) <=> \E i \in 1 .. Len(s) : minute(s[i]) = m BY <1>2
  <2> QED BY <2>1, <2>2, <2>3, <2>4, <2>5
<1> QED BY <1>3, <1>4

(* Its captures are those of the one batch, then those of the other.       *)
LEMMA KeysConcat ==
  ASSUME NEW s \in Seq(Captures), NEW t \in Seq(Captures), NEW k
  PROVE  /\ OfHour(s \o t, k) = OfHour(s, k) \o OfHour(t, k)
         /\ OfMinute(s \o t, k) = OfMinute(s, k) \o OfMinute(t, k)
<1> DEFINE W == {c \in Captures : hour(c) = k}
           V == {c \in Captures : minute(c) = k}
<1>1. \A w : OfHour(w, k) = CapturesIn(w, W) /\ OfMinute(w, k) = CapturesIn(w, V)
  BY Zenon DEF OfHour, OfMinute
<1> HIDE DEF W, V
<1>2. /\ CapturesIn(s \o t, W) = CapturesIn(s, W) \o CapturesIn(t, W)
      /\ CapturesIn(s \o t, V) = CapturesIn(s, V) \o CapturesIn(t, V)
  BY CapturesInConcat
<1> QED BY <1>1, <1>2

(* HISTOGRAM_UPSERT_SQL and WINDOW_UPSERT_SQL of the rows of two batches.  *)
LEMMA KeyRowsConcat ==
  ASSUME NEW s \in Seq(Captures), NEW t \in Seq(Captures), s # <<>>, t # <<>>
  PROVE  /\ HistogramRow(s \o t) = histogram_upsert(HistogramRow(s), HistogramRow(t))
         /\ WindowRow(s \o t) = window_upsert(WindowRow(s), WindowRow(t))
<1> DEFINE st == s \o t
<1>0. st \in Seq(Captures) BY ConcatPlaces
<1>1. /\ durations(s) \in Seq(Nat) /\ durations(t) \in Seq(Nat)
      /\ durations(s) # <<>> /\ durations(t) # <<>>
  <2>1. Len(s) # 0 /\ Len(t) # 0 BY EmptySeq
  <2> QED BY <2>1, Measures, EmptySeq
<1>2a. Len(st) = Len(s) + Len(t) BY ConcatPlaces
<1>2b. Sum(durations(st)) = Sum(durations(s)) + Sum(durations(t))
  BY <1>1, MeasuresConcat, SumConcat
<1>2c. BucketsOf(st) = add_bucket_arrays(BucketsOf(s), BucketsOf(t)) BY BucketsConcat
<1>2. /\ Len(st) = Len(s) + Len(t)
      /\ Sum(durations(st)) = Sum(durations(s)) + Sum(durations(t))
      /\ BucketsOf(st) = add_bucket_arrays(BucketsOf(s), BucketsOf(t))
  BY <1>2a, <1>2b, <1>2c
<1>3. /\ Min(Values(durations(st))) = Least(Min(Values(durations(s))), Min(Values(durations(t))))
      /\ Max(Values(durations(st))) = Greatest(Max(Values(durations(s))), Max(Values(durations(t))))
  BY <1>1, MeasuresConcat, ExtremesConcat
<1>4. Durations(s) = Values(durations(s)) /\ Durations(t) = Values(durations(t))
      /\ Durations(st) = Values(durations(st))
  BY <1>0, SetsOfMeasures
<1> HIDE DEF st
<1>5. HistogramRow(st) = histogram_upsert(HistogramRow(s), HistogramRow(t))
  <2>1. \A w : HistogramRow(w) =
               [calls |-> Len(w), total_time_ms |-> Sum(durations(w)),
                min_time_ms |-> Min(Durations(w)), max_time_ms |-> Max(Durations(w))]
    BY Zenon DEF HistogramRow
  <2>2. ASSUME NEW w
        PROVE  /\ HistogramRow(w).calls = Len(w)
               /\ HistogramRow(w).total_time_ms = Sum(durations(w))
               /\ HistogramRow(w).min_time_ms = Min(Durations(w))
               /\ HistogramRow(w).max_time_ms = Max(Durations(w))
    BY <2>1
  <2> QED BY <1>2, <1>3, <1>4, <2>1, <2>2, Zenon DEF histogram_upsert
<1>6. WindowRow(st) = window_upsert(WindowRow(s), WindowRow(t))
  <2>1. \A w : WindowRow(w) =
               [calls |-> Len(w), total_time_ms |-> Sum(durations(w)),
                latency_buckets |-> BucketsOf(w)]
    BY Zenon DEF WindowRow
  <2>2. ASSUME NEW w
        PROVE  /\ WindowRow(w).calls = Len(w)
               /\ WindowRow(w).total_time_ms = Sum(durations(w))
               /\ WindowRow(w).latency_buckets = BucketsOf(w)
    BY <2>1
  <2> QED BY <1>2, <2>1, <2>2, Zenon DEF window_upsert
<1> QED BY <1>5, <1>6 DEF st

(* The row a key of either batch has in the table of both.                 *)
LEMMA HistogramConcat ==
  ASSUME NEW s \in Seq(Captures), NEW t \in Seq(Captures)
  PROVE  HistogramOf(s \o t) = OnConflict(HistogramOf(s), HistogramOf(t), histogram_upsert)
<1> DEFINE st == s \o t
           l == HistogramOf(st)
           r == OnConflict(HistogramOf(s), HistogramOf(t), histogram_upsert)
<1>0. st \in Seq(Captures) BY ConcatPlaces
<1>1. /\ \A h : OfHour(st, h) = OfHour(s, h) \o OfHour(t, h)
      /\ \A h : OfHour(s, h) \in Seq(Captures) /\ OfHour(t, h) \in Seq(Captures)
  BY KeysConcat, TableKeys
<1> HIDE DEF st
<1>2. \A h : /\ h \in DOMAIN HistogramOf(s) <=> OfHour(s, h) # <<>>
             /\ h \in DOMAIN HistogramOf(t) <=> OfHour(t, h) # <<>>
             /\ h \in DOMAIN l <=> OfHour(st, h) # <<>>
  BY <1>0, TableKeys
<1>3. DOMAIN r = DOMAIN HistogramOf(s) \cup DOMAIN HistogramOf(t) BY DEF OnConflict
<1>4. DOMAIN l = DOMAIN r
  <2>1. \A h : OfHour(st, h) = <<>> <=> OfHour(s, h) = <<>> /\ OfHour(t, h) = <<>>
    BY <1>1, ConcatEqualIffEmpty
  <2> HIDE DEF l, r
  <2>2. \A h : h \in DOMAIN l <=> h \in DOMAIN r BY <1>2, <1>3, <2>1
  <2>3. DOMAIN l = DOMAIN r BY <2>2
  <2> QED BY <2>3
<1>5. \A w : \A h \in DOMAIN HistogramOf(w) : HistogramOf(w)[h] = HistogramRow(OfHour(w, h))
  BY DEF HistogramOf
<1>6. ASSUME NEW h \in DOMAIN r PROVE l[h] = r[h]
  <2>1. l[h] = HistogramRow(OfHour(s, h) \o OfHour(t, h)) BY <1>1, <1>4, <1>5
  <2>2. r[h] = IF h \notin DOMAIN HistogramOf(t) THEN HistogramOf(s)[h]
               ELSE IF h \notin DOMAIN HistogramOf(s) THEN HistogramOf(t)[h]
               ELSE histogram_upsert(HistogramOf(s)[h], HistogramOf(t)[h])
    BY DEF OnConflict
  <2>3. CASE h \notin DOMAIN HistogramOf(t)
    <3>1. h \in DOMAIN HistogramOf(s) /\ OfHour(t, h) = <<>> BY <1>2, <1>3, <2>3
    <3>2. OfHour(s, h) \o OfHour(t, h) = OfHour(s, h) BY <1>1, <3>1, ConcatEmptySeq
    <3> HIDE DEF l, r
    <3> QED BY <1>5, <2>1, <2>2, <2>3, <3>1, <3>2
  <2>4. CASE h \notin DOMAIN HistogramOf(s)
    <3>1. h \in DOMAIN HistogramOf(t) /\ OfHour(s, h) = <<>> BY <1>2, <1>3, <2>4
    <3>2. OfHour(s, h) \o OfHour(t, h) = OfHour(t, h) BY <1>1, <3>1, ConcatEmptySeq
    <3> HIDE DEF l, r
    <3> QED BY <1>5, <2>1, <2>2, <2>4, <3>1, <3>2
  <2>5. CASE h \in DOMAIN HistogramOf(s) /\ h \in DOMAIN HistogramOf(t)
    <3>1. OfHour(s, h) # <<>> /\ OfHour(t, h) # <<>> BY <1>2, <2>5
    <3>2. HistogramRow(OfHour(s, h) \o OfHour(t, h)) =
            histogram_upsert(HistogramRow(OfHour(s, h)), HistogramRow(OfHour(t, h)))
      BY <1>1, <3>1, KeyRowsConcat
    <3> HIDE DEF l, r
    <3> QED BY <1>5, <2>1, <2>2, <2>5, <3>2
  <2> QED BY <2>3, <2>4, <2>5
<1>7. l = [h \in DOMAIN l |-> l[h]] /\ r = [h \in DOMAIN r |-> r[h]]
  BY DEF HistogramOf, OnConflict
<1> HIDE DEF l, r
<1>8. l = r BY <1>4, <1>6, <1>7
<1> QED BY <1>8 DEF l, r, st

(* The same, minute by minute, of the window.                              *)
LEMMA WindowConcat ==
  ASSUME NEW s \in Seq(Captures), NEW t \in Seq(Captures), NEW m
  PROVE  /\ m \in DOMAIN WindowOf(s \o t) <=> m \in DOMAIN WindowOf(s) \/ m \in DOMAIN WindowOf(t)
         /\ m \in DOMAIN WindowOf(s) /\ m \notin DOMAIN WindowOf(t) =>
              WindowOf(s \o t)[m] = WindowOf(s)[m]
         /\ m \in DOMAIN WindowOf(t) /\ m \notin DOMAIN WindowOf(s) =>
              WindowOf(s \o t)[m] = WindowOf(t)[m]
         /\ m \in DOMAIN WindowOf(s) /\ m \in DOMAIN WindowOf(t) =>
              WindowOf(s \o t)[m] = window_upsert(WindowOf(s)[m], WindowOf(t)[m])
<1> DEFINE st == s \o t
<1>0. st \in Seq(Captures) BY ConcatPlaces
<1>1. /\ OfMinute(st, m) = OfMinute(s, m) \o OfMinute(t, m)
      /\ OfMinute(s, m) \in Seq(Captures) /\ OfMinute(t, m) \in Seq(Captures)
  BY KeysConcat, TableKeys
<1> HIDE DEF st
<1>2. /\ m \in DOMAIN WindowOf(s) <=> OfMinute(s, m) # <<>>
      /\ m \in DOMAIN WindowOf(t) <=> OfMinute(t, m) # <<>>
      /\ m \in DOMAIN WindowOf(st) <=> OfMinute(st, m) # <<>>
  BY <1>0, TableKeys
<1>3. OfMinute(st, m) = <<>> <=> OfMinute(s, m) = <<>> /\ OfMinute(t, m) = <<>>
  BY <1>1, ConcatEqualIffEmpty
<1>4. \A w : m \in DOMAIN WindowOf(w) => WindowOf(w)[m] = WindowRow(OfMinute(w, m))
  BY DEF WindowOf
<1>5. OfMinute(t, m) = <<>> => OfMinute(st, m) = OfMinute(s, m)
  BY <1>1, ConcatEmptySeq
<1>6. OfMinute(s, m) = <<>> => OfMinute(st, m) = OfMinute(t, m)
  BY <1>1, ConcatEmptySeq
<1>7. OfMinute(s, m) # <<>> /\ OfMinute(t, m) # <<>> =>
        WindowRow(OfMinute(st, m)) = window_upsert(WindowRow(OfMinute(s, m)), WindowRow(OfMinute(t, m)))
  BY <1>1, KeyRowsConcat
<1>8. m \in DOMAIN WindowOf(st) <=> m \in DOMAIN WindowOf(s) \/ m \in DOMAIN WindowOf(t)
  BY <1>2, <1>3, Zenon
<1>9. m \in DOMAIN WindowOf(s) /\ m \notin DOMAIN WindowOf(t) => WindowOf(st)[m] = WindowOf(s)[m]
  BY <1>2, <1>4, <1>5, <1>8, Zenon
<1>10. m \in DOMAIN WindowOf(t) /\ m \notin DOMAIN WindowOf(s) => WindowOf(st)[m] = WindowOf(t)[m]
  BY <1>2, <1>4, <1>6, <1>8, Zenon
<1>11. m \in DOMAIN WindowOf(s) /\ m \in DOMAIN WindowOf(t) =>
           WindowOf(st)[m] = window_upsert(WindowOf(s)[m], WindowOf(t)[m])
  <2> SUFFICES ASSUME m \in DOMAIN WindowOf(s), m \in DOMAIN WindowOf(t)
               PROVE  WindowOf(st)[m] = window_upsert(WindowOf(s)[m], WindowOf(t)[m])
    OBVIOUS
  <2>1. WindowRow(OfMinute(st, m)) =
          window_upsert(WindowRow(OfMinute(s, m)), WindowRow(OfMinute(t, m)))
    BY <1>2, <1>7
  <2>2. /\ WindowOf(s)[m] = WindowRow(OfMinute(s, m))
        /\ WindowOf(t)[m] = WindowRow(OfMinute(t, m))
        /\ WindowOf(st)[m] = WindowRow(OfMinute(st, m))
    BY <1>4, <1>8
  <2> QED BY <2>1, <2>2
<1> QED BY <1>8, <1>9, <1>10, <1>11 DEF st

-----------------------------------------------------------------------------
(* The buckets count the executions within each bound.                     *)

(* latency_bucket_index: in one of the first b buckets or not.             *)
LEMMA WithinBound ==
  ASSUME NEW d \in Nat, NEW b \in 1 .. Len(Bounds)
  PROVE  /\ latency_bucket_index(d) \in Nat \ {0}
         /\ latency_bucket_index(d) <= b <=> d <= Bounds[b]
<1> DEFINE X == {i \in DOMAIN Bounds : Bounds[i] < d}
<1>1. /\ Len(Bounds) \in Nat /\ DOMAIN Bounds = 1 .. Len(Bounds)
      /\ \A i \in 1 .. Len(Bounds) : Bounds[i] \in Nat
      /\ \A i, j \in 1 .. Len(Bounds) : i < j => Bounds[i] < Bounds[j]
  BY StatAssumption
<1>2. IsFiniteSet(X) /\ Cardinality(X) \in Nat
  <2>1. IsFiniteSet(1 .. Len(Bounds)) BY <1>1, FS_Interval
  <2>2. IsFiniteSet(X) BY <1>1, <2>1, FS_Subset
  <2> QED BY <2>2, FS_CardinalityType
<1>3. latency_bucket_index(d) = 1 + Cardinality(X) BY DEF latency_bucket_index
<1>4. CASE d <= Bounds[b]
  <2>1. X \subseteq 1 .. b - 1
    <3> SUFFICES ASSUME NEW i \in 1 .. Len(Bounds), Bounds[i] < d, ~(i <= b - 1) PROVE FALSE
      BY <1>1
    <3>1. i = b \/ b < i BY <1>1
    <3>2. b < i => Bounds[b] < Bounds[i] BY <1>1
    <3>3. Bounds[i] \in Nat /\ Bounds[b] \in Nat BY <1>1
    <3> QED BY <1>4, <3>1, <3>2, <3>3
  <2>2. /\ IsFiniteSet(1 .. b - 1)
        /\ Cardinality(1 .. b - 1) = IF 1 > b - 1 THEN 0 ELSE (b - 1) - 1 + 1
    <3>1. b - 1 \in Int /\ 1 \in Int BY <1>1
    <3> QED BY <3>1, FS_Interval
  <2> HIDE DEF X
  <2>3. Cardinality(X) <= Cardinality(1 .. b - 1) BY <2>1, <2>2, FS_Subset
  <2>4. Cardinality(X) <= b - 1 BY <1>1, <1>2, <2>2, <2>3
  <2> QED BY <1>1, <1>2, <1>3, <1>4, <2>4
<1>5. CASE ~(d <= Bounds[b])
  <2>1. 1 .. b \subseteq X
    <3> SUFFICES ASSUME NEW i \in 1 .. b PROVE i \in 1 .. Len(Bounds) /\ Bounds[i] < d
      BY <1>1
    <3>1. i \in 1 .. Len(Bounds) /\ (i = b \/ i < b) BY <1>1
    <3>2. i < b => Bounds[i] < Bounds[b] BY <1>1, <3>1
    <3>3. Bounds[i] \in Nat /\ Bounds[b] \in Nat BY <1>1, <3>1
    <3> QED BY <1>5, <3>1, <3>2, <3>3
  <2>2. Cardinality(1 .. b) = b
    <3>1. b \in Int /\ 1 \in Int /\ ~(1 > b) /\ b - 1 + 1 = b BY <1>1
    <3> QED BY <3>1, FS_Interval
  <2> HIDE DEF X
  <2>3. Cardinality(1 .. b) <= Cardinality(X) BY <1>2, <2>1, FS_Subset
  <2> QED BY <1>1, <1>2, <1>3, <1>5, <2>2, <2>3
<1> QED BY <1>4, <1>5

(* What is wanted of two kinds is that of the one and that of the other.   *)
LEMMA CountsOfKinds ==
  ASSUME NEW s \in Seq(Captures), NEW V, NEW W, V \cap W = {}
  PROVE  Len(CapturesIn(s, V \cup W)) = Len(CapturesIn(s, V)) + Len(CapturesIn(s, W))
<1> DEFINE N(w, Z) == Len(CapturesIn(w, Z))
           S == {w \in Seq(Captures) : N(w, V \cup W) = N(w, V) + N(w, W)}
<1>1. <<>> \in S
  <2>1. \A Z : N(<<>>, Z) = 0 BY CapturesInEmpty
  <2>2. <<>> \in Seq(Captures) OBVIOUS
  <2> HIDE DEF N
  <2> QED BY <2>1, <2>2
<1>2. ASSUME NEW w \in Seq(Captures), NEW c \in Captures, w \in S PROVE Append(w, c) \in S
  <2>1. ASSUME NEW Z
        PROVE  N(w, Z) \in Nat /\ N(Append(w, c), Z) = IF c \in Z THEN N(w, Z) + 1 ELSE N(w, Z)
    <3>1. /\ CapturesIn(w, Z) \in Seq(Captures)
          /\ CapturesIn(Append(w, c), Z) = IF c \in Z THEN Append(CapturesIn(w, Z), c)
                                           ELSE CapturesIn(w, Z)
      BY CapturesInAppend
    <3> QED BY <3>1, AppendProperties, LenProperties
  <2>2. Append(w, c) \in Seq(Captures) BY AppendProperties
  <2> HIDE DEF N
  <2>3. N(w, V \cup W) = N(w, V) + N(w, W) BY <1>2
  <2>4. N(Append(w, c), V \cup W) = N(Append(w, c), V) + N(Append(w, c), W)
    <3>1. CASE c \in V
      <4>1. c \notin W /\ c \in V \cup W BY <3>1
      <4> QED BY <2>1, <2>3, <3>1, <4>1
    <3>2. CASE c \notin V /\ c \in W BY <2>1, <2>3, <3>2
    <3>3. CASE c \notin V /\ c \notin W BY <2>1, <2>3, <3>3
    <3> QED BY <3>1, <3>2, <3>3
  <2> QED BY <2>2, <2>4
<1>3. s \in S
  <2> HIDE DEF S
  <2> QED BY <1>1, <1>2, SequencesByInduction
<1> QED BY <1>3

(* The prefix of a function on the positions, one longer.                  *)
LEMMA PrefixAppend ==
  ASSUME NEW f, NEW n \in Nat, \A i \in 1 .. n + 1 : f[i] \in Nat
  PROVE  /\ [i \in 1 .. n |-> f[i]] \in Seq(Nat)
         /\ [i \in 1 .. n + 1 |-> f[i]] = Append([i \in 1 .. n |-> f[i]], f[n + 1])
<1> DEFINE u == [i \in 1 .. n |-> f[i]]
           v == [i \in 1 .. n + 1 |-> f[i]]
<1>1. u \in [1 .. n -> Nat] /\ v \in [1 .. n + 1 -> Nat] /\ n + 1 \in Nat OBVIOUS
<1>2. u \in Seq(Nat) /\ v \in Seq(Nat) /\ DOMAIN u = 1 .. n /\ DOMAIN v = 1 .. n + 1
  <2>1. DOMAIN u = 1 .. n /\ DOMAIN v = 1 .. n + 1 OBVIOUS
  <2> HIDE DEF u, v
  <2> QED BY <1>1, <2>1, SeqDef
<1>3. /\ \A i \in 1 .. n : u[i] = f[i]
      /\ \A i \in 1 .. n + 1 : v[i] = f[i]
      /\ f[n + 1] \in Nat
  OBVIOUS
<1> HIDE DEF u, v
<1>4. Len(u) = n /\ Len(v) = n + 1 BY <1>1, <1>2, LenProperties
<1>5. /\ Append(u, f[n + 1]) \in Seq(Nat) /\ Len(Append(u, f[n + 1])) = n + 1
      /\ \A i \in 1 .. n : Append(u, f[n + 1])[i] = u[i]
      /\ Append(u, f[n + 1])[n + 1] = f[n + 1]
  BY <1>2, <1>3, <1>4, AppendProperties
<1>6. \A i \in 1 .. n + 1 : v[i] = Append(u, f[n + 1])[i]
  <2>1. \A i \in 1 .. n + 1 : i \in 1 .. n \/ i = n + 1 OBVIOUS
  <2> QED BY <1>3, <1>5, <2>1
<1>7. v = Append(u, f[n + 1]) BY <1>2, <1>4, <1>5, <1>6, SeqEqual
<1> QED BY <1>2, <1>7 DEF u, v

(* The first b buckets hold the executions no longer than their bound.     *)
LEMMA BucketsWithin ==
  ASSUME NEW s \in Seq(Captures), NEW b \in 1 .. Len(Bounds)
  PROVE  Sum([i \in 1 .. b |-> BucketsOf(s)[i]]) =
           Len(CapturesIn(s, {c \in Captures : c.duration_ms <= Bounds[b]}))
<1> DEFINE f == BucketsOf(s)
           K(n) == {c \in Captures : latency_bucket_index(c.duration_ms) <= n}
           W(n) == {c \in Captures : latency_bucket_index(c.duration_ms) = n}
           P(n) == Sum([i \in 1 .. n |-> f[i]])
           T == {n \in Nat : n <= Len(Bounds) => P(n) = Len(CapturesIn(s, K(n)))}
<1>1. Len(Bounds) \in Nat BY StatAssumption
<1>2. f \in [1 .. Len(Bounds) + 1 -> Nat]
      /\ \A n \in 1 .. Len(Bounds) + 1 : f[n] = Len(CapturesIn(s, W(n)))
  <2>1. f \in [Buckets -> Nat] BY BucketsConcat
  <2>2. \A n \in Buckets : f[n] = Len(CapturesIn(s, W(n))) BY DEF BucketsOf
  <2> QED BY <2>1, <2>2 DEF Buckets
<1>2a. \A c \in Captures : latency_bucket_index(c.duration_ms) \in Nat \ {0}
  <2> SUFFICES ASSUME NEW c \in Captures PROVE latency_bucket_index(c.duration_ms) \in Nat \ {0}
    OBVIOUS
  <2>1. c.duration_ms \in Nat BY StatAssumption
  <2> QED BY <2>1, WithinBound
<1>3. 0 \in T
  <2>1. K(0) = {} BY <1>2a
  <2>2. CapturesIn(s, {}) = <<>> BY SelectedNone
  <2>3. [i \in 1 .. 0 |-> f[i]] = <<>>
    <3> DEFINE e == [i \in 1 .. 0 |-> f[i]]
    <3>1. e \in [1 .. 0 -> Nat] /\ DOMAIN e = 1 .. 0 OBVIOUS
    <3> HIDE DEF e
    <3>2. e \in Seq(Nat) BY <3>1, SeqDef
    <3>3. Len(e) = 0 BY <3>1, <3>2, LenProperties
    <3>4. e = <<>> BY <3>2, <3>3, EmptySeq
    <3> QED BY <3>4 DEF e
  <2>4. P(0) = 0 BY <2>3, SumEmpty
  <2>5. Len(CapturesIn(s, K(0))) = 0
    <3> HIDE DEF K
    <3>1. CapturesIn(s, K(0)) = <<>> BY <2>1, <2>2
    <3> QED BY <3>1
  <2> HIDE DEF P, K
  <2> QED BY <2>4, <2>5
<1>4. ASSUME NEW n \in Nat, n \in T PROVE n + 1 \in T
  <2> SUFFICES ASSUME n + 1 <= Len(Bounds)
               PROVE  P(n + 1) = Len(CapturesIn(s, K(n + 1)))
    <3> HIDE DEF P, K
    <3> QED OBVIOUS
  <2>1. P(n) = Len(CapturesIn(s, K(n))) BY <1>1, <1>4
  <2>2. P(n + 1) = P(n) + f[n + 1]
    <3>1. \A i \in 1 .. n + 1 : f[i] \in Nat BY <1>1, <1>2
    <3> HIDE DEF f
    <3>2. /\ [i \in 1 .. n |-> f[i]] \in Seq(Nat)
          /\ [i \in 1 .. n + 1 |-> f[i]] = Append([i \in 1 .. n |-> f[i]], f[n + 1])
      BY <3>1, PrefixAppend
    <3>3. f[n + 1] \in Nat BY <3>1
    <3> QED BY <3>2, <3>3, SumAppend
  <2>3. K(n + 1) = K(n) \cup W(n + 1) /\ K(n) \cap W(n + 1) = {}
    <3>1. \A c \in Captures : LET x == latency_bucket_index(c.duration_ms)
                              IN /\ x <= n + 1 <=> x <= n \/ x = n + 1
                                 /\ ~(x <= n /\ x = n + 1)
      BY <1>2a
    <3> QED BY <3>1
  <2>4. f[n + 1] = Len(CapturesIn(s, W(n + 1))) BY <1>1, <1>2
  <2> HIDE DEF K, W, P
  <2>5. Len(CapturesIn(s, K(n + 1))) = Len(CapturesIn(s, K(n))) + Len(CapturesIn(s, W(n + 1)))
    BY <2>3, CountsOfKinds
  <2> QED BY <2>1, <2>2, <2>4, <2>5
<1>5. \A n \in Nat : n \in T
  <2> HIDE DEF T
  <2> QED BY <1>3, <1>4, NatsByInduction
<1>6. P(b) = Len(CapturesIn(s, K(b)))
  <2>1. b \in Nat /\ b <= Len(Bounds) BY <1>1
  <2>2. b \in T
    <3> HIDE DEF T
    <3> QED BY <1>5, <2>1
  <2> HIDE DEF P, K
  <2> QED BY <2>1, <2>2
<1>7. K(b) = {c \in Captures : c.duration_ms <= Bounds[b]}
  <2>1. \A c \in Captures : c.duration_ms \in Nat BY StatAssumption
  <2> QED BY <2>1, WithinBound
<1> QED BY <1>6, <1>7

-----------------------------------------------------------------------------
(* The inductive invariant: the tables are those of one batch of all that  *)
(* was stored since the reset; of the window, the minutes still kept.      *)

BatchOf(rows) ==
  IF stored = <<>> THEN rows = {}
  ELSE \E q : rows = {RowWith(stored, q)} /\ (q = 0) = (query_id(stored) = 0)

WindowIs(table, s, edge_) ==
  /\ DOMAIN table \subseteq DOMAIN WindowOf(s)
  /\ \A m \in DOMAIN WindowOf(s) :
       m >= edge_ => m \in DOMAIN table /\ table[m] = WindowOf(s)[m]

StatInv ==
  /\ batch \in Seq(Captures) /\ stored \in Seq(Captures) /\ cutoff \in Nat
  /\ BatchOf(statements)
  /\ query_histogram = HistogramOf(stored)
  /\ WindowIs(metrics_window, stored, cutoff)

(* Nothing has no rows.                                                    *)
LEMMA TablesOfNone ==
  /\ HistogramOf(<<>>) = <<>> /\ WindowOf(<<>>) = <<>> /\ DOMAIN WindowOf(<<>>) = {}
<1>1. <<>> \in Seq(Captures) /\ DOMAIN <<>> = {} OBVIOUS
<1>2. DOMAIN HistogramOf(<<>>) = {} /\ DOMAIN WindowOf(<<>>) = {}
  BY <1>1 DEF HistogramOf, WindowOf
<1>3. HistogramOf(<<>>) = [h \in {} |-> HistogramRow(OfHour(<<>>, h))]
      /\ WindowOf(<<>>) = [m \in {} |-> WindowRow(OfMinute(<<>>, m))]
  BY <1>1 DEF HistogramOf, WindowOf
<1>4. ASSUME NEW f, f = [k \in {} |-> f[k]] PROVE f = <<>>
  <2>1. f \in [1 .. 0 -> {}] /\ DOMAIN f = 1 .. 0 BY <1>4
  <2>2. f \in Seq({}) BY <2>1, SeqDef
  <2>3. Len(f) = 0 BY <2>1, <2>2, LenProperties
  <2> QED BY <2>2, <2>3, EmptySeq
<1>5. \A f : DOMAIN f = {} /\ f = [k \in DOMAIN f |-> f[k]] => f = <<>> BY <1>4
<1>6. /\ HistogramOf(<<>>) = [k \in DOMAIN HistogramOf(<<>>) |-> HistogramOf(<<>>)[k]]
      /\ WindowOf(<<>>) = [k \in DOMAIN WindowOf(<<>>) |-> WindowOf(<<>>)[k]]
  BY DEF HistogramOf, WindowOf
<1> QED BY <1>2, <1>5, <1>6

(* It holds of empty tables.                                               *)
LEMMA StatInitInv == StatInit => StatInv
<1> SUFFICES ASSUME StatInit PROVE StatInv OBVIOUS
<1>1. <<>> \in Seq(Captures) OBVIOUS
<1>2. /\ batch = <<>> /\ statements = {} /\ query_histogram = <<>> /\ metrics_window = <<>>
      /\ cutoff = 0 /\ stored = <<>>
  BY DEF StatInit
<1>3. DOMAIN <<>> = {} OBVIOUS
<1>4. BatchOf(statements) BY <1>2 DEF BatchOf
<1>5. WindowIs(metrics_window, stored, cutoff) BY <1>2, <1>3, TablesOfNone DEF WindowIs
<1>6. query_histogram = HistogramOf(stored) BY <1>2, TablesOfNone
<1> QED BY <1>1, <1>2, <1>4, <1>5, <1>6 DEF StatInv

(* persist of a batch, whatever was stored before it.                      *)
LEMMA PersistKeeps ==
  ASSUME StatInv, NEW b \in Seq(Captures), persist(b), UNCHANGED cutoff
  PROVE  /\ stored' \in Seq(Captures)
         /\ BatchOf(statements)'
         /\ query_histogram' = HistogramOf(stored')
         /\ WindowIs(metrics_window', stored', cutoff')
<1> DEFINE rows == Usable(b)
           new == build_stat_row(rows)
<1>1. rows \in Seq(Captures)
  <2> DEFINE W == {c \in Captures : c.plan # "bad"}
  <2>1. Usable(b) = CapturesIn(b, W) BY Zenon DEF Usable
  <2> HIDE DEF W
  <2> QED BY <2>1, CapturesInRange
<1>2. new = RowWith(rows, query_id(rows)) BY <1>1, RowIs
<1>3. CASE rows = <<>>
  <2>1. UNCHANGED <<statements, query_histogram, metrics_window, stored>>
    BY <1>3 DEF persist
  <2>2. /\ statements' = statements /\ query_histogram' = query_histogram
        /\ metrics_window' = metrics_window /\ stored' = stored /\ cutoff' = cutoff
    BY <2>1
  <2> QED BY <2>2 DEF StatInv, BatchOf
<1>4. CASE rows # <<>>
  <2>1. /\ statements' = IF statements = {} THEN {new} ELSE {upsert(old, new) : old \in statements}
        /\ query_histogram' = OnConflict(query_histogram, HistogramOf(rows), histogram_upsert)
        /\ metrics_window' = Kept(OnConflict(metrics_window, Kept(WindowOf(rows)), window_upsert))
        /\ stored' = stored \o rows
    BY <1>4, Zenon DEF persist
  <2> HIDE DEF rows, new
  <2>2. stored \in Seq(Captures) /\ stored' \in Seq(Captures) /\ stored' # <<>>
    <3>1. stored \in Seq(Captures) BY DEF StatInv
    <3> QED BY <1>1, <1>4, <2>1, <3>1, ConcatProperties, ConcatEqualIffEmpty
  <2>3. \E q : statements' = {RowWith(stored', q)} /\ (q = 0) = (query_id(stored') = 0)
    <3>1. CASE stored = <<>>
      <4>1. statements = {} BY <3>1 DEF StatInv, BatchOf
      <4>2. stored' = rows BY <1>1, <2>1, <3>1, ConcatEmptySeq
      <4> QED BY <1>2, <2>1, <4>1, <4>2
    <3>2. CASE stored # <<>>
      <4>1. PICK q : statements = {RowWith(stored, q)} /\ (q = 0) = (query_id(stored) = 0)
        BY <3>2 DEF StatInv, BatchOf
      <4> DEFINE r == query_id(rows)
      <4>2. PICK x \in {Coalesce(q, r), Coalesce(r, q)} :
              upsert(RowWith(stored, q), RowWith(rows, r)) = RowWith(stored \o rows, x)
        BY <1>1, <1>4, <2>2, <3>2, RowsConcat
      <4>3. statements' = {RowWith(stored', x)} BY <1>2, <2>1, <4>1, <4>2
      <4>4. (query_id(stored \o rows) = 0) = (query_id(stored) = 0 /\ r = 0)
        BY <1>1, <2>2, IdsConcat
      <4>5. (x = 0) = (q = 0 /\ r = 0) BY <4>2 DEF Coalesce
      <4> HIDE DEF r
      <4> QED BY <2>1, <4>1, <4>3, <4>4, <4>5
    <3> QED BY <3>1, <3>2
  <2>4. BatchOf(statements)' BY <2>2, <2>3 DEF BatchOf
  <2>5. query_histogram' = HistogramOf(stored')
    BY <1>1, <2>1, <2>2, HistogramConcat DEF StatInv
  <2>6. WindowIs(metrics_window', stored', cutoff')
    <3> DEFINE o == Kept(WindowOf(rows))
               l == OnConflict(metrics_window, o, window_upsert)
    <3>0. cutoff' = cutoff /\ cutoff \in Nat /\ WindowIs(metrics_window, stored, cutoff)
      BY DEF StatInv
    <3>1. /\ DOMAIN o = {m \in DOMAIN WindowOf(rows) : m >= cutoff}
          /\ \A m \in DOMAIN o : o[m] = WindowOf(rows)[m]
      BY DEF Kept
    <3> HIDE DEF o
    <3>2. /\ DOMAIN l = DOMAIN metrics_window \cup DOMAIN o
          /\ \A m \in DOMAIN l : l[m] = IF m \notin DOMAIN o THEN metrics_window[m]
                                        ELSE IF m \notin DOMAIN metrics_window THEN o[m]
                                        ELSE window_upsert(metrics_window[m], o[m])
      BY DEF OnConflict
    <3> HIDE DEF l
    <3>3. /\ DOMAIN metrics_window' = {m \in DOMAIN l : m >= cutoff}
          /\ \A m \in DOMAIN metrics_window' : metrics_window'[m] = l[m]
      <4>1. metrics_window' = [m \in {k \in DOMAIN l : k >= cutoff} |-> l[m]]
        BY <2>1 DEF Kept, l, o
      <4> QED BY <4>1
    <3>4. \A m : /\ m \in DOMAIN WindowOf(stored') <=>
                      m \in DOMAIN WindowOf(stored) \/ m \in DOMAIN WindowOf(rows)
                 /\ m \in DOMAIN WindowOf(stored) /\ m \notin DOMAIN WindowOf(rows) =>
                      WindowOf(stored')[m] = WindowOf(stored)[m]
                 /\ m \in DOMAIN WindowOf(rows) /\ m \notin DOMAIN WindowOf(stored) =>
                      WindowOf(stored')[m] = WindowOf(rows)[m]
                 /\ m \in DOMAIN WindowOf(stored) /\ m \in DOMAIN WindowOf(rows) =>
                      WindowOf(stored')[m] = window_upsert(WindowOf(stored)[m], WindowOf(rows)[m])
      BY <1>1, <2>1, <2>2, WindowConcat
    <3>5. DOMAIN metrics_window' \subseteq DOMAIN WindowOf(stored')
      BY <3>0, <3>1, <3>2, <3>3, <3>4 DEF WindowIs
    <3>6. ASSUME NEW m \in DOMAIN WindowOf(stored'), m >= cutoff
          PROVE  m \in DOMAIN metrics_window' /\ metrics_window'[m] = WindowOf(stored')[m]
      <4>1. m \in DOMAIN WindowOf(stored) =>
              m \in DOMAIN metrics_window /\ metrics_window[m] = WindowOf(stored)[m]
        BY <3>0, <3>6 DEF WindowIs
      <4>2. m \in DOMAIN metrics_window => m \in DOMAIN WindowOf(stored)
        BY <3>0 DEF WindowIs
      <4>3. m \in DOMAIN WindowOf(rows) <=> m \in DOMAIN o BY <3>1, <3>6
      <4>4. m \in DOMAIN l BY <3>2, <3>4, <4>1, <4>3
      <4>5. m \in DOMAIN metrics_window' /\ metrics_window'[m] = l[m] BY <3>3, <3>6, <4>4
      <4>6. CASE m \notin DOMAIN WindowOf(rows)
        <5>1. l[m] = metrics_window[m] BY <3>2, <4>3, <4>4, <4>6
        <5>2. m \in DOMAIN WindowOf(stored) BY <3>4, <4>6
        <5> QED BY <3>4, <4>1, <4>5, <4>6, <5>1, <5>2
      <4>7. CASE m \in DOMAIN WindowOf(rows) /\ m \notin DOMAIN WindowOf(stored)
        <5>1. l[m] = o[m] /\ o[m] = WindowOf(rows)[m] BY <3>1, <3>2, <4>2, <4>3, <4>4, <4>7
        <5> QED BY <3>4, <4>5, <4>7, <5>1
      <4>8. CASE m \in DOMAIN WindowOf(rows) /\ m \in DOMAIN WindowOf(stored)
        <5>1. l[m] = window_upsert(metrics_window[m], o[m]) /\ o[m] = WindowOf(rows)[m]
          BY <3>1, <3>2, <4>1, <4>3, <4>4, <4>8
        <5>2. metrics_window[m] = WindowOf(stored)[m] BY <4>1, <4>8
        <5> QED BY <3>4, <4>5, <4>8, <5>1, <5>2
      <4> QED BY <4>6, <4>7, <4>8
    <3> QED BY <3>0, <3>5, <3>6 DEF WindowIs
  <2> QED BY <2>2, <2>4, <2>5, <2>6
<1> QED BY <1>3, <1>4

(* Every step keeps it: a drained capture, one stored by its backend, a    *)
(* batch stored, a reset, a minute that passes.                            *)
LEMMA StatNextInv == StatInv /\ [StatNext]_statVars => StatInv'
<1> SUFFICES ASSUME StatInv, [StatNext]_statVars PROVE StatInv' OBVIOUS
<1>0. /\ batch \in Seq(Captures) /\ stored \in Seq(Captures) /\ cutoff \in Nat
      /\ BatchOf(statements) /\ query_histogram = HistogramOf(stored)
      /\ WindowIs(metrics_window, stored, cutoff)
  BY DEF StatInv
<1>1. ASSUME NEW c \in Captures, drain(c) PROVE StatInv'
  <2>1. /\ batch' = Append(batch, c)
        /\ UNCHANGED <<statements, query_histogram, metrics_window, cutoff, stored>>
    BY <1>1 DEF drain
  <2>2. batch' \in Seq(Captures) BY <1>0, <2>1, AppendProperties
  <2> QED BY <1>0, <2>1, <2>2 DEF StatInv, BatchOf
<1>2. ASSUME NEW c \in Captures, persist_one(c) PROVE StatInv'
  <2>1. persist(<<c>>) /\ batch' = batch /\ cutoff' = cutoff BY <1>2 DEF persist_one
  <2>2. <<c>> \in Seq(Captures) OBVIOUS
  <2>3. /\ stored' \in Seq(Captures) /\ BatchOf(statements)'
        /\ query_histogram' = HistogramOf(stored')
        /\ WindowIs(metrics_window', stored', cutoff')
    BY <2>1, <2>2, PersistKeeps
  <2> QED BY <1>0, <2>1, <2>3 DEF StatInv
<1>3. CASE aggregate_captures
  <2>1. persist(batch) /\ batch' = <<>> /\ cutoff' = cutoff BY <1>3 DEF aggregate_captures
  <2>2. /\ stored' \in Seq(Captures) /\ BatchOf(statements)'
        /\ query_histogram' = HistogramOf(stored')
        /\ WindowIs(metrics_window', stored', cutoff')
    BY <1>0, <2>1, PersistKeeps
  <2>3. batch' \in Seq(Captures) BY <2>1
  <2> QED BY <1>0, <2>1, <2>2, <2>3 DEF StatInv
<1>4. CASE plansight_reset
  <2>1. /\ statements' = {} /\ query_histogram' = <<>> /\ metrics_window' = <<>>
        /\ stored' = <<>> /\ batch' = batch /\ cutoff' = cutoff
    BY <1>4 DEF plansight_reset
  <2>2. <<>> \in Seq(Captures) /\ DOMAIN <<>> = {} OBVIOUS
  <2>3. BatchOf(statements)' BY <2>1 DEF BatchOf
  <2>4. WindowIs(metrics_window', stored', cutoff') BY <2>1, <2>2, TablesOfNone DEF WindowIs
  <2>5. query_histogram' = HistogramOf(stored') BY <2>1, TablesOfNone
  <2> QED BY <1>0, <2>1, <2>2, <2>3, <2>4, <2>5 DEF StatInv
<1>5. CASE minute_passes
  <2>1. /\ cutoff' = cutoff + 1
        /\ UNCHANGED <<batch, statements, query_histogram, metrics_window, stored>>
    BY <1>5 DEF minute_passes
  <2>2. WindowIs(metrics_window', stored', cutoff')
    <3>1. metrics_window' = metrics_window /\ stored' = stored BY <2>1
    <3>2. ASSUME NEW m \in DOMAIN WindowOf(stored), m >= cutoff'
          PROVE  m >= cutoff
      <4>1. PICK i \in DOMAIN stored : m = minute(stored[i]) BY DEF WindowOf
      <4>2. stored[i] \in Captures BY <1>0, <4>1, LenProperties
      <4>3. m \in Nat BY <4>1, <4>2, StatAssumption DEF minute
      <4> QED BY <1>0, <2>1, <3>2, <4>3
    <3> QED BY <1>0, <3>1, <3>2 DEF WindowIs
  <2>3. BatchOf(statements)' BY <1>0, <2>1 DEF BatchOf
  <2> QED BY <1>0, <2>1, <2>2, <2>3 DEF StatInv
<1>6. CASE UNCHANGED statVars
  BY <1>0, <1>6 DEF statVars, StatInv, BatchOf
<1> QED BY <1>1, <1>2, <1>3, <1>4, <1>5, <1>6 DEF StatNext

(* For any captures, bounds of the buckets and threshold: the tables do    *)
(* not show how captures were cut into batches, who stored them or when    *)
(* the window was purged (aggregate.rs, the UPSERTs of lib.rs), and their  *)
(* buckets are the counts within each bound.                               *)
THEOREM BatchesDoNotShow == StatSpec => []BatchingIsInvisible
<1>1. StatInv => BatchingIsInvisible
  <2> SUFFICES ASSUME StatInv PROVE BatchingIsInvisible OBVIOUS
  <2>0. /\ stored \in Seq(Captures) /\ BatchOf(statements)
        /\ query_histogram = HistogramOf(stored) /\ WindowIs(metrics_window, stored, cutoff)
    BY DEF StatInv
  <2>1. statements = {} <=> stored = <<>> BY <2>0 DEF BatchOf
  <2>2. \A m \in DOMAIN WindowOf(stored) :
          m >= cutoff => m \in DOMAIN metrics_window /\ metrics_window[m] = WindowOf(stored)[m]
    BY <2>0 DEF WindowIs
  <2>3. ASSUME NEW row \in statements
        PROVE  /\ WithoutId(row) = WithoutId(build_stat_row(stored))
               /\ (row.query_id = 0) = (query_id(stored) = 0)
               /\ row.latency_buckets = BucketsOf(stored)
    <3>1. PICK q : row = RowWith(stored, q) /\ (q = 0) = (query_id(stored) = 0)
      BY <2>0 DEF BatchOf
    <3>2. build_stat_row(stored) = RowWith(stored, query_id(stored)) BY <2>0, RowIs
    <3>3. ASSUME NEW r PROVE WithoutId(RowWith(stored, r)) = RowWith(stored, 0)
      BY DEF WithoutId, RowWith
    <3>4. row.query_id = q /\ row.latency_buckets = BucketsOf(stored) BY <3>1 DEF RowWith
    <3>5. WithoutId(row) = WithoutId(build_stat_row(stored)) BY <3>1, <3>2, <3>3
    <3> QED BY <3>1, <3>4, <3>5
  <2>4. ASSUME NEW row \in statements, NEW b \in DOMAIN Bounds
        PROVE  Sum([i \in 1 .. b |-> row.latency_buckets[i]])
                 = Len(CapturesIn(stored, {c \in Captures : c.duration_ms <= Bounds[b]}))
    <3>1. b \in 1 .. Len(Bounds) BY StatAssumption
    <3>2. row.latency_buckets = BucketsOf(stored) BY <2>3
    <3> QED BY <2>0, <3>1, <3>2, BucketsWithin
  <2> QED BY <2>0, <2>1, <2>2, <2>3, <2>4 DEF BatchingIsInvisible
<1> QED BY <1>1, StatInitInv, StatNextInv, PTL DEF StatSpec

-----------------------------------------------------------------------------
(* PersistLocks: every minute a transaction deletes was behind the edge    *)
(* when it began, and the edge only moves on.                              *)
LockRows == Fingerprints \X (Minutes \cup {0})

ClockInv ==
  /\ edge \in 1 .. MaxClock
  /\ pc \in [Writers -> {"idle", "upsert", "delete", "open"}]
  /\ now \in [Writers -> Nat] /\ \A w \in Writers : now[w] <= edge
  /\ removed \in [Writers -> SUBSET LockRows]
  /\ added \in [Writers -> SUBSET LockRows] /\ window \subseteq LockRows
  /\ \A w \in Writers : \A r \in window \cup added[w] : r[2] # 0
  /\ \A w \in Writers : \A r \in removed[w] : r[2] < now[w]
  /\ \A w \in Writers :
       pc[w] = "idle" => removed[w] = {} /\ added[w] = {}

LEMMA LockRowsAre ==
  ASSUME NEW r \in LockRows
  PROVE  /\ r[1] \in Fingerprints /\ r[1] \in Nat
         /\ r[2] \in Minutes \cup {0} /\ r[2] \in Nat
<1>1. r[1] \in Fingerprints /\ r[2] \in Minutes \cup {0} BY DEF LockRows
<1>2. Fingerprints \subseteq Nat /\ Minutes \subseteq Nat
  BY PersistAssumption DEF Minutes
<1>3. r[1] \in Nat BY <1>1, <1>2
<1>4. r[2] \in Nat
  <2>1. Minutes \cup {0} \subseteq Nat BY <1>2
  <2> QED BY <1>1, <2>1, Zenon
<1> QED BY <1>1, <1>3, <1>4

(* A batch has rows of its fingerprints and of minutes not yet purged.     *)
LEMMA BatchRowsAre ==
  ASSUME NEW fs \in SUBSET Fingerprints, NEW minutes \in SUBSET BatchMinutes
  PROVE  /\ batch_rows(fs, minutes) \in SUBSET LockRows
         /\ \A r \in batch_rows(fs, minutes) :
              r[2] = 0 \/ r[2] \in BatchMinutes
  BY DEF batch_rows, LockRows, Minutes

LEMMA ClockInit == Init => ClockInv
<1> SUFFICES ASSUME Init PROVE ClockInv OBVIOUS
<1>1. MaxClock \in Nat \ {0} /\ \A m \in Minutes : m # 0
  BY PersistAssumption DEF Minutes
<1>2. window \subseteq LockRows /\ \A r \in window : r[2] # 0
  BY <1>1 DEF Init, LockRows, Minutes
<1>3. edge \in 1 .. MaxClock BY <1>1 DEF Init
<1> QED BY <1>2, <1>3 DEF Init, ClockInv

LEMMA ClockNext == ClockInv /\ [Next]_vars => ClockInv'
<1> SUFFICES ASSUME ClockInv, [Next]_vars PROVE ClockInv' OBVIOUS
<1> USE DEF ClockInv
<1>0. MaxClock \in Nat /\ edge \in Nat BY PersistAssumption
<1>1. ASSUME NEW w \in Writers, persist_rows(w) PROVE ClockInv'
  <2>1. PICK fs \in SUBSET Fingerprints, minutes \in SUBSET BatchMinutes :
          LET rows == batch_rows(fs, minutes)
          IN /\ added' = [added EXCEPT ![w] = @ \cup {r \in rows : r[2] # 0}]
             /\ removed' = [removed EXCEPT ![w] = @ \ rows]
    BY <1>1 DEF persist_rows
  <2> DEFINE rows == batch_rows(fs, minutes)
  <2>2. rows \in SUBSET LockRows BY BatchRowsAre
  <2> HIDE DEF rows
  <2>3. /\ window' = window /\ edge' = edge /\ pc' = [pc EXCEPT ![w] = "upsert"]
        /\ \/ pc[w] = "idle" /\ now' = [now EXCEPT ![w] = edge]
           \/ pc[w] = "open" /\ now' = now
    BY <1>1 DEF persist_rows
  <2>4. /\ added' = [added EXCEPT ![w] = @ \cup {r \in rows : r[2] # 0}]
        /\ removed' = [removed EXCEPT ![w] = @ \ rows]
    BY <2>1 DEF rows
  <2>5. /\ added' \in [Writers -> SUBSET LockRows]
        /\ removed' \in [Writers -> SUBSET LockRows]
        /\ \A v \in Writers : removed'[v] \subseteq removed[v]
        /\ \A v \in Writers : \A r \in added'[v] : r \in added[v] \/ r[2] # 0
        /\ \A v \in Writers \ {w} : added'[v] = added[v]
    BY <2>2, <2>4
  <2>6. /\ now' \in [Writers -> Nat] /\ \A v \in Writers : now'[v] <= edge'
        /\ \A v \in Writers : now'[v] = now[v] \/ removed[v] = {}
    BY <1>0, <2>3
  <2>7. \A v \in Writers : \A r \in removed'[v] : r[2] < now'[v]
    BY <2>5, <2>6
  <2>8. /\ pc' \in [Writers -> {"idle", "upsert", "delete", "open"}]
        /\ \A v \in Writers : pc'[v] = "idle" => v # w /\ pc[v] = "idle"
    BY <2>3
  <2>9. \A v \in Writers : pc'[v] = "idle" => removed'[v] = {} /\ added'[v] = {}
    BY <2>5, <2>8
  <2> QED BY <2>3, <2>5, <2>6, <2>7, <2>8, <2>9
<1>2. ASSUME NEW w \in Writers, Lock(w) \/ persist_rows_returns(w)
      PROVE  ClockInv'
  BY <1>2 DEF Lock, persist_rows_returns
<1>3. ASSUME NEW w \in Writers, DeleteExpired(w) PROVE ClockInv'
  <2>1. /\ removed' = [removed EXCEPT ![w] = @ \cup Expired(w)]
        /\ pc' = [pc EXCEPT ![w] = "delete"]
        /\ UNCHANGED <<window, edge, added, now>>
    BY <1>3 DEF DeleteExpired
  <2>2. /\ Expired(w) \subseteq LockRows
        /\ \A r \in Expired(w) : r[2] < now[w]
    BY DEF Expired
  <2> QED BY <2>1, <2>2
<1>4. ASSUME NEW w \in Writers, Commit(w) PROVE ClockInv'
  <2>1. /\ window' = (window \cup added[w]) \ removed[w]
        /\ added' = [added EXCEPT ![w] = {}]
        /\ removed' = [removed EXCEPT ![w] = {}]
        /\ pc' = [pc EXCEPT ![w] = "idle"]
        /\ UNCHANGED <<edge, now>>
    BY <1>4 DEF Commit
  <2> QED BY <2>1
<1>5. CASE Tick
  <2>1. edge' = edge + 1 /\ edge < MaxClock
        /\ UNCHANGED <<window, pc, added, removed, now>>
    BY <1>5 DEF Tick
  <2>2. edge' \in 1 .. MaxClock BY <1>0, <2>1
  <2>3. \A w \in Writers : now[w] <= edge' BY <1>0, <2>1
  <2> QED BY <2>1, <2>2, <2>3
<1>6. CASE UNCHANGED vars BY <1>6 DEF vars
<1> QED BY <1>1, <1>2, <1>3, <1>4, <1>5, <1>6 DEF Next, Step

(* For any writers, batches, calls and clock: a purge that commits takes   *)
(* only minutes behind the edge of the retention window, however late it   *)
(* commits and whatever other writers have stored meanwhile.               *)
THEOREM PurgedIsExpired == Spec => PurgeKeepsTheWindow
<1>1. ClockInv /\ [Next]_vars => [\A r \in window \ window' : r[2] < edge']_vars
  <2> SUFFICES ASSUME ClockInv, Next, NEW r \in window \ window'
               PROVE  r[2] < edge'
    OBVIOUS
  <2>1. PICK w \in Writers : Commit(w)
    BY DEF Next, Step, persist_rows, Lock, DeleteExpired, persist_rows_returns,
           Tick
  <2>2. r \in removed[w] /\ edge' = edge BY <2>1 DEF Commit
  <2>3. /\ r[2] < now[w] /\ now[w] <= edge /\ now[w] \in Nat /\ edge \in Nat
        /\ r \in LockRows
    BY <2>2, PersistAssumption DEF ClockInv
  <2>4. r[2] \in Nat BY <2>3, LockRowsAre
  <2> QED BY <2>2, <2>3, <2>4
<1> QED BY <1>1, ClockInit, ClockNext, PTL DEF Spec, PurgeKeepsTheWindow

-----------------------------------------------------------------------------
(* The order of the locks, as far as it goes: in the first call of its     *)
(* transaction a writer upserts a statements row before those of later     *)
(* fingerprints and before the window rows of its own, which it therefore  *)
(* has alone; then it deletes in the order of the scan.                    *)
InOrder(w) ==
  /\ pc[w] = "upsert" =>
       /\ \A r \in todo[w] : r \notin held[w] /\ <<r[1], 0>> \in todo[w] \cup held[w]
       /\ \A r \in held[w] : <<r[1], 0>> \in held[w]
       /\ \A r \in todo[w] \cup held[w] : r[2] = 0 \/ r \in added[w]
       /\ \A r \in held[w] \cup asks[w], s \in todo[w] : ~Before(s, r)
  /\ pc[w] = "delete" =>
       /\ \A r \in todo[w] : r[2] # 0 /\ r[2] < now[w]
       /\ \A r \in asks[w] : \A s \in todo[w] \ {r} : ScannedBefore(r, s)
       /\ \A r \in held[w] :
            r[2] = 0 \/ r \in added[w] \/ \A s \in todo[w] : ScannedBefore(r, s)

LocksInOrder ==
  /\ made \in [Writers -> Nat] /\ asks \in [Writers -> SUBSET LockRows]
  /\ todo \in [Writers -> SUBSET LockRows] /\ held \in [Writers -> SUBSET LockRows]
  /\ \A w \in Writers : /\ asks[w] \subseteq todo[w] /\ \A r, s \in asks[w] : r = s
                        /\ pc[w] = "idle" => todo[w] = {} /\ held[w] = {}
                        /\ pc[w] = "open" => todo[w] = {}
                        /\ pc[w] # "idle" => made[w] # 0
                        /\ made[w] = 1 => InOrder(w)
  /\ \A v, w \in Writers : v # w => held[v] \cap held[w] = {}

(* What a step does to the writer that makes it, to the others and to the  *)
(* parts of the invariant: all of it but that writer's own order.          *)
LEMMA OneWriterSteps ==
  ASSUME ClockInv, LocksInOrder, NEW w \in Writers,
         \A v \in Writers \ {w} :
           /\ todo'[v] = todo[v] /\ asks'[v] = asks[v] /\ held'[v] = held[v]
           /\ pc'[v] = pc[v] /\ made'[v] = made[v] /\ added'[v] = added[v] /\ now'[v] = now[v],
         made' \in [Writers -> Nat], asks' \in [Writers -> SUBSET LockRows],
         todo' \in [Writers -> SUBSET LockRows], held' \in [Writers -> SUBSET LockRows],
         asks'[w] \subseteq todo'[w] /\ \A r, s \in asks'[w] : r = s,
         pc'[w] = "idle" => todo'[w] = {} /\ held'[w] = {},
         pc'[w] = "open" => todo'[w] = {},
         pc'[w] # "idle" => made'[w] # 0,
         made'[w] = 1 => InOrder(w)',
         \A v \in Writers \ {w} : held[v] \cap held'[w] = {}
  PROVE  LocksInOrder'
<1>1. ASSUME NEW v \in Writers \ {w}, made[v] = 1 PROVE InOrder(v)'
  <2>1. InOrder(v) BY <1>1 DEF LocksInOrder
  <2> QED BY <2>1 DEF InOrder
<1>2. \A v \in Writers : /\ asks'[v] \subseteq todo'[v] /\ \A r, s \in asks'[v] : r = s
                         /\ pc'[v] = "idle" => todo'[v] = {} /\ held'[v] = {}
                         /\ pc'[v] = "open" => todo'[v] = {}
                         /\ pc'[v] # "idle" => made'[v] # 0
  BY DEF LocksInOrder
<1>3. \A v \in Writers : made'[v] = 1 => InOrder(v)'
  BY <1>1
<1>4. \A u, v \in Writers : u # v => held'[u] \cap held'[v] = {}
  BY DEF LocksInOrder
<1> QED BY <1>2, <1>3, <1>4 DEF LocksInOrder

LEMMA LocksInit == Init => LocksInOrder
  BY DEF Init, LocksInOrder

(* A writer that goes on asks for one of the rows that may be next.        *)
LEMMA GoingOn ==
  ASSUME LocksInOrder, NEW w \in Writers, NEW rows \in SUBSET LockRows,
         NEW next \in SUBSET rows, GoesOn(w, rows, next)
  PROVE  /\ todo' \in [Writers -> SUBSET LockRows] /\ asks' \in [Writers -> SUBSET LockRows]
         /\ todo'[w] = rows /\ asks'[w] \subseteq next /\ \A r, s \in asks'[w] : r = s
         /\ \A v \in Writers \ {w} : todo'[v] = todo[v] /\ asks'[v] = asks[v]
  BY DEF GoesOn, LocksInOrder

LEMMA LocksNext == ClockInv /\ LocksInOrder /\ [Next]_vars => LocksInOrder'
<1> SUFFICES ASSUME ClockInv, LocksInOrder, [Next]_vars PROVE LocksInOrder'
  OBVIOUS
<1>1. ASSUME NEW w \in Writers, persist_rows(w) PROVE LocksInOrder'
  <2>1. PICK fs \in SUBSET Fingerprints, minutes \in SUBSET BatchMinutes :
          LET rows == batch_rows(fs, minutes)
          IN /\ GoesOn(w, rows, ordered(w, rows))
             /\ added' = [added EXCEPT ![w] = @ \cup {r \in rows : r[2] # 0}]
    BY <1>1 DEF persist_rows
  <2> DEFINE rows == batch_rows(fs, minutes)
  <2>2. rows \in SUBSET LockRows BY BatchRowsAre
  <2>3. \A r \in rows : <<r[1], 0>> \in rows
    BY DEF batch_rows
  <2>4. GoesOn(w, rows, ordered(w, rows)) /\ added'[w] = added[w] \cup {r \in rows : r[2] # 0}
        /\ \A v \in Writers \ {w} : added'[v] = added[v]
    BY <2>1 DEF ClockInv
  <2> HIDE DEF rows
  <2>5. /\ todo' \in [Writers -> SUBSET LockRows] /\ asks' \in [Writers -> SUBSET LockRows]
        /\ todo'[w] = rows /\ asks'[w] \subseteq ordered(w, rows) /\ \A r, s \in asks'[w] : r = s
        /\ \A v \in Writers \ {w} : todo'[v] = todo[v] /\ asks'[v] = asks[v]
    <3>1. ordered(w, rows) \in SUBSET rows BY DEF ordered
    <3> QED BY <2>2, <2>4, <3>1, GoingOn
  <2>6. pc' = [pc EXCEPT ![w] = "upsert"] /\ held' = held
        /\ \/ pc[w] = "idle" /\ made' = [made EXCEPT ![w] = 1] /\ now' = [now EXCEPT ![w] = edge]
           \/ pc[w] = "open" /\ made' = [made EXCEPT ![w] = @ + 1] /\ now' = now
    BY <1>1 DEF persist_rows
  <2>7. /\ pc'[w] = "upsert" /\ made' \in [Writers -> Nat] /\ made'[w] # 0
        /\ made'[w] = 1 => pc[w] = "idle"
        /\ \A v \in Writers \ {w} : pc'[v] = pc[v] /\ made'[v] = made[v] /\ now'[v] = now[v]
    <3>1. made[w] \in Nat /\ (pc[w] # "idle" => made[w] # 0) BY DEF LocksInOrder
    <3> QED BY <2>6, <3>1 DEF ClockInv, LocksInOrder
  <2>8. ASSUME made'[w] = 1 PROVE InOrder(w)'
    <3>1. held'[w] = {} BY <2>6, <2>7, <2>8 DEF LocksInOrder
    <3>2. \A r \in asks'[w], s \in rows : ~Before(s, r) BY <2>5 DEF ordered
    <3> QED BY <2>3, <2>4, <2>5, <2>7, <3>1, <3>2 DEF InOrder
  <2>9. asks'[w] \subseteq todo'[w] BY <2>5 DEF ordered
  <2>10. /\ held' \in [Writers -> SUBSET LockRows]
         /\ \A v \in Writers : held'[v] = held[v]
         /\ \A v \in Writers \ {w} : held[v] \cap held'[w] = {}
    BY <2>6 DEF LocksInOrder
  <2> QED BY <2>4, <2>5, <2>7, <2>8, <2>9, <2>10, OneWriterSteps
<1>2. ASSUME NEW w \in Writers, Lock(w) PROVE LocksInOrder'
  <2>1. PICK r \in asks[w] :
          /\ Holders(w, r) = {}
          /\ held' = [held EXCEPT ![w] = @ \cup {r}]
          /\ LET rest == todo[w] \ {r}
             IN GoesOn(w, rest, IF pc[w] = "upsert" THEN ordered(w, rest) ELSE scanned(rest))
    BY <1>2 DEF Lock
  <2> DEFINE rest == todo[w] \ {r}
             next == IF pc[w] = "upsert" THEN ordered(w, rest) ELSE scanned(rest)
  <2>2. r \in todo[w] /\ r \in LockRows /\ rest \in SUBSET LockRows
    BY DEF LocksInOrder
  <2>3. next \in SUBSET rest BY DEF ordered, scanned
  <2>4. /\ todo' \in [Writers -> SUBSET LockRows] /\ asks' \in [Writers -> SUBSET LockRows]
        /\ todo'[w] = rest /\ asks'[w] \subseteq next /\ \A x, s \in asks'[w] : x = s
        /\ \A v \in Writers \ {w} : todo'[v] = todo[v] /\ asks'[v] = asks[v]
    <3>1. GoesOn(w, rest, next) BY <2>1
    <3> HIDE DEF rest, next
    <3> QED BY <2>2, <2>3, <3>1, GoingOn
  <2>5. /\ held' \in [Writers -> SUBSET LockRows] /\ held'[w] = held[w] \cup {r}
        /\ \A v \in Writers \ {w} : held'[v] = held[v] /\ r \notin held[v]
    BY <2>1, <2>2 DEF LocksInOrder, Holders
  <2>6. UNCHANGED <<pc, added, now, made>> BY <1>2 DEF Lock
  <2>7. ASSUME made'[w] = 1 PROVE InOrder(w)'
    <3>1. InOrder(w) BY <2>6, <2>7 DEF LocksInOrder
    <3>2. CASE pc[w] = "upsert"
      <4>1. /\ \A s \in todo[w] : s \notin held[w] /\ <<s[1], 0>> \in todo[w] \cup held[w]
            /\ \A s \in held[w] : <<s[1], 0>> \in held[w]
            /\ \A s \in todo[w] \cup held[w] : s[2] = 0 \/ s \in added[w]
            /\ \A x \in held[w] \cup asks[w], s \in todo[w] : ~Before(s, x)
        BY <3>1, <3>2 DEF InOrder
      <4>2. <<r[1], 0>> \in held'[w]
        <5>1. CASE r[2] = 0
          <6>1. r = <<r[1], 0>> BY <2>2, <5>1 DEF LockRows
          <6> QED BY <2>5, <6>1
        <5>2. CASE r[2] # 0
          <6>1. Before(<<r[1], 0>>, r) BY <5>2 DEF Before
          <6>2. <<r[1], 0>> \notin todo[w] BY <4>1, <6>1
          <6> QED BY <2>2, <2>5, <4>1, <6>2
        <5> QED BY <5>1, <5>2
      <4>3. ASSUME NEW s \in rest PROVE <<s[1], 0>> \in rest \cup held'[w]
        <5>1. <<s[1], 0>> \in todo[w] \cup held[w] BY <4>1
        <5> QED BY <2>5, <5>1
      <4>4. \A x \in held'[w], s \in rest : ~Before(s, x) BY <2>5, <4>1
      <4>5. \A x \in asks'[w], s \in rest : ~Before(s, x)
        BY <2>4, <3>2 DEF ordered
      <4>6. \A s \in rest : s \notin held'[w] BY <2>5, <4>1
      <4>7. ASSUME NEW s \in held'[w] PROVE <<s[1], 0>> \in held'[w]
        <5>1. s = r \/ s \in held[w] BY <2>5
        <5>2. s \in held[w] => <<s[1], 0>> \in held[w] BY <4>1
        <5> QED BY <2>5, <4>2, <5>1, <5>2
      <4>8. \A s \in rest \cup held'[w] : s[2] = 0 \/ s \in added'[w]
        BY <2>2, <2>5, <2>6, <4>1
      <4> HIDE DEF rest, next
      <4> QED BY <2>4, <2>6, <3>2, <4>3, <4>4, <4>5, <4>6, <4>7, <4>8 DEF InOrder
    <3>3. CASE pc[w] = "delete"
      <4>1. /\ \A s \in todo[w] : s[2] # 0 /\ s[2] < now[w]
            /\ \A x \in held[w] :
                 x[2] = 0 \/ x \in added[w] \/ \A s \in todo[w] : ScannedBefore(x, s)
        BY <3>1, <3>3 DEF InOrder
      <4>2. \A s \in rest : ScannedBefore(r, s)
        BY <3>3, <3>1 DEF InOrder
      <4>3. \A x \in asks'[w] : \A s \in rest \ {x} : ScannedBefore(x, s)
        BY <2>4, <3>3 DEF scanned
      <4> QED BY <2>4, <2>5, <2>6, <3>3, <4>1, <4>2, <4>3 DEF InOrder
    <3>4. CASE pc[w] \notin {"upsert", "delete"}
      BY <2>6, <3>4 DEF InOrder
    <3> QED BY <3>2, <3>3, <3>4
  <2>8. asks'[w] \subseteq todo'[w] BY <2>3, <2>4
  <2>9. pc[w] \notin {"idle", "open"} BY <2>2 DEF LocksInOrder
  <2>10. \A v \in Writers \ {w} : held[v] \cap held'[w] = {}
    BY <2>5 DEF LocksInOrder
  <2>11. /\ made' \in [Writers -> Nat] /\ pc'[w] # "idle" /\ pc'[w] # "open"
         /\ made'[w] # 0
         /\ \A v \in Writers \ {w} : /\ pc'[v] = pc[v] /\ made'[v] = made[v]
                                     /\ added'[v] = added[v] /\ now'[v] = now[v]
    BY <2>6, <2>9 DEF LocksInOrder
  <2> HIDE DEF rest, next
  <2> QED BY <2>4, <2>5, <2>7, <2>8, <2>10, <2>11, OneWriterSteps
<1>3. ASSUME NEW w \in Writers, DeleteExpired(w) PROVE LocksInOrder'
  <2>1. /\ pc[w] = "upsert" /\ todo[w] = {} /\ pc' = [pc EXCEPT ![w] = "delete"]
        /\ GoesOn(w, Expired(w), scanned(Expired(w)))
        /\ UNCHANGED <<held, added, now, made>>
    BY <1>3 DEF DeleteExpired
  <2>2. Expired(w) \in SUBSET LockRows BY DEF Expired, ClockInv
  <2>3. \A r \in Expired(w) : r[2] # 0 /\ r[2] < now[w] BY DEF Expired, ClockInv
  <2>4. /\ todo' \in [Writers -> SUBSET LockRows] /\ asks' \in [Writers -> SUBSET LockRows]
        /\ todo'[w] = Expired(w) /\ asks'[w] \subseteq scanned(Expired(w)) /\ \A r, s \in asks'[w] : r = s
        /\ \A v \in Writers \ {w} : todo'[v] = todo[v] /\ asks'[v] = asks[v]
    <3>1. scanned(Expired(w)) \in SUBSET Expired(w) BY DEF scanned
    <3> QED BY <2>1, <2>2, <3>1, GoingOn
  <2>5. pc'[w] = "delete" /\ \A v \in Writers \ {w} : pc'[v] = pc[v]
    BY <2>1 DEF ClockInv
  <2>6. ASSUME made'[w] = 1 PROVE InOrder(w)'
    <3>1. InOrder(w) BY <2>1, <2>6 DEF LocksInOrder
    <3>2. \A r \in held[w] : r[2] = 0 \/ r \in added[w] BY <2>1, <3>1 DEF InOrder
    <3>3. \A r \in asks'[w] : \A s \in Expired(w) \ {r} : ScannedBefore(r, s)
      BY <2>4 DEF scanned
    <3> QED BY <2>1, <2>3, <2>4, <2>5, <3>2, <3>3 DEF InOrder
  <2>7. asks'[w] \subseteq todo'[w] BY <2>4 DEF scanned
  <2>8. /\ made' \in [Writers -> Nat] /\ made'[w] # 0 /\ held' \in [Writers -> SUBSET LockRows]
        /\ \A v \in Writers \ {w} : held[v] \cap held'[w] = {}
    BY <2>1 DEF LocksInOrder
  <2> QED BY <2>1, <2>4, <2>5, <2>6, <2>7, <2>8, OneWriterSteps
<1>4. ASSUME NEW w \in Writers, persist_rows_returns(w) PROVE LocksInOrder'
  <2>1. /\ pc[w] = "delete" /\ todo[w] = {} /\ pc' = [pc EXCEPT ![w] = "open"]
        /\ UNCHANGED <<todo, asks, held, added, now, made>>
    BY <1>4 DEF persist_rows_returns
  <2>2. pc'[w] = "open" /\ \A v \in Writers \ {w} : pc'[v] = pc[v]
    BY <2>1 DEF ClockInv
  <2>3. InOrder(w)' BY <2>2 DEF InOrder
  <2>4. /\ made' \in [Writers -> Nat] /\ made'[w] # 0 /\ todo'[w] = {}
        /\ asks'[w] \subseteq todo'[w] /\ \A r, s \in asks'[w] : r = s
    BY <2>1 DEF LocksInOrder
  <2>5. \A v \in Writers \ {w} : held[v] \cap held'[w] = {} BY <2>1 DEF LocksInOrder
  <2>6. /\ held' \in [Writers -> SUBSET LockRows] /\ todo' \in [Writers -> SUBSET LockRows]
        /\ asks' \in [Writers -> SUBSET LockRows]
    BY <2>1 DEF LocksInOrder
  <2> QED BY <2>1, <2>2, <2>3, <2>4, <2>5, <2>6, OneWriterSteps
<1>5. ASSUME NEW w \in Writers, Commit(w) PROVE LocksInOrder'
  <2>1. /\ pc[w] = "open" /\ pc' = [pc EXCEPT ![w] = "idle"]
        /\ held' = [held EXCEPT ![w] = {}] /\ added' = [added EXCEPT ![w] = {}]
        /\ UNCHANGED <<todo, asks, now, made>>
    BY <1>5 DEF Commit
  <2>2. /\ pc'[w] = "idle" /\ todo'[w] = {} /\ held'[w] = {} /\ asks'[w] \subseteq todo'[w]
        /\ \A r, s \in asks'[w] : r = s
        /\ held' \in [Writers -> SUBSET LockRows] /\ todo' \in [Writers -> SUBSET LockRows]
        /\ asks' \in [Writers -> SUBSET LockRows] /\ made' \in [Writers -> Nat]
    BY <2>1 DEF ClockInv, LocksInOrder
  <2>3. InOrder(w)' BY <2>2 DEF InOrder
  <2>4. \A v \in Writers \ {w} :
           /\ pc'[v] = pc[v] /\ held'[v] = held[v] /\ added'[v] = added[v]
           /\ todo'[v] = todo[v] /\ asks'[v] = asks[v] /\ made'[v] = made[v] /\ now'[v] = now[v]
    BY <2>1 DEF ClockInv, LocksInOrder
  <2>5. \A v \in Writers \ {w} : held[v] \cap held'[w] = {} BY <2>2
  <2> QED BY <2>2, <2>3, <2>4, <2>5, OneWriterSteps
<1>6. CASE Tick \/ UNCHANGED vars
  <2>1. UNCHANGED <<pc, todo, asks, held, added, now, made>>
    BY <1>6 DEF Tick, vars
  <2>2. \A w \in Writers : InOrder(w) => InOrder(w)' BY <2>1 DEF InOrder
  <2> QED BY <2>1, <2>2 DEF LocksInOrder
<1> QED BY <1>1, <1>2, <1>3, <1>4, <1>5, <1>6 DEF Next, Step

-----------------------------------------------------------------------------
(* A finite set of numbers has a bound.                                    *)
LEMMA FiniteIsBounded ==
  ASSUME NEW S \in SUBSET Nat, IsFiniteSet(S)
  PROVE  \E b \in Nat : \A x \in S : x <= b
<1>1. PICK n \in Nat : ExistsBijection(1 .. n, S) BY FS_NatBijection
<1>2. PICK f \in [1 .. n -> S] : \A x \in S : \E i \in 1 .. n : f[i] = x
  BY <1>1 DEF ExistsBijection, Bijection, Surjection
<1> DEFINE BoundedTo(k) == \E b \in Nat : \A i \in 1 .. n : i <= k => f[i] <= b
           T == {k \in Nat : k <= n /\ ~BoundedTo(k)}
<1>3. T = {}
  <2> SUFFICES ASSUME T # {} PROVE FALSE OBVIOUS
  <2>1. PICK k \in T : \A j \in T : ~(<<j, k>> \in OpToRel(<, Nat))
    <3>1. T \subseteq Nat OBVIOUS
    <3> HIDE DEF T
    <3> QED BY <3>1, NatLessThanWellFounded, WFMin
  <2>2. k \in Nat /\ k <= n /\ ~BoundedTo(k) OBVIOUS
  <2>3. CASE k = 0
    <3>1. \A i \in 1 .. n : ~(i <= 0) OBVIOUS
    <3>2. BoundedTo(0) BY <3>1
    <3> QED BY <2>2, <2>3, <3>2
  <2>4. CASE k # 0
    <3>1. k - 1 \in Nat /\ k - 1 <= n /\ k \in 1 .. n BY <2>2, <2>4
    <3>2. k - 1 \notin T
      <4>1. k - 1 < k BY <2>2
      <4>2. <<k - 1, k>> \in OpToRel(<, Nat)
        BY <2>2, <3>1, <4>1, Zenon DEF OpToRel
      <4> HIDE DEF T
      <4> QED BY <2>1, <4>2
    <3>3. BoundedTo(k - 1) BY <3>1, <3>2
    <3>4. PICK b \in Nat : \A i \in 1 .. n : i <= k - 1 => f[i] <= b
      BY <3>3
    <3>5. f[k] \in Nat BY <3>1
    <3> DEFINE c == IF b <= f[k] THEN f[k] ELSE b
    <3>6. c \in Nat /\ b <= c /\ f[k] <= c
      <4> DEFINE m == f[k]
      <4>1. m \in Nat /\ c = IF b <= m THEN m ELSE b BY <3>5
      <4> HIDE DEF m, c
      <4>2. c \in Nat /\ b <= c /\ m <= c BY <4>1
      <4> QED BY <4>2 DEF m
    <3> HIDE DEF c
    <3>7. ASSUME NEW i \in 1 .. n, i <= k PROVE f[i] <= c
      <4>1. i <= k - 1 \/ i = k BY <2>2, <3>7
      <4>2. CASE i = k BY <3>6, <4>2
      <4>3. CASE i <= k - 1
        <5> DEFINE x == f[i]
        <5>1. x <= b /\ x \in Nat /\ b \in Nat BY <3>4, <4>3
        <5> HIDE DEF x
        <5>2. x <= c BY <3>6, <5>1
        <5> QED BY <5>2 DEF x
      <4> QED BY <4>1, <4>2, <4>3
    <3>8. BoundedTo(k) BY <3>6, <3>7
    <3> QED BY <2>2, <3>8
  <2> QED BY <2>3, <2>4
<1>4. BoundedTo(n)
  <2>1. n \in Nat /\ n <= n OBVIOUS
  <2>2. n \notin T BY <1>3
  <2> QED BY <2>1, <2>2
<1>5. PICK b \in Nat : \A i \in 1 .. n : i <= n => f[i] <= b BY <1>4
<1>6. \A x \in S : x <= b BY <1>2, <1>5
<1> QED BY <1>6

(* ...and, unless it is empty, a greatest element.                         *)
LEMMA FiniteHasGreatest ==
  ASSUME NEW S \in SUBSET Nat, IsFiniteSet(S), S # {}
  PROVE  \E x \in S : \A y \in S : y <= x
<1>1. PICK b \in Nat : \A x \in S : x <= b BY FiniteIsBounded
<1> DEFINE T == {b - x : x \in S}
<1>2. T \subseteq Nat /\ T # {}
  <2>1. \A x \in S : b - x \in Nat BY <1>1
  <2>2. PICK x \in S : TRUE OBVIOUS
  <2>3. b - x \in T OBVIOUS
  <2> QED BY <2>1, <2>3
<1>3. PICK t \in T : \A y \in T : ~(<<y, t>> \in OpToRel(<, Nat))
  <2> HIDE DEF T
  <2> QED BY <1>2, NatLessThanWellFounded, WFMin
<1>4. PICK x \in S : t = b - x OBVIOUS
<1>5. ASSUME NEW y \in S PROVE y <= x
  <2>1. b - y \in T /\ b - y \in Nat /\ t \in Nat BY <1>2
  <2>2. ~(b - y < t)
    <3> HIDE DEF T
    <3> QED BY <1>3, <2>1 DEF OpToRel
  <2>3. x \in Nat /\ y \in Nat OBVIOUS
  <2>4. ~(b - y < b - x) BY <1>4, <2>2
  <2> HIDE DEF T
  <2> QED BY <2>3, <2>4
<1> QED BY <1>5

(* A set of rows has a last one in the order of the scan, and one whose    *)
(* fingerprint is the greatest.                                            *)
LEMMA LastRow ==
  ASSUME NEW W \in SUBSET LockRows, W # {}
  PROVE  /\ \E r \in W : \A s \in W : ~ScannedBefore(r, s)
         /\ \E r \in W : \A s \in W : ~(r[1] < s[1])
<1>1. IsFiniteSet(Fingerprints) /\ IsFiniteSet(Minutes \cup {0})
  <2>1. IsFiniteSet(BatchMinutes) /\ IsFiniteSet(OldMinutes)
        /\ IsFiniteSet(Fingerprints)
    BY PersistAssumption
  <2>2. IsFiniteSet({0}) BY FS_Singleton
  <2> QED BY <2>1, <2>2, FS_Union DEF Minutes
<1>2. ASSUME NEW V \in SUBSET LockRows, V # {}
      PROVE  \E r \in V : \A s \in V : s[1] <= r[1]
  <2> DEFINE F == {r[1] : r \in V}
  <2>1. F \subseteq Fingerprints /\ F \subseteq Nat BY LockRowsAre
  <2>2. IsFiniteSet(F) /\ F # {} BY <1>1, <1>2, <2>1, FS_Subset
  <2>3. PICK f \in F : \A g \in F : g <= f
    <3> HIDE DEF F
    <3> QED BY <2>1, <2>2, FiniteHasGreatest
  <2>5. PICK r \in V : r[1] = f OBVIOUS
  <2> QED BY <2>3, <2>5
<1> DEFINE M == {r[2] : r \in W}
<1>3. M \subseteq Minutes \cup {0} /\ M \subseteq Nat BY LockRowsAre
<1>4. IsFiniteSet(M) /\ M # {} BY <1>1, <1>3, FS_Subset
<1>5. PICK m \in M : \A n \in M : n <= m
  <2> HIDE DEF M
  <2> QED BY <1>3, <1>4, FiniteHasGreatest
<1> DEFINE V == {r \in W : r[2] = m}
<1>6. PICK r \in V : \A s \in V : s[1] <= r[1]
  <2>1. V \in SUBSET LockRows /\ V # {} OBVIOUS
  <2> HIDE DEF V
  <2> QED BY <1>2, <2>1
<1>7. ASSUME NEW s \in W, ScannedBefore(r, s) PROVE FALSE
  <2>1. s[1] \in Nat /\ r[1] \in Nat /\ s[2] \in Nat /\ r[2] \in Nat
    BY LockRowsAre
  <2>2. s[2] <= r[2] BY <1>5
  <2>3. s[2] = r[2] /\ r[1] < s[1] BY <1>7, <2>1, <2>2 DEF ScannedBefore
  <2>5. s \in V BY <2>3
  <2>6. s[1] <= r[1] BY <1>6, <2>5
  <2> QED BY <2>1, <2>3, <2>6
<1>8. PICK q \in W : \A s \in W : s[1] <= q[1] BY <1>2
<1>9. \A s \in W : ~(q[1] < s[1])
  <2>1. \A s \in W : s[1] \in Nat BY LockRowsAre
  <2> QED BY <1>8, <2>1
<1> QED BY <1>7, <1>9

(* "A consistent lock order makes that impossible": it does, for any       *)
(* number of writers, rows and calls, among writers that are in the first  *)
(* persist_rows call of their transaction and whose minutes have not       *)
(* expired since.  With two batches in a transaction it does not           *)
(* (PersistLocks_transactions), nor with a minute that expires.            *)
THEOREM LockOrderSuffices == Spec => []FreshWritersDoNotDeadlock
<1>1. ClockInv /\ LocksInOrder => FreshWritersDoNotDeadlock
  <2> SUFFICES ASSUME ClockInv, LocksInOrder,
                      NEW S \in SUBSET Writers, S # {},
                      \A w \in S : Fresh(w),
                      \A w \in S : WaitsFor(w) \cap S # {}
               PROVE  FALSE
    BY DEF FreshWritersDoNotDeadlock
  <2>1. ASSUME NEW w \in S
        PROVE  \E r \in asks[w], v \in S : v # w /\ r \in held[v]
    BY DEF WaitsFor, Holders
  <2>2. ASSUME NEW w \in S PROVE InOrder(w) /\ pc[w] \in {"upsert", "delete"}
    <3>1. todo[w] # {} /\ pc[w] \in {"idle", "upsert", "delete", "open"}
      BY <2>1 DEF LocksInOrder, ClockInv
    <3>2. pc[w] \notin {"idle", "open"} BY <3>1 DEF LocksInOrder
    <3>3. made[w] <= 1 /\ made[w] \in Nat /\ made[w] # 0
      BY <3>1, <3>2 DEF Fresh, LocksInOrder
    <3>4. made[w] = 1 BY <3>3
    <3> QED BY <3>1, <3>2, <3>4 DEF LocksInOrder
  <2>3. \A w \in S : asks[w] \subseteq todo[w] /\ asks[w] \subseteq LockRows
                     /\ held[w] \subseteq LockRows
    BY DEF LocksInOrder
  <2>4. ASSUME NEW w \in S, NEW r \in asks[w]
        PROVE  \E v \in S : v # w /\ r \in held[v]
    BY <2>1 DEF LocksInOrder
  <2>5. CASE \E w \in S : pc[w] = "delete"
    <3> DEFINE W == UNION {asks[w] : w \in {u \in S : pc[u] = "delete"}}
    <3>1. W \in SUBSET LockRows BY <2>3
    <3>2. W # {}
      <4>1. PICK w \in S : pc[w] = "delete" BY <2>5
      <4>2. PICK r \in asks[w] : TRUE BY <2>1
      <4>3. r \in W BY <4>1, <4>2
      <4> QED BY <4>3
    <3>3. ASSUME NEW r \in W PROVE \E s \in W : ScannedBefore(r, s)
      <4>1. PICK w \in S : pc[w] = "delete" /\ r \in asks[w] OBVIOUS
      <4>2. PICK v \in S : r \in held[v] BY <2>4, <4>1
      <4>3. r[2] # 0 /\ r[2] < now[w] BY <2>2, <2>3, <4>1 DEF InOrder
      <4>4. ~(r[2] >= edge)
        <5>1. r[2] \in Nat BY <2>3, <4>1, LockRowsAre
        <5>2. now[w] \in Nat /\ edge \in 1 .. MaxClock /\ now[w] <= edge BY DEF ClockInv
        <5>3. edge \in Nat BY <5>2, PersistAssumption
        <5> QED BY <4>3, <5>1, <5>2, <5>3
      <4>5. r \notin added[v] BY <4>4 DEF Fresh
      <4>6. pc[v] # "upsert" BY <2>2, <4>2, <4>3, <4>5 DEF InOrder
      <4>7. pc[v] = "delete" BY <2>2, <4>6
      <4>8. \A s \in todo[v] : ScannedBefore(r, s)
        BY <2>2, <4>2, <4>3, <4>5, <4>7 DEF InOrder
      <4>9. PICK s \in asks[v] : TRUE BY <2>1
      <4>10. s \in W BY <4>7, <4>9
      <4> QED BY <2>3, <4>8, <4>9, <4>10
    <3>4. PICK r \in W : \A s \in W : ~ScannedBefore(r, s)
      <4> HIDE DEF W
      <4> QED BY <3>1, <3>2, LastRow
    <3> HIDE DEF W
    <3> QED BY <3>3, <3>4
  <2>6. CASE \A w \in S : pc[w] = "upsert"
    <3> DEFINE W == UNION {asks[w] : w \in S}
    <3>1. W \in SUBSET LockRows BY <2>3
    <3>2. W # {}
      <4>1. PICK w \in S : TRUE OBVIOUS
      <4>2. PICK r \in asks[w] : TRUE BY <2>1
      <4> QED BY <4>2
    <3>3. ASSUME NEW w \in S, NEW r \in asks[w]
          PROVE  r[2] = 0 /\ \E v \in S : r \in held[v]
      <4>1. PICK v \in S : v # w /\ r \in held[v] BY <2>1, <2>4
      <4>2. ASSUME r[2] # 0 PROVE FALSE
        <5>1. Before(<<r[1], 0>>, r) BY <4>2 DEF Before
        <5>2. r \in todo[w] /\ <<r[1], 0>> \notin todo[w]
          BY <2>2, <2>3, <2>6, <5>1 DEF InOrder
        <5>3. <<r[1], 0>> \in held[w] BY <2>2, <2>6, <5>2 DEF InOrder
        <5>4. <<r[1], 0>> \in held[v] BY <2>2, <2>6, <4>1 DEF InOrder
        <5> QED BY <4>1, <5>3, <5>4 DEF LocksInOrder
      <4> QED BY <4>1, <4>2
    <3>4. ASSUME NEW r \in W PROVE \E s \in W : r[1] < s[1]
      <4>1. PICK w \in S : r \in asks[w] OBVIOUS
      <4>2. PICK v \in S : r \in held[v] /\ r[2] = 0 BY <3>3, <4>1
      <4>3. PICK s \in asks[v] : TRUE BY <2>1
      <4>4. s[2] = 0 /\ s \in todo[v] BY <2>3, <3>3
      <4>5. r \in LockRows /\ s \in LockRows BY <2>3, <4>1, <4>3
      <4>6. r[1] # s[1]
        <5>1. s \notin held[v] BY <2>2, <2>6, <4>4 DEF InOrder
        <5>2. r = <<r[1], r[2]>> /\ s = <<s[1], s[2]>> BY <4>5 DEF LockRows
        <5> QED BY <4>2, <4>4, <5>1, <5>2
      <4>7. ~(s[1] < r[1])
        <5>1. ~Before(s, r) BY <2>2, <2>6, <4>2, <4>4 DEF InOrder
        <5> QED BY <5>1 DEF Before
      <4>8. r[1] \in Nat /\ s[1] \in Nat BY <4>5, LockRowsAre
      <4>9. r[1] < s[1] BY <4>6, <4>7, <4>8
      <4> QED BY <4>3, <4>9
    <3>5. PICK r \in W : \A s \in W : ~(r[1] < s[1])
      <4> HIDE DEF W
      <4> QED BY <3>1, <3>2, LastRow
    <3> HIDE DEF W
    <3> QED BY <3>4, <3>5
  <2> QED BY <2>2, <2>5, <2>6
<1> QED BY <1>1, ClockInit, ClockNext, LocksInit, LocksNext, PTL DEF Spec
=============================================================================
