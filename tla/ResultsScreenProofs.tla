------------------------ MODULE ResultsScreenProofs ------------------------
(***************************************************************************)
(* The panes of the results screen are of one query, for any results,      *)
(* orders, tabs, cache size and range of the scroll positions: first that  *)
(* sorting reorders the rows and loses none, then that every key and frame *)
(* keeps the selection, the caches and the scroll positions together.      *)
(***************************************************************************)
EXTENDS ResultsScreen, FiniteSetTheorems, TLAPS

(* A total order on the numbers up to n.                                   *)
IsTotalOrder(R, n) ==
  /\ \A i \in 1 .. n : <<i, i>> \in R
  /\ \A i, j \in 1 .. n : <<i, j>> \in R \/ <<j, i>> \in R
  /\ \A i, j \in 1 .. n : <<i, j>> \in R /\ <<j, i>> \in R => i = j
  /\ \A i, j, k \in 1 .. n : <<i, j>> \in R /\ <<j, k>> \in R => <<i, k>> \in R

Below(R, n, i) == {j \in 1 .. n : <<j, i>> \in R}

(* The places in a total order: each is taken once, and in that order.     *)
LEMMA RanksArePlaces ==
  ASSUME NEW n \in Nat, NEW R, IsTotalOrder(R, n)
  PROVE  /\ \A i \in 1 .. n : Cardinality(Below(R, n, i)) \in 1 .. n
         /\ \A i, j \in 1 .. n : Cardinality(Below(R, n, i)) <= Cardinality(Below(R, n, j))
                                   => <<i, j>> \in R
         /\ \A k \in 1 .. n : \E i \in 1 .. n : Cardinality(Below(R, n, i)) = k
<1> DEFINE rank(i) == Cardinality(Below(R, n, i))
<1>1. IsFiniteSet(1 .. n) /\ Cardinality(1 .. n) = n BY FS_Interval
<1>2. ASSUME NEW i \in 1 .. n
      PROVE  /\ IsFiniteSet(Below(R, n, i)) /\ rank(i) \in Nat /\ rank(i) <= n
             /\ i \in Below(R, n, i) /\ rank(i) # 0
  <2>1. Below(R, n, i) \in SUBSET (1 .. n) /\ i \in Below(R, n, i)
    BY DEF Below, IsTotalOrder
  <2>2. IsFiniteSet(Below(R, n, i)) /\ rank(i) <= n /\ rank(i) \in Nat
    BY <1>1, <2>1, FS_Subset, FS_CardinalityType
  <2>3. rank(i) # 0 BY <2>1, <2>2, FS_EmptySet
  <2> QED BY <2>1, <2>2, <2>3
<1>3. ASSUME NEW i \in 1 .. n, NEW j \in 1 .. n, <<i, j>> \in R, i # j
      PROVE  rank(i) < rank(j)
  <2>1. Below(R, n, i) \in SUBSET Below(R, n, j) BY <1>3, Zenon DEF Below, IsTotalOrder
  <2>2. j \notin Below(R, n, i) BY <1>3, Zenon DEF Below, IsTotalOrder
  <2>3. rank(i) <= rank(j) /\ (rank(i) = rank(j) => Below(R, n, i) = Below(R, n, j))
    BY <1>2, <2>1, FS_Subset
  <2> QED BY <1>2, <2>2, <2>3
<1>4. ASSUME NEW i \in 1 .. n, NEW j \in 1 .. n, rank(i) <= rank(j)
      PROVE  <<i, j>> \in R
  <2>1. CASE i = j BY <2>1 DEF IsTotalOrder
  <2>2. CASE i # j
    <3>1. ~(rank(j) < rank(i)) BY <1>2, <1>4
    <3>2. <<j, i>> \notin R BY <3>1, <2>2, <1>3
    <3> QED BY <3>2 DEF IsTotalOrder
  <2> QED BY <2>1, <2>2
<1>5. \A k \in 1 .. n : \E i \in 1 .. n : rank(i) = k
  <2> DEFINE r == [i \in 1 .. n |-> rank(i)]
  <2>1. r \in [1 .. n -> 1 .. n] BY <1>2
  <2>2. \A i, j \in 1 .. n : r[i] = r[j] => i = j
    <3> SUFFICES ASSUME NEW i \in 1 .. n, NEW j \in 1 .. n, rank(i) = rank(j) PROVE i = j
      OBVIOUS
    <3>1. <<i, j>> \in R /\ <<j, i>> \in R BY <1>2, <1>4
    <3> QED BY <3>1 DEF IsTotalOrder
  <2> HIDE DEF r
  <2>3. r \in Injection(1 .. n, 1 .. n) BY <2>1, <2>2 DEF Injection, IsInjective
  <2>4. r \in Surjection(1 .. n, 1 .. n) BY <1>1, <2>3, FS_Injection
  <2>5. \A k \in 1 .. n : \E i \in 1 .. n : r[i] = k BY <2>4 DEF Surjection
  <2> QED BY <2>5 DEF r
<1>6. \A i \in 1 .. n : rank(i) \in 1 .. n BY <1>2
<1> QED BY <1>4, <1>5, <1>6
-----------------------------------------------------------------------------
SortStates == [order : Orders, ascending : BOOLEAN]

(* fs names the queries from 1 to n, each once.                            *)
NamesEach(fs, n) ==
  /\ fs \in [1 .. n -> DOMAIN processed_queries]
  /\ \A i, j \in 1 .. n : fs[i] = fs[j] => i = j
  /\ \A f \in DOMAIN processed_queries : \E i \in 1 .. n : fs[i] = f

RowsInOrder(fs, n, state) == \A i, j \in 1 .. n : SortsBefore(state, fs[i], fs[j]) => i < j

(* What is sorted by is compared as numbers are.                           *)
LEMMA SortsBeforeIsAnOrder ==
  ASSUME processed_queries \in Results, NEW state \in SortStates,
         NEW a \in DOMAIN processed_queries, NEW b \in DOMAIN processed_queries,
         NEW c \in DOMAIN processed_queries
  PROVE  /\ SortsBefore(state, a, b) => ~SortsBefore(state, b, a)
         /\ SortsBefore(state, a, b) /\ SortsBefore(state, b, c) => SortsBefore(state, a, c)
         /\ SortsBefore(state, a, c) => SortsBefore(state, a, b) \/ SortsBefore(state, b, c)
<1> DEFINE x(f) == processed_queries[f].statistics[state.order]
           t(f) == processed_queries[f].normalized_query
<1>1. \A f \in DOMAIN processed_queries : x(f) \in Int /\ t(f) \in Int
  BY ResultsAssumption DEF SortStates
<1>2. \A f, g : SortsBefore(state, f, g) <=>
                  \/ (IF state.ascending THEN x(f) < x(g) ELSE x(f) > x(g))
                  \/ x(f) = x(g) /\ t(f) < t(g)
  BY DEF SortsBefore, NormalizedQuery
<1> HIDE DEF x, t
<1> QED BY <1>1, <1>2

(* Sorting reorders the rows: none is lost, none shown twice, and a row    *)
(* that sorts before another is above it (sort_processed_queries).         *)
LEMMA SortReorders ==
  ASSUME processed_queries \in Results, NEW state \in SortStates, NEW n \in Nat,
         NEW fs, NamesEach(fs, n)
  PROVE  NamesEach(sort_processed_queries(fs, state), n)
         /\ RowsInOrder(sort_processed_queries(fs, state), n, state)
<1> DEFINE before(j, i) == \/ SortsBefore(state, fs[j], fs[i])
                           \/ j <= i /\ ~SortsBefore(state, fs[i], fs[j])
           R == {p \in (1 .. n) \X (1 .. n) : before(p[1], p[2])}
           rank(i) == Cardinality({j \in DOMAIN fs : before(j, i)})
           at(k) == CHOOSE i \in DOMAIN fs : rank(i) = k
           sorted == sort_processed_queries(fs, state)
<1>1. DOMAIN fs = 1 .. n /\ fs \in [1 .. n -> DOMAIN processed_queries]
  BY DEF NamesEach
<1>2. sorted = [k \in DOMAIN fs |-> fs[at(k)]] BY Zenon DEF sort_processed_queries
<1>3. ASSUME NEW i \in 1 .. n, NEW j \in 1 .. n, NEW k \in 1 .. n
      PROVE  /\ SortsBefore(state, fs[i], fs[j]) => ~SortsBefore(state, fs[j], fs[i])
             /\ SortsBefore(state, fs[i], fs[j]) /\ SortsBefore(state, fs[j], fs[k])
                  => SortsBefore(state, fs[i], fs[k])
             /\ SortsBefore(state, fs[i], fs[k])
                  => SortsBefore(state, fs[i], fs[j]) \/ SortsBefore(state, fs[j], fs[k])
  <2>1. fs[i] \in DOMAIN processed_queries /\ fs[j] \in DOMAIN processed_queries
        /\ fs[k] \in DOMAIN processed_queries
    BY <1>1
  <2> QED BY <2>1, SortsBeforeIsAnOrder
<1>4. \A i, j \in 1 .. n : <<i, j>> \in R <=> before(i, j) OBVIOUS
<1>5. IsTotalOrder(R, n)
  <2> HIDE DEF R
  <2>1. ASSUME NEW i \in 1 .. n PROVE <<i, i>> \in R BY <1>3, <1>4
  <2>2. ASSUME NEW i \in 1 .. n, NEW j \in 1 .. n PROVE <<i, j>> \in R \/ <<j, i>> \in R
    BY <1>3, <1>4
  <2>3. ASSUME NEW i \in 1 .. n, NEW j \in 1 .. n, <<i, j>> \in R, <<j, i>> \in R
        PROVE  i = j
    BY <1>3, <1>4, <2>3
  <2>4. ASSUME NEW i \in 1 .. n, NEW j \in 1 .. n, NEW k \in 1 .. n,
               <<i, j>> \in R, <<j, k>> \in R
        PROVE  <<i, k>> \in R
    <3>1. before(i, j) /\ before(j, k) BY <1>4, <2>4
    <3>2. before(i, k) BY <1>3, <3>1
    <3> QED BY <1>4, <3>2
  <2> QED BY <2>1, <2>2, <2>3, <2>4 DEF IsTotalOrder
<1>6. ASSUME NEW i \in 1 .. n PROVE rank(i) = Cardinality(Below(R, n, i))
  <2>1. {j \in DOMAIN fs : before(j, i)} = Below(R, n, i) BY <1>1, <1>4 DEF Below
  <2> QED BY <2>1, Zenon
<1> HIDE DEF R, rank
<1>7. /\ \A i \in 1 .. n : rank(i) \in 1 .. n
      /\ \A i, j \in 1 .. n : rank(i) <= rank(j) => <<i, j>> \in R
      /\ \A k \in 1 .. n : \E i \in 1 .. n : rank(i) = k
  BY <1>5, <1>6, RanksArePlaces
<1>8. \A k \in 1 .. n : at(k) \in 1 .. n /\ rank(at(k)) = k
  <2> SUFFICES ASSUME NEW k \in 1 .. n PROVE at(k) \in 1 .. n /\ rank(at(k)) = k OBVIOUS
  <2>1. \E i \in DOMAIN fs : rank(i) = k BY <1>1, <1>7
  <2> QED BY <1>1, <2>1, Zenon
<1> HIDE DEF at, before
<1>9. sorted = [k \in 1 .. n |-> fs[at(k)]] BY <1>1, <1>2
<1> HIDE DEF sorted
<1>10. \A i \in 1 .. n : at(rank(i)) = i
  <2> SUFFICES ASSUME NEW i \in 1 .. n PROVE at(rank(i)) = i OBVIOUS
  <2>1. rank(at(rank(i))) = rank(i) /\ at(rank(i)) \in 1 .. n /\ rank(i) \in 1 .. n
    BY <1>7, <1>8
  <2>2. <<i, at(rank(i))>> \in R /\ <<at(rank(i)), i>> \in R BY <1>7, <2>1
  <2> QED BY <1>5, <2>1, <2>2 DEF IsTotalOrder
<1>11. NamesEach(sorted, n)
  <2>1. sorted \in [1 .. n -> DOMAIN processed_queries] BY <1>1, <1>8, <1>9
  <2>2. ASSUME NEW i \in 1 .. n, NEW j \in 1 .. n, sorted[i] = sorted[j] PROVE i = j
    <3>1. at(i) = at(j) BY <1>8, <1>9, <2>2 DEF NamesEach
    <3> QED BY <1>8, <3>1
  <2>3. ASSUME NEW f \in DOMAIN processed_queries PROVE \E i \in 1 .. n : sorted[i] = f
    <3>1. PICK i \in 1 .. n : fs[i] = f BY DEF NamesEach
    <3>2. rank(i) \in 1 .. n /\ sorted[rank(i)] = f BY <1>7, <1>9, <1>10, <3>1
    <3> QED BY <3>2
  <2> QED BY <2>1, <2>2, <2>3 DEF NamesEach
<1>12. RowsInOrder(sorted, n, state)
  <2> SUFFICES ASSUME NEW k \in 1 .. n, NEW l \in 1 .. n, SortsBefore(state, sorted[k], sorted[l])
               PROVE  k < l
    BY DEF RowsInOrder
  <2>1. at(k) \in 1 .. n /\ at(l) \in 1 .. n /\ rank(at(k)) = k /\ rank(at(l)) = l
    BY <1>8
  <2>2. SortsBefore(state, fs[at(k)], fs[at(l)]) BY <1>9
  <2>3. <<at(l), at(k)>> \notin R
    BY <1>3, <1>4, <2>1, <2>2 DEF before
  <2>4. ~(rank(at(l)) <= rank(at(k))) BY <1>7, <2>1, <2>3
  <2> QED BY <2>1, <2>4
<1> QED BY <1>11, <1>12 DEF sorted

-----------------------------------------------------------------------------
count == Cardinality(DOMAIN processed_queries)

Views ==
  [fingerprint : DOMAIN processed_queries, tab : Tabs, analysis_scroll : Int,
   status : {"Delayed", "Completed"}]

ScreenTypes ==
  /\ processed_queries \in Results /\ sort_state \in SortStates
  /\ selected_query_index \in Nat
  /\ view_mode = <<>> \/ \E view \in Views : view_mode = <<view>>

(* The rows are the queries, in the order asked for.                       *)
RowsAreQueries ==
  /\ NamesEach(sorted_query_fingerprints, count)
  /\ RowsInOrder(sorted_query_fingerprints, count, sort_state)

(* The details are of the row they were opened from: no key moves the      *)
(* selection while they are open.                                          *)
DetailsAreSelected ==
  view_mode # <<>> => IsSelection /\ view_mode[1].fingerprint = Selected

(* A frame stays as it was drawn until the next key.                       *)
AtHand == IF IsSelection THEN <<Selected>> ELSE <<>>

FrameIsAtHand ==
  frame # <<>> =>
    frame = <<[row |-> IF view_mode = <<>> THEN render_queries_table ELSE 0,
               of |-> AtHand, plan |-> AtHand]>>

ScrolledIsSelected == scroll # NoScroll /\ IsSelection => scrolled = <<Selected>>

ScreenInv ==
  /\ ScreenTypes /\ RowsAreQueries /\ DetailsAreSelected /\ FrameIsAtHand
  /\ ScrolledIsSelected /\ clipboard = shown

(* The results are finitely many, and so are the rows.                     *)
LEMMA CountIsNat ==
  ASSUME processed_queries \in Results
  PROVE  IsFiniteSet(DOMAIN processed_queries) /\ count \in Nat
  BY ResultsAssumption, FS_CardinalityType DEF count

(* There is one row for each query.                                        *)
LEMMA RowsCount ==
  ASSUME processed_queries \in Results, RowsAreQueries
  PROVE  get_unique_query_count = count
  BY CountIsNat DEF RowsAreQueries, NamesEach, get_unique_query_count

(* The keys of the hash map name each query once, in whatever order.       *)
LEMMA ScreenInitially == ScreenInit => ScreenInv
<1> SUFFICES ASSUME ScreenInit PROVE ScreenInv OBVIOUS
<1>1. /\ processed_queries \in Results
      /\ sort_state = [order |-> "Count", ascending |-> FALSE]
      /\ selected_query_index = 0 /\ view_mode = <<>> /\ frame = <<>>
      /\ scroll = NoScroll /\ clipboard = <<>> /\ shown = <<>>
  BY DEF ScreenInit
<1>2. PICK keys \in [1 .. count -> DOMAIN processed_queries] :
        /\ \A i, j \in DOMAIN keys : keys[i] = keys[j] => i = j
        /\ sorted_query_fingerprints = sort_processed_queries(keys, sort_state)
  BY DEF ScreenInit, count
<1>3. IsFiniteSet(DOMAIN processed_queries) /\ count \in Nat BY <1>1, CountIsNat
<1>4. sort_state \in SortStates BY <1>1, ResultsAssumption DEF SortStates
<1>5. NamesEach(keys, count)
  <2>1. keys \in Injection(1 .. count, DOMAIN processed_queries)
    BY <1>2 DEF Injection, IsInjective
  <2>2. Cardinality(1 .. count) = Cardinality(DOMAIN processed_queries)
    BY <1>3, FS_Interval DEF count
  <2>3. keys \in Surjection(1 .. count, DOMAIN processed_queries)
    BY <1>3, <2>1, <2>2, FS_Injection
  <2> QED BY <1>2, <2>3 DEF Surjection, NamesEach
<1>6. RowsAreQueries BY <1>1, <1>2, <1>3, <1>4, <1>5, SortReorders DEF RowsAreQueries
<1>7. ScreenTypes BY <1>1, <1>4 DEF ScreenTypes
<1> QED BY <1>1, <1>6, <1>7
        DEF ScreenInv, DetailsAreSelected, FrameIsAtHand, ScrolledIsSelected

(* A frame of the list: the plan is rendered anew unless it is cached for  *)
(* the very query that is selected.                                        *)
LEMMA ListDrawn == ScreenInv /\ render_results_screen => ScreenInv'
<1> SUFFICES ASSUME ScreenInv, render_results_screen PROVE ScreenInv' OBVIOUS
<1>1. /\ view_mode = <<>> /\ render_query_details
      /\ UNCHANGED <<processed_queries, listVars, copyVars, scroll, view_mode, scrolled>>
  BY DEF render_results_screen
<1>2. frame' = <<[row |-> render_queries_table, of |-> AtHand, plan |-> AtHand]>>
  BY <1>1 DEF render_query_details, is_cached, AtHand
<1> QED BY <1>1, <1>2
        DEF ScreenInv, ScreenTypes, RowsAreQueries, DetailsAreSelected, FrameIsAtHand,
            ScrolledIsSelected, listVars, copyVars, IsSelection, Selected, AtHand, count,
            get_unique_query_count, render_queries_table, NamesEach, RowsInOrder,
            SortsBefore, NormalizedQuery, Views

(* The analysis in a detail view completes without leaving its query.      *)
LEMMA DetailDrawn == ScreenInv /\ render_detail_view => ScreenInv'
<1> SUFFICES ASSUME ScreenInv, render_detail_view PROVE ScreenInv' OBVIOUS
<1>1. /\ view_mode # <<>>
      /\ \E view \in update_analysis(view_mode[1]) : view_mode' = <<view>>
      /\ frame' = <<[row |-> 0, of |-> <<view_mode[1].fingerprint>>,
                     plan |-> <<view_mode[1].fingerprint>>]>>
      /\ UNCHANGED <<processed_queries, listVars, copyVars, scroll, scrolled>>
  BY DEF render_detail_view
<1>2. PICK view \in Views : view_mode = <<view>> BY <1>1 DEF ScreenInv, ScreenTypes
<1>3. PICK shownView : shownView \in update_analysis(view) /\ view_mode' = <<shownView>>
  BY <1>1, <1>2
<1>4. shownView \in Views /\ shownView.fingerprint = view.fingerprint
  BY <1>2, <1>3 DEF update_analysis, Views
<1>5. IsSelection /\ view.fingerprint = Selected
  BY <1>1, <1>2 DEF ScreenInv, DetailsAreSelected
<1>6. /\ view_mode' # <<>> /\ view_mode'[1].fingerprint = Selected
      /\ frame' = <<[row |-> 0, of |-> AtHand, plan |-> AtHand]>>
  BY <1>1, <1>2, <1>3, <1>4, <1>5 DEF AtHand
<1>7. Views' = Views /\ IsSelection' = IsSelection /\ Selected' = Selected
      /\ AtHand' = AtHand /\ RowsAreQueries' = RowsAreQueries
  BY <1>1 DEF Views, listVars, IsSelection, Selected, AtHand, get_unique_query_count, count,
              RowsAreQueries, NamesEach, RowsInOrder, SortsBefore, NormalizedQuery
<1>8. ScreenTypes' BY <1>1, <1>3, <1>4, <1>7 DEF ScreenInv, ScreenTypes, listVars
<1> QED BY <1>1, <1>5, <1>6, <1>7, <1>8
        DEF ScreenInv, DetailsAreSelected, FrameIsAtHand, ScrolledIsSelected, copyVars

(* A key that leaves the rows, the selection and the copy alone keeps the  *)
(* invariant if it opens only what is selected.                            *)
LEMMA OtherKeys ==
  ASSUME ScreenInv, frame' = <<>>, UNCHANGED <<processed_queries, listVars, copyVars>>,
         ScrolledIsSelected',
         view_mode' = <<>> \/ \E view \in Views : /\ view_mode' = <<view>> /\ IsSelection
                                                  /\ view.fingerprint = Selected
  PROVE  ScreenInv'
<1>1. Views' = Views /\ IsSelection' = IsSelection /\ Selected' = Selected
      /\ RowsAreQueries' = RowsAreQueries
  BY DEF Views, listVars, IsSelection, Selected, get_unique_query_count, count,
         RowsAreQueries, NamesEach, RowsInOrder, SortsBefore, NormalizedQuery
<1>2. ScreenTypes' BY <1>1 DEF ScreenInv, ScreenTypes, listVars
<1>3. DetailsAreSelected' BY <1>1 DEF DetailsAreSelected
<1> QED BY <1>1, <1>2, <1>3 DEF ScreenInv, FrameIsAtHand, copyVars

(* What was scrolled is still selected.                                    *)
LEMMA ScrollKept ==
  ASSUME ScreenInv, UNCHANGED <<listVars, scroll, scrolled>>
  PROVE  ScrolledIsSelected'
  BY DEF ScreenInv, ScrolledIsSelected, listVars, IsSelection, Selected, get_unique_query_count

(* The view that is open is of the selected query.                         *)
LEMMA ViewAtHand ==
  ASSUME ScreenInv
  PROVE  view_mode = <<>> \/ \E view \in Views : /\ view_mode = <<view>> /\ IsSelection
                                                 /\ view.fingerprint = Selected
  BY DEF ScreenInv, ScreenTypes, DetailsAreSelected

(* Keys that touch neither rows nor view.                                  *)
LEMMA PlainKeys == ScreenInv /\ (quit \/ ignored_key \/ tab) => ScreenInv'
<1> SUFFICES ASSUME ScreenInv, quit \/ ignored_key \/ tab PROVE ScreenInv' OBVIOUS
<1>1. /\ frame' = <<>> /\ view_mode' = view_mode
      /\ UNCHANGED <<processed_queries, listVars, copyVars, scroll, scrolled>>
  BY DEF quit, ignored_key, tab, Key, InList
<1> QED BY <1>1, ScrollKept, ViewAtHand, OtherKeys

(* Enter and Esc.                                                          *)
LEMMA ViewKeys ==
  ScreenInv /\ (switch_to_detail_view \/ switch_to_list_view) => ScreenInv'
<1> SUFFICES ASSUME ScreenInv, switch_to_detail_view \/ switch_to_list_view PROVE ScreenInv'
  OBVIOUS
<1>1. frame' = <<>> /\ UNCHANGED <<processed_queries, listVars, copyVars, scroll, scrolled>>
  BY DEF switch_to_detail_view, switch_to_list_view, Key, InList, InDetail, cacheVars
<1>2. CASE switch_to_list_view
  <2>1. view_mode' = <<>> BY <1>2 DEF switch_to_list_view
  <2> QED BY <2>1, <1>1, ScrollKept, OtherKeys
<1>3. CASE switch_to_detail_view
  <2> DEFINE view == [fingerprint |-> Selected, tab |-> "Statistics", analysis_scroll |-> 0,
                      status |-> "Delayed"]
  <2>1. IsSelection /\ view_mode' = <<view>> BY <1>3 DEF switch_to_detail_view
  <2>2. Selected \in DOMAIN processed_queries
    <3>1. get_unique_query_count = count /\ count \in Nat
      BY RowsCount, CountIsNat DEF ScreenInv, ScreenTypes
    <3>2. selected_query_index + 1 \in 1 .. count
      BY <2>1, <3>1 DEF IsSelection, ScreenInv, ScreenTypes
    <3> QED BY <3>2 DEF Selected, ScreenInv, RowsAreQueries, NamesEach
  <2>3. view \in Views /\ view.fingerprint = Selected BY <2>2, ResultsAssumption DEF Views
  <2> HIDE DEF view
  <2> QED BY <2>1, <2>3, <1>1, ScrollKept, OtherKeys
<1> QED BY <1>2, <1>3

(* A scroll position is a number.                                          *)
LEMMA ScrolledIsInt ==
  ASSUME NEW at \in Int, NEW lines \in Int
  PROVE  Scrolled(at, lines) \in Int
  BY ResultsAssumption DEF Scrolled

(* The tabs of a detail view and its scrolling.                            *)
LEMMA DetailKeys ==
  ASSUME ScreenInv
  PROVE  /\ \A t \in Tabs : select_tab(t) => ScreenInv'
         /\ \A lines \in Int : scroll_analysis(lines) => ScreenInv'
<1>1. ASSUME NEW new, DetailKey(new),
             \A view \in Views : view_mode = <<view>> =>
                new \in Views /\ new.fingerprint = view.fingerprint
      PROVE  ScreenInv'
  <2>1. /\ view_mode # <<>> /\ view_mode' = <<new>> /\ frame' = <<>>
        /\ UNCHANGED <<processed_queries, listVars, copyVars, scroll, scrolled>>
    BY <1>1 DEF DetailKey, InDetail, Key
  <2> QED BY <1>1, <2>1, ViewAtHand, ScrollKept, OtherKeys
<1>2. ASSUME NEW t \in Tabs, select_tab(t) PROVE ScreenInv'
  <2> DEFINE new == [view_mode[1] EXCEPT !.tab = t]
  <2>1. \A view \in Views : view_mode = <<view>> =>
          new \in Views /\ new.fingerprint = view.fingerprint
    BY DEF Views
  <2>2. DetailKey(new) BY <1>2 DEF select_tab
  <2> HIDE DEF new
  <2> QED BY <2>1, <2>2, <1>1
<1>3. ASSUME NEW lines \in Int, scroll_analysis(lines) PROVE ScreenInv'
  <2> DEFINE new == [view_mode[1] EXCEPT !.analysis_scroll = Scrolled(@, lines)]
  <2>1. \A view \in Views : view_mode = <<view>> =>
          new \in Views /\ new.fingerprint = view.fingerprint
    BY ScrolledIsInt DEF Views
  <2>2. DetailKey(new) BY <1>3 DEF scroll_analysis
  <2> HIDE DEF new
  <2> QED BY <2>1, <2>2, <1>1
<1> QED BY <1>2, <1>3

(* A scroll position is of the query that is selected.                     *)
LEMMA ScrollKeys ==
  ASSUME ScreenInv, NEW field \in {"query", "plan", "horizontal"}, NEW lines \in Int,
         InList, ScrollBy(field, lines)
  PROVE  ScreenInv'
<1>1. /\ frame' = <<>> /\ view_mode' = view_mode
      /\ scrolled' = AtHand
      /\ UNCHANGED <<processed_queries, listVars, copyVars>>
  BY DEF ScrollBy, InList, Key, AtHand
<1>2. ScrolledIsSelected'
  BY <1>1 DEF ScrolledIsSelected, AtHand, IsSelection, Selected, get_unique_query_count, listVars
<1> QED BY <1>1, <1>2, ViewAtHand, OtherKeys

(* What is copied is what the panes of the frame are of.                   *)
LEMMA CopyKey == ScreenInv /\ copy => ScreenInv'
<1> SUFFICES ASSUME ScreenInv, copy PROVE ScreenInv' OBVIOUS
<1>1. /\ frame # <<>> /\ frame' = <<>> /\ view_mode' = view_mode
      /\ UNCHANGED <<processed_queries, listVars, scroll, scrolled>>
  BY DEF copy, copy_with_feedback, InList, InDetail, Key
<1>2. frame[1].of = AtHand BY <1>1 DEF ScreenInv, FrameIsAtHand
<1>3. \/ clipboard' = AtHand /\ shown' = AtHand
      \/ UNCHANGED copyVars
  <2>1. CASE InList /\ IsSelection /\ copy_with_feedback(<<Selected>>)
    BY <1>2, <2>1 DEF copy_with_feedback, AtHand
  <2>2. CASE InDetail /\ copy_with_feedback(<<view_mode[1].fingerprint>>)
    BY <1>2, <2>2 DEF copy_with_feedback, AtHand, InDetail, ScreenInv, DetailsAreSelected
  <2> QED BY <2>1, <2>2 DEF copy
<1>4. clipboard' = shown' BY <1>3 DEF ScreenInv, copyVars
<1>5. Views' = Views /\ IsSelection' = IsSelection /\ Selected' = Selected
      /\ RowsAreQueries' = RowsAreQueries
  BY <1>1 DEF Views, listVars, IsSelection, Selected, get_unique_query_count, count,
              RowsAreQueries, NamesEach, RowsInOrder, SortsBefore, NormalizedQuery
<1>6. ScreenTypes' BY <1>1, <1>5 DEF ScreenInv, ScreenTypes, listVars
<1>7. DetailsAreSelected' BY <1>1, <1>5 DEF ScreenInv, DetailsAreSelected
<1> QED BY <1>1, <1>4, <1>5, <1>6, <1>7, ScrollKept DEF ScreenInv, FrameIsAtHand

(* Moving to another row, or sorting, which selects the first one, starts  *)
(* every pane from the top.                                                *)
LEMMA MovingKeys ==
  ASSUME ScreenInv, frame' = <<>>, view_mode = <<>>, view_mode' = <<>>,
         UNCHANGED <<processed_queries, copyVars, scrolled>>,
         scroll' = NoScroll \/ UNCHANGED <<listVars, scroll>>,
         RowsAreQueries', sort_state' \in SortStates, selected_query_index' \in Nat
  PROVE  ScreenInv'
<1>1. ScreenTypes' BY DEF ScreenInv, ScreenTypes
<1>2. ScrolledIsSelected' BY ScrollKept DEF ScrolledIsSelected
<1> QED BY <1>1, <1>2 DEF ScreenInv, DetailsAreSelected, FrameIsAtHand, copyVars

(* Up and Down.                                                            *)
LEMMA SelectKeys ==
  ASSUME ScreenInv, NEW step \in Int, select(step)
  PROVE  ScreenInv'
<1>1. /\ frame' = <<>> /\ view_mode = <<>> /\ view_mode' = <<>>
      /\ selected_query_index' = Moved(step)
      /\ scroll' = IF Moved(step) = selected_query_index THEN scroll ELSE NoScroll
      /\ UNCHANGED <<processed_queries, sorted_query_fingerprints, sort_state, copyVars, scrolled>>
  BY DEF select, InList, Key
<1>2. Moved(step) \in Nat BY DEF Moved, ScreenInv, ScreenTypes
<1>3. RowsAreQueries'
  BY <1>1 DEF ScreenInv, RowsAreQueries, NamesEach, RowsInOrder, SortsBefore, NormalizedQuery,
              count
<1>4. scroll' = NoScroll \/ UNCHANGED <<listVars, scroll>> BY <1>1 DEF listVars
<1>5. sort_state' \in SortStates BY <1>1 DEF ScreenInv, ScreenTypes
<1> QED BY <1>1, <1>2, <1>3, <1>4, <1>5, MovingKeys

(* c, m, n, x and s.                                                       *)
LEMMA SortKeys ==
  ASSUME ScreenInv, NEW order \in Orders, sort_by(order)
  PROVE  ScreenInv'
<1>1. /\ frame' = <<>> /\ view_mode = <<>> /\ view_mode' = <<>>
      /\ sort_state' = toggle(order) /\ selected_query_index' = 0 /\ scroll' = NoScroll
      /\ sorted_query_fingerprints'
           = sort_processed_queries(sorted_query_fingerprints, toggle(order))
      /\ UNCHANGED <<processed_queries, copyVars, scrolled>>
  BY DEF sort_by, InList, Key
<1>2. toggle(order) \in SortStates BY DEF toggle, SortStates, ScreenInv, ScreenTypes
<1>3. processed_queries \in Results /\ count \in Nat
      /\ NamesEach(sorted_query_fingerprints, count)
  BY CountIsNat DEF ScreenInv, ScreenTypes, RowsAreQueries
<1> DEFINE new == sort_processed_queries(sorted_query_fingerprints, toggle(order))
<1>4. NamesEach(new, count) /\ RowsInOrder(new, count, toggle(order))
  BY <1>2, <1>3, SortReorders
<1>5. RowsAreQueries'
  <2> HIDE DEF new
  <2>1. sorted_query_fingerprints' = new /\ sort_state' = toggle(order) BY <1>1 DEF new
  <2>2. count' = count BY <1>1 DEF count
  <2> QED BY <1>1, <1>4, <2>1, <2>2
          DEF RowsAreQueries, NamesEach, RowsInOrder, SortsBefore, NormalizedQuery
<1> QED BY <1>1, <1>2, <1>5, MovingKeys

(* Every frame and every key.                                              *)
LEMMA ScreenStep == ScreenInv /\ [ScreenNext]_screenVars => ScreenInv'
<1> SUFFICES ASSUME ScreenInv, [ScreenNext]_screenVars PROVE ScreenInv' OBVIOUS
<1>1. CASE UNCHANGED screenVars
  BY <1>1 DEF screenVars, listVars, cacheVars, copyVars, ScreenInv, ScreenTypes, Views,
              RowsAreQueries, NamesEach, RowsInOrder, SortsBefore, NormalizedQuery, count,
              DetailsAreSelected, FrameIsAtHand, ScrolledIsSelected, IsSelection, Selected,
              AtHand, get_unique_query_count, render_queries_table
<1>2. ASSUME NEW lines \in {-5, -1, 1, 5}, scroll_pane(lines) PROVE ScreenInv'
  BY <1>2, ScrollKeys DEF scroll_pane
<1>3. ASSUME NEW columns \in {-1, 1}, scroll_sideways(columns) PROVE ScreenInv'
  BY <1>3, ScrollKeys DEF scroll_sideways
<1>4. ASSUME NEW lines \in {-10, -1, 1, 10}, scroll_analysis(lines) PROVE ScreenInv'
  BY <1>4, DetailKeys
<1>5. ASSUME NEW step \in {-1, 1}, select(step) PROVE ScreenInv' BY <1>5, SelectKeys
<1> QED BY <1>1, <1>2, <1>3, <1>4, <1>5, ListDrawn, DetailDrawn, PlainKeys, ViewKeys, CopyKey,
           SortKeys, DetailKeys
        DEF ScreenNext

(* The results screen (results_state.rs, query_detail_view.rs): for any    *)
(* results, however they are sorted, selected, scrolled and opened, what   *)
(* is shown in one frame, and copied from it, is of one query.             *)
THEOREM PanesAgree == ScreenSpec => []ScreenIsOfOneQuery
<1>1. ScreenInv => ScreenIsOfOneQuery
  <2> SUFFICES ASSUME ScreenInv PROVE ScreenIsOfOneQuery OBVIOUS
  <2>1. DOMAIN sorted_query_fingerprints = 1 .. count
    BY DEF ScreenInv, RowsAreQueries, NamesEach
  <2>2. ASSUME NEW i \in DOMAIN frame
        PROVE  /\ frame[i].plan = frame[i].of
               /\ frame[i].row > 0 => frame[i].of = <<sorted_query_fingerprints[frame[i].row]>>
               /\ view_mode # <<>> => IsSelection /\ frame[i].of = <<Selected>>
    <3>1. frame # <<>> BY <2>2
    <3>2. /\ frame[i].of = AtHand /\ frame[i].plan = AtHand
          /\ frame[i].row = IF view_mode = <<>> THEN render_queries_table ELSE 0
      BY <2>2, <3>1 DEF ScreenInv, FrameIsAtHand
    <3>3. frame[i].row > 0 => IsSelection /\ frame[i].row = selected_query_index + 1
      BY <3>2 DEF render_queries_table
    <3> QED BY <3>2, <3>3 DEF AtHand, Selected, ScreenInv, DetailsAreSelected
  <2>3. {sorted_query_fingerprints[i] : i \in DOMAIN sorted_query_fingerprints}
          = DOMAIN processed_queries
    <3> DEFINE fs == sorted_query_fingerprints
    <3>1. /\ \A i \in DOMAIN fs : fs[i] \in DOMAIN processed_queries
          /\ \A f \in DOMAIN processed_queries : \E i \in DOMAIN fs : fs[i] = f
      BY <2>1 DEF ScreenInv, RowsAreQueries, NamesEach
    <3> QED BY <3>1, Zenon
  <2>4. \A i, j \in DOMAIN sorted_query_fingerprints :
          SortsBefore(sort_state, sorted_query_fingerprints[i], sorted_query_fingerprints[j])
            => i < j
    BY <2>1 DEF ScreenInv, RowsAreQueries, RowsInOrder
  <2> QED BY <2>2, <2>3, <2>4 DEF ScreenIsOfOneQuery, ScreenInv, ScrolledIsSelected
<1> QED BY ScreenInitially, ScreenStep, <1>1, PTL DEF ScreenSpec
=============================================================================
