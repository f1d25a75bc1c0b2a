---------------------------- MODULE DashboardProofs ----------------------------
(***************************************************************************)
(* Proofs about Dashboard, for any authors, window, startup schedule and   *)
(* bounds: first that a finite set of ids can be sorted, then what a       *)
(* snapshot that is built from two results shows, then the invariant.      *)
(***************************************************************************)
EXTENDS Dashboard, FiniteSetTheorems, SequenceTheorems, WellFoundedInduction, TLAPS

-----------------------------------------------------------------------------
(* Sorting.                                                                *)

\* Induction, for a set of numbers.
LEMMA AllNumbers ==
  ASSUME NEW T \in SUBSET Nat, 0 \in T, \A n \in T : n + 1 \in T
  PROVE  Nat \subseteq T
<1> SUFFICES ASSUME Nat \ T # {} PROVE FALSE
    OBVIOUS
<1>1. PICK m \in Nat \ T : \A y \in Nat \ T : <<y, m>> \notin OpToRel(<, Nat)
      BY NatLessThanWellFounded, WFMin
<1>2. m # 0 /\ m - 1 \in Nat /\ m - 1 < m
      OBVIOUS
<1>3. <<m - 1, m>> \in OpToRel(<, Nat)
      BY <1>2 DEF OpToRel
<1>4. m - 1 \in T
      BY <1>1, <1>2, <1>3
<1>5. (m - 1) + 1 = m
      BY <1>2
<1>6. QED BY <1>4, <1>5

\* A finite set of integers that is not empty has a greatest one.
LEMMA GreatestOf ==
  ASSUME NEW S \in SUBSET Int, IsFiniteSet(S), S # {}
  PROVE  \E m \in S : \A x \in S : x <= m
<1> DEFINE HasGreatest(R) == \E m \in R : \A x \in R : x <= m
           T == {n \in Nat : \A R \in SUBSET Int :
                   IsFiniteSet(R) /\ Cardinality(R) = n + 1 => HasGreatest(R)}
<1>1. 0 \in T
  <2> SUFFICES ASSUME NEW R \in SUBSET Int, IsFiniteSet(R), Cardinality(R) = 1
               PROVE  HasGreatest(R)
      OBVIOUS
  <2>1. PICK x : R = {x}
        BY FS_Singleton
  <2>2. QED BY <2>1
<1>2. ASSUME NEW n \in T PROVE n + 1 \in T
  <2> SUFFICES ASSUME NEW R \in SUBSET Int, IsFiniteSet(R), Cardinality(R) = (n + 1) + 1
               PROVE  HasGreatest(R)
      OBVIOUS
  <2>1. R # {}
        BY FS_EmptySet
  <2>2. PICK y \in R : TRUE
        BY <2>1
  <2>3. R \ {y} \in SUBSET Int /\ IsFiniteSet(R \ {y}) /\ Cardinality(R \ {y}) = n + 1
        BY FS_RemoveElement
  <2>4. PICK m \in R \ {y} : \A x \in R \ {y} : x <= m
        BY <2>3
  <2>5. CASE y <= m
        BY <2>4, <2>5
  <2>6. CASE m <= y
        BY <2>4, <2>6
  <2>7. QED BY <2>5, <2>6
<1> HIDE DEF HasGreatest
<1>3. Nat \subseteq T
      BY <1>1, <1>2, AllNumbers
<1>4. Cardinality(S) \in Nat /\ Cardinality(S) # 0
      BY FS_CardinalityType, FS_EmptySet
<1>5. PICK n \in Nat : Cardinality(S) = n + 1
  <2>1. Cardinality(S) - 1 \in Nat /\ Cardinality(S) = (Cardinality(S) - 1) + 1
        BY <1>4
  <2>2. QED BY <2>1
<1>6. HasGreatest(S)
      BY <1>3, <1>5
<1>7. QED BY <1>6 DEF HasGreatest

Ascending(s, n) == \A i, j \in 1..n : i < j => s[i] < s[j]

LEMMA Sortable ==
  ASSUME NEW S \in SUBSET Int, IsFiniteSet(S)
  PROVE  \E s \in [1..Cardinality(S) -> S] : Ascending(s, Cardinality(S))
<1> DEFINE CanSort(R, n) == \E s \in [1..n -> R] : Ascending(s, n)
           T == {n \in Nat : \A R \in SUBSET Int :
                   IsFiniteSet(R) /\ Cardinality(R) = n => CanSort(R, n)}
<1>1. 0 \in T
  <2> SUFFICES ASSUME NEW R \in SUBSET Int PROVE CanSort(R, 0)
      OBVIOUS
  <2>1. [i \in 1..0 |-> i] \in [1..0 -> R] /\ Ascending([i \in 1..0 |-> i], 0)
        BY DEF Ascending
  <2>2. QED BY <2>1
<1>2. ASSUME NEW n \in T PROVE n + 1 \in T
  <2> SUFFICES ASSUME NEW R \in SUBSET Int, IsFiniteSet(R), Cardinality(R) = n + 1
               PROVE  CanSort(R, n + 1)
      OBVIOUS
  <2>1. R # {}
        BY FS_EmptySet
  <2>2. PICK m \in R : \A x \in R : x <= m
        BY <2>1, GreatestOf
  <2>3. R \ {m} \in SUBSET Int /\ IsFiniteSet(R \ {m}) /\ Cardinality(R \ {m}) = n
        BY FS_RemoveElement
  <2>4. PICK s \in [1..n -> R \ {m}] : Ascending(s, n)
        BY <2>3
  <2> DEFINE t == [i \in 1..(n + 1) |-> IF i <= n THEN s[i] ELSE m]
  <2>5. t \in [1..(n + 1) -> R]
    <3>1. ASSUME NEW i \in 1..(n + 1), i <= n PROVE s[i] \in R
          BY <3>1
    <3>2. QED BY <3>1
  <2>6. Ascending(t, n + 1)
    <3> SUFFICES ASSUME NEW i \in 1..(n + 1), NEW j \in 1..(n + 1), i < j
                 PROVE  t[i] < t[j]
        BY DEF Ascending
    <3>1. i \in 1..n /\ t[i] = s[i] /\ s[i] \in R \ {m}
          OBVIOUS
    <3>2. CASE j <= n
      <4>1. j \in 1..n /\ t[j] = s[j]
            BY <3>2
      <4>2. QED BY <4>1, <3>1, <2>4 DEF Ascending
    <3>3. CASE j = n + 1
      <4>1. t[j] = m
            BY <3>3
      <4>2. s[i] <= m /\ s[i] # m /\ s[i] \in Int /\ m \in Int
            BY <3>1, <2>2
      <4>3. QED BY <4>1, <4>2, <3>1
    <3>4. QED BY <3>2, <3>3
  <2> HIDE DEF t
  <2>7. QED BY <2>5, <2>6
<1> HIDE DEF CanSort
<1>3. Nat \subseteq T
      BY <1>1, <1>2, AllNumbers
<1>4. Cardinality(S) \in Nat
      BY FS_CardinalityType
<1>5. CanSort(S, Cardinality(S))
      BY <1>3, <1>4
<1>6. QED BY <1>5 DEF CanSort

\* The order of the rows: a sequence of the ids, each once, in their order.
LEMMA SortedIds ==
  ASSUME NEW S \in SUBSET AuthorIds
  PROVE  /\ Sorted(S) \in Seq(S)
         /\ \A i, j \in DOMAIN Sorted(S) : i < j => Sorted(S)[i] < Sorted(S)[j]
<1>1. S \in SUBSET Int /\ IsFiniteSet(S)
      BY DashboardAssumption, FS_Subset
<1>2. Cardinality(S) \in Nat
      BY <1>1, FS_CardinalityType
<1>3. PICK s \in [1..Cardinality(S) -> S] : \A i, j \in DOMAIN s : i < j => s[i] < s[j]
  <2>1. PICK s \in [1..Cardinality(S) -> S] : Ascending(s, Cardinality(S))
        BY <1>1, Sortable
  <2>2. DOMAIN s = 1..Cardinality(S)
        OBVIOUS
  <2>3. QED BY <2>1, <2>2 DEF Ascending
<1>4. /\ Sorted(S) \in [1..Cardinality(S) -> S]
      /\ \A i, j \in DOMAIN Sorted(S) : i < j => Sorted(S)[i] < Sorted(S)[j]
      BY <1>3 DEF Sorted
<1>5. QED BY <1>2, <1>4

-----------------------------------------------------------------------------
(* What a snapshot shows.                                                  *)

OneRowPerKey(rows) == \A q, r \in rows : q.author = r.author /\ q.date = r.date => q = r

Has(rows, a, d) == \E r \in rows : r.author = a /\ r.date = d
\* What rows say of an author and a day.
Value(rows, a, d) ==
  IF Has(rows, a, d) THEN (CHOOSE r \in rows : r.author = a /\ r.date = d).count ELSE 0

LEMMA ValueType ==
  ASSUME NEW rows \in SUBSET Rows, NEW a, NEW d
  PROVE  Value(rows, a, d) \in 0..MaxCount
<1>1. MaxCount \in Nat
      BY DashboardAssumption
<1>2. CASE Has(rows, a, d)
  <2>1. (CHOOSE r \in rows : r.author = a /\ r.date = d) \in rows
        BY <1>2 DEF Has
  <2>2. (CHOOSE r \in rows : r.author = a /\ r.date = d).count \in 1..MaxCount
        BY <2>1 DEF Rows
  <2>3. QED BY <1>1, <1>2, <2>2 DEF Value
<1>3. QED BY <1>1, <1>2 DEF Value

LEMMA ValueOf ==
  ASSUME NEW rows \in SUBSET Rows, OneRowPerKey(rows), NEW r \in rows
  PROVE  Value(rows, r.author, r.date) = r.count
BY DEF Value, Has, OneRowPerKey

LEMMA ValueFrom ==
  ASSUME NEW rows \in SUBSET Rows, NEW a, NEW d, Value(rows, a, d) # 0
  PROVE  \E r \in rows : r.author = a /\ r.date = d /\ r.count = Value(rows, a, d)
BY DEF Value, Has

\* The index of the counts, looked up: all rows of an author and a day are
\* found there, and no others'.
LEMMA Indexed ==
  ASSUME NEW rows \in SUBSET Rows, NEW a, NEW d
  PROVE  (IF a \in DOMAIN IndexClicks(rows) /\ d \in DOMAIN IndexClicks(rows)[a]
          THEN IndexClicks(rows)[a][d] ELSE 0) = Value(rows, a, d)
<1>1. DOMAIN IndexClicks(rows) = {r.author : r \in rows}
      BY DEF IndexClicks
<1>2. CASE a \notin {r.author : r \in rows}
      BY <1>1, <1>2 DEF Value, Has
<1>3. CASE a \in {r.author : r \in rows}
  <2>1. IndexClicks(rows)[a] = [e \in {r.date : r \in {x \in rows : x.author = a}} |->
                                  (CHOOSE r \in rows : r.author = a /\ r.date = e).count]
        BY <1>3 DEF IndexClicks
  <2>2. DOMAIN IndexClicks(rows)[a] = {r.date : r \in {x \in rows : x.author = a}}
        BY <2>1
  <2>3. d \in DOMAIN IndexClicks(rows)[a] <=> Has(rows, a, d)
        BY <2>2 DEF Has
  <2>4. Has(rows, a, d) => IndexClicks(rows)[a][d] = (CHOOSE r \in rows : r.author = a /\ r.date = d).count
        BY <2>1, <2>2, <2>3
  <2>5. QED BY <1>1, <1>3, <2>3, <2>4 DEF Value
<1>4. QED BY <1>2, <1>3

LEMMA Columns ==
  ASSUME NEW newest \in Nat
  PROVE  /\ DateRange(newest) \in Seq(Int)
         /\ DOMAIN DateRange(newest) = 1..MaxDays /\ Len(DateRange(newest)) = MaxDays
         /\ \A j \in 1..MaxDays : /\ DateRange(newest)[j] = newest - (j - 1)
                                  /\ DateRange(newest)[j] \in From(newest)..newest
<1>1. MaxDays \in Nat \ {0} /\ newest - From(newest) + 1 = MaxDays
      BY DashboardAssumption DEF From
<1>2. DateRange(newest) = [j \in 1..MaxDays |-> newest - (j - 1)]
      BY <1>1 DEF DateRange
<1>3. ASSUME NEW j \in 1..MaxDays
      PROVE  newest - (j - 1) \in Int /\ newest - (j - 1) \in From(newest)..newest
      BY <1>1 DEF From
<1>4. QED BY <1>1, <1>2, <1>3

\* The shape of a table for the page: MaxDays columns, the newest day first,
\* one row per author in the order of ids.
Shape(snap, newest) ==
  /\ snap \in Snapshots
  /\ snap.dates = DateRange(newest)
  /\ \A i \in DOMAIN snap.rows : Len(snap.rows[i].clicks) = MaxDays
  /\ \A i, k \in DOMAIN snap.rows : i < k => snap.rows[i].id < snap.rows[k].id

LEMMA Built ==
  ASSUME NEW ids \in SUBSET AuthorIds, NEW rows \in SUBSET Rows, NEW newest \in Nat
  PROVE  LET snap == BuildSnapshot(ids, rows, newest)
         IN /\ Shape(snap, newest)
            /\ \A i \in DOMAIN snap.rows, j \in DOMAIN snap.dates :
                 snap.rows[i].clicks[j] = Value(rows, snap.rows[i].id, snap.dates[j])
<1> DEFINE clicks == IndexClicks(rows)
           dates  == DateRange(newest)
           order  == ResolveAuthors(ids, clicks)
           snap   == BuildSnapshot(ids, rows, newest)
           Cell(i, j) == IF order[i] \in DOMAIN clicks /\ dates[j] \in DOMAIN clicks[order[i]]
                         THEN clicks[order[i]][dates[j]] ELSE 0
<1>1. /\ order \in Seq(AuthorIds)
      /\ \A i, k \in DOMAIN order : i < k => order[i] < order[k]
  <2>1. ids \cup DOMAIN clicks \in SUBSET AuthorIds
        BY DEF IndexClicks, Rows
  <2>2. order \in Seq(ids \cup DOMAIN clicks)
        BY <2>1, SortedIds DEF ResolveAuthors
  <2>3. QED BY <2>1, <2>2, SortedIds DEF ResolveAuthors
<1>2. dates \in Seq(Int) /\ DOMAIN dates = 1..MaxDays
      BY Columns
<1>3. snap = [dates |-> dates,
              rows  |-> [i \in DOMAIN order |->
                           [id |-> order[i], clicks |-> [j \in DOMAIN dates |-> Cell(i, j)]]]]
      BY DEF BuildSnapshot, BuildRows
<1>4. ASSUME NEW i \in DOMAIN order, NEW j \in DOMAIN dates
      PROVE  Cell(i, j) = Value(rows, order[i], dates[j]) /\ Cell(i, j) \in 0..MaxCount
      BY Indexed, ValueType
<1> HIDE DEF clicks, dates, order, snap, Cell
<1>5. /\ snap.dates = dates /\ DOMAIN snap.rows = DOMAIN order
      /\ \A i \in DOMAIN order : /\ snap.rows[i].id = order[i]
                                 /\ snap.rows[i].clicks = [j \in DOMAIN dates |-> Cell(i, j)]
      BY <1>3
<1>6. MaxDays \in Nat
      BY DashboardAssumption
<1>7. ASSUME NEW i \in DOMAIN order
      PROVE  /\ [j \in DOMAIN dates |-> Cell(i, j)] \in Seq(0..MaxCount)
             /\ Len([j \in DOMAIN dates |-> Cell(i, j)]) = MaxDays
             /\ order[i] \in AuthorIds
      BY <1>1, <1>2, <1>4, <1>6
<1>8. snap \in Snapshots
  <2>1. ASSUME NEW i \in DOMAIN order
        PROVE  [id |-> order[i], clicks |-> [j \in DOMAIN dates |-> Cell(i, j)]]
                 \in [id : AuthorIds, clicks : Seq(0..MaxCount)]
        BY <1>7
  <2> DEFINE table_rows == [i \in DOMAIN order |->
                       [id |-> order[i], clicks |-> [j \in DOMAIN dates |-> Cell(i, j)]]]
  <2>2. PICK n \in Nat : DOMAIN order = 1..n
        BY <1>1
  <2>3. table_rows \in Seq([id : AuthorIds, clicks : Seq(0..MaxCount)])
        BY <2>1, <2>2
  <2> HIDE DEF table_rows
  <2>4. snap = [dates |-> dates, rows |-> table_rows]
        BY <1>3 DEF table_rows
  <2>5. QED BY <1>2, <2>3, <2>4 DEF Snapshots
<1>9. Shape(snap, newest)
  <2>1. ASSUME NEW i \in DOMAIN snap.rows PROVE Len(snap.rows[i].clicks) = MaxDays
    <3>1. i \in DOMAIN order
          BY <1>5
    <3>2. snap.rows[i].clicks = [x \in DOMAIN dates |-> Cell(i, x)]
          BY <3>1, <1>5
    <3>3. QED BY <3>1, <3>2, <1>7
  <2>2. ASSUME NEW i \in DOMAIN snap.rows, NEW k \in DOMAIN snap.rows, i < k
        PROVE  snap.rows[i].id < snap.rows[k].id
    <3>1. i \in DOMAIN order /\ k \in DOMAIN order
          BY <1>5
    <3>2. snap.rows[i].id = order[i] /\ snap.rows[k].id = order[k]
          BY <3>1, <1>5
    <3>3. QED BY <3>1, <3>2, <2>2, <1>1
  <2>3. QED BY <1>5, <1>8, <2>1, <2>2 DEF Shape, dates
<1>10. ASSUME NEW i \in DOMAIN snap.rows, NEW j \in DOMAIN snap.dates
       PROVE  snap.rows[i].clicks[j] = Value(rows, snap.rows[i].id, snap.dates[j])
  <2>1. i \in DOMAIN order /\ j \in DOMAIN dates
        BY <1>5
  <2>2. snap.rows[i].clicks = [x \in DOMAIN dates |-> Cell(i, x)] /\ snap.rows[i].id = order[i]
        BY <2>1, <1>5
  <2>3. snap.rows[i].clicks[j] = Cell(i, j)
        BY <2>1, <2>2
  <2>4. QED BY <2>1, <2>2, <2>3, <1>4, <1>5
<1>11. QED BY <1>9, <1>10 DEF snap

LEMMA Element ==
  ASSUME NEW S, NEW s \in Seq(S), NEW i \in DOMAIN s
  PROVE  s[i] \in S
OBVIOUS

\* The cell that a snapshot shows for an author and a day is one of its cells.
LEMMA ShownCell ==
  ASSUME NEW newest \in Nat, NEW snap, Shape(snap, newest), NEW c \in Cells(snap)
  PROVE  /\ c = <<c[1], c[2]>> /\ c[1] \in AuthorIds /\ c[2] \in From(newest)..newest /\ c[2] \in Int
         /\ \E i \in DOMAIN snap.rows, j \in DOMAIN snap.dates :
              /\ snap.rows[i].id = c[1] /\ snap.dates[j] = c[2]
              /\ Shown(snap, c[1], c[2]) = snap.rows[i].clicks[j]
         /\ Shown(snap, c[1], c[2]) \in 0..MaxCount
<1> DEFINE i == CHOOSE x \in DOMAIN snap.rows : snap.rows[x].id = c[1]
           j == CHOOSE x \in DOMAIN snap.dates : snap.dates[x] = c[2]
<1>1. PICK i0 \in DOMAIN snap.rows, j0 \in DOMAIN snap.dates :
        c = <<snap.rows[i0].id, snap.dates[j0]>>
      BY DEF Cells
<1>2. /\ snap.rows \in Seq([id : AuthorIds, clicks : Seq(0..MaxCount)])
      /\ snap.dates = DateRange(newest)
      BY DEF Shape, Snapshots
<1>3. DOMAIN snap.dates = 1..MaxDays /\ \A x \in 1..MaxDays : snap.dates[x] \in From(newest)..newest
      BY <1>2, Columns
<1>4. /\ c = <<c[1], c[2]>> /\ c[1] = snap.rows[i0].id /\ c[2] = snap.dates[j0]
      BY <1>1
<1>5. c[1] \in AuthorIds
  <2>1. snap.rows[i0] \in [id : AuthorIds, clicks : Seq(0..MaxCount)]
        BY <1>2, Element
  <2>2. QED BY <2>1, <1>4
<1>6. c[2] \in From(newest)..newest /\ c[2] \in Int
      BY <1>3, <1>4, DashboardAssumption DEF From
<1>7. /\ i \in DOMAIN snap.rows /\ snap.rows[i].id = c[1]
      /\ j \in DOMAIN snap.dates /\ snap.dates[j] = c[2]
      BY <1>4
<1>8. Shown(snap, c[1], c[2]) = snap.rows[i].clicks[j]
      BY DEF Shown
<1> HIDE DEF i, j
<1>9. snap.rows[i].clicks[j] \in 0..MaxCount
  <2>1. snap.rows[i] \in [id : AuthorIds, clicks : Seq(0..MaxCount)]
        BY <1>2, <1>7, Element
  <2>2. snap.rows[i].clicks \in Seq(0..MaxCount) /\ Len(snap.rows[i].clicks) = MaxDays
        BY <2>1, <1>7 DEF Shape
  <2>3. QED BY <2>2, <1>3, <1>7, DashboardAssumption
<1>10. QED BY <1>4, <1>5, <1>6, <1>7, <1>8, <1>9

LEMMA BuiltShows ==
  ASSUME NEW ids \in SUBSET AuthorIds, NEW rows \in SUBSET Rows, NEW newest \in Nat,
         NEW c \in Cells(BuildSnapshot(ids, rows, newest))
  PROVE  Shown(BuildSnapshot(ids, rows, newest), c[1], c[2]) = Value(rows, c[1], c[2])
<1> DEFINE snap == BuildSnapshot(ids, rows, newest)
<1>1. /\ Shape(snap, newest)
      /\ \A i \in DOMAIN snap.rows, j \in DOMAIN snap.dates :
           snap.rows[i].clicks[j] = Value(rows, snap.rows[i].id, snap.dates[j])
      BY Built
<1> HIDE DEF snap
<1>2. PICK i \in DOMAIN snap.rows, j \in DOMAIN snap.dates :
        /\ snap.rows[i].id = c[1] /\ snap.dates[j] = c[2]
        /\ Shown(snap, c[1], c[2]) = snap.rows[i].clicks[j]
  <2>1. c \in Cells(snap)
        BY DEF snap
  <2>2. QED BY <1>1, <2>1, ShownCell
<1>3. Shown(snap, c[1], c[2]) = Value(rows, c[1], c[2])
      BY <1>1, <1>2
<1>4. QED BY <1>3 DEF snap

-----------------------------------------------------------------------------
(* The invariant.                                                          *)

\* Between two attempts at the start there is one left.
PauseInv == phase = "pause" => attempt \in 1..StartupRetries

Read == stats \notin {Pending, Failed}

\* What was read is one row per author and day, and the table has as much.
StatsInv ==
  Read => /\ OneRowPerKey(stats)
          /\ \A r \in stats : r.count <= table[<<r.author, r.date>>]

\* What was read is no less than what is shown of the same days.
FreshInv ==
  Read => \A c \in Cells(snapshot) :
            c[2] \in From(to)..to => Shown(snapshot, c[1], c[2]) <= Value(stats, c[1], c[2])

\* The snapshot is a table for the page, of a day that has come.
SnapInv == Ready => \E newest \in Nat : newest <= now /\ Shape(snapshot, newest)

IInv == /\ TypeOK
        /\ PauseInv
        /\ to <= now
        /\ StatsInv
        /\ FreshInv
        /\ SnapInv
        /\ ShownIsStored

\* The cells of the snapshot.
LEMMA SnapshotCell ==
  ASSUME IInv, NEW c \in Cells(snapshot)
  PROVE  /\ Ready
         /\ c = <<c[1], c[2]>> /\ c[1] \in AuthorIds /\ c[2] \in Int /\ c[2] <= now
         /\ Shown(snapshot, c[1], c[2]) \in 0..MaxCount
         /\ c[2] \in Days => /\ table[c] \in 0..MaxCount
                             /\ Shown(snapshot, c[1], c[2]) <= table[c]
         /\ c[2] \notin Days => Shown(snapshot, c[1], c[2]) = 0
<1>1. Ready
      BY DEF Cells, Ready
<1>2. PICK newest \in Nat : newest <= now /\ Shape(snapshot, newest)
      BY <1>1 DEF IInv, SnapInv
<1>3. /\ c = <<c[1], c[2]>> /\ c[1] \in AuthorIds /\ c[2] \in Int
      /\ Shown(snapshot, c[1], c[2]) \in 0..MaxCount
      BY <1>2, ShownCell
<1>4. /\ c[2] <= now
      /\ Shown(snapshot, c[1], c[2]) <= IF c[2] \in Days THEN table[c] ELSE 0
      BY DEF IInv, ShownIsStored
<1>5. c[2] \in Days => table[c] \in 0..MaxCount
  <2>1. c[2] \in Days => c \in AuthorIds \X Days
        BY <1>3
  <2>2. QED BY <2>1 DEF IInv, TypeOK
<1>6. QED BY <1>1, <1>3, <1>4, <1>5, DashboardAssumption

LEMMA InitInv == Init => IInv
<1> SUFFICES ASSUME Init PROVE IInv
    OBVIOUS
<1>1. TypeOK
  <2>1. 0 \in Days /\ 0 \in 0..MaxCount /\ 0 \in 0..MaxFailures /\ 1 \in 0..(1 + StartupRetries)
        BY DashboardAssumption DEF Days
  <2>2. table \in [AuthorIds \X Days -> 0..MaxCount]
        BY <2>1 DEF Init
  <2>3. QED BY <2>1, <2>2 DEF Init, TypeOK
<1>2. PauseInv /\ StatsInv /\ FreshInv /\ to <= now
      BY DEF Init, PauseInv, StatsInv, FreshInv, Read
<1>3. SnapInv /\ ShownIsStored
      BY DEF Init, SnapInv, Ready, ShownIsStored, Cells
<1>4. QED BY <1>1, <1>2, <1>3 DEF IInv

\* What is about the tables, the results and the snapshot.
LEMMA Frame ==
  ASSUME IInv, now' = now, table' = table, to' = to, stats' = stats, snapshot' = snapshot
  PROVE  to' <= now' /\ StatsInv' /\ FreshInv' /\ SnapInv' /\ ShownIsStored'
<1>1. to' <= now' /\ StatsInv'
      BY DEF IInv, StatsInv, Read
<1>2. FreshInv'
      BY DEF IInv, FreshInv, Read, From
<1>3. SnapInv'
      BY DEF IInv, SnapInv, Ready
<1>4. ShownIsStored'
      BY DEF IInv, ShownIsStored, Days
<1>5. QED BY <1>1, <1>2, <1>3, <1>4

LEMMA SaveStep ==
  ASSUME IInv, NEW a \in AuthorIds, NEW d \in Days, NEW n \in 1..MaxCount, Save(a, d, n)
  PROVE  IInv'
<1>1. /\ now' = now /\ known' = known /\ phase' = phase /\ attempt' = attempt /\ to' = to
      /\ authors' = authors /\ stats' = stats /\ snapshot' = snapshot
      /\ cancelled' = cancelled /\ failures' = failures
      BY DEF Save, results
<1>2. /\ table' \in [AuthorIds \X Days -> 0..MaxCount]
      /\ \A k \in AuthorIds \X Days : table[k] <= table'[k] /\ table[k] \in 0..MaxCount
  <2>1. table \in [AuthorIds \X Days -> 0..MaxCount] /\ <<a, d>> \in AuthorIds \X Days
        BY DEF IInv, TypeOK
  <2>2. /\ table' = [table EXCEPT ![<<a, d>>] = n] /\ n \in 0..MaxCount
        /\ table[<<a, d>>] < n
        BY DashboardAssumption DEF Save
  <2>3. table' \in [AuthorIds \X Days -> 0..MaxCount]
        BY <2>1, <2>2
  <2>4. ASSUME NEW k \in AuthorIds \X Days
        PROVE  table[k] <= table'[k] /\ table[k] \in 0..MaxCount
    <3>1. table[k] \in 0..MaxCount
          BY <2>1
    <3>2. table'[k] = IF k = <<a, d>> THEN n ELSE table[k]
          BY <2>1, <2>2
    <3>3. QED BY <3>1, <3>2, <2>2, DashboardAssumption
  <2>5. QED BY <2>3, <2>4
<1>3. TypeOK' /\ PauseInv' /\ to' <= now'
      BY <1>1, <1>2 DEF IInv, TypeOK, PauseInv
<1>4. StatsInv'
  <2> SUFFICES ASSUME Read, NEW r \in stats
               PROVE  r.count <= table'[<<r.author, r.date>>]
      BY <1>1 DEF IInv, StatsInv, Read
  <2>1. r \in Rows
        BY DEF IInv, TypeOK, Read
  <2>2. <<r.author, r.date>> \in AuthorIds \X Days /\ r.count \in 1..MaxCount
        BY <2>1 DEF Rows
  <2>3. r.count <= table[<<r.author, r.date>>]
        BY DEF IInv, StatsInv
  <2>4. /\ table[<<r.author, r.date>>] \in Int /\ table'[<<r.author, r.date>>] \in Int
        /\ table[<<r.author, r.date>>] <= table'[<<r.author, r.date>>]
        BY <1>2, <2>2
  <2>5. QED BY <2>2, <2>3, <2>4
<1>5. FreshInv' /\ SnapInv'
  <2>1. FreshInv'
        BY <1>1 DEF IInv, FreshInv, Read, From
  <2>2. SnapInv'
        BY <1>1 DEF IInv, SnapInv, Ready
  <2>3. QED BY <2>1, <2>2
<1>6. ShownIsStored'
  <2> SUFFICES ASSUME NEW c \in Cells(snapshot)
               PROVE  /\ c[2] <= now
                      /\ Shown(snapshot, c[1], c[2]) <= IF c[2] \in Days THEN table'[c] ELSE 0
      BY <1>1 DEF ShownIsStored, Days
  <2>1. CASE c[2] \in Days
    <3>1. c \in AuthorIds \X Days /\ Shown(snapshot, c[1], c[2]) \in Int
          BY <2>1, SnapshotCell
    <3>2. table[c] \in Int /\ table'[c] \in Int /\ table[c] <= table'[c]
          BY <3>1, <1>2
    <3>3. QED BY <2>1, <3>1, <3>2, SnapshotCell
  <2>2. CASE c[2] \notin Days
        BY <2>2, SnapshotCell
  <2>3. QED BY <2>1, <2>2
<1>7. QED BY <1>3, <1>4, <1>5, <1>6 DEF IInv

LEMMA MidnightStep ==
  ASSUME IInv, Midnight
  PROVE  IInv'
<1>1. /\ now \in Int /\ now' = now + 1 /\ now' \in Days /\ to \in Int
      /\ table' = table /\ known' = known /\ phase' = phase /\ attempt' = attempt /\ to' = to
      /\ authors' = authors /\ stats' = stats /\ snapshot' = snapshot
      /\ cancelled' = cancelled /\ failures' = failures
      BY DashboardAssumption DEF Midnight, results, IInv, TypeOK, Days
<1>2. TypeOK' /\ PauseInv' /\ to' <= now'
      BY <1>1 DEF IInv, TypeOK, PauseInv
<1>3. StatsInv' /\ FreshInv'
  <2>1. StatsInv'
        BY <1>1 DEF IInv, StatsInv, Read
  <2>2. FreshInv'
        BY <1>1 DEF IInv, FreshInv, Read, From
  <2>3. QED BY <2>1, <2>2
<1>4. SnapInv'
  <2> SUFFICES ASSUME Ready PROVE \E newest \in Nat : newest <= now' /\ Shape(snapshot, newest)
      BY <1>1 DEF SnapInv, Ready
  <2>1. PICK newest \in Nat : newest <= now /\ Shape(snapshot, newest)
        BY DEF IInv, SnapInv
  <2>2. newest <= now'
        BY <2>1, <1>1
  <2>3. QED BY <2>1, <2>2
<1>5. ShownIsStored'
  <2> SUFFICES ASSUME NEW c \in Cells(snapshot) PROVE c[2] <= now'
      BY <1>1 DEF IInv, ShownIsStored, Days
  <2>1. c[2] \in Int /\ c[2] <= now
        BY SnapshotCell
  <2>2. QED BY <2>1, <1>1
<1>6. QED BY <1>2, <1>3, <1>4, <1>5 DEF IInv

\* What is read from the table is a function of it.
LEMMA RowsRead ==
  ASSUME NEW from, NEW newest
  PROVE  /\ StatsRange(from, newest) \in SUBSET Rows
         /\ OneRowPerKey(StatsRange(from, newest))
         /\ \A r \in StatsRange(from, newest) :
              r.count = table[<<r.author, r.date>>] /\ r.count \in Int
<1>1. \A r \in StatsRange(from, newest) : r \in Rows /\ r.count = table[<<r.author, r.date>>]
      BY DEF StatsRange
<1>2. \A r \in Rows : r = [author |-> r.author, date |-> r.date, count |-> r.count]
      BY DEF Rows
<1>3. OneRowPerKey(StatsRange(from, newest))
  <2> SUFFICES ASSUME NEW q \in StatsRange(from, newest), NEW r \in StatsRange(from, newest),
                      q.author = r.author, q.date = r.date
               PROVE  q = r
      BY DEF OneRowPerKey
  <2>1. q.count = r.count
        BY <1>1
  <2>2. q \in Rows /\ r \in Rows
        BY <1>1
  <2>3. QED BY <2>1, <2>2 DEF Rows
<1>4. \A r \in Rows : r.count \in Int
      BY DashboardAssumption DEF Rows
<1>5. QED BY <1>1, <1>3, <1>4

LEMMA ReadAuthorsStep ==
  ASSUME IInv, ReadAuthors
  PROVE  IInv'
<1>1. /\ now' = now /\ table' = table /\ known' = known /\ phase' = phase /\ attempt' = attempt
      /\ to' = to /\ stats' = stats /\ snapshot' = snapshot /\ cancelled' = cancelled
      BY DEF ReadAuthors, tables
<1>2. authors' \in {Pending, Failed} \cup SUBSET AuthorIds
      BY DEF ReadAuthors, GetAuthors, AuthorsTable, IInv, TypeOK
<1>3. failures' \in 0..MaxFailures
      BY DashboardAssumption DEF ReadAuthors, MayFail, CountFailure, IInv, TypeOK
<1>4. TypeOK' /\ PauseInv'
      BY <1>1, <1>2, <1>3 DEF IInv, TypeOK, PauseInv
<1>5. QED BY <1>1, <1>4, Frame DEF IInv

\* The counts are read after the snapshot was published: nothing of it is more.
LEMMA ReadStatsStep ==
  ASSUME IInv, ReadStats
  PROVE  IInv'
<1>1. /\ now' = now /\ table' = table /\ known' = known /\ phase' = phase /\ attempt' = attempt
      /\ to' = to /\ authors' = authors /\ snapshot' = snapshot /\ cancelled' = cancelled
      BY DEF ReadStats, tables
<1>2. failures' \in 0..MaxFailures
      BY DashboardAssumption DEF ReadStats, MayFail, CountFailure, IInv, TypeOK
<1>3. stats' = Failed \/ stats' = StatsRange(From(to), to)
      BY DEF ReadStats, GetStatsRange
<1>4. stats' \in {Failed} \cup SUBSET Rows
      BY <1>3 DEF StatsRange
<1>5. TypeOK' /\ PauseInv' /\ to' <= now'
      BY <1>1, <1>2, <1>4 DEF IInv, TypeOK, PauseInv
<1>6. SnapInv' /\ ShownIsStored'
  <2>1. SnapInv'
        BY <1>1 DEF IInv, SnapInv, Ready
  <2>2. ShownIsStored'
        BY <1>1 DEF IInv, ShownIsStored, Days
  <2>3. QED BY <2>1, <2>2
<1>7. StatsInv'
  <2> SUFFICES ASSUME stats' = StatsRange(From(to), to)
               PROVE  /\ OneRowPerKey(stats')
                      /\ \A r \in stats' : r.count <= table[<<r.author, r.date>>]
      BY <1>1, <1>3 DEF StatsInv, Read
  <2>1. \A r \in StatsRange(From(to), to) : r.count <= table[<<r.author, r.date>>]
    <3> TAKE r \in StatsRange(From(to), to)
    <3>1. r.count = table[<<r.author, r.date>>] /\ r.count \in Int
          BY RowsRead
    <3>2. QED BY <3>1
  <2>2. QED BY <2>1, RowsRead
<1>8. FreshInv'
  <2> SUFFICES ASSUME stats' = StatsRange(From(to), to),
                      NEW c \in Cells(snapshot), c[2] \in From(to)..to
               PROVE  Shown(snapshot, c[1], c[2]) <= Value(stats', c[1], c[2])
      BY <1>1, <1>3 DEF FreshInv, Read, From
  <2> DEFINE rows == StatsRange(From(to), to)
  <2>1. rows \in SUBSET Rows
        BY DEF StatsRange
  <2>2. Value(rows, c[1], c[2]) \in Int /\ 0 <= Value(rows, c[1], c[2])
        BY <2>1, ValueType, DashboardAssumption
  <2>3. /\ c = <<c[1], c[2]>> /\ c[1] \in AuthorIds
        /\ Shown(snapshot, c[1], c[2]) \in 0..MaxCount
        BY SnapshotCell
  <2>4. CASE Shown(snapshot, c[1], c[2]) = 0
        BY <2>2, <2>4
  <2>5. CASE Shown(snapshot, c[1], c[2]) # 0
    <3>1. /\ c[2] \in Days /\ table[c] \in 0..MaxCount
          /\ Shown(snapshot, c[1], c[2]) <= table[c]
          BY <2>5, SnapshotCell
    <3>2. table[c] \in 1..MaxCount
          BY <2>3, <2>5, <3>1, DashboardAssumption
    <3> DEFINE row == [author |-> c[1], date |-> c[2], count |-> table[c]]
    <3>3. row \in Rows /\ row.author = c[1] /\ row.date = c[2] /\ row.count = table[c]
          BY <2>3, <3>1, <3>2 DEF Rows
    <3>4. table[<<row.author, row.date>>] = row.count
          BY <2>3, <3>3
    <3>5. row \in rows
          BY <3>3, <3>4 DEF StatsRange
    <3>6. OneRowPerKey(rows)
          BY RowsRead
    <3> HIDE DEF row, rows
    <3>7. Value(rows, row.author, row.date) = row.count
          BY <2>1, <3>5, <3>6, ValueOf
    <3>8. QED BY <3>1, <3>3, <3>7 DEF rows
  <2>6. QED BY <2>4, <2>5
<1>9. QED BY <1>5, <1>6, <1>7, <1>8 DEF IInv

\* The new page is of the rows that were read, and those are in the table.
LEMMA PublishStep ==
  ASSUME IInv, Publish
  PROVE  IInv'
<1>1. /\ now' = now /\ table' = table /\ known' = known /\ to' = to /\ authors' = authors
      /\ stats' = stats /\ cancelled' = cancelled /\ failures' = failures
      /\ phase' = "ticker" /\ attempt' = 0 /\ snapshot' = BuildSnapshot(authors, stats, to)
      BY DEF Publish, tables, results
<1>2. /\ Read /\ authors \in SUBSET AuthorIds /\ stats \in SUBSET Rows
      /\ to \in Nat /\ now \in Nat /\ to <= now
      BY DashboardAssumption DEF Publish, Finished, Succeeded, Read, IInv, TypeOK, Days
<1>3. Shape(snapshot', to)
      BY <1>1, <1>2, Built
<1>4. ASSUME NEW c \in Cells(snapshot')
      PROVE  /\ c = <<c[1], c[2]>> /\ c[1] \in AuthorIds /\ c[2] \in From(to)..to /\ c[2] \in Int
             /\ Shown(snapshot', c[1], c[2]) = Value(stats, c[1], c[2])
             /\ Value(stats, c[1], c[2]) \in 0..MaxCount
  <2>1. Shown(snapshot', c[1], c[2]) = Value(stats, c[1], c[2])
        BY <1>1, <1>2, BuiltShows
  <2>2. Value(stats, c[1], c[2]) \in 0..MaxCount
        BY <1>2, ValueType
  <2>3. QED BY <1>2, <1>3, <2>1, <2>2, ShownCell
<1>5. TypeOK' /\ PauseInv' /\ to' <= now'
  <2>1. snapshot' \in Snapshots
        BY <1>3 DEF Shape
  <2>2. 0 \in 0..(1 + StartupRetries)
        BY DashboardAssumption
  <2>3. QED BY <1>1, <2>1, <2>2 DEF IInv, TypeOK, PauseInv
<1>6. StatsInv'
      BY <1>1 DEF IInv, StatsInv, Read
<1>7. FreshInv'
  <2> SUFFICES ASSUME NEW c \in Cells(snapshot')
               PROVE  Shown(snapshot', c[1], c[2]) <= Value(stats, c[1], c[2])
      BY <1>1 DEF FreshInv, From
  <2>1. QED BY <1>4, DashboardAssumption
<1>8. SnapInv'
      BY <1>1, <1>2, <1>3 DEF SnapInv
<1>9. ShownIsStored'
  <2> SUFFICES ASSUME NEW c \in Cells(snapshot')
               PROVE  /\ c[2] <= now
                      /\ Shown(snapshot', c[1], c[2]) <= IF c[2] \in Days THEN table[c] ELSE 0
      BY <1>1 DEF ShownIsStored, Days
  <2> DEFINE v == Value(stats, c[1], c[2])
  <2>1. /\ c = <<c[1], c[2]>> /\ c[1] \in AuthorIds /\ c[2] \in From(to)..to /\ c[2] \in Int
        /\ Shown(snapshot', c[1], c[2]) = v /\ v \in 0..MaxCount
        BY <1>4
  <2>2. c[2] <= now
        BY <2>1, <1>2
  <2>3. c[2] \in Days => table[c] \in 0..MaxCount
    <3>1. c[2] \in Days => c \in AuthorIds \X Days
          BY <2>1
    <3>2. QED BY <3>1 DEF IInv, TypeOK
  <2>4. v # 0 => c[2] \in Days /\ v <= table[c]
    <3> HAVE v # 0
    <3>1. PICK r \in stats : r.author = c[1] /\ r.date = c[2] /\ r.count = v
          BY <1>2, ValueFrom
    <3>2. r.count <= table[<<r.author, r.date>>]
          BY <1>2 DEF IInv, StatsInv
    <3>3. r.date \in Days
          BY <1>2 DEF Rows
    <3>4. QED BY <2>1, <3>1, <3>2, <3>3
  <2> HIDE DEF v
  <2>5. QED BY <2>1, <2>2, <2>3, <2>4, DashboardAssumption
<1>10. QED BY <1>5, <1>6, <1>7, <1>8, <1>9 DEF IInv

LEMMA RefreshFailsStep ==
  ASSUME IInv, RefreshFails
  PROVE  IInv'
<1>1. /\ now' = now /\ table' = table /\ known' = known /\ to' = to /\ authors' = authors
      /\ stats' = stats /\ snapshot' = snapshot /\ cancelled' = cancelled /\ failures' = failures
      BY DEF RefreshFails, tables, results
<1>2. /\ phase' \in {"ticker", "stopped", "pause"}
      /\ phase' = "pause" => attempt # 0 /\ attempt # LastAttempt
      /\ attempt' = IF phase' = "ticker" THEN 0 ELSE attempt
      BY DEF RefreshFails
<1>3. attempt \in 0..(1 + StartupRetries) /\ StartupRetries \in Nat
      BY DashboardAssumption DEF IInv, TypeOK
<1>4. TypeOK'
  <2>1. attempt' \in 0..(1 + StartupRetries)
        BY <1>2, <1>3
  <2>2. QED BY <1>1, <1>2, <2>1 DEF IInv, TypeOK
<1>5. PauseInv'
  <2> SUFFICES ASSUME phase' = "pause" PROVE attempt' \in 1..StartupRetries
      BY DEF PauseInv
  <2>1. attempt' = attempt /\ attempt # 0 /\ attempt # 1 + StartupRetries
        BY <1>2 DEF LastAttempt
  <2>2. QED BY <1>3, <2>1
<1>6. QED BY <1>1, <1>4, <1>5, Frame DEF IInv

\* A refresh begins: nothing has been read.
LEMMA BeginStep ==
  ASSUME IInv, StartAttempt \/ Tick
  PROVE  IInv'
<1>1. /\ now' = now /\ table' = table /\ known' = known /\ attempt' = attempt
      /\ snapshot' = snapshot /\ cancelled' = cancelled /\ failures' = failures
      /\ phase' = "refresh" /\ to' = now /\ authors' = Pending /\ stats' = Pending
      BY DEF StartAttempt, Tick, BeginRefresh, tables
<1>2. TypeOK' /\ PauseInv'
      BY <1>1 DEF IInv, TypeOK, PauseInv
<1>3. now \in Int
      BY DEF IInv, TypeOK, Days
<1>4. to' <= now' /\ StatsInv' /\ FreshInv'
      BY <1>1, <1>3 DEF StatsInv, FreshInv, Read
<1>5. SnapInv'
      BY <1>1 DEF IInv, SnapInv, Ready
<1>6. ShownIsStored'
      BY <1>1 DEF IInv, ShownIsStored, Days
<1>7. QED BY <1>2, <1>4, <1>5, <1>6 DEF IInv

LEMMA RetryStep ==
  ASSUME IInv, RetryStartup
  PROVE  IInv'
<1>1. /\ now' = now /\ table' = table /\ known' = known /\ to' = to /\ authors' = authors
      /\ stats' = stats /\ snapshot' = snapshot /\ cancelled' = cancelled /\ failures' = failures
      /\ phase' = "startup" /\ attempt' = attempt + 1
      BY DEF RetryStartup, tables, results
<1>2. attempt \in 1..StartupRetries /\ StartupRetries \in Nat
      BY DashboardAssumption DEF RetryStartup, IInv, PauseInv
<1>3. attempt + 1 \in 0..(1 + StartupRetries)
      BY <1>2
<1>4. TypeOK' /\ PauseInv'
      BY <1>1, <1>3 DEF IInv, TypeOK, PauseInv
<1>5. QED BY <1>1, <1>4, Frame DEF IInv

LEMMA StopStep ==
  ASSUME IInv, Stop \/ Cancel
  PROVE  IInv'
<1>1. /\ now' = now /\ table' = table /\ known' = known /\ to' = to /\ authors' = authors
      /\ stats' = stats /\ snapshot' = snapshot /\ attempt' = attempt /\ failures' = failures
      /\ phase' = phase \/ phase' = "stopped"
      /\ cancelled' = cancelled \/ cancelled' = TRUE
      BY DEF Stop, Cancel, tables, results
<1>2. cancelled' \in BOOLEAN
      BY <1>1 DEF IInv, TypeOK
<1>3. TypeOK' /\ PauseInv'
      BY <1>1, <1>2 DEF IInv, TypeOK, PauseInv
<1>4. QED BY <1>1, <1>3, Frame DEF IInv

LEMMA StutterStep ==
  ASSUME IInv, UNCHANGED vars
  PROVE  IInv'
<1>1. /\ now' = now /\ table' = table /\ known' = known /\ to' = to /\ authors' = authors
      /\ stats' = stats /\ snapshot' = snapshot /\ attempt' = attempt /\ failures' = failures
      /\ phase' = phase /\ cancelled' = cancelled
      BY DEF vars, tables, results
<1>2. TypeOK' /\ PauseInv'
      BY <1>1 DEF IInv, TypeOK, PauseInv
<1>3. QED BY <1>1, <1>2, Frame DEF IInv

LEMMA NextInv ==
  ASSUME IInv, [Next]_vars
  PROVE  IInv'
<1>1. CASE \E a \in AuthorIds, d \in Days, n \in 1..MaxCount : Save(a, d, n)
      BY <1>1, SaveStep
<1>2. CASE Midnight \/ ReadAuthors \/ ReadStats
      BY <1>2, MidnightStep, ReadAuthorsStep, ReadStatsStep
<1>3. CASE Run
      BY <1>3, BeginStep, RetryStep, PublishStep, RefreshFailsStep DEF Run
<1>4. CASE Stop \/ Cancel
      BY <1>4, StopStep
<1>5. CASE UNCHANGED vars
      BY <1>5, StutterStep
<1>6. QED BY <1>1, <1>2, <1>3, <1>4, <1>5 DEF Next

\* The invariant holds in every reachable state.
THEOREM Invariance == Spec => []IInv
<1>1. QED BY InitInv, NextInv, PTL DEF Spec

\* The variables keep to their types: a snapshot is a table of dates and of
\* rows of counts, and the startup attempts keep to their schedule.
THEOREM TypeCorrect == Spec => []TypeOK
<1>1. IInv => TypeOK
      BY DEF IInv
<1>2. QED BY <1>1, Invariance, PTL

\* The page shows nothing that is not stored, whenever its two reads happen.
THEOREM ShownCorrect == Spec => []ShownIsStored
<1>1. IInv => ShownIsStored
      BY DEF IInv
<1>2. QED BY <1>1, Invariance, PTL

\* A page that is ready stays ready, and no cell that stays on it falls.
THEOREM NothingFalls == Spec => ShownNeverFalls
<1> DEFINE Keeps == Ready => /\ Ready'
                             /\ \A c \in Cells(snapshot) \cap Cells(snapshot') :
                                  Shown(snapshot, c[1], c[2]) <= Shown(snapshot', c[1], c[2])
<1>1. ASSUME IInv, Publish PROVE Keeps
  <2>1. /\ snapshot' = BuildSnapshot(authors, stats, to)
        /\ Read /\ authors \in SUBSET AuthorIds /\ stats \in SUBSET Rows /\ to \in Nat
        BY <1>1, DashboardAssumption DEF Publish, Finished, Succeeded, Read, IInv, TypeOK, Days
  <2>2. Shape(snapshot', to)
        BY <2>1, Built
  <2>3. Ready'
    <3>1. snapshot' \in Snapshots
          BY <2>2 DEF Shape
    <3>2. QED BY <3>1, DashboardAssumption DEF Ready
  <2>4. ASSUME NEW c \in Cells(snapshot) \cap Cells(snapshot')
        PROVE  Shown(snapshot, c[1], c[2]) <= Shown(snapshot', c[1], c[2])
    <3>1. c[2] \in From(to)..to
          BY <2>1, <2>2, ShownCell
    <3>2. Shown(snapshot, c[1], c[2]) <= Value(stats, c[1], c[2])
          BY <1>1, <2>1, <3>1 DEF IInv, FreshInv
    <3>3. Shown(snapshot', c[1], c[2]) = Value(stats, c[1], c[2])
          BY <2>1, BuiltShows
    <3>4. QED BY <3>2, <3>3
  <2>5. QED BY <2>3, <2>4
<1>2. ASSUME IInv, snapshot' = snapshot PROVE Keeps
  <2>1. ASSUME NEW c \in Cells(snapshot)
        PROVE  Shown(snapshot, c[1], c[2]) <= Shown(snapshot, c[1], c[2])
    <3>1. Shown(snapshot, c[1], c[2]) \in Int
          BY <1>2, SnapshotCell
    <3>2. QED BY <3>1
  <2>2. QED BY <1>2, <2>1 DEF Ready
<1>3. [Next]_vars => Publish \/ snapshot' = snapshot
      BY DEF Next, Run, Save, Midnight, ReadAuthors, ReadStats, StartAttempt, RetryStartup, Tick,
             RefreshFails, Stop, Cancel, vars
<1>4. IInv /\ [Next]_vars => [Keeps]_vars
      BY <1>1, <1>2, <1>3
<1>5. QED BY <1>4, Invariance, PTL DEF Spec, ShownNeverFalls

\* The first n columns of a table for the page.
LEMMA Sliced ==
  ASSUME NEW newest \in Nat, NEW snap, Shape(snap, newest), NEW n \in 1..MaxDays
  PROVE  LET page == Slice(snap, n)
         IN /\ Len(page.dates) = n
            /\ \A j \in 1..n : page.dates[j] = newest - (j - 1)
            /\ DOMAIN page.rows = DOMAIN snap.rows
            /\ \A i \in DOMAIN snap.rows : /\ page.rows[i].id = snap.rows[i].id
                                          /\ Len(page.rows[i].clicks) = n
<1> DEFINE page == Slice(snap, n)
           rows == [i \in DOMAIN snap.rows |->
                      [snap.rows[i] EXCEPT !.clicks = SubSeq(@, 1, n)]]
<1>1. /\ snap.dates = DateRange(newest) /\ snap.dates \in Seq(Int)
      /\ Len(snap.dates) = MaxDays /\ MaxDays \in Nat /\ n \in Nat /\ 1 <= n /\ n <= MaxDays
      BY Columns, DashboardAssumption DEF Shape
<1>2. page = [dates |-> SubSeq(snap.dates, 1, n), rows |-> rows]
  <2>1. (IF n > Len(snap.dates) THEN Len(snap.dates) ELSE n) = n
        BY <1>1
  <2>2. QED BY ONLY <2>1, Zenon DEF Slice, page, rows
<1>3. \A j \in 1..n : snap.dates[j] = newest - (j - 1) /\ snap.dates[j] \in Int
  <2> TAKE j \in 1..n
  <2>1. j \in 1..MaxDays
        BY <1>1
  <2>2. snap.dates[j] = newest - (j - 1)
        BY <1>1, <2>1, Columns
  <2>3. QED BY <2>1, <2>2
<1>4. /\ Len(SubSeq(snap.dates, 1, n)) = n
      /\ \A j \in 1..n : SubSeq(snap.dates, 1, n)[j] = snap.dates[j]
  <2>1. \A j \in 1..n : snap.dates[j] \in Int
        BY <1>3
  <2>2. /\ Len(SubSeq(snap.dates, 1, n)) = IF 1 <= n THEN n - 1 + 1 ELSE 0
        /\ \A j \in 1..(n - 1 + 1) : SubSeq(snap.dates, 1, n)[j] = snap.dates[1 + j - 1]
        BY <2>1, <1>1, SubSeqProperties
  <2>3. QED BY <2>2, <1>1
<1>5. ASSUME NEW i \in DOMAIN snap.rows
      PROVE  rows[i].id = snap.rows[i].id /\ Len(rows[i].clicks) = n
  <2>1. snap.rows[i] \in [id : AuthorIds, clicks : Seq(0..MaxCount)]
        BY Element DEF Shape, Snapshots
  <2>2. /\ rows[i].id = snap.rows[i].id
        /\ rows[i].clicks = SubSeq(snap.rows[i].clicks, 1, n)
        BY <2>1
  <2>3. snap.rows[i].clicks \in Seq(0..MaxCount) /\ Len(snap.rows[i].clicks) = MaxDays
        BY <2>1 DEF Shape
  <2>4. \A j \in 1..n : snap.rows[i].clicks[j] \in 0..MaxCount
    <3> TAKE j \in 1..n
    <3>1. j \in DOMAIN snap.rows[i].clicks
          BY <2>3, <1>1
    <3>2. QED BY <2>3, <3>1, Element
  <2>5. Len(SubSeq(snap.rows[i].clicks, 1, n)) = IF 1 <= n THEN n - 1 + 1 ELSE 0
        BY <2>4, <1>1, SubSeqProperties
  <2>6. QED BY <2>2, <2>5, <1>1
<1> HIDE DEF page, rows
<1>6. page.dates = SubSeq(snap.dates, 1, n) /\ page.rows = rows
      BY <1>2
<1>7. DOMAIN rows = DOMAIN snap.rows
      BY DEF rows
<1>8. QED BY <1>3, <1>4, <1>5, <1>6, <1>7 DEF page

\* Any number of days up to MaxDays is answered with just as many columns, in
\* order, and with the authors in order.
THEOREM AnswersComplete == Spec => []EveryDayServed
<1>1. IInv => EveryDayServed
  <2> SUFFICES ASSUME IInv, Ready, NEW query \in {{}} \cup {{n} : n \in 1..MaxDays}
               PROVE  LET page == Respond(query).body
                          n    == Len(page.dates)
                      IN /\ Respond(query).status = 200
                         /\ query \subseteq {n}
                         /\ \A j \in 1..(n - 1) : page.dates[j + 1] = page.dates[j] - 1
                         /\ \A i \in DOMAIN page.rows : Len(page.rows[i].clicks) = n
                         /\ \A i, k \in DOMAIN page.rows : i < k => page.rows[i].id < page.rows[k].id
      BY DEF EveryDayServed
  <2>1. PICK newest \in Nat : Shape(snapshot, newest)
        BY DEF IInv, SnapInv
  <2>2. PICK n \in 1..MaxDays : query \subseteq {n} /\ Respond(query) = GetStats(n)
    <3>1. CASE query = {}
      <4> DEFINE n == IF MaxDays < 5 THEN MaxDays ELSE 5
      <4>1. n \in 1..MaxDays
            BY DashboardAssumption
      <4>2. Respond(query) = GetStats(n)
            BY <3>1 DEF Respond
      <4> HIDE DEF n
      <4>3. QED BY <3>1, <4>1, <4>2
    <3>2. CASE query \in {{n} : n \in 1..MaxDays}
      <4>1. PICK n \in 1..MaxDays : query = {n}
            BY <3>2
      <4>2. (CHOOSE x \in query : TRUE) = n /\ query # {}
            BY <4>1
      <4>3. Respond(query) = GetStats(n)
            BY <4>2 DEF Respond
      <4>4. QED BY <4>1, <4>3
    <3>3. QED BY <3>1, <3>2
  <2> DEFINE page == Slice(snapshot, n)
  <2>3. GetStats(n) = [status |-> 200, body |-> page]
    <3>1. ~(n < 1 \/ n > MaxDays)
          BY DashboardAssumption
    <3>2. QED BY <3>1 DEF GetStats, Ready
  <2>4. Respond(query).status = 200 /\ Respond(query).body = page
        BY <2>2, <2>3
  <2>5. /\ Len(page.dates) = n
        /\ \A j \in 1..n : page.dates[j] = newest - (j - 1)
        /\ DOMAIN page.rows = DOMAIN snapshot.rows
        /\ \A i \in DOMAIN snapshot.rows : /\ page.rows[i].id = snapshot.rows[i].id
                                          /\ Len(page.rows[i].clicks) = n
        BY <2>1, Sliced
  <2> HIDE DEF page
  <2>6. \A j \in 1..(n - 1) : page.dates[j + 1] = page.dates[j] - 1
    <3> TAKE j \in 1..(n - 1)
    <3>1. j \in 1..n /\ j + 1 \in 1..n /\ j \in Int
          OBVIOUS
    <3>2. page.dates[j] = newest - (j - 1) /\ page.dates[j + 1] = newest - ((j + 1) - 1)
          BY <2>5, <3>1
    <3>3. QED BY <3>1, <3>2
  <2>7. \A i, k \in DOMAIN page.rows : i < k => page.rows[i].id < page.rows[k].id
        BY <2>1, <2>5 DEF Shape
  <2>8. QED BY <2>2, <2>4, <2>5, <2>6, <2>7
<1>2. QED BY <1>1, Invariance, PTL
=============================================================================
