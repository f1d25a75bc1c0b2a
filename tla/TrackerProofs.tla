---------------------------- MODULE TrackerProofs ---------------------------
(***************************************************************************)
(* Proofs about Tracker, for any authors, users and partitions, any number *)
(* of days, messages and restarts, and any retention of two days or more.  *)
(***************************************************************************)
EXTENDS Tracker, FiniteSetTheorems, TLAPS

(* WindowExact, said click by click. *)
WindowInv == \A c \in Clicks : c.day \in {now, now - 1} => (c \in days <=> c \in Read)

(* Nothing is stamped with a day to come. *)
StampInv == /\ \A c \in days : c.day <= now
            /\ \A p \in Partitions, i \in Nat :
                 i \in 1..Len(topic[p]) /\ topic[p][i] # Junk => topic[p][i].day <= now

IInv == TypeOK /\ WindowInv /\ StampInv

(* What it is for a message to have been read and not deleted. *)
LEMMA InRead ==
  ASSUME NEW c
  PROVE  c \in Read <=> \E p \in Partitions : \E i \in (first[p] + 1)..offset[p] :
                           c = topic[p][i]
  BY DEF Read

(* Positions between first and offset hold messages. *)
LEMMA Positions ==
  ASSUME TypeOK, NEW p \in Partitions, NEW i \in (first[p] + 1)..offset[p]
  PROVE  i \in 1..Len(topic[p]) /\ topic[p][i] \in Clicks \cup {Junk}
<1>1. first[p] \in Nat /\ offset[p] \in Nat /\ offset[p] <= Len(topic[p])
      BY DEF TypeOK
<1>2. topic[p] \in Seq(Clicks \cup {Junk}) /\ Len(topic[p]) \in Nat
      BY DEF TypeOK
<1>3. QED BY <1>1, <1>2

LEMMA WindowMeans == TypeOK => (WindowInv <=> WindowExact)
<1> SUFFICES ASSUME TypeOK PROVE WindowInv <=> WindowExact
    OBVIOUS
<1>1. days \subseteq Clicks
      BY DEF TypeOK
<1>2. Read \ {Junk} \subseteq Clicks
      BY Positions, InRead
<1>3. \A c \in Clicks : c # Junk
      BY TrackerAssumption
<1>4. QED BY <1>1, <1>2, <1>3 DEF WindowInv, WindowExact

LEMMA InitIInv == Init => IInv
<1> SUFFICES ASSUME Init PROVE IInv
    OBVIOUS
<1>1. TypeOK
      BY TrackerAssumption DEF Init, TypeOK, Days
<1>2. Read = {}
      BY DEF Init, Read
<1>3. WindowInv /\ StampInv
      BY <1>2 DEF Init, WindowInv, StampInv
<1>4. QED BY <1>1, <1>3 DEF IInv

LEMMA TypeStep == TypeOK /\ [Next]_vars => TypeOK'
<1> SUFFICES ASSUME TypeOK, [Next]_vars PROVE TypeOK'
    OBVIOUS
<1> USE TrackerAssumption DEF TypeOK
<1>1. ASSUME NEW c \in Clicks, Produce(c) PROVE TypeOK'
  <2> DEFINE p == PartitionOf[c.author]
  <2>1. p \in Partitions
        BY DEF Clicks
  <2>2. topic' = [topic EXCEPT ![p] = Append(@, c)]
        BY <1>1 DEF Produce
  <2>3. topic' \in [Partitions -> Seq(Clicks \cup {Junk})]
        BY <2>1, <2>2
  <2>4. \A q \in Partitions : Len(topic'[q]) >= Len(topic[q])
        BY <2>1, <2>2
  <2>5. QED BY <1>1, <2>3, <2>4 DEF Produce
<1>2. ASSUME NEW p \in Partitions, ProduceJunk(p) PROVE TypeOK'
  <2>1. topic' = [topic EXCEPT ![p] = Append(@, Junk)]
        BY <1>2 DEF ProduceJunk
  <2>2. topic' \in [Partitions -> Seq(Clicks \cup {Junk})]
        BY <2>1
  <2>3. \A q \in Partitions : Len(topic'[q]) >= Len(topic[q])
        BY <2>1
  <2>4. QED BY <1>2, <2>2, <2>3 DEF ProduceJunk
<1>3. ASSUME NEW p \in Partitions, Expire(p) PROVE TypeOK'
  <2>1. first[p] \in Nat /\ offset[p] \in Nat /\ Len(topic[p]) \in Nat
        OBVIOUS
  <2>2. /\ first' = [first EXCEPT ![p] = @ + 1]
        /\ offset' = [offset EXCEPT ![p] = IF @ > first[p] THEN @ ELSE @ + 1]
        /\ first[p] < Len(topic[p])
        /\ UNCHANGED <<now, topic, days, cleaned, restarts>>
        BY <1>3 DEF Expire
  <2>3. first' \in [Partitions -> Nat] /\ offset' \in [Partitions -> Nat]
        BY <2>1, <2>2
  <2>4. \A q \in Partitions : first'[q] <= offset'[q] /\ offset'[q] <= Len(topic'[q])
        BY <2>1, <2>2
  <2>5. QED BY <2>2, <2>3, <2>4
<1>4. ASSUME NEW p \in Partitions, Consume(p) PROVE TypeOK'
  <2>1. topic[p][offset[p] + 1] \in Clicks \cup {Junk}
        BY <1>4 DEF Consume
  <2>2. days' \in SUBSET Clicks
        BY <1>4, <2>1 DEF Consume, AddClickAt
  <2>3. QED BY <1>4, <2>2 DEF Consume
<1>5. CASE Midnight
  <2>1. now' \in Days
        BY <1>5 DEF Midnight, Days
  <2>2. QED BY <1>5, <2>1 DEF Midnight
<1>6. CASE Cleanup
      BY <1>6 DEF Cleanup
<1>7. CASE Restart
      BY <1>7 DEF Restart, StartOffset
<1>8. CASE UNCHANGED vars
      BY <1>8 DEF vars
<1>9. QED BY <1>1, <1>2, <1>3, <1>4, <1>5, <1>6, <1>7, <1>8 DEF Next

(* TypeOK holds in every reachable state. *)
THEOREM TypeCorrect == Spec => []TypeOK
<1>1. Init => TypeOK
      BY InitIInv DEF IInv
<1>2. QED BY <1>1, TypeStep, PTL DEF Spec

-----------------------------------------------------------------------------
(* Read depends on the positions between first and offset only. *)
LEMMA SameRead ==
  ASSUME UNCHANGED <<first, offset>>,
         \A q \in Partitions : \A i \in (first[q] + 1)..offset[q] : topic'[q][i] = topic[q][i]
  PROVE  Read' = Read
<1>1. \A c : c \in Read' <=> \E q \in Partitions : \E i \in (first[q] + 1)..offset[q] :
                                c = topic'[q][i]
      BY DEF Read
<1>2. \A c : c \in Read' <=> c \in Read
      BY <1>1, InRead
<1>3. QED BY <1>2

(* Writing a message changes neither what has been read nor older stamps. *)
LEMMA AppendKeeps ==
  ASSUME TypeOK, NEW p \in Partitions, NEW m \in Clicks \cup {Junk},
         topic' = [topic EXCEPT ![p] = Append(@, m)], UNCHANGED <<first, offset>>
  PROVE  /\ Read' = Read
         /\ \A q \in Partitions, i \in Nat :
              i \in 1..Len(topic'[q]) =>
                \/ i \in 1..Len(topic[q]) /\ topic'[q][i] = topic[q][i]
                \/ topic'[q][i] = m
<1>1. \A q \in Partitions : topic[q] \in Seq(Clicks \cup {Junk}) /\ Len(topic[q]) \in Nat
      BY DEF TypeOK
<1>2. \A q \in Partitions : \A i \in 1..Len(topic[q]) : topic'[q][i] = topic[q][i]
      BY <1>1 DEF TypeOK
<1>3. \A q \in Partitions : \A i \in (first[q] + 1)..offset[q] : topic'[q][i] = topic[q][i]
      BY <1>2, Positions
<1>4. Read' = Read
      BY <1>3, SameRead
<1>5. /\ Len(topic'[p]) = Len(topic[p]) + 1
      /\ topic'[p][Len(topic[p]) + 1] = m
      /\ \A q \in Partitions \ {p} : topic'[q] = topic[q]
      BY <1>1 DEF TypeOK
<1>6. QED BY <1>1, <1>2, <1>4, <1>5

LEMMA InvStep == IInv /\ [Next]_vars => IInv'
<1> SUFFICES ASSUME IInv, [Next]_vars PROVE IInv'
    OBVIOUS
<1>t. TypeOK /\ TypeOK'
      BY TypeStep DEF IInv
<1>n. now \in Int /\ \A c \in Clicks : c.day \in Int
      BY <1>t, TrackerAssumption DEF TypeOK, Days, Clicks
<1>j. Junk \notin Clicks /\ Retention \in Nat /\ Retention >= 2
      BY TrackerAssumption
<1>1. ASSUME NEW c \in Clicks, Produce(c) PROVE WindowInv' /\ StampInv'
  <2> DEFINE p == PartitionOf[c.author]
  <2>1. p \in Partitions
        BY TrackerAssumption DEF Clicks
  <2>2. /\ c.day <= now
        /\ topic' = [topic EXCEPT ![p] = Append(@, c)]
        /\ UNCHANGED <<now, first, offset, days>>
        BY <1>1 DEF Produce
  <2>3. /\ Read' = Read
        /\ \A q \in Partitions, i \in Nat :
             i \in 1..Len(topic'[q]) =>
               \/ i \in 1..Len(topic[q]) /\ topic'[q][i] = topic[q][i]
               \/ topic'[q][i] = c
        BY <1>t, <2>1, <2>2, AppendKeeps
  <2>4. WindowInv'
        BY <2>2, <2>3 DEF IInv, WindowInv
  <2>5. StampInv'
        BY <2>2, <2>3 DEF IInv, StampInv
  <2>6. QED BY <2>4, <2>5
<1>2. ASSUME NEW p \in Partitions, ProduceJunk(p) PROVE WindowInv' /\ StampInv'
  <2>1. /\ topic' = [topic EXCEPT ![p] = Append(@, Junk)]
        /\ UNCHANGED <<now, first, offset, days>>
        BY <1>2 DEF ProduceJunk
  <2>2. /\ Read' = Read
        /\ \A q \in Partitions, i \in Nat :
             i \in 1..Len(topic'[q]) =>
               \/ i \in 1..Len(topic[q]) /\ topic'[q][i] = topic[q][i]
               \/ topic'[q][i] = Junk
        BY <1>t, <2>1, AppendKeeps
  <2>3. WindowInv'
        BY <2>1, <2>2 DEF IInv, WindowInv
  <2>4. StampInv'
        BY <2>1, <2>2 DEF IInv, StampInv
  <2>5. QED BY <2>3, <2>4
<1>3. ASSUME NEW p \in Partitions, Expire(p) PROVE WindowInv' /\ StampInv'
  <2> DEFINE m == topic[p][first[p] + 1]
  <2>1. /\ m # Junk => m.day + Retention <= now
        /\ first' = [first EXCEPT ![p] = @ + 1]
        /\ offset' = [offset EXCEPT ![p] = IF @ > first[p] THEN @ ELSE @ + 1]
        /\ UNCHANGED <<now, topic, days>>
        BY <1>3 DEF Expire
  <2>2. \A q \in Partitions : first[q] \in Nat /\ offset[q] \in Nat /\ first[q] <= offset[q]
        BY <1>t DEF TypeOK
  <2>3. \A q \in Partitions : \A i \in (first[q] + 1)..offset[q] :
          i \in (first'[q] + 1)..offset'[q] \/ (q = p /\ i = first[p] + 1)
        BY <1>t, <2>1, <2>2 DEF TypeOK
  <2>4. \A q \in Partitions : \A i \in (first'[q] + 1)..offset'[q] :
          i \in (first[q] + 1)..offset[q]
        BY <1>t, <2>1, <2>2 DEF TypeOK
  <2>5. \A c \in Clicks : c.day \in {now, now - 1} => (c \in Read' <=> c \in Read)
    <3> SUFFICES ASSUME NEW c \in Clicks, c.day \in {now, now - 1}
                 PROVE  c \in Read' <=> c \in Read
        OBVIOUS
    <3>1. c # m
          BY <1>n, <1>j, <2>1
    <3>2. QED BY <2>1, <2>3, <2>4, <3>1 DEF Read
  <2>6. WindowInv'
        BY <2>1, <2>5 DEF IInv, WindowInv
  <2>7. StampInv'
        BY <2>1 DEF IInv, StampInv
  <2>8. QED BY <2>6, <2>7
<1>4. ASSUME NEW p \in Partitions, Consume(p) PROVE WindowInv' /\ StampInv'
  <2> DEFINE i == offset[p] + 1
             m == topic[p][i]
  <2>1. /\ i \in Nat /\ i \in 1..Len(topic[p])
        /\ m \in Clicks \cup {Junk}
        BY <1>4, <1>t DEF Consume, TypeOK
  <2>2. /\ \/ m # Junk /\ AddClickAt(m)
           \/ m = Junk /\ UNCHANGED days
        /\ offset' = [offset EXCEPT ![p] = @ + 1]
        /\ UNCHANGED <<now, topic, first>>
        BY <1>4 DEF Consume, Skips
  <2>3. \A q \in Partitions : \A k \in (first'[q] + 1)..offset'[q] :
          k \in (first[q] + 1)..offset[q] \/ (q = p /\ k = i)
        BY <1>t, <2>2 DEF TypeOK
  <2>4. \A q \in Partitions : \A k \in (first[q] + 1)..offset[q] :
          k \in (first'[q] + 1)..offset'[q]
        BY <1>t, <2>2 DEF TypeOK
  <2>5. i \in (first'[p] + 1)..offset'[p]
        BY <1>t, <2>2 DEF TypeOK
  <2>6. \A c : c \in Read' <=> c \in Read \/ c = m
        BY <2>2, <2>3, <2>4, <2>5 DEF Read
  <2>7. m # Junk => m.day <= now
        BY <2>1 DEF IInv, StampInv
  <2>8. WindowInv'
    <3> SUFFICES ASSUME NEW c \in Clicks, c.day \in {now, now - 1}
                 PROVE  c \in days' <=> c \in Read'
        BY <2>2 DEF WindowInv
    <3>1. c \in days <=> c \in Read
          BY DEF IInv, WindowInv
    <3>2. c \in days' <=> c \in days \/ c = m
          BY <1>j, <2>2 DEF AddClickAt, Window
    <3>3. QED BY <2>6, <3>1, <3>2
  <2>9. StampInv'
        BY <2>2, <2>7 DEF IInv, StampInv, AddClickAt
  <2>10. QED BY <2>8, <2>9
<1>5. ASSUME Midnight PROVE WindowInv' /\ StampInv'
  <2>1. now' = now + 1 /\ UNCHANGED <<topic, first, offset, days>>
        BY <1>5 DEF Midnight
  <2>2. Read' = Read
        BY <2>1 DEF Read
  <2>3. \A c \in Clicks : c \in Read => c.day <= now
        BY <1>j, <1>t, InRead, Positions DEF IInv, StampInv
  <2>4. \A c \in Clicks : c \in days => c.day <= now
        BY DEF IInv, StampInv
  <2>5. WindowInv'
        BY <1>n, <2>1, <2>2, <2>3, <2>4 DEF IInv, WindowInv
  <2>6. \A c \in days : c \in Clicks
        BY <1>t DEF TypeOK
  <2>7. \A q \in Partitions, k \in Nat :
          k \in 1..Len(topic[q]) /\ topic[q][k] # Junk => topic[q][k] \in Clicks
        BY <1>t DEF TypeOK
  <2>8. StampInv'
        BY <1>n, <2>1, <2>4, <2>6, <2>7 DEF IInv, StampInv
  <2>9. QED BY <2>5, <2>8
<1>6. ASSUME Cleanup PROVE WindowInv' /\ StampInv'
  <2>1. /\ days' = {c \in days : c.day \in {now, now - 1}}
        /\ UNCHANGED <<now, topic, first, offset>>
        BY <1>6 DEF Cleanup, CleanupKeeps
  <2>2. QED BY <2>1 DEF IInv, WindowInv, StampInv, Read
<1>7. ASSUME Restart PROVE WindowInv' /\ StampInv'
  <2>1. days' = {} /\ offset' = first /\ UNCHANGED <<now, topic, first>>
        BY <1>7 DEF Restart, StartOffset
  <2>2. \A q \in Partitions : (first'[q] + 1)..offset'[q] = {}
        BY <1>t, <2>1 DEF TypeOK
  <2>3. Read' = {}
        BY <2>2 DEF Read
  <2>4. QED BY <2>1, <2>3 DEF IInv, WindowInv, StampInv
<1>8. ASSUME UNCHANGED vars PROVE WindowInv' /\ StampInv'
      BY <1>8 DEF vars, IInv, WindowInv, StampInv, Read
<1>9. WindowInv' /\ StampInv'
      BY <1>1, <1>2, <1>3, <1>4, <1>5, <1>6, <1>7, <1>8 DEF Next
<1>10. QED BY <1>t, <1>9 DEF IInv

(* For the two days that are counted the tracker holds exactly what has    *)
(* been read from the topic, whatever midnights, cleanups, expiries and    *)
(* restarts there were.                                                    *)
THEOREM ExactWindow == Spec => []WindowExact
<1>1. Spec => []IInv
      BY InitIInv, InvStep, PTL DEF Spec
<1>2. IInv => WindowExact
      BY WindowMeans DEF IInv
<1>3. QED BY <1>1, <1>2, PTL

-----------------------------------------------------------------------------
(* At most three days are ever in memory, and two once the cleanup has run. *)
THEOREM MemoryBounded == Spec => []TwoDaysKept
<1>1. Init => TwoDaysKept
      BY DEF Init, TwoDaysKept
<1>2. TypeOK /\ TwoDaysKept /\ [Next]_vars => TwoDaysKept'
  <2> SUFFICES ASSUME TypeOK, TwoDaysKept, [Next]_vars PROVE TwoDaysKept'
      OBVIOUS
  <2>n. now \in Int /\ \A c \in days : c.day \in Int
        BY TrackerAssumption DEF TypeOK, Days, Clicks
  <2>1. ASSUME NEW c \in Clicks, Produce(c) PROVE TwoDaysKept'
        BY <2>1 DEF Produce, TwoDaysKept
  <2>2. ASSUME NEW p \in Partitions, ProduceJunk(p) \/ Expire(p) PROVE TwoDaysKept'
        BY <2>2 DEF ProduceJunk, Expire, TwoDaysKept
  <2>3. ASSUME NEW p \in Partitions, Consume(p) PROVE TwoDaysKept'
    <3>1. \A c \in days' : c \in days \/ c.day \in {now, now - 1}
          BY <2>3 DEF Consume, AddClickAt, Window
    <3>2. now' = now /\ cleaned' = cleaned
          BY <2>3 DEF Consume
    <3>3. QED BY <2>n, <3>1, <3>2 DEF TwoDaysKept
  <2>4. CASE Midnight
        BY <2>4, <2>n DEF Midnight, TwoDaysKept
  <2>5. CASE Cleanup
        BY <2>5, <2>n DEF Cleanup, CleanupKeeps, TwoDaysKept
  <2>6. CASE Restart
        BY <2>6 DEF Restart, TwoDaysKept
  <2>7. CASE UNCHANGED vars
        BY <2>7 DEF vars, TwoDaysKept
  <2>8. QED BY <2>1, <2>2, <2>3, <2>4, <2>5, <2>6, <2>7 DEF Next
<1>3. QED BY <1>1, <1>2, TypeCorrect, PTL DEF Spec

-----------------------------------------------------------------------------
(* Counts only grow.                                                       *)

(* One step of a living process: what it deletes is older than the two days *)
(* that are counted after it, and at most one click is added.               *)
LEMMA DaysStep ==
  ASSUME TypeOK, [Next]_vars
  PROVE  /\ days' = {} \/ days' \subseteq days \/ \E c : days' = days \cup {c}
         /\ restarts' = restarts =>
              \A c \in days : c.day \in {now', now' - 1} => c \in days'
<1> DEFINE Keeps == \A c \in days : c.day \in {now', now' - 1} => c \in days'
           Adds  == days' = {} \/ days' \subseteq days \/ \E c : days' = days \cup {c}
<1>1. ASSUME NEW c \in Clicks, Produce(c) PROVE Adds /\ Keeps
      BY <1>1 DEF Produce
<1>2. ASSUME NEW p \in Partitions, ProduceJunk(p) \/ Expire(p) PROVE Adds /\ Keeps
      BY <1>2 DEF ProduceJunk, Expire
<1>3. ASSUME NEW p \in Partitions, Consume(p) PROVE Adds /\ Keeps
  <2>1. days' = days \/ days' = days \cup {topic[p][offset[p] + 1]}
        BY <1>3 DEF Consume, AddClickAt
  <2>2. QED BY <2>1
<1>4. CASE Midnight
      BY <1>4 DEF Midnight
<1>5. CASE Cleanup
      BY <1>5 DEF Cleanup, CleanupKeeps
<1>6. ASSUME Restart PROVE Adds /\ restarts' # restarts
      BY <1>6 DEF Restart, TypeOK
<1>7. CASE UNCHANGED vars
      BY <1>7 DEF vars
<1>8. QED BY <1>1, <1>2, <1>3, <1>4, <1>5, <1>6, <1>7 DEF Next

(* The tracker holds finitely many clicks, however many users there are. *)
LEMMA FiniteDays == Spec => []IsFiniteSet(days)
<1>1. Init => IsFiniteSet(days)
      BY FS_EmptySet DEF Init
<1>2. ASSUME TypeOK, IsFiniteSet(days), [Next]_vars PROVE IsFiniteSet(days)'
      BY <1>2, DaysStep, FS_EmptySet, FS_Subset, FS_AddElement
<1>3. QED BY <1>1, <1>2, TypeCorrect, PTL DEF Spec

(* A part of a finite set has no more elements than it. *)
LEMMA CardinalityMonotonic ==
  ASSUME NEW T, IsFiniteSet(T), NEW U \in SUBSET T, NEW V \in SUBSET U
  PROVE  Cardinality(U) >= Cardinality(V)
<1>1. IsFiniteSet(U)
      BY FS_Subset
<1>2. IsFiniteSet(V) /\ Cardinality(V) <= Cardinality(U)
      BY <1>1, FS_Subset
<1>3. Cardinality(U) \in Nat /\ Cardinality(V) \in Nat
      BY <1>1, <1>2, FS_CardinalityType
<1>4. QED BY <1>2, <1>3

(* While the process lives, no later report of a counted day has fewer      *)
(* readers of an author: neither the cleanup nor midnight nor a late or     *)
(* repeated message takes a reader away from today or yesterday.            *)
THEOREM CountsNeverDrop == Spec => CountsGrow
<1> DEFINE Grow == restarts' = restarts =>
                     \A d \in {now', now' - 1}, a \in Authors : Count(d, a)' >= Count(d, a)
<1>1. ASSUME TypeOK, IsFiniteSet(days)', [Next]_vars PROVE Grow
  <2> SUFFICES ASSUME restarts' = restarts, NEW d \in {now', now' - 1}, NEW a \in Authors
               PROVE  Count(d, a)' >= Count(d, a)
      OBVIOUS
  <2> DEFINE was == {c \in days : c.day = d /\ c.author = a}
             is  == {c \in days' : c.day = d /\ c.author = a}
  <2>1. \A c \in days : c.day = d => c \in days'
        BY <1>1, DaysStep
  <2>2. was \in SUBSET is /\ is \in SUBSET days'
        BY <2>1
  <2>3. Cardinality(is) >= Cardinality(was)
    <3>1. IsFiniteSet(days')
          BY <1>1
    <3> HIDE DEF was, is
    <3>2. QED BY <2>2, <3>1, CardinalityMonotonic
  <2>4. QED BY <2>3 DEF Count
<1>2. TypeOK /\ IsFiniteSet(days)' /\ [Next]_vars => [Grow]_vars
      BY <1>1
<1>3. QED BY <1>2, TypeCorrect, FiniteDays, PTL DEF Spec, CountsGrow
=============================================================================
