---------------------------- MODULE PipelineProofs ----------------------------
(***************************************************************************)
(* Proofs about Scheduler and Pipeline, for every schedule that satisfies  *)
(* their assumptions: first the calendar (days, slots and the wait for the *)
(* next one), then the timers' invariant, then the way of a day's clicks,  *)
(* and that it ends in the table of StatsTable.                            *)
(***************************************************************************)
EXTENDS Pipeline, WellFoundedInduction, TLAPS

-----------------------------------------------------------------------------
(* Arithmetic.                                                             *)

LEMMA DivBounds ==
  ASSUME NEW t \in Nat, NEW D \in Nat \ {0}
  PROVE  /\ t \div D \in Nat
         /\ (t \div D) * D \in Nat
         /\ (t \div D) * D <= t
         /\ t < (t \div D) * D + D
OBVIOUS

LEMMA DivUnique ==
  ASSUME NEW D \in Nat \ {0}, NEW d \in Nat, NEW r \in 0..(D - 1)
  PROVE  (d * D + r) \div D = d
OBVIOUS

LEMMA OneMore ==
  ASSUME NEW D \in Nat, NEW d \in Nat
  PROVE  (d + 1) * D = d * D + D
OBVIOUS

LEMMA Multiples ==
  ASSUME NEW D \in Nat, NEW d \in Nat, NEW e \in Nat, d < e
  PROVE  d * D + D <= e * D
OBVIOUS

LEMMA OffsetInDay ==
  ASSUME NEW L \in Nat \ {0}, NEW N \in Nat \ {0}, NEW h \in 0..(N - 1), NEW m \in 0..(L - 1)
  PROVE  h * L + m \in 0..(L * N - 1)
OBVIOUS

LEMMA PositiveProduct ==
  ASSUME NEW a \in Nat \ {0}, NEW b \in Nat \ {0}
  PROVE  a * b \in Nat \ {0}
OBVIOUS

\* A set of numbers that is not empty has a least one.
LEMMA LeastOf ==
  ASSUME NEW S \in SUBSET Nat, S # {}
  PROVE  Min(S) \in S /\ \A x \in S : Min(S) <= x
<1>1. PICK m \in S : \A y \in S : <<y, m>> \notin OpToRel(<, Nat)
      BY NatLessThanWellFounded, WFMin
<1>2. ASSUME NEW y \in S PROVE m <= y
  <2>1. y \in Nat /\ m \in Nat
        OBVIOUS
  <2>2. y < m => <<y, m>> \in OpToRel(<, Nat)
        BY <2>1 DEF OpToRel
  <2>3. ~(y < m)
        BY <2>2, <1>1
  <2>4. QED BY <2>1, <2>3
<1>3. QED BY <1>2 DEF Min

-----------------------------------------------------------------------------
(* Days.                                                                   *)

LEMMA Days ==
  /\ DayLength \in Nat \ {0}
  /\ \A t \in Nat : /\ DayOf(t) \in Nat /\ MidnightOf(t) \in Nat
                    /\ MidnightOf(t) <= t /\ t < MidnightOf(t) + DayLength
<1>1. DayLength \in Nat \ {0}
      BY ScheduleAssumption, PositiveProduct DEF DayLength
<1>2. QED BY <1>1, DivBounds DEF DayOf, MidnightOf

LEMMA SameDay ==
  ASSUME NEW t \in Nat, NEW u \in Nat,
         MidnightOf(t) <= u, u < MidnightOf(t) + DayLength
  PROVE  DayOf(u) = DayOf(t) /\ MidnightOf(u) = MidnightOf(t)
<1>1. PICK r \in 0..(DayLength - 1) : u = MidnightOf(t) + r
  <2>1. u - MidnightOf(t) \in 0..(DayLength - 1) /\ u = MidnightOf(t) + (u - MidnightOf(t))
        BY Days
  <2>2. QED BY <2>1
<1>2. u = DayOf(t) * DayLength + r
      BY <1>1 DEF MidnightOf
<1>3. DayOf(u) = DayOf(t)
      BY <1>2, Days, DivUnique DEF DayOf
<1>4. QED BY <1>3 DEF MidnightOf

LEMMA NextDay ==
  ASSUME NEW t \in Nat, NEW r \in 0..(DayLength - 1)
  PROVE  /\ DayOf(MidnightOf(t) + DayLength + r) = DayOf(t) + 1
         /\ MidnightOf(MidnightOf(t) + DayLength + r) = MidnightOf(t) + DayLength
<1>1. DayOf(t) \in Nat /\ DayOf(t) + 1 \in Nat /\ DayLength \in Nat \ {0}
      BY Days
<1>2. (DayOf(t) + 1) * DayLength = MidnightOf(t) + DayLength
      BY <1>1, OneMore DEF MidnightOf
<1>3. ((DayOf(t) + 1) * DayLength + r) \div DayLength = DayOf(t) + 1
      BY <1>1, DivUnique
<1>4. DayOf(MidnightOf(t) + DayLength + r) = DayOf(t) + 1
      BY <1>2, <1>3 DEF DayOf
<1>5. QED BY <1>2, <1>4 DEF MidnightOf

\* A minute later it is the same day, or the midnight of the next one.
LEMMA MinuteLater ==
  ASSUME NEW t \in Nat
  PROVE  \/ DayOf(t + 1) = DayOf(t) /\ MidnightOf(t + 1) = MidnightOf(t)
         \/ /\ DayOf(t + 1) = DayOf(t) + 1
            /\ t + 1 = MidnightOf(t) + DayLength
            /\ MidnightOf(t + 1) = t + 1
<1>1. CASE t + 1 < MidnightOf(t) + DayLength
      BY <1>1, Days, SameDay
<1>2. CASE t + 1 >= MidnightOf(t) + DayLength
  <2>1. t + 1 = MidnightOf(t) + DayLength + 0 /\ 0 \in 0..(DayLength - 1)
        BY <1>2, Days
  <2>2. QED BY <2>1, NextDay, Days
<1>3. QED BY <1>1, <1>2, Days

LEMMA DaysOrdered ==
  ASSUME NEW t \in Nat, NEW u \in Nat, t <= u
  PROVE  /\ DayOf(t) <= DayOf(u)
         /\ DayOf(t) < DayOf(u) => MidnightOf(t) + DayLength <= MidnightOf(u)
<1>1. DayOf(t) <= DayOf(u)
  <2> SUFFICES ASSUME DayOf(u) < DayOf(t) PROVE FALSE
      BY Days
  <2>1. MidnightOf(u) + DayLength <= MidnightOf(t)
        BY Days, Multiples DEF MidnightOf
  <2>2. QED BY <2>1, Days
<1>2. QED BY <1>1, Days, Multiples DEF MidnightOf

-----------------------------------------------------------------------------
(* Slots.                                                                  *)

\* Slots, beyond the horizon too.
IsSlot(t) == /\ t \in Nat
             /\ \E i \in DOMAIN Hours : t - MidnightOf(t) = Hours[i] * HourLength + Minute

LEMMA Offsets ==
  \A i \in DOMAIN Hours : Hours[i] * HourLength + Minute \in 0..(DayLength - 1)
<1> SUFFICES ASSUME NEW i \in DOMAIN Hours
             PROVE  Hours[i] * HourLength + Minute \in 0..(DayLength - 1)
    OBVIOUS
<1>1. Hours[i] \in 0..(HoursPerDay - 1)
      BY ScheduleAssumption
<1>2. QED BY <1>1, ScheduleAssumption, OffsetInDay DEF DayLength

\* When an hour's slot comes next: after t, within a day, and none of this
\* hour's before it.
LEMMA CandidateIsNext ==
  ASSUME NEW t \in Nat, NEW i \in DOMAIN Hours
  PROVE  /\ Candidate(t, Hours[i]) \in Nat
         /\ t < Candidate(t, Hours[i]) /\ Candidate(t, Hours[i]) <= t + DayLength
         /\ IsSlot(Candidate(t, Hours[i]))
         /\ \A s \in Nat : /\ t < s
                           /\ s - MidnightOf(s) = Hours[i] * HourLength + Minute
                           => Candidate(t, Hours[i]) <= s
<1> DEFINE off == Hours[i] * HourLength + Minute
           c == Candidate(t, Hours[i])
<1>1. off \in 0..(DayLength - 1)
      BY Offsets
<1>2. c = IF MidnightOf(t) + off > t THEN MidnightOf(t) + off ELSE MidnightOf(t) + off + DayLength
  <2>1. Hours[i] * HourLength \in Int
        BY ScheduleAssumption
  <2>2. MidnightOf(t) + Hours[i] * HourLength + Minute = MidnightOf(t) + off
        BY <2>1, Days, ScheduleAssumption
  <2>3. QED BY <2>2 DEF Candidate
<1> HIDE DEF off, c
<1>3. c \in Nat /\ t < c /\ c <= t + DayLength
      BY <1>1, <1>2, Days
<1>4. c - MidnightOf(c) = off
  <2>1. CASE c = MidnightOf(t) + off
    <3>1. MidnightOf(t) <= c /\ c < MidnightOf(t) + DayLength
          BY <2>1, <1>1, Days
    <3>2. MidnightOf(c) = MidnightOf(t)
          BY <3>1, <1>3, SameDay
    <3>3. QED BY <3>2, <2>1, <1>1, Days
  <2>2. CASE c = MidnightOf(t) + DayLength + off
        BY <2>2, <1>1, Days, NextDay
  <2>3. QED BY <2>1, <2>2, <1>1, <1>2, Days
<1>5. ASSUME NEW s \in Nat, t < s, s - MidnightOf(s) = off PROVE c <= s
  <2>1. CASE DayOf(t) = DayOf(s)
    <3>1. MidnightOf(t) = MidnightOf(s)
          BY <2>1 DEF MidnightOf
    <3>2. QED BY <3>1, <1>1, <1>2, <1>5, Days
  <2>2. CASE DayOf(t) < DayOf(s)
    <3>1. MidnightOf(t) + DayLength <= MidnightOf(s)
          BY <2>2, <1>5, DaysOrdered
    <3>2. MidnightOf(t) \in Nat /\ MidnightOf(s) \in Nat /\ DayLength \in Nat
          BY Days, <1>5
    <3>3. s = MidnightOf(s) + off /\ off \in Nat
          BY <3>2, <1>1, <1>5
    <3>4. MidnightOf(t) + DayLength + off <= s
          BY <3>1, <3>2, <3>3
    <3>5. QED BY <3>2, <3>3, <3>4, <1>2
  <2>3. DayOf(t) <= DayOf(s) /\ DayOf(t) \in Nat /\ DayOf(s) \in Nat
        BY <1>5, Days, DaysOrdered
  <2>4. QED BY <2>1, <2>2, <2>3
<1>6. QED BY <1>3, <1>4, <1>5 DEF IsSlot, off, c

\* The timer that is set at t fires at the first slot after t.
LEMMA NextSlot ==
  ASSUME NEW t \in Nat
  PROVE  /\ IsSlot(t + UntilNextFrom(t))
         /\ t < t + UntilNextFrom(t) /\ t + UntilNextFrom(t) <= t + DayLength
         /\ \A s \in Slots : t < s => t + UntilNextFrom(t) <= s
<1> DEFINE W == {Candidate(t, Hours[i]) - t : i \in DOMAIN Hours}
<1>1. W \in SUBSET Nat
      BY CandidateIsNext
<1>2. W # {}
  <2>1. 1 \in DOMAIN Hours
        BY ScheduleAssumption
  <2>2. QED BY <2>1
<1>3. UntilNextFrom(t) \in W /\ \A w \in W : UntilNextFrom(t) <= w
      BY <1>1, <1>2, LeastOf DEF UntilNextFrom
<1>4. PICK i \in DOMAIN Hours : UntilNextFrom(t) = Candidate(t, Hours[i]) - t
      BY <1>3
<1>5. t + UntilNextFrom(t) = Candidate(t, Hours[i])
      BY <1>4, CandidateIsNext
<1>6. ASSUME NEW s \in Slots, t < s PROVE t + UntilNextFrom(t) <= s
  <2>1. PICK j \in DOMAIN Hours : s - MidnightOf(s) = Hours[j] * HourLength + Minute
        BY DEF Slots
  <2>2. Candidate(t, Hours[j]) <= s /\ Candidate(t, Hours[j]) \in Nat
        BY <2>1, <1>6, CandidateIsNext DEF Slots
  <2>3. UntilNextFrom(t) <= Candidate(t, Hours[j]) - t
        BY <1>3
  <2>4. Candidate(t, Hours[i]) \in Nat /\ s \in Nat
        BY CandidateIsNext DEF Slots
  <2>5. QED BY <2>2, <2>3, <2>4, <1>4
<1>7. QED BY <1>5, <1>6, CandidateIsNext

LEMMA SlotWithin ==
  ASSUME NEW t, IsSlot(t), t <= Horizon
  PROVE  t \in Slots
BY ScheduleAssumption DEF IsSlot, Slots

-----------------------------------------------------------------------------
(* The timers.                                                             *)

\* The timer is set for a slot, the next one as long as it has not fired.
TimerInv ==
  /\ IsSlot(nextAt)
  /\ now <= nextAt + MaxLag
  /\ phase = "top" => nextAt <= now
  /\ phase = "waiting" => \A s \in Slots : now < s => nextAt <= s

\* A slot since the start was used, or its timer is due.
SlotsInv ==
  \A s \in Slots : now < age + s /\ s <= now =>
    \/ phase = "waiting" /\ nextAt = s
    \/ \E t \in Served(s) : sends[t] > 0

\* What is sent was a slot's, alone, and before the one that is waited for.
SendsInv ==
  \A t \in 0..Horizon : sends[t] > 0 =>
    /\ sends[t] = 1
    /\ t <= now
    /\ phase = "waiting" => t < nextAt
    /\ \E s \in Slots : t \in Served(s) /\ \A u \in Served(s) \ {t} : sends[u] = 0

\* The cleanup was today, or it is due today.
CleanInv ==
  \/ cleanAt = NextCleanup(now) /\ oldest = DayOf(now) - 1
  \/ /\ cleanAt = MidnightOf(now) + CleanupMinute
     /\ oldest <= DayOf(now) - 1
     /\ now <= cleanAt + MaxLag

TimersInv == TypeOK /\ TimerInv /\ SlotsInv /\ SendsInv /\ CleanInv

\* What the assumption says, with the types the provers need.
LEMMA SlotFacts ==
  /\ MaxLag \in Nat /\ Horizon \in Nat /\ CleanupMinute \in Nat
  /\ DayLength <= Horizon
  /\ Memory = MaxLag + 2
  /\ CleanupMinute + MaxLag < DayLength
  /\ \A s \in Slots : s \in Nat /\ s <= Horizon /\ s + MaxLag < MidnightOf(s) + DayLength
  /\ \A s \in Slots, t \in Slots : s < t => s + MaxLag < t
<1>1. CleanupMinute \in Nat
      BY ScheduleAssumption
<1>2. MaxLag \in Nat /\ Horizon \in Nat /\ DayLength <= Horizon /\ CleanupMinute + MaxLag < DayLength
      BY ScheduleAssumption
<1>3. \A s \in Slots : s \in Nat /\ s <= Horizon
      BY <1>2 DEF Slots
<1>4. QED BY <1>1, <1>2, <1>3, ScheduleAssumption DEF Memory

LEMMA NewTimers ==
  ASSUME NEW t \in 0..Horizon
  PROVE  /\ t + UntilNextFrom(t) \in 1..(Horizon + DayLength)
         /\ NextCleanup(t) \in DayLength..(Horizon + 2 * DayLength)
         /\ DayOf(t) - 1 \in -1..DayOf(Horizon)
<1>1. t \in Nat /\ t <= Horizon
      BY SlotFacts
<1>2. t + UntilNextFrom(t) \in Nat /\ t < t + UntilNextFrom(t) /\ t + UntilNextFrom(t) <= t + DayLength
      BY <1>1, NextSlot DEF IsSlot
<1>3. t + UntilNextFrom(t) \in 1..(Horizon + DayLength)
      BY <1>1, <1>2, SlotFacts, Days
<1>4. MidnightOf(t) \in Nat /\ MidnightOf(t) <= t /\ DayOf(t) \in Nat
      BY <1>1, Days
<1>5. NextCleanup(t) \in DayLength..(Horizon + 2 * DayLength)
      BY <1>1, <1>4, SlotFacts, Days DEF NextCleanup
<1>6. DayOf(t) <= DayOf(Horizon) /\ DayOf(Horizon) \in Nat
      BY <1>1, SlotFacts, Days, DaysOrdered
<1>7. QED BY <1>3, <1>4, <1>5, <1>6

LEMMA TimersInit == Init => TimersInv
<1> SUFFICES ASSUME Init PROVE TimersInv
    OBVIOUS
<1>1. now \in 0..Horizon /\ now \in Nat
      BY Days, SlotFacts DEF Init
<1>2. TypeOK
      BY <1>1, NewTimers, SlotFacts DEF Init, TypeOK
<1>3. TimerInv
  <2>1. nextAt = now + UntilNextFrom(now) /\ phase = "waiting"
        BY DEF Init
  <2>2. IsSlot(nextAt) /\ now < nextAt /\ nextAt \in Nat
        BY <1>1, <2>1, NextSlot DEF IsSlot
  <2>3. \A s \in Slots : now < s => nextAt <= s
        BY <1>1, <2>1, NextSlot
  <2>4. QED BY <1>1, <2>1, <2>2, <2>3, SlotFacts DEF TimerInv
<1>4. SlotsInv
      BY <1>1, SlotFacts DEF Init, SlotsInv
<1>5. SendsInv
      BY DEF Init, SendsInv
<1>6. CleanInv
      BY DEF Init, CleanInv
<1>7. QED BY <1>2, <1>3, <1>4, <1>5, <1>6 DEF TimersInv

\* Where the timer stands relative to the slots.
LEMMA AtTheTimer ==
  ASSUME TimersInv
  PROVE  /\ now \in Nat /\ now <= Horizon /\ nextAt \in Nat
         /\ now <= nextAt + MaxLag
         /\ nextAt <= now => nextAt \in Slots
<1>1. now \in Nat /\ now <= Horizon /\ nextAt \in Nat
      BY SlotFacts DEF TimersInv, TypeOK, TimerInv, IsSlot
<1>2. nextAt <= now => nextAt \in Slots
      BY <1>1, SlotFacts, SlotWithin DEF TimersInv, TimerInv
<1>3. QED BY <1>1, <1>2 DEF TimersInv, TimerInv

\* What was sent for a slot since the start is not forgotten yet.
LEMMA Remembered ==
  ASSUME NEW n \in Nat, NEW a \in Nat, NEW m \in Nat, NEW s \in Nat, NEW t \in Nat,
         n < a + s, a <= m, s <= t
  PROVE  t + m > n
OBVIOUS

LEMMA TickStep ==
  ASSUME TimersInv, Tick
  PROVE  TimersInv'
<1>1. /\ now \in Nat /\ now + 1 <= Horizon /\ now' = now + 1 /\ nextAt \in Nat
      /\ now < nextAt + MaxLag /\ now < cleanAt + MaxLag
      /\ nextAt' = nextAt /\ phase' = phase /\ cleanAt' = cleanAt /\ oldest' = oldest
      BY AtTheTimer, SlotFacts DEF Tick
<1>2. age \in Nat /\ age' \in Nat /\ age' <= age + 1 /\ age' <= Memory /\ Memory \in Nat
      BY SlotFacts DEF Tick, TimersInv, TypeOK
<1>3. /\ sends \in [0..Horizon -> 0..2]
      /\ \A t \in 0..Horizon : sends'[t] = IF t + Memory > now' THEN sends[t] ELSE 0
      /\ sends' \in [0..Horizon -> 0..2]
      BY DEF Tick, TimersInv, TypeOK
<1>4. TypeOK'
      BY <1>1, <1>2, <1>3 DEF TimersInv, TypeOK
\* The minute that begins is no slot but the one that is waited for.
<1>5. now' \in Slots => phase = "waiting" /\ nextAt = now'
  <2> SUFFICES ASSUME now' \in Slots PROVE phase = "waiting" /\ nextAt = now'
      OBVIOUS
  <2>1. nextAt > now
    <3> SUFFICES ASSUME nextAt <= now PROVE FALSE
        BY <1>1
    <3>1. nextAt \in Slots
          BY AtTheTimer
    <3>2. nextAt + MaxLag < now'
          BY <3>1, <1>1, SlotFacts
    <3>3. QED BY <3>2, <1>1, SlotFacts
  <2>2. phase = "waiting"
        BY <2>1, <1>1 DEF TimersInv, TimerInv, TypeOK
  <2>3. nextAt <= now'
        BY <2>2, <1>1 DEF TimersInv, TimerInv
  <2>4. QED BY <2>1, <2>2, <2>3, <1>1
<1>6. TimerInv'
  <2>1. IsSlot(nextAt)'
        BY <1>1 DEF TimersInv, TimerInv, IsSlot, MidnightOf, DayOf
  <2>2. QED BY <1>1, <2>1, SlotFacts DEF TimersInv, TimerInv
<1>7. SlotsInv'
  <2> SUFFICES ASSUME NEW s \in Slots, now' < age' + s, s <= now'
               PROVE  \/ phase' = "waiting" /\ nextAt' = s
                      \/ \E t \in Served(s) : sends'[t] > 0
      BY DEF SlotsInv
  <2>1. CASE s = now'
        BY <2>1, <1>1, <1>5
  <2>2. CASE s # now'
    <3>1. s \in Nat /\ now < age + s /\ s <= now
          BY <2>2, <1>1, <1>2, SlotFacts
    <3>2. CASE \E t \in Served(s) : sends[t] > 0
      <4>1. PICK t \in Served(s) : sends[t] > 0
            BY <3>2
      <4>2. t \in 0..Horizon /\ t \in Nat /\ s <= t
            BY <3>1, SlotFacts DEF Served
      <4>3. t + Memory > now'
        <5>1. now' \in Nat
              BY <1>1
        <5>2. QED BY <5>1, <4>2, <3>1, <1>2, Remembered
      <4>4. QED BY <4>1, <4>2, <4>3, <1>3
    <3>3. QED BY <3>1, <3>2, <1>1 DEF TimersInv, SlotsInv
  <2>3. QED BY <2>1, <2>2
<1>8. SendsInv'
  <2> SUFFICES ASSUME NEW t \in 0..Horizon, sends'[t] > 0
               PROVE  /\ sends'[t] = 1
                      /\ t <= now'
                      /\ phase' = "waiting" => t < nextAt'
                      /\ \E s \in Slots : t \in Served(s) /\ \A u \in Served(s) \ {t} : sends'[u] = 0
      BY DEF SendsInv
  <2>1. sends'[t] = sends[t]
        BY <1>3
  <2>2. PICK s \in Slots : t \in Served(s) /\ \A u \in Served(s) \ {t} : sends[u] = 0
        BY <2>1 DEF TimersInv, SendsInv
  <2>3. \A u \in Served(s) \ {t} : sends'[u] = 0
        BY <2>2, <1>3 DEF Served
  <2>4. sends[t] = 1 /\ t <= now /\ (phase = "waiting" => t < nextAt)
        BY <2>1 DEF TimersInv, SendsInv
  <2>5. QED BY <2>1, <2>2, <2>3, <2>4, <1>1
<1>9. CleanInv'
  <2>1. /\ MidnightOf(now) \in Nat /\ DayOf(now) \in Nat /\ DayLength \in Nat
        /\ oldest \in Int /\ cleanAt \in Nat
    <3>1. DayOf(Horizon) \in Nat /\ DayLength \in Nat /\ Horizon \in Nat
          BY Days, SlotFacts
    <3>2. oldest \in Int /\ cleanAt \in Nat
          BY <3>1 DEF TimersInv, TypeOK
    <3>3. QED BY <3>1, <3>2, <1>1, Days
  <2>2. CASE DayOf(now') = DayOf(now) /\ MidnightOf(now') = MidnightOf(now)
        BY <2>1, <2>2, <1>1, SlotFacts DEF TimersInv, CleanInv, NextCleanup
  <2>3. CASE /\ DayOf(now') = DayOf(now) + 1
             /\ now' = MidnightOf(now) + DayLength
             /\ MidnightOf(now') = now'
    <3>1. CASE cleanAt = NextCleanup(now) /\ oldest = DayOf(now) - 1
      <4>1. /\ cleanAt = MidnightOf(now') + CleanupMinute /\ oldest <= DayOf(now') - 1
            /\ now' <= cleanAt + MaxLag
            BY <2>1, <2>3, <3>1, SlotFacts DEF NextCleanup
      <4>2. QED BY <4>1, <1>1 DEF CleanInv
    <3>2. CASE cleanAt = MidnightOf(now) + CleanupMinute
      <4>1. FALSE
            BY <2>1, <2>3, <3>2, <1>1, SlotFacts
      <4>2. QED BY <4>1
    <3>3. QED BY <3>1, <3>2 DEF TimersInv, CleanInv
  <2>4. QED BY <2>2, <2>3, <1>1, MinuteLater
<1>10. QED BY <1>4, <1>6, <1>7, <1>8, <1>9 DEF TimersInv

\* The timer of RunScheduler fires in one of its slot's minutes, once.
LEMMA FireStep ==
  ASSUME TimersInv, Fire
  PROVE  TimersInv'
<1>1. /\ now \in Nat /\ now \in 0..Horizon /\ nextAt \in Nat /\ nextAt \in Slots
      /\ nextAt <= now /\ now <= nextAt + MaxLag
      /\ phase = "waiting" /\ phase' = "top"
      /\ now' = now /\ nextAt' = nextAt /\ age' = age /\ cleanAt' = cleanAt /\ oldest' = oldest
      BY AtTheTimer, SlotFacts DEF Fire
<1>2. now \in Served(nextAt)
      BY <1>1, SlotFacts DEF Served
<1>3. \A t \in 0..Horizon : sends[t] > 0 => t < nextAt
      BY <1>1 DEF TimersInv, SendsInv
<1>4. sends \in [0..Horizon -> 0..2] /\ sends[now] = 0
  <2>1. sends \in [0..Horizon -> 0..2]
        BY DEF TimersInv, TypeOK
  <2>2. ~(sends[now] > 0)
        BY <1>1, <1>3
  <2>3. QED BY <2>1, <2>2, <1>1
<1>5. /\ sends'[now] = 1
      /\ \A t \in 0..Horizon : t # now => sends'[t] = sends[t]
      /\ sends' \in [0..Horizon -> 0..2]
      BY <1>1, <1>4 DEF Fire
<1>6. TypeOK'
      BY <1>1, <1>5 DEF TimersInv, TypeOK
<1>7. TimerInv'
  <2>1. IsSlot(nextAt)'
        BY <1>1 DEF TimersInv, TimerInv, IsSlot, MidnightOf, DayOf
  <2>2. QED BY <2>1, <1>1 DEF TimersInv, TimerInv
<1>8. SlotsInv'
  <2> SUFFICES ASSUME NEW s \in Slots, now < age + s, s <= now
               PROVE  \E t \in Served(s) : sends'[t] > 0
      BY <1>1 DEF SlotsInv
  <2>1. CASE nextAt = s
        BY <2>1, <1>2, <1>5
  <2>2. CASE nextAt # s
    <3>1. PICK t \in Served(s) : sends[t] > 0
          BY <2>2 DEF TimersInv, SlotsInv
    <3>2. t \in 0..Horizon
          BY DEF Served
    <3>3. sends'[t] > 0
          BY <3>1, <3>2, <1>4, <1>5
    <3>4. QED BY <3>3
  <2>3. QED BY <2>1, <2>2
<1>9. SendsInv'
  <2> SUFFICES ASSUME NEW t \in 0..Horizon, sends'[t] > 0
               PROVE  /\ sends'[t] = 1
                      /\ t <= now
                      /\ \E s \in Slots : t \in Served(s) /\ \A u \in Served(s) \ {t} : sends'[u] = 0
      BY <1>1 DEF SendsInv
  <2>1. CASE t = now
    <3>1. \A u \in Served(nextAt) \ {now} : sends[u] = 0
      <4> SUFFICES ASSUME NEW u \in Served(nextAt), sends[u] # 0 PROVE FALSE
          OBVIOUS
      <4>1. u \in 0..Horizon /\ u \in Nat /\ nextAt <= u
            BY <1>1, SlotFacts DEF Served
      <4>2. sends[u] > 0
            BY <4>1, <1>4
      <4>3. QED BY <4>1, <4>2, <1>1, <1>3
    <3>2. \A u \in Served(nextAt) \ {now} : sends'[u] = 0
          BY <3>1, <1>5 DEF Served
    <3>3. QED BY <2>1, <3>2, <1>1, <1>2, <1>5
  <2>2. CASE t # now
    <3>1. sends'[t] = sends[t]
          BY <2>2, <1>5
    <3>2. sends[t] = 1 /\ t <= now /\ t < nextAt
          BY <3>1, <1>1 DEF TimersInv, SendsInv
    <3>3. PICK s \in Slots : t \in Served(s) /\ \A u \in Served(s) \ {t} : sends[u] = 0
          BY <3>1 DEF TimersInv, SendsInv
    <3>4. now \notin Served(s)
      <4>1. s \in Nat /\ s <= t /\ t \in Nat
            BY <3>3, SlotFacts DEF Served
      <4>2. s + MaxLag < nextAt
            BY <4>1, <3>2, <1>1, SlotFacts
      <4>3. QED BY <4>1, <4>2, <1>1, SlotFacts DEF Served
    <3>5. \A u \in Served(s) \ {t} : sends'[u] = 0
          BY <3>3, <3>4, <1>5 DEF Served
    <3>6. QED BY <3>1, <3>2, <3>3, <3>5
  <2>3. QED BY <2>1, <2>2
<1>10. CleanInv'
      BY <1>1 DEF TimersInv, CleanInv, NextCleanup, MidnightOf, DayOf
<1>11. QED BY <1>6, <1>7, <1>8, <1>9, <1>10 DEF TimersInv

\* A timer that is set now, at the loop's top or by a restart.
LEMMA SetTimerStep ==
  ASSUME TimersInv,
         phase = "top" \/ age' = 0, age' \in 0..Memory, age' = 0 \/ age' = age,
         phase' = "waiting", nextAt' = now + UntilNextFrom(now),
         now' = now, sends' = sends
  PROVE  TimerInv' /\ SlotsInv' /\ SendsInv' /\ nextAt' \in 1..(Horizon + DayLength)
<1>1. now \in Nat /\ now \in 0..Horizon /\ nextAt \in Nat
      BY AtTheTimer, SlotFacts
<1>2. IsSlot(nextAt') /\ nextAt' \in Nat /\ now < nextAt'
      BY <1>1, NextSlot DEF IsSlot
<1>3. TimerInv'
  <2>1. IsSlot(nextAt)'
        BY <1>2 DEF IsSlot, MidnightOf, DayOf
  <2>2. \A s \in Slots : now < s => nextAt' <= s
        BY <1>1, NextSlot
  <2>3. now' <= nextAt' + MaxLag
        BY <1>1, <1>2, SlotFacts
  <2>4. QED BY <2>1, <2>2, <2>3 DEF TimerInv
<1>4. SlotsInv'
  <2> SUFFICES ASSUME NEW s \in Slots, now < age' + s, s <= now
               PROVE  \E t \in Served(s) : sends[t] > 0
      BY DEF SlotsInv
  <2>1. age' = age /\ phase = "top"
        BY <1>1, SlotFacts
  <2>2. QED BY <2>1 DEF TimersInv, SlotsInv
<1>5. SendsInv'
  <2> SUFFICES ASSUME NEW t \in 0..Horizon, sends[t] > 0
               PROVE  t < nextAt'
      BY DEF TimersInv, SendsInv
  <2>1. t <= now /\ t \in Nat
        BY SlotFacts DEF TimersInv, SendsInv
  <2>2. QED BY <2>1, <1>1, <1>2
<1>6. nextAt' \in 1..(Horizon + DayLength)
      BY <1>1, NewTimers
<1>7. QED BY <1>3, <1>4, <1>5, <1>6

LEMMA ArmStep ==
  ASSUME TimersInv, Arm
  PROVE  TimersInv'
<1>1. TimerInv' /\ SlotsInv' /\ SendsInv' /\ nextAt' \in 1..(Horizon + DayLength)
      BY SetTimerStep DEF Arm, TimersInv, TypeOK
<1>2. TypeOK'
      BY <1>1 DEF Arm, TimersInv, TypeOK
<1>3. CleanInv'
      BY DEF Arm, TimersInv, CleanInv, NextCleanup, MidnightOf, DayOf
<1>4. QED BY <1>1, <1>2, <1>3 DEF TimersInv

LEMMA CleanStep ==
  ASSUME TimersInv, Clean
  PROVE  TimersInv'
<1>1. now \in 0..Horizon /\ now' = now
      BY DEF Clean, TimersInv, TypeOK
<1>2. TypeOK'
      BY <1>1, NewTimers DEF Clean, CleanupKeeps, TimersInv, TypeOK
<1>3. TimerInv' /\ SlotsInv' /\ SendsInv'
      BY DEF Clean, TimersInv, TimerInv, SlotsInv, SendsInv, IsSlot, Served, MidnightOf, DayOf
<1>4. CleanInv'
      BY DEF Clean, CleanupKeeps, CleanInv, NextCleanup, MidnightOf, DayOf
<1>5. QED BY <1>2, <1>3, <1>4 DEF TimersInv

LEMMA RestartStep ==
  ASSUME TimersInv, Restart
  PROVE  TimersInv'
<1>1. TimerInv' /\ SlotsInv' /\ SendsInv' /\ nextAt' \in 1..(Horizon + DayLength)
      BY SetTimerStep, SlotFacts DEF Restart
<1>2. now \in 0..Horizon
      BY DEF TimersInv, TypeOK
<1>3. TypeOK'
      BY <1>1, <1>2, NewTimers, SlotFacts DEF Restart, TimersInv, TypeOK, Yesterday, Today
<1>4. CleanInv'
      BY DEF Restart, CleanInv, NextCleanup, MidnightOf, DayOf, Yesterday, Today
<1>5. QED BY <1>1, <1>3, <1>4 DEF TimersInv

LEMMA TimersStep == TimersInv /\ [Next]_vars => TimersInv'
<1> SUFFICES ASSUME TimersInv, [Next]_vars PROVE TimersInv'
    OBVIOUS
<1>1. CASE UNCHANGED vars
      BY <1>1 DEF vars, TimersInv, TypeOK, TimerInv, SlotsInv, SendsInv, CleanInv,
                  IsSlot, Served, NextCleanup, MidnightOf, DayOf
<1>2. QED BY <1>1, TickStep, FireStep, ArmStep, CleanStep DEF Next

\* The timers' invariant holds in every state of the two loops alone.
THEOREM TimersAlone == Spec => []TimersInv
BY TimersInit, TimersStep, PTL DEF Spec

-----------------------------------------------------------------------------
(* The way of the day's clicks.                                            *)

\* The worker's next attempt is not overdue.
OnTime(w, t) == w.since <= t /\ t <= w.since + Offset(w.failures)

WorkerInv == serving # NoDay => OnTime(serving, now)

\* Every date of the schedule comes from a slot, and is still held.
ServingInv ==
  serving # NoDay /\ serving.by = "schedule" =>
    /\ oldest <= serving.day
    /\ \E s \in Slots : /\ serving.day = DayOf(s) - 1
                        /\ s <= serving.since /\ serving.since <= s + MaxLag + Longest

SlotInv ==
  slot # NoDay /\ slot.by = "schedule" =>
    /\ oldest <= slot.day
    /\ \E s \in Slots : /\ slot.day = DayOf(s) - 1
                        /\ s <= now /\ now <= s + MaxLag + Longest
                        /\ serving # NoDay => serving.since <= s + MaxLag

\* A day that was complete is over, and complete as long as it is held.
WholeInv == whole /\ oldest <= Watched => counted = clicked /\ Watched < Today

SentInv == sent => stored = clicked /\ Watched < Today

QueueInv == WorkerInv /\ ServingInv /\ SlotInv
DataInv == WholeInv /\ SentInv

PipelineInv == TimersInv /\ PipelineTypeOK /\ QueueInv /\ DataInv

\* The retries are made one after the other.
LEMMA RetryOffsets ==
  /\ Longest \in Nat /\ Len(RetryAt) \in Nat
  /\ \A f \in 0..Len(RetryAt) : Offset(f) \in Nat /\ Offset(f) <= Longest
  /\ \A f \in 0..Len(RetryAt) : f < Len(RetryAt) => Offset(f) < Offset(f + 1)
<1>1. PICK n \in Nat : /\ n = Len(RetryAt) /\ DOMAIN RetryAt = 1..n
                       /\ \A f \in 1..n : RetryAt[f] \in Nat \ {0}
      BY PipelineAssumption
<1>2. \A f \in 0..n : Offset(f) \in Nat
      BY <1>1 DEF Offset
<1>3. ASSUME NEW f \in 0..n PROVE Offset(f) <= Offset(n)
  <2>1. CASE f = 0
        BY <2>1, <1>2 DEF Offset
  <2>2. CASE f = n
        BY <2>2, <1>2
  <2>3. CASE f # 0 /\ f # n
    <3>1. f < n /\ n # 0 /\ f \in 1..n /\ n \in 1..n
          BY <2>3
    <3>2. RetryAt[f] < RetryAt[n]
          BY <3>1, <1>1, PipelineAssumption
    <3>3. Offset(f) < Offset(n)
          BY <3>1, <3>2, <2>3 DEF Offset
    <3>4. QED BY <3>1, <3>3, <1>2
  <2>4. QED BY <2>1, <2>2, <2>3
<1>4. ASSUME NEW f \in 0..n, f < n PROVE Offset(f) < Offset(f + 1)
  <2>1. f + 1 \in 1..n /\ f + 1 # 0
        BY <1>4
  <2>2. CASE f = 0
        BY <2>1, <2>2, <1>1 DEF Offset
  <2>3. CASE f # 0
    <3>1. f \in 1..n /\ f < f + 1
          BY <2>3
    <3>2. RetryAt[f] < RetryAt[f + 1]
          BY <3>1, <2>1, <1>1, PipelineAssumption
    <3>3. QED BY <3>2, <2>1, <2>3 DEF Offset
  <2>4. QED BY <2>2, <2>3
<1>5. Longest = Offset(n) /\ n \in 0..n
      BY <1>1 DEF Longest
<1>6. QED BY <1>1, <1>2, <1>3, <1>4, <1>5

\* What every action does to the timers.
LEMMA PipelineTimers ==
  ASSUME TimersInv, [PipelineNext]_allVars
  PROVE  TimersInv'
<1>1. [Next]_vars \/ Restart
  <2>1. CASE UNCHANGED allVars
        BY <2>1 DEF allVars, vars
  <2>2. CASE Click \/ Count \/ (\E count \in late : ArrivesLate(count)) \/ Take \/ Sent \/ Pause \/ GiveUp
        BY <2>2 DEF Click, Count, ArrivesLate, Take, Sent, LetGo, Pause, GiveUp
  <2>3. CASE \E d \in {Today, Yesterday} : FlushNow(d)
        BY <2>3 DEF FlushNow
  <2>4. CASE FireYesterday \/ ArmAgain \/ Pass \/ CleanDay
        BY <2>4 DEF FireYesterday, ArmAgain, Pass, CleanDay, Next
  <2>5. QED BY <2>1, <2>2, <2>3, <2>4 DEF PipelineNext
<1>2. QED BY <1>1, TimersStep, RestartStep

\* The clock's day, in the terms of the queue.
LEMMA TheDay ==
  ASSUME TimersInv
  PROVE  /\ now \in 0..Horizon /\ now \in Nat /\ Today \in Nat /\ oldest \in Int
         /\ Yesterday = Today - 1 /\ Today - 1 \in Int
         /\ Today \in -1..DayOf(Horizon) /\ Yesterday \in -1..DayOf(Horizon)
         /\ oldest <= Yesterday
<1>1. now \in 0..Horizon /\ now \in Nat /\ now <= Horizon
      BY SlotFacts DEF TimersInv, TypeOK
<1>2. Today \in Nat /\ DayOf(Horizon) \in Nat /\ Today <= DayOf(Horizon)
      BY <1>1, SlotFacts, Days, DaysOrdered DEF Today
<1>3. oldest \in Int
      BY <1>2 DEF TimersInv, TypeOK
<1>4. oldest <= Yesterday
      BY <1>2, <1>3 DEF TimersInv, CleanInv, Yesterday, Today
<1>5. QED BY <1>1, <1>2, <1>3, <1>4 DEF Yesterday

\* The timer of the schedule fires on its slot's day.
LEMMA FiresOnTheDay ==
  ASSUME TimersInv, Fire
  PROVE  /\ nextAt \in Slots /\ nextAt <= now /\ now <= nextAt + MaxLag
         /\ DayOf(nextAt) = Today
<1>1. nextAt \in Slots /\ nextAt \in Nat /\ now \in Nat /\ nextAt <= now /\ now <= nextAt + MaxLag
      BY AtTheTimer DEF Fire
<1>2. MidnightOf(nextAt) <= now /\ now < MidnightOf(nextAt) + DayLength
  <2>1. MidnightOf(nextAt) \in Nat /\ MidnightOf(nextAt) <= nextAt /\ DayLength \in Nat
        BY <1>1, Days
  <2>2. nextAt + MaxLag < MidnightOf(nextAt) + DayLength /\ MaxLag \in Nat
        BY <1>1, SlotFacts
  <2>3. QED BY <1>1, <2>1, <2>2
<1>3. QED BY <1>1, <1>2, SameDay DEF Today

\* The cleanup, when it is due, removes nothing the queue still has: a date is
\* done with before 00:06 of the day after its slot's.
LEMMA CleanupSpares ==
  ASSUME TimersInv, Clean, NEW s \in Slots, s <= now, now <= s + MaxLag + 2 * Longest
  PROVE  CleanupKeeps(now) <= DayOf(s) - 1
<1>1. now \in Nat /\ s \in Nat /\ MaxLag \in Nat /\ Longest \in Nat /\ CleanupMinute \in Nat
      BY TheDay, SlotFacts, RetryOffsets
<1>2. /\ MidnightOf(s) \in Nat /\ MidnightOf(now) \in Nat
      /\ DayOf(s) \in Nat /\ DayOf(now) \in Nat /\ DayLength \in Nat
      /\ MidnightOf(s) <= s /\ now < MidnightOf(now) + DayLength
      BY <1>1, Days
<1>3. now < MidnightOf(s) + DayLength + CleanupMinute
      BY <1>1, <1>2, PipelineAssumption
<1>4. MidnightOf(now) + CleanupMinute <= now
  <2>1. ~(cleanAt = NextCleanup(now))
        BY <1>1, <1>2 DEF Clean, NextCleanup
  <2>2. QED BY <2>1 DEF Clean, TimersInv, CleanInv
<1>5. ~(DayOf(s) < DayOf(now))
  <2> SUFFICES ASSUME DayOf(s) < DayOf(now) PROVE FALSE
      OBVIOUS
  <2>1. MidnightOf(s) + DayLength <= MidnightOf(now)
        BY <1>1, DaysOrdered
  <2>2. QED BY <2>1, <1>1, <1>2, <1>3, <1>4
<1>6. QED BY <1>2, <1>5 DEF CleanupKeeps

\* The worker's date in the terms of numbers.
LEMMA TheWorker ==
  ASSUME PipelineInv, serving # NoDay
  PROVE  /\ serving \in [day : -1..DayOf(Horizon), by : {"schedule", "manual"},
                         failures : 0..Len(RetryAt), since : 0..now]
         /\ serving.since \in Nat /\ serving.since <= now
         /\ Offset(serving.failures) \in Nat
         /\ now <= serving.since + Offset(serving.failures)
         /\ now <= serving.since + Longest
<1>1. serving \in [day : -1..DayOf(Horizon), by : {"schedule", "manual"},
                   failures : 0..Len(RetryAt), since : 0..now]
      BY DEF PipelineInv, PipelineTypeOK
<1>2. now \in Nat /\ Longest \in Nat
      BY TheDay, RetryOffsets DEF PipelineInv
<1>3. serving.since \in Nat /\ serving.since <= now /\ serving.failures \in 0..Len(RetryAt)
      BY <1>1, <1>2
<1>4. Offset(serving.failures) \in Nat /\ Offset(serving.failures) <= Longest
      BY <1>3, RetryOffsets
<1>5. now <= serving.since + Offset(serving.failures)
      BY DEF PipelineInv, QueueInv, WorkerInv, OnTime
<1>6. QED BY <1>1, <1>2, <1>3, <1>4, <1>5

\* What an attempt, or a request that arrives late, does to the table.
LEMMA TheTable ==
  ASSUME PipelineInv
  PROVE  /\ \A count \in 0..clicked :
              /\ Stores(count) \in 0..clicked
              /\ sent => Stores(count) = clicked
              /\ count = clicked => Stores(count) = clicked
         /\ \A d : Succeeds(d) \/ Fails(d) =>
              /\ stored' \in 0..clicked /\ late' \subseteq 0..clicked
              /\ sent => stored' = clicked
         /\ \A d : Succeeds(d) /\ d = Watched /\ counted = clicked => stored' = clicked
<1>1. /\ clicked \in Nat /\ counted \in 0..clicked /\ stored \in 0..clicked
      /\ late \subseteq 0..clicked
      /\ sent => stored = clicked
      BY PipelineAssumption DEF PipelineInv, PipelineTypeOK, DataInv, SentInv
<1>2. ASSUME NEW count \in 0..clicked
      PROVE  /\ Stores(count) \in 0..clicked
             /\ sent => Stores(count) = clicked
             /\ count = clicked => Stores(count) = clicked
      BY <1>1 DEF Stores
<1>3. ASSUME NEW d, Succeeds(d)
      PROVE  /\ stored' \in 0..clicked /\ late' \subseteq 0..clicked
             /\ sent => stored' = clicked
             /\ d = Watched /\ counted = clicked => stored' = clicked
      BY <1>1, <1>2, <1>3 DEF Succeeds
<1>4. ASSUME NEW d, Fails(d)
      PROVE  /\ stored' \in 0..clicked /\ late' \subseteq 0..clicked
             /\ sent => stored' = clicked
      BY <1>1, <1>4 DEF Fails
<1>5. QED BY <1>2, <1>3, <1>4

\* The queue's invariant is about the clock, the cleanup and the queue only.
LEMMA QueueFrame ==
  ASSUME QueueInv, now' = now, oldest' = oldest, slot' = slot, serving' = serving
  PROVE  QueueInv'
BY DEF QueueInv, WorkerInv, ServingInv, SlotInv, OnTime, DayOf, Offset

LEMMA ClickStep ==
  ASSUME PipelineInv, Click
  PROVE  PipelineTypeOK' /\ QueueInv' /\ DataInv'
<1>1. TypeOK' /\ now' = now /\ oldest' = oldest /\ now \in Nat
      BY TheDay DEF Click, vars, PipelineInv, TimersInv, TypeOK
<1>2. clicked \in Nat /\ clicked + 1 \in 0..MaxClicks
      BY PipelineAssumption DEF Click, PipelineInv, PipelineTypeOK
<1>3. PipelineTypeOK'
      BY <1>1, <1>2 DEF Click, PipelineInv, PipelineTypeOK, data, queue
<1>4. QueueInv'
      BY <1>1, QueueFrame DEF Click, PipelineInv, queue
<1>5. ~(Watched < Today)
      BY TheDay, PipelineAssumption DEF Click, PipelineInv
<1>6. DataInv'
      BY <1>1, <1>5 DEF Click, PipelineInv, DataInv, WholeInv, SentInv, queue
<1>7. QED BY <1>3, <1>4, <1>6

LEMMA CountStep ==
  ASSUME PipelineInv, Count
  PROVE  PipelineTypeOK' /\ QueueInv' /\ DataInv'
<1>1. TypeOK' /\ now' = now /\ oldest' = oldest
      BY DEF Count, vars, PipelineInv, TimersInv, TypeOK
<1>2. /\ clicked \in 0..MaxClicks /\ clicked \in Nat /\ counted \in Nat
      /\ counted < clicked /\ counted' = counted + 1 /\ counted + 1 \in 0..clicked
      BY PipelineAssumption DEF Count, PipelineInv, PipelineTypeOK
<1>3. PipelineTypeOK'
      BY <1>1, <1>2 DEF Count, PipelineInv, PipelineTypeOK, queue
<1>4. QueueInv'
      BY <1>1, QueueFrame DEF Count, PipelineInv, queue
<1>5. DataInv'
  <2>1. ~(whole /\ oldest <= Watched)
        BY <1>2 DEF PipelineInv, DataInv, WholeInv
  <2>2. WholeInv'
        BY <2>1, <1>1 DEF Count, queue, WholeInv
  <2>3. SentInv'
        BY <1>1 DEF Count, queue, PipelineInv, DataInv, SentInv, Today, DayOf
  <2>4. QED BY <2>2, <2>3 DEF DataInv
<1>6. QED BY <1>3, <1>4, <1>5

LEMMA LateStep ==
  ASSUME PipelineInv, NEW count \in late, ArrivesLate(count)
  PROVE  PipelineTypeOK' /\ QueueInv' /\ DataInv'
<1>1. TypeOK' /\ now' = now /\ oldest' = oldest
      BY DEF ArrivesLate, vars, PipelineInv, TimersInv, TypeOK
<1>2. count \in 0..clicked
      BY DEF PipelineInv, PipelineTypeOK
<1>3. stored' \in 0..clicked /\ (sent => stored' = clicked)
      BY <1>2, TheTable DEF ArrivesLate
<1>4. PipelineTypeOK'
      BY <1>1, <1>3 DEF ArrivesLate, PipelineInv, PipelineTypeOK, queue
<1>5. QueueInv'
      BY <1>1, QueueFrame DEF ArrivesLate, PipelineInv, queue
<1>6. DataInv'
      BY <1>1, <1>3 DEF ArrivesLate, queue, PipelineInv, DataInv, WholeInv, SentInv, Today, DayOf
<1>7. QED BY <1>4, <1>5, <1>6

\* The day of a flush by hand is today's or yesterday's, that of the schedule
\* is yesterday's.
LEMMA FlushStep ==
  ASSUME PipelineInv, NEW d \in {Today, Yesterday}, FlushNow(d)
  PROVE  PipelineTypeOK' /\ QueueInv' /\ DataInv'
<1>1. TypeOK' /\ now' = now /\ oldest' = oldest /\ serving = NoDay /\ serving' = NoDay
      BY DEF FlushNow, vars, PipelineInv, TimersInv, TypeOK
<1>2. stored' \in 0..clicked /\ late' \subseteq 0..clicked /\ (sent => stored' = clicked)
      BY TheTable DEF FlushNow
<1>3. d \in -1..DayOf(Horizon)
      BY TheDay DEF PipelineInv
<1>4. /\ slot' = slot \/ slot' = [day |-> d, by |-> "manual"]
      /\ whole' \in BOOLEAN /\ (whole' => whole)
  <2>1. CASE Succeeds(d) /\ UNCHANGED <<slot, whole>>
        BY <2>1 DEF PipelineInv, PipelineTypeOK
  <2>2. CASE Fails(d) /\ Put(d, "manual") /\ whole' = FALSE
    <3>1. slot' = [day |-> d, by |-> "manual"]
          BY <2>2 DEF Put
    <3>2. whole' \in BOOLEAN /\ (whole' => whole)
          BY <2>2
    <3>3. QED BY <3>1, <3>2
  <2>3. QED BY <2>1, <2>2 DEF FlushNow
<1>5. PipelineTypeOK'
  <2>1. /\ clicked' = clicked /\ counted' = counted /\ sent' = sent /\ restarts' = restarts
        BY DEF FlushNow
  <2>2. slot' \in {NoDay} \cup [day : -1..DayOf(Horizon), by : {"schedule", "manual"}]
        BY <1>3, <1>4 DEF PipelineInv, PipelineTypeOK
  <2>3. QED BY <2>1, <2>2, <1>1, <1>2, <1>4 DEF PipelineInv, PipelineTypeOK
<1>6. QueueInv'
  <2>1. CASE slot' = slot
        BY <1>1, <2>1, QueueFrame DEF PipelineInv
  <2>2. CASE slot' = [day |-> d, by |-> "manual"]
    <3>1. slot'.by # "schedule"
          BY <2>2
    <3>2. QED BY <1>1, <3>1 DEF QueueInv, WorkerInv, ServingInv, SlotInv
  <2>3. QED BY <2>1, <2>2, <1>4
<1>7. DataInv'
      BY <1>1, <1>2, <1>4 DEF FlushNow, PipelineInv, DataInv, WholeInv, SentInv, Today, DayOf
<1>8. QED BY <1>5, <1>6, <1>7

LEMMA ScheduleStep ==
  ASSUME PipelineInv, FireYesterday, TypeOK'
  PROVE  PipelineTypeOK' /\ QueueInv' /\ DataInv'
<1>1. /\ Fire /\ now' = now /\ oldest' = oldest /\ serving' = serving /\ sent' = sent
      /\ clicked' = clicked /\ counted' = counted /\ stored' = stored /\ late' = late
      /\ slot' = [day |-> Yesterday, by |-> "schedule"]
      /\ whole' = (Yesterday = Watched /\ counted = clicked)
      /\ restarts' = restarts
      BY DEF FireYesterday, Fire, Put, data
<1>2. /\ now \in Nat /\ Today \in Nat /\ Yesterday = Today - 1
      /\ Yesterday \in -1..DayOf(Horizon) /\ oldest <= Yesterday
      BY TheDay DEF PipelineInv
<1>3. PipelineTypeOK'
      BY <1>1, <1>2 DEF PipelineInv, PipelineTypeOK
<1>4. SlotInv'
  <2>1. /\ nextAt \in Slots /\ nextAt <= now /\ now <= nextAt + MaxLag
        /\ DayOf(nextAt) = Today
        BY <1>1, FiresOnTheDay DEF PipelineInv
  <2>2. nextAt \in Nat /\ MaxLag \in Nat /\ Longest \in Nat
        BY <2>1, SlotFacts, RetryOffsets
  <2>3. now <= nextAt + MaxLag + Longest
        BY <2>1, <2>2, <1>2
  <2>4. serving # NoDay => serving.since <= nextAt + MaxLag
        BY <2>1, <2>2, <1>2, TheWorker
  <2>5. slot'.day = DayOf(nextAt) - 1
        BY <1>1, <1>2, <2>1
  <2>6. oldest' <= slot'.day
        BY <1>1, <1>2
  <2>7. QED BY <1>1, <2>1, <2>3, <2>4, <2>5, <2>6 DEF SlotInv
<1>5. WorkerInv' /\ ServingInv'
      BY <1>1 DEF PipelineInv, QueueInv, WorkerInv, ServingInv, OnTime, DayOf, Offset
<1>6. DataInv'
  <2>1. WholeInv'
    <3>1. whole' => Yesterday = Watched /\ counted = clicked
          BY <1>1
    <3>2. Today' = Today
          BY <1>1 DEF Today, DayOf
    <3>3. Yesterday = Watched => Watched < Today
          BY <1>2
    <3>4. QED BY <1>1, <3>1, <3>2, <3>3 DEF WholeInv
  <2>2. SentInv'
        BY <1>1 DEF PipelineInv, DataInv, SentInv, Today, DayOf
  <2>3. QED BY <2>1, <2>2 DEF DataInv
<1>7. QED BY <1>3, <1>4, <1>5, <1>6 DEF QueueInv

LEMMA ArmAgainStep ==
  ASSUME PipelineInv, ArmAgain, TypeOK'
  PROVE  PipelineTypeOK' /\ QueueInv' /\ DataInv'
<1>1. now' = now /\ oldest' = oldest
      BY DEF ArmAgain, Arm
<1>2. PipelineTypeOK'
      BY <1>1 DEF ArmAgain, PipelineInv, PipelineTypeOK, data, queue
<1>3. QueueInv'
      BY <1>1, QueueFrame DEF ArmAgain, PipelineInv, queue
<1>4. DataInv'
      BY <1>1 DEF ArmAgain, PipelineInv, DataInv, WholeInv, SentInv, data, queue, Today, DayOf
<1>5. QED BY <1>2, <1>3, <1>4

LEMMA TakeStep ==
  ASSUME PipelineInv, Take
  PROVE  PipelineTypeOK' /\ QueueInv' /\ DataInv'
<1>1. /\ TypeOK' /\ now' = now /\ oldest' = oldest /\ slot # NoDay /\ slot' = NoDay
      /\ serving' = [day |-> slot.day, by |-> slot.by, failures |-> 0, since |-> now]
      /\ clicked' = clicked /\ counted' = counted /\ stored' = stored /\ late' = late
      /\ whole' = whole /\ sent' = sent /\ restarts' = restarts
      BY DEF Take, vars, data, PipelineInv, TimersInv, TypeOK
<1>2. /\ now \in Nat /\ slot.day \in -1..DayOf(Horizon) /\ slot.by \in {"schedule", "manual"}
      /\ 0 \in 0..Len(RetryAt)
      BY <1>1, TheDay, RetryOffsets DEF PipelineInv, PipelineTypeOK
<1>3. PipelineTypeOK'
      BY <1>1, <1>2 DEF PipelineInv, PipelineTypeOK
<1>4. WorkerInv'
  <2>1. Offset(0) = 0
        BY DEF Offset
  <2>2. OnTime([day |-> slot.day, by |-> slot.by, failures |-> 0, since |-> now], now)
        BY <2>1, <1>2 DEF OnTime
  <2>3. OnTime(serving', now')
        BY <2>2, <1>1
  <2>4. QED BY <2>3 DEF WorkerInv, OnTime, Offset
<1>5. ServingInv'
  <2> SUFFICES ASSUME slot.by = "schedule"
               PROVE  /\ oldest <= slot.day
                      /\ \E s \in Slots : /\ slot.day = DayOf(s) - 1
                                          /\ s <= now /\ now <= s + MaxLag + Longest
      BY <1>1 DEF ServingInv, DayOf
  <2>1. QED BY <1>1 DEF PipelineInv, QueueInv, SlotInv
<1>6. SlotInv'
      BY <1>1 DEF SlotInv
<1>7. DataInv'
      BY <1>1 DEF PipelineInv, DataInv, WholeInv, SentInv, Today, DayOf
<1>8. QED BY <1>3, <1>4, <1>5, <1>6, <1>7 DEF QueueInv

\* The worker lets go of its date: what waits behind it still has its time.
LEMMA LetGoStep ==
  ASSUME PipelineInv, LetGo, TypeOK', serving # NoDay,
         stored' \in 0..clicked, late' \subseteq 0..clicked, sent' \in BOOLEAN, whole' = whole
  PROVE  PipelineTypeOK' /\ QueueInv' /\ WholeInv'
<1>1. /\ now' = now /\ oldest' = oldest /\ serving' = NoDay /\ slot' = slot
      /\ clicked' = clicked /\ counted' = counted /\ restarts' = restarts
      BY DEF LetGo, vars
<1>2. PipelineTypeOK'
      BY <1>1 DEF PipelineInv, PipelineTypeOK
<1>3. QueueInv'
      BY <1>1 DEF PipelineInv, QueueInv, WorkerInv, ServingInv, SlotInv, DayOf
<1>4. WholeInv'
      BY <1>1 DEF PipelineInv, DataInv, WholeInv, Today, DayOf
<1>5. QED BY <1>2, <1>3, <1>4

\* A success of the date that was complete stores all of its clicks.
LEMMA SentStep ==
  ASSUME PipelineInv, Sent
  PROVE  PipelineTypeOK' /\ QueueInv' /\ DataInv'
<1>1. /\ TypeOK' /\ serving # NoDay /\ now' = now /\ clicked' = clicked
      /\ sent' = (sent \/ (whole /\ serving.day = Watched /\ serving.by = "schedule"))
      BY DEF Sent, Due, LetGo, vars, PipelineInv, TimersInv, TypeOK
<1>2. stored' \in 0..clicked /\ late' \subseteq 0..clicked /\ (sent => stored' = clicked)
      BY TheTable DEF Sent
<1>3. sent' \in BOOLEAN
      BY <1>1 DEF PipelineInv, PipelineTypeOK
<1>4. PipelineTypeOK' /\ QueueInv' /\ WholeInv'
      BY <1>1, <1>2, <1>3, LetGoStep DEF Sent
<1>5. SentInv'
  <2> SUFFICES ASSUME sent' PROVE stored' = clicked /\ Watched < Today
      BY <1>1 DEF SentInv, Today, DayOf
  <2>1. CASE sent
        BY <2>1, <1>2 DEF PipelineInv, DataInv, SentInv
  <2>2. CASE whole /\ serving.day = Watched /\ serving.by = "schedule"
    <3>1. oldest <= Watched
          BY <2>2, <1>1 DEF PipelineInv, QueueInv, ServingInv
    <3>2. counted = clicked /\ Watched < Today
          BY <2>2, <3>1 DEF PipelineInv, DataInv, WholeInv
    <3>3. stored' = clicked
          BY <2>2, <3>2, TheTable DEF Sent
    <3>4. QED BY <3>2, <3>3
  <2>3. QED BY <2>1, <2>2, <1>1
<1>6. QED BY <1>4, <1>5 DEF DataInv

LEMMA PauseStep ==
  ASSUME PipelineInv, Pause
  PROVE  PipelineTypeOK' /\ QueueInv' /\ DataInv'
<1>1. /\ TypeOK' /\ serving # NoDay /\ now' = now /\ oldest' = oldest /\ slot' = slot
      /\ clicked' = clicked /\ counted' = counted /\ restarts' = restarts
      /\ whole' = whole /\ sent' = sent
      /\ serving' = [serving EXCEPT !.failures = @ + 1]
      /\ now = serving.since + Offset(serving.failures)
      /\ serving.failures < Len(RetryAt)
      BY DEF Pause, Due, RetriesLeft, vars, PipelineInv, TimersInv, TypeOK
<1>2. stored' \in 0..clicked /\ late' \subseteq 0..clicked /\ (sent => stored' = clicked)
      BY TheTable DEF Pause
<1>3. /\ serving \in [day : -1..DayOf(Horizon), by : {"schedule", "manual"},
                      failures : 0..Len(RetryAt), since : 0..now]
      /\ serving.since \in Nat /\ serving.since <= now
      BY <1>1, TheWorker
<1>4. serving.failures \in 0..Len(RetryAt) /\ serving.failures + 1 \in 0..Len(RetryAt)
      BY <1>1, <1>3, RetryOffsets
<1>5. /\ serving' \in [day : -1..DayOf(Horizon), by : {"schedule", "manual"},
                       failures : 0..Len(RetryAt), since : 0..now]
      /\ serving'.day = serving.day /\ serving'.by = serving.by
      /\ serving'.since = serving.since /\ serving'.failures = serving.failures + 1
      BY <1>1, <1>3, <1>4
<1>6. PipelineTypeOK'
      BY <1>1, <1>2, <1>5 DEF PipelineInv, PipelineTypeOK
<1>7. WorkerInv'
  <2>1. /\ Offset(serving.failures) \in Nat /\ Offset(serving.failures + 1) \in Nat
        /\ Offset(serving.failures) < Offset(serving.failures + 1)
        BY <1>1, <1>4, RetryOffsets
  <2>2. now <= serving.since + Offset(serving.failures + 1)
        BY <1>1, <1>3, <2>1, TheDay DEF PipelineInv
  <2>3. OnTime(serving', now')
        BY <1>1, <1>3, <1>5, <2>2 DEF OnTime
  <2>4. QED BY <2>3 DEF WorkerInv, OnTime, Offset
<1>8. ServingInv'
      BY <1>1, <1>5 DEF PipelineInv, QueueInv, ServingInv, DayOf
<1>9. SlotInv'
      BY <1>1, <1>5 DEF PipelineInv, QueueInv, SlotInv, DayOf
<1>10. DataInv'
      BY <1>1, <1>2 DEF PipelineInv, DataInv, WholeInv, SentInv, Today, DayOf
<1>11. QED BY <1>6, <1>7, <1>8, <1>9, <1>10 DEF QueueInv

LEMMA GiveUpStep ==
  ASSUME PipelineInv, GiveUp
  PROVE  PipelineTypeOK' /\ QueueInv' /\ DataInv'
<1>1. /\ TypeOK' /\ serving # NoDay /\ now' = now /\ clicked' = clicked
      /\ sent' = sent /\ whole' = whole
      BY DEF GiveUp, Due, LetGo, vars, PipelineInv, TimersInv, TypeOK
<1>2. stored' \in 0..clicked /\ late' \subseteq 0..clicked /\ (sent => stored' = clicked)
      BY TheTable DEF GiveUp
<1>3. PipelineTypeOK' /\ QueueInv' /\ WholeInv'
  <2>1. sent' \in BOOLEAN
        BY <1>1 DEF PipelineInv, PipelineTypeOK
  <2>2. QED BY <1>1, <1>2, <2>1, LetGoStep DEF GiveUp
<1>4. SentInv'
      BY <1>1, <1>2 DEF PipelineInv, DataInv, SentInv, Today, DayOf
<1>5. QED BY <1>3, <1>4 DEF DataInv

\* A minute passes only when no attempt is due and nothing waits for an idle
\* worker.
LEMMA PassStep ==
  ASSUME PipelineInv, Pass, TypeOK'
  PROVE  PipelineTypeOK' /\ QueueInv' /\ DataInv'
<1>1. /\ Tick /\ now' = now + 1 /\ oldest' = oldest /\ ~Due
      /\ slot = NoDay \/ serving # NoDay
      /\ slot' = slot /\ serving' = serving /\ whole' = whole /\ sent' = sent
      /\ clicked' = clicked /\ counted' = counted /\ stored' = stored /\ late' = late
      /\ restarts' = restarts
      BY DEF Pass, Tick, data, queue
<1>2. now \in Nat /\ MaxLag \in Nat /\ Longest \in Nat
      BY TheDay, SlotFacts, RetryOffsets DEF PipelineInv
<1>3. ASSUME serving # NoDay
      PROVE  /\ serving \in [day : -1..DayOf(Horizon), by : {"schedule", "manual"},
                             failures : 0..Len(RetryAt), since : 0..(now + 1)]
             /\ OnTime(serving, now + 1)
             /\ now + 1 <= serving.since + Longest
             /\ serving.since \in Nat
  <2>1. /\ serving \in [day : -1..DayOf(Horizon), by : {"schedule", "manual"},
                        failures : 0..Len(RetryAt), since : 0..now]
        /\ serving.since \in Nat /\ serving.since <= now
        /\ Offset(serving.failures) \in Nat
        /\ now <= serving.since + Offset(serving.failures)
        BY <1>3, TheWorker
  <2>2. now # serving.since + Offset(serving.failures)
        BY <1>1, <1>3 DEF Due
  <2>3. now + 1 <= serving.since + Offset(serving.failures)
        BY <1>2, <2>1, <2>2
  <2>4. Offset(serving.failures) <= Longest
        BY <2>1, RetryOffsets
  <2>5. QED BY <1>2, <2>1, <2>3, <2>4 DEF OnTime
<1>4. PipelineTypeOK'
      BY <1>1, <1>3 DEF PipelineInv, PipelineTypeOK
<1>5. WorkerInv'
  <2>1. serving # NoDay => OnTime(serving, now')
        BY <1>1, <1>3
  <2>2. QED BY <2>1, <1>1 DEF WorkerInv, OnTime, Offset
<1>6. ServingInv'
      BY <1>1 DEF PipelineInv, QueueInv, ServingInv, DayOf
<1>7. SlotInv'
  <2> SUFFICES ASSUME slot # NoDay, slot.by = "schedule"
               PROVE  /\ oldest <= slot.day
                      /\ \E s \in Slots : /\ slot.day = DayOf(s) - 1
                                          /\ s <= now' /\ now' <= s + MaxLag + Longest
                                          /\ serving # NoDay => serving.since <= s + MaxLag
      BY <1>1 DEF SlotInv, DayOf
  <2>1. PICK s \in Slots : /\ slot.day = DayOf(s) - 1
                           /\ s <= now
                           /\ serving.since <= s + MaxLag
        BY <1>1 DEF PipelineInv, QueueInv, SlotInv
  <2>2. s \in Nat
        BY SlotFacts
  <2>3. s <= now + 1 /\ now + 1 <= s + MaxLag + Longest
        BY <1>1, <1>2, <1>3, <2>1, <2>2
  <2>4. oldest <= slot.day
        BY DEF PipelineInv, QueueInv, SlotInv
  <2>5. QED BY <1>1, <2>1, <2>3, <2>4
<1>8. DataInv'
  <2>1. Today <= Today' /\ Today \in Nat /\ Today' \in Nat
    <3>1. now + 1 \in Nat /\ now <= now + 1
          BY <1>2
    <3>2. DayOf(now) <= DayOf(now + 1) /\ DayOf(now) \in Nat /\ DayOf(now + 1) \in Nat
          BY <3>1, <1>2, Days, DaysOrdered
    <3>3. QED BY <3>2, <1>1 DEF Today, DayOf
  <2>2. Watched < Today => Watched < Today'
        BY <2>1, PipelineAssumption
  <2>3. QED BY <1>1, <2>2 DEF PipelineInv, DataInv, WholeInv, SentInv
<1>9. QED BY <1>4, <1>5, <1>6, <1>7, <1>8 DEF QueueInv

\* The cleanup.
LEMMA CleanDayStep ==
  ASSUME PipelineInv, CleanDay, TypeOK'
  PROVE  PipelineTypeOK' /\ QueueInv' /\ DataInv'
<1>1. /\ Clean /\ now' = now /\ oldest' = CleanupKeeps(now)
      /\ slot' = slot /\ serving' = serving /\ whole' = whole /\ sent' = sent
      /\ clicked' = clicked /\ stored' = stored /\ late' = late
      /\ counted' = IF Watched < CleanupKeeps(now) THEN 0 ELSE counted
      /\ restarts' = restarts
      BY DEF CleanDay, Clean, queue
<1>2. /\ now \in Nat /\ CleanupKeeps(now) \in Int /\ oldest \in Int /\ oldest <= CleanupKeeps(now)
      /\ MaxLag \in Nat /\ Longest \in Nat
      BY TheDay, SlotFacts, RetryOffsets DEF PipelineInv, CleanupKeeps, Yesterday, Today
<1>3. PipelineTypeOK'
  <2>1. counted' \in 0..clicked
        BY <1>1, PipelineAssumption DEF PipelineInv, PipelineTypeOK
  <2>2. QED BY <1>1, <2>1 DEF PipelineInv, PipelineTypeOK
<1>4. ServingInv'
  <2> SUFFICES ASSUME serving # NoDay, serving.by = "schedule"
               PROVE  CleanupKeeps(now) <= serving.day
      BY <1>1 DEF PipelineInv, QueueInv, ServingInv, DayOf
  <2>1. PICK s \in Slots : /\ serving.day = DayOf(s) - 1
                           /\ s <= serving.since /\ serving.since <= s + MaxLag + Longest
        BY DEF PipelineInv, QueueInv, ServingInv
  <2>2. serving.since \in Nat /\ serving.since <= now /\ now <= serving.since + Longest /\ s \in Nat
        BY TheWorker, SlotFacts
  <2>3. s <= now /\ now <= s + MaxLag + 2 * Longest
        BY <2>1, <2>2, <1>2
  <2>4. QED BY <1>1, <2>1, <2>3, CleanupSpares DEF PipelineInv
<1>5. SlotInv'
  <2> SUFFICES ASSUME slot # NoDay, slot.by = "schedule"
               PROVE  CleanupKeeps(now) <= slot.day
      BY <1>1 DEF PipelineInv, QueueInv, SlotInv, DayOf
  <2>1. PICK s \in Slots : /\ slot.day = DayOf(s) - 1
                           /\ s <= now /\ now <= s + MaxLag + Longest
        BY DEF PipelineInv, QueueInv, SlotInv
  <2>2. now <= s + MaxLag + 2 * Longest
        BY <2>1, <1>2, SlotFacts
  <2>3. QED BY <1>1, <2>1, <2>2, CleanupSpares DEF PipelineInv
<1>6. WorkerInv'
      BY <1>1 DEF PipelineInv, QueueInv, WorkerInv, OnTime, Offset
<1>7. DataInv'
  <2>1. Today' = Today
        BY <1>1 DEF Today, DayOf
  <2>2. WholeInv'
    <3> SUFFICES ASSUME whole, CleanupKeeps(now) <= Watched
                 PROVE  counted' = clicked /\ Watched < Today
        BY <1>1, <2>1 DEF WholeInv
    <3>1. oldest <= Watched /\ ~(Watched < CleanupKeeps(now))
          BY <1>2, PipelineAssumption
    <3>2. QED BY <1>1, <3>1 DEF PipelineInv, DataInv, WholeInv
  <2>3. SentInv'
        BY <1>1, <2>1 DEF PipelineInv, DataInv, SentInv
  <2>4. QED BY <2>2, <2>3 DEF DataInv
<1>8. QED BY <1>3, <1>4, <1>5, <1>6, <1>7 DEF QueueInv

\* A restart forgets the queue and the counts, not the table.
LEMMA RestartQueueStep ==
  ASSUME PipelineInv, Restart, TypeOK'
  PROVE  PipelineTypeOK' /\ QueueInv' /\ DataInv'
<1>1. /\ now' = now /\ slot' = NoDay /\ serving' = NoDay /\ ~whole' /\ whole' \in BOOLEAN
      /\ sent' = sent /\ clicked' = clicked /\ counted' = 0 /\ stored' = stored /\ late' = late
      /\ restarts < MaxRestarts /\ restarts' = restarts + 1
      BY DEF Restart
<1>2. counted' \in 0..clicked /\ restarts' \in 0..MaxRestarts
      BY <1>1, PipelineAssumption DEF PipelineInv, PipelineTypeOK
<1>3. PipelineTypeOK'
      BY <1>1, <1>2 DEF PipelineInv, PipelineTypeOK
<1>4. QueueInv'
      BY <1>1 DEF QueueInv, WorkerInv, ServingInv, SlotInv
<1>5. DataInv'
      BY <1>1 DEF PipelineInv, DataInv, WholeInv, SentInv, Today, DayOf
<1>6. QED BY <1>3, <1>4, <1>5

LEMMA PipelineInitInv == PipelineInit => PipelineInv
<1> SUFFICES ASSUME PipelineInit PROVE PipelineInv
    OBVIOUS
<1>1. TimersInv
      BY TimersInit DEF PipelineInit
<1>2. PipelineTypeOK
  <2>1. /\ clicked \in 0..MaxClicks /\ counted \in 0..clicked /\ stored \in 0..clicked
        /\ restarts \in 0..MaxRestarts
        BY PipelineAssumption DEF PipelineInit
  <2>2. late \subseteq 0..clicked
        BY DEF PipelineInit
  <2>3. whole \in BOOLEAN /\ sent \in BOOLEAN
        BY DEF PipelineInit
  <2>4. slot = NoDay /\ serving = NoDay
        BY DEF PipelineInit
  <2>5. QED BY <1>1, <2>1, <2>2, <2>3, <2>4 DEF PipelineTypeOK, TimersInv
<1>3. QueueInv /\ DataInv
      BY DEF PipelineInit, QueueInv, WorkerInv, ServingInv, SlotInv, DataInv, WholeInv, SentInv
<1>4. QED BY <1>1, <1>2, <1>3 DEF PipelineInv

LEMMA PipelineStep == PipelineInv /\ [PipelineNext]_allVars => PipelineInv'
<1> SUFFICES ASSUME PipelineInv, [PipelineNext]_allVars PROVE PipelineInv'
    OBVIOUS
<1>1. TimersInv' /\ TypeOK'
      BY PipelineTimers DEF PipelineInv, TimersInv
<1>2. PipelineTypeOK' /\ QueueInv' /\ DataInv'
  <2>1. CASE UNCHANGED allVars
    <3>1. /\ now' = now /\ oldest' = oldest /\ slot' = slot /\ serving' = serving
          /\ clicked' = clicked /\ counted' = counted /\ stored' = stored /\ late' = late
          /\ whole' = whole /\ sent' = sent /\ restarts' = restarts
          BY <2>1 DEF allVars, vars, data, queue
    <3>2. PipelineTypeOK'
          BY <1>1, <3>1 DEF PipelineInv, PipelineTypeOK
    <3>3. DataInv'
          BY <3>1 DEF PipelineInv, DataInv, WholeInv, SentInv, Today, DayOf
    <3>4. QED BY <3>1, <3>2, <3>3, QueueFrame DEF PipelineInv
  <2>2. CASE Click \/ Count \/ (\E count \in late : ArrivesLate(count))
        BY <2>2, ClickStep, CountStep, LateStep
  <2>3. CASE FireYesterday \/ ArmAgain \/ (\E d \in {Today, Yesterday} : FlushNow(d))
        BY <2>3, <1>1, ScheduleStep, ArmAgainStep, FlushStep
  <2>4. CASE Take \/ Sent \/ Pause \/ GiveUp
        BY <2>4, TakeStep, SentStep, PauseStep, GiveUpStep
  <2>5. CASE Pass \/ CleanDay \/ Restart
        BY <2>5, <1>1, PassStep, CleanDayStep, RestartQueueStep
  <2>6. QED BY <2>1, <2>2, <2>3, <2>4, <2>5 DEF PipelineNext
<1>3. QED BY <1>1, <1>2 DEF PipelineInv

\* The timers', the queue's and the data's invariant holds in every state.
THEOREM Invariance == PipelineSpec => []PipelineInv
BY PipelineInitInv, PipelineStep, PTL DEF PipelineSpec

-----------------------------------------------------------------------------
(* The properties.                                                         *)

\* What the timers' invariant implies.
LEMMA TimersImply == TimersInv => TypeOK /\ EverySlotServed /\ OncePerSlot /\ CleanedInTime
<1> SUFFICES ASSUME TimersInv PROVE TypeOK /\ EverySlotServed /\ OncePerSlot /\ CleanedInTime
    OBVIOUS
<1>1. now \in Nat /\ nextAt \in Nat /\ now <= nextAt + MaxLag /\ MaxLag \in Nat /\ CleanupMinute \in Nat
      BY AtTheTimer, SlotFacts
<1>2. EverySlotServed
  <2> SUFFICES ASSUME NEW s \in Slots, s + MaxLag + 1 = now, age = Memory
               PROVE  \E t \in Served(s) : sends[t] > 0 /\ DayOf(t) = DayOf(s)
      BY DEF EverySlotServed
  <2>1. s \in Nat /\ now < age + s /\ s <= now /\ nextAt # s
        BY <1>1, SlotFacts
  <2>2. PICK t \in Served(s) : sends[t] > 0
        BY <2>1 DEF TimersInv, SlotsInv
  <2>3. t \in Nat /\ s <= t /\ t <= s + MaxLag
        BY <1>1, <2>1, SlotFacts DEF Served
  <2>4. MidnightOf(s) <= t /\ t < MidnightOf(s) + DayLength
    <3>1. MidnightOf(s) \in Nat /\ MidnightOf(s) <= s /\ DayLength \in Nat
          BY <2>1, Days
    <3>2. s + MaxLag < MidnightOf(s) + DayLength
          BY SlotFacts
    <3>3. QED BY <1>1, <2>1, <2>3, <3>1, <3>2
  <2>5. QED BY <2>1, <2>2, <2>3, <2>4, SameDay
<1>3. OncePerSlot
      BY DEF TimersInv, SendsInv, OncePerSlot
<1>4. CleanedInTime
      BY <1>1, TheDay, Days DEF TimersInv, CleanInv, CleanedInTime, Yesterday, Today
<1>5. QED BY <1>2, <1>3, <1>4 DEF TimersInv

\* EverySlotServed, OncePerSlot and CleanedInTime of the two loops alone,
\* started at any time of the first day: RunScheduler uses each time of the
\* schedule once, RunCleanup keeps yesterday and drops what is older.
THEOREM TimersCorrect ==
  Spec => [](TypeOK /\ EverySlotServed /\ OncePerSlot /\ CleanedInTime)
BY TimersAlone, TimersImply, PTL

\* PipelineTypeOK: nothing is counted, stored or on its way that was not clicked.
THEOREM TypeCorrect == PipelineSpec => []PipelineTypeOK
<1>1. PipelineInv => PipelineTypeOK
      BY DEF PipelineInv
<1>2. QED BY <1>1, Invariance, PTL

\* EverySlotServed: with restarts at any time, each time of the schedule since
\* the last one has been used, for the day before it.
THEOREM ScheduleComplete == PipelineSpec => []EverySlotServed
<1>1. PipelineInv => EverySlotServed
      BY TimersImply DEF PipelineInv
<1>2. QED BY <1>1, Invariance, PTL

\* OncePerSlot: the timer never fires twice for the same time of the schedule,
\* nor at another one.
THEOREM ScheduleOnce == PipelineSpec => []OncePerSlot
<1>1. PipelineInv => OncePerSlot
      BY TimersImply DEF PipelineInv
<1>2. QED BY <1>1, Invariance, PTL

\* CleanedInTime: the cleanup never drops yesterday, and is never late by more
\* than its timer.
THEOREM CleanupCorrect == PipelineSpec => []CleanedInTime
<1>1. PipelineInv => CleanedInTime
      BY TimersImply DEF PipelineInv
<1>2. QED BY <1>1, Invariance, PTL

\* ScheduledIsKept: a date of the schedule is in the Tracker until its last
\* retry, behind another date's retries too.
THEOREM DatesAreKept == PipelineSpec => []ScheduledIsKept
<1>1. PipelineInv => ScheduledIsKept
      BY DEF PipelineInv, QueueInv, ServingInv, SlotInv, ScheduledIsKept
<1>2. QED BY <1>1, Invariance, PTL

\* SentIsComplete: when the schedule found a day complete and its flush ended
\* without an error, the table has all of its clicks from then on.
THEOREM CompleteDayIsStored == PipelineSpec => []SentIsComplete
<1>1. PipelineInv => SentIsComplete
      BY DEF PipelineInv, DataInv, SentInv, SentIsComplete
<1>2. QED BY <1>1, Invariance, PTL

-----------------------------------------------------------------------------
(* The table that the flushes fill is the gateway's: StatsTable with one   *)
(* row, which is there as soon as something is stored.                     *)

OneCount(n) == <<[author |-> 1, count |-> n]>>
OneRow == [k \in {1} \X {Watched} |-> IF stored = 0 THEN -1 ELSE stored]

Table == INSTANCE StatsTable WITH
           AuthorIds <- {1}, Dates <- {Watched},
           Batches <- {OneCount(n) : n \in 1..MaxClicks}, table <- OneRow

\* Nothing is sent of a day without clicks.
LateInv == late \subseteq 1..clicked

\* What may happen to the row.
Upserted == \E n \in 1..MaxClicks : stored' = Stores(n)

LEMMA AttemptUpserts ==
  ASSUME PipelineInv, LateInv, NEW d, Succeeds(d) \/ Fails(d), clicked' = clicked
  PROVE  (stored' = stored \/ Upserted) /\ LateInv'
<1>1. /\ clicked \in Nat /\ clicked <= MaxClicks /\ MaxClicks \in Nat
      /\ counted \in Nat /\ counted <= clicked
      BY PipelineAssumption DEF PipelineInv, PipelineTypeOK
<1>2. CASE Succeeds(d)
  <2>1. stored' = stored \/ (counted > 0 /\ stored' = Stores(counted))
        BY <1>2 DEF Succeeds
  <2>2. counted > 0 => counted \in 1..MaxClicks
        BY <1>1
  <2>3. LateInv'
        BY <1>2 DEF Succeeds, LateInv
  <2>4. QED BY <2>1, <2>2, <2>3 DEF Upserted
<1>3. CASE Fails(d)
  <2>1. late' = late \/ (d = Watched /\ late' = late \cup {counted})
        BY <1>3 DEF Fails
  <2>2. d = Watched => counted \in 1..clicked
        BY <1>1, <1>3 DEF Fails
  <2>3. LateInv'
        BY <2>1, <2>2 DEF LateInv
  <2>4. QED BY <1>3, <2>3 DEF Fails
<1>4. QED BY <1>2, <1>3

LEMMA StepUpserts ==
  ASSUME PipelineInv, LateInv, [PipelineNext]_allVars
  PROVE  (stored' = stored \/ Upserted) /\ LateInv'
<1>1. clicked \in Nat /\ clicked <= MaxClicks /\ MaxClicks \in Nat
      BY PipelineAssumption DEF PipelineInv, PipelineTypeOK
<1>2. CASE Click
  <2>1. stored' = stored /\ late' = late /\ clicked' = clicked + 1
        BY <1>2 DEF Click
  <2>2. QED BY <1>1, <2>1 DEF LateInv
<1>3. ASSUME NEW count \in late, ArrivesLate(count)
      PROVE  (stored' = stored \/ Upserted) /\ LateInv'
  <2>1. stored' = Stores(count) /\ late' = late \ {count} /\ clicked' = clicked
        BY <1>3 DEF ArrivesLate
  <2>2. count \in 1..MaxClicks
        BY <1>1, <1>3 DEF LateInv
  <2>3. QED BY <2>1, <2>2 DEF LateInv, Upserted
<1>4. ASSUME NEW d, FlushNow(d)
      PROVE  (stored' = stored \/ Upserted) /\ LateInv'
      BY <1>4, AttemptUpserts DEF FlushNow
<1>5. CASE Sent \/ Pause \/ GiveUp
  <2>1. (Succeeds(serving.day) \/ Fails(serving.day)) /\ clicked' = clicked
        BY <1>5 DEF Sent, Pause, GiveUp, LetGo
  <2>2. QED BY <2>1, AttemptUpserts
<1>6. CASE \/ Count \/ FireYesterday \/ ArmAgain \/ Take \/ Pass \/ CleanDay \/ Restart
           \/ UNCHANGED allVars
  <2>1. stored' = stored /\ late' = late /\ clicked' = clicked
        BY <1>6 DEF Count, FireYesterday, ArmAgain, Take, Pass, CleanDay, Restart, allVars, data
  <2>2. QED BY <2>1 DEF LateInv
<1>7. QED BY <1>2, <1>3, <1>4, <1>5, <1>6 DEF PipelineNext

\* An upsert of the row is a Save of its batch.
LEMMA UpsertSaves ==
  ASSUME stored \in Nat, NEW n \in 1..MaxClicks, MaxClicks \in Nat, stored' = Stores(n)
  PROVE  Table!Save(OneCount(n), Watched)
<1> DEFINE batch == OneCount(n)
           key   == <<1, Watched>>
<1>1. DOMAIN batch = {1} /\ batch[1].author = 1 /\ batch[1].count = n
      BY DEF OneCount
<1>2. Table!Keys = {key}
      BY DEF Table!Keys
<1>3. Table!CountsFor(batch, Watched, key) = {n}
  <2>1. {j \in DOMAIN batch : key = <<batch[j].author, Watched>>} = {1}
        BY <1>1
  <2>2. QED BY <1>1, <2>1 DEF Table!CountsFor
<1>4. /\ OneRow = [k \in {key} |-> IF stored = 0 THEN -1 ELSE stored]
      /\ OneRow' = [k \in {key} |-> IF stored' = 0 THEN -1 ELSE stored']
      BY DEF OneRow
<1>5. /\ OneRow[key] = IF stored = 0 THEN -1 ELSE stored
      /\ OneRow'[key] = IF stored' = 0 THEN -1 ELSE stored'
      BY <1>4
<1>6. /\ OneRow'[key] \in {n, OneRow[key]}
      /\ n <= OneRow'[key] /\ OneRow[key] <= OneRow'[key]
      BY <1>5 DEF Stores
<1>7. OneRow' \in [{key} -> {OneRow[k] : k \in {key}} \cup {batch[i].count : i \in DOMAIN batch}]
  <2>1. n \in {batch[i].count : i \in DOMAIN batch}
        BY <1>1
  <2>2. QED BY <1>4, <1>5, <1>6, <2>1
<1>8. \A k \in {key} :
        LET candidates == Table!CountsFor(batch, Watched, k) \cup {OneRow[k]}
        IN /\ OneRow'[k] \in candidates
           /\ \A m \in candidates : m <= OneRow'[k]
      BY <1>3, <1>6
<1>9. QED BY <1>2, <1>7, <1>8 DEF Table!Save

(* The pipeline fills a StatsTable: attempts, late requests and restarts    *)
(* together never do more to the table than the gateway's interface, which  *)
(* StorageGateway implements (its RefinesTable).                            *)
THEOREM FillsTheTable == PipelineSpec => Table!Spec
<1>1. PipelineInit => LateInv /\ Table!Init
  <2> SUFFICES ASSUME PipelineInit PROVE LateInv /\ Table!Init
      OBVIOUS
  <2>1. stored = 0 /\ late = {}
        BY DEF PipelineInit
  <2>2. OneRow = [k \in {1} \X {Watched} |-> -1]
        BY <2>1 DEF OneRow
  <2>3. QED BY <2>1, <2>2 DEF LateInv, Table!Init, Table!Keys, Table!NoRow
<1>2. PipelineInv /\ LateInv /\ [PipelineNext]_allVars => LateInv' /\ [Table!Next]_OneRow
  <2> SUFFICES ASSUME PipelineInv, LateInv, [PipelineNext]_allVars
               PROVE  LateInv' /\ [Table!Next]_OneRow
      OBVIOUS
  <2>1. (stored' = stored \/ Upserted) /\ LateInv'
        BY StepUpserts
  <2>2. stored \in Nat /\ MaxClicks \in Nat
        BY PipelineAssumption DEF PipelineInv, PipelineTypeOK
  <2>3. CASE stored' = stored
        BY <2>1, <2>3 DEF OneRow
  <2>4. CASE Upserted
    <3>1. PICK n \in 1..MaxClicks : stored' = Stores(n)
          BY <2>4 DEF Upserted
    <3>2. Table!Save(OneCount(n), Watched)
          BY <2>2, <3>1, UpsertSaves
    <3>3. Table!Next
          BY <3>1, <3>2 DEF Table!Next
    <3>4. QED BY <2>1, <3>3
  <2>5. QED BY <2>1, <2>3, <2>4
<1>3. QED BY <1>1, <1>2, PipelineInitInv, Invariance, PTL DEF PipelineSpec, Table!Spec
=============================================================================
