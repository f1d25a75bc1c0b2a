------------------------------ MODULE Scheduler ------------------------------
(***************************************************************************)
(* ClickCounter: RunScheduler sends yesterday's counts at fixed times of   *)
(* the day, RunCleanup drops the days before yesterday once a day          *)
(* (scheduler.go).  Both compute a wait from the clock, sleep, and read    *)
(* the clock again when they wake up, which may be late.                   *)
(*                                                                         *)
(* Time is in minutes of UTC since some midnight.  A goroutine acts within *)
(* MaxLag minutes of its timer; what it calls takes no time.               *)
(***************************************************************************)
EXTENDS Integers, Sequences, SequencesExt, FiniteSetsExt

CONSTANTS HourLength, HoursPerDay,  \* 60 and 24
          Hours, Minute,            \* cfg.Hours (a sequence), cfg.Minute
          CleanupMinute,            \* the cleanup is at 00:06
          MaxLag,                   \* minutes between a timer and what follows it
          Horizon                   \* bound: the last minute

DayLength == HourLength * HoursPerDay
DayOf(t) == t \div DayLength
MidnightOf(t) == DayOf(t) * DayLength

Slots == {t \in 0..Horizon :
            \E i \in DOMAIN Hours : t - MidnightOf(t) = Hours[i] * HourLength + Minute}

\* config.go does not check the schedule: these are its default's properties.
\* A timer is served before the next slot, and before midnight.
ASSUME ScheduleAssumption ==
  /\ HourLength \in Nat \ {0} /\ HoursPerDay \in Nat \ {0}
  /\ Hours \in Seq(0..(HoursPerDay - 1)) /\ Hours # <<>>
  /\ Minute \in 0..(HourLength - 1)
  /\ CleanupMinute \in 0..(HourLength - 1)
  /\ MaxLag \in Nat /\ Horizon \in Nat /\ DayLength <= Horizon
  /\ CleanupMinute + MaxLag < DayLength
  /\ \A s \in Slots : /\ s + MaxLag < MidnightOf(s) + DayLength
                      /\ \A t \in Slots : s < t => s + MaxLag < t

\* A slot and the minutes in which its timer may be served.
Memory == MaxLag + 2

VARIABLES now,      \* the clock
          age,      \* minutes since the service was started, up to Memory
          phase,    \* of RunScheduler: "waiting" for its timer, or at the loop's "top"
          nextAt,   \* when its timer fires
          sends,    \* SendAsync's calls in each of the last Memory minutes
          cleanAt,  \* when the timer of RunCleanup fires
          oldest    \* the oldest day the Tracker may hold

vars == <<now, age, phase, nextAt, sends, cleanAt, oldest>>

-----------------------------------------------------------------------------
Candidate_NotBefore(t, h) ==        \* mutant: a slot of this very minute counts
  LET today == MidnightOf(t) + h * HourLength + Minute
  IN IF today >= t THEN today ELSE today + DayLength

\* When h:Minute comes next.
Candidate(t, h) ==
  LET today == MidnightOf(t) + h * HourLength + Minute
  IN IF today > t THEN today ELSE today + DayLength

UntilNextFrom_Last(t) == Candidate(t, Last(Hours)) - t   \* mutant: no minimum

\* The wait until the first of them.
UntilNextFrom(t) == Min({Candidate(t, Hours[i]) - t : i \in DOMAIN Hours})

\* 00:06 of the next day, also before 00:06.
NextCleanup(t) == MidnightOf(t) + DayLength + CleanupMinute

Init == /\ now \in 0..(DayLength - 1)
        /\ age = 0
        /\ phase = "waiting"
        /\ nextAt = now + UntilNextFrom(now)
        /\ sends = [t \in 0..Horizon |-> 0]
        /\ cleanAt = NextCleanup(now)
        /\ oldest = DayOf(now) - 1

Tick == /\ now < Horizon
        /\ now < nextAt + MaxLag
        /\ now < cleanAt + MaxLag
        /\ now' = now + 1
        /\ age' = IF age < Memory THEN age + 1 ELSE age
        /\ sends' = [t \in 0..Horizon |-> IF t + Memory > now' THEN sends[t] ELSE 0]
        /\ UNCHANGED <<phase, nextAt, cleanAt, oldest>>

\* The timer fires: SendAsync(yesterday).
Fire == /\ phase = "waiting"
        /\ now >= nextAt
        /\ sends[now] < 2           \* bound: enough to see a slot served twice
        /\ sends' = [sends EXCEPT ![now] = @ + 1]
        /\ phase' = "top"
        /\ UNCHANGED <<now, age, nextAt, cleanAt, oldest>>

\* The top of the loop: a new timer.
Arm == /\ phase = "top"
       /\ phase' = "waiting"
       /\ nextAt' = now + UntilNextFrom(now)
       /\ UNCHANGED <<now, age, sends, cleanAt, oldest>>

CleanupKeeps_Today(t) == DayOf(t)   \* mutant: only today is kept
CleanupKeeps(t) == DayOf(t) - 1

\* RunCleanup wakes up, cleans, and sets its next timer.
Clean == /\ now >= cleanAt
         /\ oldest' = CleanupKeeps(now)
         /\ cleanAt' = NextCleanup(now)
         /\ UNCHANGED <<now, age, phase, nextAt, sends>>

Next == Tick \/ Fire \/ Arm \/ Clean

Spec == Init /\ [][Next]_vars

-----------------------------------------------------------------------------
TypeOK == /\ now \in 0..Horizon
          /\ age \in 0..Memory
          /\ phase \in {"waiting", "top"}
          /\ nextAt \in 1..(Horizon + DayLength)
          /\ sends \in [0..Horizon -> 0..2]
          /\ cleanAt \in DayLength..(Horizon + 2 * DayLength)
          /\ oldest \in -1..DayOf(Horizon)

\* The minutes in which the timer of a slot may be served.
Served(s) == {t \in 0..Horizon : t \in s..(s + MaxLag)}

\* Each time of the schedule that has come since the start has been used, for
\* the day before it: sleeping, waking up late and arming again skip none.
EverySlotServed ==
  \A s \in Slots : s + MaxLag + 1 = now /\ age = Memory =>
    \E t \in Served(s) : sends[t] > 0 /\ DayOf(t) = DayOf(s)

\* ... and only once, and at no other time: the minute of a slot in which the
\* timer has fired does not arm it again (the candidate must be after now).
OncePerSlot ==
  \A t \in 0..Horizon : sends[t] > 0 =>
    /\ sends[t] = 1
    /\ \E s \in Slots : t \in Served(s) /\ \A u \in Served(s) \ {t} : sends[u] = 0

\* Yesterday, which the schedule sends all day long, is kept whenever the
\* cleanup runs relative to it, and what is older is gone after the cleanup.
CleanedInTime ==
  /\ oldest <= DayOf(now) - 1
  /\ now > MidnightOf(now) + CleanupMinute + MaxLag => oldest = DayOf(now) - 1
=============================================================================
