------------------------------ MODULE Pipeline ------------------------------
(***************************************************************************)
(* The way of one day's clicks into the gateway's table, in time: Consumer *)
(* and Tracker count them, RunScheduler and manual flushes have the Sender *)
(* send the counts, its worker retries in minutes, RunCleanup drops days   *)
(* from the Tracker, requests that timed out arrive late, and ClickCounter *)
(* is restarted, which empties its memory.                                 *)
(*                                                                         *)
(* Counts are those of one author on the day Watched; flushes of other     *)
(* days succeed or fail.  The Sender is the mailbox of FlushQueue, the     *)
(* gateway the table of StatsTable, the Tracker what Tracker shows.  An    *)
(* attempt takes less than a minute, and so does a restart; what is due in *)
(* a minute, timers of Scheduler excepted, is done in it.                  *)
(***************************************************************************)
EXTENDS Scheduler

CONSTANTS Watched,
          RetryAt,      \* cfg.Delays of the Sender added up: the minutes between
                        \* the first attempt and each retry
          NoDay,
          MaxClicks, MaxRestarts  \* bounds

\* Minutes from the first attempt to the one after so many failures.
Offset(failures) == IF failures = 0 THEN 0 ELSE RetryAt[failures]

\* How long the worker keeps a date.
Longest == Offset(Len(RetryAt))

\* What is not checked in config.go either: a date that is queued behind
\* another one is through with its retries before it is cleaned up.
ASSUME PipelineAssumption ==
  /\ Watched \in Int
  /\ RetryAt \in Seq(Nat \ {0})
  /\ \A i, j \in DOMAIN RetryAt : i < j => RetryAt[i] < RetryAt[j]
  /\ MaxClicks \in Nat /\ MaxRestarts \in Nat
  /\ \A s \in Slots :
       s + MaxLag + 2 * Longest < MidnightOf(s) + DayLength + CleanupMinute

VARIABLES clicked,   \* users in the topic, of the author and the day Watched
          counted,   \* those the Tracker holds
          stored,    \* the clicks in the table
          late,      \* counts of requests that timed out and may still arrive
          slot,      \* [day, by]: `pending`, or NoDay
          serving,   \* [day, by, failures, since]: the worker's date, or NoDay
          whole,     \* the worker or the slot has the day Watched from a tick
                     \* of the schedule that found all of its clicks counted
          sent,      \* ... and the worker has let go of it without an error
          restarts

data  == <<clicked, counted, stored, late>>
queue == <<slot, serving, whole, sent>>
allVars == <<vars, data, queue, restarts>>

PipelineInit == /\ Init /\ now = 0
                /\ clicked = 0 /\ counted = 0 /\ stored = 0 /\ late = {}
                /\ slot = NoDay /\ serving = NoDay
                /\ whole = FALSE /\ sent = FALSE
                /\ restarts = 0

Today == DayOf(now)
Yesterday == Today - 1

-----------------------------------------------------------------------------
(* Clicks.                                                                 *)

Click == /\ Today = Watched
         /\ clicked < MaxClicks
         /\ clicked' = clicked + 1
         /\ UNCHANGED <<vars, counted, stored, late, queue, restarts>>

\* AddClickAt takes those of today and yesterday.
Count == /\ counted < clicked
         /\ Watched \in {Today, Yesterday}
         /\ counted' = counted + 1
         /\ UNCHANGED <<vars, clicked, stored, late, queue, restarts>>

-----------------------------------------------------------------------------
(* One attempt: flushOnce, SendStats, and the gateway's upsert.            *)

Stores_Always(count) == count           \* mutant: no WHERE clause
\* WHERE stats.clicks < EXCLUDED.clicks
Stores(count) == IF stored < count THEN count ELSE stored

\* No data is a success.
Succeeds(d) == /\ stored' = IF d = Watched /\ counted > 0 THEN Stores(counted) ELSE stored
               /\ late' = late

\* The request is lost, or the answer does not come in time.
Fails(d) == /\ d = Watched => counted > 0
            /\ late' \in {late} \cup {l \in {late \cup {counted}} : d = Watched}
            /\ stored' = stored

\* A request that timed out is carried out, in whatever order, or never.
ArrivesLate(count) == /\ count \in late
                      /\ late' = late \ {count}
                      /\ stored' = Stores(count)
                      /\ UNCHANGED <<vars, clicked, counted, queue, restarts>>

-----------------------------------------------------------------------------
(* The Sender.                                                             *)

Put(d, by) == slot' = [day |-> d, by |-> by]

\* RunScheduler's timer: SendAsync(yesterday).
FireYesterday ==
  /\ Fire
  /\ Put(Yesterday, "schedule")
  /\ whole' = (Yesterday = Watched /\ counted = clicked)
  /\ UNCHANGED <<data, serving, sent, restarts>>

\* SendNow: 503 while the worker flushes; a failure is queued.
FlushNow(d) ==
  /\ serving = NoDay
  /\ \/ Succeeds(d) /\ UNCHANGED <<slot, whole>>
     \/ Fails(d) /\ Put(d, "manual") /\ whole' = FALSE
  /\ UNCHANGED <<vars, clicked, counted, serving, sent, restarts>>

\* The worker takes the date and makes its first attempt at once.
Take == /\ serving = NoDay /\ slot # NoDay
        /\ serving' = [day |-> slot.day, by |-> slot.by, failures |-> 0, since |-> now]
        /\ slot' = NoDay
        /\ UNCHANGED <<vars, data, whole, sent, restarts>>

\* The timer of the next attempt has fired.
Due == serving # NoDay /\ now = serving.since + Offset(serving.failures)

LetGo == serving' = NoDay /\ UNCHANGED <<vars, clicked, counted, slot, restarts>>

\* The date is done.
Sent == /\ Due
        /\ Succeeds(serving.day)
        /\ sent' = (sent \/ (whole /\ serving.day = Watched /\ serving.by = "schedule"))
        /\ UNCHANGED whole
        /\ LetGo

RetriesLeft == serving.failures < Len(RetryAt)

Pause == /\ Due /\ RetriesLeft
         /\ Fails(serving.day)
         /\ serving' = [serving EXCEPT !.failures = @ + 1]
         /\ UNCHANGED <<vars, clicked, counted, slot, whole, sent, restarts>>

GiveUp == /\ Due /\ ~RetriesLeft
          /\ Fails(serving.day)
          /\ UNCHANGED <<whole, sent>>
          /\ LetGo

-----------------------------------------------------------------------------
(* The clock, the cleanup, and a restart.                                  *)

\* Nothing is left to do in this minute.
Pass == /\ Tick
        /\ ~Due
        /\ slot = NoDay \/ serving # NoDay
        /\ UNCHANGED <<data, queue, restarts>>

CleanDay == /\ Clean
            /\ counted' = IF Watched < CleanupKeeps(now) THEN 0 ELSE counted
            /\ UNCHANGED <<clicked, stored, late, queue, restarts>>

\* The loop of RunScheduler goes on.
ArmAgain == Arm /\ UNCHANGED <<data, queue, restarts>>

\* Timers are set anew, the slot and the Tracker are empty, the topic is read
\* from its beginning.
Restart == /\ restarts < MaxRestarts
           /\ restarts' = restarts + 1
           /\ age' = 0
           /\ phase' = "waiting"
           /\ nextAt' = now + UntilNextFrom(now)
           /\ cleanAt' = NextCleanup(now)
           /\ oldest' = Yesterday
           /\ counted' = 0
           /\ slot' = NoDay /\ serving' = NoDay /\ whole' = FALSE
           /\ UNCHANGED <<now, sends, clicked, stored, late, sent>>

PipelineNext == \/ Click \/ Count
                \/ \E count \in late : ArrivesLate(count)
                \/ FireYesterday \/ ArmAgain
                \/ \E d \in {Today, Yesterday} : FlushNow(d)
                \/ Take \/ Sent \/ Pause \/ GiveUp
                \/ Pass \/ CleanDay \/ Restart

PipelineSpec == PipelineInit /\ [][PipelineNext]_allVars

-----------------------------------------------------------------------------
(* Properties.                                                             *)

\* No more is counted, stored or on its way than was clicked; the worker's date
\* has as many failures as it has delays, and was not taken in the future.
PipelineTypeOK ==
  /\ TypeOK
  /\ clicked \in 0..MaxClicks /\ counted \in 0..clicked /\ stored \in 0..clicked
  /\ late \subseteq 0..clicked
  /\ slot \in {NoDay} \cup [day : -1..DayOf(Horizon), by : {"schedule", "manual"}]
  /\ serving \in {NoDay} \cup [day : -1..DayOf(Horizon), by : {"schedule", "manual"},
                               failures : 0..Len(RetryAt), since : 0..now]
  /\ whole \in BOOLEAN /\ sent \in BOOLEAN
  /\ restarts \in 0..MaxRestarts

\* A date that the schedule has queued is not cleaned up before the worker has
\* let go of it: its last retry still finds the counts (sender.go:183), also
\* behind another date's retries, late timers and around a restart.
ScheduledIsKept ==
  /\ serving # NoDay /\ serving.by = "schedule" => oldest <= serving.day
  /\ slot # NoDay /\ slot.by = "schedule" => oldest <= slot.day

\* When the schedule found the day complete and its flush ended without an
\* error, the table has the day's clicks, and keeps them: no success without
\* the data, no older count from a late request.
SentIsComplete == sent => stored = clicked
=============================================================================
