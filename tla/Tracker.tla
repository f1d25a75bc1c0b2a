------------------------------ MODULE Tracker -------------------------------
(***************************************************************************)
(* ClickCounter's counting of unique readers: the in-memory Tracker        *)
(* (tracker.go), one partition reader per partition of the topic           *)
(* (consumer.go), the daily cleanup (scheduler.go) and the passing of days.*)
(* The process keeps nothing: after a restart every reader starts again at *)
(* the first message its partition still holds.                            *)
(*                                                                         *)
(* Every method of Tracker holds its lock from start to end, so each is    *)
(* one step.  Reading a message and AddClickAt are one step too: only the  *)
(* reader itself sees its position, and AddClickAt takes the time under    *)
(* the lock.                                                               *)
(***************************************************************************)
EXTENDS Integers, Sequences, FiniteSets

CONSTANTS Authors, Users, Partitions,
          PartitionOf,   \* the partition of an author's messages
          Junk,          \* a message that is not a click: bad JSON, an id that
                         \* is not positive, no timestamp
          Retention,     \* days the topic keeps a message
          MaxDay,        \* bound: the last day that passes
          MaxMessages,   \* bound: messages written to each partition
          MaxRestarts    \* bound: crashes of ClickCounter

Days   == 0..MaxDay
Clicks == [author : Authors, user : Users, day : Days]

ASSUME TrackerAssumption ==
  /\ PartitionOf \in [Authors -> Partitions]
  /\ Junk \notin Clicks
  /\ Retention \in Nat /\ Retention >= 2
  /\ MaxDay \in Nat /\ MaxMessages \in Nat /\ MaxRestarts \in Nat

VARIABLES now,        \* the current day (UTC)
          topic,      \* all messages ever written to each partition
          first,      \* how many of them the topic has deleted
          offset,     \* how many of them the reader has read or skipped
          days,       \* Tracker.days, a map of maps of sets: the clicks in it
          cleaned,    \* no cleanup is due before the day ends
          restarts

vars == <<now, topic, first, offset, days, cleaned, restarts>>

TypeOK == /\ now \in Days
          /\ topic \in [Partitions -> Seq(Clicks \cup {Junk})]
          /\ first \in [Partitions -> Nat]
          /\ offset \in [Partitions -> Nat]
          /\ \A p \in Partitions : first[p] <= offset[p] /\ offset[p] <= Len(topic[p])
          /\ days \in SUBSET Clicks
          /\ cleaned \in BOOLEAN
          /\ restarts \in 0..MaxRestarts

Init == /\ now = 0
        /\ topic = [p \in Partitions |-> <<>>]
        /\ first = [p \in Partitions |-> 0]
        /\ offset = [p \in Partitions |-> 0]
        /\ days = {}
        /\ cleaned = TRUE
        /\ restarts = 0

-----------------------------------------------------------------------------
(* The rest of the world: producers, the broker's retention, the clock.    *)

\* A producer stamps a click and sends it later, perhaps twice; its clock is
\* not ahead of ClickCounter's.
Produce(c) == LET p == PartitionOf[c.author] IN
              /\ c.day <= now
              /\ Len(topic[p]) < MaxMessages
              /\ topic' = [topic EXCEPT ![p] = Append(@, c)]
              /\ UNCHANGED <<now, first, offset, days, cleaned, restarts>>

ProduceJunk(p) == /\ Len(topic[p]) < MaxMessages
                  /\ topic' = [topic EXCEPT ![p] = Append(@, Junk)]
                  /\ UNCHANGED <<now, first, offset, days, cleaned, restarts>>

\* The topic deletes its oldest message once the message's own time (the time
\* of the click) is `Retention` days old.  A reader that has not read it loses it.
Expire(p) == /\ first[p] < Len(topic[p])
             /\ LET m == topic[p][first[p] + 1]
                IN m # Junk => m.day + Retention <= now
             /\ first' = [first EXCEPT ![p] = @ + 1]
             /\ offset' = [offset EXCEPT ![p] = IF @ > first[p] THEN @ ELSE @ + 1]
             /\ UNCHANGED <<now, topic, days, cleaned, restarts>>

\* The day ends.  The cleanup of 00:06 has run by then.
Midnight == /\ now < MaxDay
            /\ cleaned
            /\ now' = now + 1
            /\ cleaned' = FALSE
            /\ UNCHANGED <<topic, first, offset, days, restarts>>

-----------------------------------------------------------------------------
(* The tracker.                                                            *)

Window_TodayOnly == {now}                     \* mutant: yesterday is forgotten

\* The days that are counted: today and yesterday.
Window == {now, now - 1}

\* AddClickAt: a click of another day is dropped; a reader counts once.
AddClickAt(c) == days' = IF c.day \in Window THEN days \cup {c} ELSE days

\* GetByDate: the authors with clicks on day d, with the number of their readers.
AuthorsOn(d) == {c.author : c \in {k \in days : k.day = d}}
Count(d, a) == Cardinality({c \in days : c.day = d /\ c.author = a})
GetByDate(d) == [a \in AuthorsOn(d) |-> Count(d, a)]

CleanupKeeps_All(c) == TRUE                   \* mutant: nothing is deleted
CleanupKeeps_Today(c) == c.day = now          \* mutant: yesterday is deleted
CleanupKeeps(c) == c.day \in {now, now - 1}

\* RunCleanup at 00:06: all other days are deleted.
Cleanup == /\ ~cleaned
           /\ days' = {c \in days : CleanupKeeps(c)}
           /\ cleaned' = TRUE
           /\ UNCHANGED <<now, topic, first, offset, restarts>>

-----------------------------------------------------------------------------
(* The partition readers.                                                  *)

Skips_Nothing(m) == FALSE                     \* mutant: junk stops the reader

\* Messages consumePartition drops without looking at the tracker.
Skips(m) == m = Junk

\* One turn of the loop in consumePartition.
Consume(p) == /\ offset[p] < Len(topic[p])
              /\ LET m == topic[p][offset[p] + 1]
                 IN \/ m # Junk /\ AddClickAt(m)
                    \/ Skips(m) /\ UNCHANGED days
              /\ offset' = [offset EXCEPT ![p] = @ + 1]
              /\ UNCHANGED <<now, topic, first, cleaned, restarts>>

StartOffset_Last == [p \in Partitions |-> Len(topic[p])]   \* mutant: LastOffset

\* kafka.FirstOffset.
StartOffset == first

\* The process dies and is started again.  The new cleanup goroutine waits for
\* 00:06 of the next day even if this day's 00:06 is still to come.
Restart == /\ restarts < MaxRestarts
           /\ restarts' = restarts + 1
           /\ days' = {}
           /\ offset' = StartOffset
           /\ cleaned' = TRUE
           /\ UNCHANGED <<now, topic, first>>

-----------------------------------------------------------------------------
Next == \/ \E c \in Clicks : Produce(c)
        \/ \E p \in Partitions : ProduceJunk(p) \/ Expire(p) \/ Consume(p)
        \/ Midnight
        \/ Cleanup
        \/ Restart

Spec == Init /\ [][Next]_vars

\* A reader that has something to read reads it (a failing read is retried).
FairSpec == Spec /\ \A p \in Partitions : WF_vars(Consume(p))

-----------------------------------------------------------------------------
(* Properties.                                                             *)

\* What the readers have read and the topic still holds.
Read == UNION {{topic[p][i] : i \in (first[p] + 1)..offset[p]} : p \in Partitions}

\* For today and yesterday the tracker holds exactly the clicks that have been
\* read, through midnights, cleanups, late and duplicate messages, expiry of
\* the topic and restarts: after a restart nothing of the two days is missing
\* once the readers have caught up, and nothing is counted that was not read.
WindowExact ==
  {c \in days : c.day \in {now, now - 1}} =
  {c \in Read \ {Junk} : c.day \in {now, now - 1}}

\* "only today and yesterday" (tracker.go:10), once the day's cleanup has run;
\* before it at most one more day is in memory.
TwoDaysKept == /\ \A c \in days : c.day >= now - 2
               /\ cleaned => \A c \in days : c.day >= now - 1

\* While the process lives, no flush of a day that is still counted reports
\* fewer readers of an author than an earlier one did.
CountsGrow ==
  [][restarts' = restarts =>
       \A d \in {now', now' - 1}, a \in Authors : Count(d, a)' >= Count(d, a)]_vars

\* A reader always gets to the end of its partition, whatever the messages are.
CatchesUp == <>[](\A p \in Partitions : offset[p] = Len(topic[p]))
=============================================================================
