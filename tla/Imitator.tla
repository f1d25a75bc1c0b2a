------------------------------ MODULE Imitator ------------------------------
(***************************************************************************)
(* ClickImitator: the simulator starts one goroutine per reader            *)
(* (scenario.go, random.go), a reader starts one goroutine per read, and   *)
(* each of these sends its click to Kafka with retries (sendWithRetry).    *)
(* Run waits for the readers, readers wait for their sends, and the writer *)
(* is closed when Run has returned.                                        *)
(*                                                                         *)
(* The Kafka writer (external) sends in the background: a Send whose       *)
(* context is done returns an error although its message may still be      *)
(* written later, which is how a retried click gets into the topic twice.  *)
(* Close waits for what is in flight.                                      *)
(*                                                                         *)
(* Both strategies differ only in how many reads a reader makes.  Without  *)
(* a delay between its reads (DelayBetweenReadsSec) a reader never looks   *)
(* at the context.                                                         *)
(***************************************************************************)
EXTENDS Naturals

CONSTANTS Readers,
          MinReads, MaxReads,  \* reads of one reader
          Retries,             \* len(RetryDelays)
          MaxDay,              \* bound: the last day that passes
          MaxTotal             \* bound: reads of any two readers together

ASSUME ImitatorAssumption ==
  /\ MinReads \in Nat /\ MaxReads \in Nat /\ MinReads <= MaxReads
  /\ Retries \in Nat /\ MaxDay \in Nat /\ MaxTotal \in Nat

Clicks   == Readers \X (1..MaxReads)
Days     == 0..MaxDay
Attempts == 1 + Retries
Messages == [click : Clicks, day : Days, try : 1..Attempts]

VARIABLES now,        \* the current day (UTC)
          cancelled,  \* SIGINT or SIGTERM has come
          paced,      \* DelayBetweenReadsSec > 0
          numReads,   \* reads each reader is going to make
          started,    \* reads it has started
          reader,     \* where each reader is
          send,       \* where the goroutine of each click is
          day,        \* the timestamp of its message
          tries,      \* its attempts that failed
          inflight,   \* messages the writer has and has not written
          topic,      \* messages that have been written
          failed,     \* sends that were given up
          main        \* run of main.go, and its outcome

clock   == <<now, cancelled>>
readers == <<paced, numReads, started, reader>>
sends   == <<send, day, tries, failed>>
kafka   == <<inflight, topic>>
vars    == <<clock, readers, sends, kafka, main>>

TypeOK == /\ now \in Days
          /\ cancelled \in BOOLEAN
          /\ paced \in BOOLEAN
          /\ numReads \in [Readers -> MinReads..MaxReads]
          /\ started \in [Readers -> 0..MaxReads]
          /\ reader \in [Readers -> {"loop", "delay", "join", "done"}]
          /\ send \in [Clicks -> {"unborn", "born", "top", "sending", "pause", "done"}]
          /\ day \in [Clicks -> Days]
          /\ tries \in [Clicks -> 0..Attempts]
          /\ inflight \in SUBSET Messages
          /\ topic \in SUBSET Messages
          /\ failed \in SUBSET Clicks
          /\ main \in {"running", "interrupted", "error", "completed", "exited"}

\* How many reads the readers may be going to make, within the bounds.
ReadPlans == {n \in [Readers -> MinReads..MaxReads] :
                \A r, q \in Readers : r # q => n[r] + n[q] <= MaxTotal}

Init == /\ now = 0
        /\ cancelled = FALSE
        /\ paced \in BOOLEAN
        /\ numReads \in ReadPlans
        /\ started = [r \in Readers |-> 0]
        /\ reader = [r \in Readers |-> "loop"]
        /\ send = [c \in Clicks |-> "unborn"]
        /\ day = [c \in Clicks |-> 0]
        /\ tries = [c \in Clicks |-> 0]
        /\ inflight = {}
        /\ topic = {}
        /\ failed = {}
        /\ main = "running"

Midnight == /\ now < MaxDay
            /\ now' = now + 1
            /\ UNCHANGED <<cancelled, readers, sends, kafka, main>>

Cancel == /\ ~cancelled
          /\ main = "running"
          /\ cancelled' = TRUE
          /\ UNCHANGED <<now, readers, sends, kafka, main>>

-----------------------------------------------------------------------------
(* runReader.                                                              *)

\* readWg.Add(1); go func() ...
StartRead(r) == /\ reader[r] = "loop"
                /\ started[r] < numReads[r]
                /\ started' = [started EXCEPT ![r] = @ + 1]
                /\ send' = [send EXCEPT ![<<r, started[r] + 1>>] = "born"]
                /\ reader' = [reader EXCEPT ![r] = IF paced THEN "delay" ELSE "loop"]
                /\ UNCHANGED <<clock, paced, numReads, day, tries, failed, kafka, main>>

AfterCancel_Returns == "done"     \* mutant: the reader does not wait for its sends
AfterCancel == "join"

\* The delay passes, or the context is done first.
DelayEnds(r) == /\ reader[r] = "delay"
                /\ \/ reader' = [reader EXCEPT ![r] = "loop"]
                   \/ cancelled /\ reader' = [reader EXCEPT ![r] = AfterCancel]
                /\ UNCHANGED <<clock, paced, numReads, started, sends, kafka, main>>

AllStarted(r) == /\ reader[r] = "loop"
                 /\ started[r] = numReads[r]
                 /\ reader' = [reader EXCEPT ![r] = "join"]
                 /\ UNCHANGED <<clock, paced, numReads, started, sends, kafka, main>>

SendsOver_All(r) ==               \* mutant: readWg.Add(numReads) before the loop
  \A i \in 1..numReads[r] : send[<<r, i>>] = "done"
SendsOver(r) == \A i \in 1..started[r] : send[<<r, i>>] = "done"

\* readWg.Wait() returns.
Join(r) == /\ reader[r] = "join"
           /\ SendsOver(r)
           /\ reader' = [reader EXCEPT ![r] = "done"]
           /\ UNCHANGED <<clock, paced, numReads, started, sends, kafka, main>>

-----------------------------------------------------------------------------
(* sendWithRetry, in a goroutine of its own.                               *)

MoveSend(c, from, next) == /\ send[c] = from
                           /\ send' = [send EXCEPT ![c] = next]

\* The message is made: time.Now() is its timestamp.
Stamp(c) == /\ MoveSend(c, "born", "top")
            /\ day' = [day EXCEPT ![c] = now]
            /\ UNCHANGED <<clock, readers, tries, failed, kafka, main>>

DayOf_Send(c) == now                   \* mutant: stamped by Send
DayOf(c) == day[c]

\* The message of the current attempt.
MessageOf(c) == [click |-> c, day |-> DayOf(c), try |-> tries[c] + 1]

\* The check before an attempt; then the message is given to the writer.
BeginSend(c) == /\ ~cancelled
                /\ MoveSend(c, "top", "sending")
                /\ inflight' = inflight \cup {MessageOf(c)}
                /\ UNCHANGED <<clock, readers, day, tries, failed, topic, main>>

\* The writer has written the message: Send returns nil.
Acknowledged(c) == /\ MoveSend(c, "sending", "done")
                   /\ \E m \in topic : m.click = c /\ m.try = tries[c] + 1
                   /\ UNCHANGED <<clock, readers, day, tries, failed, kafka, main>>

LastTry_Early(c) == tries[c] + 1 >= Retries      \* mutant: one delay is not used
LastTry_Late(c) == tries[c] + 1 > Attempts       \* mutant: one attempt too many
LastTry(c) == tries[c] + 1 = Attempts

\* Send returns an error (a refusal, the timeout): a pause, or the end.
SendFails(c) == /\ ~cancelled
                /\ ~LastTry(c)
                /\ MoveSend(c, "sending", "pause")
                /\ tries' = [tries EXCEPT ![c] = @ + 1]
                /\ UNCHANGED <<clock, readers, day, failed, kafka, main>>

GiveUp_Uncounted(c) == /\ ~cancelled             \* mutant: the error is dropped
                       /\ LastTry(c)
                       /\ MoveSend(c, "sending", "done")
                       /\ tries' = [tries EXCEPT ![c] = @ + 1]
                       /\ UNCHANGED <<clock, readers, day, failed, kafka, main>>

GiveUp(c) == /\ ~cancelled
             /\ LastTry(c)
             /\ MoveSend(c, "sending", "done")
             /\ tries' = [tries EXCEPT ![c] = @ + 1]
             /\ failed' = failed \cup {c}
             /\ UNCHANGED <<clock, readers, day, kafka, main>>

Retry(c) == /\ MoveSend(c, "pause", "top")
            /\ UNCHANGED <<clock, readers, day, tries, failed, kafka, main>>

\* The context is done before, during or after an attempt: nil is returned.
Abort(c) == /\ cancelled
            /\ \E at \in {"top", "sending", "pause"} : MoveSend(c, at, "done")
            /\ UNCHANGED <<clock, readers, day, tries, failed, kafka, main>>

-----------------------------------------------------------------------------
(* The writer.                                                             *)

Write(m) == /\ m \in inflight
            /\ inflight' = inflight \ {m}
            /\ topic' = topic \cup {m}
            /\ UNCHANGED <<clock, readers, sends, main>>

\* The brokers do not take the message.
Lose(m) == /\ m \in inflight
           /\ inflight' = inflight \ {m}
           /\ UNCHANGED <<clock, readers, sends, topic, main>>

-----------------------------------------------------------------------------
(* Strategy.Run, Simulator.Run and run of main.go.                         *)

ReadersDone == \A r \in Readers : reader[r] = "done"

\* wg.Wait() returns.  An interruption hides the failures.
RunReturns == /\ main = "running"
              /\ ReadersDone
              /\ main' = IF cancelled THEN "interrupted"
                         ELSE IF failed # {} THEN "error" ELSE "completed"
              /\ UNCHANGED <<clock, readers, sends, kafka>>

\* The deferred sender.Close().  The outcome is the exit code.
Close == /\ main \in {"interrupted", "error", "completed"}
         /\ inflight = {}
         /\ main' = "exited"
         /\ UNCHANGED <<clock, readers, sends, kafka>>

-----------------------------------------------------------------------------
ReaderStep(r) == StartRead(r) \/ DelayEnds(r) \/ AllStarted(r) \/ Join(r)
SendStep(c) == \/ Stamp(c) \/ BeginSend(c) \/ Acknowledged(c) \/ SendFails(c)
               \/ GiveUp(c) \/ Retry(c) \/ Abort(c)
WriterStep == \E m \in Messages : Write(m) \/ Lose(m)

Work == \/ \E r \in Readers : ReaderStep(r)
        \/ \E c \in Clicks : SendStep(c)
        \/ WriterStep
        \/ RunReturns \/ Close

Next == Midnight \/ Cancel \/ Work

Spec == Init /\ [][Next]_vars

\* As long as a goroutine can go on, a timer can fire or the writer has a
\* message, one of them does something: none of this can go on for ever.
FairSpec == Spec /\ WF_vars(Work)

-----------------------------------------------------------------------------
(* Properties.                                                             *)

Over == main # "running"

\* Nobody uses the writer when it is closed: Run returns only after the last
\* send goroutine, on every path (the two WaitGroups, also after a signal).
NoSendAfterRun == Over => \A c \in Clicks : send[c] \in {"unborn", "done"}

\* A run that ends with success has written every click of every reader.
CompletedMeansWritten ==
  main = "completed" =>
    \A r \in Readers : \A i \in 1..numReads[r] : \E m \in topic : m.click = <<r, i>>

\* A send is given up only when every delay of the schedule has been used.
GivenUpLast == \A c \in failed : tries[c] = Attempts

\* However often a click is written, all its copies carry the same day, so
\* that ClickCounter's set of readers of that day counts it once.
OneDayPerClick == \A m, n \in topic : m.click = n.click => m.day = n.day

\* The run ends, whether the brokers work or not.
RunEnds == <>(main = "exited")
=============================================================================
