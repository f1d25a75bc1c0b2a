------------------------------- MODULE Sender -------------------------------
(***************************************************************************)
(* ClickCounter/internal/service/sender.go: the goroutines that share one  *)
(* Sender.  Handlers run SendNow (POST /flush/...), the scheduler runs     *)
(* SendAsync, workers run runPending, and one goroutine runs Shutdown.     *)
(* A step is what a goroutine does between two points where another one    *)
(* can observe or change the shared fields: flushMu, the fields under mu,  *)
(* the root context and the WaitGroup.                                     *)
(*                                                                         *)
(* What flushOnce does (read the tracker, POST to StorageGateway) is a     *)
(* nondeterministic success or failure here.                               *)
(***************************************************************************)
EXTENDS Naturals

CONSTANTS Handlers,   \* goroutines of the HTTP server that call SendNow
          Scheduler,  \* the goroutine of RunScheduler, which calls SendAsync
          Workers,    \* identities of runPending goroutines; as many can exist
                      \* at a time, those that have not run wg.Done included
          Dates,      \* the days that can be flushed
          NoDate, Nobody,
          Retries     \* len(delays)

Callers == Handlers \cup {Scheduler}
Procs   == Callers \cup Workers

ASSUME SenderAssumption ==
  /\ Scheduler \notin Handlers
  /\ Callers \cap Workers = {}
  /\ Nobody \notin Procs
  /\ NoDate \notin Dates
  /\ Dates # {}
  /\ Retries \in Nat

VARIABLES pc,          \* where each goroutine is
          date,        \* the date each goroutine works on
          failures,    \* failed attempts of each worker on its date
          flushMu,     \* the goroutine that holds flushMu
          pending,     \* guarded by mu: the queued date ...
          hasPending,  \* ... which is meaningful only when this is TRUE
          working,     \* guarded by mu: a worker runs, or is being started
          shutdown     \* progress of Shutdown

vars == <<pc, date, failures, flushMu, pending, hasPending, working, shutdown>>
queue == <<pending, hasPending, working>>

CallerPC == {"idle", "flush", "failed", "enqueue", "claimed", "release", "spawn"}
WorkerPC == {"unborn", "top", "lock", "attempt", "wait", "abort", "exit"}

TypeOK == /\ pc \in [Procs -> CallerPC \cup WorkerPC]
          /\ \A c \in Callers : pc[c] \in CallerPC
          /\ \A w \in Workers : pc[w] \in WorkerPC
          /\ date \in [Procs -> Dates \cup {NoDate}]
          /\ failures \in [Workers -> 0..Retries]
          /\ flushMu \in Procs \cup {Nobody}
          /\ pending \in Dates \cup {NoDate}
          /\ hasPending \in BOOLEAN
          /\ working \in BOOLEAN
          /\ shutdown \in {"running", "waiting", "blocked", "released",
                           "returned", "panicked"}

Init == /\ pc = [p \in Procs |-> IF p \in Workers THEN "unborn" ELSE "idle"]
        /\ date = [p \in Procs |-> NoDate]
        /\ failures = [w \in Workers |-> 0]
        /\ flushMu = Nobody
        /\ pending = NoDate
        /\ hasPending = FALSE
        /\ working = FALSE
        /\ shutdown = "running"

\* rootCtx.Err() # nil: Shutdown has called cancel().
Cancelled == shutdown # "running"

\* Process p moves from one point of its code to another.
Goto(p, from, to) == /\ pc[p] = from
                     /\ pc' = [pc EXCEPT ![p] = to]

-----------------------------------------------------------------------------
(* SendNow, run by a handler.                                              *)

FlushMuFree_Always == TRUE          \* mutant: flushMu is not taken
FlushMuFree == flushMu = Nobody

\* TryLock succeeds and flushOnce begins.
TryFlush(h, d) == /\ FlushMuFree
                  /\ Goto(h, "idle", "flush")
                  /\ date' = [date EXCEPT ![h] = d]
                  /\ flushMu' = h
                  /\ UNCHANGED <<failures, queue, shutdown>>

\* TryLock fails: ErrFlushInProgress, the handler answers 503.
RejectFlush(h) == /\ pc[h] = "idle"
                  /\ ~FlushMuFree
                  /\ UNCHANGED vars

\* flushOnce returns nil: the handler answers 200.
FlushDone(h) == /\ Goto(h, "flush", "idle")
                /\ flushMu' = Nobody
                /\ UNCHANGED <<date, failures, queue, shutdown>>

FlushFailed(h) == /\ Goto(h, "flush", "failed")
                  /\ flushMu' = Nobody
                  /\ UNCHANGED <<date, failures, queue, shutdown>>

\* The request's own context is done (it may be at any time), or the root
\* context is: the error is returned and nothing is queued.
ReturnError(h) == /\ Goto(h, "failed", "idle")
                  /\ UNCHANGED <<date, failures, flushMu, queue, shutdown>>

\* Neither context is done.
RequestRetry(h) == /\ ~Cancelled
                   /\ Goto(h, "failed", "enqueue")
                   /\ UNCHANGED <<date, failures, flushMu, queue, shutdown>>

-----------------------------------------------------------------------------
(* SendAsync, run by the scheduler.                                        *)

SendAsync(d) == /\ Goto(Scheduler, "idle", "enqueue")
                /\ date' = [date EXCEPT ![Scheduler] = d]
                /\ UNCHANGED <<failures, flushMu, queue, shutdown>>

-----------------------------------------------------------------------------
(* enqueue, run by a handler or by the scheduler.                          *)

StartWorker_Always == TRUE          \* mutant: `working` is not consulted

StartWorker == ~working

\* The critical section: the last date wins; whoever finds no worker claims
\* the right to start one.
Enqueue(c) == /\ Goto(c, "enqueue", IF StartWorker THEN "claimed" ELSE "idle")
              /\ pending' = date[c]
              /\ hasPending' = TRUE
              /\ working' = TRUE
              /\ UNCHANGED <<date, failures, flushMu, shutdown>>

SeesCancel_Never == FALSE           \* mutant: the check at line 94 is missing

SeesCancel == Cancelled

\* Outside the critical section: the claim is given up when the root context
\* is cancelled, and used otherwise.
CheckRoot(c) == /\ Goto(c, "claimed", IF SeesCancel THEN "release" ELSE "spawn")
                /\ UNCHANGED <<date, failures, flushMu, queue, shutdown>>

\* The date stays queued, without a worker.
ReleaseClaim(c) == /\ Goto(c, "release", "idle")
                   /\ working' = FALSE
                   /\ UNCHANGED <<date, failures, flushMu, pending, hasPending, shutdown>>

\* wg.Add(1); go runPending().
Spawn(c) == /\ pc[c] = "spawn"
            /\ \E w \in Workers :
                 /\ pc[w] = "unborn"
                 /\ pc' = [pc EXCEPT ![c] = "idle", ![w] = "top"]
            /\ UNCHANGED <<date, failures, flushMu, queue, shutdown>>

-----------------------------------------------------------------------------
(* runPending and flushWithSchedule, run by a worker.                      *)

KeepsQueued == hasPending           \* mutant: the taken date stays queued

ClearedSlot == FALSE
SlotEmpty == ~hasPending

Take(w) == /\ hasPending
           /\ Goto(w, "top", "lock")
           /\ date' = [date EXCEPT ![w] = pending]
           /\ failures' = [failures EXCEPT ![w] = 0]
           /\ hasPending' = ClearedSlot
           /\ UNCHANGED <<flushMu, pending, working, shutdown>>

\* The queue is seen empty and `working` is reset in one critical section.
Retire(w) == /\ SlotEmpty
             /\ Goto(w, "top", "exit")
             /\ working' = FALSE
             /\ UNCHANGED <<date, failures, flushMu, pending, hasPending, shutdown>>


RetriesLeft(w) == failures[w] < Retries

BeginFlush_Unchecked(w) == /\ FlushMuFree  \* mutant: the check at line 146 is missing
                           /\ Goto(w, "lock", "attempt")
                           /\ flushMu' = w
                           /\ UNCHANGED <<date, failures, queue, shutdown>>

\* flushMu.Lock() returns and flushWithSchedule finds its context alive.
BeginFlush(w) == /\ FlushMuFree
                 /\ ~Cancelled
                 /\ Goto(w, "lock", "attempt")
                 /\ flushMu' = w
                 /\ UNCHANGED <<date, failures, queue, shutdown>>

\* ... or cancelled: it returns at once and flushMu is released.
AbortFlush(w) == /\ FlushMuFree
                 /\ Cancelled
                 /\ Goto(w, "lock", "abort")
                 /\ UNCHANGED <<date, failures, flushMu, queue, shutdown>>

AttemptDone(w) == /\ Goto(w, "attempt", "top")
                  /\ flushMu' = Nobody
                  /\ UNCHANGED <<date, failures, queue, shutdown>>

Exhausted_Aborts(w) == /\ ~RetriesLeft(w) \* mutant: the last error is taken for a cancellation
                       /\ Goto(w, "attempt", "abort")
                       /\ flushMu' = Nobody
                       /\ UNCHANGED <<date, failures, queue, shutdown>>

\* The schedule is exhausted: the date is given up.  The error is never a
\* context error: SendStats formats its cause with %v, so that a timeout of
\* the HTTP client is not an errors.Is(err, context.DeadlineExceeded).
Exhausted(w) == /\ ~RetriesLeft(w)
                /\ Goto(w, "attempt", "top")
                /\ flushMu' = Nobody
                /\ UNCHANGED <<date, failures, queue, shutdown>>

\* A delay of the schedule begins.  flushMu is kept.
AttemptFailed(w) == /\ RetriesLeft(w)
                    /\ ~Cancelled
                    /\ Goto(w, "attempt", "wait")
                    /\ failures' = [failures EXCEPT ![w] = @ + 1]
                    /\ UNCHANGED <<date, flushMu, queue, shutdown>>

\* time.After fires.
Retry(w) == /\ Goto(w, "wait", "attempt")
            /\ UNCHANGED <<date, failures, flushMu, queue, shutdown>>

\* The context is found cancelled after a failed attempt or during a delay.
AbortRetry(w) == /\ Cancelled
                 /\ \/ Goto(w, "wait", "abort")
                    \/ RetriesLeft(w) /\ Goto(w, "attempt", "abort")
                 /\ flushMu' = Nobody
                 /\ UNCHANGED <<date, failures, queue, shutdown>>

\* A cancelled worker resets `working` whether or not a date is queued.
Abandon(w) == /\ Goto(w, "abort", "exit")
              /\ working' = FALSE
              /\ UNCHANGED <<date, failures, flushMu, pending, hasPending, shutdown>>

-----------------------------------------------------------------------------
(* Shutdown and the WaitGroup.  The counter of wg is the number of workers *)
(* that exist; Wait returns at once when it is zero, and otherwise sleeps  *)
(* until the Done that brings it to zero releases it.                      *)

OtherWorkers(w) == {v \in Workers \ {w} : pc[v] # "unborn"}
NoWorkers == \A w \in Workers : pc[w] = "unborn"

ExitNoDone(w) == /\ Goto(w, "exit", "unborn") \* mutant: the last Done is lost
                 /\ UNCHANGED <<date, failures, flushMu, queue, shutdown>>

\* The deferred wg.Done() of runPending.
Exit(w) == /\ Goto(w, "exit", "unborn")
           /\ shutdown' = IF shutdown = "blocked" /\ OtherWorkers(w) = {}
                            THEN "released" ELSE shutdown
           /\ UNCHANGED <<date, failures, flushMu, queue>>

Cancel == /\ shutdown = "running"
          /\ shutdown' = "waiting"
          /\ UNCHANGED <<pc, date, failures, flushMu, queue>>

Wait == /\ shutdown = "waiting"
        /\ shutdown' = IF NoWorkers THEN "returned" ELSE "blocked"
        /\ UNCHANGED <<pc, date, failures, flushMu, queue>>

\* The released Wait panics when the counter has left zero in the meantime
\* ("WaitGroup is reused before previous Wait has returned").  The process
\* dies; until it does, other goroutines may still take steps.
WakeUp == /\ shutdown = "released"
          /\ shutdown' = IF NoWorkers THEN "returned" ELSE "panicked"
          /\ UNCHANGED <<pc, date, failures, flushMu, queue>>

-----------------------------------------------------------------------------
FlushReturns(h) == FlushDone(h) \/ FlushFailed(h)
AfterFailure(h) == ReturnError(h) \/ RequestRetry(h)
EnqueueSteps(c) == Enqueue(c) \/ CheckRoot(c) \/ ReleaseClaim(c) \/ Spawn(c)
LoopTop(w) == Take(w) \/ Retire(w)
GetFlushMu(w) == BeginFlush(w) \/ AbortFlush(w)
AttemptReturns(w) == AttemptDone(w) \/ Exhausted(w) \/ AttemptFailed(w)
Schedule(w) == AttemptReturns(w) \/ Retry(w) \/ AbortRetry(w)
Leave(w) == Abandon(w) \/ Exit(w)

Handler(h) == \/ \E d \in Dates : TryFlush(h, d)
              \/ RejectFlush(h)
              \/ FlushReturns(h)
              \/ AfterFailure(h)

Worker(w) == LoopTop(w) \/ GetFlushMu(w) \/ Schedule(w) \/ Leave(w)

Stop == Cancel \/ Wait \/ WakeUp

Next == \/ \E h \in Handlers : Handler(h)
        \/ \E d \in Dates : SendAsync(d)
        \/ \E c \in Callers : EnqueueSteps(c)
        \/ \E w \in Workers : Worker(w)
        \/ Stop

Spec == Init /\ [][Next]_vars

\* Every goroutine that can run is scheduled, timers fire, and an attempt
\* returns (the HTTP client has a timeout).  A worker blocked in
\* flushMu.Lock() competes with handlers that TryLock: sync.Mutex hands over
\* to a waiter it has starved and then fails every TryLock, hence SF.
\* Requests, the scheduler's ticks and Shutdown need not come.
Fairness ==
  /\ \A h \in Handlers : WF_vars(FlushReturns(h)) /\ WF_vars(AfterFailure(h))
  /\ \A c \in Callers : WF_vars(EnqueueSteps(c))
  /\ \A w \in Workers :
       /\ WF_vars(LoopTop(w))
       /\ SF_vars(GetFlushMu(w))
       /\ WF_vars(Schedule(w))
       /\ WF_vars(Leave(w))
  /\ WF_vars(Wait \/ WakeUp)

FairSpec == Spec /\ Fairness

-----------------------------------------------------------------------------
(* Properties.                                                             *)

InFlush(p) == pc[p] \in {"flush", "attempt", "wait"}

\* "One flush at a time" (sender.go:32): no two goroutines are inside
\* flushOnce or between two attempts of one schedule.
OneFlushAtATime == \A p, q \in Procs : InFlush(p) /\ InFlush(q) => p = q

\* The goroutine the flag `working` stands for: the one that is about to
\* start a worker, or the worker until it gives the flag back.
Owner(p) == pc[p] \in {"claimed", "spawn", "release", "top", "lock", "attempt",
                       "wait", "abort"}

\* There is never a second worker: `working`, which five critical sections
\* set and reset, is TRUE exactly while one goroutine answers for the queue.
OneQueueOwner == /\ \A p, q \in Procs : Owner(p) /\ Owner(q) => p = q
                 /\ working <=> \E p \in Procs : Owner(p)

\* No lost wake-up: until Shutdown cancels the context, a queued date has an
\* owner, and one that will look at the queue again (enqueue racing with the
\* worker that has just found the queue empty, sender.go:84-91 and 113-118).
QueuedDateHasWorker ==
  hasPending /\ ~Cancelled =>
    \E p \in Procs : Owner(p) /\ pc[p] \notin {"release", "abort"}

\* The worker that has taken a date and not let go of it.
Busy == {w \in Workers : pc[w] \in {"lock", "attempt", "wait"}}
TheBusy == CHOOSE w \in Busy : TRUE

QueuedDate == IF hasPending THEN pending ELSE NoDate
ServedDate == IF Busy = {} THEN NoDate ELSE date[TheBusy]
Attempts == IF Busy = {} \/ pc[TheBusy] = "lock" THEN 0
            ELSE IF pc[TheBusy] = "attempt" THEN failures[TheBusy] + 1
            ELSE failures[TheBusy]

Mailbox == INSTANCE FlushQueue WITH slot <- QueuedDate, serving <- ServedDate,
                                    tries <- Attempts, closed <- Cancelled

\* The sender implements the one-slot mailbox of FlushQueue, its fairness
\* included: an open sender takes what is queued and lets go of what it took.
ImplementsMailbox == Mailbox!Spec

\* Shutdown (sender.go:199-203) does not hang: whatever it interrupts, its
\* Wait ends.
ShutdownCompletes == Cancelled ~> shutdown \in {"returned", "panicked"}

\* Once the context is cancelled the workers stop and no new one is started
\* for ever, even if handlers and the scheduler go on calling.
WorkersQuiesce == Cancelled ~> []NoWorkers

\* When Shutdown has returned no worker is sending or will send again, also one
\* that was claimed before the context was cancelled and is started only now,
\* and one that has slept in flushMu.Lock (sender.go:94-101, 123, 146).
NoSendAfterShutdown ==
  shutdown = "returned" => \A w \in Workers : pc[w] \notin {"attempt", "wait"}

\* What the comment on Shutdown says (sender.go:199): it waits for the worker.
ShutdownWaitsForWorkers == shutdown = "returned" => NoWorkers

\* What the README says of every service (Readme.md:167): shutting down waits
\* for the unfinished sends.
ShutdownFinishesSends == shutdown = "returned" => ~hasPending
=============================================================================
