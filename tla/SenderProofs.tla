---------------------------- MODULE SenderProofs ----------------------------
(***************************************************************************)
(* Proofs about Sender, for any number of handlers and workers, any set of *)
(* dates and any retry schedule.                                           *)
(***************************************************************************)
EXTENDS Sender, TLAPS

(* flushMu is held by exactly the goroutine that is inside a flush. *)
LockInv == \A p \in Procs : InFlush(p) <=> flushMu = p

(* `working` is given back with a date queued only when the context is     *)
(* cancelled.                                                              *)
GiveBackInv == \A p \in Procs : pc[p] \in {"release", "abort"} => Cancelled

QueueInv == hasPending /\ ~Cancelled => working

IInv == TypeOK /\ LockInv /\ OneQueueOwner /\ GiveBackInv /\ QueueInv

-----------------------------------------------------------------------------
(* The initial state satisfies the inductive invariant. *)
LEMMA InitIInv == Init => IInv
<1> SUFFICES ASSUME Init PROVE IInv
    OBVIOUS
<1>1. TypeOK
  <2> USE SenderAssumption DEF Init
  <2>1. /\ pc \in [Procs -> CallerPC \cup WorkerPC]
        /\ \A c \in Callers : pc[c] \in CallerPC
        /\ \A w \in Workers : pc[w] \in WorkerPC
        BY DEF Procs, Callers, CallerPC, WorkerPC
  <2>2. date \in [Procs -> Dates \cup {NoDate}]
        OBVIOUS
  <2>3. failures \in [Workers -> 0..Retries]
        OBVIOUS
  <2>4. QED BY <2>1, <2>2, <2>3 DEF TypeOK
<1>2. \A p \in Procs : pc[p] \in {"idle", "unborn"}
      BY DEF Init
<1>3. LockInv
      BY <1>2, SenderAssumption DEF Init, LockInv, InFlush
<1>4. OneQueueOwner
      BY <1>2 DEF Init, OneQueueOwner, Owner
<1>5. GiveBackInv /\ QueueInv
      BY <1>2 DEF Init, GiveBackInv, QueueInv
<1>6. QED BY <1>1, <1>3, <1>4, <1>5 DEF IInv

(* No step of any goroutine leaves the type invariant. *)
LEMMA TypeStep == TypeOK /\ [Next]_vars => TypeOK'
<1> SUFFICES ASSUME TypeOK, [Next]_vars PROVE TypeOK'
    OBVIOUS
<1> USE SenderAssumption DEF TypeOK, CallerPC, WorkerPC, Callers, Procs, queue
<1>1. ASSUME NEW h \in Handlers, Handler(h) PROVE TypeOK'
  <2>1. ASSUME NEW d \in Dates, TryFlush(h, d) PROVE TypeOK'
        BY <2>1 DEF TryFlush, Goto
  <2>2. CASE RejectFlush(h)
        BY <2>2 DEF RejectFlush, vars
  <2>3. CASE FlushReturns(h)
        BY <2>3 DEF FlushReturns, FlushDone, FlushFailed, Goto
  <2>4. CASE AfterFailure(h)
        BY <2>4 DEF AfterFailure, ReturnError, RequestRetry, Goto
  <2>5. QED BY <1>1, <2>1, <2>2, <2>3, <2>4 DEF Handler
<1>2. ASSUME NEW d \in Dates, SendAsync(d) PROVE TypeOK'
      BY <1>2 DEF SendAsync, Goto
<1>3. ASSUME NEW c \in Callers, EnqueueSteps(c) PROVE TypeOK'
  <2>1. CASE Enqueue(c)
        BY <2>1 DEF Enqueue, Goto
  <2>2. CASE CheckRoot(c)
        BY <2>2 DEF CheckRoot, Goto
  <2>3. CASE ReleaseClaim(c)
        BY <2>3 DEF ReleaseClaim, Goto
  <2>4. CASE Spawn(c)
    <3>1. PICK w \in Workers : pc' = [pc EXCEPT ![c] = "idle", ![w] = "top"]
          BY <2>4 DEF Spawn
    <3>2. pc' \in [Procs -> CallerPC \cup WorkerPC]
          BY <3>1
    <3>3. /\ \A d \in Callers : pc'[d] \in CallerPC
          /\ \A v \in Workers : pc'[v] \in WorkerPC
          BY <3>1
    <3>4. UNCHANGED <<date, failures, flushMu, pending, hasPending, working, shutdown>>
          BY <2>4 DEF Spawn
    <3>5. QED BY <3>2, <3>3, <3>4
  <2>5. QED BY <1>3, <2>1, <2>2, <2>3, <2>4 DEF EnqueueSteps
<1>4. ASSUME NEW w \in Workers, Worker(w) PROVE TypeOK'
  <2>1. CASE LoopTop(w)
    <3>1. CASE Take(w)
      <4>1. 0 \in 0..Retries
            OBVIOUS
      <4>2. failures' \in [Workers -> 0..Retries]
            BY <3>1, <4>1 DEF Take
      <4>3. QED BY <3>1, <4>2 DEF Take, ClearedSlot, Goto
    <3>2. CASE Retire(w)
          BY <3>2 DEF Retire, Goto
    <3>3. QED BY <2>1, <3>1, <3>2 DEF LoopTop
  <2>2. CASE GetFlushMu(w)
        BY <2>2 DEF GetFlushMu, BeginFlush, AbortFlush, Goto
  <2>3. CASE Schedule(w)
        BY <2>3 DEF Schedule, AttemptReturns, AttemptDone, Exhausted, AttemptFailed,
           Retry, AbortRetry, RetriesLeft, Goto
  <2>4. CASE Leave(w)
        BY <2>4 DEF Leave, Abandon, Exit, Goto
  <2>5. QED BY <1>4, <2>1, <2>2, <2>3, <2>4 DEF Worker
<1>5. CASE Stop
      BY <1>5 DEF Stop, Cancel, Wait, WakeUp
<1>6. CASE UNCHANGED vars
      BY <1>6 DEF vars
<1>7. QED BY <1>1, <1>2, <1>3, <1>4, <1>5, <1>6 DEF Next

(* The other conjuncts are preserved too, one step per action. *)
LEMMA InvStep == IInv /\ [Next]_vars => IInv'
<1> SUFFICES ASSUME IInv, [Next]_vars PROVE IInv'
    OBVIOUS
<1> DEFINE Rest == LockInv /\ OneQueueOwner /\ GiveBackInv /\ QueueInv
<1>t. TypeOK'
      BY TypeStep DEF IInv
<1> USE SenderAssumption
    DEF IInv, TypeOK, LockInv, OneQueueOwner, GiveBackInv, QueueInv, InFlush, Owner,
        Cancelled, Goto, queue, Callers, Procs
<1>1. ASSUME NEW h \in Handlers, NEW d \in Dates, TryFlush(h, d) PROVE Rest'
      BY <1>1 DEF TryFlush, FlushMuFree
<1>2. ASSUME NEW h \in Handlers, RejectFlush(h) PROVE Rest'
      BY <1>2 DEF RejectFlush, vars
<1>3. ASSUME NEW h \in Handlers, FlushDone(h) PROVE Rest'
      BY <1>3 DEF FlushDone
<1>4. ASSUME NEW h \in Handlers, FlushFailed(h) PROVE Rest'
      BY <1>4 DEF FlushFailed
<1>5. ASSUME NEW h \in Handlers, AfterFailure(h) PROVE Rest'
      BY <1>5 DEF AfterFailure, ReturnError, RequestRetry
<1>6. ASSUME NEW d \in Dates, SendAsync(d) PROVE Rest'
      BY <1>6 DEF SendAsync
<1>7. ASSUME NEW c \in Callers, Enqueue(c) PROVE Rest'
      BY <1>7 DEF Enqueue, StartWorker
<1>8. ASSUME NEW c \in Callers, CheckRoot(c) PROVE Rest'
      BY <1>8 DEF CheckRoot, SeesCancel
<1>9. ASSUME NEW c \in Callers, ReleaseClaim(c) PROVE Rest'
      BY <1>9 DEF ReleaseClaim
<1>10. ASSUME NEW c \in Callers, Spawn(c) PROVE Rest'
      BY <1>10 DEF Spawn
<1>11. ASSUME NEW w \in Workers, Take(w) PROVE Rest'
      BY <1>11 DEF Take, ClearedSlot
<1>12. ASSUME NEW w \in Workers, Retire(w) PROVE Rest'
      BY <1>12 DEF Retire, SlotEmpty
<1>13. ASSUME NEW w \in Workers, BeginFlush(w) PROVE Rest'
      BY <1>13 DEF BeginFlush, FlushMuFree
<1>14. ASSUME NEW w \in Workers, AbortFlush(w) PROVE Rest'
      BY <1>14 DEF AbortFlush, FlushMuFree
<1>15. ASSUME NEW w \in Workers, AttemptDone(w) \/ Exhausted(w) PROVE Rest'
      BY <1>15 DEF AttemptDone, Exhausted
<1>16. ASSUME NEW w \in Workers, AttemptFailed(w) PROVE Rest'
      BY <1>16 DEF AttemptFailed
<1>17. ASSUME NEW w \in Workers, Retry(w) PROVE Rest'
      BY <1>17 DEF Retry
<1>18. ASSUME NEW w \in Workers, AbortRetry(w) PROVE Rest'
      BY <1>18 DEF AbortRetry
<1>19. ASSUME NEW w \in Workers, Abandon(w) PROVE Rest'
      BY <1>19 DEF Abandon
<1>20. ASSUME NEW w \in Workers, Exit(w) PROVE Rest'
      BY <1>20 DEF Exit
<1>21. CASE Stop
      BY <1>21 DEF Stop, Cancel, Wait, WakeUp
<1>22. CASE UNCHANGED vars
      BY <1>22 DEF vars
<1>23. Rest'
      BY <1>1, <1>2, <1>3, <1>4, <1>5, <1>6, <1>7, <1>8, <1>9, <1>10, <1>11, <1>12,
         <1>13, <1>14, <1>15, <1>16, <1>17, <1>18, <1>19, <1>20, <1>21, <1>22
      DEF Next, Handler, FlushReturns, EnqueueSteps, Worker, LoopTop, GetFlushMu,
          Schedule, AttemptReturns, Leave
<1>24. QED BY <1>t, <1>23

(* The inductive invariant holds in every reachable state. *)
LEMMA Inductive == Spec => []IInv
  BY InitIInv, InvStep, PTL DEF Spec

(* TypeOK holds in every reachable state. *)
THEOREM TypeCorrect == Spec => []TypeOK
<1>1. Init => TypeOK
      BY InitIInv DEF IInv
<1>2. QED BY <1>1, TypeStep, PTL DEF Spec

(* flushMu keeps handlers and workers apart: one flush at a time. *)
THEOREM FlushExclusion == Spec => []OneFlushAtATime
<1>1. IInv => OneFlushAtATime
      BY DEF IInv, LockInv, OneFlushAtATime
<1>2. QED BY <1>1, Inductive, PTL

(* There is never a second worker. *)
THEOREM SingleWorker == Spec => []OneQueueOwner
<1>1. IInv => OneQueueOwner
      BY DEF IInv
<1>2. QED BY <1>1, Inductive, PTL

(* No wake-up of the worker is lost. *)
THEOREM NoLostWakeUp == Spec => []QueuedDateHasWorker
<1>1. IInv => QueuedDateHasWorker
      BY DEF IInv, OneQueueOwner, GiveBackInv, QueueInv, QueuedDateHasWorker
<1>2. QED BY <1>1, Inductive, PTL

(* Once Shutdown has returned, no worker sends: Wait has seen none, and one *)
(* that is started later finds its context cancelled.                       *)
THEOREM ShutdownEndsSending == Spec => []NoSendAfterShutdown
<1>1. Init => NoSendAfterShutdown
      BY DEF Init, NoSendAfterShutdown
<1>2. TypeOK /\ NoSendAfterShutdown /\ [Next]_vars => NoSendAfterShutdown'
  <2> SUFFICES ASSUME TypeOK, NoSendAfterShutdown, [Next]_vars PROVE NoSendAfterShutdown'
      OBVIOUS
  <2> USE SenderAssumption DEF TypeOK, NoSendAfterShutdown, Goto, Callers, Procs, CallerPC
  <2>1. ASSUME NEW h \in Handlers, Handler(h) PROVE NoSendAfterShutdown'
        BY <2>1 DEF Handler, TryFlush, RejectFlush, FlushReturns, FlushDone, FlushFailed,
           AfterFailure, ReturnError, RequestRetry, vars
  <2>2. ASSUME NEW d \in Dates, SendAsync(d) PROVE NoSendAfterShutdown'
        BY <2>2 DEF SendAsync
  <2>3. ASSUME NEW c \in Callers, EnqueueSteps(c) PROVE NoSendAfterShutdown'
        BY <2>3 DEF EnqueueSteps, Enqueue, CheckRoot, ReleaseClaim, Spawn
  <2>4. ASSUME NEW w \in Workers, LoopTop(w) \/ Leave(w) PROVE NoSendAfterShutdown'
        BY <2>4 DEF LoopTop, Take, Retire, Leave, Abandon, Exit
  <2>5. ASSUME NEW w \in Workers, GetFlushMu(w) PROVE NoSendAfterShutdown'
        BY <2>5 DEF GetFlushMu, BeginFlush, AbortFlush, Cancelled
  <2>6. ASSUME NEW w \in Workers, Schedule(w) PROVE NoSendAfterShutdown'
        BY <2>6 DEF Schedule, AttemptReturns, AttemptDone, Exhausted, AttemptFailed, Retry,
           AbortRetry
  <2>7. CASE Stop
        BY <2>7 DEF Stop, Cancel, Wait, WakeUp, NoWorkers
  <2>8. CASE UNCHANGED vars
        BY <2>8 DEF vars
  <2>9. QED BY <2>1, <2>2, <2>3, <2>4, <2>5, <2>6, <2>7, <2>8 DEF Next, Worker
<1>3. QED BY <1>1, <1>2, TypeCorrect, PTL DEF Spec

-----------------------------------------------------------------------------
(* The sender implements the mailbox (its safety part).                    *)

(* What is queued or being worked on is a date, and a date that was taken  *)
(* starts with no failed attempt.                                          *)
DateInv == /\ hasPending => pending \in Dates
           /\ \A p \in Procs :
                pc[p] \in {"flush", "failed", "enqueue", "lock", "attempt", "wait"}
                  => date[p] \in Dates
           /\ \A w \in Workers : pc[w] = "lock" => failures[w] = 0

LEMMA DateStep == TypeOK /\ DateInv /\ [Next]_vars => DateInv'
<1> SUFFICES ASSUME TypeOK, DateInv, [Next]_vars PROVE DateInv'
    OBVIOUS
<1> USE SenderAssumption DEF TypeOK, DateInv, Goto, queue, Callers, Procs
<1>1. ASSUME NEW h \in Handlers, Handler(h) PROVE DateInv'
  <2>1. ASSUME NEW d \in Dates, TryFlush(h, d) PROVE DateInv'
        BY <2>1 DEF TryFlush
  <2>2. CASE RejectFlush(h)
        BY <2>2 DEF RejectFlush, vars
  <2>3. CASE FlushReturns(h)
        BY <2>3 DEF FlushReturns, FlushDone, FlushFailed
  <2>4. CASE AfterFailure(h)
        BY <2>4 DEF AfterFailure, ReturnError, RequestRetry
  <2>5. QED BY <1>1, <2>1, <2>2, <2>3, <2>4 DEF Handler
<1>2. ASSUME NEW d \in Dates, SendAsync(d) PROVE DateInv'
      BY <1>2 DEF SendAsync
<1>3. ASSUME NEW c \in Callers, EnqueueSteps(c) PROVE DateInv'
  <2>1. CASE Enqueue(c)
        BY <2>1 DEF Enqueue
  <2>2. CASE CheckRoot(c) \/ ReleaseClaim(c)
        BY <2>2 DEF CheckRoot, ReleaseClaim
  <2>3. CASE Spawn(c)
        BY <2>3 DEF Spawn
  <2>4. QED BY <1>3, <2>1, <2>2, <2>3 DEF EnqueueSteps
<1>4. ASSUME NEW w \in Workers, Worker(w) PROVE DateInv'
  <2>1. CASE Take(w)
        BY <2>1 DEF Take, ClearedSlot
  <2>2. CASE Retire(w) \/ Leave(w)
        BY <2>2 DEF Retire, Leave, Abandon, Exit
  <2>3. CASE GetFlushMu(w)
        BY <2>3 DEF GetFlushMu, BeginFlush, AbortFlush
  <2>4. CASE AttemptReturns(w)
        BY <2>4 DEF AttemptReturns, AttemptDone, Exhausted, AttemptFailed
  <2>5. CASE Retry(w) \/ AbortRetry(w)
        BY <2>5 DEF Retry, AbortRetry
  <2>6. QED BY <1>4, <2>1, <2>2, <2>3, <2>4, <2>5 DEF Worker, LoopTop, Schedule
<1>5. CASE Stop
      BY <1>5 DEF Stop, Cancel, Wait, WakeUp
<1>6. CASE UNCHANGED vars
      BY <1>6 DEF vars
<1>7. QED BY <1>1, <1>2, <1>3, <1>4, <1>5, <1>6 DEF Next

(* A worker that has taken a date is the only one, so CHOOSE returns it. *)
LEMMA BusyIs ==
  ASSUME OneQueueOwner, NEW w \in Workers, pc[w] \in {"lock", "attempt", "wait"}
  PROVE  Busy = {w} /\ TheBusy = w
<1>1. \A v \in Busy : v = w
      BY DEF OneQueueOwner, Owner, Busy, Procs
<1>2. w \in Busy
      BY DEF Busy
<1>3. QED BY <1>1, <1>2 DEF TheBusy

(* While another goroutine answers for the queue no date is taken. *)
LEMMA BusyNone ==
  ASSUME OneQueueOwner, NEW p \in Procs, Owner(p),
         pc[p] \notin {"lock", "attempt", "wait"}
  PROVE  Busy = {}
  BY DEF OneQueueOwner, Owner, Busy, Procs

(* The mapped variables depend on the busy worker only. *)
LEMMA SameBusy ==
  ASSUME Busy' = Busy, \A w \in Busy : pc'[w] = pc[w] /\ date'[w] = date[w]
                                     /\ failures'[w] = failures[w]
  PROVE  ServedDate' = ServedDate /\ Attempts' = Attempts
<1>1. TheBusy' = TheBusy
      BY DEF TheBusy
<1>2. CASE Busy = {}
      BY <1>2 DEF ServedDate, Attempts
<1>3. CASE Busy # {}
  <2>1. TheBusy \in Busy
        BY <1>3 DEF TheBusy
  <2>2. QED BY <1>1, <1>3, <2>1 DEF ServedDate, Attempts
<1>4. QED BY <1>2, <1>3

(* A step that leaves the taken date, its worker and the queue alone is a  *)
(* stutter of the mailbox.                                                 *)
LEMMA Stutter ==
  ASSUME Busy' = Busy, UNCHANGED <<pending, hasPending>>, Cancelled' = Cancelled,
         \A w \in Busy : pc'[w] = pc[w] /\ date'[w] = date[w] /\ failures'[w] = failures[w]
  PROVE  UNCHANGED Mailbox!vars
  BY SameBusy DEF Mailbox!vars, QueuedDate, Cancelled

(* Every step of the sender is a step of the mailbox or a stutter. *)
LEMMA MailboxStep ==
  IInv /\ IInv' /\ DateInv /\ DateInv' /\ [Next]_vars => [Mailbox!Next]_(Mailbox!vars)
<1> SUFFICES ASSUME IInv, IInv', DateInv, DateInv', [Next]_vars
             PROVE  [Mailbox!Next]_(Mailbox!vars)
    OBVIOUS
<1> USE SenderAssumption DEF Goto, queue, Procs, Callers, IInv, TypeOK
<1>1. ASSUME NEW h \in Handlers, Handler(h) PROVE UNCHANGED Mailbox!vars
  <2>1. /\ \A w \in Workers : pc'[w] = pc[w] /\ date'[w] = date[w]
        /\ UNCHANGED <<failures, pending, hasPending, shutdown>>
        BY <1>1 DEF Handler, TryFlush, RejectFlush, FlushReturns, FlushDone, FlushFailed,
           AfterFailure, ReturnError, RequestRetry, vars
  <2>2. QED BY <2>1, Stutter DEF Busy, Cancelled
<1>2. ASSUME NEW d \in Dates, SendAsync(d) PROVE UNCHANGED Mailbox!vars
  <2>1. /\ \A w \in Workers : pc'[w] = pc[w] /\ date'[w] = date[w]
        /\ UNCHANGED <<failures, pending, hasPending, shutdown>>
        BY <1>2 DEF SendAsync
  <2>2. QED BY <2>1, Stutter DEF Busy, Cancelled
<1>3. ASSUME NEW c \in Callers, EnqueueSteps(c) PROVE [Mailbox!Next]_(Mailbox!vars)
  <2>1. CASE Enqueue(c)
    <3>1. /\ \A w \in Workers : pc'[w] = pc[w] /\ date'[w] = date[w]
          /\ UNCHANGED <<failures, shutdown>>
          BY <2>1 DEF Enqueue
    <3>2. UNCHANGED <<ServedDate, Attempts, Cancelled>>
          BY <3>1, SameBusy DEF Busy, Cancelled
    <3>3. date[c] \in Dates /\ QueuedDate' = date[c]
          BY <2>1 DEF Enqueue, DateInv, QueuedDate
    <3>4. Mailbox!Put(date[c])
          BY <3>2, <3>3 DEF Mailbox!Put
    <3>5. QED BY <3>3, <3>4 DEF Mailbox!Next
  <2>2. CASE CheckRoot(c) \/ ReleaseClaim(c)
    <3>1. /\ \A w \in Workers : pc'[w] = pc[w] /\ date'[w] = date[w]
          /\ UNCHANGED <<failures, pending, hasPending, shutdown>>
          BY <2>2 DEF CheckRoot, ReleaseClaim
    <3>2. QED BY <3>1, Stutter DEF Busy, Cancelled
  <2>3. CASE Spawn(c)
    <3>1. /\ \A w \in Busy : pc'[w] = pc[w] /\ date'[w] = date[w]
          /\ UNCHANGED <<failures, pending, hasPending, shutdown>>
          BY <2>3 DEF Spawn, Busy
    <3>2. Busy' = Busy
          BY <2>3 DEF Spawn, Busy
    <3>3. QED BY <3>1, <3>2, Stutter DEF Busy, Cancelled
  <2>4. QED BY <1>3, <2>1, <2>2, <2>3 DEF EnqueueSteps
<1>4. ASSUME NEW w \in Workers, Worker(w) PROVE [Mailbox!Next]_(Mailbox!vars)
  <2>1. CASE Take(w)
    <3>1. Busy = {}
          BY <2>1, BusyNone DEF Take, Owner
    <3>2. pc'[w] = "lock" /\ date'[w] = pending /\ UNCHANGED <<pending, shutdown>>
          BY <2>1 DEF Take
    <3>3. Busy' = {w} /\ TheBusy' = w
      <4>1. OneQueueOwner' /\ pc'[w] \in {"lock", "attempt", "wait"}
            BY <3>2
      <4>2. \A v \in Busy' : v = w
            BY <4>1 DEF OneQueueOwner, Owner, Busy
      <4>3. w \in Busy'
            BY <4>1 DEF Busy
      <4>4. QED BY <4>2, <4>3 DEF TheBusy
    <3>4. QueuedDate = pending /\ QueuedDate' = NoDate /\ pending \in Dates
          BY <2>1 DEF Take, ClearedSlot, QueuedDate, DateInv
    <3>5. ServedDate = NoDate /\ ServedDate' = pending /\ Attempts' = 0
          BY <3>1, <3>2, <3>3 DEF ServedDate, Attempts
    <3>6. Mailbox!Take
          BY <3>2, <3>4, <3>5 DEF Mailbox!Take, Cancelled
    <3>7. QED BY <3>6 DEF Mailbox!Next
  <2>2. CASE Retire(w) \/ Leave(w)
    <3>1. /\ \A v \in Busy : pc'[v] = pc[v] /\ date'[v] = date[v]
          /\ UNCHANGED <<failures, pending, hasPending>>
          /\ Busy' = Busy
          BY <2>2 DEF Retire, Leave, Abandon, Exit, Busy
    <3>2. Cancelled' = Cancelled
          BY <2>2 DEF Retire, Leave, Abandon, Exit, Cancelled
    <3>3. QED BY <3>1, <3>2, Stutter
  <2>3. CASE Schedule(w) \/ GetFlushMu(w)
    <3>1. pc[w] \in {"lock", "attempt", "wait"}
          BY <2>3 DEF Schedule, GetFlushMu, BeginFlush, AbortFlush, AttemptReturns,
             AttemptDone, Exhausted, AttemptFailed, Retry, AbortRetry
    <3>2. Busy = {w} /\ TheBusy = w
          BY <3>1, BusyIs
    <3>3. /\ UNCHANGED <<pending, hasPending, shutdown, date>>
          /\ \A v \in Workers \ {w} : pc'[v] = pc[v]
          BY <2>3 DEF Schedule, GetFlushMu, BeginFlush, AbortFlush, AttemptReturns,
             AttemptDone, Exhausted, AttemptFailed, Retry, AbortRetry
    <3>4. UNCHANGED QueuedDate /\ UNCHANGED Cancelled
          BY <3>3 DEF QueuedDate, Cancelled
    <3>5. ServedDate = date[w] /\ date[w] \in Dates
          BY <3>1, <3>2 DEF ServedDate, DateInv
    <3>6. ASSUME pc'[w] \in {"lock", "attempt", "wait"}
          PROVE  Busy' = {w} /\ TheBusy' = w /\ UNCHANGED ServedDate
      <4>1. Busy' = {w}
            BY <3>2, <3>3, <3>6 DEF Busy
      <4>2. QED BY <4>1, <3>3, <3>2 DEF TheBusy, ServedDate
    <3>7. ASSUME pc'[w] \notin {"lock", "attempt", "wait"}
          PROVE  ServedDate' = NoDate /\ Attempts' = 0
      <4>1. Busy' = {}
            BY <3>2, <3>3, <3>7 DEF Busy
      <4>2. QED BY <4>1 DEF ServedDate, Attempts
    <3>8. CASE BeginFlush(w) \/ Retry(w)
      <4>1. /\ Attempts \in 0..Retries
            /\ Attempts' = Attempts + 1
            /\ pc'[w] = "attempt"
            BY <3>2, <3>6, <3>8 DEF BeginFlush, Retry, Attempts, DateInv
      <4>2. Mailbox!Try
            BY <3>4, <3>5, <3>6, <4>1 DEF Mailbox!Try
      <4>3. QED BY <4>2 DEF Mailbox!Next, Mailbox!Serve
    <3>9. CASE AttemptDone(w) \/ Exhausted(w)
      <4>1. pc[w] = "attempt" /\ pc'[w] = "top"
            BY <3>9 DEF AttemptDone, Exhausted
      <4>2. Attempts > 0
            BY <3>2, <4>1 DEF Attempts
      <4>3. Mailbox!Finish
            BY <3>4, <3>5, <3>7, <4>1, <4>2 DEF Mailbox!Finish
      <4>4. QED BY <4>3 DEF Mailbox!Next, Mailbox!Serve
    <3>10. CASE AttemptFailed(w)
      <4>1. /\ pc[w] = "attempt" /\ pc'[w] = "wait"
            /\ failures'[w] = failures[w] + 1
            BY <3>10 DEF AttemptFailed
      <4>2. UNCHANGED Attempts
            BY <3>2, <3>6, <4>1 DEF Attempts
      <4>3. QED BY <3>4, <3>6, <4>1, <4>2 DEF Mailbox!vars
    <3>11. CASE AbortFlush(w) \/ AbortRetry(w)
      <4>1. Cancelled /\ pc'[w] = "abort"
            BY <3>11 DEF AbortFlush, AbortRetry
      <4>2. Mailbox!Abandon
            BY <3>4, <3>5, <3>7, <4>1 DEF Mailbox!Abandon
      <4>3. QED BY <4>2 DEF Mailbox!Next, Mailbox!Serve
    <3>12. QED BY <2>3, <3>8, <3>9, <3>10, <3>11 DEF Schedule, GetFlushMu, AttemptReturns
  <2>4. QED BY <1>4, <2>1, <2>2, <2>3 DEF Worker, LoopTop
<1>5. CASE Stop
  <2>1. UNCHANGED <<pc, date, failures, pending, hasPending>>
        BY <1>5 DEF Stop, Cancel, Wait, WakeUp
  <2>2. UNCHANGED <<QueuedDate, ServedDate, Attempts>>
        BY <2>1, SameBusy DEF Busy, QueuedDate
  <2>3. CASE Cancel
        BY <2>2, <2>3 DEF Cancel, Cancelled, Mailbox!Close, Mailbox!Next
  <2>4. CASE Wait \/ WakeUp
        BY <2>2, <2>4 DEF Wait, WakeUp, Cancelled, Mailbox!vars
  <2>5. QED BY <1>5, <2>3, <2>4 DEF Stop
<1>6. CASE UNCHANGED vars
      BY <1>6, Stutter DEF vars, Busy, Cancelled
<1>7. QED BY <1>1, <1>2, <1>3, <1>4, <1>5, <1>6 DEF Next

(* The initial states of the sender are initial states of the mailbox. *)
LEMMA MailboxInit == Init => Mailbox!Init /\ DateInv
<1> SUFFICES ASSUME Init PROVE Mailbox!Init /\ DateInv
    OBVIOUS
<1>1. \A p \in Procs : pc[p] \in {"idle", "unborn"}
      BY DEF Init
<1>2. Busy = {}
      BY <1>1 DEF Busy, Procs
<1>3. Mailbox!Init
      BY <1>2 DEF Init, Mailbox!Init, QueuedDate, ServedDate, Attempts, Cancelled
<1>4. DateInv
      BY <1>1 DEF Init, DateInv, Procs
<1>5. QED BY <1>3, <1>4

(* The sender implements the one-slot mailbox in which the last date wins: *)
(* a date it took is tried at least once and at most Retries + 1 times,    *)
(* and dropped only after Shutdown.                                        *)
THEOREM RefinesMailbox == Spec => Mailbox!SafeSpec
<1>1. TypeOK /\ DateInv /\ [Next]_vars => DateInv'
      BY DateStep
<1>2. IInv => TypeOK
      BY DEF IInv
<1>3. Spec => []DateInv
      BY <1>1, <1>2, MailboxInit, Inductive, PTL DEF Spec
<1>4. QED BY <1>3, Inductive, MailboxInit, MailboxStep, PTL DEF Spec, Mailbox!SafeSpec

(* What the mailbox promises by itself, of the sender's variables: no date  *)
(* is tried more often than the schedule says (sender.go:145-165), and      *)
(* nothing but dates is ever queued or served.                              *)
THEOREM AttemptsBounded == Spec => []Mailbox!TypeOK
<1>1. Mailbox!Init => Mailbox!TypeOK
  <2>1. 0 \in 0..(Retries + 1)
        BY SenderAssumption
  <2>2. Cancelled \in BOOLEAN
        BY DEF Cancelled
  <2>3. QED BY <2>1, <2>2, Zenon DEF Mailbox!Init, Mailbox!TypeOK
<1>2. Mailbox!TypeOK /\ [Mailbox!Next]_(Mailbox!vars) => Mailbox!TypeOK'
  <2> SUFFICES ASSUME Mailbox!TypeOK, [Mailbox!Next]_(Mailbox!vars) PROVE Mailbox!TypeOK'
      OBVIOUS
  <2> USE SenderAssumption DEF Mailbox!TypeOK
  <2>1. ASSUME NEW d \in Dates, Mailbox!Put(d) PROVE Mailbox!TypeOK'
        BY <2>1 DEF Mailbox!Put
  <2>2. CASE Mailbox!Take
        BY <2>2 DEF Mailbox!Take
  <2>3. CASE Mailbox!Serve
        BY <2>3 DEF Mailbox!Serve, Mailbox!Try, Mailbox!Finish, Mailbox!Abandon
  <2>4. CASE Mailbox!Close
        BY <2>4 DEF Mailbox!Close
  <2>5. CASE UNCHANGED Mailbox!vars
        BY <2>5 DEF Mailbox!vars
  <2>6. QED BY <2>1, <2>2, <2>3, <2>4, <2>5 DEF Mailbox!Next
<1>3. QED BY <1>1, <1>2, RefinesMailbox, PTL DEF Mailbox!SafeSpec
=============================================================================
