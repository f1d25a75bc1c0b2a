# Verification of go.services.communication.dzen

TLA+ models of the four Go services in `src/app/`, the TLC configurations that
check them on small instances, and proofs that TLAPS checks for all instances.

* [The system](#the-system)
* [Modules](#modules)
* [Runs](#runs)
* [Proofs](#proofs)
* [Where code and documentation disagree](#where-code-and-documentation-disagree)
* [Limits](#limits)
* [Plan](#plan)

## The system

The program counts the unique readers of authors per day.

```
ClickImitator --Kafka topic "clicks"--> ClickCounter --POST /stats--> StorageGateway --> PostgreSQL
                                                                          ^
                                                 ClickDashboard --gRPC----+
```

### Components, their state and their operations

| component | state | operations | what makes it correct |
|---|---|---|---|
| ClickImitator (`ClickImitator/internal/service`, `client/kafka.go`) | readers and sends as goroutines, WaitGroups, counters of failures | run a strategy, send with retries, abort on a signal, close the writer | no send outlives the run; "completed" means written; a retry does not count a reader twice |
| settings and scenarios of ClickImitator (`pkg/config/config.go`, `loader.go`, `cmd/main.go`) | the configuration, the scenarios | load, validate, verify the topic, build a strategy | what is accepted can be run; the scenarios are those of the files |
| Consumer (`ClickCounter/internal/service/consumer.go`) | one Kafka reader per partition | discover, read, skip bad messages, close | every partition is read by one reader as long as the service lives |
| Tracker (`tracker.go`) | day -> author -> set of users | AddClickAt, GetByDate, Cleanup | exactly the readers of today and yesterday, at any time, also after a restart |
| Scheduler, cleanup loop (`scheduler.go`) | a timer each | fire, arm again | each time of the schedule is used once; cleanup keeps what is still sent |
| Sender (`sender.go`) | a one-slot queue, the flag `working`, `flushMu`, a WaitGroup, a context | SendNow, SendAsync, the worker with its retry schedule, Shutdown | one flush at a time, one worker, no queued date without a worker, a clean end |
| process (`ClickCounter/cmd/main.go`) | the select, deferred calls | start, drain, close | the process ends, in the right order |
| StorageGateway (`repository.go`, `handlers.go`, `service.go`) | the tables `stats` and `authors` | POST /stats in one transaction, reads | a batch is stored whole; counts only grow; no lock is left behind |
| process of StorageGateway (`cmd/main.go`, `pkg/db/db.go`) | the pool, two servers, the schema and its dirty mark in the database | connect, migrate, serve, drain HTTP, drain gRPC or stop it | nobody meets half a schema; a clean end cuts nobody off; everybody gets a connection |
| ClickDashboard (`service.go`, `store.go`, `client.go`) | a published, immutable snapshot | refresh (two concurrent calls), startup retries, ticker, GET /stats | the page shows what is stored, does not go back, gets up to date |

### How they interact, and what is hard about it

* **Counts are repeated, not summed.** ClickCounter sends a day's whole counts,
  again and again; the gateway replaces a count only by a larger one. So
  batches may be lost, duplicated and reordered, as long as the counter's own
  counts are right. A restarted counter, which reads the topic again from the
  first offset, sends counts that are too small for a while.
* **Interleaving inside the Sender.** Manual flushes, the scheduler, the worker
  and Shutdown meet at two mutexes, a flag, a context and a WaitGroup.
* **Time.** "Today" moves while clicks arrive late, a refresh is under way, a
  timer is served late or a retry waits.
* **Two transactions at a time** lock rows of `stats` in the order of their
  batches.
* **The ends.** Every service has goroutines, WaitGroups and deadlines to bring
  to an end after a signal, and the gateway's two servers share one deadline.
* **The starts.** Migrations may be cut off half way; settings and scenario files
  come from outside; brokers may be away.

`PROJECT.json` lists each of these hazards at its line, with the properties
that are about it.

## Modules

| module | models | state and actions |
|---|---|---|
| `FlushQueue` | what the Sender promises (abstract) | a slot in which the last date wins, a date being served, its attempts |
| `Sender` | `sender.go`, `flushDate` of `handler.go` | `pc[p]`: where each handler, the scheduler and each worker is between two lock operations; `pending`, `hasPending`, `working`, `flushMu` as in the code; `shutdown` for the context, `Wait` and its release. One action per critical section, per check of a context and per outcome of an attempt |
| `SenderPromise` | the same, with the dates a client was promised | `owed`: a history variable |
| `Tracker` | `tracker.go`, `consumePartition` of `consumer.go`, cleanup, the topic's retention | `days`: the clicks in memory (a set of author, user and day, which is what the nested maps hold); a log and an offset for each partition |
| `Scheduler` | `scheduler.go` | the clock in minutes, the two timers, how often SendAsync was called in each minute |
| `Pipeline` | what the timers set in motion: EXTENDS `Scheduler` with the Sender's slot and worker (as `FlushQueue` describes them), its retries in minutes, the Tracker's counts of one day, the table (as `StatsTable` describes it), manual flushes, requests that arrive late, the cleanup and a restart | counts of the day `Watched` on their way: in the topic, in the Tracker, in a late request, in the table; the slot and the worker's date, and whether the schedule put it there |
| `CounterMain` | `cmd/main.go`, discovery, `Run` and `Close` of `consumer.go` | where run, the server, the requests, `Consumer.Run` and the loop of each reader are |
| `StatsTable` | what the gateway promises (abstract) | the table; one action that saves a whole batch with the larger counts |
| `StorageGateway` | `SaveStats` down to `UpsertStats`, reads | per request: where it is, its batch, the rows it has upserted; per row: its count and the transaction that has locked it |
| `GatewayMain` | `cmd/main.go` and `pkg/db` of the gateway around `StorageGateway` | where run and both servers are; requests and calls that wait for a connection of the pool; the version of the schema and its dirty mark, which outlive the process. A crash is possible at any time |
| `Dashboard` | `service.go`, `store.go`, `client.go`, `handlers.go` of ClickDashboard | the gateway's tables and the clock; where `Run` is, the results of the two calls, the snapshot. `buildSnapshot` and its parts are operators |
| `Imitator` | both strategies, `sendWithRetry`, the Kafka writer | where each reader and each send is, the messages in the writer and in the topic, the outcome of the run |
| `Texts`, `ImitatorConfig` | `config.go` of ClickImitator | operators: an environment to a configuration, and what is refused |
| `ScenarioLoader` | `loader.go` | operators: a directory to scenarios, line by line with the state the loop keeps, next to a description of what the files say |
| `ImitatorMain` | `cmd/main.go` of ClickImitator: EXTENDS the three above | the start: load, validate, verify the topic, build the strategy, start the readers; then a step is one of `Imitator` |
| `MC...` | names, batches, environments and schedules for TLC | |
| `...Proofs` | theorems, see below | |

Kafka, PostgreSQL, golang-migrate, net/http, grpc-go and the Go runtime are
modelled only as far as the code depends on them, and marked `external` in
`PROJECT.json`:

* `sync.WaitGroup`: Wait sleeps, is released by the last Done, and panics when
  the counter has left zero before it runs.
* PostgreSQL (READ COMMITTED): an upsert sees the last committed row or the one
  of its own transaction, waits for another one's lock, and is aborted when the
  waits form a cycle. A transaction whose client is gone is rolled back.
* golang-migrate marks a version as dirty, applies it, clears the mark, refuses
  to start from a dirty one, and keeps the connection its driver took.
* The Kafka writer: a Send that returns with an error may still be written.
* gRPC calls fail at any time, but only `MaxFailures` times.

Definitions with a name like `StartWorker_Always` or `From_Short` are mutants:
the definition they precede with a plausible bug. No specification uses them;
each is used in place of its original to see that a property notices the bug.

## Runs

### Passing

| run | question | bounds, and why they suffice |
|---|---|---|
| `sender` | do locks, flag and context keep flushes apart, one worker, no lost wake-up? Is nothing sent after Shutdown? Does the Sender implement the mailbox, with its fairness, and come to an end? | one handler, the scheduler, two workers (a new one may be born while the old one is about to exit), two dates, one retry: two callers of different kinds meet one worker at every lock |
| `tracker` | is the window exact, is it small, do counts grow, does a reader get through its partition? | two authors in two partitions, two messages each, days 0 to 3 (the window of two days moves out of the retention), one restart |
| `scheduler` (module `Pipeline`) | is every time used once, late or not? Is a day that was sent complete in the table, is none cleaned up that is still sent? | days of three hours of four minutes, sends at 0:01 and 1:01, cleanup at 0:02, timers up to two minutes late, retries after one and three minutes, two clicks, one restart, two days and the beginning of a third: the watched day passes through all of its life, from its first click to after its cleanup |
| `counter_main` | does discovery start one reader per partition, does the end come, and in order? | two brokers, lists of up to three ids (so that one repeats), two requests |
| `gateway` | is a batch atomic, kept, monotone, without locks left; is each request answered? | two transactions (a cycle of waits needs no more), batches that overlap in either order, share a row twice, overflow or are invalid; INTEGER is `MaxInteger` = 2 |
| `gateway_main` | is nobody served from half a schema, is a clean end clean, does a signal end the process, does everybody get a connection? | two migrations (a crash may fall between or into them), two requests and two calls for two free connections, any number of crashes and starts |
| `dashboard` | does the page show only what is stored, never go back, get up to date; does Run end? | two authors, two columns, one midnight, two failures, one startup retry |
| `imitator` (module `ImitatorMain`) | can what is accepted be run, are the scenarios those of the files, do sends end before the run, does success mean written, is a click counted once, does the run end? | about 140 environments: each setting at, next to and beyond its limits, and all files of up to two lines of six kinds, those of three that begin with a user; then two readers with up to two reads, two in all, one retry, one midnight |

The type invariants, `LocksHeld` and `RefusedOnlyIfDirty` are proved for all
constants (see below).
TLC checks only that of `gateway` again, which has the bound of INTEGER in it.

Symmetry is not used: most runs also check liveness, for which it is not sound.
Where a configuration turns deadlock checking off, the service or the bounded
environment (days, messages, requests) really comes to an end.

### Fairness

* `Sender`: goroutines that can run do, timers fire, an attempt returns because
  the HTTP client has a timeout. A worker that waits for `flushMu` competes with
  handlers that only TryLock: `sync.Mutex` gives a waiter that has starved for a
  millisecond the lock and fails every TryLock meanwhile, hence strong fairness.
  Requests, ticks of the schedule and Shutdown need not come.
* `Tracker`: readers go on; nothing is assumed about messages, restarts or days.
* `StorageGateway`: a transaction that can go on does, PostgreSQL finds
  deadlocks.
* `GatewayMain`: as there; `run` and the goroutines of the servers go on, the
  shutdown deadline passes, and `database/sql` serves the requests for a
  connection in their order. Crashes, signals and requests need not come.
* `Dashboard`: calls return (deadlines), delays and ticks pass. A select that
  finds both its tick and `ctx.Done()` ready chooses at random, so that the
  latter is taken at some time: strong fairness of `Stop`.
* `ImitatorMain`: the start goes on, goroutines run, timers fire, the writer
  deals with what it has.
* `CounterMain`: only `run` itself; requests may hang for ever.
* `Pipeline`: no liveness is checked.

## Proofs

TLAPS proves the following for all values of the constants that satisfy the
modules' assumptions. Each invariant theorem follows from an inductive
invariant, with a lemma for each action; the properties are seldom inductive
alone.

**`SenderProofs`**: `TypeCorrect`, `FlushExclusion`, `SingleWorker`,
`NoLostWakeUp`, `ShutdownEndsSending`, `RefinesMailbox`, `AttemptsBounded`. The
invariant `IInv` says who holds `flushMu` (exactly the goroutine that is inside
a flush or a schedule), that `working` is the existence of one owner, and that a
queued date has an owner who will look again unless the context is cancelled.
The last part is the lost wake-up argument: the worker resets `working` in the
critical section in which it sees the slot empty, so an `enqueue` comes either
before it, and the worker sees the date, or after it, and starts a new one.
`RefinesMailbox` maps each step to a step of `FlushQueue` or a stutter; at most
one worker is busy, so that "the date being served" is well defined.
`ShutdownEndsSending` is what is left of the comment that
`sender_shutdown_waits` refutes: a worker may start after Shutdown, but it does
not send. `AttemptsBounded` is what the refinement gives back: what holds of the
small mailbox, that a date is attempted at most once more than there are
retries, holds of the Sender.

**`TrackerProofs`**: `TypeCorrect`, `ExactWindow`, `MemoryBounded`,
`CountsNeverDrop`. The invariant relates the memory to what has been read of the
log: the retention keeps what the window needs, a click in memory was read, and
a click that was read and is of today or yesterday is in memory. Cleanup and
midnight only shrink the window, and a restart empties the memory together with
what counts as read. `CountsNeverDrop` is the action property `CountsGrow`:
until a restart no step takes a reader away from today or yesterday, and the
sets of readers are finite (`FiniteDays`), so that their sizes grow with them.

**`StorageGatewayProofs`**: `TypeCorrect`, `SavedCountsStay`, `NoLockLeft`,
`RefinesTable`, `CountsOnlyGrow`. The invariant says that a lock belongs to a
running transaction that has upserted the row and that nobody else changes the
committed row meanwhile; so what the transaction compared with is still there
when it commits, and its commit is one `Save` of `StatsTable`: the whole batch,
with the larger count in each row. Every other step leaves the table as it is
(`StepSaves`), so that a count never falls.

**`GatewayMainProofs`**: `ProcessTypeCorrect`, `CleanEnd`, `WholeSchema`,
`RefusalHasReason`, and for the transactions `CrashesKeepTheTable`,
`CrashesKeepThePromise`, `AnswerIsForGood`. To the invariant of the transactions
it adds that a process that is connecting or gone serves nobody, that the
migrations are through when the servers start (`SchemaInv`), and that what the
draining has achieved is not undone (`DrainInv`): a closed listener lets no new
request in, so "no request" stays true while the gRPC calls are drained. The
second part (`TransactInv`) puts the transactions into the process: one that
waits for a connection has not begun, and a crash at any point, between two
upserts or before a commit, leaves neither lock nor write behind
(`CutOffRollsBack`). Each step of the process is then a step of the transactions
or leaves the table alone (`ProcessStep`). So the process still implements
`StatsTable`, and a client that was told 204 finds its count, or a larger one,
for ever after (`AnswerIsForGood`), although the program forgets the request.

**`CounterMainProofs`**: `TypeCorrect`, `SingleReader`, `PartitionsStayRead`,
`DrainedMeansIdle`. The readers started so far are a prefix of the ids that were
listed, which are distinct; a loop is done only when the context is.

**`ImitatorProofs`**: `WriterUnusedAfterRun`, `SuccessIsComplete`,
`WholeScheduleUsed`, `CopiesAgree` for the simulation, and `StartedProcess`,
`AcceptedConfigIsUsable`, `ScenariosAsWritten` for the whole process. The
invariant says what each place of a reader and of a send implies for its
counters and for the topic: a reader that has joined has no send left, a send
that is not failed is in the topic when it is over, and all copies of a click
carry the day of its stamp. `StartedProcess` shows that the start leaves the
simulation in an initial state of its own, whichever environment it was given.
`AcceptedConfigIsUsable` follows the configuration from `Load`, whose numbers
are in the range of an int whatever the texts were, through `Validate` (`Sound`)
to the place where rand is called: the only panic left is a range of reads from
0 to the largest int.

`ScenariosAsWritten` compares the loader's loop with what the files say. The
first is a fold that carries an error, the finished scenarios and the one being
read; the second (`WellFormed`, `Meaning`) looks at all lines at once. The
invariant of the loop after k lines (`LoopInv`) is that either the file is not
well formed and the error is set, or some line l is the last user line so far,
the scenarios before it are complete, and the current one has the ids of the
author lines from l to k. It is proved by induction over k, like the facts about
the recursive functions under it (`KeepSteps`, `FoldSteps`, `FlattenSteps`,
`MeaningSteps`), and again over the files of a directory (`LoadInv`). The
library's induction theorem for naturals takes an operator and cannot be used;
`AllNumbers` gets the same from the well-foundedness of the order, for a set of
numbers instead of a predicate.

**`PipelineProofs`**: `TimersCorrect` for the two loops alone; `TypeCorrect`,
`ScheduleComplete`, `ScheduleOnce`, `CleanupCorrect`, `DatesAreKept`,
`CompleteDayIsStored` and `FillsTheTable` for the composition. First some
arithmetic of days and minutes: `UntilNextFrom` is the least of the waits, so
the next slot is after now, within a day, and none lies between (`NextSlot`).
The timers' invariant says that a waiting loop waits for the earliest slot after
the one it served, and that the cleanup's next run is today's or tomorrow's. The
queue's invariant bounds how long the worker keeps a date: what is queued behind
it gets its turn within `Longest` minutes and is through after as many again,
which `PipelineAssumption` requires to be before that date's cleanup. The data's
invariant orders the counts: no more in the table or on its way than was
clicked, and once a complete day was stored nothing lowers it. `FillsTheTable`
says that the pipeline is a behaviour of `StatsTable` with one row: what
attempts, late requests and restarts do together is a sequence of saves of
batches that are not empty. With `RefinesTable` this is the seam between the
counter and the gateway.

**`DashboardProofs`**: `TypeCorrect`, `ShownCorrect`, `NothingFalls`,
`AnswersComplete`. Its first part shows that a finite set of ids can be sorted
(by induction, which `AllNumbers` derives from the well-foundedness of the
numbers), its second what a snapshot shows: a cell is the count of the row read
for that author and day, or zero (`Built`, `BuiltShows`), although the code goes
through an index of maps and two aligned slices. The invariant says that what
was read is one row per author and day and no more than the table has now
(`StatsInv`), and no less than what is shown of the same days (`FreshInv`): the
refresh is alone, so a snapshot was published before the reads that replace it
began.

The assumptions are the `ASSUME`s of the modules (`SenderAssumption`,
`TrackerAssumption`, ...): kinds of the constants, special values outside of the
ordinary ones, at least as much retention as the window needs, and for
`Scheduler` and `Pipeline` what the deployed configuration gives and `config.go`
does not check: hours within the day, timers late by less than the gap between
two slots, retries that end before the cleanup. For `ImitatorMain` they say that a
setting reads as a number of its Go type, as something else, or is not there
(`EnvironmentAssumption`), that the literals in `Load` are such numbers
(`ConfigAssumption`), and that readers have positive ids.

Only model-checked:

* all liveness: the fairness of `ImplementsMailbox`, and `ShutdownCompletes`,
  `WorkersQuiesce`, `CatchesUp`, `Answered`, `SignalEnds`, `ConnectionComes`,
  `EventuallyShown`, `RunStops`, `RunEnds`, `ProcessEnds`, because the prover
  handles neither ENABLED nor fairness.

Not proved either is that `Pipeline`'s queue implements `FlushQueue`: its `Sent`
makes the attempt and lets go of the date in one step, and its restart empties
the slot, which the mailbox never does. The comparison of the two is by reading.

## Where code and documentation disagree

Each is a run whose property TLC finds violated.

| run | what is said | what happens |
|---|---|---|
| `sender_shutdown_waits` | `sender.go:199`: Shutdown waits for the worker | `enqueue` looks at the context, then adds to the WaitGroup: Shutdown in between waits for nobody, and the worker starts afterwards (it takes the queued date, finds its context cancelled and stops); if the Add comes between the release of Wait and its return, the WaitGroup panics |
| `sender_shutdown_drains` | `Readme.md:167`: services wait for sends that are not finished | cancelling the context drops the queued date and the one in a pause |
| `sender_promise` | `handler.go:81`: "flush failed, retrying in background" | a later date overwrites the slot before the worker has seen the promised one |
| `counter_main_close` | `consumer.go:189`: call Close after Run has returned | `main.go:48` closes without waiting for Run; a reader appended afterwards stays open |

Two more are visible in the code without a run: `main.go:59` says that the
cleanup is at 00:00 UTC while `scheduler.go` and the README say 00:06; and when
no broker answers at the start, the Consumer's error is only logged and the
service goes on, with an empty Tracker, until it is restarted
(`consume = "failed"` in `CounterMain`).

## Limits

Not modelled:

* **Names, texts, ids of requests, logging, HTTP and gRPC encodings**: no
  property depends on them.
* **Configuration of ClickCounter, StorageGateway and ClickDashboard** is taken
  as valid. Its helpers are those of ClickImitator's `config.go`, which
  `ImitatorConfig` models, but nothing validates the result: `config.go` of
  ClickCounter does not check the hours of the schedule, and
  `ScheduleAssumption` states what is taken for granted (an hour below zero
  would make the wait negative and the loop spin until midnight).
* **The process of ClickDashboard**: run starts the refresh loop and one server,
  and drains that server under one deadline, as `CounterMain` does with more
  to lose. `Dashboard` has the signal and the end of the loop; nothing outlives
  the process.
* **The clock** of a service only goes forward.
* **ClickCounter's read handlers** return what `Tracker` holds; there is nothing
  of their own to go wrong.
* **The middleware** is stateless. **Generated code** (`pkg/pb`) is not
  modelled; it is what protoc makes of two messages and two calls.

Abstracted:

* `Pipeline` follows one author and one day, whose clicks reach the topic on that
  day; the Sender is its mailbox there, an
  attempt takes less than a minute, and so does a restart.
* In `ImitatorMain` a line of a file, or a value of the environment, is what the
  code can tell of it: blank, malformed, or the number or text it stands for;
  `MaxInt` is 7, so that a range of reads can wrap around.
* In `GatewayMain` a read is one query, and a crash is the end of the whole
  process; the database itself does not fail for good.

## Plan

Done: all components but those listed under Limits, their composition
(`Pipeline`, `GatewayMain`, `ImitatorMain`), and proofs of the safety of each.

What could follow:

1. `Pipeline` with `Sender` in place of its mailbox, and `StorageGateway` in place
   of its table: the refinements that `sender` and `gateway` check say that this
   adds no behaviour, so it would be a test of the abstraction only.
2. The process of ClickDashboard, and the configuration of the three services
   that do not validate theirs, with the hours of the schedule as the case of
   interest.
3. A theorem that ties `Tracker` to `Pipeline`: that `counted` is what the window
   holds of one author. The two differ in when a click may reach the topic
   (`Pipeline` has a day's clicks on that day only), and would have to be brought
   together first.
