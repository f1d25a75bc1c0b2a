\* One request, the ticks, two worker goroutines, a schedule of one retry;
\* fairness, so no symmetry.
CONSTANTS
  Handlers = {h1}
  Scheduler = sched
  Workers = {w1, w2}
  Dates = {d1, d2}
  NoDate = nodate
  Nobody = nobody
  Retries = 1
SPECIFICATION FairSpec
INVARIANTS
  OneFlushAtATime
  OneQueueOwner
  QueuedDateHasWorker
  NoSendAfterShutdown
PROPERTIES
  ImplementsMailbox
  ShutdownCompletes
  WorkersQuiesce
