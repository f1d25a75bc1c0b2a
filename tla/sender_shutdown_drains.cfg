CONSTANTS
  Handlers = {h1, h2}
  Scheduler = sched
  Workers = {w1, w2}
  Dates = {d1, d2}
  NoDate = nodate
  Nobody = nobody
  Retries = 1
SPECIFICATION Spec
INVARIANT ShutdownFinishesSends
