CONSTANTS
  Partitions = {p1, p2}
  Brokers = 1
  MaxListed = 2
  Requests = {q1}
SPECIFICATION Spec
CHECK_DEADLOCK FALSE
INVARIANT CloseAfterRun
