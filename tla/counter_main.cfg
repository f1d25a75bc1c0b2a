\* Two brokers, two partitions, answers of up to three ids, two requests;
\* fairness of run only.
CONSTANTS
  Partitions = {p1, p2}
  Brokers = 2
  MaxListed = 3
  Requests = {q1, q2}
SPECIFICATION FairSpec
\* The process ends.
CHECK_DEADLOCK FALSE
INVARIANTS OneReaderPerPartition EveryPartitionRead NoRequestAfterDrain
PROPERTIES
  ProcessEnds
