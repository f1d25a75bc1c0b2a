\* Two authors in two partitions, three days, two messages per partition, one restart; fair readers.
CONSTANTS
  a1 = a1
  a2 = a2
  p1 = p1
  p2 = p2
  Authors = {a1, a2}
  Users = {u1, u2}
  Partitions = {p1, p2}
  PartitionOf <- MCPartitionOf
  Junk = junk
  Retention = 2
  MaxDay = 3
  MaxMessages = 2
  MaxRestarts = 1
SPECIFICATION FairSpec
CHECK_DEADLOCK FALSE
INVARIANTS
  WindowExact
  TwoDaysKept
PROPERTIES
  CountsGrow
  CatchesUp
