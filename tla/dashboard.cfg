\* Two authors, two columns, two days; one startup retry; two calls fail; fairness.
CONSTANTS
  AuthorIds = {1, 2}
  MaxDays = 2
  StartupRetries = 1
  LastDay = 1
  MaxCount = 1
  MaxFailures = 2
  Pending = pending
  Failed = failed
  NoSnapshot = nosnapshot
SPECIFICATION FairSpec
CHECK_DEADLOCK FALSE
INVARIANTS
  ShownIsStored
  EveryDayServed
PROPERTIES
  ShownNeverFalls
  EventuallyShown
  RunStops
