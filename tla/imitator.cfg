\* Two readers with up to two reads, two in all; one retry; two days; about
\* 140 environments.  Fair goroutines.
CONSTANTS
  Readers = {1, 2}
  MinReads = 0
  MaxReads = 2
  Retries = 1
  MaxDay = 1
  MaxTotal = 2
  Malformed = malformed
  Blank = blank
  Unset = unset
  Missing = missing
  Unreadable = unreadable
  None = none
  MaxInt = 7
  Fallback <- MCFallback
  Environments <- MCEnvironments
SPECIFICATION MainFairSpec
CHECK_DEADLOCK FALSE
INVARIANTS
  AcceptedIsUsable
  LoadedAsWritten
  NoSendAfterRun
  CompletedMeansWritten
  GivenUpLast
  OneDayPerClick
PROPERTIES
  RunEnds
