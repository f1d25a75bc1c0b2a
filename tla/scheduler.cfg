\* Two short days and the beginning of a third; a timer is served up to two
\* minutes late; one restart at any time.
CONSTANTS
  HourLength = 4
  HoursPerDay = 3
  Hours <- MCHours
  Minute = 1
  CleanupMinute = 2
  MaxLag = 2
  Horizon = 29
  Watched = 0
  RetryAt <- MCRetryAt
  NoDay = noday
  MaxClicks = 2
  MaxRestarts = 1
SPECIFICATION PipelineSpec
\* The clock stops at the horizon.
CHECK_DEADLOCK FALSE
INVARIANTS EverySlotServed OncePerSlot CleanedInTime ScheduledIsKept SentIsComplete
