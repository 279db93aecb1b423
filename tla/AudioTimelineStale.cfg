SPECIFICATION TimelineSpec
CHECK_DEADLOCK FALSE
CONSTANTS
  AudioFrame = 3
  Jitter = 1
  Tolerance = 1
  Lag = 6
  Burst = 2
  Stale = 4
  AudioRoom = 2
  MaxClock = 12
INVARIANTS
  OnlyBacklogIsStale
