SPECIFICATION MediaSpec
CHECK_DEADLOCK FALSE
CONSTANTS
  Gop = 3
  ReconPool = 2
  SurfacePool = 3
  MaxPictures = 6
  MaxTransit = 3
  Handlers = {h1, h2}
  Initial = 1000
  Samples = {0, 200}
  Capacities = {400, 1200}
  MaxGets = 4
  Period = 2
  Interval = 4
  MaxEncode = 2
  Room = 1
  MaxAway = 1
  MaxTime = 10
  Chunk = 2
  AacFrame = 3
  OpusFrame = 1
  CaptureRoom = 1
  EncodedRoom = 1
  QueueRoom = 1
  MaxChunks = 4
  MaxFailures = 5
  Healthy = 60
  Connects = {0, 1, 10}
  AudioFrame = 3
  Jitter = 1
  Tolerance = 1
  Lag = 6
  Burst = 2
  Stale = 4
  AudioRoom = 2
  MaxClock = 12
  Counters = 3
  MaxPieces = 2
  MaxUnits = 5
  Kept = 2
INVARIANTS
  MediaTypeOK
  OnlyKnownCausesMislead
  KeyframesInTime
  LagIsAccountedFor
  FirstOutageAsPromised
  FreshSoundFits
  SegmentsSplice
PROPERTIES
  RateSettles
  TimestampsRise
  AudioPidRises
  FirstOutageEnds
