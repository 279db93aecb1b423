SPECIFICATION Spec
CONSTANTS
  Devices = {d1, d2}
  Streams = {s1, s2}
  Stoppers = {k1}
  Closer = Closer
  NoDevice = NoDevice
  NoStream = NoStream
  EventCap = 1
  AllowOverlap = FALSE
  WithAudio = {s1}
  WithServing = {s2}
INVARIANTS StopJoins ShutdownReleases
SYMMETRY Symmetry
PROPERTY KeepsPromise
VIEW InFlightCounted
