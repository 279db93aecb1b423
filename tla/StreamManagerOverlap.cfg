SPECIFICATION Spec
CONSTANTS
  Devices = {d1}
  Streams = {s1, s2}
  Stoppers = {k1}
  Closer = Closer
  NoDevice = NoDevice
  NoStream = NoStream
  EventCap = 1
  AllowOverlap = TRUE
  WithAudio = {}
  WithServing = {}
INVARIANTS TypeOK NoOrphan
 
