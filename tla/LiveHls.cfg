SPECIFICATION Spec
CONSTANTS
  Players = {p1}
  NoPart = NoPart
  Capacity = 2
  LagThreshold = 1
  MaxFrames = 5
  MaxSeeks = 1
INVARIANTS TypeOK FramesTile NoLostWakeUp
PROPERTIES PartsStay PlaysForward SkipsOnlyWhenLagging CatchesUp
