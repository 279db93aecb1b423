SPECIFICATION Spec
CHECK_DEADLOCK FALSE
CONSTANTS
  Loads = {l1}
  NoLoad = NoLoad
  Hasty = FALSE
  PumpCap = 1
  CmdCap = 1
  PacketCap = 1
PROPERTY CloseEnds
