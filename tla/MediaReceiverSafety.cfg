SPECIFICATION Spec
CHECK_DEADLOCK FALSE
CONSTANTS
  Loads = {l1, l2}
  NoLoad = NoLoad
  Hasty = FALSE
  PumpCap = 1
  CmdCap = 1
  PacketCap = 1
INVARIANTS TypeOK Quiet
SYMMETRY Symmetry
