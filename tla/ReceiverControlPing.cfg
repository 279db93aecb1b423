SPECIFICATION ControlSpec
CHECK_DEADLOCK FALSE
CONSTANTS
  Talk = {"ping", "launch", "volume", "pause"}
  CmdRoom = 1
  MaxTransit = 2
  MaxMessages = 5
PROPERTIES
  PingAnswered
