SPECIFICATION EndpointsSpec
CHECK_DEADLOCK FALSE
CONSTANTS
  MaxFrames = 3
  RenderNodes = 1
  Buffers = {b1, b2}
  Sizes = 2
  MaxDrawn = 3
  MaxPools = 2
  Outputs = {o1}
  Windows = {w1}
  MaxTurns = 2
  ChangeCap = 1
  Wlr = FALSE
  MaxConns = 4
  Talk = {"ping", "connect", "launch", "volume", "load", "pause", "badLoad", "eof"}
  CmdRoom = 1
  MaxTransit = 2
  MaxMessages = 4
  CastServices = {c1, us}
  AirPlayServices = {a1}
  Nameless = {}
  Us = us
  Casts = {s1}
  ChannelRoom = 1
  MaxTidings = 3
INVARIANTS
  EndpointsTypeOK
  OnlyLateCopiesLie
  QuietClientSeesTheDesktop
  OnlyRacesMislead
  OnlyReadersAndHandlersLeak
  FirstSessionIsHeard
  SettledWindowIsRight
PROPERTIES
  DirectStopReturns
  ReadbackEndsUnlessItGrows
  AcceptedIsNotRefused
  
  PingAnsweredUnlessBlocked
