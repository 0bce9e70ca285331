CONSTANTS
  Belv = Belv  Wolv = Wolv  Citadel = Citadel  Null = Null
  Sessions = {Belv, Wolv, Citadel}
  Script <- SmallRun
  Levels = {1, 2}
  Listeners = {Wolv}
  Listening = {{Wolv}}
  StopId = 3
  FallOff = {"null"}
SPECIFICATION FairSpec
PROPERTIES RunEnds
CHECK_DEADLOCK FALSE
