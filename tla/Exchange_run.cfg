CONSTANTS
  Belv = Belv  Wolv = Wolv  Citadel = Citadel  Null = Null
  Sessions = {Belv, Wolv}
  Script <- TwoLevels
  Levels = {1, 2}
  Listeners = {Belv, Wolv}
  Listening <- OneOrTwo
  StopId = 5
  FallOff = {"null", "crash"}
SPECIFICATION FairSpec
INVARIANTS TypeOK Conservation MarketIsBook OnePlace SessionPriority NoneOverlooked OwnFillsOnce WithdrawnWasAsked
PROPERTIES ScansByPrice LevelsAreFifo ConsumerStops FillEndsRun
CHECK_DEADLOCK FALSE
