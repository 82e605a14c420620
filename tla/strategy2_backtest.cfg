SPECIFICATION Spec
CONSTANTS
  Hour = 2
  SetupHours = 4
  DayHours = 8
  Hours = 19
  HourlyFrom = 8
  HourMarks = {"dark_red", "light_red"}
  SetupMarks = {"dark_red", "light_red"}
  TrendMarks = {"LONG", "none"}
  Expirations = {0, 2}
INVARIANTS
  TypeOK
  DecisionsUseClosedCandles
  ContextReconstructible
  TradesInOrder
  SetupTradedOnce
  BarsCountClosedCandles
  ExpiryRespected
  CensusOnePerSetup
CHECK_DEADLOCK FALSE
