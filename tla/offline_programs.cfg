SPECIFICATION Spec
CONSTANTS
  Length = 3
  Shapes <- MCShapes
  MaxCandles = 12
  RateUnit = 100
  CostModels <- MCCostModels
  CandleHours = 4
  FundingHours = 8
  MonthLength = 4
  Prices = {6, 7, 8, 9, 10, 11, 12, 13, 14, 15, 16, 17}
  Atrs = {1, 2, 5}
  Equities = {40, 100}
  Tick = 3
  Step = 2
  MinNotional = 20
  RiskRate <- OneFifth
  MaxNotional = 120
  AtrMultiple <- ThreeHalves
  BreakevenR <- ThreeHalves
  Interval = 3
  Horizon = 22
  FirstCandle = 3
  MaxPerRequest = 2
  Limits = {1, 3, 4, 5}
  StartTimes = {0, 6}
  EndTimes = {0, 8, 11, 16}
  Names = {s1, s2}
  Timeframes = {h1, h4}
  Versions = {1, 2}
INVARIANTS
  HistoryAgreesWithLive TradesTile CostsOnlyHurt StatisticsReconcile
  PlanWithinLimits FilledRiskWithinATick StopOnLosingSide UnguardedOnlyBySlippage
  PagesComplete
  BundleIsWhole LoadsAreReproducible
PROPERTIES
  ClosedTradesAreFinal StopOnlyTightens SnapshotsAreFrozen KeepsFrozenStore
CHECK_DEADLOCK FALSE
