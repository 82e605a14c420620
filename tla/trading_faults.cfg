SPECIFICATION Spec

CONSTANTS
  MaxTrades = 2
  HistoryLimit = 1
  MaxQty = 1
  MaxStops = 2
  MaxCandle = 2
  Faults = {"crash", "database"}

INVARIANTS TypeOK AtMostOneActive NoStopOutlivesItsTrade CloseReasonFits

PROPERTIES KilledStaysOut ProcessedCandleIsDone

CONSTRAINT FirstTradeIsLong
