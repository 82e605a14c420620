SPECIFICATION Spec

CONSTANTS
  MaxTrades = 2
  HistoryLimit = 100
  MaxQty = 2
  MaxStops = 3
  MaxCandle = 2
  Faults = {}

INVARIANTS RecordedStopGuards OneEntryPerCandle

PROPERTIES KeepsOneTradeAtATime
