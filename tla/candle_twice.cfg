SPECIFICATION Spec

CONSTANTS
  MaxTrades = 2
  HistoryLimit = 100
  MaxQty = 1
  MaxStops = 2
  MaxCandle = 1
  Faults = {"crash"}

INVARIANTS OneEntryPerCandle
