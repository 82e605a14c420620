SPECIFICATION LiveSpec

CONSTANTS
  MaxTrades = 1
  HistoryLimit = 100
  MaxQty = 1
  MaxStops = 2
  MaxCandle = 2
  Faults = {"crash"}

PROPERTIES ExternalCloseNoticed
