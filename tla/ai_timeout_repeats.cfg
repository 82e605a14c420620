SPECIFICATION Spec
CONSTANTS
  r1 = r1
  r2 = r2
  Runs = {r1, r2}
  Collections = {r1, r2}
  LiveRuns = {r1, r2}
  KeyCount = 1
  EntryKeys = {1}
  MaxAttempts = 2
  MaxLiveCalls = 2
  MaxCost = 4
  Reserve = 2
  MaxActive = 1
PROPERTIES NoRepeatedPurchase
CHECK_DEADLOCK FALSE
