SPECIFICATION FairSpec
CONSTANTS
  r1 = r1
  r2 = r2
  Runs = {r1, r2}
  Collections = {r1}
  LiveRuns = {r1, r2}
  KeyCount = 2
  EntryKeys = {1}
  MaxAttempts = 2
  MaxLiveCalls = 2
  MaxCost = 3
  Reserve = 2
  MaxActive = 2
INVARIANTS SpendWithinBudget
PROPERTIES RunsEnd
CHECK_DEADLOCK FALSE
