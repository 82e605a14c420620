SPECIFICATION Spec
CONSTANTS
  r1 = r1
  r2 = r2
  r3 = r3
  Runs = {r1, r2, r3}
  Collections = {r1, r2}
  LiveRuns = {r1, r2}
  KeyCount = 2
  EntryKeys = {1, 2}
  MaxAttempts = 2
  MaxLiveCalls = 2
  MaxCost = 2
  Reserve = 1
  MaxActive = 1
INVARIANTS TypeOK ReportAgreesWithStore
PROPERTIES NoPurchaseAfterCut
SYMMETRY CollectorSymmetry
CHECK_DEADLOCK FALSE
