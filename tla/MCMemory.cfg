SPECIFICATION Spec
CONSTANTS
  NumProcs = 3
  NumPages = 4
  NumFrames = 2
  MaxSize = 3
  MaxGap = 1
  MaxFrequent = 2
  UsedManagers = {"BestFit", "WorstFit", "QuickFit"}
  UsedPaginators = {"Optimal", "FIFO", "LRU2", "LRU4"}
INVARIANTS TablesAgree MapMatchesTable QuickListsFresh EvictsOldest
PROPERTIES CompactionKeeps
