SPECIFICATION PSpec
CONSTANTS
  NumProcs = 3
  NumCPU = 2
  MaxQuanta = 2
  Priorities = {1}
  Default = 9
  Unit = 6
INVARIANTS StatsExact RingIsQueue
PROPERTIES RefinesCores
