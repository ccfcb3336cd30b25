SPECIFICATION FairSpec
CONSTANTS
  NumProcs = 3
  NumCPU = 2
  MaxQuanta = 2
INVARIANTS TypeOK NobodyLostOrDoubled RunsOnItsCore LeavesWhenAllDone
PROPERTIES RefinesCores EndsOrLosesSignal
