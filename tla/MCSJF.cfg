SPECIFICATION FairSpec
CONSTANTS
  NumProcs = 3
  NumCPU = 2
  Ids = {i1, i2, i3}
  Traces <- MCTraces
INVARIANTS TypeOK GetCoreFindsOwn IdleCountExact NobodyLost
PROPERTIES ServesShortest EndsOrLosesSignal
