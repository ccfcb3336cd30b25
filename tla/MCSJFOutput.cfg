SPECIFICATION Spec
CONSTANTS
  NumProcs = 2
  NumCPU = 2
  Ids = {i1, i2}
  Traces <- MCPairs
INVARIANTS AllFinishedBeforeOutput
