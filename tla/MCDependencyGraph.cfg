SPECIFICATION Spec
CONSTANTS
  V = 4
  Threshold = 2
  NumLanes = 3
INVARIANTS StacksHoldComponents
PROPERTIES CirclesAreCut
