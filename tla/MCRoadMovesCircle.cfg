CONSTANTS
  NumBikers = 4
  Length = 4
  NumLanes = 3
  Laps = 3
  Span = 5
  Slow = 2
  Medium = 1
  Fast = 1
SPECIFICATION Spec
INVARIANTS
  NoCircle
