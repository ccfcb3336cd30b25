SPECIFICATION Spec
CONSTANTS
  Bikers = {b1, b2, b3}
  Laps = 7
  Span = 5
  Sprint = 2
  MinBikers = 1
  NoBuffer = NoBuffer
SYMMETRY BikerSymmetry
INVARIANTS NothingLost
PROPERTIES ReportsWaitForAll BonusEarned
