CONSTANTS
  NumBikers = 4
  Length = 4
  NumLanes = 3
  Laps = 3
  Span = 3
  Slow = 2
  Medium = 1
  Fast = 1
SPECIFICATION FairSpec
INVARIANTS
  TypeOK
  RoadMatchesBikers
  LaneCountsExact
  NoUnlockLost
  HandshakesOver
  AheadHasMoved
PROPERTIES
  EndsOrCircles
CONSTRAINT OthersCatchUp
\* A circle of waits stops the round.
CHECK_DEADLOCK FALSE
