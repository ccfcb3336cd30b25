CONSTANTS
  Bikers = {b1, b2, b3}
  Laps = 2
  Span = 2
  NoOne = NoOne
SPECIFICATION FairSpec
INVARIANTS
  TypeOK
  LoopReadStable
  ClassifyAlone
  NobodyStranded
  NoEarlyEnd
  NeverDies
PROPERTIES
  RefinesRounds
  RaceEnds
