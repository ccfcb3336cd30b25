CONSTANTS
  Bikers = {b1, b2, b3}
  Laps = 4
  Span = 2
  NoOne = NoOne
SPECIFICATION Spec
SYMMETRY Symmetry
INVARIANTS
  ActiveCountExact
