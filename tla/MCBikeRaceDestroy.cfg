CONSTANTS
  Bikers = {b1, b2}
  Laps = 2
  Span = 2
  NoOne = NoOne
SPECIFICATION Spec
INVARIANTS
  DestroyAfterDummies
