SPECIFICATION Spec
CONSTANTS
  PlayerId = {a, b, c, d}
  Elo = {0, 1}
  Region = {any, eu, us}
  AnyRegion = any
  NoElo = NoElo
  BaseTolerance = 0
  ToleranceStep = 1
  MaxWait = 1
INVARIANTS
  QueueConsistent
PROPERTIES
  MatchesAreFair
  NothingLeftBehind
SYMMETRY MCSymmetry
