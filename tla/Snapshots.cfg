SPECIFICATION Spec
CONSTANTS
  anna = anna
  ben = ben
  carl = carl
  Writer = {w1, w2}
  Player = {anna, ben, carl}
  Worlds <- SomeWorlds
  Size = 3
  Epsilon = 1
  CountMod = 3
  MaxSequence = 4
  MaxTime = 2
SYMMETRY Symmetry
CHECK_DEADLOCK FALSE
INVARIANTS
  RingHoldsTheLast
  LookBackIsRight
  DeltaReconstructs
