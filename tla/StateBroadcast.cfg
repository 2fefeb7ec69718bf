SPECIFICATION Spec
CONSTANTS
  Conn = {c, d}
  MaxTick = 2
CHECK_DEADLOCK FALSE
INVARIANTS
  WriterAwake
  NothingLost
  StateBeforeDeath
PROPERTIES
  ImplementsFeed
