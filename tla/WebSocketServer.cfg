SPECIFICATION Spec
CONSTANTS
  PlayerId = {a, b}
  Conn = {1, 2, 3}
  NoPlayer = NoPlayer
  NoConn = 0
  MaxSequence = 0
CHECK_DEADLOCK FALSE
INVARIANTS
  RegistryAgrees
PROPERTIES
  BrokenConnectionsLeave
  ImplementsPresence
