SPECIFICATION StoreSpec
CONSTANTS
  SessionId = {s1, s2, s3}
  PlayerId = {a, b}
  NoSession = NoSession
  NoPlayer = NoPlayer
  Ttl = 1
INVARIANTS
  IndexAgrees
PROPERTIES
  NoResurrection
  ExpiredAreSwept
  StopReturns
