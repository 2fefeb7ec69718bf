SPECIFICATION UdpSpec
CONSTANTS
  PlayerId = {a, b}
  NoPlayer = NoPlayer
  e1 = e1
  e2 = e2
  e3 = e3
  Endpoint <- MCEndpoint
  NoEndpoint = NoEndpoint
  Key = {1, 2, 3}
  EndpointHash <- MCHash
  MaxSequence = 2
INVARIANTS
  TablesAgree
PROPERTIES
  AppliedOnce
  OnlyItsAddressSpeaks
