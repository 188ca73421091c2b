CONSTANTS
  d1 = d1
  d2 = d2
  u1 = u1
  u2 = u2
  A = A
  C = C
  S = S
  Ticker = Ticker
  None = None
  Streams <- HubStreams
  Upstream <- HubUpstream
  RemoteID <- HubIDs
  Behind <- HubChildren
  Peers <- MCPeers
  Workers = {w1}
  MaxUpdates = 1
  MaxTicks = 0
SPECIFICATION Spec
INVARIANTS TypeOK RouteToLiveTunnel ConnectedIsRoutable WedgedOnlyAfterDisconnect NoEcho
PROPERTIES ImplementsDirectory
CHECK_DEADLOCK FALSE
