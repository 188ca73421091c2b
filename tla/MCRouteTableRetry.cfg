CONSTANTS
  d1 = d1
  d2 = d2
  u1 = u1
  u2 = u2
  A = A
  C = C
  S = S
  Ticker = Ticker
  None = None
  Streams <- RetryStreams
  Upstream <- RetryUpstream
  RemoteID <- RetryIDs
  Behind <- RetryChildren
  Peers <- MCPeers
  Workers = {w1}
  MaxUpdates = 1
  MaxTicks = 1
SPECIFICATION FairSpec
PROPERTY FinishesOrStuck
CHECK_DEADLOCK FALSE
