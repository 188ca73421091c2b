CONSTANTS
  d1 = d1
  d2 = d2
  A = A
  C = C
  w1 = w1
  None = None
  Streams = {d1, d2}
  RemoteID <- MCID
  Behind <- MCBehind
  Peers = {A, C}
  Hubs = {A}
  Workers = {w1}
  MaxUpdates = 1
  Capacity = 2
  MaxFaults = 1
SPECIFICATION FairSpec
INVARIANTS TypeOK RestMeansTrue
PROPERTIES KeptAliveIsOnline
CHECK_DEADLOCK FALSE
