CONSTANTS
  MaxDials = 1
  MaxData = 3
  Writers = {"dialer", "acceptor"}
  AckSize = 1
  Lossy = TRUE
SPECIFICATION FairSpec
INVARIANTS TypeOK InOrder GapIsTold
PROPERTIES CloseReleasesPeer
CHECK_DEADLOCK FALSE
