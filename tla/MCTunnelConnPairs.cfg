CONSTANTS
  MaxDials = 2
  MaxData = 2
  Writers = {"dialer"}
  AckSize = 2
  Lossy = FALSE
SPECIFICATION Spec
INVARIANTS NoCrossTalk LeftoverIsAwaited
CHECK_DEADLOCK FALSE
