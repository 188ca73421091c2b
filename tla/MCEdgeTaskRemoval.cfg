CONSTANTS
  A = A
  x = x
  y = y
  v = v
  Absent = Absent
  Unparsable = Unparsable
  NoCache = NoCache
  Clusters = {A}
  Names = {x}
  Contents = {v}
  Specs <- OnceSpecs
  MaxEdits = 0
  MaxFaults = 0
  MaxLost = 0
  MaxFlaps = 0
  MaxCrashes = 0
SPECIFICATION FairSpec
PROPERTIES RecordedIsRemoved
CHECK_DEADLOCK FALSE
