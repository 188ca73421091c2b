CONSTANTS
  A = A
  x = x
  y = y
  v = v
  Absent = Absent
  Unparsable = Unparsable
  NoCache = NoCache
  Clusters = {A}
  Names = {x, y}
  Contents = {v}
  Specs <- EditSpecs
  MaxEdits = 1
  MaxFaults = 1
  MaxLost = 1
  MaxFlaps = 1
  MaxCrashes = 1
SPECIFICATION FairSpec
INVARIANTS TypeOK UneditedRunningMeansThere RecordHonest
PROPERTIES OnlineTriggers ImplementsLife Settles
CHECK_DEADLOCK FALSE
