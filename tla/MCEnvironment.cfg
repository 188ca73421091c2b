CONSTANTS
  Envs = {"e"}
  Namespaces = {"n", "m"}
  Existing = {"n"}
  Requests = {1, 2, 3}
  MaxFailures = 1
SPECIFICATION FairSpec
INVARIANTS TypeOK RowsAgree
PROPERTIES TakesItsOwn Settles
ACTION_CONSTRAINT InOrder
CHECK_DEADLOCK FALSE
