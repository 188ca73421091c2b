SPECIFICATION FairSpec
CONSTANTS
    Tenants = {"A"}
    Envs = {"e", "f"}
    Spaces = {"n", "m"}
    TenantOf <- MCTenantOf
    SpaceOf <- MCSpaceOf
    Amounts = {1, 2}
    Initial <- MCInitial
    Capacity = 4
    Requests = {1, 2}
    Kinds = {"post", "put", "pass", "apply", "delete"}
    Cost <- MCCost
    MaxOps = 6
    MaxFaults = 1
INVARIANTS TypeOK HardIsRecorded EnvironmentsFit
PROPERTY Settles
CHECK_DEADLOCK FALSE
