SPECIFICATION Spec
CONSTANTS
    Tenants = {"A", "B"}
    Envs = {}
    Spaces = {"n", "m"}
    TenantOf <- MCTenantOf
    SpaceOf <- MCSpaceOf
    Amounts = {1, 2, 3}
    Initial <- MCInitial
    Capacity = 4
    Requests = {1}
    Kinds = {"put"}
    Cost <- MCOneEach
    MaxOps = 1
    MaxFaults = 0
INVARIANT WithinCapacity
CHECK_DEADLOCK FALSE
