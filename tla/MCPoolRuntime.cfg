SPECIFICATION Spec
CONSTANTS
    r1 = r1
    r2 = r2
    s1 = s1
    None = None
    SharedClient = SharedClient
    Requests <- MCRequests
    Services = {s1}
    Policies <- MCPolicies
    Statuses <- MCStatuses
    ReturnDelay = 2
    MaxRevision = 2
    MaxTime = 3
PROPERTIES
    PoolIsKeptForDelay
SYMMETRY MCSymmetry
\* Every request ends.
CHECK_DEADLOCK FALSE
