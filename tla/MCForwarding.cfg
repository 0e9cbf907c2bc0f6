SPECIFICATION Spec
CONSTANTS
    r1 = r1
    r2 = r2
    r3 = r3
    shared = shared
    dedicated = dedicated
    None = None
    Requests <- MCRequests
    Pools <- MCPools
    UpstreamStatuses = {201, 404}
    Refusals = {"not_found", "unavailable"}
INVARIANTS
    OneAnswer
    SuccessIsCopiedOrEmpty
    PoolMetricsAddUp
    NothingLeaks
SYMMETRY MCSymmetry
\* Every request is answered.
CHECK_DEADLOCK FALSE
