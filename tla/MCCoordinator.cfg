SPECIFICATION FairSpec
CONSTANTS
    r1 = r1
    r2 = r2
    r3 = r3
    s1 = s1
    normal = normal
    hot = hot
    SharedTier = SharedTier
    SharedClient = SharedClient
    None = None
    Requests <- MCRequests
    Services = {s1}
    Redirecting = {r1}
    DedicatedTiers <- MCDedicatedTiers
INVARIANTS
    TypeOK
    WgCountsLeases
    PublishedXorRetired
    LeaseHasAssignedTier
    DrainedIsUnused
PROPERTIES
    NoLeaseAfterRetire
    ReplacedOnlyByAnotherTier
    LifecycleSpec
    DrainedUnlessHeld
\* Every request ends and no client is left to drain.
CHECK_DEADLOCK FALSE
