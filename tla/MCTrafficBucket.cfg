SPECIFICATION Spec
CONSTANTS
    r1 = r1
    r2 = r2
    r3 = r3
    None = None
    Requests <- MCRequests
    BucketCount = 2
    MaxTime = 4
INVARIANTS
    WindowIsExact
SYMMETRY MCSymmetry
\* Every request ends.
CHECK_DEADLOCK FALSE
