SPECIFICATION Spec
CONSTANTS
    r1 = r1
    r2 = r2
    s1 = s1
    None = None
    Requests <- MCRequests
    Services <- MCServices
    Policies <- MCPolicies
    Statuses <- MCStatuses
    ReturnDelay = 2
    MaxRevision = 3
    MaxTime = 4
INVARIANTS
    StatePolicyIsOfItsRevision
    AnswerIsOfOwnPolicy
PROPERTIES
    ReturnsAfterDelay
    RevisionNeverGoesBack
SYMMETRY MCSymmetry
