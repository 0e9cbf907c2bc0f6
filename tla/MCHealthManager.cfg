SPECIFICATION Spec
CONSTANTS
    n1 = n1
    n2 = n2
    n3 = n3
    k1 = k1
    k2 = k2
    None = None
    Unset = Unset
    Unparsable = Unparsable
    Payloads <- MCPayloads
    Defaults <- MCDefaults
    Notifiers <- MCNotifiers
    Keys = {k1, k2}
    Wanted <- MCWanted
    HealthSettings <- MCHealthSettings
    Hash <- MCHash
    MaxChecks = 3
INVARIANTS
    OneLoopPerTarget
    TargetsAreOfOneSnapshot
    RecordsAreOfTargets
    StatusIsEarned
    WaitsAsLongAsFailing
    AcceptedSettingsRun
SYMMETRY MCSymmetry
\* Every snapshot is delivered and every loop has made its checks.
CHECK_DEADLOCK FALSE
