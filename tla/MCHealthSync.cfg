SPECIFICATION Spec
CONSTANTS
    c1 = c1
    c2 = c2
    c3 = c3
    s1 = s1
    orders = orders
    all = all
    a1 = a1
    http = http
    checked = checked
    closely = closely
    unchecked = unchecked
    Boot = Boot
    None = None
    Calls <- MCCalls
    Services = {s1}
    Routes = {orders}
    Wildcards = {}
    RoleSets = {all}
    Addresses = {a1}
    Schemes = {http}
    Settings = {checked, closely, unchecked}
    AcceptedSettings = {checked, closely, unchecked}
    Registrations <- MCRegistrations
    Deregistrations <- MCDeregistrations
    Payloads = {None}
    Defaults <- MCDefaults
    Unset = Unset
    Unparsable = Unparsable
    HealthSettings <- MCHealthSettings
    HealthOf <- MCHealthOf
    Hash <- MCHash
    MaxChecks = 1
INVARIANTS
    TargetsFollowSnapshot
SYMMETRY MCSymmetry
\* Every call returns.
CHECK_DEADLOCK FALSE
