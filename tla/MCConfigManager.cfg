SPECIFICATION Spec
CONSTANTS
    c1 = c1
    c2 = c2
    c3 = c3
    c4 = c4
    s1 = s1
    s2 = s2
    orders = orders
    api = api
    all = all
    admin = admin
    a1 = a1
    a2 = a2
    http = http
    https = https
    ok = ok
    bad = bad
    Boot = Boot
    None = None
    Calls <- MCCalls
    Services <- MCServices
    Routes = {orders, api}
    Wildcards = {api}
    RoleSets = {all, admin}
    Addresses = {a1, a2}
    Schemes = {http, https}
    Settings = {ok, bad}
    AcceptedSettings = {ok}
    Registrations <- MCRegistrations
    Deregistrations <- MCDeregistrations
INVARIANTS
    RoutesIndexServices
    WildcardsIndexRoutes
    AddressesAreDistinct
PROPERTIES
    PublishedIsFrozen
    FailsForOwnReason
    RegistrySpec
SYMMETRY MCSymmetry
\* Every call returns.
CHECK_DEADLOCK FALSE
