SPECIFICATION Spec
CONSTANTS
    r1 = r1
    r2 = r2
    s1 = s1
    s2 = s2
    orders = orders
    api = api
    i1 = i1
    i2 = i2
    secret = secret
    pair1 = pair1
    pair2 = pair2
    kid1 = kid1
    iss = iss
    aud = aud
    user = user
    admin = admin
    None = None
    Secrets = {secret}
    KeyPairs = {pair1, pair2}
    KeyIds = {kid1}
    Issuers = {iss}
    Audiences = {aud}
    Roles = {user, admin}
    Requests <- MCRequests
    Services <- MCServices
    Methods = {"GET", "POST", "ALL"}
    Paths = {orders, api}
    Under <- MCUnder
    Instances = {i1, i2}
    Snapshots <- MCSnapshots
    Asks <- MCAsks
    MaxRevision = 2
    Times = {0, 1, 2}
INVARIANTS
    ForwardedIsEntitled
    RoutedMostClosely
    RefusedOnlyIfAllDown
    EvenShare
    EntitledIsNotRefused
\* Every request ends.
CHECK_DEADLOCK FALSE
