SPECIFICATION Spec
CONSTANTS
    r1 = r1
    r2 = r2
    p1 = p1
    p2 = p2
    a1 = a1
    a2 = a2
    n1 = n1
    n2 = n2
    Routes = {r1, r2}
    Pools = {p1, p2}
    Names = {n1, n2}
    NoName = noName
    NoPool = noPool
    None = none
    Addresses = {a1, a2}
    Browsers = {c1}
    Clients = {c1, c2}
    Layouts <- ThreeLayouts
    CookieName <- OwnNames
    MaxGen = 1
    MaxSick = 1
INVARIANTS
    TypeOK
    ServedFromOneSnapshot
    SharedProxy
    CacheBoundedByConfigs
PROPERTY StickyWhileHealthy
