SPECIFICATION Spec
CONSTANTS
    x = x
    y = y
    seg1 = seg1
    seg2 = seg2
    empty = empty
    host1 = host1
    host2 = host2
    port = port
    Sources = {"a", "a1"}
    Ids = {x, y}
    Bodies <- RouteBodies
    MaxRoutes <- Bound
    FileOrder <- Order
    GlobalRouteID <- IdOrder
    RequestHosts <- Hosts
    RequestPaths <- ReqPaths
    Segments = {seg1, seg2, empty}
    Asterisk = asterisk
    NoPath = noPath
    NoPort = noPort
    EmptyPort = emptyPort
    NoName = noName
    NoRoute = noRoute
INVARIANTS
    TypeOK
    MostSpecificWins
PROPERTY EditsAreLocal
