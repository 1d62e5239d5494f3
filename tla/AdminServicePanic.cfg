SPECIFICATION Spec
CONSTANTS
    Namespaces = {ns1, ns2}
    RouteIds = {rt1}
    PoolIds = {p1}
    PoolKinds <- AllKinds
    Absent = absent
    Torn = torn
    NoPool = noPool
    Callers = {c1, c2}
    Nobody = nobody
    RestoreMayFail = FALSE
SYMMETRY Symmetry
INVARIANT AppliedConfigRuns
CHECK_DEADLOCK FALSE
