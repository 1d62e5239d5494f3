SPECIFICATION Spec
CONSTANTS
    N = 2
    Requests = {r1, r2}
    Algorithms <- AllAlgorithms
    HashSums = {0, 1}
    Modulus = 3
    HealthChecked = TRUE
    Flaky = {0}
    MaxMoves = 1
SYMMETRY Symmetry
INVARIANTS
    TypeOK
    ActiveMatchesInFlight
    ServedTargetWasHealthy
    CacheMatchesStates
    SelectionCanGoOn
PROPERTIES
    CancelledNeverReadmits
    SelectionIsBounded
    ImplementsPool
