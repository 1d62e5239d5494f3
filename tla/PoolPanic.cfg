SPECIFICATION Spec
CONSTANTS
    N = 1
    Requests = {r1, r2}
    Algorithms <- LeastConnection
    HashSums = {0}
    Modulus = 3
    HealthChecked = FALSE
    Flaky = {}
    MaxMoves = 1
INVARIANT HealthyTargetIsSelected
