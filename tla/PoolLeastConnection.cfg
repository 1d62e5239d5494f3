SPECIFICATION RotationSpec
CONSTANTS
    N = 2
    Requests = {r1, r2, r3}
    Algorithms <- SharedTickets
    HashSums = {0}
    Modulus = 5
    HealthChecked = FALSE
    Flaky = {}
    MaxMoves = 2
SYMMETRY Symmetry
INVARIANTS
    LeastLoadedButForMoves
    PanicNeedsFirstTargetToMove
    RotationIsFair
