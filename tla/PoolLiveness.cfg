SPECIFICATION FairSpec
CONSTANTS
    N = 2
    Requests = {r1}
    Algorithms <- AllAlgorithms
    HashSums = {0, 1}
    Modulus = 2
    HealthChecked = TRUE
    Flaky = {0, 1}
    MaxMoves = 1
PROPERTIES
    SelectionTerminates
    DownEventuallyExcluded
    UpEventuallyReadmitted
    CancelledCheckerStops
