SPECIFICATION Spec
CONSTANTS
    Requests = {r1, r2}
    Reloaders = {c1, c2}
    Nobody = nobody
    MaxGen = 2
    BackendMayFail = TRUE
SYMMETRY Symmetry
INVARIANTS
    TypeOK
    OneLiveChecker
    ReloadIsOneChange
    NoCheckerOutlivesRun
    CurrentPoolNotPoisoned
    CountsPerGeneration
