SPECIFICATION RuntimeSpec
CONSTANTS
    Requests = {r1}
    Reloaders = {c1}
    Nobody = nobody
    MaxGen = 2
    Observed = 1
    BackendMayFail = TRUE
PROPERTY ImplementsPool
