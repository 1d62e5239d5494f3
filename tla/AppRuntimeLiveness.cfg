SPECIFICATION FairSpec
CONSTANTS
    Requests = {}
    Reloaders = {c1, c2}
    Nobody = nobody
    MaxGen = 2
    BackendMayFail = TRUE
PROPERTIES
    SupersededCheckerStops
    CurrentPoolRecovers
