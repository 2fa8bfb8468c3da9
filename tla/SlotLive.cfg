SPECIFICATION FairSpec
CONSTANTS
    Handlers = {h1, h2}
    Recoverers = {r1, r2}
    Pids = {p1, p2}
    Nodes = {n1}
    NoThread = NoThread
    NoPid = NoPid
    NoNode = NoNode
    Configs <- AnyConfig
    FLAP_THRESHOLD = 2
    FLAP_MAX_RETRIES = 1
    Requests = {"stop", "recover", "release"}
    Faults = {"hold", "release", "unbind"}
    InOrder = TRUE
    MaxPlugs = 2
    MaxRequests = 1
    MaxInFlight = 1
INVARIANTS
    RecoveryHasNoProxy
PROPERTIES
    HandlersEnd
    RecoveryEnds
CHECK_DEADLOCK FALSE
