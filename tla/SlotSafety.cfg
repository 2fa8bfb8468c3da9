SPECIFICATION Spec
CONSTANTS
    Handlers = {h1, h2}
    Recoverers = {r1, r2}
    Pids = {p1, p2}
    Nodes = {n1}
    NoThread = NoThread
    NoPid = NoPid
    NoNode = NoNode
    Configs <- EitherGpio
    FLAP_THRESHOLD = 2
    FLAP_MAX_RETRIES = 1
    Requests = {"start", "reset", "monitor", "recover", "release"}
    Faults = {"proxy", "hold", "connect", "crash", "rebind"}
    InOrder = FALSE
    MaxPlugs = 2
    MaxRequests = 2
    MaxInFlight = 1
SYMMETRY Symmetry
INVARIANTS
    TypeOK
    ProxyOwned
    
    TransientStateBacked
    DownloadModeHoldsBoot
CHECK_DEADLOCK FALSE
