SPECIFICATION Spec
CONSTANTS
    Handlers = {h1, h2}
    Recoverers = {r1, r2}
    Pids = {p1, p2}
    Nodes = {n1}
    NoThread = NoThread
    NoPid = NoPid
    NoNode = NoNode
    Configs <- NoGpio
    FLAP_THRESHOLD = 6
    FLAP_MAX_RETRIES = 1
    Requests = {}
    Faults = {}
    InOrder = TRUE
    MaxPlugs = 3
    MaxRequests = 0
    MaxInFlight = 1
SYMMETRY Symmetry
INVARIANTS
    Settles
CHECK_DEADLOCK FALSE
