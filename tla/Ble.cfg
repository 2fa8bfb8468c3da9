SPECIFICATION FairSpec
CONSTANTS
    Threads = {t1, t2, t3}
    Clients = {c1, c2}
    Addresses = {a1, a2}
    NoClient = NoClient
    NoAddress = NoAddress
    Faults = {"slow", "drop"}
INVARIANTS
    
    ScanningBacked
PROPERTIES
    OperationsEnd
