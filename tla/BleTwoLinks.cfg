SPECIFICATION Spec
CONSTANTS
    Threads = {t1}
    Clients = {c1, c2}
    Addresses = {a1, a2}
    NoClient = NoClient
    NoAddress = NoAddress
    Faults = {}
INVARIANTS
    OneConnection
