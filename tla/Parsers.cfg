SPECIFICATION ParsersSpec
CONSTANTS
    Plain = {"a", "b"}
    Pattern = "b"
    MaxBytes = 5
    DataBytes = {97, 240}
    Options = {1, 44}
    Requests <- MCRequests
    MaxCommands = 2
    Ssids = {"x"}
    Hidden = ""
    Signals <- MCSignals
    MaxNetworks = 3
    Solids = {"x"}
    MaxContent = 6
INVARIANTS
    LinesIndependentOfChunks
    
    
    
    StoredAsSent
CHECK_DEADLOCK FALSE
