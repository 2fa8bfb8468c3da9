SPECIFICATION FairSpec
CONSTANTS
    MaxSessions = 3
    MaxOutput = 3
    Controls = {"rts"}
INVARIANTS
    IdlePortReleased
    UndisturbedInOrder
    ServedUnlessOverlap
PROPERTIES
    HandedOnOnce
    SessionEnds
    ReadersEnd
CHECK_DEADLOCK FALSE
