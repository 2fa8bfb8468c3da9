SPECIFICATION FairSpec
CONSTANTS
    Readers = {r1}
    Sources = {s1, s2}
    Any = Any
    Limits = {0, 1, 2}
    Capacity = 3
    MaxLines = 4
    MaxClock = 3
INVARIANTS
    NoRepeat
    MissedSharesTimestamp
PROPERTIES
    CatchesUp
