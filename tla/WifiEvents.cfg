SPECIFICATION FairSpec
CONSTANTS
    Macs = {m1}
    Polls = {p1, p2}
    Drivers = {d1}
    NoDriver = NoDriver
    NoMac = NoMac
    Faults = {"lost", "slow", "start"}
    MaxAps = 2
    MaxLeases = 2
INVARIANTS
    EventsAccounted
    NoFormerStation
    AnnouncedIsListed
    TableMatchesLeases
PROPERTIES
    CallsEnd
CHECK_DEADLOCK FALSE
