SPECIFICATION FairSpec
CONSTANTS
    Threads = {t1, t2, t3}
    Ssids = {s1, s2}
    NoThread = NoThread
    NoSsid = NoSsid
    Programs <- OneMissing
    Requests = {"ap_start", "ap_stop", "sta_join", "sta_leave", "serial", "testing"}
    Faults = {"hostapd", "dnsmasq", "hang", "join", "crash", "shutdown"}
    MaxRequests = 3
INVARIANTS
    StatusTruthful
PROPERTIES
    RefinesRadio
    RequestsEnd
CHECK_DEADLOCK FALSE
