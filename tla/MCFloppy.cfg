CONSTANTS
    t1 = t1
    t2 = t2
    Drives = {0, 1}
    Tracks = {0, 1}
    Heads = {1}
    Askers = {t1}
    SpinUp = 3
    Settle = 2
    Short = 3
    Long = 4
    MAX_ERRORS = 2
    Requests <- GoodRequests
    Outcomes = {"ok", "bad", "none"}
    WhenBusy = FALSE
    MaxRequests = 2
    MaxFaults = 2
SPECIFICATION FloppySpec
CHECK_DEADLOCK FALSE
INVARIANTS
    CommandIsReady
    HeadInPlace
PROPERTIES
    RequestsEnd
