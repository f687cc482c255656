CONSTANTS
    t1 = t1
    t2 = t2
    t3 = t3
    Tasks = {t1, t2, t3}
    None = None
    a = a
    b = b
    Chars = {a, b}
    Nul = a
    PAGE_SIZE = 4
    ReadSizes = {4}
    Payloads <- MCPayloads
    Uses <- MCUses
SPECIFICATION FairSpec
CHECK_DEADLOCK FALSE
INVARIANTS
    CountIsEnds
    SleepsOnlyIfMust
PROPERTIES
    ImplementsQueue
    CallEndsAlone
