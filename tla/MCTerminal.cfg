CONSTANTS
    t1 = t1
    t2 = t2
    Tasks = {t1, t2}
    LOW = 2
    STARTUP = 1
    SPARE = 1
    Workloads <- SmallWorkloads
SPECIFICATION TtySpec
CHECK_DEADLOCK FALSE
INVARIANTS
    LineEndsCounted
    OutputInOrder

    
    
