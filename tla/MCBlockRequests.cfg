SPECIFICATION FairSpec
CONSTANTS
    t1 = t1
    t2 = t2
    b1 = b1
    b2 = b2
    Page = Page
    None = None
    Tasks = {t1, t2}
    BlockTasks = {t1, t2}
    PageTasks = {t2}
    Buffers = {b1, b2}
    SectorOf <- MCSectorOf
    LastSector = 6
    NR_REQUEST = 3
    MAX_ERRORS = 2
    BlockSectors = 2
    PageSectors = 1
\* A task whose wake-up is lost stays asleep.
CHECK_DEADLOCK FALSE
INVARIANTS
    LockedByOne
    CleanMeansWritten
    QueueIsSlots
PROPERTIES
    RequestServed
