CONSTANTS
    t1 = t1
    t2 = t2
    None = None
    Tasks = {t1, t2}
    NR_INODE = 5
    NInodes = 3
    NBlocks = 4
    Width = 4
    NR_OPEN = 2
    NR_FILE = 2
    Uses <- SmallUses
SPECIFICATION Spec
INVARIANTS
    CountIsReferences
    UnusedIsClean
    OneSlotPerInode
    Whole
PROPERTIES
    CallsReturn
