SPECIFICATION Spec
CONSTANTS
    t1 = t1
    t2 = t2
    t3 = t3
    k1 = k1
    k2 = k2
    k3 = k3
    None = None
    Tasks = {t1, t2, t3}
    Blocks = {k1, k2, k3}
    NR_BUFFERS = 2
    Ops = {"bread", "breada", "new", "write", "sync"}
    Uses <- MCUses
    Failing = {"read"}
SYMMETRY Symmetry
\* Two tasks in breada() hold one buffer each and wait for another for ever.
CHECK_DEADLOCK FALSE
INVARIANTS
    CountIsReferences
    OneBufferPerBlock
    KeepsItsBlock
    UnwrittenIsDirty
    SleepsOnlyIfFull
