SPECIFICATION Spec
CONSTANTS
    t1 = t1
    t2 = t2
    t3 = t3
    code = code
    stack = stack
    Tasks = {t1, t2}
    Pages = {code, stack}
    FilePages = {code}
    NTABLES = 2
    TableOf <- TwoTables
    NFRAMES = 6
    COUNTS = 4
SYMMETRY Symmetry
CONSTRAINT NotWrapped
VIEW WithoutData
\* A panic, or a write to the page directory, is the end.
CHECK_DEADLOCK FALSE
INVARIANTS
    NeverTooLow
    WritableIsAlone
    NoPanic
