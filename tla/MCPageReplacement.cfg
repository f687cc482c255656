CONSTANTS
    InsideCount = 4
    Swept = 3
    PageCount = 8
    Pages = {1, 2, 3, 4, 5}
    Requests <- InOrder
    Algorithms = {"O", "F", "S", "U", "C", "I"}
    MaxRuns = 1
SPECIFICATION Spec
CHECK_DEADLOCK FALSE
INVARIANTS
    OptLosesLeast
    LruKeepsRecent
    FirstOfLeast
