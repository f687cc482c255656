CONSTANTS
    Cols = 4
    Lines = 3
    Memory = 22
    NPAR = 2
    MaxPar = 20
    TAB = 2
    Seven = 1
    Eight = 2
    Inputs <- SmallInputs
    Echoes <- SmallEchoes
    Stale <- SmallStale
    MaxInputs = 2
SPECIFICATION Spec
INVARIANTS
    InVideoMemory
PROPERTIES
    ImplementsScreen
