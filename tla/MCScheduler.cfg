SPECIFICATION FairSpec
CONSTANTS
    NTasks = 2
    MaxPriority = 2
    InitPriority = 1
    Increments <- MCIncrements
    Spans = {0, 1}
    Kills = {9, 14}
    SaMasks <- MCSaMasks
    Uses <- MCUses
INVARIANTS
    RunnerRuns
PROPERTIES
    SignalsKept
    NoStarvation
    AlarmWakes
    KilledDies
